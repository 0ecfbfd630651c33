--------------------------- MODULE EmbeddingPool ---------------------------
(***************************************************************************)
(* Embedding the chunks of a generation: the publication                   *)
(* (src/src/intelligence/retrieval/publication.ts), the pool it shares     *)
(* with queries (embedding.ts) and the session that owns the one native    *)
(* thread of the model (worker-session.ts), which quarantines a thread     *)
(* until it has ended.  Tasks are numbers: the chunks first, in order,     *)
(* then the texts of queries.                                              *)
(***************************************************************************)
EXTENDS Naturals, Sequences, FiniteSets, SequencesExt

CONSTANTS Chunks,        \* the number of chunks
          Queries,       \* the number of queries' texts
          Workers,       \* config.workers
          MaxQueue, BatchSize, Retries,
          MaxFaults      \* failures of the thread, of the model or of the store

VARIABLES task,          \* the state of each task
          attempts,
          queue,
          batch,         \* what each drain has taken, << >> when it does not run
          call,          \* how the session's call of each drain stands
          thread,        \* the current thread, 0 when there is none
          alive,         \* the threads that have not ended
          retirement,    \* "none", "running" or "failed"
          poolState,     \* "open", "closing", "ending", "closed" or "gave up"
          job, rows,     \* the job of each chunk and the chunks with a row
          aborted,       \* the publication's signal
          poolFaults

session     == <<call, thread, alive, retirement>>
publication == <<job, rows, aborted>>
vars        == <<task, attempts, queue, batch, session, poolState, publication, poolFaults>>

Chunk == 1..Chunks
Tasks == 1..(Chunks + Queries)
Drain == 1..Workers

EmbeddingPoolAssumption ==
    /\ {Chunks, Queries, MaxQueue, Retries, MaxFaults} \subseteq Nat
    /\ {Workers, BatchSize} \subseteq Nat \ {0}

TypeOK ==
    /\ task \in [Tasks -> {"new", "job", "queued", "running", "embedded", "failed", "cancelled",
                           "done", "thrown"}]
    /\ attempts \in [Tasks -> 0..(Retries + 1)] /\ queue \in Seq(Tasks)
    /\ batch \in [Drain -> Seq(Tasks)]
    /\ call \in [Drain -> {"none", "pending", "waiting", "resolved", "rejected"}]
    /\ thread \in Nat /\ alive \subseteq Nat /\ retirement \in {"none", "running", "failed"}
    /\ poolState \in {"open", "closing", "ending", "closed", "gave up"}
    /\ job \in [Chunk -> {"none", "pending", "succeeded", "failed"}] /\ rows \subseteq Chunk
    /\ aborted \in BOOLEAN

Init ==
    /\ task = [t \in Tasks |-> "new"] /\ attempts = [t \in Tasks |-> 0] /\ queue = << >>
    /\ batch = [w \in Drain |-> << >>] /\ call = [w \in Drain |-> "none"]
    /\ thread = 0 /\ alive = {} /\ retirement = "none" /\ poolState = "open"
    /\ job = [c \in Chunk |-> "none"] /\ rows = {} /\ aborted = FALSE /\ poolFaults = 0

Faulty    == poolFaults < MaxFaults /\ poolFaults' = poolFaults + 1
Settled(t) == task[t] \in {"failed", "cancelled", "done", "thrown"} \/ (task[t] = "embedded" /\ t \notin Chunk)
Cancelled(t) == aborted /\ t \in Chunk

-----------------------------------------------------------------------------
(* The session.  Several drains may call it; one thread serves them.       *)

(* Mutant: a call does not wait for the thread that is being ended.        *)
QuarantinedOnceFailed == retirement = "failed"

Quarantined == retirement # "none"

NewThread == IF thread = 0 THEN 1 + Cardinality(alive) ELSE thread

(* The calls of the drains in W reach the session; with `refuse` it is     *)
(* over its bytes or cannot start a thread.                                *)
Called(W, refuse) ==
    IF poolState \in {"ending", "closed", "gave up"} \/ retirement = "failed" \/ refuse
    THEN /\ call' = [w \in Drain |-> IF w \in W THEN "rejected" ELSE call[w]]
         /\ UNCHANGED <<thread, alive>>
    ELSE IF Quarantined
    THEN /\ call' = [w \in Drain |-> IF w \in W THEN "waiting" ELSE call[w]]
         /\ UNCHANGED <<thread, alive>>
    ELSE /\ call' = [w \in Drain |-> IF w \in W THEN "pending" ELSE call[w]]
         /\ thread' = IF W = {} THEN thread ELSE NewThread
         /\ alive' = IF W = {} THEN alive ELSE alive \cup {NewThread}

(* The thread failed, left, broke the protocol or did not answer in time.  *)
Fail ==
    /\ thread # 0 /\ Faulty
    /\ thread' = 0 /\ retirement' = "running"
    /\ call' = [w \in Drain |-> IF call[w] = "pending" THEN "rejected" ELSE call[w]]
    /\ UNCHANGED <<task, attempts, queue, batch, alive, poolState, publication>>

(* The thread has ended: the calls that wait are made again.               *)
Retired ==
    /\ retirement # "none"
    /\ retirement' = "none"
    /\ LET W == {w \in Drain : call[w] = "waiting"}
           n == IF W = {} THEN 0 ELSE 1
       IN /\ call' = [w \in Drain |-> IF w \in W THEN "pending" ELSE call[w]]
          /\ thread' = n /\ alive' = 1..n
    /\ poolState' = IF poolState = "ending" THEN "closed" ELSE poolState
    /\ UNCHANGED <<task, attempts, queue, batch, publication, poolFaults>>

RetirementFails ==
    /\ retirement = "running" /\ Faulty
    /\ retirement' = "failed"
    /\ call' = [w \in Drain |-> IF call[w] = "waiting" THEN "rejected" ELSE call[w]]
    /\ poolState' = IF poolState = "ending" THEN "gave up" ELSE poolState
    /\ UNCHANGED <<task, attempts, queue, batch, thread, alive, publication>>

WaitTimesOut(w) ==
    /\ call[w] = "waiting" /\ Faulty
    /\ call' = [call EXCEPT ![w] = "rejected"]
    /\ UNCHANGED <<task, attempts, queue, batch, thread, alive, retirement, poolState, publication>>

Answer(w) ==
    /\ call[w] = "pending" /\ thread # 0
    /\ \/ call' = [call EXCEPT ![w] = "resolved"] /\ UNCHANGED poolFaults
       \/ call' = [call EXCEPT ![w] = "rejected"] /\ Faulty
    /\ UNCHANGED <<task, attempts, queue, batch, thread, alive, retirement, poolState, publication>>

-----------------------------------------------------------------------------
(* The pool.                                                               *)

Adaptive(n) ==
    LET share == (n + Workers - 1) \div Workers
        size  == IF share = 0 THEN 1 ELSE share
    IN IF size < BatchSize THEN size ELSE BatchSize

(* schedule(): the idle drains take what is queued, in their order.        *)
Taken(b, q, w) ==
    IF b[w] # << >> \/ q = << >> THEN [b |-> b, q |-> q]
    ELSE LET n == IF Adaptive(Len(q)) < Len(q) THEN Adaptive(Len(q)) ELSE Len(q)
         IN [b |-> [b EXCEPT ![w] = SubSeq(q, 1, n)], q |-> SubSeq(q, n + 1, Len(q))]

Scheduled(b, q) ==
    FoldLeft(LAMBDA s, w : Taken(s.b, s.q, w), [b |-> b, q |-> q], [w \in Drain |-> w])

(* The tasks' states after the drains have taken theirs.                   *)
Running(s, b) ==
    [t \in Tasks |-> IF \E w \in Drain : t \in ToSet(b[w]) /\ s[t] = "queued" THEN "running"
                     ELSE s[t]]

Embed(t) ==
    /\ task[t] = IF t \in Chunk THEN "job" ELSE "new"
    /\ IF poolState # "open" \/ Cancelled(t) \/ Len(queue) >= MaxQueue
       THEN /\ task' = [task EXCEPT ![t] = IF Cancelled(t) THEN "cancelled" ELSE "failed"]
            /\ UNCHANGED <<queue, batch, session, poolFaults>>
       ELSE LET next == Scheduled(batch, Append(queue, t)) IN
            /\ queue' = next.q /\ batch' = next.b
            /\ task' = Running([task EXCEPT ![t] = "queued"], next.b)
            /\ \E refuse \in BOOLEAN :
                  /\ IF refuse THEN Faulty ELSE UNCHANGED poolFaults
                  /\ Called({w \in Drain : next.b[w] # batch[w]}, refuse)
            /\ UNCHANGED retirement
    /\ UNCHANGED <<attempts, poolState, publication>>

Retried(t) == poolState = "open" /\ ~Cancelled(t) /\ attempts[t] < Retries

(* A drain goes on after its call: it settles or requeues its batch, and   *)
(* takes another unless the pool was closed.                               *)
Continue(w) ==
    /\ call[w] \in {"resolved", "rejected"}
    /\ LET mine  == ToSet(batch[w])
           again == IF call[w] = "resolved" THEN << >>
                    ELSE SelectSeq(batch[w], LAMBDA t : task[t] = "running" /\ Retried(t))
           after == [t \in Tasks |->
                       IF t \notin mine \/ task[t] # "running" THEN task[t]
                       ELSE IF Cancelled(t) THEN "cancelled"
                       ELSE IF call[w] = "resolved" THEN "embedded"
                       ELSE IF t \in ToSet(again) THEN "queued"
                       ELSE IF poolState # "open" THEN "cancelled" ELSE "failed"]
           idle  == [batch EXCEPT ![w] = << >>]
           own   == IF poolState = "open" THEN Taken(idle, queue \o again, w)
                    ELSE [b |-> idle, q |-> queue]
           next  == IF poolState = "open" THEN Scheduled(own.b, own.q) ELSE own
       IN /\ queue' = next.q /\ batch' = next.b
          /\ task' = Running(after, next.b)
          /\ attempts' = [t \in Tasks |-> IF t \in mine /\ call[w] = "rejected"
                                          THEN attempts[t] + 1 ELSE attempts[t]]
          /\ IF next.b[w] = << >>
             THEN call' = [call EXCEPT ![w] = "none"] /\ UNCHANGED <<thread, alive>>
             ELSE Called({w}, FALSE)
    /\ UNCHANGED <<retirement, poolState, publication, poolFaults>>

Close ==
    /\ poolState = "open"
    /\ poolState' = "closing" /\ queue' = << >>
    /\ task' = [t \in Tasks |-> IF t \in ToSet(queue) THEN "cancelled" ELSE task[t]]
    /\ UNCHANGED <<attempts, batch, session, publication, poolFaults>>

(* When the drains are done the session is closed, and its thread ended.   *)
CloseProvider ==
    /\ poolState = "closing" /\ \A w \in Drain : batch[w] = << >>
    /\ IF thread = 0 /\ retirement = "none"
       THEN poolState' = "closed" /\ UNCHANGED <<thread, retirement>>
       ELSE IF retirement = "failed"
       THEN poolState' = "gave up" /\ UNCHANGED <<thread, retirement>>
       ELSE poolState' = "ending" /\ thread' = 0 /\ retirement' = "running"
    /\ UNCHANGED <<task, attempts, queue, batch, call, alive, publication, poolFaults>>

CloseTimesOut ==
    /\ poolState = "ending" /\ Faulty
    /\ poolState' = "gave up"
    /\ UNCHANGED <<task, attempts, queue, batch, session, publication>>

-----------------------------------------------------------------------------
(* The publication of the chunks, in groups of what the pool can hold.     *)

Group(c) == (c - 1) \div (Workers + MaxQueue)

Begin(c) ==
    /\ task[c] = "new"
    /\ \A d \in Chunk : Group(d) < Group(c) => task[d] \in {"failed", "done"}
    /\ IF aborted THEN task' = [task EXCEPT ![c] = "cancelled"] /\ UNCHANGED job
       ELSE task' = [task EXCEPT ![c] = "job"] /\ job' = [job EXCEPT ![c] = "pending"]
    /\ UNCHANGED <<attempts, queue, batch, session, poolState, rows, aborted, poolFaults>>

Store(c) ==
    /\ task[c] = "embedded"
    /\ IF aborted THEN task' = [task EXCEPT ![c] = "cancelled"] /\ UNCHANGED <<rows, poolFaults>>
       ELSE \/ rows' = rows \cup {c} /\ UNCHANGED <<task, poolFaults>> /\ c \notin rows
            \/ task' = [task EXCEPT ![c] = "thrown"] /\ Faulty /\ UNCHANGED rows
    /\ UNCHANGED <<attempts, queue, batch, session, poolState, job, aborted>>

Succeed(c) ==
    /\ task[c] = "embedded" /\ c \in rows /\ ~aborted
    /\ task' = [task EXCEPT ![c] = "done"] /\ job' = [job EXCEPT ![c] = "succeeded"]
    /\ UNCHANGED <<attempts, queue, batch, session, poolState, rows, aborted, poolFaults>>

Failed(c) ==
    /\ task[c] = "failed" /\ job[c] = "pending"
    /\ IF aborted THEN task' = [task EXCEPT ![c] = "cancelled"] /\ UNCHANGED job
       ELSE job' = [job EXCEPT ![c] = "failed"] /\ UNCHANGED task
    /\ UNCHANGED <<attempts, queue, batch, session, poolState, rows, aborted, poolFaults>>

(* The signal takes the chunks that are queued or running with it.         *)
Abort ==
    /\ ~aborted /\ aborted' = TRUE
    /\ queue' = SelectSeq(queue, LAMBDA t : t \notin Chunk)
    /\ task' = [t \in Tasks |-> IF t \in Chunk /\ task[t] \in {"queued", "running"}
                                THEN "cancelled" ELSE task[t]]
    /\ UNCHANGED <<attempts, batch, session, poolState, job, rows, poolFaults>>

Over == poolState \in {"closed", "gave up"} /\ (\A t \in Tasks : Settled(t) \/ task[t] = "new")
        /\ UNCHANGED vars

Next ==
    \/ \E t \in Tasks : Embed(t)
    \/ \E w \in Drain : Answer(w) \/ Continue(w) \/ WaitTimesOut(w)
    \/ \E c \in Chunk : Begin(c) \/ Store(c) \/ Succeed(c) \/ Failed(c)
    \/ Fail \/ Retired \/ RetirementFails \/ Close \/ CloseProvider \/ CloseTimesOut \/ Abort \/ Over

Spec == Init /\ [][Next]_vars

-----------------------------------------------------------------------------
(* A native thread is replaced only when it has ended.                     *)
OneModelThread == Cardinality(alive) <= 1 /\ (thread # 0 => alive = {thread})

(* What is queued will be taken, what is running has a call under way,     *)
(* and nothing is in two places.                                           *)
NothingIsStuck ==
    /\ queue # << >> => poolState = "open" /\ \A w \in Drain : batch[w] # << >>
    /\ \A t \in Tasks : task[t] = "running" =>
          Cardinality({w \in Drain : t \in ToSet(batch[w])}) = 1
    /\ \A t \in Tasks : task[t] = "queued" <=> t \in ToSet(queue)
    /\ \A w \in Drain : /\ batch[w] # << >> <=> call[w] # "none"
                        /\ call[w] = "pending" => thread # 0
                        /\ call[w] = "waiting" => retirement = "running"
                        /\ Len(batch[w]) <= BatchSize

(* A job that succeeded has its row; a pool that is closed has ended its   *)
(* thread and settled what it was given.                                   *)
OutcomesAreTrue ==
    /\ \A c \in Chunk : job[c] = "succeeded" <=> task[c] = "done"
    /\ {c \in Chunk : job[c] = "succeeded"} \subseteq rows
    /\ poolState = "closed" => alive = {}
    /\ poolState \in {"closed", "gave up"} => \A t \in Tasks : task[t] \notin {"queued", "running"}

EmbeddingsAreSound == OneModelThread /\ NothingIsStuck /\ OutcomesAreTrue
=============================================================================
