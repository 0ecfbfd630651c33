----------------------------- MODULE ParserPool -----------------------------
(***************************************************************************)
(* The parser worker pool (intelligence/parser/pool.ts): a queue of parse  *)
(* jobs served by at most MaxWorkers threads, with per-job cancellation    *)
(* (timeout or abort), replacement of failed workers, and closing with or  *)
(* without draining.                                                       *)
(*                                                                         *)
(* Every handler runs to completion on the event loop, so a handler is one *)
(* action; the code's private methods are operators from pool to pool, in  *)
(* the order the handler calls them.  A job is cancelled by terminating    *)
(* the thread it runs on, and the thread keeps its place in the bound      *)
(* until it has physically ended: the pool counts it in #retirements.  A   *)
(* thread whose terminate() rejects never leaves that set ("stuck").       *)
(*                                                                         *)
(* Left out: the parse cache, whose key is a digest of all that determines *)
(* the answer, and a postMessage of a parse request that throws, which     *)
(* worker threads do for values that cannot be cloned and requests can.    *)
(***************************************************************************)
EXTENDS Integers, FiniteSets, Sequences, SequencesExt, FiniteSetsExt, Functions

CONSTANTS
  Job,          \* parse requests
  Closer,       \* calls of close()
  Large,        \* those with a large source; the source of any other is one byte
  LargeBytes,   \* the size of a large source
  MinWorkers, MaxWorkers, QueueLimit, MaxBytes,   \* the pool's options
  MaxFaults,    \* bound: failed workers, spawns and terminations
  Idle          \* the jobId of a worker that runs nothing

ASSUME PoolAssumption ==
  /\ Large \subseteq Job /\ LargeBytes \in Nat \ {0}
  /\ MinWorkers \in Nat /\ MaxWorkers \in Nat \ {0} /\ MinWorkers <= MaxWorkers
  /\ QueueLimit \in Nat \ {0} /\ MaxBytes \in Nat
  /\ MaxFaults \in Nat
  /\ Idle \notin Job /\ Job \cap Closer = {}

VARIABLES
  pool,         \* the fields of ParserWorkerPool
  closer,       \* the progress of every call of close()
  fate,         \* what the promise of each job says
  faults        \* faults so far

vars == <<pool, closer, fate, faults>>

Slot == [ready : BOOLEAN, job : Job \cup {Idle}]

\* An #jobs map is a sequence, its insertion order; #retirements is two counts.
Pool == [state : {"open", "closing", "closed"},
         workers : SeqOf(Slot, MaxWorkers),
         retiring : 0 .. MaxWorkers, stuck : 0 .. MaxWorkers,
         pending : SeqOf(Job, QueueLimit), jobs : SeqOf(Job, QueueLimit),
         out : 0 .. MaxBytes,
         woken : BOOLEAN]       \* drain waiters have been resolved

Live(p) == Len(p.workers) + p.retiring + p.stuck

IdleSlots(p) ==
  {i \in DOMAIN p.workers : p.workers[i].ready /\ p.workers[i].job = Idle}

\* The source size of each job, and the byte reservations of a set of them.
Bytes == [j \in Job |-> IF j \in Large THEN LargeBytes ELSE 1]
SumBytes(S) == Cardinality(S \ Large) + LargeBytes * Cardinality(S \cap Large)

Running(p) == {p.workers[i].job : i \in DOMAIN p.workers} \ {Idle}

-----------------------------------------------------------------------------
\* The private methods.  Then(p, Step) is Step(p): a call after the ones that
\* made p (bound by a comprehension so that TLC evaluates p once).

Then(p, Step(_)) == CHOOSE r \in {Step(q) : q \in {p}} : TRUE

Forget(p, j) == [p EXCEPT !.jobs = RemoveFirst(@, j), !.out = @ - Bytes[j]]

RemoveWorker(p, i) ==
  [p EXCEPT !.workers = RemoveAt(@, i), !.retiring = @ + 1]

\* Mutant: the drain waiters are left to the settlement of the last job.
TerminateAllQuietly(p) ==
  [p EXCEPT !.state = "closed", !.workers = <<>>, !.retiring = @ + Len(p.workers)]

TerminateAll(p) ==
  [p EXCEPT !.state = "closed", !.workers = <<>>,
            !.retiring = @ + Len(p.workers), !.woken = TRUE]

FailAll(p) == TerminateAll([p EXCEPT !.jobs = <<>>, !.pending = <<>>, !.out = 0])

Grow(p, n) ==
  [p EXCEPT !.workers = @ \o [i \in 1 .. n |-> [ready |-> FALSE, job |-> Idle]]]

\* Asking the factory for n more workers, one after another: it fails at the one
\* that would be more than made.
Spawn(p, n, made) ==
  IF n > 0 /\ Len(p.workers) + n > made
  THEN FailAll(Grow(p, Max({0, made - Len(p.workers)})))
  ELSE Grow(p, n)

\* The waiting jobs go, in order, to the idle workers, in order.
Assign(p) ==
  LET rank(i) == Cardinality({h \in IdleSlots(p) : h <= i})
      taken == {i \in IdleSlots(p) : rank(i) <= Len(p.pending)}
  IN [p EXCEPT !.workers = [i \in DOMAIN @ |->
                              IF i \in taken THEN [@[i] EXCEPT !.job = p.pending[rank(i)]]
                                             ELSE @[i]],
               !.pending = SubSeq(@, Cardinality(taken) + 1, Len(@))]

\* Mutant: a thread that is still ending no longer counts.
DispatchEarly(p, made) ==
  LET short == Len(p.pending) > Cardinality(IdleSlots(p))
      missing == IF short THEN Max({0, MaxWorkers - Len(p.workers)}) ELSE 0
  IN IF p.state = "closed" THEN p ELSE Then(Spawn(p, missing, made), Assign)

Dispatch(p, made) ==
  LET short == Len(p.pending) > Cardinality(IdleSlots(p))
      missing == IF short THEN Max({0, MaxWorkers - Live(p)}) ELSE 0
  IN IF p.state = "closed" THEN p ELSE Then(Spawn(p, missing, made), Assign)

Refill(p, made) ==
  IF /\ p.state # "closed"
     /\ p.pending # <<>> \/ (p.state = "open" /\ Len(p.workers) < MinWorkers)
  THEN Then(Spawn(p, Max({0, MinWorkers - Live(p)}), made), LAMBDA q : Dispatch(q, made))
  ELSE p

\* The last job of a closing pool resolves the drain waiters.
WakeWhenEmpty(p) ==
  IF p.jobs = <<>> /\ p.state = "closing" THEN [p EXCEPT !.woken = TRUE] ELSE p

AfterSettlement(p, made) == Then(Refill(p, made), WakeWhenEmpty)

\* Mutant: a job cancelled while it waits stays in the queue.
CancelRunningJob(p, j, made) ==
  LET slots == {i \in DOMAIN p.workers : p.workers[i].job = j}
      freed == IF slots = {} THEN p ELSE RemoveWorker(p, CHOOSE i \in slots : TRUE)
  IN IF Contains(p.jobs, j)
     THEN Then(Forget(freed, j), LAMBDA q : AfterSettlement(q, made))
     ELSE p

\* #cancel: the job leaves the queue, or its worker is terminated under it.
CancelJob(p, j, made) ==
  LET waiting == [p EXCEPT !.pending = RemoveFirst(@, j)]
      slots == {i \in DOMAIN p.workers : p.workers[i].job = j}
      freed == IF slots = {} THEN waiting ELSE RemoveWorker(waiting, CHOOSE i \in slots : TRUE)
  IN IF Contains(p.jobs, j)
     THEN Then(Forget(freed, j), LAMBDA q : AfterSettlement(q, made))
     ELSE p

\* The loop of a close without drain, over the ids present when it began.
CancelAll(p, made) ==
  LET after[n \in 0 .. Len(p.jobs)] ==
        IF n = 0 THEN p ELSE Then(after[n - 1], LAMBDA q : CancelJob(q, p.jobs[n], made))
  IN after[Len(p.jobs)]

\* #handleWorkerFailure
WorkerFailure(p, i, made) ==
  LET slot == p.workers[i]
      removed == RemoveWorker(p, i)
      settled == IF Contains(p.jobs, slot.job) THEN Forget(removed, slot.job) ELSE removed
  IN IF slot.ready THEN Then(settled, LAMBDA q : AfterSettlement(q, made))
                   ELSE FailAll(removed)

\* The end of close(), at once when no job is left to wait for.
CloseIfEmpty(p) == IF p.jobs = <<>> THEN TerminateAll(p) ELSE p

-----------------------------------------------------------------------------
\* A handler leaves the pool as result, at the cost of some faults.  Jobs that
\* left the map are settled, with an error unless they are answered, and drain
\* waiters whose promise was resolved are woken.  A failed spawn is one more
\* fault and closes the pool.  by holds the job the handler answers, or
\* the close() it runs, which goes on to await the retirements or the drain.
Handled(result, by, cost, made) ==
  \E q \in {result} :
    /\ made < MaxWorkers => q.state = "closed" /\ pool.state # "closed"
    /\ faults' = faults + cost + (IF made < MaxWorkers THEN 1 ELSE 0)
    /\ faults' <= MaxFaults
    /\ pool' = [q EXCEPT !.woken = FALSE]
    /\ closer' = [k \in Closer |->
                    IF k \in by THEN IF q.state = "closed" THEN "retiring" ELSE "draining"
                    ELSE IF q.woken /\ closer[k] = "draining" THEN "woken"
                    ELSE closer[k]]
    /\ fate' = [j \in Job |-> IF Contains(q.jobs, j) THEN "live"
                              ELSE IF j \in by THEN "answered"
                              ELSE IF fate[j] = "live" THEN "rejected"
                              ELSE fate[j]]

Open == [state |-> "open", workers |-> <<>>, retiring |-> 0, stuck |-> 0,
         pending |-> <<>>, jobs |-> <<>>, out |-> 0, woken |-> FALSE]

\* The constructor spawns the minimum; one that cannot leaves a closed pool.
Init ==
  /\ pool \in {[Spawn(Open, MinWorkers, made) EXCEPT !.woken = FALSE] : made \in 0 .. MaxWorkers}
  /\ closer = [k \in Closer |-> "out"]
  /\ fate = [j \in Job |-> "new"]
  /\ faults = 0

\* Mutants: one job too many; jobs accepted while the pool drains.
AcceptsOneMore(p, j) ==
  p.state = "open" /\ Len(p.jobs) <= QueueLimit /\ p.out + Bytes[j] <= MaxBytes
AcceptsWhileClosing(p, j) ==
  p.state # "closed" /\ Len(p.jobs) < QueueLimit /\ p.out + Bytes[j] <= MaxBytes

Accepts(p, j) ==
  /\ p.state = "open"
  /\ Len(p.jobs) < QueueLimit
  /\ p.out + Bytes[j] <= MaxBytes

Queued(p, j) ==
  [p EXCEPT !.jobs = Append(@, j), !.pending = Append(@, j), !.out = @ + Bytes[j]]

Parse(j, made) ==
  /\ fate[j] = "new" /\ Accepts(pool, j)
  /\ Handled(Dispatch(Queued(pool, j), made), {}, 0, made)

Refuse(j) ==
  /\ fate[j] = "new" /\ ~Accepts(pool, j)
  /\ fate' = [fate EXCEPT ![j] = "refused"]
  /\ UNCHANGED <<pool, closer, faults>>

\* Mutant: the new worker is not given the jobs that wait for it.
ReadyOnly(i, made) ==
  /\ i \in DOMAIN pool.workers /\ ~pool.workers[i].ready
  /\ Handled([pool EXCEPT !.workers[i].ready = TRUE], {}, 0, made)

\* A worker reports that it is initialized.
Ready(i, made) ==
  /\ i \in DOMAIN pool.workers /\ ~pool.workers[i].ready
  /\ Handled(Dispatch([pool EXCEPT !.workers[i].ready = TRUE], made), {}, 0, made)

\* A worker answers its job, with facts or with a parse error.
Result(i, made) ==
  /\ i \in DOMAIN pool.workers /\ pool.workers[i].job # Idle
  /\ LET j == pool.workers[i].job
     IN Handled(Then(Forget([pool EXCEPT !.workers[i].job = Idle], j),
                     LAMBDA q : AfterSettlement(q, made)), {j}, 0, made)

\* onerror, an unexpected exit, or a failed initialization.
WorkerFails(i, made) ==
  /\ i \in DOMAIN pool.workers
  /\ Handled(WorkerFailure(pool, i, made), {}, 1, made)

\* The job's timer fires or its caller aborts.
Cancel(j, made) ==
  /\ Contains(pool.jobs, j)
  /\ Handled(CancelJob(pool, j, made), {}, 0, made)

\* Mutant: nobody looks at the queue when a thread has ended.
RetiredOnly(made) ==
  pool.retiring > 0 /\ Handled([pool EXCEPT !.retiring = @ - 1], {}, 0, made)

\* terminate() resolves: the thread is gone.
Retired(made) ==
  /\ pool.retiring > 0
  /\ Handled(Then([pool EXCEPT !.retiring = @ - 1], LAMBDA q : AfterSettlement(q, made)),
             {}, 0, made)

\* terminate() rejects: nothing is called, and the retirement stays in the set.
RetireFails ==
  /\ pool.retiring > 0
  /\ Handled([pool EXCEPT !.retiring = @ - 1, !.stuck = @ + 1], {}, 1, MaxWorkers)

-----------------------------------------------------------------------------
\* close({drain}), up to the promise it awaits: the drain waiter's, or
\* #awaitRetirements once it has terminated every worker.
Close(k, drain, made) ==
  LET closing == [pool EXCEPT !.state = "closing"]
      emptied == IF drain THEN closing ELSE CancelAll(closing, made)
  IN /\ closer[k] = "out" /\ pool.state # "closed"
     /\ Handled(Then(emptied, CloseIfEmpty), {k}, 0, made)

\* close() of a closed pool awaits the same retirements.
CloseAgain(k) ==
  /\ closer[k] = "out" /\ pool.state = "closed"
  /\ closer' = [closer EXCEPT ![k] = "retiring"]
  /\ UNCHANGED <<pool, fate, faults>>

\* The continuation of a drained close.
CloseDrained(k) ==
  /\ closer[k] = "woken"
  /\ Handled(TerminateAll(pool), {k}, 0, MaxWorkers)

\* Mutant: a rejected termination counts as an end.
CloseEndsAnyway(k) ==
  /\ closer[k] = "retiring" /\ pool.retiring = 0
  /\ closer' = [closer EXCEPT ![k] = "closed"]
  /\ UNCHANGED <<pool, fate, faults>>

\* #awaitRetirements: every retirement it saw ended, or one rejected.  After
\* "closed" the set only shrinks, so the set it saw is the one still there.
CloseEnds(k) ==
  /\ closer[k] = "retiring"
  /\ pool.retiring = 0 \/ pool.stuck > 0
  /\ closer' = [closer EXCEPT ![k] = IF pool.stuck > 0 THEN "failed" ELSE "closed"]
  /\ UNCHANGED <<pool, fate, faults>>

\* Its timer fires first.
CloseTimesOut(k) ==
  /\ closer[k] = "retiring" /\ pool.retiring > 0
  /\ closer' = [closer EXCEPT ![k] = "failed"]
  /\ UNCHANGED <<pool, fate, faults>>

Next ==
  \/ \E made \in 0 .. MaxWorkers :
       \/ \E j \in Job : Parse(j, made) \/ Cancel(j, made)
       \/ \E i \in 1 .. MaxWorkers : Ready(i, made) \/ Result(i, made) \/ WorkerFails(i, made)
       \/ \E k \in Closer, drain \in BOOLEAN : Close(k, drain, made)
       \/ Retired(made)
  \/ RetireFails
  \/ \E j \in Job : Refuse(j)
  \/ \E k \in Closer : CloseAgain(k) \/ CloseDrained(k) \/ CloseEnds(k) \/ CloseTimesOut(k)

\* Workers answer, terminations end one way or the other and continuations run.
\* No fairness for Cancel: what is shown does not lean on the timers of jobs.
Fairness ==
  /\ WF_vars(\E made \in 0 .. MaxWorkers, i \in 1 .. MaxWorkers : Ready(i, made) \/ Result(i, made))
  /\ WF_vars(RetireFails \/ \E made \in 0 .. MaxWorkers : Retired(made))
  /\ \A k \in Closer : WF_vars(CloseDrained(k) \/ CloseEnds(k))

Spec == Init /\ [][Next]_vars /\ Fairness

-----------------------------------------------------------------------------
\* Properties.

\* The pool, its closers and the promises have their types; the number of
\* workers alive, ending ones included, stays within the bound (type of counts
\* and of the worker array), and so do the queue and its bytes.
TypeOK ==
  /\ pool \in Pool /\ ~pool.woken
  /\ closer \in [Closer -> {"out", "draining", "woken", "retiring", "closed", "failed"}]
  /\ fate \in [Job -> {"new", "live", "refused", "answered", "rejected"}]
  /\ faults \in 0 .. MaxFaults

\* Every promise still open belongs to exactly one job, which waits once in the
\* queue or runs on exactly one worker, and the byte reservation is the sum of
\* theirs: no settled job keeps a place, a worker or bytes (the map, the queue,
\* the slots and the counter are updated by different methods).
JobsHaveOnePlace ==
  /\ \A j \in Job : fate[j] = "live" <=> Contains(pool.jobs, j)
  /\ Len(pool.jobs) = Len(pool.pending) + Cardinality(Running(pool))
  /\ ToSet(pool.jobs) = ToSet(pool.pending) \cup Running(pool)
  /\ \A i, h \in DOMAIN pool.workers :
       pool.workers[i].job = pool.workers[h].job /\ i # h => pool.workers[i].job = Idle
  /\ pool.out = SumBytes(ToSet(pool.jobs))

\* Physical workers stay within the bound: a replacement for a cancelled or
\* failed worker is not made before the old thread has ended.
WorkersBounded == Live(pool) <= MaxWorkers

\* Work conservation: while a job waits no worker is idle, and the pool is at
\* its bound, so that a retirement in flight is the only reason not to start
\* another worker for it.
WaitingMeansFull ==
  pool.pending # <<>> => IdleSlots(pool) = {} /\ Live(pool) = MaxWorkers

\* A closed pool holds no job and no worker that could still take one: every
\* accepted promise was settled before the pool closed under it.
ClosedIsQuiet ==
  pool.state = "closed" => pool.jobs = <<>> /\ pool.workers = <<>>

\* And a close() that reported success left no thread behind, the ones
\* terminated by cancellations and by other closers included.
ClosedMeansGone ==
  ClosedIsQuiet /\ ((\E k \in Closer : closer[k] = "closed") => Live(pool) = 0)

\* Every accepted job settles, without the help of its timer, as long as fewer
\* terminations fail than the pool has workers.
EveryJobSettles == \A j \in Job : fate[j] = "live" ~> fate[j] # "live"

\* Every close() returns: drain waiters are woken whichever handler settles the
\* last job, also when another close() or a failure closes the pool first.
EveryCloseEnds ==
  \A k \in Closer : closer[k] # "out" ~> closer[k] \in {"closed", "failed"}

\* Nobody waits for ever, neither for a job nor for a close().
EverybodyIsAnswered == EveryJobSettles /\ EveryCloseEnds
=============================================================================
