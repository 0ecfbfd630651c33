---------------------------- MODULE PatchWorkers ----------------------------
(***************************************************************************)
(* The threads that prepare patches (patch/strategy/worker-client.ts and   *)
(* worker.ts): one for each request, a bounded number at a time, of what   *)
(* the request was when it was asked.  A slot is given back only when its  *)
(* thread has ended; a thread whose ending fails keeps it.  Timers and     *)
(* signals may fire at any time.                                           *)
(***************************************************************************)
EXTENDS Integers, Sequences, FiniteSets, FiniteSetsExt, SequencesExt

CONSTANTS Tasks,
          Size,          \* the bytes of each request
          Uncloneable,   \* the requests that cannot be copied
          MaxPending, MaxBytes, MaxWorkers,
          MaxFaults,     \* bound: threads that fail, break or cannot be ended
          MaxEdits       \* bound: changes of what requests are made of

VARIABLES inputs,        \* the callers' contexts and the registered grammars, as a version
          snapshot,      \* what each request was when it was asked
          state,         \* "new", "open", "answered" or "failed"
          answer,        \* the version each answer is of
          queue, active, bytes, pending,
          given,         \* what each thread was sent, None before
          threads,       \* the threads that run
          posted,        \* of each thread's message: "no", "sent" or "read"
          retiring,      \* the requests whose thread is being ended
          kept,          \* those whose thread could not be ended
          fired          \* faults so far

pool == <<queue, active, bytes, pending>>
vars == <<inputs, snapshot, state, answer, pool, given, threads, posted, retiring, kept, fired>>

None == 0
Bytes(S) == MapThenSumSet(LAMBDA t : Size[t], S)

Init == /\ inputs = 1 /\ snapshot = [t \in Tasks |-> None] /\ state = [t \in Tasks |-> "new"]
        /\ answer = [t \in Tasks |-> None] /\ queue = << >> /\ active = {} /\ bytes = 0 /\ pending = 0
        /\ given = [t \in Tasks |-> None] /\ threads = {} /\ posted = [t \in Tasks |-> "no"] /\ retiring = {} /\ kept = {}
        /\ fired = 0

----------------------------------------------------------------------------
(* dispatch(): the first requests of the queue get the slots there are; a  *)
(* request whose thread cannot be created fails and gives its slot to the  *)
(* next one.  One that breaks while it is sent its work keeps its slot     *)
(* until it has ended.                                                     *)
Prefix(q, k) == ToSet(SubSeq(q, 1, k))
Taken(q, a, failed) ==
    CHOOSE k \in 0 .. Len(q) :
        /\ k = Len(q) \/ Cardinality(a \cup (Prefix(q, k) \ failed)) >= MaxWorkers
        /\ \A j \in 0 .. k - 1 : Cardinality(a \cup (Prefix(q, j) \ failed)) < MaxWorkers

Dispatch(q, a, b, p, st, ending) ==
    \E failed \in SUBSET ToSet(q) : \E broken \in SUBSET ToSet(q) :
       LET k == Taken(q, a, failed)
           started == Prefix(q, k) \ failed
       IN /\ failed \subseteq Prefix(q, k) /\ broken \subseteq started
          /\ fired' = fired + Cardinality(failed) + Cardinality(broken)
          /\ failed \cup broken # {} => fired' <= MaxFaults
          /\ queue' = SubSeq(q, k + 1, Len(q)) /\ active' = a \cup started
          /\ bytes' = b - Bytes(failed)
          /\ pending' = p - Cardinality(failed)
          /\ state' = [t \in Tasks |-> IF t \in failed \cup broken THEN "failed" ELSE st[t]]
          /\ given' = [t \in Tasks |-> IF t \in started \ broken THEN snapshot'[t] ELSE given[t]]
          /\ threads' = (threads \ ending) \cup started
          /\ retiring' = (retiring \ ending) \cup broken

(* prepare()                                                               *)
Full(t) == pending >= MaxPending \/ bytes + Size[t] > MaxBytes

Prepare(t) ==
    /\ state[t] = "new"
    /\ IF Full(t) \/ t \in Uncloneable
       THEN /\ state' = [state EXCEPT ![t] = "failed"]
            /\ UNCHANGED <<snapshot, pool, given, threads, retiring, fired>>
       ELSE /\ snapshot' = [snapshot EXCEPT ![t] = inputs]
            /\ Dispatch(Append(queue, t), active, bytes + Size[t], pending + 1,
                        [state EXCEPT ![t] = "open"], {})
    /\ UNCHANGED <<inputs, answer, posted, kept>>

(* A call whose signal fired before it began.                              *)
Refuse(t) == /\ state[t] = "new" /\ state' = [state EXCEPT ![t] = "failed"]
             /\ UNCHANGED <<inputs, snapshot, answer, pool, given, threads, posted, retiring, kept, fired>>

----------------------------------------------------------------------------
(* settle(), once for each request: one that waits gives its place back at *)
(* once, one with a thread when the thread has ended.                      *)
Settle(t, outcome) ==
    /\ state[t] = "open"
    /\ IF t \in active
       THEN /\ state' = [state EXCEPT ![t] = outcome] /\ retiring' = retiring \cup {t}
            /\ UNCHANGED <<pool, given, threads, fired>>
       ELSE Dispatch(Remove(queue, t), active, bytes - Size[t], pending - 1,
                     [state EXCEPT ![t] = outcome], {})
    /\ UNCHANGED <<inputs, snapshot, kept>>

(* The timer or the signal.                                                *)
GiveUp(t) == Settle(t, "failed") /\ UNCHANGED <<answer, posted>>

Work(t) == /\ t \in threads /\ given[t] # None /\ posted[t] = "no"
           /\ posted' = [posted EXCEPT ![t] = "sent"]
           /\ UNCHANGED <<inputs, snapshot, state, answer, pool, given, threads, retiring, kept, fired>>

(* What comes after the request was settled is dropped; the thread closes  *)
(* its port after its only message.                                        *)
Receive(t) == /\ posted[t] = "sent" /\ posted' = [posted EXCEPT ![t] = "read"]
              /\ IF state[t] = "open"
                 THEN \/ Settle(t, "answered") /\ answer' = [answer EXCEPT ![t] = given[t]]
                      \/ Settle(t, "failed") /\ UNCHANGED answer
                 ELSE UNCHANGED <<inputs, snapshot, state, answer, pool, given, threads, retiring, kept, fired>>

(* An error of the thread or its exit; what it posted arrives before.      *)
Exit(t) == /\ t \in threads /\ posted[t] # "sent" /\ fired < MaxFaults
           /\ threads' = threads \ {t} /\ fired' = fired + 1
           /\ IF state[t] = "open"
              THEN state' = [state EXCEPT ![t] = "failed"] /\ retiring' = retiring \cup {t}
              ELSE UNCHANGED <<state, retiring>>
           /\ UNCHANGED <<inputs, snapshot, answer, pool, given, posted, kept>>

(* Mutant: the slot is free as soon as the thread is told to end.          *)
EndedEarly(t) ==
    /\ t \in retiring \ kept
    /\ Dispatch(queue, active \ {t}, bytes - Size[t], pending - 1, state, {})
    /\ UNCHANGED <<inputs, snapshot, answer, posted, kept>>

(* terminate() is confirmed: release().                                    *)
Ended(t) ==
    /\ t \in retiring \ kept /\ posted' = [posted EXCEPT ![t] = "read"]
    /\ Dispatch(queue, active \ {t}, bytes - Size[t], pending - 1, state, {t})
    /\ UNCHANGED <<inputs, snapshot, answer, kept>>

NotEnded(t) == /\ t \in retiring \ kept /\ fired < MaxFaults
               /\ fired' = fired + 1 /\ kept' = kept \cup {t}
               /\ UNCHANGED <<inputs, snapshot, state, answer, pool, given, threads, posted, retiring>>

(* A caller changes its context, or a grammar is registered.               *)
Edit == /\ inputs <= MaxEdits /\ inputs' = inputs + 1
        /\ UNCHANGED <<snapshot, state, answer, pool, given, threads, posted, retiring, kept, fired>>

Over == /\ \A t \in Tasks : state[t] \notin {"new", "open"} /\ UNCHANGED vars

Next == Edit \/ Over \/ \E t \in Tasks : \/ Prepare(t) \/ Refuse(t) \/ GiveUp(t) \/ Work(t) \/ Receive(t)
                                          \/ Exit(t) \/ Ended(t) \/ NotEnded(t)

Spec == Init /\ [][Next]_vars

----------------------------------------------------------------------------
(* No more threads run than there are slots, those being ended included;   *)
(* the counts are of the requests that hold a place; nobody waits while a  *)
(* slot is free, and a request that was not answered still has its place   *)
(* or a thread that will answer it; an answer is of what was asked.        *)
PatchesArePrepared ==
    /\ threads \subseteq active /\ Cardinality(active) <= MaxWorkers
    /\ pending = Len(queue) + Cardinality(active) /\ pending <= MaxPending /\ bytes <= MaxBytes
    /\ bytes = Bytes(ToSet(queue) \cup active)
    /\ queue # << >> => Cardinality(active) = MaxWorkers
    /\ \A t \in Tasks :
          /\ state[t] = "open" => \/ t \in ToSet(queue)
                                  \/ t \in threads \ retiring /\ given[t] # None
          /\ t \in active /\ state[t] # "open" => t \in retiring
          /\ state[t] = "answered" => answer[t] # None /\ answer[t] = snapshot[t]
=============================================================================
