------------------------------ MODULE FileLock ------------------------------
(***************************************************************************)
(* The locks a mutation takes on its paths.                                *)
(*                                                                         *)
(*   src/src/intelligence/mutation/locks.ts     queue, lease record, order *)
(*   src/src/runtime/transaction-lock.ts        the SQLite guards          *)
(*                                                                         *)
(* A call takes the locks of its paths one after another, in the order of  *)
(* their identities. For each it waits its turn in its process, takes the  *)
(* guard of its account, then the guard all accounts share (two SQLite     *)
(* write transactions, which the operating system frees when a process     *)
(* dies), and then publishes a lease record beside the file. The record is *)
(* what an older server, which knows no guards, looks at: legacy stands    *)
(* for one such server.                                                    *)
(*                                                                         *)
(* Time is reduced to what the code compares: a lease is fresh or lapsed.  *)
(* A renewal opens a fresh record and later appends to the file it opened, *)
(* wherever that file has been moved in between. Each call locks once, so  *)
(* its identity is its token. Malformed and half-written records are left  *)
(* out, and so are the artifacts of pending writes.                        *)
(***************************************************************************)
EXTENDS Integers, Sequences, FiniteSets, SequencesExt

CONSTANTS Calls,       \* calls that lock
          Files,       \* lock identities, ordered as numbers
          Procs,       \* server processes
          ProcOf,      \* the process of each call
          AccountOf,   \* the account each process runs under
          Requested,   \* the paths of each call, as the request lists them
          LegacyFile,  \* the file the legacy server locks
          Nobody       \* no owner

Accounts == {AccountOf[p] : p \in Procs}
legacy   == "legacy"
Owners   == Calls \cup {legacy}

ASSUME ConstantsAssumption ==
  /\ Files \subseteq Int /\ LegacyFile \in Files
  /\ ProcOf \in [Calls -> Procs]
  /\ Requested \in [Calls -> Seq(Files) \ {<< >>}]
  /\ Nobody \notin Owners /\ legacy \notin Calls

VARIABLES
  pc,        \* next step of each owner
  at,        \* which of its paths a call is locking or unlocking
  queue,     \* per process and file: calls in the order they asked
  gone,      \* per process and file: calls of the queue that let go of it
  private,   \* per account and file: the holder of the account's guard
  shared,    \* per file: the holder of the shared guard
  record,    \* per file: the lease record, or NoRecord
  tomb,      \* per owner: the record it has moved aside
  seen,      \* per call: the owner of the record it is about to evict, or
             \* Nobody once that record has been renewed
  beating    \* renewals under way, as <<owner, file>>

vars == <<pc, at, queue, gone, private, shared, record, tomb, seen, beating>>

Records     == [token : Owners, fresh : BOOLEAN]
NoRecord    == [token |-> Nobody, fresh |-> FALSE]
NewLease(o) == [token |-> o, fresh |-> TRUE]

(* Mutant: paths are locked in the order of the request.                   *)
OrderOfRequest == Requested

(* The distinct paths of each call, in the order of their identities.      *)
Ascending(s) == \A i, j \in DOMAIN s : i < j => s[i] < s[j]
Order == [c \in Calls |-> CHOOSE s \in SetToSeqs(ToSet(Requested[c])) : Ascending(s)]

File(c)    == Order[c][at[c]]
Account(c) == AccountOf[ProcOf[c]]

(* Mutant: a waiter looks at its immediate predecessor only.               *)
AheadNearest(c, f) ==
  LET q == queue[ProcOf[c]][f]
      i == CHOOSE j \in DOMAIN q : q[j] = c
  IN IF i = 1 THEN {} ELSE {q[i - 1]} \ gone[ProcOf[c]][f]

(* The calls a waiter has to wait for. One that gave up still keeps those  *)
(* behind it waiting for those ahead of it.                                *)
Ahead(c, f) ==
  LET q == queue[ProcOf[c]][f]
  IN {q[j] : j \in {i \in DOMAIN q : \A h \in 1..i : q[h] # c}} \ gone[ProcOf[c]][f]

----------------------------------------------------------------------------
Init ==
  /\ pc = [o \in Owners |-> IF o = legacy THEN "out" ELSE "start"]
  /\ at = [c \in Calls |-> 1]
  /\ queue = [p \in Procs |-> [f \in Files |-> << >>]]
  /\ gone = [p \in Procs |-> [f \in Files |-> {}]]
  /\ private = [a \in Accounts |-> [f \in Files |-> Nobody]]
  /\ shared = [f \in Files |-> Nobody]
  /\ record = [f \in Files |-> NoRecord]
  /\ tomb = [o \in Owners |-> NoRecord]
  /\ seen = [c \in Calls |-> Nobody]
  /\ beating = {}

Go(o, step) == pc' = [pc EXCEPT ![o] = step]

(* Putting a moved record back: link() does not replace another one.       *)
Restore(f, moved) ==
  record' = IF record[f] = NoRecord THEN [record EXCEPT ![f] = moved] ELSE record

----------------------------------------------------------------------------
(* Acquisition.                                                            *)

Enqueue(c) ==
  /\ pc[c] = "start"
  /\ queue' = [queue EXCEPT ![ProcOf[c]][File(c)] = Append(@, c)]
  /\ Go(c, "queue")
  /\ UNCHANGED <<at, gone, private, shared, record, tomb, seen, beating>>

Turn(c) ==
  /\ pc[c] = "queue" /\ Ahead(c, File(c)) = {}
  /\ Go(c, "private")
  /\ UNCHANGED <<at, queue, gone, private, shared, record, tomb, seen, beating>>

TakePrivate(c) ==
  /\ pc[c] = "private" /\ private[Account(c)][File(c)] = Nobody
  /\ private' = [private EXCEPT ![Account(c)][File(c)] = c]
  /\ Go(c, "shared")
  /\ UNCHANGED <<at, queue, gone, shared, record, tomb, seen, beating>>

(* Mutant: a busy shared guard is passed over.                             *)
TakeSharedBusy(c) ==
  /\ pc[c] = "shared"
  /\ shared' = [shared EXCEPT ![File(c)] = c]
  /\ Go(c, "publish")
  /\ UNCHANGED <<at, queue, gone, private, record, tomb, seen, beating>>

TakeShared(c) ==
  /\ pc[c] = "shared" /\ shared[File(c)] = Nobody
  /\ shared' = [shared EXCEPT ![File(c)] = c]
  /\ Go(c, "publish")
  /\ UNCHANGED <<at, queue, gone, private, record, tomb, seen, beating>>

Publish(c) ==
  /\ pc[c] = "publish" /\ record[File(c)] = NoRecord
  /\ record' = [record EXCEPT ![File(c)] = NewLease(c)]
  /\ IF at[c] < Len(Order[c])
     THEN at' = [at EXCEPT ![c] = @ + 1] /\ Go(c, "start")
     ELSE UNCHANGED at /\ Go(c, "work")
  /\ UNCHANGED <<queue, gone, private, shared, tomb, seen, beating>>

(* Only a record of this account's own protocol may go before it lapses:   *)
(* its owner held the guard the caller holds now.                          *)
Early(c, r) == r.token \in Calls /\ Account(r.token) = Account(c)

Evictable(c, r) == Early(c, r) \/ ~r.fresh

Examine(c) ==
  /\ pc[c] = "publish" /\ record[File(c)] # NoRecord
  /\ Evictable(c, record[File(c)])
  /\ seen' = [seen EXCEPT ![c] = record[File(c)].token]
  /\ Go(c, "evict")
  /\ UNCHANGED <<at, queue, gone, private, shared, record, tomb, beating>>

(* The last look at the file and its rename are two calls, so a record     *)
(* that changed is noticed, or is moved aside all the same.                *)
Evict(c) ==
  /\ pc[c] = "evict"
  /\ \/ /\ record[File(c)] # NoRecord
        /\ tomb' = [tomb EXCEPT ![c] = record[File(c)]]
        /\ record' = [record EXCEPT ![File(c)] = NoRecord]
        /\ Go(c, "judge")
        /\ UNCHANGED seen
     \/ /\ record[File(c)] = NoRecord \/ record[File(c)].token # seen[c]
        /\ seen' = [seen EXCEPT ![c] = Nobody]
        /\ Go(c, "publish")
        /\ UNCHANGED <<tomb, record>>
  /\ UNCHANGED <<at, queue, gone, private, shared, beating>>

(* Mutant: the moved record is not read again.                             *)
JudgeBlind(c) ==
  /\ pc[c] = "judge"
  /\ tomb' = [tomb EXCEPT ![c] = NoRecord]
  /\ seen' = [seen EXCEPT ![c] = Nobody]
  /\ Go(c, "publish")
  /\ UNCHANGED <<at, queue, gone, private, shared, record, beating>>

(* A record that is not the one examined, or was renewed since, goes back. *)
Judge(c) ==
  /\ pc[c] = "judge"
  /\ IF tomb[c].token = seen[c] THEN UNCHANGED record ELSE Restore(File(c), tomb[c])
  /\ tomb' = [tomb EXCEPT ![c] = NoRecord]
  /\ seen' = [seen EXCEPT ![c] = Nobody]
  /\ Go(c, "publish")
  /\ UNCHANGED <<at, queue, gone, private, shared, beating>>

(* An abort or a deadline while waiting gives up this path's guards and    *)
(* place; the paths locked so far are unlocked next.                       *)
FreeGuards(c) ==
  /\ private' = [private EXCEPT ![Account(c)][File(c)] = IF @ = c THEN Nobody ELSE @]
  /\ shared'  = [shared EXCEPT ![File(c)] = IF @ = c THEN Nobody ELSE @]

(* Mutant: the path index is moved back past the first path.               *)
LeavePast(c) ==
  /\ gone' = [gone EXCEPT ![ProcOf[c]][File(c)] = @ \cup {c}]
  /\ at' = [at EXCEPT ![c] = @ - 1]
  /\ Go(c, IF at[c] = 1 THEN "done" ELSE "release")

Leave(c) ==
  /\ gone' = [gone EXCEPT ![ProcOf[c]][File(c)] = @ \cup {c}]
  /\ at' = [at EXCEPT ![c] = IF @ = 1 THEN 1 ELSE @ - 1]
  /\ Go(c, IF at[c] = 1 THEN "done" ELSE "release")

Cancel(c) ==
  /\ pc[c] \in {"queue", "private", "shared", "publish"}
  /\ FreeGuards(c)
  /\ Leave(c)
  /\ UNCHANGED <<queue, record, tomb, seen, beating>>

----------------------------------------------------------------------------
(* The operation: it is fenced, then replaces its files.                   *)

Mine(c, f) == record[f].token = c /\ record[f].fresh

Fence(c) ==
  /\ pc[c] = "work"
  /\ Go(c, IF \A f \in ToSet(Requested[c]) : Mine(c, f) THEN "write" ELSE "release")
  /\ UNCHANGED <<at, queue, gone, private, shared, record, tomb, seen, beating>>

Write(c) ==
  /\ pc[c] = "write"
  /\ Go(c, "release")
  /\ UNCHANGED <<at, queue, gone, private, shared, record, tomb, seen, beating>>

----------------------------------------------------------------------------
(* Release, last path first: move the record aside, drop it when it is the *)
(* owner's and put it back when it is not, then free the guards.           *)

(* A release waits for the renewal under way.                              *)
Idle(o, f) == <<o, f>> \notin beating

MoveAside(c) ==
  /\ pc[c] = "release" /\ Idle(c, File(c))
  /\ tomb' = [tomb EXCEPT ![c] = record[File(c)]]
  /\ record' = [record EXCEPT ![File(c)] = NoRecord]
  /\ Go(c, "drop")
  /\ UNCHANGED <<at, queue, gone, private, shared, seen, beating>>

Drop(c) ==
  /\ pc[c] = "drop"
  /\ IF tomb[c].token \in {c, Nobody} THEN UNCHANGED record ELSE Restore(File(c), tomb[c])
  /\ tomb' = [tomb EXCEPT ![c] = NoRecord]
  /\ Go(c, "free")
  /\ UNCHANGED <<at, queue, gone, private, shared, seen, beating>>

Free(c) ==
  /\ pc[c] = "free"
  /\ FreeGuards(c)
  /\ Leave(c)
  /\ UNCHANGED <<queue, record, tomb, seen, beating>>

----------------------------------------------------------------------------
(* Time, renewals, crashes, and the legacy server.                         *)

Lapse(f) ==
  /\ record[f].fresh
  /\ record' = [record EXCEPT ![f].fresh = FALSE]
  /\ UNCHANGED <<pc, at, queue, gone, private, shared, tomb, seen, beating>>

(* The paths a call has locked, and those whose heartbeat still runs.      *)
Locked(c) ==
  CASE pc[c] \in {"work", "write", "release"} -> {Order[c][i] : i \in 1..at[c]}
    [] pc[c] \in {"done", "dead"}             -> {}
    [] OTHER                                  -> {Order[c][i] : i \in 1..(at[c] - 1)}

Beats(o, f) ==
  IF o = legacy THEN pc[o] = "in" /\ f = LegacyFile
  ELSE f \in Locked(o) /\ ~(pc[o] = "release" /\ f = File(o))

RenewRead(o, f) ==
  /\ Beats(o, f) /\ Idle(o, f)
  /\ record[f] = NewLease(o)
  /\ beating' = beating \cup {<<o, f>>}
  /\ UNCHANGED <<pc, at, queue, gone, private, shared, record, tomb, seen>>

TombOf(x) == IF x = legacy THEN LegacyFile ELSE File(x)

RenewWrite(o, f) ==
  /\ <<o, f>> \in beating
  /\ beating' = beating \ {<<o, f>>}
  /\ record' = IF record[f].token = o THEN [record EXCEPT ![f] = NewLease(o)] ELSE record
  /\ tomb' = [x \in Owners |->
               IF tomb[x].token = o /\ TombOf(x) = f THEN NewLease(o) ELSE tomb[x]]
  /\ seen' = [c \in Calls |-> IF seen[c] = o /\ File(c) = f THEN Nobody ELSE seen[c]]
  /\ UNCHANGED <<pc, at, queue, gone, private, shared>>

Begun(c) == pc[c] \notin {"done", "dead"} /\ (pc[c] = "start" => at[c] > 1)

(* A dying process loses its queue, and the operating system its guards.   *)
Crash(p) ==
  LET dead == {c \in Calls : ProcOf[c] = p /\ Begun(c)}
      freed(h) == IF h \in dead THEN Nobody ELSE h
  IN /\ dead # {}
     /\ pc' = [o \in Owners |-> IF o \in dead THEN "dead" ELSE pc[o]]
     /\ queue' = [queue EXCEPT ![p] = [f \in Files |-> << >>]]
     /\ gone' = [gone EXCEPT ![p] = [f \in Files |-> {}]]
     /\ private' = [a \in Accounts |-> [f \in Files |-> freed(private[a][f])]]
     /\ shared' = [f \in Files |-> freed(shared[f])]
     /\ tomb' = [o \in Owners |-> IF o \in dead THEN NoRecord ELSE tomb[o]]
     /\ seen' = [c \in Calls |-> IF c \in dead THEN Nobody ELSE seen[c]]
     /\ beating' = {b \in beating : b[1] \notin dead}
     /\ UNCHANGED <<at, record>>

(* The legacy server takes the lock of a lapsed lease over.                *)
LegacyTake ==
  /\ pc[legacy] = "out" /\ ~record[LegacyFile].fresh
  /\ record' = [record EXCEPT ![LegacyFile] = NewLease(legacy)]
  /\ Go(legacy, "in")
  /\ UNCHANGED <<at, queue, gone, private, shared, tomb, seen, beating>>

LegacyMoveAside ==
  /\ pc[legacy] = "in"
  /\ tomb' = [tomb EXCEPT ![legacy] = record[LegacyFile]]
  /\ record' = [record EXCEPT ![LegacyFile] = NoRecord]
  /\ Go(legacy, "drop")
  /\ UNCHANGED <<at, queue, gone, private, shared, seen, beating>>

LegacyDrop ==
  /\ pc[legacy] = "drop"
  /\ IF tomb[legacy].token \in {legacy, Nobody}
     THEN UNCHANGED record ELSE Restore(LegacyFile, tomb[legacy])
  /\ tomb' = [tomb EXCEPT ![legacy] = NoRecord]
  /\ Go(legacy, "done")
  /\ UNCHANGED <<at, queue, gone, private, shared, seen, beating>>

Acquire(c) == Enqueue(c) \/ Turn(c) \/ TakePrivate(c) \/ TakeShared(c) \/ Publish(c)
              \/ Examine(c) \/ Evict(c) \/ Judge(c)
Operate(c) == Fence(c) \/ Write(c)
Unlock(c)  == MoveAside(c) \/ Drop(c) \/ Free(c)
Step(c)    == Acquire(c) \/ Operate(c) \/ Unlock(c)
Legacy     == LegacyTake \/ LegacyMoveAside \/ LegacyDrop

Next ==
  \/ \E c \in Calls : Step(c) \/ Cancel(c)
  \/ \E o \in Owners, f \in Files : RenewRead(o, f) \/ RenewWrite(o, f)
  \/ \E f \in Files : Lapse(f)
  \/ \E p \in Procs : Crash(p)
  \/ Legacy

Spec == Init /\ [][Next]_vars

(* A running process takes its steps, renewals end, unrenewed leases lapse *)
(* and the legacy server lets go; nobody need abort, crash or renew.       *)
FairSpec ==
  /\ Spec
  /\ \A c \in Calls : WF_vars(Step(c))
  /\ \A o \in Owners, f \in Files : WF_vars(RenewWrite(o, f))
  /\ \A f \in Files : WF_vars(Lapse(f))
  /\ WF_vars(LegacyMoveAside) /\ WF_vars(LegacyDrop)

----------------------------------------------------------------------------
(* Properties.                                                             *)

Steps == {"start", "queue", "private", "shared", "publish", "evict", "judge", "work",
          "write", "release", "drop", "free", "done", "dead"}

(* Every variable has its type, and every path index is one of the call's  *)
(* paths.                                                                  *)
TypeOK ==
  /\ pc \in [Owners -> Steps \cup {"out", "in"}]
  /\ at \in [Calls -> Nat] /\ \A c \in Calls : at[c] \in DOMAIN Order[c]
  /\ queue \in [Procs -> [Files -> Seq(Calls)]]
  /\ gone \in [Procs -> [Files -> SUBSET Calls]]
  /\ private \in [Accounts -> [Files -> Calls \cup {Nobody}]]
  /\ shared \in [Files -> Calls \cup {Nobody}]
  /\ record \in [Files -> Records \cup {NoRecord}]
  /\ tomb \in [Owners -> Records \cup {NoRecord}]
  /\ seen \in [Calls -> Owners \cup {Nobody}]
  /\ beating \subseteq Owners \X Files

(* A call has had its turn at a file.                                      *)
Past(c, f) ==
  \/ f \in Locked(c)
  \/ f = File(c) /\ pc[c] \in {"private", "shared", "publish", "evict", "judge", "drop", "free"}

(* In one process a file is locked in the order the calls asked for it: a  *)
(* call that gave up while it waited does not let those behind it past the *)
(* one that holds the file (locks.ts 818-820).                             *)
TurnsInOrder ==
  \A p \in Procs, f \in Files : \A i, j \in DOMAIN queue[p][f] :
    LET ahead == queue[p][f][i]  behind == queue[p][f][j]
    IN i < j /\ Past(behind, f) => ahead \in gone[p][f]

(* The lease of a call that holds the guards stays in place even when it   *)
(* lapses: only the legacy server may take it over or move it aside. The   *)
(* early recovery of locks.ts 532-536 rests on this.                       *)
GuardsProtectTheLease ==
  \A c \in Calls : \A f \in Locked(c) :
    \/ record[f].token = c
    \/ f = LegacyFile /\ pc[legacy] # "out"

(* Two calls never replace the same file at once, in whatever processes    *)
(* and accounts they run, even if their leases lapse between fence and     *)
(* rename.                                                                 *)
OneWriter ==
  \A c, d \in Calls : pc[c] = "write" /\ pc[d] = "write" /\ c # d =>
    ToSet(Requested[c]) \cap ToSet(Requested[d]) = {}

(* A call destroys no lease but its own, one of its own account whose      *)
(* owner is gone, and lapsed ones: a renewal that races the eviction wins  *)
(* (locks.ts 554-566), unless a new lease already stands in its place.     *)
LeaseHonoured ==
  [][\A c \in Calls : tomb[c] # NoRecord /\ tomb'[c] = NoRecord /\ pc'[c] # "dead" =>
       \/ tomb[c].token = c
       \/ Early(c, tomb[c]) /\ File(c) \notin Locked(tomb[c].token)
       \/ ~tomb[c].fresh
       \/ record'[File(c)] # NoRecord]_vars

(* Every call that asked for its locks ends. Paths are locked in one order *)
(* by everyone, so no two calls wait for each other for ever, whatever     *)
(* order their requests list the paths in.                                 *)
EveryCallEnds ==
  \A c \in Calls : pc[c] = "queue" ~> pc[c] \in {"done", "dead"}

----------------------------------------------------------------------------
(* The strengthening the proofs of FileLockProofs rest on.                 *)

Asking == {"start", "queue", "private", "shared", "publish", "evict", "judge"}

(* Where a call stands with the i-th of its files: it is yet to ask for    *)
(* it, or to publish its lease; it is in the queue, holds its account's    *)
(* guard, the shared one, or the lock.                                     *)
Asks(c, i)      == pc[c] \in Asking /\ (i > at[c] \/ (i = at[c] /\ pc[c] = "start"))
Publishes(c, i) == pc[c] \in Asking /\ i >= at[c]
Locks(c, i)     == \/ i < at[c] /\ pc[c] \notin {"done", "dead"}
                   \/ i = at[c] /\ pc[c] \in {"work", "write", "release"}
Shares(c, i)    == Locks(c, i) \/ (i = at[c] /\ pc[c] \in {"publish", "evict", "judge", "drop", "free"})
Guards(c, i)    == Shares(c, i) \/ (i = at[c] /\ pc[c] = "shared")
Passed(c, i)    == Guards(c, i) \/ (i = at[c] /\ pc[c] = "private")
Waits(c, i)     == Passed(c, i) \/ (i = at[c] /\ pc[c] = "queue")

(* A call works with the locks of all its paths.                           *)
WorkInv == \A c \in Calls : pc[c] \in {"work", "write"} => at[c] = Len(Order[c])

(* A queue names each call of its process once, from when it asks for the  *)
(* file until its process dies; it is not gone before it lets go.          *)
QueueInv ==
  /\ \A p \in Procs, f \in Files : \A i, j \in DOMAIN queue[p][f] :
       /\ queue[p][f][i] = queue[p][f][j] => i = j
       /\ ProcOf[queue[p][f][i]] = p
  /\ \A c \in Calls : \A i \in DOMAIN Order[c] :
       LET p == ProcOf[c]  f == Order[c][i]
       IN /\ Asks(c, i) => c \notin gone[p][f] /\ \A j \in DOMAIN queue[p][f] : queue[p][f][j] # c
          /\ Waits(c, i) => c \notin gone[p][f] /\ \E j \in DOMAIN queue[p][f] : queue[p][f][j] = c

GuardInv ==
  \A c \in Calls : \A i \in DOMAIN Order[c] :
    /\ Guards(c, i) => private[Account(c)][Order[c][i]] = c
    /\ Shares(c, i) => shared[Order[c][i]] = c

(* A record is moved aside, or picked for eviction, for a few steps only.  *)
MovedInv ==
  /\ \A c \in Calls : tomb[c] # NoRecord => pc[c] \in {"judge", "drop"}
  /\ tomb[legacy] # NoRecord => pc[legacy] = "drop"
  /\ \A c \in Calls : seen[c] # Nobody => pc[c] \in {"evict", "judge"}

(* Moving leases about and renewing them makes no second one: no two of a  *)
(* file have the same owner.                                               *)
UniqueInv ==
  /\ \A x \in Owners : tomb[x] # NoRecord => tomb[x].token # record[TombOf(x)].token
  /\ \A x, y \in Owners :
       tomb[x] # NoRecord /\ TombOf(x) = TombOf(y) /\ tomb[x].token = tomb[y].token => x = y

(* There is no lease of a call at a file before it publishes one, and none *)
(* of the legacy server before it takes the lock.                          *)
OnceInv ==
  \A c \in Calls : \A i \in DOMAIN Order[c] : Publishes(c, i) =>
    /\ record[Order[c][i]].token # c
    /\ \A x \in Owners : tomb[x].token = c => TombOf(x) # Order[c][i]

LegacyInv ==
  pc[legacy] = "out" =>
    /\ \A f \in Files : record[f].token # legacy
    /\ \A x \in Owners : tomb[x].token # legacy
    /\ \A c \in Calls : seen[c] # legacy

(* The lease a call is about to evict may be evicted, wherever it is now.  *)
SeenInv ==
  \A c \in Calls : seen[c] # Nobody =>
    /\ record[File(c)].token = seen[c] => Evictable(c, record[File(c)])
    /\ \A x \in Owners : tomb[x].token = seen[c] /\ TombOf(x) = File(c) => Evictable(c, tomb[x])

LockInv == /\ TypeOK /\ WorkInv /\ QueueInv /\ TurnsInOrder /\ GuardInv
           /\ GuardsProtectTheLease /\ MovedInv /\ UniqueInv /\ OnceInv /\ LegacyInv /\ SeenInv
=============================================================================
