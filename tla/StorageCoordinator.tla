-------------------------- MODULE StorageCoordinator --------------------------
(***************************************************************************)
(* The coordinator of a storage directory (intelligence/storage/           *)
(* coordinator.ts), which runs the exclusive sections PublicationStore     *)
(* takes as atomic.  Three mechanisms meet here:                           *)
(*  - in a process, one coordinator per directory, counted by the stores   *)
(*    that share it, queues sections one after the other and is closed,    *)
(*    with its connection, by the last store that lets go;                 *)
(*  - across processes, a section holds the writer's transaction guard,    *)
(*    which the system frees when the process dies;                        *)
(*  - inside the guard, the section holds an epoch lease, a row of the     *)
(*    database renewed by heartbeats and fences, which survives a crash    *)
(*    and stays with the process until it expires or its coordinator       *)
(*    closes.                                                              *)
(* Time is the number of ticks the row's lease has left.                   *)
(***************************************************************************)
EXTENDS Integers, FiniteSets, Sequences, SequencesExt, Functions

CONSTANTS
  Proc,          \* server processes
  Store,         \* store objects (LanceIntelligenceStore)
  ProcOf,        \* the process of each store
  Nobody,        \* no process holds the guard
  LeaseTicks,    \* the length of a lease, in ticks
  MaxOwners,     \* bound: coordinators ever made
  MaxEpoch       \* bound: ownership changes of the row

ASSUME CoordinatorAssumption ==
  /\ ProcOf \in [Store -> Proc]
  /\ IsFiniteSet(Store)
  /\ Nobody \notin Proc
  /\ LeaseTicks \in Nat \ {0}
  /\ MaxOwners \in Nat /\ MaxEpoch \in Nat

VARIABLES
  coord,      \* the registry entry of each process
  made,       \* coordinators made so far, which numbers their owner ids
  store,      \* each store: its life and the coordinator it refers to
  op,         \* the exclusive section of each store
  writer,     \* the process that holds the writer's guard
  row         \* the lease row: owner, epoch and ticks left

vars == <<coord, made, store, op, writer, row>>

Owner == 0 .. MaxOwners

Coordinator ==
  [owner : Owner, refs : Nat, closing : BOOLEAN,
   lease : 0 .. MaxEpoch,                     \* its epoch, 0 for null
   queue : Seq(Store),
   beat : BOOLEAN]                            \* a heartbeat is in flight

Stores == [step : {"out", "open", "closing"}, owner : Owner, ahead : Nat]

Rows == [owner : Owner, epoch : 0 .. MaxEpoch, left : 0 .. LeaseTicks]

NoCoordinator == [owner |-> 0, refs |-> 0, closing |-> FALSE, lease |-> 0,
                  queue |-> <<>>, beat |-> FALSE]

CoordOf(s) == coord[ProcOf[s]]

\* assertOwnership: the row is this coordinator's, at its epoch and unexpired.
Owns(c) == row.owner = c.owner /\ row.epoch = c.lease /\ row.left > 0

Init ==
  /\ coord = [p \in Proc |-> NoCoordinator]
  /\ made = 0
  /\ store = [s \in Store |-> [step |-> "out", owner |-> 0, ahead |-> 0]]
  /\ op = [s \in Store |-> "none"]
  /\ writer = Nobody
  /\ row = [owner |-> 0, epoch |-> 0, left |-> 0]

-----------------------------------------------------------------------------
\* Mutant: an opener joins a coordinator that is closing.
OpenAnyway(s) ==
  LET p == ProcOf[s]
      c == coord[p]
  IN /\ store[s].step = "out"
     /\ IF c.owner = 0
        THEN /\ made < MaxOwners
             /\ made' = made + 1
             /\ coord' = [coord EXCEPT ![p] = [NoCoordinator EXCEPT !.owner = made + 1,
                                                                    !.refs = 1]]
        ELSE coord' = [coord EXCEPT ![p].refs = @ + 1] /\ UNCHANGED made
     /\ store' = [store EXCEPT ![s] = [step |-> "open", owner |-> coord'[p].owner, ahead |-> 0]]
     /\ UNCHANGED <<op, writer, row>>

\* Stores open and share the coordinator of their process; while the old one is
\* closing an opener waits for it to leave the registry.
Open(s) ==
  LET p == ProcOf[s]
      c == coord[p]
  IN /\ store[s].step = "out" /\ ~c.closing
     /\ IF c.owner = 0
        THEN /\ made < MaxOwners
             /\ made' = made + 1
             /\ coord' = [coord EXCEPT ![p] = [NoCoordinator EXCEPT !.owner = made + 1,
                                                                    !.refs = 1]]
        ELSE coord' = [coord EXCEPT ![p].refs = @ + 1] /\ UNCHANGED made
     /\ store' = [store EXCEPT ![s] = [step |-> "open", owner |-> coord'[p].owner, ahead |-> 0]]
     /\ UNCHANGED <<op, writer, row>>

\* exclusive: the section joins the tail.  A store that is shutting down has
\* refused it before (assertWritable).
Exclusive(s) ==
  /\ store[s].step = "open" /\ op[s] = "none" /\ ~CoordOf(s).closing
  /\ coord' = [coord EXCEPT ![ProcOf[s]].queue = Append(@, s)]
  /\ op' = [op EXCEPT ![s] = "queued"]
  /\ UNCHANGED <<made, store, writer, row>>

AtHead(s) == CoordOf(s).queue # <<>> /\ Head(CoordOf(s).queue) = s

\* The section of s ends: the next one of the tail may start, and a shutdown
\* that waits for the tail it saw has one less ahead of it.
Leave(s, c) ==
  LET p == ProcOf[s]
  IN /\ coord' = [coord EXCEPT ![p] = [c EXCEPT !.queue = Tail(@)]]
     /\ op' = [op EXCEPT ![s] = "none"]
     /\ store' = [t \in Store |->
                    IF ProcOf[t] = p /\ store[t].ahead > 0
                    THEN [store[t] EXCEPT !.ahead = @ - 1] ELSE store[t]]

\* Mutant: the guard is not asked for.
EnterAnyway(s) ==
  /\ op[s] = "queued" /\ AtHead(s)
  /\ writer' = ProcOf[s]
  /\ op' = [op EXCEPT ![s] = "guarded"]
  /\ UNCHANGED <<coord, made, store, row>>

\* withWriterTransaction, tryOnly: another process's section makes it fail.
Enter(s) ==
  /\ op[s] = "queued" /\ AtHead(s)
  /\ writer = Nobody
  /\ writer' = ProcOf[s]
  /\ op' = [op EXCEPT ![s] = "guarded"]
  /\ UNCHANGED <<coord, made, store, row>>

Busy(s) ==
  /\ op[s] = "queued" /\ AtHead(s)
  /\ writer # Nobody
  /\ Leave(s, CoordOf(s))
  /\ UNCHANGED <<made, writer, row>>

-----------------------------------------------------------------------------
\* acquireOrRenew, inside the guard.

\* Its own lease with more than half left is used as it is.
KeepLease(s) ==
  LET c == CoordOf(s)
  IN /\ op[s] = "guarded"
     /\ row.owner = c.owner /\ 2 * row.left > LeaseTicks
     /\ coord' = [coord EXCEPT ![ProcOf[s]].lease = row.epoch]
     /\ op' = [op EXCEPT ![s] = "acting"]
     /\ UNCHANGED <<made, store, writer, row>>

\* Mutant: a takeover keeps the epoch it finds.
SameEpoch(c) == IF row.epoch = 0 THEN 1 ELSE row.epoch

\* Otherwise it writes the row: a new epoch when the owner changes, and only
\* over a lease that has expired.
NextEpoch(c) == IF row.owner = c.owner THEN row.epoch ELSE row.epoch + 1

MayTake(c) ==
  /\ row.owner = c.owner \/ row.left = 0
  /\ ~(row.owner = c.owner /\ 2 * row.left > LeaseTicks)
  /\ NextEpoch(c) <= MaxEpoch

Taken(c) == [owner |-> c.owner, epoch |-> NextEpoch(c), left |-> LeaseTicks]

TakeLease(s) ==
  LET c == CoordOf(s)
  IN /\ op[s] = "guarded" /\ MayTake(c)
     /\ row' = Taken(c)
     /\ coord' = [coord EXCEPT ![ProcOf[s]].lease = NextEpoch(c)]
     /\ op' = [op EXCEPT ![s] = "acting"]
     /\ UNCHANGED <<made, store, writer>>

\* Another process's unexpired lease, or a failed read or write, ends the
\* section before its body; a write that is reported failed may have been done.
AcquireFails(s) ==
  LET c == CoordOf(s)
  IN /\ op[s] = "guarded"
     /\ writer' = Nobody
     /\ Leave(s, c)
     /\ row' \in {row} \cup (IF MayTake(c) THEN {Taken(c)} ELSE {})
     /\ UNCHANGED made

-----------------------------------------------------------------------------
\* renewLease, for a fence of the body or a heartbeat: an update conditional on
\* owner, epoch and expiry, then assertOwnership, which forgets a lost lease and
\* fails the section.
Renew(p) ==
  IF Owns(coord[p])
  THEN /\ row' = [row EXCEPT !.left = LeaseTicks]
       /\ coord' = [coord EXCEPT ![p].beat = FALSE]
       /\ UNCHANGED op
  ELSE /\ coord' = [coord EXCEPT ![p] = [@ EXCEPT !.beat = FALSE, !.lease = 0]]
       /\ op' = [s \in Store |-> IF ProcOf[s] = p /\ op[s] = "acting" THEN "failing"
                                                                     ELSE op[s]]
       /\ UNCHANGED row

\* The body awaits a fence between its writes; a renewal under way goes first.
Fence(s) ==
  /\ op[s] = "acting" /\ ~CoordOf(s).beat
  /\ Renew(ProcOf[s])
  /\ UNCHANGED <<made, store, writer>>

\* The interval starts a heartbeat, which runs when the event loop gets to it.
BeatStarts(s) ==
  /\ op[s] = "acting" /\ ~CoordOf(s).beat
  /\ coord' = [coord EXCEPT ![ProcOf[s]].beat = TRUE]
  /\ UNCHANGED <<made, store, op, writer, row>>

BeatRuns(p) ==
  /\ coord[p].beat
  /\ Renew(p)
  /\ UNCHANGED <<made, store, writer>>

\* The body ends, well or not, whatever the heartbeats do.
BodyEnds(s) ==
  /\ op[s] = "acting"
  /\ op' = [op EXCEPT ![s] = "ending"]
  /\ UNCHANGED <<coord, made, store, writer, row>>

\* Mutant: the guard is let go while a heartbeat is in flight.
FinishAtOnce(s) ==
  LET c == CoordOf(s)
  IN /\ op[s] \in {"ending", "failing"}
     /\ writer' = Nobody
     /\ \/ Leave(s, c)
        \/ op[s] = "ending" /\ ~Owns(c) /\ Leave(s, [c EXCEPT !.lease = 0])
     /\ UNCHANGED <<made, row>>

\* The heartbeat in flight has been awaited; a section that succeeds asserts its
\* ownership once more, and the guard is let go.
Finish(s) ==
  LET c == CoordOf(s)
  IN /\ op[s] \in {"ending", "failing"} /\ ~c.beat
     /\ writer' = Nobody
     /\ \/ Leave(s, c)
        \/ op[s] = "ending" /\ ~Owns(c) /\ Leave(s, [c EXCEPT !.lease = 0])
     /\ UNCHANGED <<made, row>>

-----------------------------------------------------------------------------
\* Mutant: a second shutdown of a store lets go once more.
ShutdownAgain(s) ==
  LET p == ProcOf[s]
      c == coord[p]
  IN /\ store[s].step \in {"open", "closing"} /\ c.owner # 0
     /\ store' = [store EXCEPT ![s] = [@ EXCEPT !.step = "closing", !.ahead = Len(c.queue)]]
     /\ coord' = [coord EXCEPT ![p] = [c EXCEPT !.refs = @ - 1, !.closing = c.refs = 1]]
     /\ UNCHANGED <<made, op, writer, row>>

\* shutdownCoordinator: the store lets go of the coordinator, and waits for the
\* tail it sees; the last one marks it closing before anything can yield.
Shutdown(s) ==
  LET p == ProcOf[s]
      c == coord[p]
  IN /\ store[s].step = "open"
     /\ store' = [store EXCEPT ![s] = [@ EXCEPT !.step = "closing", !.ahead = Len(c.queue)]]
     /\ coord' = [coord EXCEPT ![p] = [c EXCEPT !.refs = @ - 1, !.closing = c.refs = 1]]
     /\ UNCHANGED <<made, op, writer, row>>

\* close: when the tail has ended, a lease it still has is given back under the
\* writer's guard, or not, when the guard or the update fails; the coordinator
\* leaves the registry and its connection closes either way.
Drained(p) == coord[p].closing /\ coord[p].queue = <<>>

Dispose(p) == coord' = [coord EXCEPT ![p] = NoCoordinator]

GiveBack(p) ==
  /\ Drained(p) /\ coord[p].lease # 0 /\ writer = Nobody
  /\ row' = IF row.owner = coord[p].owner /\ row.epoch = coord[p].lease
            THEN [row EXCEPT !.left = 0] ELSE row
  /\ Dispose(p)
  /\ UNCHANGED <<made, store, op, writer>>

\* Mutant: close waits for the guard without a deadline.
CloseWaits(p) ==
  /\ Drained(p) /\ coord[p].lease = 0
  /\ Dispose(p)
  /\ UNCHANGED <<made, store, op, writer, row>>

CloseWithout(p) ==
  /\ Drained(p)
  /\ Dispose(p)
  /\ UNCHANGED <<made, store, op, writer, row>>

\* A store's shutdown returns when the tail it saw has ended and, if it was the
\* last one, the coordinator is gone.  Another store may be opened in its place.
ShutdownEnds(s) ==
  /\ store[s].step = "closing" /\ store[s].ahead = 0
  /\ ~(CoordOf(s).owner = store[s].owner /\ CoordOf(s).closing)
  /\ store' = [store EXCEPT ![s] = [step |-> "out", owner |-> 0, ahead |-> 0]]
  /\ UNCHANGED <<coord, made, op, writer, row>>

\* The process dies: what it kept in memory and the guard go with it.
Crash(p) ==
  /\ coord[p].owner # 0
  /\ coord' = [coord EXCEPT ![p] = NoCoordinator]
  /\ store' = [s \in Store |-> IF ProcOf[s] = p THEN [step |-> "out", owner |-> 0, ahead |-> 0]
                                               ELSE store[s]]
  /\ op' = [s \in Store |-> IF ProcOf[s] = p THEN "none" ELSE op[s]]
  /\ writer' = IF writer = p THEN Nobody ELSE writer
  /\ UNCHANGED <<made, row>>

Tick ==
  /\ row.left > 0
  /\ row' = [row EXCEPT !.left = @ - 1]
  /\ UNCHANGED <<coord, made, store, op, writer>>

Section(s) ==
  \/ Enter(s) \/ Busy(s) \/ KeepLease(s) \/ TakeLease(s) \/ AcquireFails(s)
  \/ BodyEnds(s) \/ Finish(s)

Next ==
  \/ \E s \in Store : \/ Open(s) \/ Exclusive(s) \/ Section(s) \/ Fence(s) \/ BeatStarts(s)
                      \/ Shutdown(s) \/ ShutdownEnds(s)
  \/ \E p \in Proc : BeatRuns(p) \/ GiveBack(p) \/ CloseWithout(p) \/ Crash(p)
  \/ Tick

\* Sections and closes run on: a body ends, a promise that can continue does.
\* Nothing is assumed of callers, of crashes or of the clock.
Fairness ==
  /\ \A p \in Proc :
       /\ WF_vars(\E s \in Store : ProcOf[s] = p /\ Section(s))
       /\ WF_vars(BeatRuns(p))
       /\ WF_vars(GiveBack(p) \/ CloseWithout(p))
  /\ \A s \in Store : WF_vars(ShutdownEnds(s))

Spec == Init /\ [][Next]_vars /\ Fairness

-----------------------------------------------------------------------------
\* Properties.

\* Every part of the state has its type.
TypeOK ==
  /\ coord \in [Proc -> Coordinator]
  /\ made \in 0 .. MaxOwners
  /\ store \in [Store -> Stores]
  /\ op \in [Store -> {"none", "queued", "guarded", "acting", "ending", "failing"}]
  /\ writer \in Proc \cup {Nobody}
  /\ row \in Rows

OpenOf(p) == {s \in Store : ProcOf[s] = p /\ store[s].step = "open"}

\* A store that is open, or has a section in the tail, refers to the coordinator
\* that is in its process's registry, which counts the open ones: no shutdown,
\* repeated, concurrent or last, disposes the connection under another store.
SharedWhileUsed ==
  /\ \A s \in Store : store[s].step = "open" \/ op[s] # "none" =>
       CoordOf(s).owner = store[s].owner /\ CoordOf(s).owner # 0
  /\ \A p \in Proc :
       /\ coord[p].refs = Cardinality(OpenOf(p))
       /\ coord[p].owner # 0 => (coord[p].closing <=> coord[p].refs = 0)

\* While a section's body runs, the lease row is its coordinator's at the epoch
\* it acquired, expired or not: a stalled event loop that lets the lease lapse
\* does not let another process in, because the guard is still held.
BodyOwnsTheRow ==
  \A s \in Store :
    /\ op[s] \in {"acting", "ending", "failing"} =>
         writer = ProcOf[s] /\ row.owner = CoordOf(s).owner
    /\ op[s] = "acting" => row.epoch = CoordOf(s).lease

\* The row changes hands only after it expired or was given back, and each time
\* under a higher epoch, so that an epoch names one owner for ever, across
\* crashes, restarts and reopened coordinators.
EpochsNameOwners ==
  [][row'.owner # row.owner => row.left = 0 /\ row'.epoch > row.epoch]_vars

\* Nothing renews or rewrites the row outside a section of its owner: heartbeats
\* end before the guard is let go.
RenewedUnderGuard ==
  [][row'.left > row.left \/ row'.epoch # row.epoch =>
       writer # Nobody /\ row'.owner = coord[writer].owner]_vars

\* Every shutdown returns: the tail it waits for ends, whatever other stores queue
\* behind it, and the last one's coordinator is disposed of, with other processes
\* in the guard and failures in any order.
ShutdownsEnd ==
  \A s \in Store : store[s].step = "closing" ~> store[s].step = "out"

-----------------------------------------------------------------------------
\* The inductive invariant behind SharedWhileUsed, BodyOwnsTheRow,
\* EpochsNameOwners and RenewedUnderGuard (StorageCoordinatorProofs), process by
\* process.

Body   == {"acting", "ending", "failing"}
Inside == {"guarded"} \cup Body

\* The types, but for the sign of a count, which SharedInv gives.
Registered == [owner : Owner, refs : Int, closing : BOOLEAN, lease : 0 .. MaxEpoch,
               queue : Seq(Store), beat : BOOLEAN]

Shape ==
  /\ coord \in [Proc -> Registered]
  /\ made \in 0 .. MaxOwners
  /\ store \in [Store -> Stores]
  /\ op \in [Store -> {"none", "queued"} \cup Inside]
  /\ writer \in Proc \cup {Nobody}
  /\ row \in Rows

\* Who is in the guard is the head of its process's tail, so that one section at
\* most is in it.
GuardInv(p) ==
  \A s \in Store : ProcOf[s] = p /\ op[s] \in Inside => writer = p /\ AtHead(s)

RowInv(p) ==
  \A s \in Store : ProcOf[s] = p =>
    /\ op[s] \in Body => row.owner = coord[p].owner
    /\ op[s] = "acting" => row.epoch = coord[p].lease

\* A heartbeat in flight is that of a section whose body has begun.
BeatInv(p) == coord[p].beat => \E s \in Store : ProcOf[s] = p /\ op[s] \in Body

\* SharedWhileUsed in a process, with what keeps it: a section is in the tail of the
\* registered coordinator, and no deeper than the shutdown of its store waits for.
SharedInv(p) ==
  /\ \A s \in Store : ProcOf[s] = p =>
       /\ store[s].step = "open" \/ op[s] # "none" =>
            coord[p].owner = store[s].owner /\ coord[p].owner # 0
       /\ store[s].step = "out" => op[s] = "none"
       /\ op[s] # "none" =>
            \E i \in 1 .. Len(coord[p].queue) :
              coord[p].queue[i] = s /\ (store[s].step = "closing" => i <= store[s].ahead)
  /\ coord[p].refs = Cardinality(OpenOf(p))
  /\ coord[p].owner # 0 => (coord[p].closing <=> coord[p].refs = 0)
  /\ coord[p].owner = 0 => coord[p].queue = <<>> /\ ~coord[p].closing

IInv == Shape /\ \A p \in Proc : GuardInv(p) /\ RowInv(p) /\ BeatInv(p) /\ SharedInv(p)
=============================================================================
