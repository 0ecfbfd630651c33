----------------------- MODULE StorageCoordinatorProofs -----------------------
(***************************************************************************)
(* Who shares a coordinator, and who may write the lease row of a storage  *)
(* directory, for every set of processes and every finite set of stores,   *)
(* any length of lease and any number of coordinators and epochs.          *)
(***************************************************************************)
EXTENDS StorageCoordinator, FiniteSetTheorems, TLAPS

-----------------------------------------------------------------------------
(* Changes of one registry entry, field by field.                          *)

LEMMA UnregisteredFields ==
  /\ NoCoordinator \in Registered
  /\ NoCoordinator.owner = 0 /\ NoCoordinator.refs = 0 /\ NoCoordinator.closing = FALSE
  /\ NoCoordinator.lease = 0 /\ NoCoordinator.queue = <<>> /\ NoCoordinator.beat = FALSE
BY CoordinatorAssumption DEF CoordinatorAssumption, Registered, NoCoordinator, Owner

LEMMA OwnerChange ==
  ASSUME NEW c \in Registered, NEW n \in Owner
  PROVE  LET d == [c EXCEPT !.owner = n, !.refs = 1]
         IN /\ d \in Registered
            /\ d.owner = n /\ d.refs = 1 /\ d.closing = c.closing
            /\ d.lease = c.lease /\ d.queue = c.queue /\ d.beat = c.beat
<1> DEFINE e == [c EXCEPT !.owner = n]
           d == [e EXCEPT !.refs = 1]
<1>1. /\ e \in Registered /\ e.owner = n /\ e.refs = c.refs
      /\ e.closing = c.closing /\ e.lease = c.lease /\ e.queue = c.queue /\ e.beat = c.beat
  BY DEF Registered
<1>2. [c EXCEPT !.owner = n, !.refs = 1] = d
  BY Zenon
<1> HIDE DEF e
<1>3. /\ d \in Registered /\ d.owner = e.owner /\ d.refs = 1
      /\ d.closing = e.closing /\ d.lease = e.lease /\ d.queue = e.queue /\ d.beat = e.beat
  BY <1>1 DEF Registered
<1> HIDE DEF d
<1> QED
  BY <1>1, <1>2, <1>3

LEMMA RefsChange ==
  ASSUME NEW c \in Registered, NEW n \in Int
  PROVE  LET d == [c EXCEPT !.refs = n]
         IN /\ d \in Registered
            /\ d.owner = c.owner /\ d.refs = n /\ d.closing = c.closing
            /\ d.lease = c.lease /\ d.queue = c.queue /\ d.beat = c.beat
BY DEF Registered

LEMMA ReleaseChange ==
  ASSUME NEW c \in Registered
  PROVE  LET d == [c EXCEPT !.refs = @ - 1, !.closing = c.refs = 1]
         IN /\ d \in Registered
            /\ d.owner = c.owner /\ d.refs = c.refs - 1 /\ (d.closing <=> c.refs = 1)
            /\ d.lease = c.lease /\ d.queue = c.queue /\ d.beat = c.beat
<1> DEFINE e == [c EXCEPT !.refs = @ - 1]
           d == [e EXCEPT !.closing = c.refs = 1]
<1>1. /\ e \in Registered /\ e.owner = c.owner /\ e.refs = c.refs - 1
      /\ e.lease = c.lease /\ e.queue = c.queue /\ e.beat = c.beat
  BY DEF Registered
<1>2. [c EXCEPT !.refs = @ - 1, !.closing = c.refs = 1] = d
  BY Zenon
<1> HIDE DEF e
<1>3. /\ d \in Registered /\ d.owner = e.owner /\ d.refs = e.refs
      /\ (d.closing <=> c.refs = 1)
      /\ d.lease = e.lease /\ d.queue = e.queue /\ d.beat = e.beat
  BY <1>1 DEF Registered
<1> HIDE DEF d
<1> QED
  BY <1>1, <1>2, <1>3

LEMMA QueueChange ==
  ASSUME NEW c \in Registered, NEW x \in Seq(Store)
  PROVE  LET d == [c EXCEPT !.queue = x]
         IN /\ d \in Registered
            /\ d.owner = c.owner /\ d.refs = c.refs /\ d.closing = c.closing
            /\ d.lease = c.lease /\ d.queue = x /\ d.beat = c.beat
BY DEF Registered

LEMMA LeaseChange ==
  ASSUME NEW c \in Registered, NEW e \in 0 .. MaxEpoch
  PROVE  LET d == [c EXCEPT !.lease = e]
         IN /\ d \in Registered
            /\ d.owner = c.owner /\ d.refs = c.refs /\ d.closing = c.closing
            /\ d.lease = e /\ d.queue = c.queue /\ d.beat = c.beat
BY DEF Registered

LEMMA BeatChange ==
  ASSUME NEW c \in Registered, NEW b \in BOOLEAN
  PROVE  LET d == [c EXCEPT !.beat = b]
         IN /\ d \in Registered
            /\ d.owner = c.owner /\ d.refs = c.refs /\ d.closing = c.closing
            /\ d.lease = c.lease /\ d.queue = c.queue /\ d.beat = b
BY DEF Registered

LEMMA LostLeaseChange ==
  ASSUME NEW c \in Registered
  PROVE  LET d == [c EXCEPT !.beat = FALSE, !.lease = 0]
         IN /\ d \in Registered
            /\ d.owner = c.owner /\ d.refs = c.refs /\ d.closing = c.closing
            /\ d.lease = 0 /\ d.queue = c.queue /\ d.beat = FALSE
<1> DEFINE e == [c EXCEPT !.beat = FALSE]
           d == [e EXCEPT !.lease = 0]
<1>1. /\ e \in Registered /\ e.owner = c.owner /\ e.refs = c.refs
      /\ e.closing = c.closing /\ e.lease = c.lease /\ e.queue = c.queue /\ e.beat = FALSE
  BY DEF Registered
<1>2. [c EXCEPT !.beat = FALSE, !.lease = 0] = d
  BY Zenon
<1> HIDE DEF e
<1>3. /\ d \in Registered /\ d.owner = e.owner /\ d.refs = e.refs
      /\ d.closing = e.closing /\ d.lease = 0 /\ d.queue = e.queue /\ d.beat = e.beat
  BY <1>1, CoordinatorAssumption DEF Registered, CoordinatorAssumption
<1> HIDE DEF d
<1> QED
  BY <1>1, <1>2, <1>3

LEMMA Entry ==
  ASSUME coord \in [Proc -> Registered], NEW p \in Proc, NEW d \in Registered,
         coord' = [coord EXCEPT ![p] = d]
  PROVE  /\ coord' \in [Proc -> Registered]
         /\ coord'[p] = d
         /\ \A q \in Proc : q # p => coord'[q] = coord[q]
OBVIOUS

-----------------------------------------------------------------------------
(* The frame of a step.                                                    *)

Local(p) == GuardInv(p) /\ RowInv(p) /\ BeatInv(p) /\ SharedInv(p)

LEMMA Home == ASSUME NEW s \in Store PROVE ProcOf[s] \in Proc
BY CoordinatorAssumption DEF CoordinatorAssumption

(* A step of one process that leaves the guard and the row of the others   *)
(* alone has to be looked at in that process only.                         *)
LEMMA LocalStep ==
  ASSUME IInv, Shape', NEW p \in Proc,
         \A q \in Proc : q # p => coord'[q] = coord[q],
         \A s \in Store : ProcOf[s] # p => op'[s] = op[s] /\ store'[s] = store[s],
         writer' = writer \/ writer \in {p, Nobody},
         writer = p \/ (row'.owner = row.owner /\ row'.epoch = row.epoch),
         Local(p)'
  PROVE  IInv'
<1> SUFFICES ASSUME NEW q \in Proc, q # p
             PROVE  GuardInv(q)' /\ RowInv(q)' /\ BeatInv(q)' /\ SharedInv(q)'
  BY DEF IInv, Local
<1>1. coord'[q] = coord[q]
  OBVIOUS
<1>2. \A s \in Store : ProcOf[s] = q => op'[s] = op[s] /\ store'[s] = store[s]
  OBVIOUS
<1>3. GuardInv(q) /\ RowInv(q) /\ BeatInv(q) /\ SharedInv(q)
  BY DEF IInv
<1>4. ASSUME NEW s \in Store, ProcOf[s] = q, op[s] \in Inside
      PROVE  /\ writer = q /\ writer' = q
             /\ row'.owner = row.owner /\ row'.epoch = row.epoch
  BY <1>3, <1>4, CoordinatorAssumption DEF GuardInv, CoordinatorAssumption
<1>5. GuardInv(q)'
  BY <1>1, <1>2, <1>3, <1>4 DEF GuardInv, AtHead, CoordOf
<1>6. RowInv(q)'
  BY <1>1, <1>2, <1>3, <1>4 DEF RowInv, Inside, Body
<1>7. BeatInv(q)'
  BY <1>1, <1>2, <1>3 DEF BeatInv
<1>8. OpenOf(q)' = OpenOf(q)
  BY <1>2 DEF OpenOf
<1>9. SharedInv(q)'
  BY <1>1, <1>2, <1>3, <1>8 DEF SharedInv
<1> QED
  BY <1>5, <1>6, <1>7, <1>9

(* Steps inside a section change nothing about who shares the coordinator. *)
LEMMA SharedKept ==
  ASSUME IInv, NEW p \in Proc, store' = store,
         coord'[p].owner = coord[p].owner, coord'[p].refs = coord[p].refs,
         coord'[p].closing = coord[p].closing, coord'[p].queue = coord[p].queue,
         \A s \in Store : ProcOf[s] = p /\ op'[s] # "none" => op[s] # "none"
  PROVE  SharedInv(p)'
<1>1. SharedInv(p)
  BY DEF IInv
<1>2. OpenOf(p)' = OpenOf(p)
  BY DEF OpenOf
<1> QED
  BY <1>1, <1>2 DEF SharedInv

(* One section at most is in the guard, the head of its tail.              *)
LEMMA OneInside ==
  ASSUME IInv, NEW s \in Store, NEW t \in Store,
         ProcOf[s] = ProcOf[t], AtHead(s), op[t] \in Inside
  PROVE  t = s
BY Home DEF IInv, GuardInv, AtHead, CoordOf

(* A heartbeat in flight means that the head of the tail has begun its body. *)
LEMMA NoBeat ==
  ASSUME IInv, NEW s \in Store, AtHead(s), op[s] \notin Body
  PROVE  ~CoordOf(s).beat
<1> SUFFICES ASSUME CoordOf(s).beat PROVE FALSE
  OBVIOUS
<1>1. PICK t \in Store : ProcOf[t] = ProcOf[s] /\ op[t] \in Body
  BY Home DEF IInv, BeatInv, CoordOf
<1>2. t = s
  BY <1>1, OneInside DEF Inside
<1> QED
  BY <1>1, <1>2

(* What the end of a section does to the stores of its process.            *)
LEMMA LeaveStores ==
  ASSUME IInv, NEW s \in Store, NEW c, Leave(s, c)
  PROVE  /\ store' \in [Store -> Stores]
         /\ \A t \in Store :
              /\ ProcOf[t] # ProcOf[s] => store'[t] = store[t]
              /\ store'[t].step = store[t].step /\ store'[t].owner = store[t].owner
              /\ ProcOf[t] = ProcOf[s] /\ store[t].ahead > 0 => store'[t].ahead = store[t].ahead - 1
<1> DEFINE less(t) == [store[t] EXCEPT !.ahead = @ - 1]
<1>1. ASSUME NEW t \in Store, store[t].ahead > 0
      PROVE  /\ less(t) \in Stores /\ less(t).step = store[t].step
             /\ less(t).owner = store[t].owner /\ less(t).ahead = store[t].ahead - 1
  BY <1>1 DEF IInv, Shape, Stores
<1>2. store' = [t \in Store |-> IF ProcOf[t] = ProcOf[s] /\ store[t].ahead > 0
                                THEN less(t) ELSE store[t]]
  BY DEF Leave
<1>3. store \in [Store -> Stores]
  BY DEF IInv, Shape
<1> HIDE DEF less
<1> QED
  BY <1>1, <1>2, <1>3

(* The end of a section leaves nobody of its process in the guard, and the *)
(* other sections one place further on.                                    *)
LEMMA LeaveStep ==
  ASSUME IInv, NEW s \in Store, NEW c \in Registered, AtHead(s), ~c.beat,
         c.owner = CoordOf(s).owner, c.refs = CoordOf(s).refs,
         c.closing = CoordOf(s).closing, c.queue = CoordOf(s).queue, Leave(s, c),
         op[s] # "none",
         writer' = writer \/ (writer = ProcOf[s] /\ writer' = Nobody),
         row' \in Rows,
         writer = ProcOf[s] \/ row' = row,
         made' = made
  PROVE  IInv'
<1> DEFINE p == ProcOf[s]
           d == [c EXCEPT !.queue = Tail(@)]
<1>1. p \in Proc
  BY Home
<1>2. c.queue # <<>> /\ Head(c.queue) = s /\ c.queue \in Seq(Store)
  BY DEF AtHead, Registered
<1>3. Tail(c.queue) \in Seq(Store)
  BY <1>2
<1>4. /\ d \in Registered /\ d.owner = coord[p].owner /\ d.refs = coord[p].refs
      /\ d.closing = coord[p].closing /\ d.queue = Tail(c.queue) /\ d.beat = c.beat
  BY <1>3, QueueChange DEF CoordOf
<1>5. coord \in [Proc -> Registered] /\ coord' = [coord EXCEPT ![p] = d]
  BY DEF IInv, Shape, Leave
<1> HIDE DEF d
<1>6. /\ coord' \in [Proc -> Registered] /\ coord'[p] = d
      /\ \A q \in Proc : q # p => coord'[q] = coord[q]
  BY <1>1, <1>4, <1>5, Entry
<1>7. /\ op' \in [Store -> {"none", "queued"} \cup Inside]
      /\ op'[s] = "none" /\ \A t \in Store : t # s => op'[t] = op[t]
  BY DEF IInv, Shape, Leave
<1>8. Shape'
  BY <1>6, <1>7, LeaveStores DEF IInv, Shape
<1>9. \A t \in Store : ProcOf[t] = p => op'[t] \notin Inside
  BY <1>7, OneInside DEF Inside, Body
<1>10. GuardInv(p)'
  BY <1>9 DEF GuardInv
<1>11. RowInv(p)'
  BY <1>9 DEF RowInv, Inside, Body
<1>12. BeatInv(p)'
  BY <1>4, <1>6 DEF BeatInv
<1>13. SharedInv(p)
  BY <1>1 DEF IInv
<1>14. SharedInv(p)'
  <2>1. ASSUME NEW t \in Store, ProcOf[t] = p, store'[t].step = "open" \/ op'[t] # "none"
        PROVE  coord'[p].owner = store'[t].owner /\ coord'[p].owner # 0
    BY <1>4, <1>6, <1>7, <1>13, <2>1, LeaveStores DEF SharedInv
  <2>2. ASSUME NEW t \in Store, ProcOf[t] = p, op'[t] # "none"
        PROVE  \E i \in 1 .. Len(coord'[p].queue) :
                 coord'[p].queue[i] = t /\ (store'[t].step = "closing" => i <= store'[t].ahead)
    <3>1. t # s /\ op[t] # "none"
      BY <1>7, <2>2
    <3>2. PICK i \in 1 .. Len(c.queue) :
            c.queue[i] = t /\ (store[t].step = "closing" => i <= store[t].ahead)
      BY <1>13, <2>2, <3>1 DEF SharedInv, CoordOf
    <3>3. i # 1
      BY <1>2, <3>1, <3>2
    <3>4. i - 1 \in 1 .. Len(Tail(c.queue)) /\ Tail(c.queue)[i - 1] = t
      BY <1>2, <3>2, <3>3
    <3>5. store[t].ahead \in Int
      BY DEF IInv, Shape, Stores
    <3>6. store'[t].step = "closing" => i - 1 <= store'[t].ahead
      BY <2>2, <3>2, <3>3, <3>5, LeaveStores
    <3> QED
      BY <1>4, <1>6, <3>4, <3>6
  <2>3. OpenOf(p)' = OpenOf(p)
    BY LeaveStores DEF OpenOf
  <2>4. coord[p].owner # 0
    BY <1>13, <1>2 DEF SharedInv, CoordOf
  <2>5. ASSUME NEW t \in Store, ProcOf[t] = p, store'[t].step = "out"
        PROVE  op'[t] = "none"
    BY <1>7, <1>13, <2>5, LeaveStores DEF SharedInv
  <2> QED
    BY <1>4, <1>6, <1>13, <2>1, <2>2, <2>3, <2>4, <2>5 DEF SharedInv
<1>15. \A t \in Store : ProcOf[t] # p => op'[t] = op[t] /\ store'[t] = store[t]
  BY <1>7, LeaveStores
<1>16. (row'.owner = row.owner /\ row'.epoch = row.epoch) \/ writer = p
  OBVIOUS
<1> QED
  BY <1>1, <1>6, <1>8, <1>10, <1>11, <1>12, <1>14, <1>15, <1>16, LocalStep DEF Local

-----------------------------------------------------------------------------
(* The steps.                                                              *)

LEMMA InitInv == Init => IInv
<1> SUFFICES ASSUME Init PROVE IInv
  OBVIOUS
<1>1. Shape
  <2>1. [step |-> "out", owner |-> 0, ahead |-> 0] \in Stores
    BY CoordinatorAssumption DEF CoordinatorAssumption, Stores, Owner
  <2> QED
    BY <2>1, CoordinatorAssumption, UnregisteredFields
    DEF CoordinatorAssumption, Init, Shape, Rows, Owner
<1>2. ASSUME NEW p \in Proc PROVE GuardInv(p) /\ RowInv(p) /\ BeatInv(p)
  BY UnregisteredFields DEF Init, GuardInv, RowInv, BeatInv, Inside, Body
<1>3. ASSUME NEW p \in Proc PROVE SharedInv(p)
  <2>1. OpenOf(p) = {}
    BY DEF Init, OpenOf
  <2> QED
    BY <2>1, UnregisteredFields, FS_EmptySet DEF Init, SharedInv
<1> QED
  BY <1>1, <1>2, <1>3 DEF IInv

(* A new coordinator starts with no section, since there was none without  *)
(* one; an opener that joins changes the count only.                       *)
LEMMA OpenStep ==
  ASSUME IInv, NEW s \in Store, Open(s)
  PROVE  IInv'
<1> DEFINE p == ProcOf[s]
           fresh == [NoCoordinator EXCEPT !.owner = made + 1, !.refs = 1]
           more == [coord[p] EXCEPT !.refs = @ + 1]
           d == IF coord[p].owner = 0 THEN fresh ELSE more
           e == [step |-> "open", owner |-> d.owner, ahead |-> 0]
<1>1. p \in Proc /\ coord[p] \in Registered /\ coord[p].refs \in Int
  BY Home DEF IInv, Shape, Registered
<1>2. coord[p].owner = 0 => made + 1 \in Owner /\ made + 1 # 0 /\ made' \in 0 .. MaxOwners
  BY CoordinatorAssumption DEF CoordinatorAssumption, IInv, Shape, Open, Owner, CoordOf
<1>3. coord[p].owner # 0 => made' = made
  BY DEF Open, CoordOf
<1>4. coord[p].owner = 0 =>
        /\ fresh \in Registered /\ fresh.owner = made + 1 /\ fresh.refs = 1
        /\ fresh.closing = FALSE /\ fresh.queue = <<>> /\ fresh.beat = FALSE
  BY <1>2, UnregisteredFields, OwnerChange
<1>5. /\ more \in Registered /\ more.owner = coord[p].owner /\ more.refs = coord[p].refs + 1
      /\ more.closing = coord[p].closing /\ more.lease = coord[p].lease
      /\ more.queue = coord[p].queue /\ more.beat = coord[p].beat
  BY <1>1, RefsChange
<1>6. coord' = [coord EXCEPT ![p] = d] /\ ~coord[p].closing /\ store[s].step = "out"
  BY <1>1 DEF Open, CoordOf
<1>7. GuardInv(p) /\ RowInv(p) /\ BeatInv(p) /\ SharedInv(p)
  BY <1>1 DEF IInv
<1>8. coord[p].owner = 0 =>
        /\ coord[p].queue = <<>> /\ coord[p].refs = 0
        /\ \A t \in Store : ProcOf[t] = p => op[t] = "none" /\ store[t].step # "open"
  <2> SUFFICES ASSUME coord[p].owner = 0
               PROVE /\ coord[p].queue = <<>> /\ coord[p].refs = 0
                     /\ \A t \in Store : ProcOf[t] = p => op[t] = "none" /\ store[t].step # "open"
    OBVIOUS
  <2>1. \A t \in Store : ProcOf[t] = p => op[t] = "none" /\ store[t].step # "open"
    BY <1>7 DEF SharedInv
  <2>2. OpenOf(p) = {}
    BY <2>1 DEF OpenOf
  <2> QED
    BY <1>7, <2>1, <2>2, FS_EmptySet DEF SharedInv
<1> HIDE DEF fresh, more
<1>9. /\ d \in Registered /\ d.owner # 0 /\ d.refs = coord[p].refs + 1 /\ d.closing = FALSE
      /\ d.queue = coord[p].queue /\ (d.beat => coord[p].beat)
  BY <1>1, <1>2, <1>4, <1>5, <1>6, <1>8
<1>10. coord[p].owner # 0 => d.owner = coord[p].owner /\ d.lease = coord[p].lease
  BY <1>5
<1> HIDE DEF d
<1>11. /\ coord' \in [Proc -> Registered] /\ coord'[p] = d
       /\ \A q \in Proc : q # p => coord'[q] = coord[q]
  BY <1>1, <1>6, <1>9, Entry DEF IInv, Shape
<1>12. op' = op /\ writer' = writer /\ row' = row /\ store' = [store EXCEPT ![s] = e]
  BY <1>11 DEF Open
<1>13. e \in Stores /\ e.step = "open" /\ e.owner = d.owner
  BY <1>9 DEF Stores, Registered
<1> HIDE DEF e
<1>14. /\ store' \in [Store -> Stores] /\ store'[s] = e
       /\ \A t \in Store : t # s => store'[t] = store[t]
  BY <1>12, <1>13 DEF IInv, Shape
<1>15. Shape'
  BY <1>2, <1>3, <1>11, <1>12, <1>14 DEF IInv, Shape
<1>16. GuardInv(p)'
  BY <1>7, <1>9, <1>11, <1>12 DEF GuardInv, AtHead, CoordOf
<1>17. RowInv(p)'
  BY <1>7, <1>8, <1>10, <1>11, <1>12 DEF RowInv, Body
<1>18. BeatInv(p)'
  BY <1>7, <1>9, <1>11, <1>12 DEF BeatInv
<1>19. SharedInv(p)'
  <2>1. OpenOf(p)' = OpenOf(p) \cup {s} /\ s \notin OpenOf(p) /\ IsFiniteSet(OpenOf(p))
    <3>1. OpenOf(p)' = OpenOf(p) \cup {s} /\ s \notin OpenOf(p)
      BY <1>6, <1>13, <1>14 DEF OpenOf
    <3>2. IsFiniteSet(OpenOf(p))
      BY CoordinatorAssumption, FS_Subset DEF CoordinatorAssumption, OpenOf
    <3> QED
      BY <3>1, <3>2
  <2>2. Cardinality(OpenOf(p)') = Cardinality(OpenOf(p)) + 1
    BY <2>1, FS_AddElement
  <2>3. Cardinality(OpenOf(p)) \in Nat
    BY <2>1, FS_CardinalityType
  <2>4. op[s] = "none"
    BY <1>6, <1>7 DEF SharedInv
  <2>5. ASSUME NEW t \in Store, ProcOf[t] = p, store'[t].step = "open" \/ op'[t] # "none"
        PROVE  coord'[p].owner = store'[t].owner /\ coord'[p].owner # 0
    BY <1>7, <1>8, <1>9, <1>10, <1>11, <1>12, <1>13, <1>14, <2>4, <2>5 DEF SharedInv
  <2>6. ASSUME NEW t \in Store, ProcOf[t] = p, op'[t] # "none"
        PROVE  \E i \in 1 .. Len(coord'[p].queue) :
                 coord'[p].queue[i] = t /\ (store'[t].step = "closing" => i <= store'[t].ahead)
    BY <1>7, <1>9, <1>11, <1>12, <1>14, <2>4, <2>6 DEF SharedInv
  <2>7. /\ coord'[p].refs = Cardinality(OpenOf(p)') /\ coord'[p].refs # 0
        /\ coord'[p].closing = FALSE /\ coord'[p].owner # 0
    BY <1>7, <1>9, <1>11, <2>2, <2>3 DEF SharedInv
  <2>8. ASSUME NEW t \in Store, ProcOf[t] = p, store'[t].step = "out"
        PROVE  op'[t] = "none"
    BY <1>7, <1>12, <1>13, <1>14, <2>8 DEF SharedInv
  <2> QED
    BY <2>5, <2>6, <2>7, <2>8 DEF SharedInv
<1>20. \A t \in Store : ProcOf[t] # p => op'[t] = op[t] /\ store'[t] = store[t]
  BY <1>12, <1>14
<1> QED
  BY <1>1, <1>11, <1>12, <1>15, <1>16, <1>17, <1>18, <1>19, <1>20, LocalStep DEF Local
(* A step inside a section: what remains to be looked at.                  *)
LEMMA SectionStep ==
  ASSUME IInv, NEW p \in Proc,
         coord' \in [Proc -> Registered],
         \A q \in Proc : q # p => coord'[q] = coord[q],
         coord'[p].owner = coord[p].owner, coord'[p].refs = coord[p].refs,
         coord'[p].closing = coord[p].closing, coord'[p].queue = coord[p].queue,
         op' \in [Store -> {"none", "queued"} \cup Inside],
         \A s \in Store : ProcOf[s] # p => op'[s] = op[s],
         \A s \in Store : ProcOf[s] = p /\ op'[s] # "none" => op[s] # "none",
         \A s \in Store : ProcOf[s] = p /\ op'[s] \in Inside => writer' = p /\ AtHead(s),
         made' = made, store' = store,
         writer' = writer \/ (writer = Nobody /\ writer' = p),
         row' \in Rows,
         writer = p \/ (row'.owner = row.owner /\ row'.epoch = row.epoch),
         RowInv(p)', BeatInv(p)'
  PROVE  IInv'
<1>1. Shape'
  BY DEF IInv, Shape
<1>2. GuardInv(p)'
  BY DEF GuardInv, AtHead, CoordOf
<1>3. SharedInv(p)'
  BY SharedKept
<1> QED
  BY <1>1, <1>2, <1>3, LocalStep DEF Local

LEMMA ExclusiveStep ==
  ASSUME IInv, NEW s \in Store, Exclusive(s)
  PROVE  IInv'
<1> DEFINE p == ProcOf[s]
           q == coord[p].queue
           x == Append(q, s)
           d == [coord[p] EXCEPT !.queue = x]
<1>1. p \in Proc /\ coord[p] \in Registered /\ q \in Seq(Store)
  BY Home DEF IInv, Shape, Registered
<1>2. /\ x \in Seq(Store) /\ Len(x) = Len(q) + 1 /\ x[Len(q) + 1] = s /\ Len(q) \in Nat
      /\ \A i \in 1 .. Len(q) : x[i] = q[i]
      /\ q # <<>> => x # <<>> /\ Head(x) = Head(q)
  BY <1>1
<1>3. coord' = [coord EXCEPT ![p] = d]
  BY DEF Exclusive
<1> HIDE DEF q, x
<1>4. /\ d \in Registered /\ d.owner = coord[p].owner /\ d.refs = coord[p].refs
      /\ d.closing = coord[p].closing /\ d.lease = coord[p].lease
      /\ d.queue = x /\ d.beat = coord[p].beat
  BY <1>1, <1>2, QueueChange
<1> HIDE DEF d
<1>5. /\ coord' \in [Proc -> Registered] /\ coord'[p] = d
      /\ \A r \in Proc : r # p => coord'[r] = coord[r]
  BY <1>1, <1>3, <1>4, Entry DEF IInv, Shape
<1>6. /\ op' \in [Store -> {"none", "queued"} \cup Inside]
      /\ op'[s] = "queued" /\ \A t \in Store : t # s => op'[t] = op[t]
  BY DEF Exclusive, IInv, Shape
<1>7. /\ made' = made /\ store' = store /\ writer' = writer /\ row' = row
      /\ op[s] = "none" /\ store[s].step = "open"
  BY DEF Exclusive
<1>8. GuardInv(p) /\ RowInv(p) /\ BeatInv(p) /\ SharedInv(p)
  BY <1>1 DEF IInv
<1>9. Shape'
  BY <1>5, <1>6, <1>7 DEF IInv, Shape
<1>10. GuardInv(p)'
  BY <1>2, <1>4, <1>5, <1>6, <1>7, <1>8 DEF GuardInv, AtHead, CoordOf, Inside, Body, q
<1>11. RowInv(p)'
  BY <1>4, <1>5, <1>6, <1>7, <1>8 DEF RowInv, Body
<1>12. BeatInv(p)'
  BY <1>4, <1>5, <1>6, <1>7, <1>8 DEF BeatInv, Body
<1>13. SharedInv(p)'
  <2>1. ASSUME NEW t \in Store, ProcOf[t] = p, op'[t] # "none"
        PROVE  \E i \in 1 .. Len(x) : x[i] = t /\ (store[t].step = "closing" => i <= store[t].ahead)
    <3>1. CASE t = s
      BY <1>2, <1>7, <3>1
    <3>2. CASE t # s
      <4>1. PICK i \in 1 .. Len(q) :
              q[i] = t /\ (store[t].step = "closing" => i <= store[t].ahead)
        BY <1>6, <1>8, <2>1, <3>2 DEF SharedInv, q
      <4>2. i \in 1 .. Len(x) /\ x[i] = t
        BY <1>2, <4>1
      <4> QED
        BY <4>1, <4>2
    <3> QED
      BY <3>1, <3>2
  <2>2. OpenOf(p)' = OpenOf(p)
    BY <1>7 DEF OpenOf
  <2>3. coord[p].owner # 0
    BY <1>7, <1>8 DEF SharedInv
  <2> QED
    BY <1>4, <1>5, <1>6, <1>7, <1>8, <2>1, <2>2, <2>3 DEF SharedInv
<1>14. \A t \in Store : ProcOf[t] # p => op'[t] = op[t] /\ store'[t] = store[t]
  BY <1>6, <1>7
<1> QED
  BY <1>1, <1>5, <1>7, <1>9, <1>10, <1>11, <1>12, <1>13, <1>14, LocalStep DEF Local

LEMMA EnterStep ==
  ASSUME IInv, NEW s \in Store, Enter(s)
  PROVE  IInv'
<1> DEFINE p == ProcOf[s]
<1>1. p \in Proc /\ GuardInv(p) /\ RowInv(p) /\ BeatInv(p)
  BY Home DEF IInv
<1>2. /\ op' \in [Store -> {"none", "queued"} \cup Inside]
      /\ op'[s] = "guarded" /\ \A t \in Store : t # s => op'[t] = op[t]
  BY DEF Enter, IInv, Shape, Inside
<1>3. /\ op[s] = "queued" /\ AtHead(s) /\ writer = Nobody /\ writer' = p
      /\ coord' = coord /\ made' = made /\ store' = store /\ row' = row
  BY DEF Enter
<1>4. \A t \in Store : ProcOf[t] = p /\ op'[t] \in Inside => writer' = p /\ AtHead(t)
  BY <1>1, <1>2, <1>3 DEF GuardInv
<1>5. RowInv(p)'
  BY <1>1, <1>2, <1>3 DEF RowInv, Body
<1>6. BeatInv(p)'
  BY <1>1, <1>2, <1>3 DEF BeatInv, Body
<1> QED
  BY <1>1, <1>2, <1>3, <1>4, <1>5, <1>6, SectionStep DEF IInv, Shape

LEMMA BusyStep ==
  ASSUME IInv, NEW s \in Store, Busy(s)
  PROVE  IInv'
<1>1. CoordOf(s) \in Registered
  BY Home DEF IInv, Shape, CoordOf
<1>2. ~CoordOf(s).beat
  BY NoBeat DEF Busy, Body
<1> QED
  BY <1>1, <1>2, LeaveStep DEF Busy, IInv, Shape

(* The section of the guard begins its body over a row that is its own.    *)
LEMMA LeaseStep ==
  ASSUME IInv, NEW s \in Store, NEW e \in 0 .. MaxEpoch, op[s] = "guarded",
         coord' = [coord EXCEPT ![ProcOf[s]].lease = e],
         op' = [op EXCEPT ![s] = "acting"],
         row' \in Rows, row'.owner = CoordOf(s).owner, row'.epoch = e,
         UNCHANGED <<made, store, writer>>
  PROVE  IInv'
<1> DEFINE p == ProcOf[s]
           d == [coord[p] EXCEPT !.lease = e]
<1>1. p \in Proc /\ coord[p] \in Registered /\ GuardInv(p) /\ RowInv(p) /\ BeatInv(p)
  BY Home DEF IInv, Shape
<1>2. coord' = [coord EXCEPT ![p] = d]
  OBVIOUS
<1>3. /\ d \in Registered /\ d.owner = coord[p].owner /\ d.refs = coord[p].refs
      /\ d.closing = coord[p].closing /\ d.lease = e
      /\ d.queue = coord[p].queue /\ d.beat = coord[p].beat
  BY <1>1, LeaseChange
<1> HIDE DEF d
<1>4. /\ coord' \in [Proc -> Registered] /\ coord'[p] = d
      /\ \A q \in Proc : q # p => coord'[q] = coord[q]
  BY <1>1, <1>2, <1>3, Entry DEF IInv, Shape
<1>5. /\ op' \in [Store -> {"none", "queued"} \cup Inside]
      /\ op'[s] = "acting" /\ \A t \in Store : t # s => op'[t] = op[t]
  BY DEF IInv, Shape, Inside, Body
<1>6. writer = p /\ AtHead(s)
  BY <1>1 DEF GuardInv, Inside
<1>7. \A t \in Store : ProcOf[t] = p /\ op'[t] \in Inside => t = s
  BY <1>5, <1>6, OneInside
<1>8. RowInv(p)'
  BY <1>3, <1>4, <1>7 DEF RowInv, Inside, Body, CoordOf
<1>9. BeatInv(p)'
  BY <1>5 DEF BeatInv, Body
<1> QED
  BY <1>1, <1>3, <1>4, <1>5, <1>6, <1>7, <1>8, <1>9, SectionStep

LEMMA KeepLeaseStep ==
  ASSUME IInv, NEW s \in Store, KeepLease(s)
  PROVE  IInv'
<1>1. row.epoch \in 0 .. MaxEpoch /\ row' = row /\ row.owner = CoordOf(s).owner /\ row \in Rows
  BY DEF KeepLease, IInv, Shape, Rows
<1> QED
  BY <1>1, LeaseStep DEF KeepLease

(* The row a section may write is a row.                                   *)
LEMMA TakenRow ==
  ASSUME IInv, NEW c \in Registered, MayTake(c)
  PROVE  /\ Taken(c) \in Rows /\ Taken(c).owner = c.owner
         /\ Taken(c).epoch = NextEpoch(c) /\ NextEpoch(c) \in 0 .. MaxEpoch
BY CoordinatorAssumption
DEF CoordinatorAssumption, IInv, Shape, Rows, Registered, MayTake, Taken, NextEpoch

LEMMA TakeLeaseStep ==
  ASSUME IInv, NEW s \in Store, TakeLease(s)
  PROVE  IInv'
<1>1. CoordOf(s) \in Registered
  BY Home DEF IInv, Shape, CoordOf
<1> QED
  BY <1>1, TakenRow, LeaseStep DEF TakeLease

LEMMA AcquireFailsStep ==
  ASSUME IInv, NEW s \in Store, AcquireFails(s)
  PROVE  IInv'
<1>1. CoordOf(s) \in Registered
  BY Home DEF IInv, Shape, CoordOf
<1>2. writer = ProcOf[s] /\ AtHead(s)
  BY Home DEF AcquireFails, IInv, GuardInv, Inside
<1>3. ~CoordOf(s).beat
  BY <1>2, NoBeat DEF AcquireFails, Body
<1>4. row' \in Rows
  BY <1>1, TakenRow DEF AcquireFails, IInv, Shape
<1> QED
  BY <1>1, <1>2, <1>3, <1>4, LeaveStep DEF AcquireFails

(* A renewal writes over its own row, or forgets the lease and fails the   *)
(* section.                                                                *)
LEMMA RenewStep ==
  ASSUME IInv, NEW p \in Proc, Renew(p), UNCHANGED <<made, store, writer>>
  PROVE  IInv'
<1>1. coord[p] \in Registered /\ GuardInv(p) /\ RowInv(p) /\ BeatInv(p)
  BY DEF IInv, Shape
<1>2. CASE Owns(coord[p])
  <2> DEFINE d == [coord[p] EXCEPT !.beat = FALSE]
  <2>1. coord' = [coord EXCEPT ![p] = d] /\ op' = op /\ row' = [row EXCEPT !.left = LeaseTicks]
    BY <1>2 DEF Renew
  <2>2. /\ d \in Registered /\ d.owner = coord[p].owner /\ d.refs = coord[p].refs
        /\ d.closing = coord[p].closing /\ d.lease = coord[p].lease
        /\ d.queue = coord[p].queue /\ d.beat = FALSE
    BY <1>1, BeatChange
  <2> HIDE DEF d
  <2>3. /\ coord' \in [Proc -> Registered] /\ coord'[p] = d
        /\ \A q \in Proc : q # p => coord'[q] = coord[q]
    BY <2>1, <2>2, Entry DEF IInv, Shape
  <2>4. row' \in Rows /\ row'.owner = row.owner /\ row'.epoch = row.epoch
    BY <2>1, CoordinatorAssumption DEF CoordinatorAssumption, IInv, Shape, Rows
  <2>5. RowInv(p)'
    BY <1>1, <2>1, <2>2, <2>3, <2>4 DEF RowInv
  <2>6. BeatInv(p)'
    BY <2>2, <2>3 DEF BeatInv
  <2>7. \A s \in Store : ProcOf[s] = p /\ op'[s] \in Inside => writer' = p /\ AtHead(s)
    BY <1>1, <2>1 DEF GuardInv
  <2> QED
    BY <2>1, <2>2, <2>3, <2>4, <2>5, <2>6, <2>7, SectionStep DEF IInv, Shape
<1>3. CASE ~Owns(coord[p])
  <2> DEFINE d == [coord[p] EXCEPT !.beat = FALSE, !.lease = 0]
  <2>1. /\ coord' = [coord EXCEPT ![p] = d] /\ row' = row
        /\ op' = [s \in Store |-> IF ProcOf[s] = p /\ op[s] = "acting" THEN "failing" ELSE op[s]]
    BY <1>3 DEF Renew
  <2>2. /\ d \in Registered /\ d.owner = coord[p].owner /\ d.refs = coord[p].refs
        /\ d.closing = coord[p].closing
        /\ d.queue = coord[p].queue /\ d.beat = FALSE
    BY <1>1, LostLeaseChange
  <2> HIDE DEF d
  <2>3. /\ coord' \in [Proc -> Registered] /\ coord'[p] = d
        /\ \A q \in Proc : q # p => coord'[q] = coord[q]
    BY <2>1, <2>2, Entry DEF IInv, Shape
  <2>4. /\ op' \in [Store -> {"none", "queued"} \cup Inside]
        /\ \A s \in Store : ProcOf[s] # p => op'[s] = op[s]
        /\ \A s \in Store : ProcOf[s] = p => op'[s] # "acting"
        /\ \A s \in Store : ProcOf[s] = p => op'[s] = op[s] \/ (op[s] = "acting" /\ op'[s] = "failing")
    BY <2>1 DEF IInv, Shape, Inside, Body
  <2>5. RowInv(p)'
    BY <1>1, <2>1, <2>2, <2>3, <2>4 DEF RowInv, Body
  <2>6. BeatInv(p)'
    BY <2>2, <2>3 DEF BeatInv
  <2>7. \A s \in Store : ProcOf[s] = p /\ op'[s] \in Inside => writer' = p /\ AtHead(s)
    BY <1>1, <2>4 DEF GuardInv, Inside, Body
  <2>8. \A s \in Store : ProcOf[s] = p /\ op'[s] # "none" => op[s] # "none"
    BY <2>4
  <2> QED
    BY <2>1, <2>2, <2>3, <2>4, <2>5, <2>6, <2>7, <2>8, SectionStep DEF IInv, Shape
<1> QED
  BY <1>2, <1>3

LEMMA BeatStartsStep ==
  ASSUME IInv, NEW s \in Store, BeatStarts(s)
  PROVE  IInv'
<1> DEFINE p == ProcOf[s]
           d == [coord[p] EXCEPT !.beat = TRUE]
<1>1. p \in Proc /\ coord[p] \in Registered /\ GuardInv(p) /\ RowInv(p)
  BY Home DEF IInv, Shape
<1>2. /\ coord' = [coord EXCEPT ![p] = d] /\ op[s] = "acting" /\ op' = op /\ writer' = writer
      /\ made' = made /\ store' = store /\ row' = row
  BY DEF BeatStarts
<1>3. /\ d \in Registered /\ d.owner = coord[p].owner /\ d.refs = coord[p].refs
      /\ d.closing = coord[p].closing /\ d.lease = coord[p].lease
      /\ d.queue = coord[p].queue
  BY <1>1, BeatChange
<1> HIDE DEF d
<1>4. /\ coord' \in [Proc -> Registered] /\ coord'[p] = d
      /\ \A q \in Proc : q # p => coord'[q] = coord[q]
  BY <1>1, <1>2, <1>3, Entry DEF IInv, Shape
<1>5. RowInv(p)'
  BY <1>1, <1>2, <1>3, <1>4 DEF RowInv
<1>6. BeatInv(p)'
  BY <1>2 DEF BeatInv, Body
<1>7. \A t \in Store : ProcOf[t] = p /\ op'[t] \in Inside => writer' = p /\ AtHead(t)
  BY <1>1, <1>2 DEF GuardInv
<1> QED
  BY <1>1, <1>2, <1>3, <1>4, <1>5, <1>6, <1>7, SectionStep DEF IInv, Shape

LEMMA BodyEndsStep ==
  ASSUME IInv, NEW s \in Store, BodyEnds(s)
  PROVE  IInv'
<1> DEFINE p == ProcOf[s]
<1>1. p \in Proc /\ GuardInv(p) /\ RowInv(p)
  BY Home DEF IInv
<1>2. /\ op' \in [Store -> {"none", "queued"} \cup Inside]
      /\ op'[s] = "ending" /\ \A t \in Store : t # s => op'[t] = op[t]
  BY DEF BodyEnds, IInv, Shape, Inside, Body
<1>3. /\ op[s] = "acting" /\ coord' = coord /\ made' = made /\ store' = store
      /\ writer' = writer /\ row' = row
  BY DEF BodyEnds
<1>4. \A t \in Store : ProcOf[t] = p /\ op'[t] \in Inside => writer' = p /\ AtHead(t)
  BY <1>1, <1>2, <1>3 DEF GuardInv, Inside, Body
<1>5. RowInv(p)'
  BY <1>1, <1>2, <1>3 DEF RowInv, Body
<1>6. BeatInv(p)'
  BY <1>2, <1>3 DEF BeatInv, Body
<1> QED
  BY <1>1, <1>2, <1>3, <1>4, <1>5, <1>6, SectionStep DEF IInv, Shape

LEMMA FinishStep ==
  ASSUME IInv, NEW s \in Store, Finish(s)
  PROVE  IInv'
<1> DEFINE c == CoordOf(s)
           d == [c EXCEPT !.lease = 0]
<1>1. c \in Registered
  BY Home DEF IInv, Shape, CoordOf
<1>2. writer = ProcOf[s] /\ AtHead(s)
  BY Home DEF Finish, IInv, GuardInv, Inside, Body
<1>3. /\ d \in Registered /\ d.owner = c.owner /\ d.refs = c.refs
      /\ d.closing = c.closing /\ d.queue = c.queue /\ d.beat = c.beat
  <2>1. 0 \in 0 .. MaxEpoch
    BY CoordinatorAssumption DEF CoordinatorAssumption
  <2> QED
    BY <1>1, <2>1, LeaseChange
<1>4. /\ op[s] # "none" /\ ~c.beat /\ writer' = Nobody /\ made' = made /\ row' = row
      /\ Leave(s, c) \/ Leave(s, d)
  BY DEF Finish
<1>5. row' \in Rows
  BY <1>4 DEF IInv, Shape
<1> HIDE DEF d
<1>6. CASE Leave(s, c)
  BY <1>1, <1>2, <1>4, <1>5, <1>6, LeaveStep
<1>7. CASE Leave(s, d)
  BY <1>2, <1>3, <1>4, <1>5, <1>7, LeaveStep
<1> QED
  BY <1>4, <1>6, <1>7
(* A store lets go: the count stays that of the open ones, and the last    *)
(* one marks the coordinator closing.                                      *)
LEMMA ShutdownStep ==
  ASSUME IInv, NEW s \in Store, Shutdown(s)
  PROVE  IInv'
<1> DEFINE p == ProcOf[s]
           c == coord[p]
           d == [c EXCEPT !.refs = @ - 1, !.closing = c.refs = 1]
           e == [store[s] EXCEPT !.step = "closing", !.ahead = Len(c.queue)]
<1>1. /\ p \in Proc /\ c \in Registered /\ c.refs \in Int /\ c.queue \in Seq(Store)
      /\ GuardInv(p) /\ RowInv(p) /\ BeatInv(p) /\ SharedInv(p)
  BY Home DEF IInv, Shape, Registered
<1>2. /\ coord' = [coord EXCEPT ![p] = d] /\ store' = [store EXCEPT ![s] = e]
      /\ store[s].step = "open" /\ op' = op /\ writer' = writer /\ row' = row /\ made' = made
  BY DEF Shutdown
<1>3. /\ d \in Registered /\ d.owner = c.owner /\ d.refs = c.refs - 1
      /\ (d.closing <=> c.refs = 1) /\ d.lease = c.lease /\ d.queue = c.queue /\ d.beat = c.beat
  BY <1>1, ReleaseChange
<1>4. e \in Stores /\ e.step = "closing" /\ e.owner = store[s].owner /\ e.ahead = Len(c.queue)
  <2> DEFINE f == [store[s] EXCEPT !.step = "closing"]
  <2>1. store[s] \in Stores /\ Len(c.queue) \in Nat
    BY <1>1 DEF IInv, Shape
  <2>2. f \in Stores /\ f.step = "closing" /\ f.owner = store[s].owner
    BY <2>1 DEF Stores
  <2>3. e = [f EXCEPT !.ahead = Len(c.queue)]
    BY Zenon
  <2> HIDE DEF f, e
  <2> QED
    BY <2>1, <2>2, <2>3 DEF Stores
<1> HIDE DEF d, e
<1>5. /\ coord' \in [Proc -> Registered] /\ coord'[p] = d
      /\ \A q \in Proc : q # p => coord'[q] = coord[q]
  BY <1>1, <1>2, <1>3, Entry DEF IInv, Shape
<1>6. /\ store' \in [Store -> Stores] /\ store'[s] = e
      /\ \A t \in Store : t # s => store'[t] = store[t]
  BY <1>2, <1>4 DEF IInv, Shape
<1>7. Shape'
  BY <1>2, <1>5, <1>6 DEF IInv, Shape
<1>8. GuardInv(p)'
  BY <1>1, <1>2, <1>3, <1>5 DEF GuardInv, AtHead, CoordOf
<1>9. RowInv(p)'
  BY <1>1, <1>2, <1>3, <1>5 DEF RowInv
<1>10. BeatInv(p)'
  BY <1>1, <1>2, <1>3, <1>5 DEF BeatInv
<1>11. SharedInv(p)'
  <2>1. OpenOf(p)' = OpenOf(p) \ {s} /\ s \in OpenOf(p)
    BY <1>2, <1>4, <1>6 DEF OpenOf
  <2>2. IsFiniteSet(OpenOf(p))
    BY CoordinatorAssumption, FS_Subset DEF CoordinatorAssumption, OpenOf
  <2>3. Cardinality(OpenOf(p)') = Cardinality(OpenOf(p)) - 1
    BY <2>1, <2>2, FS_RemoveElement
  <2>4. c.owner # 0
    BY <1>1, <1>2 DEF SharedInv
  <2>5. d.refs = Cardinality(OpenOf(p)') /\ (d.closing <=> d.refs = 0)
    BY <1>1, <1>3, <2>3 DEF SharedInv
  <2>6. ASSUME NEW t \in Store, ProcOf[t] = p, store'[t].step = "open" \/ op'[t] # "none"
        PROVE  coord'[p].owner = store'[t].owner /\ coord'[p].owner # 0
    BY <1>1, <1>2, <1>3, <1>4, <1>5, <1>6, <2>6 DEF SharedInv
  <2>7. ASSUME NEW t \in Store, ProcOf[t] = p, op'[t] # "none"
        PROVE  \E i \in 1 .. Len(coord'[p].queue) :
                 coord'[p].queue[i] = t /\ (store'[t].step = "closing" => i <= store'[t].ahead)
    <3>1. PICK i \in 1 .. Len(c.queue) :
            c.queue[i] = t /\ (store[t].step = "closing" => i <= store[t].ahead)
      BY <1>1, <1>2, <2>7 DEF SharedInv
    <3>2. store'[t].step = "closing" => i <= store'[t].ahead
      BY <1>1, <1>4, <1>6, <3>1
    <3> QED
      BY <1>3, <1>5, <3>1, <3>2
  <2>8. ASSUME NEW t \in Store, ProcOf[t] = p, store'[t].step = "out"
        PROVE  op'[t] = "none"
    BY <1>1, <1>2, <1>4, <1>6, <2>8 DEF SharedInv
  <2> QED
    BY <1>3, <1>5, <2>4, <2>5, <2>6, <2>7, <2>8 DEF SharedInv
<1>12. \A t \in Store : ProcOf[t] # p => op'[t] = op[t] /\ store'[t] = store[t]
  BY <1>2, <1>6
<1> QED
  BY <1>1, <1>2, <1>5, <1>7, <1>8, <1>9, <1>10, <1>11, <1>12, LocalStep DEF Local

(* A drained coordinator that is closing has no store and no section.      *)
LEMMA DisposeStep ==
  ASSUME IInv, NEW p \in Proc, Drained(p), Dispose(p),
         row' \in Rows, row'.owner = row.owner, row'.epoch = row.epoch,
         UNCHANGED <<made, store, op, writer>>
  PROVE  IInv'
<1>1. SharedInv(p)
  BY DEF IInv
<1>2. coord[p].owner # 0 /\ coord[p].refs = 0
  BY <1>1 DEF Drained, SharedInv
<1>3. OpenOf(p) = {} /\ OpenOf(p)' = OpenOf(p)
  <2>1. IsFiniteSet(OpenOf(p))
    BY CoordinatorAssumption, FS_Subset DEF CoordinatorAssumption, OpenOf
  <2>2. OpenOf(p) = {}
    BY <1>1, <1>2, <2>1, FS_EmptySet DEF SharedInv
  <2> QED
    BY <2>2 DEF OpenOf
<1>4. \A s \in Store : ProcOf[s] = p => op[s] = "none"
  <2> SUFFICES ASSUME NEW s \in Store, ProcOf[s] = p, op[s] # "none"
               PROVE  FALSE
    OBVIOUS
  <2>1. PICK i \in 1 .. Len(coord[p].queue) : TRUE
    BY <1>1 DEF SharedInv
  <2> QED
    BY <2>1 DEF Drained
<1>5. /\ coord' \in [Proc -> Registered] /\ coord'[p] = NoCoordinator
      /\ \A q \in Proc : q # p => coord'[q] = coord[q]
  BY UnregisteredFields, Entry DEF Dispose, IInv, Shape
<1>6. Shape'
  BY <1>5 DEF IInv, Shape
<1>7. GuardInv(p)'
  BY <1>4 DEF GuardInv, Inside, Body
<1>8. RowInv(p)'
  BY <1>4 DEF RowInv, Body
<1>9. BeatInv(p)'
  BY <1>5, UnregisteredFields DEF BeatInv
<1>10. SharedInv(p)'
  <2>1. \A s \in Store : ProcOf[s] = p => store[s].step # "open"
    BY <1>3 DEF OpenOf
  <2> QED
    BY <1>3, <1>4, <1>5, <2>1, UnregisteredFields, FS_EmptySet DEF SharedInv
<1> QED
  BY <1>5, <1>6, <1>7, <1>8, <1>9, <1>10, LocalStep DEF Local

LEMMA GiveBackStep ==
  ASSUME IInv, NEW p \in Proc, GiveBack(p)
  PROVE  IInv'
<1>1. row' \in Rows /\ row'.owner = row.owner /\ row'.epoch = row.epoch
  BY CoordinatorAssumption DEF CoordinatorAssumption, GiveBack, IInv, Shape, Rows
<1> QED
  BY <1>1, DisposeStep DEF GiveBack

LEMMA CloseWithoutStep ==
  ASSUME IInv, NEW p \in Proc, CloseWithout(p)
  PROVE  IInv'
BY DisposeStep DEF CloseWithout, IInv, Shape

(* A shutdown that has waited for the tail it saw leaves no section of its *)
(* store behind.                                                           *)
LEMMA ShutdownEndsStep ==
  ASSUME IInv, NEW s \in Store, ShutdownEnds(s)
  PROVE  IInv'
<1> DEFINE p == ProcOf[s]
           e == [step |-> "out", owner |-> 0, ahead |-> 0]
<1>1. p \in Proc /\ GuardInv(p) /\ RowInv(p) /\ BeatInv(p) /\ SharedInv(p)
  BY Home DEF IInv
<1>2. /\ store' = [store EXCEPT ![s] = e] /\ store[s].step = "closing" /\ store[s].ahead = 0
      /\ coord' = coord /\ op' = op /\ writer' = writer /\ row' = row /\ made' = made
  BY DEF ShutdownEnds
<1>3. e \in Stores /\ e.step = "out"
  BY CoordinatorAssumption DEF CoordinatorAssumption, Stores, Owner
<1> HIDE DEF e
<1>4. /\ store' \in [Store -> Stores] /\ store'[s] = e
      /\ \A t \in Store : t # s => store'[t] = store[t]
  BY <1>2, <1>3 DEF IInv, Shape
<1>5. Shape'
  BY <1>2, <1>4 DEF IInv, Shape
<1>6. op[s] = "none"
  <2> SUFFICES ASSUME op[s] # "none" PROVE FALSE
    OBVIOUS
  <2>1. PICK i \in 1 .. Len(coord[p].queue) : i <= store[s].ahead
    BY <1>1, <1>2 DEF SharedInv
  <2> QED
    BY <1>2, <2>1
<1>7. GuardInv(p)' /\ RowInv(p)' /\ BeatInv(p)'
  BY <1>1, <1>2 DEF GuardInv, RowInv, BeatInv, AtHead, CoordOf
<1>8. SharedInv(p)'
  <2>1. OpenOf(p)' = OpenOf(p)
    BY <1>2, <1>3, <1>4 DEF OpenOf
  <2> QED
    BY <1>1, <1>2, <1>3, <1>4, <1>6, <2>1 DEF SharedInv
<1>9. \A t \in Store : ProcOf[t] # p => op'[t] = op[t] /\ store'[t] = store[t]
  BY <1>2, <1>4
<1> QED
  BY <1>1, <1>2, <1>5, <1>7, <1>8, <1>9, LocalStep DEF Local

(* A crash leaves nothing of the process, and the guard to the others.     *)
LEMMA CrashStep ==
  ASSUME IInv, NEW p \in Proc, Crash(p)
  PROVE  IInv'
<1> DEFINE e == [step |-> "out", owner |-> 0, ahead |-> 0]
<1>1. /\ coord' = [coord EXCEPT ![p] = NoCoordinator]
      /\ store' = [s \in Store |-> IF ProcOf[s] = p THEN e ELSE store[s]]
      /\ op' = [s \in Store |-> IF ProcOf[s] = p THEN "none" ELSE op[s]]
      /\ writer' = IF writer = p THEN Nobody ELSE writer
      /\ made' = made /\ row' = row
  BY DEF Crash
<1>2. e \in Stores /\ e.step = "out"
  BY CoordinatorAssumption DEF CoordinatorAssumption, Stores, Owner
<1> HIDE DEF e
<1>3. /\ coord' \in [Proc -> Registered] /\ coord'[p] = NoCoordinator
      /\ \A q \in Proc : q # p => coord'[q] = coord[q]
  BY <1>1, UnregisteredFields, Entry DEF IInv, Shape
<1>4. /\ store' \in [Store -> Stores]
      /\ op' \in [Store -> {"none", "queued"} \cup Inside]
      /\ \A s \in Store : ProcOf[s] = p => store'[s] = e /\ op'[s] = "none"
      /\ \A s \in Store : ProcOf[s] # p => store'[s] = store[s] /\ op'[s] = op[s]
  BY <1>1, <1>2 DEF IInv, Shape
<1>5. Shape'
  BY <1>1, <1>3, <1>4 DEF IInv, Shape
<1>6. GuardInv(p)' /\ RowInv(p)'
  BY <1>4 DEF GuardInv, RowInv, Inside, Body
<1>7. BeatInv(p)'
  BY <1>3, UnregisteredFields DEF BeatInv
<1>8. SharedInv(p)'
  <2>1. OpenOf(p)' = {}
    BY <1>2, <1>4 DEF OpenOf
  <2> QED
    BY <1>2, <1>3, <1>4, <2>1, UnregisteredFields, FS_EmptySet DEF SharedInv
<1> QED
  BY <1>1, <1>3, <1>4, <1>5, <1>6, <1>7, <1>8, LocalStep DEF Local

(* What time alone changes of the row is in no part of the invariant.      *)
LEMMA RowAside ==
  ASSUME IInv, Shape', UNCHANGED <<coord, made, store, op, writer>>,
         row'.owner = row.owner, row'.epoch = row.epoch
  PROVE  IInv'
<1> SUFFICES ASSUME NEW p \in Proc
             PROVE  GuardInv(p)' /\ RowInv(p)' /\ BeatInv(p)' /\ SharedInv(p)'
  BY DEF IInv
<1>1. GuardInv(p) /\ RowInv(p) /\ BeatInv(p) /\ SharedInv(p)
  BY DEF IInv
<1>2. GuardInv(p)'
  BY <1>1 DEF GuardInv, AtHead, CoordOf
<1>3. RowInv(p)' /\ BeatInv(p)'
  BY <1>1 DEF RowInv, BeatInv
<1>4. SharedInv(p)'
  BY SharedKept
<1> QED
  BY <1>2, <1>3, <1>4

LEMMA TickStep ==
  ASSUME IInv, Tick
  PROVE  IInv'
<1>1. row' \in Rows /\ row'.owner = row.owner /\ row'.epoch = row.epoch
  BY CoordinatorAssumption DEF CoordinatorAssumption, Tick, IInv, Shape, Rows
<1>2. Shape'
  BY <1>1 DEF Tick, IInv, Shape
<1>3. UNCHANGED <<coord, made, store, op, writer>>
  BY DEF Tick
<1> QED
  BY <1>1, <1>2, <1>3, RowAside

LEMMA StutterStep ==
  ASSUME IInv, UNCHANGED vars
  PROVE  IInv'
BY RowAside DEF vars, IInv, Shape

LEMMA NextInv ==
  ASSUME IInv, [Next]_vars
  PROVE  IInv'
<1>1. ASSUME NEW s \in Store,
             \/ Open(s) \/ Exclusive(s) \/ Section(s) \/ Fence(s) \/ BeatStarts(s)
             \/ Shutdown(s) \/ ShutdownEnds(s)
      PROVE  IInv'
  <2>1. CASE Section(s)
    BY <2>1, EnterStep, BusyStep, KeepLeaseStep, TakeLeaseStep, AcquireFailsStep,
       BodyEndsStep, FinishStep DEF Section
  <2>2. CASE Fence(s)
    BY <2>2, Home, RenewStep DEF Fence
  <2> QED
    BY <1>1, <2>1, <2>2, OpenStep, ExclusiveStep, BeatStartsStep, ShutdownStep, ShutdownEndsStep
<1>2. ASSUME NEW p \in Proc, BeatRuns(p) \/ GiveBack(p) \/ CloseWithout(p) \/ Crash(p)
      PROVE  IInv'
  <2>1. CASE BeatRuns(p)
    BY <2>1, RenewStep DEF BeatRuns
  <2> QED
    BY <1>2, <2>1, GiveBackStep, CloseWithoutStep, CrashStep
<1> QED
  BY <1>1, <1>2, TickStep, StutterStep DEF Next

-----------------------------------------------------------------------------
(* The theorems.                                                           *)

(* Sections stay in the order of their tail, at most one in the guard, and *)
(* the books of sharing stay right, whatever crashes and failures occur.   *)
THEOREM IInvHolds == Spec => []IInv
<1>1. Init => IInv
  BY InitInv
<1>2. IInv /\ [Next]_vars => IInv'
  BY NextInv
<1> QED
  BY <1>1, <1>2, PTL DEF Spec

(* Every part of the state has its type: no count goes below zero.         *)
THEOREM TypeCorrect == Spec => []TypeOK
<1>1. IInv => TypeOK
  <2> SUFFICES ASSUME IInv PROVE TypeOK
    OBVIOUS
  <2>1. ASSUME NEW p \in Proc PROVE coord[p] \in Coordinator
    <3>1. IsFiniteSet(OpenOf(p))
      BY CoordinatorAssumption, FS_Subset DEF CoordinatorAssumption, OpenOf
    <3>2. coord[p].refs \in Nat
      BY <3>1, FS_CardinalityType DEF IInv, SharedInv
    <3> QED
      BY <3>2 DEF IInv, Shape, Registered, Coordinator
  <2> QED
    BY <2>1 DEF IInv, Shape, TypeOK, Inside, Body
<1> QED
  BY <1>1, IInvHolds, PTL

(* No store loses the coordinator it opened, or has a section on, to the   *)
(* shutdown of another one (shutdownCoordinator and close).                *)
THEOREM StoresShare == Spec => []SharedWhileUsed
<1>1. IInv => SharedWhileUsed
  BY Home DEF IInv, SharedInv, SharedWhileUsed, CoordOf
<1> QED
  BY <1>1, IInvHolds, PTL

(* A body runs under the guard, over a row of its coordinator at the epoch *)
(* it acquired, also after its lease has lapsed (runExclusive).            *)
THEOREM BodyHoldsGuardAndRow == Spec => []BodyOwnsTheRow
<1>1. IInv => BodyOwnsTheRow
  BY Home DEF IInv, GuardInv, RowInv, BodyOwnsTheRow, CoordOf, Inside, Body
<1> QED
  BY <1>1, IInvHolds, PTL
(* Who writes the row: nobody but for shortening its lease, or whoever is  *)
(* in the guard, taking it or renewing its own.                            *)
LEMMA RowSteps ==
  ASSUME IInv, Next
  PROVE  \/ row'.owner = row.owner /\ row'.epoch = row.epoch /\ row'.left <= row.left
         \/ \E s \in Store : /\ writer = ProcOf[s] /\ MayTake(CoordOf(s))
                             /\ row' = Taken(CoordOf(s))
         \/ \E p \in Proc : /\ writer = p /\ row.owner = coord[p].owner
                            /\ row'.owner = row.owner /\ row'.epoch = row.epoch
<1> DEFINE Aside == row'.owner = row.owner /\ row'.epoch = row.epoch /\ row'.left <= row.left
           Takes == \E s \in Store : /\ writer = ProcOf[s] /\ MayTake(CoordOf(s))
                                     /\ row' = Taken(CoordOf(s))
           Renews == \E p \in Proc : /\ writer = p /\ row.owner = coord[p].owner
                                     /\ row'.owner = row.owner /\ row'.epoch = row.epoch
<1>1. row \in Rows /\ row.left \in Nat
  BY CoordinatorAssumption DEF CoordinatorAssumption, IInv, Shape, Rows
<1>2. row' = row => Aside
  BY <1>1
<1>3. \A s \in Store : op[s] \in Inside => writer = ProcOf[s]
  BY Home DEF IInv, GuardInv
<1>4. ASSUME NEW p \in Proc, writer = p, Renew(p)
      PROVE  Aside \/ Renews
  <2>1. CASE Owns(coord[p])
    <3>1. row' = [row EXCEPT !.left = LeaseTicks] /\ row.owner = coord[p].owner
      BY <1>4, <2>1 DEF Renew, Owns
    <3>2. row'.owner = row.owner /\ row'.epoch = row.epoch
      BY <1>1, <3>1 DEF Rows
    <3> QED
      BY <1>4, <3>1, <3>2
  <2>2. CASE ~Owns(coord[p])
    BY <1>2, <1>4, <2>2 DEF Renew
  <2> QED
    BY <2>1, <2>2
<1>5. ASSUME NEW s \in Store, TakeLease(s) \/ AcquireFails(s)
      PROVE  Aside \/ Takes
  <2>1. writer = ProcOf[s]
    BY <1>3, <1>5 DEF TakeLease, AcquireFails, Inside
  <2>2. row' = row \/ (MayTake(CoordOf(s)) /\ row' = Taken(CoordOf(s)))
    BY <1>5 DEF TakeLease, AcquireFails
  <2> QED
    BY <1>2, <2>1, <2>2
<1>6. ASSUME NEW s \in Store, Fence(s)
      PROVE  Aside \/ Renews
  <2>1. writer = ProcOf[s]
    BY <1>3, <1>6 DEF Fence, Inside, Body
  <2> QED
    BY <1>4, <1>6, <2>1, Home DEF Fence
<1>7. ASSUME NEW p \in Proc, BeatRuns(p)
      PROVE  Aside \/ Renews
  <2>1. PICK s \in Store : ProcOf[s] = p /\ op[s] \in Body
    BY <1>7 DEF BeatRuns, IInv, BeatInv
  <2>2. writer = p
    BY <1>3, <2>1 DEF Inside
  <2> QED
    BY <1>4, <1>7, <2>2 DEF BeatRuns
<1>8. ASSUME NEW p \in Proc, GiveBack(p)
      PROVE  Aside
  <2>1. row' = row \/ row' = [row EXCEPT !.left = 0]
    BY <1>8 DEF GiveBack
  <2>2. ASSUME row' = [row EXCEPT !.left = 0]
        PROVE  row'.owner = row.owner /\ row'.epoch = row.epoch /\ row'.left = 0
    BY <1>1, <2>2 DEF Rows
  <2> QED
    BY <1>1, <1>2, <2>1, <2>2
<1>9. ASSUME Tick
      PROVE  Aside
  BY <1>1, <1>9 DEF Tick, Rows
<1>10. ASSUME NEW s \in Store,
              \/ Open(s) \/ Exclusive(s) \/ Enter(s) \/ Busy(s) \/ KeepLease(s) \/ BodyEnds(s)
              \/ Finish(s) \/ BeatStarts(s) \/ Shutdown(s) \/ ShutdownEnds(s)
       PROVE  row' = row
  BY <1>10 DEF Open, Exclusive, Enter, Busy, KeepLease, BodyEnds, Finish, BeatStarts, Shutdown,
              ShutdownEnds
<1>11. ASSUME NEW p \in Proc, CloseWithout(p) \/ Crash(p)
       PROVE  row' = row
  BY <1>11 DEF CloseWithout, Crash
<1> HIDE DEF Aside, Takes, Renews
<1>12. Aside \/ Takes \/ Renews
  BY <1>2, <1>5, <1>6, <1>7, <1>8, <1>9, <1>10, <1>11 DEF Next, Section
<1> QED
  BY <1>12 DEF Aside, Takes, Renews

(* An epoch of the row names one owner for ever (acquireOrRenew).          *)
THEOREM EpochNamesOneOwner == Spec => EpochsNameOwners
<1>1. IInv /\ Next => (row'.owner # row.owner => row.left = 0 /\ row'.epoch > row.epoch)
  <2> SUFFICES ASSUME IInv, Next, row'.owner # row.owner
               PROVE  row.left = 0 /\ row'.epoch > row.epoch
    OBVIOUS
  <2>1. PICK s \in Store : MayTake(CoordOf(s)) /\ row' = Taken(CoordOf(s))
    BY RowSteps
  <2>2. row'.owner = CoordOf(s).owner /\ row'.epoch = NextEpoch(CoordOf(s))
    BY <2>1 DEF Taken
  <2>3. row.epoch \in Nat
    BY CoordinatorAssumption DEF CoordinatorAssumption, IInv, Shape, Rows
  <2>4. row.owner # CoordOf(s).owner
    BY <2>2
  <2> QED
    BY <2>1, <2>2, <2>3, <2>4 DEF MayTake, NextEpoch
<1> QED
  BY <1>1, IInvHolds, PTL DEF Spec, EpochsNameOwners

(* Only the holder of the guard makes the row's lease longer or changes    *)
(* its epoch, and only its own (exclusive awaits the heartbeat in flight). *)
THEOREM RenewalsAreGuarded == Spec => RenewedUnderGuard
<1>1. IInv /\ Next => (row'.left > row.left \/ row'.epoch # row.epoch =>
                         writer # Nobody /\ row'.owner = coord[writer].owner)
  <2> SUFFICES ASSUME IInv, Next, row'.left > row.left \/ row'.epoch # row.epoch
               PROVE  writer # Nobody /\ row'.owner = coord[writer].owner
    OBVIOUS
  <2>1. Shape /\ Shape' /\ \A p \in Proc : p # Nobody
    BY CoordinatorAssumption, NextInv DEF CoordinatorAssumption, IInv
  <2>2. row.left \in Int /\ row'.left \in Int
    BY <2>1 DEF Shape, Rows
  <2>3. ~(row'.owner = row.owner /\ row'.epoch = row.epoch /\ row'.left <= row.left)
    BY <2>2
  <2>4. CASE \E s \in Store : /\ writer = ProcOf[s] /\ MayTake(CoordOf(s))
                              /\ row' = Taken(CoordOf(s))
    BY <2>1, <2>4, Home DEF Taken, CoordOf
  <2>5. CASE \E p \in Proc : /\ writer = p /\ row.owner = coord[p].owner
                             /\ row'.owner = row.owner /\ row'.epoch = row.epoch
    BY <2>1, <2>5
  <2> QED
    BY <2>3, <2>4, <2>5, RowSteps
<1> QED
  BY <1>1, IInvHolds, PTL DEF Spec, RenewedUnderGuard
=============================================================================
