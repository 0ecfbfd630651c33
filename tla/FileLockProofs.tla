--------------------------- MODULE FileLockProofs ---------------------------
(***************************************************************************)
(* TLAPS proofs about FileLock, for every set of calls, paths, processes   *)
(* and accounts and every list of paths a request may give.                *)
(***************************************************************************)
EXTENDS FileLock, FiniteSetTheorems, TLAPS

(* A finite set of identities can be listed in ascending order: the place  *)
(* of one is the number of those up to it.                                 *)
LEMMA Sortable ==
  ASSUME NEW S, S \subseteq Int, IsFiniteSet(S)
  PROVE  \E s \in SetToSeqs(S) : Ascending(s)
<1> DEFINE n == Cardinality(S)
           upTo(x) == {y \in S : y <= x}
           rank == [x \in S |-> Cardinality(upTo(x))]
           s == [i \in 1..n |-> CHOOSE x \in S : rank[x] = i]
<1>1. n \in Nat
  BY FS_CardinalityType
<1>2. \A x \in S : IsFiniteSet(upTo(x)) /\ Cardinality(upTo(x)) \in 1..n
  <2> TAKE x \in S
  <2>1. IsFiniteSet(upTo(x)) /\ Cardinality(upTo(x)) <= n /\ upTo(x) \subseteq S
    BY FS_Subset
  <2>2. x \in upTo(x)
    OBVIOUS
  <2>3. Cardinality(upTo(x)) # 0 /\ Cardinality(upTo(x)) \in Nat
    BY <2>1, <2>2, FS_EmptySet, FS_CardinalityType
  <2> QED
    BY <1>1, <2>1, <2>3
<1>3. \A x, y \in S : x < y => rank[x] < rank[y]
  <2> TAKE x, y \in S
  <2> SUFFICES ASSUME x < y PROVE rank[x] < rank[y]
    OBVIOUS
  <2>0. x \in Int /\ y \in Int /\ \A z \in S : z \in Int
    OBVIOUS
  <2>1. /\ \A z \in S : z <= x => z <= y
        /\ y <= y /\ ~(y <= x)
    BY <2>0
  <2>3. upTo(x) \subseteq upTo(y) /\ y \in upTo(y) /\ y \notin upTo(x)
    BY <2>1
  <2>2. Cardinality(upTo(x)) <= Cardinality(upTo(y)) /\ Cardinality(upTo(x)) # Cardinality(upTo(y))
    BY <1>2, <2>3, FS_Subset
  <2> QED
    BY <1>2, <2>2
<1>4. rank \in [S -> 1..n] /\ rank \in Injection(S, 1..n)
  <2>1. rank \in [S -> 1..n]
    BY <1>2
  <2>2. \A x, y \in S : rank[x] = rank[y] => x = y
    <3> TAKE x, y \in S
    <3>1. rank[x] \in Int /\ rank[y] \in Int /\ x \in Int /\ y \in Int
      BY <2>1, <1>1
    <3>2. (x < y => rank[x] < rank[y]) /\ (y < x => rank[y] < rank[x])
      BY <1>3
    <3> HIDE DEF rank
    <3> QED
      BY <3>1, <3>2
  <2> HIDE DEF rank
  <2> QED
    BY <2>1, <2>2 DEF Injection, IsInjective
<1>5. \A i \in 1..n : \E x \in S : rank[x] = i
  <2> HIDE DEF rank
  <2>1. IsFiniteSet(1..n) /\ Cardinality(1..n) = n
    BY <1>1, FS_Interval
  <2> HIDE DEF n
  <2>2. rank \in Surjection(S, 1..n)
    BY <1>4, <2>1, FS_Injection DEF n
  <2> QED
    BY <2>2 DEF Surjection
<1>6. \A i \in 1..n : s[i] \in S /\ rank[s[i]] = i
  <2> HIDE DEF rank, n
  <2> QED
    BY <1>5
<1> HIDE DEF rank, s
<1>7. s \in [1..n -> S]
  BY <1>6 DEF s
<1>8. \A i, j \in 1..n : i # j => s[i] # s[j]
  BY <1>6
<1>9. \A i, j \in 1..n : i < j => s[i] < s[j]
  <2> TAKE i, j \in 1..n
  <2>0. s[i] \in S /\ s[j] \in S /\ i \in Int /\ j \in Int
    BY <1>1, <1>6
  <2>1. s[i] \in Int /\ s[j] \in Int /\ i \in Int /\ j \in Int
    BY <2>0
  <2>2. s[j] < s[i] => j < i
    BY <2>0, <1>3, <1>6
  <2>3. i # j => s[i] # s[j]
    BY <1>8
  <2> QED
    BY <2>1, <2>2, <2>3
<1> QED
  BY <1>7, <1>8, <1>9 DEF SetToSeqs, Ascending

(* A call locks each path of its request once, in ascending order.         *)
LEMMA OrderFacts ==
  ASSUME NEW c \in Calls
  PROVE  /\ Order[c] \in Seq(Files) /\ Len(Order[c]) \in Nat \ {0}
         /\ DOMAIN Order[c] = 1..Len(Order[c])
         /\ \A i, j \in DOMAIN Order[c] : Order[c][i] = Order[c][j] => i = j
         /\ ToSet(Order[c]) = ToSet(Requested[c])
         /\ Ascending(Order[c])
<1> DEFINE S == ToSet(Requested[c])
           n == Cardinality(S)
<1>1. Requested[c] \in Seq(Files) /\ Requested[c] # << >> /\ Files \subseteq Int
  BY ConstantsAssumption
<1>2. S \subseteq Files /\ S # {} /\ S \subseteq Int
  <2>1. DOMAIN Requested[c] = 1..Len(Requested[c]) /\ Len(Requested[c]) \in Nat \ {0}
        /\ \A i \in DOMAIN Requested[c] : Requested[c][i] \in Files
    BY <1>1
  <2>2. Requested[c][1] \in S
    BY <2>1 DEF ToSet
  <2> QED
    BY <1>1, <2>1, <2>2 DEF ToSet
<1>3. IsFiniteSet(S)
  <2>1. IsFiniteSet(1..Len(Requested[c]))
    BY <1>1, FS_Interval
  <2>2. Requested[c] \in Surjection(1..Len(Requested[c]), S)
    BY <1>1 DEF Surjection, ToSet
  <2> QED
    BY <2>1, <2>2, FS_Surjection
<1>4. n \in Nat /\ n # 0
  BY <1>2, <1>3, FS_CardinalityType, FS_EmptySet
<1> HIDE DEF S
<1>5. Order[c] \in SetToSeqs(S) /\ Ascending(Order[c])
  BY <1>2, <1>3, Sortable DEF Order, S
<1>6. Order[c] \in [1..n -> S] /\ \A i, j \in 1..n : i # j => Order[c][i] # Order[c][j]
  BY <1>5 DEF SetToSeqs
<1>7. Order[c] \in Seq(S) /\ Len(Order[c]) = n
  <2> HIDE DEF n
  <2> QED
    BY <1>4, <1>6
<1>8. Order[c] \in Surjection(1..n, S)
  <2>1. Order[c] \in Injection(1..n, S)
    BY <1>6 DEF Injection, IsInjective
  <2>2. Cardinality(1..n) = Cardinality(S)
    BY <1>4, FS_Interval
  <2> QED
    BY <1>3, <2>1, <2>2, FS_Injection
<1>9. ToSet(Order[c]) = S
  BY <1>6, <1>8 DEF Surjection, ToSet
<1> QED
  BY <1>2, <1>4, <1>5, <1>6, <1>7, <1>9 DEF S

-----------------------------------------------------------------------------
(* Where a call stands.                                                    *)

LEMMA FileFacts ==
  ASSUME TypeOK, NEW c \in Calls
  PROVE  /\ at[c] \in DOMAIN Order[c] /\ at[c] \in Nat \ {0} /\ at[c] <= Len(Order[c])
         /\ File(c) \in Files /\ ProcOf[c] \in Procs /\ Account(c) \in Accounts
         /\ c \in Owners /\ c # legacy /\ c # Nobody /\ Nobody # legacy
<1>1. at[c] \in DOMAIN Order[c] /\ Order[c] \in Seq(Files)
  BY OrderFacts DEF TypeOK
<1> QED
  BY <1>1, OrderFacts, ConstantsAssumption DEF File, Account, Accounts, Owners

LEMMA InitType == Init => TypeOK
<1> SUFFICES ASSUME Init PROVE TypeOK
  OBVIOUS
<1>1. \A c \in Calls : 1 \in DOMAIN Order[c]
  BY OrderFacts
<1>2. \A f \in Files : << >> \in Seq(Calls)
  OBVIOUS
<1> QED
  BY <1>1, <1>2 DEF Init, TypeOK, Steps, Owners

LEMMA TypeStep ==
  ASSUME TypeOK, [Next]_vars
  PROVE  TypeOK'
<1> USE DEF Go, Steps, Owners
<1>1. ASSUME NEW c \in Calls, Enqueue(c) PROVE TypeOK'
  BY <1>1, FileFacts DEF TypeOK, Enqueue
<1>2. ASSUME NEW c \in Calls, Turn(c) \/ Fence(c) \/ Write(c) PROVE TypeOK'
  BY <1>2, FileFacts DEF TypeOK, Turn, Fence, Write
<1>3. ASSUME NEW c \in Calls, TakePrivate(c) PROVE TypeOK'
  BY <1>3, FileFacts DEF TypeOK, TakePrivate
<1>4. ASSUME NEW c \in Calls, TakeShared(c) PROVE TypeOK'
  BY <1>4, FileFacts DEF TypeOK, TakeShared
<1>5. ASSUME NEW c \in Calls, Publish(c) PROVE TypeOK'
  <2>1. ASSUME at[c] < Len(Order[c])
        PROVE  /\ at' \in [Calls -> Nat] /\ \A d \in Calls : at'[d] \in DOMAIN Order[d]
               /\ pc' \in [Owners -> Steps \cup {"out", "in"}]
    <3>1. at' = [at EXCEPT ![c] = at[c] + 1] /\ pc' = [pc EXCEPT ![c] = "start"]
      BY <1>5, <2>1 DEF Publish
    <3>2. at[c] + 1 \in DOMAIN Order[c] /\ at[c] + 1 \in Nat
      BY <2>1, FileFacts, OrderFacts
    <3> QED
      BY <3>1, <3>2, FileFacts DEF TypeOK
  <2>2. ASSUME ~(at[c] < Len(Order[c]))
        PROVE  /\ at' \in [Calls -> Nat] /\ \A d \in Calls : at'[d] \in DOMAIN Order[d]
               /\ pc' \in [Owners -> Steps \cup {"out", "in"}]
    BY <1>5, <2>2, FileFacts DEF TypeOK, Publish
  <2>3. record' \in [Files -> Records \cup {NoRecord}]
    BY <1>5, FileFacts DEF TypeOK, Publish, Records, NewLease
  <2>4. UNCHANGED <<queue, gone, private, shared, tomb, seen, beating>>
    BY <1>5 DEF Publish
  <2> QED
    BY <2>1, <2>2, <2>3, <2>4 DEF TypeOK
<1>6. ASSUME NEW c \in Calls, Examine(c) PROVE TypeOK'
  BY <1>6, FileFacts DEF TypeOK, Examine, Records, NoRecord
<1>7. ASSUME NEW c \in Calls, Evict(c) PROVE TypeOK'
  BY <1>7, FileFacts DEF TypeOK, Evict
<1>8. ASSUME NEW c \in Calls, Judge(c) PROVE TypeOK'
  BY <1>8, FileFacts DEF TypeOK, Judge, Restore
<1>9. ASSUME NEW c \in Calls, Cancel(c) \/ Free(c) PROVE TypeOK'
  <2>1. FreeGuards(c) /\ Leave(c) /\ UNCHANGED <<queue, record, tomb, seen, beating>>
    BY <1>9 DEF Cancel, Free
  <2>2. \A d \in Calls : at'[d] \in DOMAIN Order[d] /\ at'[d] \in Nat
    BY <2>1, FileFacts, OrderFacts DEF TypeOK, Leave
  <2>3. at' \in [Calls -> Nat] /\ pc' \in [Owners -> Steps \cup {"out", "in"}]
    BY <2>1, <2>2, FileFacts DEF TypeOK, Leave
  <2>4. gone' \in [Procs -> [Files -> SUBSET Calls]]
    BY <2>1, FileFacts DEF TypeOK, Leave
  <2>5. private' \in [Accounts -> [Files -> Calls \cup {Nobody}]]
    BY <2>1, FileFacts DEF TypeOK, FreeGuards
  <2>6. shared' \in [Files -> Calls \cup {Nobody}]
    BY <2>1, FileFacts DEF TypeOK, FreeGuards
  <2> QED
    BY <2>1, <2>2, <2>3, <2>4, <2>5, <2>6 DEF TypeOK
<1>10. ASSUME NEW c \in Calls, MoveAside(c) PROVE TypeOK'
  BY <1>10, FileFacts DEF TypeOK, MoveAside
<1>11. ASSUME NEW c \in Calls, Drop(c) PROVE TypeOK'
  BY <1>11, FileFacts DEF TypeOK, Drop, Restore
<1>12. ASSUME NEW o \in Owners, NEW f \in Files, RenewRead(o, f) PROVE TypeOK'
  BY <1>12 DEF TypeOK, RenewRead
<1>13. ASSUME NEW o \in Owners, NEW f \in Files, RenewWrite(o, f) PROVE TypeOK'
  BY <1>13 DEF TypeOK, RenewWrite, Records, NewLease
<1>14. ASSUME NEW f \in Files, Lapse(f) PROVE TypeOK'
  <2>1. record[f] \in Records
    BY <1>14 DEF TypeOK, Lapse, NoRecord
  <2>2. [record[f] EXCEPT !.fresh = FALSE] \in Records
    BY <2>1 DEF Records
  <2> QED
    BY <1>14, <2>2 DEF TypeOK, Lapse
<1>15. ASSUME NEW p \in Procs, Crash(p) PROVE TypeOK'
  BY <1>15 DEF TypeOK, Crash
<1>16. CASE Legacy
  <2>1. LegacyFile \in Files /\ legacy \in Owners /\ NewLease(legacy) \in Records
    BY ConstantsAssumption DEF Records, NewLease
  <2>2. CASE LegacyTake
    BY <2>1, <2>2 DEF TypeOK, LegacyTake
  <2>3. CASE LegacyMoveAside
    BY <2>1, <2>3 DEF TypeOK, LegacyMoveAside
  <2>4. CASE LegacyDrop
    BY <2>1, <2>4 DEF TypeOK, LegacyDrop, Restore
  <2> QED
    BY <1>16, <2>2, <2>3, <2>4 DEF Legacy
<1>17. CASE UNCHANGED vars
  BY <1>17 DEF TypeOK, vars
<1> QED
  BY <1>1, <1>2, <1>3, <1>4, <1>5, <1>6, <1>7, <1>8, <1>9, <1>10, <1>11, <1>12, <1>13, <1>14,
     <1>15, <1>16, <1>17 DEF Next, Step, Acquire, Operate, Unlock

(* Where a call stands changes only by its own steps, one step at a time.  *)
LEMMA Standing ==
  ASSUME TypeOK, NEW c \in Calls, Step(c) \/ Cancel(c), NEW i \in DOMAIN Order[c]
  PROVE  /\ Asks(c, i)' => Asks(c, i)
         /\ Publishes(c, i)' => Publishes(c, i)
         /\ Waits(c, i)' => Waits(c, i) \/ (Enqueue(c) /\ i = at[c])
         /\ Passed(c, i)' => Passed(c, i) \/ (Turn(c) /\ i = at[c])
         /\ Guards(c, i)' => Guards(c, i) \/ (TakePrivate(c) /\ i = at[c])
         /\ Shares(c, i)' => Shares(c, i) \/ (TakeShared(c) /\ i = at[c])
         /\ Locks(c, i)' => Locks(c, i) \/ (Publish(c) /\ i = at[c])
<1> USE DEF Go, Asks, Publishes, Waits, Passed, Guards, Shares, Locks, Asking, Owners
<1>1. /\ i \in Int /\ at[c] \in Nat \ {0} /\ at[c] <= Len(Order[c]) /\ i <= Len(Order[c])
      /\ i >= 1 /\ Len(Order[c]) \in Nat
  BY FileFacts, OrderFacts
<1>2. pc \in [Owners -> Steps \cup {"out", "in"}] /\ at \in [Calls -> Nat] /\ c \in Owners
  BY DEF TypeOK
<1>3. CASE Enqueue(c)
  BY <1>1, <1>2, <1>3 DEF Enqueue
<1>4. CASE Turn(c)
  BY <1>1, <1>2, <1>4 DEF Turn
<1>5. CASE TakePrivate(c)
  BY <1>1, <1>2, <1>5 DEF TakePrivate
<1>6. CASE TakeShared(c)
  BY <1>1, <1>2, <1>6 DEF TakeShared
<1>7. CASE Publish(c)
  <2>1. CASE at[c] < Len(Order[c])
    <3>1. at'[c] = at[c] + 1 /\ pc'[c] = "start" /\ pc[c] = "publish"
      BY <1>7, <1>2, <2>1 DEF Publish
    <3> QED
      BY <1>1, <1>7, <3>1
  <2>2. CASE ~(at[c] < Len(Order[c]))
    <3>1. at'[c] = at[c] /\ pc'[c] = "work" /\ pc[c] = "publish"
      BY <1>7, <1>2, <2>2 DEF Publish
    <3> QED
      BY <1>1, <1>7, <3>1
  <2> QED
    BY <2>1, <2>2
<1>8. CASE Examine(c)
  BY <1>1, <1>2, <1>8 DEF Examine
<1>9. CASE Evict(c)
  BY <1>1, <1>2, <1>9 DEF Evict
<1>10. CASE Judge(c)
  BY <1>1, <1>2, <1>10 DEF Judge
<1>11. CASE Fence(c)
  BY <1>1, <1>2, <1>11 DEF Fence
<1>12. CASE Write(c)
  BY <1>1, <1>2, <1>12 DEF Write
<1>13. CASE MoveAside(c)
  BY <1>1, <1>2, <1>13 DEF MoveAside
<1>14. CASE Drop(c)
  BY <1>1, <1>2, <1>14 DEF Drop
<1>15. CASE Free(c) \/ Cancel(c)
  <2>1. Leave(c) /\ pc[c] \in {"queue", "private", "shared", "publish", "free"}
    BY <1>15 DEF Free, Cancel
  <2>2. /\ at'[c] = IF at[c] = 1 THEN 1 ELSE at[c] - 1
        /\ pc'[c] = IF at[c] = 1 THEN "done" ELSE "release"
    BY <2>1, <1>2 DEF Leave
  <2> QED
    BY <1>1, <2>1, <2>2
<1> QED
  BY <1>3, <1>4, <1>5, <1>6, <1>7, <1>8, <1>9, <1>10, <1>11, <1>12, <1>13, <1>14, <1>15
     DEF Step, Acquire, Operate, Unlock

(* The others stand where they stood.                                      *)
LEMMA OwnersStand ==
  ASSUME TypeOK, NEW c \in Calls, Step(c) \/ Cancel(c), NEW o \in Owners, c # o
  PROVE  pc'[o] = pc[o] /\ (o \in Calls => at'[o] = at[o])
<1> USE DEF Go
<1>1. pc \in [Owners -> Steps \cup {"out", "in"}] /\ at \in [Calls -> Nat]
  BY DEF TypeOK
<1>2. CASE Enqueue(c) \/ Turn(c) \/ TakePrivate(c) \/ TakeShared(c)
  BY <1>1, <1>2 DEF Enqueue, Turn, TakePrivate, TakeShared
<1>3. CASE Publish(c)
  BY <1>1, <1>3 DEF Publish
<1>4. CASE Examine(c) \/ Evict(c) \/ Judge(c) \/ Fence(c) \/ Write(c)
  BY <1>1, <1>4 DEF Examine, Evict, Judge, Fence, Write
<1>5. CASE MoveAside(c) \/ Drop(c)
  BY <1>1, <1>5 DEF MoveAside, Drop
<1>6. CASE Free(c) \/ Cancel(c)
  BY <1>1, <1>6 DEF Free, Cancel, Leave
<1> QED
  BY <1>2, <1>3, <1>4, <1>5, <1>6 DEF Step, Acquire, Operate, Unlock

LEMMA OthersStand ==
  ASSUME TypeOK, NEW c \in Calls, Step(c) \/ Cancel(c)
  PROVE  /\ \A d \in Calls : c # d => pc'[d] = pc[d] /\ at'[d] = at[d]
         /\ pc'[legacy] = pc[legacy]
<1>1. c # legacy /\ legacy \in Owners /\ Calls \subseteq Owners
  BY FileFacts DEF Owners
<1> QED
  BY <1>1, OwnersStand

(* A step that is no call's own leaves every call where it stood, or dead. *)
Outside == \/ \E o \in Owners, f \in Files : RenewRead(o, f) \/ RenewWrite(o, f)
           \/ \E f \in Files : Lapse(f)
           \/ \E p \in Procs : Crash(p)
           \/ Legacy \/ UNCHANGED vars

LEMMA OutsideStands ==
  ASSUME TypeOK, Outside, NEW d \in Calls
  PROVE  pc'[d] \in {pc[d], "dead"} /\ at'[d] = at[d]
<1>1. pc \in [Owners -> Steps \cup {"out", "in"}] /\ d \in Owners /\ d # legacy
  BY FileFacts DEF TypeOK
<1>2. ASSUME NEW p \in Procs, Crash(p)
      PROVE  pc'[d] \in {pc[d], "dead"} /\ at'[d] = at[d]
  BY <1>1, <1>2 DEF Crash
<1>3. CASE Legacy
  BY <1>1, <1>3 DEF Legacy, LegacyTake, LegacyMoveAside, LegacyDrop, Go
<1> QED
  BY <1>2, <1>3 DEF Outside, RenewRead, RenewWrite, Lapse, vars

(* Where a call stands after a step.                                       *)
LEMMA StandingStep ==
  ASSUME TypeOK, [Next]_vars, NEW c \in Calls, NEW i \in DOMAIN Order[c]
  PROVE  /\ Asks(c, i)' => Asks(c, i)
         /\ Publishes(c, i)' => Publishes(c, i)
         /\ Waits(c, i)' => Waits(c, i) \/ (Enqueue(c) /\ i = at[c])
         /\ Passed(c, i)' => Passed(c, i) \/ (Turn(c) /\ i = at[c])
         /\ Guards(c, i)' => Guards(c, i) \/ (TakePrivate(c) /\ i = at[c])
         /\ Shares(c, i)' => Shares(c, i) \/ (TakeShared(c) /\ i = at[c])
         /\ Locks(c, i)' => Locks(c, i) \/ (Publish(c) /\ i = at[c])
<1>1. CASE Step(c) \/ Cancel(c)
  BY <1>1, Standing
<1>2. CASE at'[c] = at[c] /\ pc'[c] \in {pc[c], "dead"}
  BY <1>2 DEF Asks, Publishes, Waits, Passed, Guards, Shares, Locks, Asking
<1> QED
  BY <1>1, <1>2, OthersStand, OutsideStands DEF Next, Outside

(* A call that lets go of its file is past it.                             *)
LEMMA LeftBehind ==
  ASSUME TypeOK, NEW c \in Calls, Free(c) \/ Cancel(c), NEW i, i = at[c]
  PROVE  ~Waits(c, i)' /\ ~Guards(c, i)' /\ ~Shares(c, i)' /\ ~Locks(c, i)' /\ ~Publishes(c, i)'
<1>1. Leave(c) /\ at[c] \in Nat \ {0} /\ c \in Owners
  BY FileFacts DEF Free, Cancel
<1>2. /\ at'[c] = IF at[c] = 1 THEN 1 ELSE at[c] - 1
      /\ pc'[c] = IF at[c] = 1 THEN "done" ELSE "release"
  BY <1>1 DEF Leave, Go, TypeOK
<1> QED
  BY <1>1, <1>2 DEF Waits, Passed, Guards, Shares, Locks, Publishes, Asking

(* What a call holds, by the places of its files.                          *)
Placed(c) ==
  /\ \A f : f \in Locked(c) <=> \E i \in DOMAIN Order[c] : f = Order[c][i] /\ Locks(c, i)
  /\ \A f : Past(c, f) <=> \E i \in DOMAIN Order[c] : f = Order[c][i] /\ Passed(c, i)

LEMMA HeldPlaces == TypeOK => \A c \in Calls : Placed(c)
<1> SUFFICES ASSUME TypeOK, NEW c \in Calls PROVE Placed(c)
  OBVIOUS
<1>1. /\ at[c] \in Nat \ {0} /\ at[c] <= Len(Order[c]) /\ DOMAIN Order[c] = 1..Len(Order[c])
      /\ Len(Order[c]) \in Nat /\ at[c] \in DOMAIN Order[c]
  BY FileFacts, OrderFacts
<1>2. \A f : f \in Locked(c) <=> \E i \in DOMAIN Order[c] : f = Order[c][i] /\ Locks(c, i)
  <2>1. CASE pc[c] \in {"work", "write", "release"}
    <3>1. Locked(c) = {Order[c][i] : i \in 1..at[c]}
      BY <2>1 DEF Locked
    <3> QED
      BY <1>1, <2>1, <3>1 DEF Locks
  <2>2. CASE pc[c] \in {"done", "dead"}
    <3>1. Locked(c) = {}
      BY <2>2 DEF Locked
    <3> QED
      BY <2>2, <3>1 DEF Locks
  <2>3. CASE pc[c] \notin {"work", "write", "release", "done", "dead"}
    <3>1. Locked(c) = {Order[c][i] : i \in 1..(at[c] - 1)}
      BY <2>3 DEF Locked
    <3> QED
      BY <1>1, <2>3, <3>1 DEF Locks
  <2> QED
    BY <2>1, <2>2, <2>3
<1>3. \A f : Past(c, f) <=> \E i \in DOMAIN Order[c] : f = Order[c][i] /\ Passed(c, i)
  BY <1>1, <1>2 DEF Past, Passed, Guards, Shares, File
<1> QED
  BY <1>2, <1>3 DEF Placed

LEMMA HeldPlacesNext == TypeOK' => \A c \in Calls : Placed(c)'
<1>1. (TypeOK => \A c \in Calls : Placed(c))'
  BY HeldPlaces, PTL
<1> QED
  BY <1>1

-----------------------------------------------------------------------------
(* The queues.                                                             *)

LEMMA WorkKept ==
  ASSUME TypeOK, WorkInv, [Next]_vars
  PROVE  WorkInv'
<1> SUFFICES ASSUME NEW c \in Calls, pc'[c] \in {"work", "write"} PROVE at'[c] = Len(Order[c])
  BY DEF WorkInv
<1>1. /\ at[c] \in Nat \ {0} /\ at[c] <= Len(Order[c]) /\ Len(Order[c]) \in Nat
      /\ pc \in [Owners -> Steps \cup {"out", "in"}] /\ at \in [Calls -> Nat] /\ c \in Owners
  BY FileFacts, OrderFacts DEF TypeOK
<1>2. CASE Publish(c)
  BY <1>1, <1>2 DEF Publish, Go
<1>3. CASE Fence(c)
  BY <1>1, <1>3 DEF Fence, Go, WorkInv
<1>4. ASSUME Step(c) \/ Cancel(c), ~Publish(c), ~Fence(c)
      PROVE  FALSE
  BY <1>1, <1>4 DEF Step, Acquire, Operate, Unlock, Enqueue, Turn, TakePrivate, TakeShared,
     Examine, Evict, Judge, Write, MoveAside, Drop, Free, Cancel, Leave, Go
<1>5. CASE at'[c] = at[c] /\ pc'[c] \in {pc[c], "dead"}
  BY <1>5 DEF WorkInv
<1> QED
  BY <1>2, <1>3, <1>4, <1>5, OthersStand, OutsideStands DEF Next, Outside

(* Only asking, letting go and dying change a queue.                       *)
LEMMA QueueFrame ==
  ASSUME [Next]_vars,
         ~\E c \in Calls : Enqueue(c) \/ Free(c) \/ Cancel(c), ~\E p \in Procs : Crash(p)
  PROVE  UNCHANGED <<queue, gone>>
<1>1. ASSUME NEW c \in Calls, Step(c) PROVE UNCHANGED <<queue, gone>>
  BY <1>1 DEF Step, Acquire, Operate, Unlock, Turn, TakePrivate, TakeShared,
     Publish, Examine, Evict, Judge, Fence, Write, MoveAside, Drop
<1> QED
  BY <1>1 DEF Next, RenewRead, RenewWrite, Lapse, Legacy, LegacyTake, LegacyMoveAside, LegacyDrop,
     vars

LEMMA QueueKept ==
  ASSUME TypeOK, QueueInv, [Next]_vars
  PROVE  QueueInv'
<1> DEFINE Named(p, f) == \A i, j \in DOMAIN queue[p][f] :
             /\ queue[p][f][i] = queue[p][f][j] => i = j
             /\ ProcOf[queue[p][f][i]] = p
           Listed(c, i) ==
             /\ Asks(c, i) =>
                  /\ c \notin gone[ProcOf[c]][Order[c][i]]
                  /\ \A j \in DOMAIN queue[ProcOf[c]][Order[c][i]] : queue[ProcOf[c]][Order[c][i]][j] # c
             /\ Waits(c, i) =>
                  /\ c \notin gone[ProcOf[c]][Order[c][i]]
                  /\ \E j \in DOMAIN queue[ProcOf[c]][Order[c][i]] : queue[ProcOf[c]][Order[c][i]][j] = c
<1>0. QueueInv => /\ \A p \in Procs, f \in Files : Named(p, f)
                  /\ \A c \in Calls : \A i \in DOMAIN Order[c] : Listed(c, i)
  BY DEF QueueInv
<1>1. /\ \A p \in Procs, f \in Files : Named(p, f)
      /\ \A c \in Calls : \A i \in DOMAIN Order[c] : Listed(c, i)
  BY <1>0
<1>2. ASSUME \A p \in Procs, f \in Files : Named(p, f)',
             \A c \in Calls : \A i \in DOMAIN Order[c] : Listed(c, i)'
      PROVE  QueueInv'
  BY <1>2 DEF QueueInv
<1>3. ASSUME NEW c \in Calls, Enqueue(c) PROVE QueueInv'
  <2>1. /\ queue' = [queue EXCEPT ![ProcOf[c]][File(c)] = Append(@, c)] /\ gone' = gone
        /\ pc[c] = "start" /\ File(c) \in Files /\ ProcOf[c] \in Procs /\ at[c] \in DOMAIN Order[c]
        /\ at[c] \in Nat
    BY <1>3, FileFacts DEF Enqueue
  <2>2. \A p \in Procs, f \in Files : queue[p][f] \in Seq(Calls)
    BY DEF TypeOK
  <2>3. \A p \in Procs, f \in Files : p # ProcOf[c] \/ f # File(c) => queue'[p][f] = queue[p][f]
    BY <2>1 DEF TypeOK
  <2>4. queue'[ProcOf[c]][File(c)] = Append(queue[ProcOf[c]][File(c)], c)
    BY <2>1 DEF TypeOK
  <2>5. Asks(c, at[c])
    BY <2>1 DEF Asks, Asking
  <2>6. \A j \in DOMAIN queue[ProcOf[c]][File(c)] : queue[ProcOf[c]][File(c)][j] # c
    BY <1>1, <2>1, <2>5 DEF File
  <2>7. ASSUME NEW p \in Procs, NEW f \in Files PROVE Named(p, f)'
    <3>1. CASE p # ProcOf[c] \/ f # File(c)
      BY <1>1, <2>3, <3>1
    <3>2. CASE p = ProcOf[c] /\ f = File(c)
      <4> DEFINE q == queue[p][f]
      <4>1. q \in Seq(Calls) /\ queue'[p][f] = Append(q, c)
        BY <2>2, <2>4, <3>2
      <4>2. \A i, j \in DOMAIN q : (q[i] = q[j] => i = j) /\ ProcOf[q[i]] = p
        BY <1>1
      <4>3. \A j \in DOMAIN q : q[j] # c
        BY <2>6, <3>2
      <4> HIDE DEF q
      <4>4. DOMAIN Append(q, c) = 1..Len(q) + 1 /\ DOMAIN q = 1..Len(q) /\ Len(q) \in Nat
            /\ \A i \in 1..Len(q) : Append(q, c)[i] = q[i]
            /\ Append(q, c)[Len(q) + 1] = c
        BY <4>1
      <4>5. \A i, j \in DOMAIN Append(q, c) :
              (Append(q, c)[i] = Append(q, c)[j] => i = j) /\ ProcOf[Append(q, c)[i]] = p
        BY <3>2, <4>2, <4>3, <4>4
      <4> QED
        BY <4>1, <4>5
    <3> QED
      BY <3>1, <3>2
  <2>8. ASSUME NEW d \in Calls, NEW i \in DOMAIN Order[d] PROVE Listed(d, i)'
    <3> DEFINE p == ProcOf[d]
               f == Order[d][i]
    <3>1. p \in Procs /\ f \in Files
      BY FileFacts, OrderFacts
    <3>2. Asks(d, i)' => Asks(d, i)
      BY StandingStep
    <3>3. Waits(d, i)' => Waits(d, i) \/ (d = c /\ i = at[c])
      <4>1. d # c => pc'[d] = pc[d] /\ at'[d] = at[d]
        BY <1>3, OthersStand DEF Step, Acquire
      <4>2. d # c => (Waits(d, i)' <=> Waits(d, i))
        BY <4>1 DEF Waits, Passed, Guards, Shares, Locks
      <4> QED
        BY <4>2, StandingStep
    <3>4. ~(Asks(d, i)' /\ d = c /\ i = at[c])
      BY <1>3, <2>1 DEF Asks, Asking, Enqueue, Go, TypeOK, Owners
    <3>7. Asks(d, i)' \/ Waits(d, i)' => d \notin gone'[p][f]
      <4>1. at[c] \in DOMAIN Order[c] /\ Asks(c, at[c]) /\ (d = c => Order[d] = Order[c])
        BY <2>1, <2>5
      <4>2. Listed(c, at[c]) /\ Listed(d, i)
        BY <1>1, <2>1
      <4> QED
        BY <2>1, <2>5, <3>2, <3>3, <4>2
    <3>5. CASE p # ProcOf[c] \/ f # File(c)
      <4>1. queue'[p][f] = queue[p][f]
        BY <2>3, <3>1, <3>5
      <4>2. ~(d = c /\ i = at[c])
        BY <3>5 DEF File
      <4>3. Waits(d, i)' => \E j \in DOMAIN queue[p][f] : queue[p][f][j] = d
        BY <1>1, <3>3, <4>2
      <4>4. Asks(d, i)' => \A j \in DOMAIN queue[p][f] : queue[p][f][j] # d
        BY <1>1, <3>2
      <4> QED
        BY <3>7, <4>1, <4>3, <4>4
    <3>6. CASE p = ProcOf[c] /\ f = File(c)
      <4> DEFINE q == queue[p][f]
      <4>1. q \in Seq(Calls) /\ queue'[p][f] = Append(q, c)
        BY <2>2, <2>4, <3>1, <3>6
      <4> HIDE DEF q
      <4>2. DOMAIN Append(q, c) = 1..Len(q) + 1 /\ DOMAIN q = 1..Len(q) /\ Len(q) \in Nat
            /\ \A j \in 1..Len(q) : Append(q, c)[j] = q[j]
            /\ Append(q, c)[Len(q) + 1] = c
        BY <4>1
      <4>3. d = c => i = at[c]
        BY <2>1, <3>6, OrderFacts DEF File
      <4>4. Asks(d, i)' => \A j \in DOMAIN q : q[j] # d
        BY <1>1, <3>2 DEF q
      <4>5. Asks(d, i)' => \A j \in DOMAIN Append(q, c) : Append(q, c)[j] # d
        BY <3>4, <4>2, <4>3, <4>4
      <4>6. Waits(d, i)' => \E j \in DOMAIN Append(q, c) : Append(q, c)[j] = d
        <5>1. CASE d = c
          BY <4>2, <5>1
        <5>2. CASE d # c
          <6>1. Waits(d, i)' => \E j \in DOMAIN q : q[j] = d
            BY <1>1, <3>3, <5>2 DEF q
          <6> QED
            BY <4>2, <6>1
        <5> QED
          BY <5>1, <5>2
      <4> QED
        BY <3>7, <4>1, <4>5, <4>6
    <3> QED
      BY <3>5, <3>6
  <2> QED
    BY <1>2, <2>7, <2>8
<1>4. ASSUME NEW c \in Calls, Free(c) \/ Cancel(c) PROVE QueueInv'
  <2>1. queue' = queue /\ gone' = [gone EXCEPT ![ProcOf[c]][File(c)] = @ \cup {c}]
    BY <1>4 DEF Free, Cancel, Leave
  <2>2. ASSUME NEW d \in Calls, NEW i \in DOMAIN Order[d] PROVE Listed(d, i)'
    <3> DEFINE p == ProcOf[d]
               f == Order[d][i]
    <3>1. p \in Procs /\ f \in Files
      BY FileFacts, OrderFacts
    <3>2. Asks(d, i)' => Asks(d, i)
      BY StandingStep
    <3>3. Waits(d, i)' => Waits(d, i)
      <4>1. CASE d = c
        <5>1. ~Enqueue(c)
          BY <1>4 DEF Enqueue, Free, Cancel
        <5> QED
          BY <4>1, <5>1, StandingStep
      <4>2. CASE d # c
        <5>1. pc'[d] = pc[d] /\ at'[d] = at[d]
          BY <1>4, <4>2, OthersStand DEF Step, Unlock
        <5> QED
          BY <5>1 DEF Waits, Passed, Guards, Shares, Locks
      <4> QED
        BY <4>1, <4>2
    <3>4. d = c /\ f = File(c) => i = at[c]
      BY FileFacts, OrderFacts DEF File
    <3>5. d = c /\ i = at[c] => ~Waits(d, i)' /\ ~Asks(d, i)'
      <4>1. i = at[c] => ~Waits(c, i)' /\ ~Publishes(c, i)'
        BY <1>4, LeftBehind
      <4>2. at'[c] \in Nat /\ i \in Nat
        BY TypeStep, OrderFacts DEF TypeOK
      <4>3. Asks(c, i)' => Publishes(c, i)'
        BY <4>2 DEF Asks, Publishes
      <4> QED
        BY <4>1, <4>3
    <3>6. gone'[p][f] \subseteq gone[p][f] \cup {c}
      BY <2>1, <3>1 DEF TypeOK
    <3>7. Asks(d, i)' \/ Waits(d, i)' => d # c \/ f # File(c)
      BY <3>4, <3>5
    <3>8. d = c /\ f # File(c) => gone'[p][f] = gone[p][f]
      BY <2>1, <3>1 DEF TypeOK
    <3>9. Listed(d, i)
      BY <1>1
    <3> QED
      BY <2>1, <3>2, <3>3, <3>6, <3>7, <3>8, <3>9
  <2> QED
    BY <1>1, <1>2, <2>1, <2>2
<1>5. ASSUME NEW p \in Procs, Crash(p) PROVE QueueInv'
  <2>1. /\ queue' = [queue EXCEPT ![p] = [f \in Files |-> << >>]]
        /\ gone' = [gone EXCEPT ![p] = [f \in Files |-> {}]]
    BY <1>5 DEF Crash
  <2>2. \A q \in Procs, f \in Files : IF q = p THEN queue'[q][f] = << >> /\ gone'[q][f] = {}
                                    ELSE queue'[q][f] = queue[q][f] /\ gone'[q][f] = gone[q][f]
    BY <2>1 DEF TypeOK
  <2>3. ASSUME NEW d \in Calls, NEW i \in DOMAIN Order[d] PROVE Listed(d, i)'
    <3>1. ProcOf[d] \in Procs /\ Order[d][i] \in Files /\ i >= 1 /\ i \in Int
      BY FileFacts, OrderFacts
    <3>2. /\ pc'[d] = pc[d] \/ pc'[d] = "dead"
          /\ at'[d] = at[d]
      BY <1>5, OutsideStands DEF Outside
    <3>3. (Asks(d, i)' => Asks(d, i)) /\ (Waits(d, i)' => Waits(d, i))
      BY <3>2 DEF Asks, Asking, Waits, Passed, Guards, Shares, Locks
    <3>4. ASSUME ProcOf[d] = p PROVE ~Waits(d, i)'
      <4>1. pc'[d] = "dead" \/ pc[d] \in {"done", "dead"} \/ (pc[d] = "start" /\ ~(at[d] > 1))
        BY <1>5, <3>4 DEF Crash, Begun, Owners
      <4>2. at[d] \in Nat
        BY DEF TypeOK
      <4> QED
        BY <3>1, <3>2, <4>1, <4>2 DEF Waits, Passed, Guards, Shares, Locks
    <3>5. Listed(d, i)
      BY <1>1
    <3> QED
      BY <2>2, <3>1, <3>3, <3>4, <3>5
  <2>4. ASSUME NEW q \in Procs, NEW f \in Files PROVE Named(q, f)'
    BY <1>1, <2>2
  <2> QED
    BY <1>2, <2>3, <2>4
<1>6. ASSUME UNCHANGED <<queue, gone>>, ~\E c \in Calls : Enqueue(c) PROVE QueueInv'
  <2>1. ASSUME NEW d \in Calls, NEW i \in DOMAIN Order[d] PROVE Listed(d, i)'
    <3>1. (Asks(d, i)' => Asks(d, i)) /\ (Waits(d, i)' => Waits(d, i))
      BY <1>6, StandingStep
    <3>2. Listed(d, i)
      BY <1>1
    <3> QED
      BY <1>6, <3>1, <3>2
  <2> QED
    BY <1>1, <1>2, <1>6, <2>1
<1> QED
  BY <1>3, <1>4, <1>5, <1>6, QueueFrame

(* Who is past another in the queue of a file saw it go.                   *)
LEMMA TurnsKept ==
  ASSUME TypeOK, QueueInv, TurnsInOrder, [Next]_vars
  PROVE  TurnsInOrder'
<1> SUFFICES ASSUME NEW p \in Procs, NEW f \in Files, NEW i \in DOMAIN queue'[p][f],
                    NEW j \in DOMAIN queue'[p][f], i < j,
                    NEW d \in Calls, d = queue'[p][f][j], Past(d, f)'
             PROVE  queue'[p][f][i] \in gone'[p][f]
  <2>1. \A p \in Procs, f \in Files : queue'[p][f] \in Seq(Calls)
    BY TypeStep DEF TypeOK
  <2>2. \A p \in Procs, f \in Files : \A i \in DOMAIN queue'[p][f] : queue'[p][f][i] \in Calls
    BY <2>1
  <2> QED
    BY <2>2 DEF TurnsInOrder
<1>0. TypeOK'
  BY TypeStep
<1>q. queue[p][f] \in Seq(Calls) /\ queue'[p][f] \in Seq(Calls)
  BY <1>0 DEF TypeOK
<1>1. TypeOK' /\ queue[p][f] \in Seq(Calls) /\ queue'[p][f] \in Seq(Calls)
  BY <1>0, <1>q
<1>2. d \in Calls /\ queue'[p][f][i] \in Calls
  BY <1>1
<1>3. PICK k \in DOMAIN Order[d] : f = Order[d][k] /\ Passed(d, k)'
  BY <1>1, <1>2, HeldPlacesNext DEF Placed
<1>4. Past(d, f) \/ (Turn(d) /\ k = at[d])
  BY <1>2, <1>3, StandingStep, HeldPlaces DEF Placed
<1>5. ASSUME UNCHANGED <<queue, gone>>, Past(d, f) PROVE queue'[p][f][i] \in gone'[p][f]
  BY <1>5 DEF TurnsInOrder
<1>6. ASSUME Turn(d), k = at[d] PROVE queue'[p][f][i] \in gone'[p][f]
  <2>1. UNCHANGED <<queue, gone>> /\ Ahead(d, f) = {}
    BY <1>3, <1>6 DEF Turn, File
  <2>2. /\ ProcOf[d] = p
        /\ \A h \in DOMAIN queue[p][f] : queue[p][f][h] = d => h = j
    BY <2>1 DEF QueueInv
  <2>3. \A h \in 1..i : h \in DOMAIN queue[p][f] /\ h # j
    BY <1>1, <2>1
  <2>4. \A h \in 1..i : queue[p][f][h] # d
    BY <2>2, <2>3
  <2> QED
    BY <2>1, <2>2, <2>4 DEF Ahead
<1>7. ASSUME NEW c \in Calls, Enqueue(c) PROVE queue'[p][f][i] \in gone'[p][f]
  <2>1. /\ queue' = [queue EXCEPT ![ProcOf[c]][File(c)] = Append(@, c)] /\ gone' = gone
        /\ pc[c] = "start" /\ File(c) \in Files /\ ProcOf[c] \in Procs
    BY <1>7, FileFacts DEF Enqueue
  <2>4. Past(d, f)
    <3>1. d = c => ~Turn(d)
      BY <1>7 DEF Turn, Enqueue
    <3>2. d # c => pc'[d] = pc[d]
      BY <1>2, <1>7, OthersStand DEF Step, Acquire
    <3>3. d # c => ~Turn(d)
      BY <1>2, <3>2 DEF Turn, Go, TypeOK, Owners
    <3> QED
      BY <1>4, <3>1, <3>3
  <2>2. CASE p # ProcOf[c] \/ f # File(c)
    <3>1. queue'[p][f] = queue[p][f] /\ gone'[p][f] = gone[p][f]
      BY <2>1, <2>2 DEF TypeOK
    <3> QED
      BY <2>4, <3>1 DEF TurnsInOrder
  <2>3. CASE p = ProcOf[c] /\ f = File(c)
    <3> DEFINE q == queue[p][f]
    <3>1. queue'[p][f] = Append(q, c)
      BY <2>1, <2>3 DEF TypeOK
    <3>2. q \in Seq(Calls)
      BY <1>1
    <3> HIDE DEF q
    <3>3. DOMAIN q = 1..Len(q) /\ Len(q) \in Nat /\ DOMAIN queue'[p][f] = 1..Len(q) + 1
          /\ (\A h \in 1..Len(q) : queue'[p][f][h] = q[h]) /\ queue'[p][f][Len(q) + 1] = c
      BY <3>1, <3>2
    <3>4. i \in DOMAIN q /\ queue'[p][f][i] = q[i]
      BY <3>3
    <3>6. d # c
      <4>1. Past(c, f) => \E m \in DOMAIN Order[c] : f = Order[c][m] /\ Passed(c, m)
        BY HeldPlaces DEF Placed
      <4>2. \A m \in DOMAIN Order[c] : f = Order[c][m] => m = at[c]
        BY <2>3, FileFacts, OrderFacts DEF File
      <4>3. at[c] \in Nat
        BY DEF TypeOK
      <4>4. ~Passed(c, at[c])
        BY <2>1, <4>3 DEF Passed, Guards, Shares, Locks
      <4> QED
        BY <2>4, <4>1, <4>2, <4>4
    <3>7. j \in DOMAIN q /\ q[j] = d
      BY <3>3, <3>6
    <3>8. q[i] \in gone[p][f]
      BY <2>4, <3>4, <3>7 DEF TurnsInOrder, q
    <3> QED
      BY <2>1, <3>4, <3>8
  <2> QED
    BY <2>2, <2>3
<1>8. ASSUME NEW c \in Calls, Free(c) \/ Cancel(c) PROVE queue'[p][f][i] \in gone'[p][f]
  <2>1. queue' = queue /\ gone' = [gone EXCEPT ![ProcOf[c]][File(c)] = @ \cup {c}]
    BY <1>8 DEF Free, Cancel, Leave
  <2>2. gone[p][f] \subseteq gone'[p][f]
    BY <2>1 DEF TypeOK
  <2>3. ~Turn(d)
    <3>1. d = c => ~Turn(d)
      BY <1>2, <1>8 DEF Turn, Free, Cancel, Leave, Go, TypeOK, Owners
    <3>2. d # c => pc'[d] = pc[d]
      BY <1>2, <1>8, OthersStand DEF Step, Unlock
    <3> QED
      BY <1>2, <3>1, <3>2 DEF Turn, Go, TypeOK, Owners
  <2> QED
    BY <1>4, <2>1, <2>2, <2>3 DEF TurnsInOrder
<1>9. ASSUME NEW r \in Procs, Crash(r) PROVE queue'[p][f][i] \in gone'[p][f]
  <2>1. /\ queue' = [queue EXCEPT ![r] = [g \in Files |-> << >>]]
        /\ gone' = [gone EXCEPT ![r] = [g \in Files |-> {}]]
    BY <1>9 DEF Crash
  <2>2. p # r
    BY <2>1 DEF TypeOK
  <2>3. queue'[p][f] = queue[p][f] /\ gone'[p][f] = gone[p][f]
    BY <2>1, <2>2 DEF TypeOK
  <2>4. ~Turn(d)
    BY <1>2, <1>9 DEF Turn, Crash, Go, TypeOK, Owners
  <2> QED
    BY <1>4, <2>3, <2>4 DEF TurnsInOrder
<1> QED
  BY <1>4, <1>5, <1>6, <1>7, <1>8, <1>9, QueueFrame

-----------------------------------------------------------------------------
(* The guards.                                                             *)

(* Only these steps change a guard.                                        *)
LEMMA GuardFrame ==
  ASSUME [Next]_vars, ~\E p \in Procs : Crash(p),
         ~\E c \in Calls : TakePrivate(c) \/ TakeShared(c) \/ Free(c) \/ Cancel(c)
  PROVE  UNCHANGED <<private, shared>>
<1>1. ASSUME NEW c \in Calls, Step(c) PROVE UNCHANGED <<private, shared>>
  BY <1>1 DEF Step, Acquire, Operate, Unlock, Enqueue, Turn,
     Publish, Examine, Evict, Judge, Fence, Write, MoveAside, Drop
<1> QED
  BY <1>1 DEF Next, RenewRead, RenewWrite, Lapse, Legacy, LegacyTake, LegacyMoveAside, LegacyDrop,
     vars

LEMMA GuardKept ==
  ASSUME TypeOK, GuardInv, [Next]_vars
  PROVE  GuardInv'
<1> SUFFICES ASSUME NEW d \in Calls, NEW i \in DOMAIN Order[d]
             PROVE  /\ Guards(d, i)' => private'[Account(d)][Order[d][i]] = d
                    /\ Shares(d, i)' => shared'[Order[d][i]] = d
  BY DEF GuardInv, Account
<1> DEFINE f == Order[d][i]
<1>1. /\ f \in Files /\ Account(d) \in Accounts /\ d # Nobody
      /\ \A c \in Calls : File(c) \in Files /\ Account(c) \in Accounts
      /\ f = File(d) => i = at[d]
  BY FileFacts, OrderFacts DEF File
<1>2. /\ Guards(d, i) => private[Account(d)][f] = d
      /\ Shares(d, i) => shared[f] = d
  BY DEF GuardInv
<1>3. ASSUME NEW c \in Calls, TakePrivate(c)
      PROVE  /\ Guards(d, i)' => private'[Account(d)][f] = d
             /\ Shares(d, i)' => shared'[f] = d
  <2>1. /\ private' = [private EXCEPT ![Account(c)][File(c)] = c] /\ shared' = shared
        /\ private[Account(c)][File(c)] = Nobody /\ pc[c] = "private"
    BY <1>3 DEF TakePrivate
  <2>2. Guards(d, i)' => Guards(d, i) \/ (d = c /\ i = at[c])
    <3>1. d # c => pc'[d] = pc[d] /\ at'[d] = at[d]
      BY <1>3, OthersStand DEF Step, Acquire
    <3>2. d # c => (Guards(d, i)' <=> Guards(d, i))
      BY <3>1 DEF Guards, Shares, Locks
    <3> QED
      BY <3>2, StandingStep
  <2>3. Shares(d, i)' => Shares(d, i)
    <3>1. d # c => pc'[d] = pc[d] /\ at'[d] = at[d]
      BY <1>3, OthersStand DEF Step, Acquire
    <3>2. d # c => (Shares(d, i)' <=> Shares(d, i))
      BY <3>1 DEF Shares, Locks
    <3>3. d = c => ~TakeShared(d)
      BY <2>1 DEF TakeShared
    <3> QED
      BY <3>2, <3>3, StandingStep
  <2>4. Account(d) = Account(c) /\ f = File(c) => private'[Account(d)][f] = c
    BY <1>1, <2>1 DEF TypeOK
  <2>5. ~(Account(d) = Account(c) /\ f = File(c)) => private'[Account(d)][f] = private[Account(d)][f]
    BY <1>1, <2>1 DEF TypeOK
  <2>6. d = c /\ i = at[c] => Account(d) = Account(c) /\ f = File(c)
    BY DEF File
  <2> QED
    BY <1>1, <1>2, <2>1, <2>2, <2>3, <2>4, <2>5, <2>6
<1>4. ASSUME NEW c \in Calls, TakeShared(c)
      PROVE  /\ Guards(d, i)' => private'[Account(d)][f] = d
             /\ Shares(d, i)' => shared'[f] = d
  <2>1. /\ shared' = [shared EXCEPT ![File(c)] = c] /\ private' = private
        /\ shared[File(c)] = Nobody /\ pc[c] = "shared"
    BY <1>4 DEF TakeShared
  <2>2. Shares(d, i)' => Shares(d, i) \/ (d = c /\ i = at[c])
    <3>1. d # c => pc'[d] = pc[d] /\ at'[d] = at[d]
      BY <1>4, OthersStand DEF Step, Acquire
    <3>2. d # c => (Shares(d, i)' <=> Shares(d, i))
      BY <3>1 DEF Shares, Locks
    <3> QED
      BY <3>2, StandingStep
  <2>3. Guards(d, i)' => Guards(d, i)
    <3>1. d # c => pc'[d] = pc[d] /\ at'[d] = at[d]
      BY <1>4, OthersStand DEF Step, Acquire
    <3>2. d # c => (Guards(d, i)' <=> Guards(d, i))
      BY <3>1 DEF Guards, Shares, Locks
    <3>3. d = c => ~TakePrivate(d)
      BY <2>1 DEF TakePrivate
    <3> QED
      BY <3>2, <3>3, StandingStep
  <2>4. IF f = File(c) THEN shared'[f] = c ELSE shared'[f] = shared[f]
    BY <1>1, <2>1 DEF TypeOK
  <2>5. d = c /\ i = at[c] => f = File(c)
    BY DEF File
  <2> QED
    BY <1>1, <1>2, <2>1, <2>2, <2>3, <2>4, <2>5
<1>5. ASSUME NEW c \in Calls, Free(c) \/ Cancel(c)
      PROVE  /\ Guards(d, i)' => private'[Account(d)][f] = d
             /\ Shares(d, i)' => shared'[f] = d
  <2>1. FreeGuards(c)
    BY <1>5 DEF Free, Cancel
  <2>2. d # c \/ i # at[c] => (Guards(d, i)' => Guards(d, i)) /\ (Shares(d, i)' => Shares(d, i))
    <3>1. d # c => pc'[d] = pc[d] /\ at'[d] = at[d]
      BY <1>5, OthersStand DEF Step, Unlock
    <3>2. d # c => (Guards(d, i)' <=> Guards(d, i)) /\ (Shares(d, i)' <=> Shares(d, i))
      BY <3>1 DEF Guards, Shares, Locks
    <3> QED
      BY <3>2, StandingStep
  <2>3. d = c /\ i = at[c] => ~Guards(d, i)' /\ ~Shares(d, i)'
    BY <1>5, LeftBehind
  <2>4. d # c /\ private[Account(d)][f] = d => private'[Account(d)][f] = d
    BY <1>1, <2>1 DEF FreeGuards, TypeOK
  <2>5. f # File(c) => private'[Account(d)][f] = private[Account(d)][f] /\ shared'[f] = shared[f]
    BY <1>1, <2>1 DEF FreeGuards, TypeOK
  <2>6. d # c /\ shared[f] = d => shared'[f] = d
    BY <1>1, <2>1 DEF FreeGuards, TypeOK
  <2>7. CASE d # c
    BY <1>2, <2>2, <2>4, <2>6, <2>7
  <2>8. CASE d = c /\ i = at[c]
    BY <2>3, <2>8
  <2>9. CASE d = c /\ i # at[c]
    BY <1>1, <1>2, <2>2, <2>5, <2>9
  <2> QED
    BY <2>7, <2>8, <2>9
<1>6. ASSUME NEW p \in Procs, Crash(p)
      PROVE  /\ Guards(d, i)' => private'[Account(d)][f] = d
             /\ Shares(d, i)' => shared'[f] = d
  <2>1. pc'[d] \in {pc[d], "dead"} /\ at'[d] = at[d]
    BY <1>6, OutsideStands DEF Outside
  <2>2. pc'[d] # "dead" =>
          /\ private[Account(d)][f] = d => private'[Account(d)][f] = d
          /\ shared[f] = d => shared'[f] = d
    BY <1>1, <1>6 DEF Crash, TypeOK, Owners
  <2> QED
    BY <1>2, <2>1, <2>2 DEF Guards, Shares, Locks
<1>7. ASSUME UNCHANGED <<private, shared>>, ~TakePrivate(d), ~TakeShared(d)
      PROVE  /\ Guards(d, i)' => private'[Account(d)][f] = d
             /\ Shares(d, i)' => shared'[f] = d
  BY <1>2, <1>7, StandingStep
<1> QED
  BY <1>3, <1>4, <1>5, <1>6, <1>7, GuardFrame

(* A call touches a lease record only while it holds the shared guard.     *)
LEMMA RecordStep ==
  ASSUME TypeOK, NEW c \in Calls, Step(c) \/ Cancel(c), NEW f \in Files
  PROVE  \/ record'[f] = record[f]
         \/ f = File(c) /\ Shares(c, at[c])
  <1>1. CASE Publish(c) \/ Evict(c)
    BY <1>1, FileFacts DEF Publish, Evict, TypeOK, Shares
  <1>2. CASE Judge(c)
    BY <1>2, FileFacts DEF Judge, Restore, TypeOK, Shares
  <1>3. CASE MoveAside(c) \/ Drop(c)
    BY <1>3, FileFacts DEF MoveAside, Drop, Restore, TypeOK, Shares, Locks
  <1>4. CASE ~(Publish(c) \/ Evict(c) \/ Judge(c) \/ MoveAside(c) \/ Drop(c))
    BY <1>4 DEF Step, Acquire, Operate, Unlock, Enqueue, Turn, TakePrivate, TakeShared, Examine,
       Fence, Write, Free, Cancel
  <1> QED
    BY <1>1, <1>2, <1>3, <1>4

LEMMA LeaseKept ==
  ASSUME TypeOK, GuardInv, GuardsProtectTheLease, [Next]_vars
  PROVE  GuardsProtectTheLease'
<1>0. TypeOK'
  BY TypeStep
<1>1. LegacyFile \in Files /\ legacy \in Owners
  BY ConstantsAssumption DEF Owners
<1> SUFFICES ASSUME NEW d \in Calls, NEW f, f \in Locked(d)'
             PROVE  record'[f].token = d \/ (f = LegacyFile /\ pc'[legacy] # "out")
  BY DEF GuardsProtectTheLease
<1>2. PICK i \in DOMAIN Order[d] : f = Order[d][i] /\ Locks(d, i)'
  BY <1>0, HeldPlacesNext DEF Placed
<1>3. f \in Files /\ (f = File(d) => i = at[d]) /\ at[d] \in Nat
  BY <1>2, FileFacts, OrderFacts DEF File
<1>4. Locks(d, i) \/ (Publish(d) /\ i = at[d])
  BY <1>2, StandingStep
<1>5. Locks(d, i) => record[f].token = d \/ (f = LegacyFile /\ pc[legacy] # "out")
  BY <1>2, HeldPlaces DEF Placed, GuardsProtectTheLease
<1>6. ASSUME NEW c \in Calls, Step(c) \/ Cancel(c)
      PROVE  record'[f].token = d \/ (f = LegacyFile /\ pc'[legacy] # "out")
  <2>1. pc'[legacy] = pc[legacy]
    BY <1>6, OthersStand
  <2>2. CASE record'[f] = record[f] /\ Locks(d, i)
    BY <1>5, <2>1, <2>2
  <2>3. CASE f = File(c) /\ Shares(c, at[c]) /\ Locks(d, i)
    <3>1. d = c
      <4>1. Shares(d, i) /\ Shares(c, at[c]) /\ at[c] \in DOMAIN Order[c]
        BY <2>3, FileFacts DEF Shares
      <4>2. shared[f] = d /\ shared[File(c)] = c
        BY <1>2, <4>1 DEF GuardInv, File
      <4> QED
        BY <2>3, <4>2
    <3>2. i = at[c] /\ Locks(c, i) /\ Locks(c, i)'
      BY <1>2, <1>3, <2>3, <3>1
    <3>3. record'[f] = record[f]
      <4>1. c \in Owners /\ at[c] \in Nat \ {0} /\ pc \in [Owners -> Steps \cup {"out", "in"}]
        BY FileFacts DEF TypeOK
      <4>2. i = at[c] /\ pc[c] \in {"work", "write", "release"}
        BY <3>2, <4>1 DEF Locks
      <4>3. CASE MoveAside(c)
        BY <3>2, <4>1, <4>3 DEF MoveAside, Go, Locks
      <4>4. CASE Fence(c) \/ Write(c)
        BY <4>4 DEF Fence, Write
      <4> QED
        BY <1>6, <4>2, <4>3, <4>4 DEF Step, Acquire, Operate, Unlock, Enqueue, Turn, TakePrivate,
           TakeShared, Publish, Examine, Evict, Judge, Drop, Free, Cancel
    <3> QED
      BY <1>5, <2>1, <2>3, <3>3
  <2>4. CASE Publish(d) /\ i = at[d]
    <3>1. record' = [record EXCEPT ![File(d)] = NewLease(d)] /\ f = File(d)
      BY <1>2, <2>4 DEF Publish, File
    <3>2. record'[f] = NewLease(d)
      BY <1>3, <3>1 DEF TypeOK
    <3> QED
      BY <3>2 DEF NewLease
  <2> QED
    BY <1>3, <1>4, <1>6, <2>2, <2>3, <2>4, RecordStep
<1>7. ASSUME Outside
      PROVE  record'[f].token = d \/ (f = LegacyFile /\ pc'[legacy] # "out")
  <2>1. Locks(d, i)
    <3>1. pc'[d] \in {pc[d], "dead"} /\ at'[d] = at[d]
      BY <1>7, OutsideStands
    <3> QED
      BY <1>2, <3>1 DEF Locks
  <2>2. CASE pc'[legacy] = pc[legacy] /\ record'[f].token = record[f].token
    BY <1>5, <2>1, <2>2
  <2>3. CASE Legacy
    <3>1. pc[legacy] \in {"in", "drop", "out"} /\ pc'[legacy] \in {"in", "drop", "done"}
          /\ (f = LegacyFile \/ record'[f] = record[f])
      BY <1>1, <1>3, <2>3 DEF Legacy, LegacyTake, LegacyMoveAside, LegacyDrop, Restore, Go, TypeOK
    <3> QED
      BY <1>5, <2>1, <3>1
  <2>4. ASSUME NEW g \in Files, Lapse(g)
        PROVE  pc'[legacy] = pc[legacy] /\ record'[f].token = record[f].token
    <3>1. record[g] \in Records
      BY <2>4 DEF Lapse, TypeOK, NoRecord
    <3> QED
      BY <1>3, <2>4, <3>1 DEF Lapse, TypeOK, Records
  <2>5. ASSUME NEW o \in Owners, NEW g \in Files, RenewWrite(o, g)
        PROVE  pc'[legacy] = pc[legacy] /\ record'[f].token = record[f].token
    BY <1>3, <2>5 DEF RenewWrite, TypeOK, NewLease
  <2>6. ASSUME NEW p \in Procs, Crash(p)
        PROVE  pc'[legacy] = pc[legacy] /\ record'[f].token = record[f].token
    BY <1>1, <2>6, ConstantsAssumption DEF Crash, TypeOK
  <2> QED
    BY <1>7, <2>2, <2>3, <2>4, <2>5, <2>6 DEF Outside, RenewRead, vars
<1> QED
  BY <1>6, <1>7 DEF Next, Outside

LEMMA Separate ==
  ASSUME TypeOK, WorkInv, GuardInv
  PROVE  OneWriter
<1> SUFFICES ASSUME NEW c \in Calls, NEW d \in Calls, pc[c] = "write", pc[d] = "write",
                    NEW f \in ToSet(Requested[c]), f \in ToSet(Requested[d])
             PROVE  c = d
  BY DEF OneWriter
<1>1. ASSUME NEW e \in Calls, pc[e] = "write", f \in ToSet(Requested[e]) PROVE shared[f] = e
  <2>1. PICK i \in DOMAIN Order[e] : f = Order[e][i]
    <3>1. f \in ToSet(Order[e])
      BY <1>1, OrderFacts
    <3> QED
      BY <3>1 DEF ToSet
  <2>2. Locks(e, i)
    BY <1>1, FileFacts, OrderFacts DEF WorkInv, Locks
  <2> QED
    BY <2>1, <2>2 DEF GuardInv, Shares
<1> QED
  BY <1>1

-----------------------------------------------------------------------------
(* The leases.                                                             *)

(* What a lease, standing or moved aside, can be.                          *)
LEMMA Leases ==
  ASSUME TypeOK
  PROVE  /\ \A x \in Owners : TombOf(x) \in Files
         /\ \A x \in Owners : tomb[x] # NoRecord => tomb[x].token \in Owners
         /\ \A f \in Files : record[f] # NoRecord => record[f].token \in Owners
         /\ NoRecord.token = Nobody /\ Nobody \notin Owners
         /\ Calls \subseteq Owners /\ legacy \in Owners /\ legacy \notin Calls
<1>1. \A x \in Owners : TombOf(x) \in Files
  BY FileFacts, ConstantsAssumption DEF TombOf, Owners
<1> QED
  BY <1>1, ConstantsAssumption DEF TypeOK, Records, NoRecord, Owners

LEMMA LegacyLeaves ==
  ASSUME TypeOK, [Next]_vars
  PROVE  pc'[legacy] = "out" => pc[legacy] = "out"
<1>1. pc \in [Owners -> Steps \cup {"out", "in"}] /\ legacy \in Owners /\ legacy \notin Calls
  BY ConstantsAssumption DEF TypeOK, Owners
<1>2. CASE Outside
  BY <1>1, <1>2 DEF Outside, RenewRead, RenewWrite, Lapse, Crash, Legacy, LegacyTake,
     LegacyMoveAside, LegacyDrop, Go, vars
<1> QED
  BY <1>2, OthersStand DEF Next, Outside

(* A lease is moved aside.                                                 *)
LEMMA AsideKept ==
  ASSUME TypeOK, UniqueInv, OnceInv, LegacyInv, SeenInv, [Next]_vars, NEW x \in Owners,
         tomb[x] = NoRecord, at' = at, seen' = seen,
         \A y \in Owners : tomb'[y] = IF y = x THEN record[TombOf(x)] ELSE tomb[y],
         \A g \in Files : record'[g] = IF g = TombOf(x) THEN NoRecord ELSE record[g]
  PROVE  UniqueInv' /\ OnceInv' /\ LegacyInv' /\ SeenInv'
<1>1. \A y \in Owners : TombOf(y)' = TombOf(y)
  BY DEF TombOf, File
<1>2. \A d \in Calls : File(d)' = File(d) /\ File(d) \in Files
  BY FileFacts DEF File
<1>3. UniqueInv'
  <2>1. ASSUME NEW y \in Owners, tomb'[y] # NoRecord PROVE tomb'[y].token # record'[TombOf(y)].token
    BY <2>1, Leases DEF UniqueInv
  <2>2. ASSUME NEW y \in Owners, NEW z \in Owners, tomb'[y] # NoRecord, TombOf(y) = TombOf(z),
               tomb'[y].token = tomb'[z].token
        PROVE  y = z
    BY <2>2, Leases DEF UniqueInv
  <2> QED
    BY <1>1, <2>1, <2>2 DEF UniqueInv
<1>4. OnceInv'
  <2> SUFFICES ASSUME NEW d \in Calls, NEW i \in DOMAIN Order[d], Publishes(d, i)'
               PROVE  /\ record'[Order[d][i]].token # d
                      /\ \A y \in Owners : tomb'[y].token = d => TombOf(y)' # Order[d][i]
    BY DEF OnceInv
  <2>1. /\ record[Order[d][i]].token # d
        /\ \A y \in Owners : tomb[y].token = d => TombOf(y) # Order[d][i]
    BY StandingStep DEF OnceInv
  <2>2. Order[d][i] \in Files
    BY OrderFacts
  <2> QED
    BY <1>1, <2>1, <2>2, Leases
<1>5. LegacyInv'
  BY LegacyLeaves, Leases DEF LegacyInv
<1>6. SeenInv'
  <2> SUFFICES ASSUME NEW d \in Calls, seen[d] # Nobody
               PROVE  /\ record'[File(d)].token = seen[d] => Evictable(d, record'[File(d)])
                      /\ \A y \in Owners : tomb'[y].token = seen[d] /\ TombOf(y) = File(d)
                                             => Evictable(d, tomb'[y])
    BY <1>1, <1>2 DEF SeenInv, Evictable, Early
  <2>1. /\ record[File(d)].token = seen[d] => Evictable(d, record[File(d)])
        /\ \A y \in Owners : tomb[y].token = seen[d] /\ TombOf(y) = File(d) => Evictable(d, tomb[y])
    BY DEF SeenInv
  <2> QED
    BY <1>2, <2>1, Leases
<1> QED
  BY <1>3, <1>4, <1>5, <1>6

(* A lease is put back, or dropped.                                        *)
LEMMA BackKept ==
  ASSUME TypeOK, UniqueInv, OnceInv, LegacyInv, SeenInv, [Next]_vars, NEW x \in Owners, at' = at,
         \A d \in Calls : seen'[d] \in {seen[d], Nobody},
         \A y \in Owners : tomb'[y] = IF y = x THEN NoRecord ELSE tomb[y],
         \A g \in Files : record'[g] = record[g] \/ (g = TombOf(x) /\ record'[g] = tomb[x])
  PROVE  UniqueInv' /\ OnceInv' /\ LegacyInv' /\ SeenInv'
<1>1. \A y \in Owners : TombOf(y)' = TombOf(y)
  BY DEF TombOf, File
<1>2. \A d \in Calls : File(d)' = File(d) /\ File(d) \in Files
  BY FileFacts DEF File
<1>3. UniqueInv'
  <2>1. ASSUME NEW y \in Owners, tomb'[y] # NoRecord PROVE tomb'[y].token # record'[TombOf(y)].token
    <3>1. y # x /\ tomb'[y] = tomb[y]
      BY <2>1
    <3>2. tomb[y].token # record[TombOf(y)].token
      BY <2>1, <3>1 DEF UniqueInv
    <3>3. TombOf(y) = TombOf(x) => tomb[y].token # tomb[x].token
      BY <2>1, <3>1 DEF UniqueInv
    <3> QED
      BY <3>1, <3>2, <3>3, Leases
  <2>2. ASSUME NEW y \in Owners, NEW z \in Owners, tomb'[y] # NoRecord, TombOf(y) = TombOf(z),
               tomb'[y].token = tomb'[z].token
        PROVE  y = z
    BY <2>2, Leases DEF UniqueInv
  <2> QED
    BY <1>1, <2>1, <2>2 DEF UniqueInv
<1>4. OnceInv'
  <2> SUFFICES ASSUME NEW d \in Calls, NEW i \in DOMAIN Order[d], Publishes(d, i)'
               PROVE  /\ record'[Order[d][i]].token # d
                      /\ \A y \in Owners : tomb'[y].token = d => TombOf(y)' # Order[d][i]
    BY DEF OnceInv
  <2>1. /\ record[Order[d][i]].token # d
        /\ \A y \in Owners : tomb[y].token = d => TombOf(y) # Order[d][i]
    BY StandingStep DEF OnceInv
  <2>2. Order[d][i] \in Files
    BY OrderFacts
  <2> QED
    BY <1>1, <2>1, <2>2, Leases
<1>5. LegacyInv'
  BY LegacyLeaves, Leases DEF LegacyInv
<1>6. SeenInv'
  <2> SUFFICES ASSUME NEW d \in Calls, seen'[d] # Nobody
               PROVE  /\ record'[File(d)].token = seen[d] => Evictable(d, record'[File(d)])
                      /\ \A y \in Owners : tomb'[y].token = seen[d] /\ TombOf(y) = File(d)
                                             => Evictable(d, tomb'[y])
    BY <1>1, <1>2 DEF SeenInv, Evictable, Early
  <2>1. /\ record[File(d)].token = seen[d] => Evictable(d, record[File(d)])
        /\ \A y \in Owners : tomb[y].token = seen[d] /\ TombOf(y) = File(d) => Evictable(d, tomb[y])
    BY DEF SeenInv
  <2>2. seen[d] \in Owners
    BY DEF TypeOK
  <2> QED
    BY <1>2, <2>1, <2>2, Leases
<1> QED
  BY <1>3, <1>4, <1>5, <1>6

LeaseInv == UniqueInv /\ OnceInv /\ LegacyInv /\ SeenInv

(* A step that leaves the leases alone, wherever its call goes next.       *)
LEMMA LeasesStand ==
  ASSUME TypeOK, MovedInv, LeaseInv, [Next]_vars, UNCHANGED <<record, tomb, seen>>,
         NEW c \in Calls, tomb[c] = NoRecord, seen[c] = Nobody,
         \A d \in Calls : d # c => at'[d] = at[d]
  PROVE  LeaseInv'
<1>1. \A y \in Owners : tomb[y] # NoRecord => TombOf(y)' = TombOf(y)
  BY DEF TombOf, File, Owners
<1>2. \A d \in Calls : seen[d] # Nobody => File(d)' = File(d)
  BY DEF File
<1>3. UniqueInv'
  <2>1. \A y, z \in Owners : tomb[y] # NoRecord /\ tomb[y].token = tomb[z].token => tomb[z] # NoRecord
    BY Leases
  <2> QED
    BY <1>1, <2>1 DEF UniqueInv, LeaseInv
<1>4. OnceInv'
  <2> SUFFICES ASSUME NEW d \in Calls, NEW i \in DOMAIN Order[d], Publishes(d, i)'
               PROVE  /\ record'[Order[d][i]].token # d
                      /\ \A y \in Owners : tomb'[y].token = d => TombOf(y)' # Order[d][i]
    BY DEF OnceInv
  <2>1. /\ record[Order[d][i]].token # d
        /\ \A y \in Owners : tomb[y].token = d => TombOf(y) # Order[d][i]
    BY StandingStep DEF OnceInv, LeaseInv
  <2> QED
    BY <1>1, <2>1, Leases
<1>5. LegacyInv'
  BY LegacyLeaves DEF LegacyInv, LeaseInv
<1>6. SeenInv'
  <2> SUFFICES ASSUME NEW d \in Calls, seen[d] # Nobody
               PROVE  /\ record[File(d)].token = seen[d] => Evictable(d, record[File(d)])
                      /\ \A y \in Owners : tomb[y].token = seen[d] /\ TombOf(y)' = File(d)
                                             => Evictable(d, tomb[y])
    BY <1>2 DEF SeenInv, Evictable, Early
  <2>1. /\ record[File(d)].token = seen[d] => Evictable(d, record[File(d)])
        /\ \A y \in Owners : tomb[y].token = seen[d] /\ TombOf(y) = File(d) => Evictable(d, tomb[y])
    BY DEF SeenInv, LeaseInv
  <2>2. seen[d] \in Owners
    BY DEF TypeOK
  <2> QED
    BY <1>1, <2>1, <2>2, Leases
<1> QED
  BY <1>3, <1>4, <1>5, <1>6 DEF LeaseInv

(* A call has at most one lease of a file, its own publication.            *)
LEMMA PublishKept ==
  ASSUME TypeOK, GuardInv, MovedInv, LeaseInv, NEW c \in Calls, Publish(c)
  PROVE  LeaseInv'
<1>1. /\ \A g \in Files : record'[g] = IF g = File(c) THEN NewLease(c) ELSE record[g]
      /\ record[File(c)] = NoRecord /\ pc[c] = "publish" /\ tomb' = tomb /\ seen' = seen
      /\ File(c) \in Files /\ [Next]_vars
  BY FileFacts DEF Publish, TypeOK, Next, Step, Acquire
<1>2. tomb[c] = NoRecord /\ seen[c] = Nobody
  BY <1>1 DEF MovedInv
<1>3. \A d \in Calls : d # c => at'[d] = at[d]
  BY OthersStand DEF Step, Acquire
<1>4. \A y \in Owners : tomb[y] # NoRecord => TombOf(y)' = TombOf(y)
  BY <1>2, <1>3 DEF TombOf, File, Owners
<1>5. \A d \in Calls : seen[d] # Nobody => File(d)' = File(d)
  BY <1>2, <1>3 DEF File
<1>6. at[c] \in DOMAIN Order[c] /\ Publishes(c, at[c]) /\ NewLease(c).token = c
  BY <1>1, FileFacts DEF Publishes, Asking, NewLease
<1>7. UniqueInv'
  <2>1. \A y \in Owners : tomb[y].token = c => TombOf(y) # File(c)
    BY <1>6 DEF OnceInv, LeaseInv, File
  <2>2. ASSUME NEW y \in Owners, tomb[y] # NoRecord PROVE tomb[y].token # record'[TombOf(y)].token
    BY <1>1, <1>6, <2>1, <2>2, Leases DEF UniqueInv, LeaseInv
  <2>3. \A y, z \in Owners : tomb[y] # NoRecord /\ tomb[y].token = tomb[z].token => tomb[z] # NoRecord
    BY Leases
  <2> QED
    BY <1>1, <1>4, <2>2, <2>3 DEF UniqueInv, LeaseInv
<1>8. OnceInv'
  <2> SUFFICES ASSUME NEW d \in Calls, NEW i \in DOMAIN Order[d], Publishes(d, i)'
               PROVE  /\ record'[Order[d][i]].token # d
                      /\ \A y \in Owners : tomb'[y].token = d => TombOf(y)' # Order[d][i]
    BY DEF OnceInv
  <2>1. /\ record[Order[d][i]].token # d
        /\ \A y \in Owners : tomb[y].token = d => TombOf(y) # Order[d][i]
    BY <1>1, StandingStep DEF OnceInv, LeaseInv
  <2>2. d = c => Order[d][i] # File(c)
    <3> SUFFICES ASSUME d = c PROVE i # at[c]
      BY <1>6, OrderFacts DEF File
    <3>1. at[c] \in Nat /\ at'[c] = IF at[c] < Len(Order[c]) THEN at[c] + 1 ELSE at[c]
      BY DEF Publish, TypeOK
    <3>2. ~(at[c] < Len(Order[c])) => pc'[c] = "work"
      BY <1>1, FileFacts DEF Publish, Go, TypeOK
    <3> QED
      BY <3>1, <3>2 DEF Publishes, Asking
  <2>3. Order[d][i] \in Files
    BY OrderFacts
  <2> QED
    BY <1>1, <1>4, <1>6, <2>1, <2>2, <2>3, Leases
<1>9. LegacyInv'
  BY <1>1, <1>6, LegacyLeaves, Leases DEF LegacyInv, LeaseInv
<1>10. SeenInv'
  <2> SUFFICES ASSUME NEW d \in Calls, seen[d] # Nobody
               PROVE  /\ record'[File(d)].token = seen[d] => Evictable(d, record'[File(d)])
                      /\ \A y \in Owners : tomb[y].token = seen[d] /\ TombOf(y)' = File(d)
                                             => Evictable(d, tomb[y])
    BY <1>1, <1>5 DEF SeenInv, Evictable, Early
  <2>1. /\ record[File(d)].token = seen[d] => Evictable(d, record[File(d)])
        /\ \A y \in Owners : tomb[y].token = seen[d] /\ TombOf(y) = File(d) => Evictable(d, tomb[y])
    BY DEF SeenInv, LeaseInv
  <2>2. seen[d] \in Owners
    BY DEF TypeOK
  <2>3. File(d) # File(c)
    <3>1. Shares(d, at[d]) /\ Shares(c, at[c]) /\ at[d] \in DOMAIN Order[d]
      BY <1>1, FileFacts DEF MovedInv, Shares
    <3>2. shared[File(d)] = d /\ shared[File(c)] = c
      BY <1>6, <3>1 DEF GuardInv, File
    <3> QED
      BY <1>2, <3>2
  <2>4. File(d) \in Files
    BY FileFacts
  <2> QED
    BY <1>1, <1>4, <2>1, <2>2, <2>3, <2>4, Leases
<1> QED
  BY <1>7, <1>8, <1>9, <1>10 DEF LeaseInv

LEMMA ExamineKept ==
  ASSUME TypeOK, MovedInv, LeaseInv, NEW c \in Calls, Examine(c)
  PROVE  LeaseInv'
<1>1. /\ \A d \in Calls : seen'[d] = IF d = c THEN record[File(c)].token ELSE seen[d]
      /\ record[File(c)] # NoRecord /\ Evictable(c, record[File(c)])
      /\ record' = record /\ tomb' = tomb /\ at' = at /\ [Next]_vars /\ File(c) \in Files
  BY FileFacts DEF Examine, TypeOK, Next, Step, Acquire
<1>2. \A y \in Owners : TombOf(y)' = TombOf(y)
  BY <1>1 DEF TombOf, File
<1>3. \A d \in Calls : File(d)' = File(d)
  BY <1>1 DEF File
<1>4. UniqueInv'
  BY <1>1, <1>2 DEF UniqueInv, LeaseInv
<1>5. OnceInv'
  BY <1>1, <1>2, StandingStep DEF OnceInv, LeaseInv
<1>6. LegacyInv'
  BY <1>1, LegacyLeaves DEF LegacyInv, LeaseInv
<1>7. SeenInv'
  <2> SUFFICES ASSUME NEW d \in Calls, seen'[d] # Nobody
               PROVE  /\ record[File(d)].token = seen'[d] => Evictable(d, record[File(d)])
                      /\ \A y \in Owners : tomb[y].token = seen'[d] /\ TombOf(y) = File(d)
                                             => Evictable(d, tomb[y])
    BY <1>1, <1>2, <1>3 DEF SeenInv, Evictable, Early
  <2>1. CASE d # c
    BY <1>1, <2>1 DEF SeenInv, LeaseInv
  <2>2. CASE d = c
    <3>1. \A y \in Owners : tomb[y].token = record[File(c)].token => TombOf(y) # File(c)
      BY <1>1, Leases DEF UniqueInv, LeaseInv
    <3> QED
      BY <1>1, <2>2, <3>1
  <2> QED
    BY <2>1, <2>2
<1> QED
  BY <1>4, <1>5, <1>6, <1>7 DEF LeaseInv

(* Leases that grow older or younger, in the hands of the same owners.     *)
SameOwners ==
  /\ \A f \in Files : record'[f].token = record[f].token
  /\ \A x \in Owners : tomb'[x].token = tomb[x].token /\ (tomb'[x] # NoRecord => tomb[x] # NoRecord)
  /\ \A c \in Calls : seen'[c] \in {seen[c], Nobody}
  /\ at' = at

LEMMA SameOwnersKept ==
  ASSUME TypeOK, LeaseInv, [Next]_vars, SameOwners
  PROVE  UniqueInv' /\ OnceInv' /\ LegacyInv'
<1>1. \A y \in Owners : TombOf(y)' = TombOf(y)
  BY DEF TombOf, File, SameOwners
<1>2. UniqueInv'
  BY <1>1, Leases DEF UniqueInv, LeaseInv, SameOwners
<1>3. OnceInv'
  <2> SUFFICES ASSUME NEW d \in Calls, NEW i \in DOMAIN Order[d], Publishes(d, i)'
               PROVE  /\ record'[Order[d][i]].token # d
                      /\ \A y \in Owners : tomb'[y].token = d => TombOf(y)' # Order[d][i]
    BY DEF OnceInv
  <2>1. Order[d][i] \in Files
    BY OrderFacts
  <2> QED
    BY <1>1, <2>1, StandingStep DEF OnceInv, LeaseInv, SameOwners
<1>4. LegacyInv'
  BY LegacyLeaves, Leases DEF LegacyInv, LeaseInv, SameOwners
<1> QED
  BY <1>2, <1>3, <1>4

LEMMA RenewKept ==
  ASSUME TypeOK, LeaseInv, NEW o \in Owners, NEW f \in Files, RenewWrite(o, f)
  PROVE  LeaseInv'
<1>1. /\ \A g \in Files : record'[g] = IF g = f /\ record[g].token = o THEN NewLease(o) ELSE record[g]
      /\ \A x \in Owners : tomb'[x] = IF tomb[x].token = o /\ TombOf(x) = f THEN NewLease(o) ELSE tomb[x]
      /\ \A d \in Calls : seen'[d] = IF seen[d] = o /\ File(d) = f THEN Nobody ELSE seen[d]
      /\ at' = at /\ [Next]_vars
  BY DEF RenewWrite, TypeOK, Next
<1>2. SameOwners
  BY <1>1, Leases DEF SameOwners, NewLease
<1>3. SeenInv'
  <2> SUFFICES ASSUME NEW d \in Calls, seen'[d] # Nobody
               PROVE  /\ record'[File(d)].token = seen'[d] => Evictable(d, record'[File(d)])
                      /\ \A y \in Owners : tomb'[y].token = seen'[d] /\ TombOf(y) = File(d)
                                             => Evictable(d, tomb'[y])
    <3>1. \A y \in Owners : TombOf(y)' = TombOf(y)
      BY <1>1 DEF TombOf, File
    <3>2. \A d \in Calls : File(d)' = File(d)
      BY <1>1 DEF File
    <3> QED
      BY <3>1, <3>2 DEF SeenInv, Evictable, Early
  <2>1. /\ record[File(d)].token = seen[d] => Evictable(d, record[File(d)])
        /\ \A y \in Owners : tomb[y].token = seen[d] /\ TombOf(y) = File(d) => Evictable(d, tomb[y])
    BY <1>1 DEF SeenInv, LeaseInv
  <2>2. seen'[d] = seen[d] /\ (seen[d] = o => File(d) # f) /\ File(d) \in Files
    BY <1>1, FileFacts
  <2> QED
    BY <1>1, <2>1, <2>2 DEF NewLease
<1> QED
  BY <1>1, <1>2, <1>3, SameOwnersKept DEF LeaseInv

LEMMA LapseKept ==
  ASSUME TypeOK, LeaseInv, NEW f \in Files, Lapse(f)
  PROVE  LeaseInv'
<1>1. record[f] \in Records
  BY DEF Lapse, TypeOK, NoRecord
<1>2. /\ \A g \in Files : g # f => record'[g] = record[g]
      /\ record'[f].token = record[f].token /\ record'[f].fresh = FALSE
      /\ at' = at /\ tomb' = tomb /\ seen' = seen /\ [Next]_vars
  BY <1>1 DEF Lapse, TypeOK, Next, Records
<1>3. SameOwners
  BY <1>2 DEF SameOwners
<1>4. SeenInv'
  <2>1. \A y \in Owners : TombOf(y)' = TombOf(y)
    BY <1>2 DEF TombOf, File
  <2>2. \A d \in Calls : File(d)' = File(d) /\ File(d) \in Files
    BY <1>2, FileFacts DEF File
  <2> QED
    BY <1>2, <2>1, <2>2 DEF SeenInv, LeaseInv, Evictable, Early
<1> QED
  BY <1>2, <1>3, <1>4, SameOwnersKept DEF LeaseInv

(* A crash only loses what its calls had moved aside, or picked.           *)
LEMMA CrashKept ==
  ASSUME TypeOK, LeaseInv, NEW p \in Procs, Crash(p)
  PROVE  LeaseInv'
<1>1. /\ at' = at /\ record' = record /\ [Next]_vars
      /\ \A x \in Owners : tomb'[x] \in {tomb[x], NoRecord}
      /\ \A d \in Calls : seen'[d] \in {seen[d], Nobody}
  BY DEF Crash, TypeOK, Next
<1>2. \A y \in Owners : TombOf(y)' = TombOf(y)
  BY <1>1 DEF TombOf, File
<1>3. \A d \in Calls : File(d)' = File(d)
  BY <1>1 DEF File
<1>4. UniqueInv'
  BY <1>1, <1>2, Leases DEF UniqueInv, LeaseInv
<1>5. OnceInv'
  <2> SUFFICES ASSUME NEW d \in Calls, NEW i \in DOMAIN Order[d], Publishes(d, i)'
               PROVE  /\ record'[Order[d][i]].token # d
                      /\ \A y \in Owners : tomb'[y].token = d => TombOf(y)' # Order[d][i]
    BY DEF OnceInv
  <2>1. /\ record[Order[d][i]].token # d
        /\ \A y \in Owners : tomb[y].token = d => TombOf(y) # Order[d][i]
    BY <1>1, StandingStep DEF OnceInv, LeaseInv
  <2> QED
    BY <1>1, <1>2, <2>1, Leases
<1>6. LegacyInv'
  BY <1>1, LegacyLeaves, Leases DEF LegacyInv, LeaseInv
<1>7. SeenInv'
  <2> SUFFICES ASSUME NEW d \in Calls, seen'[d] # Nobody
               PROVE  /\ record[File(d)].token = seen[d] => Evictable(d, record[File(d)])
                      /\ \A y \in Owners : tomb'[y].token = seen[d] /\ TombOf(y) = File(d)
                                             => Evictable(d, tomb'[y])
    BY <1>1, <1>2, <1>3 DEF SeenInv, Evictable, Early
  <2>1. seen'[d] = seen[d] /\ seen[d] \in Owners
    BY <1>1 DEF TypeOK
  <2>2. /\ record[File(d)].token = seen[d] => Evictable(d, record[File(d)])
        /\ \A y \in Owners : tomb[y].token = seen[d] /\ TombOf(y) = File(d) => Evictable(d, tomb[y])
    BY <2>1 DEF SeenInv, LeaseInv
  <2> QED
    BY <1>1, <2>1, <2>2, Leases
<1> QED
  BY <1>4, <1>5, <1>6, <1>7 DEF LeaseInv

LEMMA LegacyTakeKept ==
  ASSUME TypeOK, LeaseInv, LegacyTake
  PROVE  LeaseInv'
<1>1. /\ \A g \in Files : record'[g] = IF g = LegacyFile THEN NewLease(legacy) ELSE record[g]
      /\ at' = at /\ tomb' = tomb /\ seen' = seen /\ [Next]_vars /\ NewLease(legacy).token = legacy
      /\ pc[legacy] = "out" /\ pc'[legacy] = "in"
  BY Leases DEF LegacyTake, TypeOK, Next, Legacy, NewLease, Go
<1>2. \A y \in Owners : TombOf(y)' = TombOf(y)
  BY <1>1 DEF TombOf, File
<1>3. \A d \in Calls : File(d)' = File(d) /\ File(d) \in Files
  BY <1>1, FileFacts DEF File
<1>4. (\A x \in Owners : tomb[x].token # legacy) /\ (\A d \in Calls : seen[d] # legacy)
  BY <1>1 DEF LegacyInv, LeaseInv
<1>5. UniqueInv'
  BY <1>1, <1>2, <1>4, Leases DEF UniqueInv, LeaseInv
<1>6. OnceInv'
  <2> SUFFICES ASSUME NEW d \in Calls, NEW i \in DOMAIN Order[d], Publishes(d, i)'
               PROVE  /\ record'[Order[d][i]].token # d
                      /\ \A y \in Owners : tomb'[y].token = d => TombOf(y)' # Order[d][i]
    BY DEF OnceInv
  <2>1. Order[d][i] \in Files
    BY OrderFacts
  <2> QED
    BY <1>1, <1>2, <2>1, StandingStep, Leases DEF OnceInv, LeaseInv
<1>7. LegacyInv'
  BY <1>1 DEF LegacyInv
<1>8. SeenInv'
  <2> SUFFICES ASSUME NEW d \in Calls, seen[d] # Nobody
               PROVE  /\ record'[File(d)].token = seen[d] => Evictable(d, record'[File(d)])
                      /\ \A y \in Owners : tomb[y].token = seen[d] /\ TombOf(y) = File(d)
                                             => Evictable(d, tomb[y])
    BY <1>1, <1>2, <1>3 DEF SeenInv, Evictable, Early
  <2> QED
    BY <1>1, <1>3, <1>4 DEF SeenInv, LeaseInv
<1> QED
  BY <1>5, <1>6, <1>7, <1>8 DEF LeaseInv

(* A call's own steps that move a lease aside or put it back.              *)
LEMMA HandlingKept ==
  ASSUME TypeOK, MovedInv, LeaseInv, NEW c \in Calls,
         Evict(c) \/ Judge(c) \/ MoveAside(c) \/ Drop(c)
  PROVE  LeaseInv'
<1>1. /\ [Next]_vars /\ at' = at /\ File(c) \in Files /\ c \in Owners /\ TombOf(c) = File(c)
      /\ \A y \in Owners : TombOf(y) \in Files
  BY FileFacts, Leases DEF Evict, Judge, MoveAside, Drop, TombOf, Next, Step, Acquire, Unlock
<1>2. ASSUME seen' = seen, tomb' = [tomb EXCEPT ![c] = record[File(c)]],
             record' = [record EXCEPT ![File(c)] = NoRecord], pc[c] \in {"evict", "release"}
      PROVE  LeaseInv'
  <2>1. tomb[c] = NoRecord
    BY <1>2 DEF MovedInv
  <2>2. \A y \in Owners : tomb'[y] = IF y = c THEN record[TombOf(c)] ELSE tomb[y]
    BY <1>1, <1>2 DEF TypeOK
  <2>3. \A g \in Files : record'[g] = IF g = TombOf(c) THEN NoRecord ELSE record[g]
    BY <1>1, <1>2 DEF TypeOK
  <2> QED
    BY <1>1, <1>2, <2>1, <2>2, <2>3, AsideKept DEF LeaseInv
<1>3. ASSUME \A d \in Calls : seen'[d] \in {seen[d], Nobody},
             tomb' = [tomb EXCEPT ![c] = NoRecord],
             record' = record \/ Restore(File(c), tomb[c])
      PROVE  LeaseInv'
  <2>1. \A y \in Owners : tomb'[y] = IF y = c THEN NoRecord ELSE tomb[y]
    BY <1>3 DEF TypeOK
  <2>2. \A g \in Files : record'[g] = record[g] \/ (g = TombOf(c) /\ record'[g] = tomb[c])
    BY <1>1, <1>3 DEF TypeOK, Restore
  <2> QED
    BY <1>1, <1>3, <2>1, <2>2, BackKept DEF LeaseInv
<1>4. CASE Evict(c)
  <2>1. CASE UNCHANGED <<tomb, record>> /\ seen' = [seen EXCEPT ![c] = Nobody]
    <3>1. pc[c] = "evict"
      BY <1>4 DEF Evict
    <3>2. tomb[c] = NoRecord /\ \A y \in Owners : tomb'[y] = IF y = c THEN NoRecord ELSE tomb[y]
      BY <2>1, <3>1 DEF MovedInv
    <3>3. \A d \in Calls : seen'[d] \in {seen[d], Nobody}
      BY <2>1 DEF TypeOK
    <3>4. \A g \in Files : record'[g] = record[g] \/ (g = TombOf(c) /\ record'[g] = tomb[c])
      BY <2>1
    <3> QED
      BY <1>1, <3>2, <3>3, <3>4, BackKept DEF LeaseInv
  <2> QED
    BY <1>2, <1>4, <2>1 DEF Evict
<1>5. CASE Judge(c)
  <2>1. \A d \in Calls : seen'[d] \in {seen[d], Nobody}
    BY <1>5 DEF Judge, TypeOK
  <2> QED
    BY <1>3, <1>5, <2>1 DEF Judge
<1>6. CASE MoveAside(c)
  BY <1>2, <1>6 DEF MoveAside
<1>7. CASE Drop(c)
  BY <1>3, <1>7 DEF Drop
<1> QED
  BY <1>4, <1>5, <1>6, <1>7

LEMMA LegacyKept ==
  ASSUME TypeOK, MovedInv, LeaseInv, LegacyMoveAside \/ LegacyDrop
  PROVE  LeaseInv'
<1>1. /\ [Next]_vars /\ at' = at /\ seen' = seen /\ LegacyFile \in Files /\ legacy \in Owners
      /\ TombOf(legacy) = LegacyFile
  BY Leases, ConstantsAssumption DEF LegacyMoveAside, LegacyDrop, Legacy, TombOf, Next
<1>2. CASE LegacyMoveAside
  <2>1. tomb[legacy] = NoRecord
    BY <1>2 DEF LegacyMoveAside, MovedInv
  <2>2. \A y \in Owners : tomb'[y] = IF y = legacy THEN record[TombOf(legacy)] ELSE tomb[y]
    BY <1>1, <1>2 DEF LegacyMoveAside, TypeOK
  <2>3. \A g \in Files : record'[g] = IF g = TombOf(legacy) THEN NoRecord ELSE record[g]
    BY <1>1, <1>2 DEF LegacyMoveAside, TypeOK
  <2> QED
    BY <1>1, <2>1, <2>2, <2>3, AsideKept DEF LeaseInv
<1>3. CASE LegacyDrop
  <2>1. \A y \in Owners : tomb'[y] = IF y = legacy THEN NoRecord ELSE tomb[y]
    BY <1>3 DEF LegacyDrop, TypeOK
  <2>2. \A g \in Files : record'[g] = record[g] \/ (g = TombOf(legacy) /\ record'[g] = tomb[legacy])
    BY <1>1, <1>3 DEF LegacyDrop, TypeOK, Restore
  <2> QED
    BY <1>1, <2>1, <2>2, BackKept DEF LeaseInv
<1> QED
  BY <1>2, <1>3

LEMMA LeaseStep ==
  ASSUME TypeOK, GuardInv, MovedInv, LeaseInv, [Next]_vars
  PROVE  LeaseInv'
<1>1. ASSUME NEW c \in Calls,
             Enqueue(c) \/ Turn(c) \/ TakePrivate(c) \/ TakeShared(c) \/ Fence(c) \/ Write(c)
             \/ Cancel(c) \/ Free(c)
      PROVE  LeaseInv'
  <2>1. UNCHANGED <<record, tomb, seen>> /\ (Step(c) \/ Cancel(c))
        /\ pc[c] \notin {"evict", "judge", "drop"}
    BY <1>1 DEF Enqueue, Turn, TakePrivate, TakeShared, Fence, Write, Cancel, Free,
       Step, Acquire, Operate, Unlock
  <2>2. tomb[c] = NoRecord /\ seen[c] = Nobody
    BY <2>1 DEF MovedInv
  <2> QED
    BY <2>1, <2>2, LeasesStand, OthersStand
<1>2. ASSUME UNCHANGED <<record, tomb, seen, at>>
      PROVE  LeaseInv'
  <2>1. \A y \in Owners : TombOf(y)' = TombOf(y)
    BY <1>2 DEF TombOf, File
  <2>2. \A d \in Calls : File(d)' = File(d)
    BY <1>2 DEF File
  <2>3. UniqueInv' /\ SeenInv'
    BY <1>2, <2>1, <2>2 DEF UniqueInv, SeenInv, LeaseInv, Evictable, Early
  <2>4. OnceInv'
    BY <1>2, <2>1, StandingStep DEF OnceInv, LeaseInv
  <2>5. LegacyInv'
    BY <1>2, LegacyLeaves DEF LegacyInv, LeaseInv
  <2> QED
    BY <2>3, <2>4, <2>5 DEF LeaseInv
<1>3. ASSUME NEW c \in Calls, Step(c) \/ Cancel(c) PROVE LeaseInv'
  BY <1>1, <1>3, PublishKept, ExamineKept, HandlingKept DEF Step, Acquire, Operate, Unlock
<1>4. CASE Outside
  BY <1>2, <1>4, RenewKept, LapseKept, CrashKept, LegacyTakeKept, LegacyKept
     DEF Outside, Legacy, RenewRead, vars
<1> QED
  BY <1>3, <1>4 DEF Next, Outside

LEMMA MovedKept ==
  ASSUME TypeOK, MovedInv, [Next]_vars
  PROVE  MovedInv'
<1>1. /\ pc \in [Owners -> Steps \cup {"out", "in"}] /\ tomb \in [Owners -> Records \cup {NoRecord}]
      /\ seen \in [Calls -> Owners \cup {Nobody}] /\ legacy \in Owners /\ Calls \subseteq Owners
      /\ legacy \notin Calls
  BY Leases DEF TypeOK
<1> DEFINE Aside(o) == tomb[o] # NoRecord => IF o = legacy THEN pc[legacy] = "drop"
                                             ELSE pc[o] \in {"judge", "drop"}
           Picked(d) == seen[d] # Nobody => pc[d] \in {"evict", "judge"}
<1>2. (\A o \in Owners : Aside(o)) /\ (\A d \in Calls : Picked(d))
  BY <1>1 DEF MovedInv, Owners
<1>3. ASSUME \A o \in Owners : Aside(o)', \A d \in Calls : Picked(d)'
      PROVE  MovedInv'
  BY <1>1, <1>3 DEF MovedInv
<1>4. ASSUME NEW c \in Calls, Step(c) \/ Cancel(c) PROVE MovedInv'
  <2>1. \A o \in Owners : o # c => pc'[o] = pc[o] /\ tomb'[o] = tomb[o]
    <3>1. \A o \in Owners : o # c => pc'[o] = pc[o]
      BY <1>4, OwnersStand
    <3>2. tomb' = tomb \/ tomb' = [tomb EXCEPT ![c] = record[File(c)]]
          \/ tomb' = [tomb EXCEPT ![c] = NoRecord]
      BY <1>4 DEF Step, Acquire, Operate, Unlock, Enqueue, Turn, TakePrivate, TakeShared,
         Publish, Examine, Evict, Judge, Fence, Write, MoveAside, Drop, Free, Cancel
    <3> QED
      BY <1>1, <3>1, <3>2
  <2>2. \A d \in Calls : d # c => seen'[d] = seen[d]
    <3>1. seen' = seen \/ seen' = [seen EXCEPT ![c] = record[File(c)].token]
          \/ seen' = [seen EXCEPT ![c] = Nobody]
      BY <1>4 DEF Step, Acquire, Operate, Unlock, Enqueue, Turn, TakePrivate, TakeShared,
         Publish, Examine, Evict, Judge, Fence, Write, MoveAside, Drop, Free, Cancel
    <3> QED
      BY <1>1, <3>1
  <2>3. Aside(c)' /\ Picked(c)'
    <3>1. c # legacy /\ c \in Owners /\ Aside(c) /\ Picked(c)
      BY <1>1, <1>2
    <3>2. CASE pc[c] \notin {"evict", "judge", "drop", "release"} /\ tomb' = tomb /\ seen' = seen
      BY <3>1, <3>2
    <3>3. CASE Examine(c)
      BY <1>1, <3>1, <3>3 DEF Examine, Go
    <3>4. CASE Evict(c)
      BY <1>1, <3>1, <3>4 DEF Evict, Go
    <3>5. CASE Judge(c)
      BY <1>1, <3>1, <3>5 DEF Judge, Go
    <3>6. CASE MoveAside(c)
      BY <1>1, <3>1, <3>6 DEF MoveAside, Go
    <3>7. CASE Drop(c)
      BY <1>1, <3>1, <3>7 DEF Drop, Go
    <3> QED
      BY <1>4, <3>2, <3>3, <3>4, <3>5, <3>6, <3>7
         DEF Step, Acquire, Operate, Unlock, Enqueue, Turn, TakePrivate, TakeShared,
             Publish, Fence, Write, Free, Cancel
  <2> QED
    BY <1>1, <1>2, <1>3, <2>1, <2>2, <2>3
<1>5. ASSUME NEW p \in Procs, Crash(p) PROVE MovedInv'
  BY <1>1, <1>2, <1>3, <1>5 DEF Crash
<1>6. CASE Legacy
  BY <1>1, <1>2, <1>3, <1>6 DEF Legacy, LegacyTake, LegacyMoveAside, LegacyDrop, Go
<1>7. ASSUME NEW o \in Owners, NEW f \in Files, RenewWrite(o, f) PROVE MovedInv'
  <2>1. \A x \in Owners : tomb'[x] # NoRecord => tomb[x] # NoRecord
    BY <1>7, Leases DEF RenewWrite, NewLease
  <2>2. \A d \in Calls : seen'[d] # Nobody => seen[d] # Nobody
    BY <1>7 DEF RenewWrite
  <2> QED
    BY <1>2, <1>3, <1>7, <2>1, <2>2 DEF RenewWrite
<1>8. ASSUME UNCHANGED <<pc, tomb, seen>> PROVE MovedInv'
  BY <1>8 DEF MovedInv
<1> QED
  BY <1>4, <1>5, <1>6, <1>7, <1>8 DEF Next, Lapse, RenewRead, vars

LEMMA InitLock == Init => LockInv
<1> SUFFICES ASSUME Init PROVE LockInv
  OBVIOUS
<1>1. TypeOK
  BY InitType
<1>2. \A c \in Calls : c \in Owners /\ c # legacy /\ c # Nobody /\ pc[c] = "start" /\ at[c] = 1
  BY ConstantsAssumption DEF Init, Owners
<1>3. \A c \in Calls : \A i \in DOMAIN Order[c] : i \in Int /\ i >= 1 /\ Order[c][i] \in Files
  BY OrderFacts
<1>4. \A c \in Calls : \A i \in DOMAIN Order[c] : ~Waits(c, i) /\ ~Passed(c, i) /\ ~Guards(c, i)
        /\ ~Shares(c, i) /\ ~Locks(c, i)
  BY <1>2, <1>3 DEF Waits, Passed, Guards, Shares, Locks
<1>5. \A p \in Procs, f \in Files : queue[p][f] = << >> /\ gone[p][f] = {}
  BY DEF Init
<1>6. WorkInv /\ GuardInv
  BY <1>2, <1>4 DEF WorkInv, GuardInv
<1>7. QueueInv
  <2>1. \A c \in Calls : ProcOf[c] \in Procs
    BY ConstantsAssumption
  <2> QED
    BY <1>3, <1>4, <1>5, <2>1 DEF QueueInv
<1>8. TurnsInOrder
  BY <1>5 DEF TurnsInOrder
<1>9. GuardsProtectTheLease
  BY <1>1, <1>4, HeldPlaces DEF Placed, GuardsProtectTheLease
<1>10. MovedInv
  BY Leases, <1>1 DEF Init, MovedInv, Owners
<1>11. /\ \A x \in Owners : tomb[x] = NoRecord
       /\ \A f \in Files : record[f] = NoRecord
       /\ \A c \in Calls : seen[c] = Nobody
  BY DEF Init
<1>12. UniqueInv /\ LegacyInv /\ SeenInv
  BY <1>1, <1>11, Leases DEF UniqueInv, LegacyInv, SeenInv
<1>13. OnceInv
  BY <1>1, <1>2, <1>3, <1>11, Leases DEF OnceInv
<1> QED
  BY <1>1, <1>6, <1>7, <1>8, <1>9, <1>10, <1>12, <1>13 DEF LockInv

(* The invariant of the locks: where a call stands decides its place in    *)
(* the queue, its guards and its lease, and every lease is one of a kind.  *)
THEOREM LockInvHolds == Spec => []LockInv
<1>1. LockInv /\ [Next]_vars => LockInv'
  <2> SUFFICES ASSUME LockInv, [Next]_vars PROVE LockInv'
    OBVIOUS
  <2>1. TypeOK' /\ WorkInv' /\ QueueInv' /\ TurnsInOrder'
    BY TypeStep, WorkKept, QueueKept, TurnsKept DEF LockInv
  <2>2. GuardInv' /\ GuardsProtectTheLease' /\ MovedInv'
    BY GuardKept, LeaseKept, MovedKept DEF LockInv
  <2>3. UniqueInv' /\ OnceInv' /\ LegacyInv' /\ SeenInv'
    BY LeaseStep DEF LockInv, LeaseInv
  <2> QED
    BY <2>1, <2>2, <2>3 DEF LockInv
<1> QED
  BY <1>1, InitLock, PTL DEF Spec

(* Every variable keeps its type, and every call names one of its paths.   *)
THEOREM TypesHold == Spec => []TypeOK
<1>1. LockInv => TypeOK
  BY DEF LockInv
<1> QED
  BY <1>1, LockInvHolds, PTL

(* A call that gives up its place in a queue lets nobody behind it past a  *)
(* call that holds the file.                                               *)
THEOREM TurnsAreTaken == Spec => []TurnsInOrder
<1>1. LockInv => TurnsInOrder
  BY DEF LockInv
<1> QED
  BY <1>1, LockInvHolds, PTL

(* While a call holds a lock its record stands, lapsed or not, unless the  *)
(* legacy server took the file.                                            *)
THEOREM LeasesAreProtected == Spec => []GuardsProtectTheLease
<1>1. LockInv => GuardsProtectTheLease
  BY DEF LockInv
<1> QED
  BY <1>1, LockInvHolds, PTL

(* No two calls replace one file at once, in any processes and accounts,   *)
(* whatever lapses, crashes and legacy servers do.                         *)
THEOREM WritersExclude == Spec => []OneWriter
<1>1. LockInv => OneWriter
  BY Separate DEF LockInv
<1> QED
  BY <1>1, LockInvHolds, PTL

(* A lease goes for good only with its owner, after it lapsed, or when an  *)
(* owner of this account that no longer holds the guard left it behind.    *)
THEOREM LeasesAreHonoured == Spec => LeaseHonoured
<1> DEFINE Kept(c) ==
      tomb[c] # NoRecord /\ tomb'[c] = NoRecord /\ pc'[c] # "dead" =>
        \/ tomb[c].token = c
        \/ Early(c, tomb[c]) /\ File(c) \notin Locked(tomb[c].token)
        \/ ~tomb[c].fresh
        \/ record'[File(c)] # NoRecord
<1>1. ASSUME LockInv, [Next]_vars, NEW c \in Calls PROVE Kept(c)
  <2> SUFFICES ASSUME tomb[c] # NoRecord, tomb'[c] = NoRecord, pc'[c] # "dead",
                      tomb[c].token # c, tomb[c].fresh, record'[File(c)] = NoRecord
               PROVE  Early(c, tomb[c]) /\ File(c) \notin Locked(tomb[c].token)
    OBVIOUS
  <2>0. TypeOK /\ MovedInv /\ GuardInv /\ SeenInv
    BY <1>1 DEF LockInv
  <2>1. /\ TypeOK /\ c \in Owners /\ c # legacy /\ File(c) \in Files /\ TombOf(c) = File(c)
        /\ tomb[c].token \in Owners /\ Nobody \notin Owners
    BY <2>0, FileFacts, Leases DEF TombOf
  <2>2. Judge(c) \/ Drop(c)
    <3>1. ASSUME NEW d \in Calls, Step(d) \/ Cancel(d), ~Judge(c), ~Drop(c) PROVE FALSE
      <4>1. pc[c] \in {"judge", "drop"}
        BY <2>0 DEF MovedInv
      <4>2. tomb'[c] = tomb[c]
        BY <2>1, <3>1, <4>1 DEF TypeOK, Step, Acquire, Operate, Unlock, Enqueue, Turn, TakePrivate,
           TakeShared, Publish, Examine, Evict, Judge, Fence, Write, MoveAside, Drop, Free, Cancel
      <4> QED
        BY <4>2
    <3>2. ASSUME NEW p \in Procs, Crash(p) PROVE FALSE
      BY <2>1, <3>2 DEF Crash, TypeOK
    <3>3. ASSUME NEW o \in Owners, NEW f \in Files, RenewWrite(o, f) PROVE FALSE
      BY <2>1, <3>3 DEF RenewWrite, NewLease, NoRecord
    <3>4. CASE Legacy
      BY <2>1, <3>4 DEF Legacy, LegacyTake, LegacyMoveAside, LegacyDrop, TypeOK
    <3> QED
      BY <1>1, <3>1, <3>2, <3>3, <3>4 DEF Next, RenewRead, Lapse, vars
  <2>3. ~Restore(File(c), tomb[c])
    BY <2>1 DEF Restore, TypeOK
  <2>4. Judge(c) /\ tomb[c].token = seen[c]
    BY <2>1, <2>2, <2>3 DEF Judge, Drop
  <2>5. Early(c, tomb[c])
    BY <2>0, <2>1, <2>4 DEF SeenInv, Evictable
  <2>6. File(c) \notin Locked(tomb[c].token)
    <3> DEFINE t == tomb[c].token
    <3>1. t \in Calls /\ Account(t) = Account(c)
      BY <2>5 DEF Early
    <3>2. private[Account(c)][File(c)] = c
      <4>1. Guards(c, at[c]) /\ at[c] \in DOMAIN Order[c]
        BY <2>1, <2>4, FileFacts DEF Judge, Guards, Shares
      <4> QED
        BY <2>0, <4>1 DEF GuardInv, File
    <3>3. ASSUME File(c) \in Locked(t) PROVE FALSE
      <4> HIDE DEF t
      <4>1. PICK i \in DOMAIN Order[t] : File(c) = Order[t][i] /\ Locks(t, i)
        BY <2>1, <3>1, <3>3, HeldPlaces DEF Placed
      <4>2. private[Account(t)][File(c)] = t
        BY <2>0, <3>1, <4>1 DEF GuardInv, Guards, Shares
      <4> QED
        BY <3>1, <3>2, <4>2 DEF t
    <3> QED
      BY <3>3
  <2> QED
    BY <2>5, <2>6
<1>2. LockInv /\ [Next]_vars => [\A c \in Calls : Kept(c)]_vars
  BY <1>1
<1> QED
  BY <1>2, LockInvHolds, PTL DEF Spec, LeaseHonoured
=============================================================================
