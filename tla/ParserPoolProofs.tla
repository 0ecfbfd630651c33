-------------------------- MODULE ParserPoolProofs --------------------------
(***************************************************************************)
(* Proofs about ParserPool (src/src/intelligence/parser/pool.ts), for any  *)
(* number of jobs and close() calls and any limits.                        *)
(*                                                                         *)
(* The handlers are compositions of the pool's private methods, so most of *)
(* the work is a lemma per method: from a sound pool it makes a sound one  *)
(* with no job added and no state reopened (After), and the methods that   *)
(* end a handler also leave no job waiting in vain (Full).  PoolInv joins  *)
(* that to the promises of jobs and to the progress of close() calls, and  *)
(* HandledFacts turns a result of the methods into its next state.         *)
(***************************************************************************)
EXTENDS ParserPool, FiniteSetTheorems, SequenceTheorems, WellFoundedInduction, TLAPS

(* A set of naturals has a smallest member.                                *)
LEMMA Smallest ==
  ASSUME NEW S \in SUBSET Nat, S # {}
  PROVE  \E m \in S : \A s \in S : m <= s
<1>1. \E m \in S : \A y \in S : ~(<<y, m>> \in OpToRel(<, Nat))
  BY NatLessThanWellFounded, WFMin
<1>2. PICK m \in S : \A y \in S : ~(y < m)
  BY <1>1 DEF OpToRel
<1>3. m \in Nat /\ \A y \in S : y \in Nat
  OBVIOUS
<1>4. \A y \in S : m <= y
  BY <1>2, <1>3
<1> QED
  BY <1>4

(* What remains up to a bound is never negative.                           *)
LEMMA MaxOfTwo == ASSUME NEW n \in Int PROVE Max({0, n}) = IF n > 0 THEN n ELSE 0
<1>1. \E x \in {0, n} : \A y \in {0, n} : x >= y
  OBVIOUS
<1>2. Max({0, n}) \in {0, n} /\ \A y \in {0, n} : Max({0, n}) >= y
  BY <1>1 DEF Max
<1> QED
  BY <1>2

(* Taking an element out of a sequence.                                    *)
LEMMA RemoveAtFacts ==
  ASSUME NEW S, NEW s \in Seq(S), NEW i \in 1..Len(s)
  PROVE  /\ RemoveAt(s, i) \in Seq(S) /\ Len(RemoveAt(s, i)) = Len(s) - 1
         /\ \A k \in 1..(Len(s) - 1) : RemoveAt(s, i)[k] = s[IF k < i THEN k ELSE k + 1]
<1> DEFINE a == SubSeq(s, 1, i - 1)  b == SubSeq(s, i + 1, Len(s))
<1>0. Len(s) \in Nat /\ i \in Nat /\ 1 <= i /\ i <= Len(s)
  OBVIOUS
<1>1. a \in Seq(S) /\ Len(a) = i - 1 /\ \A k \in 1..(i - 1) : a[k] = s[k]
  BY <1>0
<1>2. b \in Seq(S) /\ Len(b) = Len(s) - i /\ \A k \in 1..(Len(s) - i) : b[k] = s[i + k]
  BY <1>0
<1>3. RemoveAt(s, i) = a \o b
  BY DEF RemoveAt
<1> HIDE DEF a, b
<1>4. a \o b \in Seq(S) /\ Len(a \o b) = Len(s) - 1
  <2>1. a \o b \in Seq(S) /\ Len(a \o b) = Len(a) + Len(b)
    BY <1>1, <1>2, ConcatProperties
  <2> QED
    BY <1>0, <1>1, <1>2, <2>1
<1>5. \A k \in 1..(Len(s) - 1) : (a \o b)[k] = IF k < i THEN a[k] ELSE b[k - (i - 1)]
  BY <1>0, <1>1, <1>2
<1>6. \A k \in 1..(Len(s) - 1) : (a \o b)[k] = s[IF k < i THEN k ELSE k + 1]
  <2> TAKE k \in 1..(Len(s) - 1)
  <2>1. CASE k < i
    BY <1>0, <1>1, <1>5, <2>1
  <2>2. CASE ~(k < i)
    <3>1. k - (i - 1) \in 1..(Len(s) - i) /\ i + (k - (i - 1)) = k + 1
      BY <1>0, <2>2
    <3>2. b[k - (i - 1)] = s[k + 1]
      BY <1>2, <3>1
    <3> QED
      BY <1>5, <2>2, <3>2
  <2> QED
    BY <2>1, <2>2
<1> QED
  BY <1>3, <1>4, <1>6

(* A sequence without repetition loses one element at one place.           *)
LEMMA RemovedElement ==
  ASSUME NEW S, NEW s \in Seq(S), NEW i \in 1..Len(s), IsInjective(s)
  PROVE  /\ IsInjective(RemoveAt(s, i))
         /\ ToSet(RemoveAt(s, i)) = ToSet(s) \ {s[i]}
<1> DEFINE r == RemoveAt(s, i)
<1>0. Len(s) \in Nat /\ i \in Nat /\ 1 <= i /\ i <= Len(s) /\ DOMAIN s = 1..Len(s)
  OBVIOUS
<1>1. /\ r \in Seq(S) /\ Len(r) = Len(s) - 1 /\ DOMAIN r = 1..(Len(s) - 1)
      /\ \A k \in 1..(Len(s) - 1) : r[k] = s[IF k < i THEN k ELSE k + 1]
  <2>1. /\ r \in Seq(S) /\ Len(r) = Len(s) - 1
        /\ \A k \in 1..(Len(s) - 1) : r[k] = s[IF k < i THEN k ELSE k + 1]
    BY RemoveAtFacts
  <2> HIDE DEF r
  <2> QED
    BY <2>1
<1>2. \A h, k \in 1..Len(s) : s[h] = s[k] => h = k
  BY <1>0 DEF IsInjective
<1> HIDE DEF r
<1>3. \A h, k \in 1..(Len(s) - 1) : r[h] = r[k] => h = k
  <2> TAKE h, k \in 1..(Len(s) - 1)
  <2> DEFINE H == IF h < i THEN h ELSE h + 1  K == IF k < i THEN k ELSE k + 1
  <2>1. H \in 1..Len(s) /\ K \in 1..Len(s) /\ (H = K => h = k)
    BY <1>0
  <2> QED
    BY <1>1, <1>2, <2>1
<1>4. IsInjective(r)
  BY <1>1, <1>3 DEF IsInjective
<1>5. ASSUME NEW k \in 1..(Len(s) - 1) PROVE r[k] \in ToSet(s) \ {s[i]}
  <2> DEFINE K == IF k < i THEN k ELSE k + 1
  <2>1. K \in 1..Len(s) /\ K # i
    BY <1>0
  <2>2. r[k] = s[K] /\ s[K] # s[i]
    BY <1>1, <1>2, <2>1
  <2> QED
    BY <1>0, <2>1, <2>2 DEF ToSet
<1>6. ASSUME NEW h \in 1..Len(s), h # i PROVE s[h] \in ToSet(r)
  <2> DEFINE k == IF h < i THEN h ELSE h - 1
  <2>1. k \in 1..(Len(s) - 1) /\ h = IF k < i THEN k ELSE k + 1
    BY <1>0, <1>6
  <2>2. r[k] = s[h]
    BY <1>1, <2>1
  <2> QED
    BY <1>1, <2>1, <2>2 DEF ToSet
<1>7. ToSet(r) = ToSet(s) \ {s[i]}
  <2>1. ToSet(r) \subseteq ToSet(s) \ {s[i]}
    BY <1>1, <1>5 DEF ToSet
  <2>2. \A e \in ToSet(s) : e # s[i] => e \in ToSet(r)
    BY <1>0, <1>6 DEF ToSet
  <2> QED
    BY <2>1, <2>2
<1> QED
  BY <1>4, <1>7 DEF r

(* Taking the first occurrence of an element out of such a sequence.       *)
LEMMA RemoveFirstFacts ==
  ASSUME NEW S, NEW s \in Seq(S), NEW e, IsInjective(s)
  PROVE  LET r == RemoveFirst(s, e)
         IN /\ r \in Seq(S) /\ IsInjective(r) /\ ToSet(r) = ToSet(s) \ {e}
            /\ Len(r) = IF e \in ToSet(s) THEN Len(s) - 1 ELSE Len(s)
<1>1. CASE \E i \in 1..Len(s) : s[i] = e
  <2> DEFINE I == {i \in 1..Len(s) : s[i] = e}
  <2>1. I \in SUBSET Nat /\ I # {}
    BY <1>1
  <2>2. \E m \in I : \A k \in I : m <= k
    <3> HIDE DEF I
    <3> QED
      BY <2>1, Smallest
  <2>3. Min(I) \in I
    <3> HIDE DEF I
    <3> QED
      BY <2>2 DEF Min
  <2>4. RemoveFirst(s, e) = RemoveAt(s, Min(I))
    BY <1>1 DEF RemoveFirst, SelectInSeq
  <2>5. PICK i \in 1..Len(s) : s[i] = e /\ RemoveFirst(s, e) = RemoveAt(s, i)
    BY <2>3, <2>4
  <2>6. e \in ToSet(s)
    BY <2>5 DEF ToSet
  <2> QED
    BY <2>5, <2>6, RemoveAtFacts, RemovedElement
<1>2. CASE ~ \E i \in 1..Len(s) : s[i] = e
  <2>1. RemoveFirst(s, e) = s
    BY <1>2 DEF RemoveFirst
  <2>2. e \notin ToSet(s)
    BY <1>2 DEF ToSet
  <2> QED
    BY <2>1, <2>2
<1> QED
  BY <1>1, <1>2

(* Adding an element at the end.                                           *)
LEMMA AppendFacts ==
  ASSUME NEW S, NEW s \in Seq(S), NEW e \in S
  PROVE  /\ Len(Append(s, e)) = Len(s) + 1 /\ ToSet(Append(s, e)) = ToSet(s) \cup {e}
         /\ IsInjective(s) /\ e \notin ToSet(s) => IsInjective(Append(s, e))
<1> DEFINE a == Append(s, e)  n == Len(s)
<1>1. n \in Nat /\ DOMAIN s = 1..n /\ Len(a) = n + 1 /\ DOMAIN a = 1..(n + 1)
  OBVIOUS
<1>2. a[n + 1] = e /\ \A k \in 1..n : a[k] = s[k]
  OBVIOUS
<1> HIDE DEF a, n
<1>3. \A k \in 1..(n + 1) : k \in 1..n \/ k = n + 1
  BY <1>1
<1>4. 1..n \subseteq 1..(n + 1) /\ n + 1 \in 1..(n + 1)
  BY <1>1
<1>5. ToSet(a) = ToSet(s) \cup {e}
  BY <1>1, <1>2, <1>3, <1>4 DEF ToSet
<1>6. ASSUME IsInjective(s), e \notin ToSet(s) PROVE IsInjective(a)
  <2>1. \A k \in 1..n : a[k] # e
    BY <1>1, <1>2, <1>6 DEF ToSet
  <2>2. \A k, l \in 1..n : a[k] = a[l] => k = l
    BY <1>1, <1>2, <1>6 DEF IsInjective
  <2>3. \A k, l \in 1..(n + 1) : a[k] = a[l] => k = l
    BY <1>2, <1>3, <2>1, <2>2
  <2> QED
    BY <1>1, <2>3 DEF IsInjective
<1> QED
  BY <1>1, <1>5, <1>6 DEF a, n

(* Contains is membership in the set of elements.                          *)
LEMMA ContainsFacts == ASSUME NEW S, NEW s \in Seq(S), NEW e PROVE Contains(s, e) <=> e \in ToSet(s)
  BY DEF Contains, ToSet

(* The elements of a sequence are finitely many, and as many as its places *)
(* when none is repeated.                                                  *)
LEMMA CountElements ==
  ASSUME NEW S, NEW s \in Seq(S)
  PROVE  /\ IsFiniteSet(ToSet(s))
         /\ IsInjective(s) => Cardinality(ToSet(s)) = Len(s)
<1>0. Len(s) \in Nat /\ DOMAIN s = 1..Len(s)
  OBVIOUS
<1>1. IsFiniteSet(1..Len(s)) /\ Cardinality(1..Len(s)) = Len(s) /\ DOMAIN s = 1..Len(s)
  BY <1>0, FS_Interval
<1>2. s \in Surjection(1..Len(s), ToSet(s))
  BY <1>1 DEF Surjection, ToSet
<1>3. IsInjective(s) => s \in Injection(1..Len(s), ToSet(s))
  BY <1>1, <1>2 DEF Injection, Surjection, IsInjective
<1> QED
  BY <1>1, <1>2, <1>3, FS_Surjection

(* Every job has a size.                                                   *)
LEMMA BytesFacts == \A j \in Job : Bytes[j] \in Nat \ {0}
  BY PoolAssumption DEF Bytes

(* The bytes of one more job.                                              *)
LEMMA SumFacts ==
  ASSUME NEW S, IsFiniteSet(S)
  PROVE  /\ SumBytes(S) \in Nat
         /\ SumBytes({}) = 0
         /\ \A j \in Job \ S : SumBytes(S \cup {j}) = SumBytes(S) + Bytes[j]
<1> DEFINE small(T) == Cardinality(T \ Large)  large(T) == Cardinality(T \cap Large)
<1>0. LargeBytes \in Nat /\ \A j \in Job : Bytes[j] = IF j \in Large THEN LargeBytes ELSE 1
  BY PoolAssumption DEF Bytes
<1>1. /\ IsFiniteSet(S \ Large) /\ IsFiniteSet(S \cap Large)
      /\ small(S) \in Nat /\ large(S) \in Nat
  BY FS_Subset, FS_CardinalityType
<1>2. small({}) = 0 /\ large({}) = 0
  <2>1. {} \ Large = {} /\ {} \cap Large = {}
    OBVIOUS
  <2> QED
    BY <2>1, FS_EmptySet
<1>3. \A j \in Job \ S :
        /\ j \in Large => small(S \cup {j}) = small(S) /\ large(S \cup {j}) = large(S) + 1
        /\ j \notin Large => small(S \cup {j}) = small(S) + 1 /\ large(S \cup {j}) = large(S)
  <2> TAKE j \in Job \ S
  <2>1. ASSUME j \in Large
        PROVE  small(S \cup {j}) = small(S) /\ large(S \cup {j}) = large(S) + 1
    <3>1. (S \cup {j}) \ Large = S \ Large /\ (S \cup {j}) \cap Large = (S \cap Large) \cup {j}
      BY <2>1
    <3>2. j \notin S \cap Large
      OBVIOUS
    <3> QED
      BY <1>1, <3>1, <3>2, FS_AddElement
  <2>2. ASSUME j \notin Large
        PROVE  small(S \cup {j}) = small(S) + 1 /\ large(S \cup {j}) = large(S)
    <3>1. (S \cup {j}) \cap Large = S \cap Large /\ (S \cup {j}) \ Large = (S \ Large) \cup {j}
      BY <2>2
    <3>2. j \notin S \ Large
      OBVIOUS
    <3> QED
      BY <1>1, <3>1, <3>2, FS_AddElement
  <2> QED
    BY <2>1, <2>2
<1>4. \A T : SumBytes(T) = small(T) + LargeBytes * large(T)
  BY DEF SumBytes
<1> HIDE DEF small, large
<1>5. LargeBytes * large(S) \in Nat /\ LargeBytes * 0 = 0
  BY <1>0, <1>1
<1>6. \A n \in Nat : LargeBytes * (n + 1) = LargeBytes * n + LargeBytes
  BY <1>0
<1>7. ASSUME NEW j \in Job \ S PROVE SumBytes(S \cup {j}) = SumBytes(S) + Bytes[j]
  <2>1. CASE j \in Large
    <3>1. SumBytes(S \cup {j}) = small(S) + (LargeBytes * large(S) + LargeBytes)
      BY <1>1, <1>3, <1>4, <1>6, <2>1
    <3> QED
      BY <1>0, <1>1, <1>4, <1>5, <2>1, <3>1
  <2>2. CASE j \notin Large
    <3>1. SumBytes(S \cup {j}) = (small(S) + 1) + LargeBytes * large(S)
      BY <1>3, <1>4, <2>2
    <3>2. SumBytes(S) = small(S) + LargeBytes * large(S) /\ Bytes[j] = 1
      BY <1>0, <1>4, <2>2
    <3> QED
      BY <1>1, <1>5, <3>1, <3>2
  <2> QED
    BY <2>1, <2>2
<1> QED
  BY <1>1, <1>2, <1>4, <1>5, <1>7

(* What the fields of a pool hold.                                         *)
Fields == [state : {"open", "closing", "closed"}, workers : Seq(Slot), retiring : Nat, stuck : Nat,
           pending : Seq(Job), jobs : Seq(Job), out : Int, woken : BOOLEAN]

(* The map of jobs and the bytes it reserves.                              *)
Booked(p) ==
  /\ IsInjective(p.jobs) /\ Len(p.jobs) <= QueueLimit
  /\ p.out = SumBytes(ToSet(p.jobs)) /\ p.out <= MaxBytes

(* A set of jobs of which each waits or runs, and no other does.           *)
Placed(p, J) ==
  /\ IsInjective(p.pending) /\ ToSet(p.pending) \subseteq J
  /\ J \subseteq ToSet(p.pending) \cup Running(p)
  /\ \A i \in DOMAIN p.workers :
       p.workers[i].job # Idle =>
         p.workers[i].ready /\ p.workers[i].job \in J /\ p.workers[i].job \notin ToSet(p.pending)
  /\ \A i, h \in DOMAIN p.workers :
       p.workers[i].job = p.workers[h].job /\ i # h => p.workers[i].job = Idle

(* Between two methods of a handler a job may be booked that has no place. *)
Within(p) ==
  /\ p \in Fields /\ Live(p) <= MaxWorkers
  /\ p.state = "closed" => p.workers = <<>> /\ p.jobs = <<>>
  /\ p.woken => p.state # "open" /\ p.jobs = <<>>
  /\ Booked(p)

Sound(p) == Within(p) /\ Placed(p, ToSet(p.jobs))

Full(p) == p.pending # <<>> => IdleSlots(p) = {} /\ Live(p) = MaxWorkers

(* What a method may do to a pool that is sound.                           *)
After(q, p) ==
  Sound(q) /\ ToSet(q.jobs) \subseteq ToSet(p.jobs) /\ q.state \in {p.state, "closed"}

(* The types of the fields of a pool, one by one.                          *)
LEMMA FieldFacts ==
  ASSUME NEW p \in Fields
  PROVE  /\ p.state \in {"open", "closing", "closed"} /\ p.workers \in Seq(Slot)
         /\ p.retiring \in Nat /\ p.stuck \in Nat /\ p.pending \in Seq(Job) /\ p.jobs \in Seq(Job)
         /\ p.out \in Int /\ Live(p) \in Nat /\ Len(p.workers) \in Nat
         /\ DOMAIN p.workers = 1..Len(p.workers)
  BY DEF Fields, Live

(* Only the empty sequence has no element.                                 *)
LEMMA EmptySet == \A S : \A s \in Seq(S) : ToSet(s) = {} <=> s = <<>>
  BY DEF ToSet

(* #forget takes one booked job and its bytes out of the map.              *)
LEMMA ForgetFacts ==
  ASSUME NEW p \in Fields, Booked(p), NEW j \in ToSet(p.jobs)
  PROVE  LET q == Forget(p, j)
         IN /\ q \in Fields /\ Booked(q) /\ ToSet(q.jobs) = ToSet(p.jobs) \ {j}
            /\ q.state = p.state /\ q.workers = p.workers /\ q.pending = p.pending
            /\ q.retiring = p.retiring /\ q.stuck = p.stuck /\ q.woken = p.woken
<1> DEFINE q == Forget(p, j)  J == ToSet(p.jobs)
<1>1. /\ p.jobs \in Seq(Job) /\ IsInjective(p.jobs)
      /\ Len(p.jobs) <= QueueLimit /\ QueueLimit \in Nat
      /\ p.out = SumBytes(J) /\ p.out <= MaxBytes /\ MaxBytes \in Nat /\ p.out \in Int
  BY FieldFacts, PoolAssumption DEF Booked
<1>2. j \in Job /\ Bytes[j] \in Nat \ {0}
  BY <1>1, BytesFacts DEF ToSet
<1>3. /\ RemoveFirst(p.jobs, j) \in Seq(Job) /\ IsInjective(RemoveFirst(p.jobs, j))
      /\ ToSet(RemoveFirst(p.jobs, j)) = J \ {j} /\ Len(RemoveFirst(p.jobs, j)) = Len(p.jobs) - 1
  BY <1>1, RemoveFirstFacts
<1>4. /\ q.jobs = RemoveFirst(p.jobs, j) /\ q.out = p.out - Bytes[j]
      /\ q.state = p.state /\ q.workers = p.workers /\ q.pending = p.pending
      /\ q.retiring = p.retiring /\ q.stuck = p.stuck /\ q.woken = p.woken
  BY DEF Forget, Fields
<1>5. q \in Fields
  <2> DEFINE r == RemoveFirst(p.jobs, j)  o == p.out - Bytes[j]
  <2>1. q = [p EXCEPT !.jobs = r, !.out = o]
    BY DEF Forget, Fields
  <2>2. r \in Seq(Job) /\ o \in Int
    BY <1>1, <1>2, <1>3
  <2> HIDE DEF q, r, o
  <2> QED
    BY <2>1, <2>2 DEF Fields
<1>6. SumBytes(J) = SumBytes(J \ {j}) + Bytes[j] /\ SumBytes(J \ {j}) \in Nat
  <2>1. IsFiniteSet(J \ {j})
    BY <1>1, CountElements, FS_RemoveElement
  <2>2. (J \ {j}) \cup {j} = J /\ j \in Job \ (J \ {j})
    BY <1>2
  <2> QED
    BY <2>1, <2>2, SumFacts
<1>7. q.out = SumBytes(ToSet(q.jobs)) /\ q.out <= MaxBytes
  <2>1. q.out = SumBytes(J) - Bytes[j] /\ ToSet(q.jobs) = J \ {j} /\ SumBytes(J) <= MaxBytes
    BY <1>1, <1>3, <1>4
  <2> HIDE DEF q, J
  <2> QED
    BY <1>1, <1>2, <1>6, <2>1
<1>8. Len(q.jobs) <= QueueLimit
  BY <1>1, <1>3, <1>4
<1> QED
  BY <1>3, <1>4, <1>5, <1>7, <1>8 DEF Booked

(* Where a set of jobs is placed depends on the workers and the queue.     *)
LEMMA PlacedFrame ==
  ASSUME NEW p, NEW q, NEW J, Placed(p, J), q.workers = p.workers, q.pending = p.pending
  PROVE  Placed(q, J)
  BY DEF Placed, Running

(* Without one worker all jobs but the one it ran keep their place.        *)
LEMMA RemoveWorkerFacts ==
  ASSUME NEW p \in Fields, NEW J \in SUBSET Job, Placed(p, J), NEW i \in DOMAIN p.workers
  PROVE  LET q == RemoveWorker(p, i)
         IN /\ q \in Fields /\ Live(q) = Live(p) /\ Placed(q, J \ {p.workers[i].job})
            /\ q.state = p.state /\ q.jobs = p.jobs /\ q.pending = p.pending
            /\ q.out = p.out /\ q.woken = p.woken
<1> DEFINE q == RemoveWorker(p, i)  w == p.workers  v == RemoveAt(p.workers, i)
<1>1. w \in Seq(Slot) /\ i \in 1..Len(w) /\ Len(w) \in Nat /\ DOMAIN w = 1..Len(w)
  BY FieldFacts
<1>2. /\ v \in Seq(Slot) /\ Len(v) = Len(w) - 1
      /\ \A k \in 1..(Len(w) - 1) : v[k] = w[IF k < i THEN k ELSE k + 1]
  BY <1>1, RemoveAtFacts
<1>3. /\ q.workers = v /\ q.retiring = p.retiring + 1 /\ q.stuck = p.stuck
      /\ q.state = p.state /\ q.jobs = p.jobs /\ q.pending = p.pending
      /\ q.out = p.out /\ q.woken = p.woken
  BY DEF RemoveWorker, Fields
<1>4. q \in Fields
  <2> DEFINE n == p.retiring + 1
  <2>1. q = [p EXCEPT !.workers = v, !.retiring = n] /\ n \in Nat
    BY FieldFacts DEF RemoveWorker, Fields
  <2> HIDE DEF q, v, n
  <2> QED
    BY <1>2, <2>1 DEF Fields
<1>5. Live(q) = Live(p)
  <2>1. Live(q) = (Len(w) - 1) + (p.retiring + 1) + p.stuck
    BY <1>2, <1>3 DEF Live
  <2>2. Live(p) = Len(w) + p.retiring + p.stuck
    BY DEF Live
  <2>3. p.retiring \in Nat /\ p.stuck \in Nat
    BY FieldFacts
  <2> HIDE DEF q, v, w
  <2> QED
    BY <1>1, <2>1, <2>2, <2>3
<1>6. DOMAIN v = 1..(Len(w) - 1)
  <2> HIDE DEF v
  <2> QED
    BY <1>2
<1> HIDE DEF v
<1>7. \A k \in DOMAIN v : \E h \in DOMAIN w : h # i /\ v[k] = w[h]
  <2> TAKE k \in DOMAIN v
  <2> DEFINE h == IF k < i THEN k ELSE k + 1
  <2>1. h \in DOMAIN w /\ h # i
    BY <1>1, <1>6
  <2>2. v[k] = w[h]
    BY <1>2, <1>6
  <2> QED
    BY <2>1, <2>2
<1>8. \A h \in DOMAIN w : h # i => \E k \in DOMAIN v : v[k] = w[h]
  <2> TAKE h \in DOMAIN w
  <2> HAVE h # i
  <2> DEFINE k == IF h < i THEN h ELSE h - 1
  <2>1. k \in 1..(Len(w) - 1) /\ h = IF k < i THEN k ELSE k + 1
    BY <1>1
  <2> QED
    BY <1>2, <1>6, <2>1
<1>9. \A k, l \in DOMAIN v : k # l => \E g, h \in DOMAIN w : g # h /\ v[k] = w[g] /\ v[l] = w[h]
  <2> TAKE k, l \in DOMAIN v
  <2> HAVE k # l
  <2> DEFINE g == IF k < i THEN k ELSE k + 1  h == IF l < i THEN l ELSE l + 1
  <2>1. g \in DOMAIN w /\ h \in DOMAIN w /\ g # h
    BY <1>1, <1>6
  <2> QED
    BY <1>2, <1>6, <2>1
<1>10. Placed(q, J \ {w[i].job})
  <2> HIDE DEF q, w
  <2>1. /\ IsInjective(p.pending) /\ ToSet(p.pending) \subseteq J
        /\ J \subseteq ToSet(p.pending) \cup Running(p)
        /\ \A k \in DOMAIN w : w[k].job # Idle =>
             w[k].ready /\ w[k].job \in J /\ w[k].job \notin ToSet(p.pending)
        /\ \A k, h \in DOMAIN w : w[k].job = w[h].job /\ k # h => w[k].job = Idle
    BY DEF Placed, w
  <2>2. Running(p) = {w[k].job : k \in DOMAIN w} \ {Idle}
    BY DEF Running, w
  <2>3. Running(q) = {v[k].job : k \in DOMAIN v} \ {Idle}
    BY <1>3 DEF Running
  <2>4. Idle \notin J /\ i \in DOMAIN w
    BY <1>1, PoolAssumption
  <2>5. ToSet(p.pending) \subseteq J \ {w[i].job}
    BY <2>1, <2>4
  <2>6. J \ {w[i].job} \subseteq ToSet(p.pending) \cup Running(q)
    <3> SUFFICES ASSUME NEW j \in J, j # w[i].job, j \notin ToSet(p.pending) PROVE j \in Running(q)
      OBVIOUS
    <3>1. PICK h \in DOMAIN w : w[h].job = j
      BY <2>1, <2>2
    <3>2. PICK k \in DOMAIN v : v[k] = w[h]
      BY <1>8, <3>1
    <3> QED
      BY <2>3, <2>4, <3>1, <3>2
  <2>7. \A k \in DOMAIN v : v[k].job # Idle =>
             v[k].ready /\ v[k].job \in J \ {w[i].job} /\ v[k].job \notin ToSet(p.pending)
    <3> TAKE k \in DOMAIN v
    <3> HAVE v[k].job # Idle
    <3>1. PICK h \in DOMAIN w : h # i /\ v[k] = w[h]
      BY <1>7
    <3>2. w[h].job # w[i].job
      BY <2>1, <2>4, <3>1
    <3> QED
      BY <2>1, <3>1, <3>2
  <2>8. \A k, l \in DOMAIN v : v[k].job = v[l].job /\ k # l => v[k].job = Idle
    <3> TAKE k, l \in DOMAIN v
    <3> HAVE v[k].job = v[l].job /\ k # l
    <3>1. PICK g, h \in DOMAIN w : g # h /\ v[k] = w[g] /\ v[l] = w[h]
      BY <1>9
    <3> QED
      BY <2>1, <3>1
  <2> QED
    BY <1>3, <2>1, <2>5, <2>6, <2>7, <2>8 DEF Placed
<1> QED
  BY <1>3, <1>4, <1>5, <1>10

(* Threads that are not ready have no job.                                 *)
LEMMA GrowFacts ==
  ASSUME NEW p \in Fields, NEW J, Placed(p, J), NEW n \in Nat
  PROVE  LET q == Grow(p, n)
         IN /\ q \in Fields /\ Live(q) = Live(p) + n /\ Placed(q, J)
            /\ IdleSlots(q) = IdleSlots(p) /\ Len(q.workers) = Len(p.workers) + n
            /\ q.state = p.state /\ q.jobs = p.jobs /\ q.pending = p.pending
            /\ q.out = p.out /\ q.woken = p.woken
<1> DEFINE new == [i \in 1 .. n |-> [ready |-> FALSE, job |-> Idle]]
           q == Grow(p, n)  w == p.workers  v == w \o new
<1>1. w \in Seq(Slot) /\ Len(w) \in Nat /\ DOMAIN w = 1..Len(w)
  BY FieldFacts
<1>2. new \in Seq(Slot) /\ Len(new) = n
  BY DEF Slot
<1>3. v \in Seq(Slot) /\ Len(v) = Len(w) + n
  <2> HIDE DEF new, w
  <2> QED
    BY <1>1, <1>2, ConcatProperties
<1>4. \A i \in 1..(Len(w) + n) : v[i] = IF i <= Len(w) THEN w[i] ELSE new[i - Len(w)]
  <2> HIDE DEF new, w
  <2> QED
    BY <1>1, <1>2, ConcatProperties
<1>5. \A i \in 1..(Len(w) + n) : i > Len(w) => v[i] = [ready |-> FALSE, job |-> Idle]
  <2> TAKE i \in 1..(Len(w) + n)
  <2> HAVE i > Len(w)
  <2>1. i - Len(w) \in 1..n
    BY <1>1
  <2>2. v[i] = new[i - Len(w)]
    BY <1>1, <1>4
  <2> QED
    BY <2>1, <2>2
<1>6. /\ q.workers = v /\ q.retiring = p.retiring /\ q.stuck = p.stuck
      /\ q.state = p.state /\ q.jobs = p.jobs /\ q.pending = p.pending
      /\ q.out = p.out /\ q.woken = p.woken
  BY DEF Grow, Fields
<1>7. q = [p EXCEPT !.workers = v]
  BY DEF Grow, Fields
<1> HIDE DEF q, v
<1>8. q \in Fields
  BY <1>3, <1>7 DEF Fields
<1>9. Live(q) = Live(p) + n
  <2>1. Live(q) = (Len(w) + n) + p.retiring + p.stuck
    BY <1>3, <1>6 DEF Live
  <2>2. Live(p) = Len(w) + p.retiring + p.stuck
    BY DEF Live
  <2> QED
    BY <1>1, <2>1, <2>2, FieldFacts
<1>10. DOMAIN v = 1..(Len(w) + n) /\ DOMAIN w \subseteq DOMAIN v
  BY <1>1, <1>3
<1>11. \A i \in DOMAIN v : IF i \in DOMAIN w THEN v[i] = w[i] ELSE ~v[i].ready /\ v[i].job = Idle
  BY <1>1, <1>4, <1>5, <1>10
<1>12. IdleSlots(q) = IdleSlots(p)
  <2> HIDE DEF w
  <2>1. IdleSlots(q) = {i \in DOMAIN v : v[i].ready /\ v[i].job = Idle}
    BY <1>6 DEF IdleSlots
  <2>2. IdleSlots(p) = {i \in DOMAIN w : w[i].ready /\ w[i].job = Idle}
    BY DEF IdleSlots, w
  <2>3. \A i \in DOMAIN v : v[i].ready /\ v[i].job = Idle <=>
                              i \in DOMAIN w /\ w[i].ready /\ w[i].job = Idle
    BY <1>11
  <2> QED
    BY <1>10, <2>1, <2>2, <2>3
<1>13. Placed(q, J)
  <2> HIDE DEF w
  <2>1. /\ IsInjective(p.pending) /\ ToSet(p.pending) \subseteq J
        /\ J \subseteq ToSet(p.pending) \cup Running(p)
        /\ \A k \in DOMAIN w : w[k].job # Idle =>
             w[k].ready /\ w[k].job \in J /\ w[k].job \notin ToSet(p.pending)
        /\ \A k, h \in DOMAIN w : w[k].job = w[h].job /\ k # h => w[k].job = Idle
    BY DEF Placed, w
  <2>2. Running(p) = {w[k].job : k \in DOMAIN w} \ {Idle}
    BY DEF Running, w
  <2>3. Running(q) = {v[k].job : k \in DOMAIN v} \ {Idle}
    BY <1>6 DEF Running
  <2>4. Running(p) \subseteq Running(q)
    BY <1>10, <1>11, <2>2, <2>3
  <2>5. \A k \in DOMAIN v : v[k].job # Idle => k \in DOMAIN w /\ v[k] = w[k]
    BY <1>11
  <2>6. \A k \in DOMAIN v : v[k].job # Idle =>
             v[k].ready /\ v[k].job \in J /\ v[k].job \notin ToSet(p.pending)
    BY <2>1, <2>5
  <2>7. \A k, h \in DOMAIN v : v[k].job = v[h].job /\ k # h => v[k].job = Idle
    BY <2>1, <2>5
  <2> QED
    BY <1>6, <2>1, <2>4, <2>6, <2>7 DEF Placed
<1> QED
  BY <1>3, <1>6, <1>8, <1>9, <1>12, <1>13 DEF q

(* Nothing is placed in a pool without queue and workers.                  *)
LEMMA NoJobs ==
  ASSUME NEW p, p.pending = <<>>, p.workers = <<>>
  PROVE  Placed(p, {})
<1>1. ToSet(p.pending) = {} /\ IsInjective(p.pending) /\ DOMAIN p.workers = {}
  BY DEF ToSet, IsInjective
<1> QED
  BY <1>1 DEF Placed

(* #terminateAll turns every worker into a retirement.                     *)
LEMMA TerminateAllFacts ==
  ASSUME NEW p \in Fields
  PROVE  LET q == TerminateAll(p)
         IN /\ q \in Fields /\ Live(q) = Live(p) /\ q.state = "closed" /\ q.workers = <<>>
            /\ q.pending = p.pending /\ q.jobs = p.jobs /\ q.out = p.out /\ q.woken
            /\ q.retiring = p.retiring + Len(p.workers) /\ q.stuck = p.stuck
<1> DEFINE q == TerminateAll(p)
<1>1. /\ q.state = "closed" /\ q.workers = <<>>
      /\ q.pending = p.pending /\ q.jobs = p.jobs /\ q.out = p.out
      /\ q.retiring = p.retiring + Len(p.workers) /\ q.stuck = p.stuck
  BY DEF TerminateAll, Fields
<1>2. q.woken
  BY DEF TerminateAll, Fields
<1>3. <<>> \in Seq(Slot) /\ Len(p.workers) \in Nat
  BY FieldFacts
<1>4. q \in Fields
  <2> DEFINE n == p.retiring + Len(p.workers)  none == <<>>
  <2>1. q = [p EXCEPT !.state = "closed", !.workers = none, !.retiring = n, !.woken = TRUE]
    BY DEF TerminateAll, Fields
  <2>2. n \in Nat /\ none \in Seq(Slot)
    BY <1>3, FieldFacts
  <2> HIDE DEF q, n, none
  <2> QED
    BY <2>1, <2>2 DEF Fields
<1>5. Live(q) = Live(p)
  BY <1>1, <1>3, FieldFacts DEF Live
<1> QED
  BY <1>1, <1>2, <1>4, <1>5

(* #failAll leaves a closed pool without jobs.                             *)
LEMMA FailAllFacts ==
  ASSUME NEW p \in Fields, Live(p) <= MaxWorkers
  PROVE  Sound(FailAll(p)) /\ FailAll(p).state = "closed" /\ FailAll(p).jobs = <<>>
<1> DEFINE b == [p EXCEPT !.jobs = <<>>, !.pending = <<>>, !.out = 0]  q == TerminateAll(b)
<1>1. b.jobs = <<>> /\ b.pending = <<>> /\ b.out = 0 /\ b.workers = p.workers
      /\ b.retiring = p.retiring /\ b.stuck = p.stuck
  BY DEF Fields
<1>2. <<>> \in Seq(Job) /\ ToSet(<<>>) = {} /\ Len(<<>>) = 0
  BY DEF ToSet
<1>3. b \in Fields
  <2> DEFINE none == <<>>
  <2>1. b = [p EXCEPT !.jobs = none, !.pending = none, !.out = 0] /\ none \in Seq(Job)
    OBVIOUS
  <2>2. 0 \in Int
    OBVIOUS
  <2> HIDE DEF b, none
  <2> QED
    BY <2>1, <2>2 DEF Fields
<1>4. Live(b) = Live(p)
  BY <1>1 DEF Live
<1> HIDE DEF b
<1>5. /\ q \in Fields /\ Live(q) = Live(b) /\ q.state = "closed" /\ q.workers = <<>>
      /\ q.pending = <<>> /\ q.jobs = <<>> /\ q.out = 0 /\ q.woken
  BY <1>1, <1>3, TerminateAllFacts
<1>6. FailAll(p) = q
  BY DEF FailAll, b
<1> HIDE DEF q
<1>7. Placed(q, ToSet(q.jobs))
  BY <1>2, <1>5, NoJobs
<1>8. Booked(q)
  <2>1. SumBytes({}) = 0
    BY FS_EmptySet, SumFacts
  <2>2. IsInjective(<<>>) /\ 0 <= QueueLimit /\ 0 <= MaxBytes
    BY PoolAssumption DEF IsInjective
  <2> QED
    BY <1>2, <1>5, <2>1, <2>2 DEF Booked
<1>9. Within(q)
  BY <1>4, <1>5, <1>8 DEF Within
<1> QED
  BY <1>5, <1>6, <1>7, <1>9 DEF Sound

(* The place of each of finitely many numbers among them.                  *)
Rank(I, i) == Cardinality({h \in I : h <= i})

(* Ranks number the members of a finite set of numbers from one on.        *)
LEMMA RankFacts ==
  ASSUME NEW I \in SUBSET Int, IsFiniteSet(I)
  PROVE  /\ Cardinality(I) \in Nat
         /\ \A i \in I : Rank(I, i) \in 1..Cardinality(I)
         /\ \A i, h \in I : Rank(I, i) = Rank(I, h) => i = h
         /\ \A k \in 1..Cardinality(I) : \E i \in I : Rank(I, i) = k
<1> DEFINE n == Cardinality(I)
           upTo(x) == {y \in I : y <= x}
           rank == [x \in I |-> Cardinality(upTo(x))]
<1>1. n \in Nat
  BY FS_CardinalityType
<1>2. \A x \in I : IsFiniteSet(upTo(x)) /\ Cardinality(upTo(x)) \in 1..n
  <2> TAKE x \in I
  <2>1. IsFiniteSet(upTo(x)) /\ Cardinality(upTo(x)) <= n /\ upTo(x) \subseteq I
    BY FS_Subset
  <2>2. x \in upTo(x)
    OBVIOUS
  <2>3. Cardinality(upTo(x)) # 0 /\ Cardinality(upTo(x)) \in Nat
    BY <2>1, <2>2, FS_EmptySet, FS_CardinalityType
  <2> QED
    BY <1>1, <2>1, <2>3
<1>3. \A x, y \in I : x < y => rank[x] < rank[y]
  <2> TAKE x, y \in I
  <2> HAVE x < y
  <2>0. x \in Int /\ y \in Int /\ \A z \in I : z \in Int
    OBVIOUS
  <2>1. (\A z \in I : z <= x => z <= y) /\ y <= y /\ ~(y <= x)
    BY <2>0
  <2>2. upTo(x) \subseteq upTo(y) /\ y \in upTo(y) /\ y \notin upTo(x)
    BY <2>1
  <2>3. Cardinality(upTo(x)) <= Cardinality(upTo(y)) /\ Cardinality(upTo(x)) # Cardinality(upTo(y))
    BY <1>2, <2>2, FS_Subset
  <2> QED
    BY <1>2, <2>3
<1>4. rank \in [I -> 1..n] /\ \A x \in I : rank[x] = Rank(I, x)
  BY <1>2 DEF Rank
<1> HIDE DEF rank
<1>5. \A x, y \in I : rank[x] = rank[y] => x = y
  <2> TAKE x, y \in I
  <2>1. rank[x] \in Int /\ rank[y] \in Int /\ x \in Int /\ y \in Int
    BY <1>1, <1>4
  <2>2. (x < y => rank[x] < rank[y]) /\ (y < x => rank[y] < rank[x])
    BY <1>3
  <2> QED
    BY <2>1, <2>2
<1>6. rank \in Surjection(I, 1..n)
  <2>1. rank \in Injection(I, 1..n)
    BY <1>4, <1>5 DEF Injection, IsInjective
  <2>2. IsFiniteSet(1..n) /\ Cardinality(1..n) = Cardinality(I)
    BY <1>1, FS_Interval
  <2> HIDE DEF n
  <2> QED
    BY <2>1, <2>2, FS_Injection
<1> QED
  BY <1>1, <1>4, <1>5, <1>6 DEF Surjection

(* As many of them as there is room for, the first ones.                   *)
LEMMA FirstRanks ==
  ASSUME NEW I \in SUBSET Int, IsFiniteSet(I), NEW m \in Nat
  PROVE  LET T == {i \in I : Rank(I, i) <= m}
         IN /\ Cardinality(T) = IF m <= Cardinality(I) THEN m ELSE Cardinality(I)
            /\ \A i \in I : i \in T <=> Rank(I, i) <= Cardinality(T)
<1> DEFINE T == {i \in I : Rank(I, i) <= m}  n == Cardinality(I)
           f == [i \in T |-> Rank(I, i)]
<1>1. /\ n \in Nat /\ \A i \in I : Rank(I, i) \in 1..n
      /\ \A i, h \in I : Rank(I, i) = Rank(I, h) => i = h
      /\ \A k \in 1..n : \E i \in I : Rank(I, i) = k
  BY RankFacts
<1>2. CASE n <= m
  <2>1. \A i \in I : Rank(I, i) \in Int /\ Rank(I, i) <= n /\ Rank(I, i) <= m
    BY <1>1, <1>2
  <2>2. T = I
    BY <2>1
  <2>3. Cardinality(T) = n /\ n = IF m <= n THEN m ELSE n
    BY <1>1, <1>2, <2>2
  <2> HIDE DEF n
  <2> QED
    BY <2>1, <2>2, <2>3 DEF n
<1>3. CASE ~(n <= m)
  <2>1. m < n
    BY <1>1, <1>3
  <2>2. \A i \in T : Rank(I, i) \in 1..m
    BY <1>1
  <2>3. \A k \in 1..m : \E i \in T : f[i] = k
    <3> TAKE k \in 1..m
    <3>1. PICK i \in I : Rank(I, i) = k
      BY <1>1, <2>1
    <3>2. i \in T
      BY <3>1
    <3> QED
      BY <3>1, <3>2
  <2>4. f \in [T -> 1..m] /\ \A i \in T : i \in I /\ f[i] = Rank(I, i)
    BY <2>2
  <2>5. IsFiniteSet(T)
    BY FS_Subset
  <2> HIDE DEF T, f, n
  <2>6. f \in Surjection(T, 1..m)
    BY <2>3, <2>4 DEF Surjection
  <2>9. f \in Injection(T, 1..m)
    <3>1. \A i, h \in T : f[i] = f[h] => i = h
      BY <1>1, <2>4
    <3> QED
      BY <2>4, <3>1 DEF Injection, IsInjective
  <2>7. Cardinality(1..m) = m
    BY FS_Interval
  <2>8. Cardinality(T) = m
    BY <2>5, <2>6, <2>7, <2>9, FS_Surjection
  <2> QED
    BY <1>1, <2>1, <2>8 DEF T, n
<1> QED
  BY <1>2, <1>3

(* The parts of soundness.                                                 *)
LEMMA SoundFacts ==
  ASSUME NEW p, Sound(p)
  PROVE  /\ p \in Fields /\ Live(p) <= MaxWorkers /\ Booked(p) /\ Placed(p, ToSet(p.jobs))
         /\ ToSet(p.jobs) \in SUBSET Job
         /\ p.state = "closed" => p.workers = <<>> /\ p.jobs = <<>> /\ p.pending = <<>>
<1>1. /\ p \in Fields /\ Live(p) <= MaxWorkers /\ Booked(p) /\ Placed(p, ToSet(p.jobs))
      /\ p.state = "closed" => p.workers = <<>> /\ p.jobs = <<>>
  BY DEF Sound, Within
<1>2. p.jobs \in Seq(Job) /\ p.pending \in Seq(Job)
  BY <1>1, FieldFacts
<1>3. ToSet(p.pending) \subseteq ToSet(p.jobs)
  BY <1>1 DEF Placed
<1>4. ToSet(p.jobs) \in SUBSET Job
  BY <1>2 DEF ToSet
<1>5. ASSUME p.state = "closed" PROVE p.pending = <<>>
  <2>1. ToSet(p.jobs) = {}
    BY <1>1, <1>2, <1>5, EmptySet
  <2>2. ToSet(p.pending) = {}
    BY <1>3, <2>1
  <2> QED
    BY <1>2, <2>2, EmptySet
<1> QED
  BY <1>1, <1>4, <1>5

(* Within the bound on threads, new workers change nothing for the jobs; a *)
(* factory that fails closes the pool.                                     *)
LEMMA SpawnFacts ==
  ASSUME NEW p, Sound(p), p.state # "closed", NEW n \in Nat, Live(p) + n <= MaxWorkers,
         NEW made \in 0..MaxWorkers
  PROVE  LET q == Spawn(p, n, made)
         IN /\ After(q, p)
            /\ q.state # "closed" =>
                 /\ q.state = p.state /\ q.pending = p.pending
                 /\ IdleSlots(q) = IdleSlots(p) /\ Live(q) = Live(p) + n
<1> DEFINE q == Spawn(p, n, made)  J == ToSet(p.jobs)
<1>0. p \in Fields /\ Placed(p, J) /\ Booked(p) /\ Live(p) \in Nat /\ Len(p.workers) \in Nat
  BY SoundFacts, FieldFacts
<1>1. CASE n > 0 /\ Len(p.workers) + n > made
  <2> DEFINE k == Max({0, made - Len(p.workers)})
  <2>1. k \in Nat /\ k <= n
    BY <1>0, <1>1, MaxOfTwo
  <2>2. q = FailAll(Grow(p, k))
    BY <1>1 DEF Spawn
  <2> HIDE DEF k
  <2>3. Grow(p, k) \in Fields /\ Live(Grow(p, k)) = Live(p) + k
    BY <1>0, <2>1, GrowFacts
  <2>4. Live(Grow(p, k)) <= MaxWorkers
    BY <1>0, <2>1, <2>3, PoolAssumption
  <2>5. Sound(q) /\ q.state = "closed" /\ q.jobs = <<>>
    BY <2>2, <2>3, <2>4, FailAllFacts
  <2>6. ToSet(q.jobs) = {}
    BY <2>5 DEF ToSet
  <2> QED
    BY <2>5, <2>6 DEF After
<1>2. CASE ~(n > 0 /\ Len(p.workers) + n > made)
  <2>1. q = Grow(p, n)
    BY <1>2 DEF Spawn
  <2> HIDE DEF q
  <2>2. /\ q \in Fields /\ Live(q) = Live(p) + n /\ Placed(q, J)
        /\ IdleSlots(q) = IdleSlots(p)
        /\ q.state = p.state /\ q.jobs = p.jobs /\ q.pending = p.pending
        /\ q.out = p.out /\ q.woken = p.woken
    BY <1>0, <2>1, GrowFacts
  <2>3. Booked(q)
    BY <1>0, <2>2 DEF Booked
  <2>4. p.woken => p.state # "open" /\ p.jobs = <<>>
    BY DEF Sound, Within
  <2>5. q.woken => q.state # "open" /\ q.jobs = <<>>
    BY <2>2, <2>4
  <2>6. Within(q)
    BY <2>2, <2>3, <2>5 DEF Within
  <2>7. Sound(q)
    BY <2>2, <2>6 DEF Sound
  <2>8. After(q, p)
    BY <2>2, <2>7 DEF After
  <2>9. /\ After(q, p)
        /\ q.state # "closed" =>
             /\ q.state = p.state /\ q.pending = p.pending
             /\ IdleSlots(q) = IdleSlots(p) /\ Live(q) = Live(p) + n
    BY <2>2, <2>8
  <2> QED
    BY <2>9 DEF q
<1> QED
  BY <1>1, <1>2

(* The worker at one place of the array.                                   *)
LEMMA SlotFacts ==
  ASSUME NEW w \in Seq(Slot), NEW i \in DOMAIN w
  PROVE  w[i] \in Slot /\ w[i].job \in Job \cup {Idle} /\ i \in Int
<1>1. DOMAIN w = 1..Len(w) /\ Len(w) \in Nat
  OBVIOUS
<1>2. w[i] \in Slot /\ i \in Int
  BY <1>1
<1> QED
  BY <1>2 DEF Slot

(* The idle workers take waiting jobs until one or the other run out.      *)
LEMMA AssignFacts ==
  ASSUME NEW p, Sound(p)
  PROVE  LET q == Assign(p)
         IN /\ Sound(q) /\ q.state = p.state /\ q.jobs = p.jobs /\ Live(q) = Live(p)
            /\ q.pending # <<>> =>
                 IdleSlots(q) = {} /\ Len(p.pending) > Cardinality(IdleSlots(p))
<1> DEFINE q == Assign(p)  J == ToSet(p.jobs)  w == p.workers  s == p.pending  I == IdleSlots(p)
           m == Len(s)  taken == {i \in I : Rank(I, i) <= m}  c == Cardinality(taken)
           v == [i \in DOMAIN w |-> IF i \in taken THEN [w[i] EXCEPT !.job = s[Rank(I, i)]]
                                                 ELSE w[i]]
           r == SubSeq(s, c + 1, m)
<1>0. /\ p \in Fields /\ Placed(p, J) /\ Booked(p) /\ w \in Seq(Slot) /\ s \in Seq(Job)
      /\ Len(w) \in Nat /\ DOMAIN w = 1..Len(w) /\ m \in Nat /\ Idle \notin Job
      /\ J \in SUBSET Job
  BY SoundFacts, FieldFacts, PoolAssumption
<1>1. I \in SUBSET Int /\ IsFiniteSet(I) /\ I \subseteq DOMAIN w
  <2>1. IsFiniteSet(1..Len(w)) /\ I \in SUBSET (1..Len(w))
    BY <1>0, FS_Interval DEF IdleSlots
  <2> QED
    BY <1>0, <2>1, FS_Subset
<1>2. /\ Cardinality(I) \in Nat
      /\ \A i \in I : Rank(I, i) \in 1..Cardinality(I)
      /\ \A i, h \in I : Rank(I, i) = Rank(I, h) => i = h
      /\ \A k \in 1..Cardinality(I) : \E i \in I : Rank(I, i) = k
  BY <1>1, RankFacts
<1>3. /\ c = IF m <= Cardinality(I) THEN m ELSE Cardinality(I)
      /\ \A i \in I : i \in taken <=> Rank(I, i) <= c
  BY <1>0, <1>1, FirstRanks
<1>4. q = [p EXCEPT !.workers = v, !.pending = r]
  BY DEF Assign, Rank, Fields
<1> HIDE DEF I, taken, c, w, s
<1>5. c \in Nat /\ c <= m /\ c <= Cardinality(I)
  BY <1>0, <1>2, <1>3
<1>6. r \in Seq(Job) /\ Len(r) = m - c /\ \A k \in 1..(m - c) : r[k] = s[c + k]
  BY <1>0, <1>5
<1>7. \A i \in taken : i \in I /\ i \in DOMAIN w /\ Rank(I, i) \in 1..c /\ Rank(I, i) \in 1..m
  BY <1>1, <1>2, <1>3, <1>5 DEF taken
<1>8. \A k \in 1..c : \E i \in taken : Rank(I, i) = k
  <2> TAKE k \in 1..c
  <2>1. PICK i \in I : Rank(I, i) = k
    BY <1>2, <1>5
  <2> QED
    BY <1>3, <2>1
<1>9. /\ DOMAIN v = DOMAIN w
      /\ \A i \in taken : v[i].job = s[Rank(I, i)] /\ v[i].ready = w[i].ready
      /\ \A i \in DOMAIN w : i \notin taken => v[i] = w[i]
  BY <1>0, <1>7 DEF Slot
<1>10. v \in Seq(Slot) /\ Len(v) = Len(w)
  <2>1. \A i \in DOMAIN w : w[i] \in Slot
    BY <1>0
  <2>2. \A i \in taken : s[Rank(I, i)] \in Job
    BY <1>0, <1>7
  <2>3. \A i \in taken : [w[i] EXCEPT !.job = s[Rank(I, i)]] \in Slot
    BY <1>7, <2>1, <2>2 DEF Slot
  <2>4. v \in [1..Len(w) -> Slot]
    BY <1>0, <2>1, <2>3
  <2> HIDE DEF v
  <2> QED
    BY <1>0, <2>4
<1> HIDE DEF v, r
<1>11. q \in Fields
  BY <1>0, <1>4, <1>6, <1>10 DEF Fields
<1>12. /\ q.workers = v /\ q.pending = r /\ q.state = p.state /\ q.jobs = p.jobs
       /\ q.retiring = p.retiring /\ q.stuck = p.stuck /\ q.out = p.out /\ q.woken = p.woken
  BY <1>0, <1>4 DEF Fields
<1> HIDE DEF q
<1>13. Live(q) = Live(p)
  BY <1>10, <1>12 DEF Live, w
<1>14. /\ IsInjective(s) /\ ToSet(s) \subseteq J /\ J \subseteq ToSet(s) \cup Running(p)
       /\ \A i \in DOMAIN w : w[i].job # Idle =>
            w[i].ready /\ w[i].job \in J /\ w[i].job \notin ToSet(s)
       /\ \A i, h \in DOMAIN w : w[i].job = w[h].job /\ i # h => w[i].job = Idle
  BY <1>0 DEF Placed, w, s
<1>15. DOMAIN s = 1..m /\ DOMAIN r = 1..(m - c) /\ \A k, l \in 1..m : s[k] = s[l] => k = l
  BY <1>0, <1>6, <1>14 DEF IsInjective
<1>16. \A k \in 1..(m - c) : /\ c + k \in 1..m /\ r[k] = s[c + k]
                             /\ \A i \in taken : s[Rank(I, i)] # r[k]
  <2> TAKE k \in 1..(m - c)
  <2>1. c + k \in 1..m /\ r[k] = s[c + k]
    BY <1>0, <1>5, <1>6
  <2>2. ASSUME NEW i \in taken PROVE s[Rank(I, i)] # r[k]
    <3>1. Rank(I, i) \in 1..m /\ Rank(I, i) \in 1..c
      BY <1>7
    <3>2. Rank(I, i) # c + k
      BY <1>5, <3>1
    <3> QED
      BY <1>15, <2>1, <3>1, <3>2
  <2> QED
    BY <2>1, <2>2
<1>17. IsInjective(r) /\ ToSet(r) \subseteq ToSet(s)
  <2>1. \A k, l \in 1..(m - c) : r[k] = r[l] => k = l
    <3> TAKE k, l \in 1..(m - c)
    <3>1. c + k \in 1..m /\ c + l \in 1..m /\ r[k] = s[c + k] /\ r[l] = s[c + l]
      BY <1>16
    <3>2. r[k] = r[l] => c + k = c + l
      BY <1>15, <3>1
    <3> QED
      BY <1>0, <1>5, <3>2
  <2> QED
    BY <1>15, <1>16, <2>1 DEF IsInjective, ToSet
<1>18. ToSet(s) \subseteq ToSet(r) \cup {v[i].job : i \in taken}
  <2> SUFFICES ASSUME NEW k \in 1..m, s[k] \notin ToSet(r) PROVE \E i \in taken : v[i].job = s[k]
    BY <1>15 DEF ToSet
  <2>1. CASE k <= c
    <3>1. PICK i \in taken : Rank(I, i) = k
      BY <1>5, <1>8, <2>1
    <3> QED
      BY <1>9, <3>1
  <2>2. CASE ~(k <= c)
    <3>1. k - c \in 1..(m - c) /\ c + (k - c) = k
      BY <1>0, <1>5, <2>2
    <3>2. r[k - c] = s[k]
      BY <1>6, <3>1
    <3> QED
      BY <1>15, <3>1, <3>2 DEF ToSet
  <2> QED
    BY <2>1, <2>2
<1>19. \A i \in taken : w[i].job = Idle /\ w[i].ready /\ v[i].job \in ToSet(s) /\ v[i].job # Idle
  <2> TAKE i \in taken
  <2>1. w[i].job = Idle /\ w[i].ready
    BY <1>7 DEF I, IdleSlots, w
  <2>2. v[i].job = s[Rank(I, i)] /\ Rank(I, i) \in 1..m
    BY <1>7, <1>9
  <2>3. v[i].job \in ToSet(s) /\ v[i].job \in Job
    BY <1>0, <1>15, <2>2 DEF ToSet
  <2> QED
    BY <1>0, <2>1, <2>3
<1>20. Placed(q, J)
  <2>1. Running(p) = {w[i].job : i \in DOMAIN w} \ {Idle}
    BY DEF Running, w
  <2>2. Running(q) = {v[i].job : i \in DOMAIN w} \ {Idle}
    BY <1>9, <1>12 DEF Running
  <2>3. J \subseteq ToSet(r) \cup Running(q)
    <3>1. Running(p) \subseteq Running(q)
      BY <1>9, <1>19, <2>1, <2>2
    <3>2. {v[i].job : i \in taken} \subseteq Running(q)
      BY <1>7, <1>19, <2>2
    <3> QED
      BY <1>14, <1>18, <3>1, <3>2
  <2>4. ASSUME NEW i \in DOMAIN w, v[i].job # Idle
        PROVE  v[i].ready /\ v[i].job \in J /\ v[i].job \notin ToSet(r)
    <3>1. CASE i \in taken
      <4>1. v[i].ready
        BY <1>9, <1>19, <3>1
      <4>2. v[i].job \in J
        BY <1>14, <1>19, <3>1
      <4>3. v[i].job \notin ToSet(r)
        BY <1>9, <1>15, <1>16, <3>1 DEF ToSet
      <4> QED
        BY <4>1, <4>2, <4>3
    <3>2. CASE i \notin taken
      <4>1. v[i] = w[i]
        BY <1>9, <3>2
      <4> QED
        BY <1>14, <1>17, <2>4, <4>1
    <3> QED
      BY <3>1, <3>2
  <2>5. ASSUME NEW i \in DOMAIN w, NEW h \in DOMAIN w, v[i].job = v[h].job, i # h
        PROVE  v[i].job = Idle
    <3>1. CASE i \in taken /\ h \in taken
      <4>1. Rank(I, i) # Rank(I, h) /\ Rank(I, i) \in 1..m /\ Rank(I, h) \in 1..m
        BY <1>2, <1>7, <2>5, <3>1
      <4>2. v[i].job # v[h].job
        BY <1>9, <1>15, <3>1, <4>1
      <4> QED
        BY <2>5, <4>2
    <3>2. CASE i \notin taken /\ h \notin taken
      BY <1>9, <1>14, <2>5, <3>2
    <3>3. CASE i \in taken /\ h \notin taken
      <4>1. v[i].job \in ToSet(s) /\ v[i].job # Idle /\ v[h] = w[h]
        BY <1>9, <1>19, <3>3
      <4> QED
        BY <1>14, <2>5, <4>1
    <3>4. CASE i \notin taken /\ h \in taken
      <4>1. v[h].job \in ToSet(s) /\ v[h].job # Idle /\ v[i] = w[i]
        BY <1>9, <1>19, <3>4
      <4> QED
        BY <1>14, <2>5, <4>1
    <3> QED
      BY <3>1, <3>2, <3>3, <3>4
  <2> QED
    BY <1>9, <1>12, <1>14, <1>17, <2>3, <2>4, <2>5 DEF Placed
<1>21. Sound(q)
  <2>1. Booked(q)
    BY <1>0, <1>12 DEF Booked
  <2>2. p.state = "closed" => w = <<>> /\ p.jobs = <<>>
    BY SoundFacts DEF w
  <2>3. w = <<>> => v = <<>>
    BY <1>0, <1>10
  <2>4. p.woken => p.state # "open" /\ p.jobs = <<>>
    BY DEF Sound, Within
  <2>5. q.woken => q.state # "open" /\ q.jobs = <<>>
    BY <1>12, <2>4
  <2>6. Live(q) <= MaxWorkers
    BY <1>13, SoundFacts
  <2>7. Within(q)
    BY <1>11, <1>12, <2>1, <2>2, <2>3, <2>5, <2>6 DEF Within
  <2> QED
    BY <1>12, <1>20, <2>7 DEF Sound
<1>22. ASSUME q.pending # <<>> PROVE IdleSlots(q) = {} /\ m > Cardinality(I)
  <2>1. m - c # 0
    <3>1. r # <<>>
      BY <1>12, <1>22
    <3>2. Len(r) # 0
      BY <1>6, <3>1, EmptySeq
    <3> QED
      BY <1>6, <3>2
  <2>2. c = Cardinality(I) /\ m > Cardinality(I)
    BY <1>0, <1>2, <1>3, <2>1
  <2>3. \A i \in I : i \in taken
    BY <1>2, <1>3, <2>2
  <2>4. I = {i \in DOMAIN w : w[i].ready /\ w[i].job = Idle}
    BY DEF I, IdleSlots, w
  <2>5. IdleSlots(q) = {i \in DOMAIN w : v[i].ready /\ v[i].job = Idle}
    BY <1>9, <1>12 DEF IdleSlots
  <2>6. ASSUME NEW i \in DOMAIN w, v[i].ready, v[i].job = Idle PROVE FALSE
    <3>1. CASE i \in taken
      BY <1>19, <2>6, <3>1
    <3>2. CASE i \notin taken
      <4>1. v[i] = w[i]
        BY <1>9, <3>2
      <4> QED
        BY <2>3, <2>4, <2>6, <3>2, <4>1
    <3> QED
      BY <3>1, <3>2
  <2> QED
    BY <2>2, <2>5, <2>6
<1> QED
  BY <1>12, <1>13, <1>21, <1>22 DEF q, s, I

(* What Then evaluates.                                                    *)
LEMMA OneChoice == \A x : (CHOOSE r \in {x} : TRUE) = x
  OBVIOUS

(* A method that does nothing.                                             *)
LEMMA AfterItself == ASSUME NEW p, Sound(p) PROVE After(p, p)
  BY DEF After

(* One method after another.                                               *)
LEMMA AfterTransitive ==
  ASSUME NEW p, NEW q, NEW r, After(q, p), After(r, q)
  PROVE  After(r, p)
<1>1. ToSet(r.jobs) \subseteq ToSet(p.jobs)
  BY DEF After
<1>2. r.state \in {p.state, "closed"}
  BY DEF After
<1>3. Sound(r)
  BY DEF After
<1> QED
  BY <1>1, <1>2, <1>3 DEF After

(* Work is conserved when no job waits.                                    *)
LEMMA NothingWaits == ASSUME NEW p, p.pending = <<>> PROVE Full(p)
  BY DEF Full

(* #dispatch keeps the pool sound and leaves no job waiting for an idle    *)
(* worker or a free place for one.                                         *)
LEMMA DispatchFacts ==
  ASSUME NEW p, Sound(p), NEW made \in 0..MaxWorkers
  PROVE  After(Dispatch(p, made), p) /\ Full(Dispatch(p, made))
<1> DEFINE short == Len(p.pending) > Cardinality(IdleSlots(p))
           n == IF short THEN Max({0, MaxWorkers - Live(p)}) ELSE 0
           s == Spawn(p, n, made)  q == Assign(s)
<1>0. /\ p \in Fields /\ Live(p) <= MaxWorkers /\ Live(p) \in Nat /\ MaxWorkers \in Nat
      /\ p.state = "closed" => p.pending = <<>>
  BY SoundFacts, FieldFacts, PoolAssumption
<1>1. CASE p.state = "closed"
  <2>1. Dispatch(p, made) = p
    BY <1>1 DEF Dispatch
  <2> QED
    BY <1>0, <1>1, <2>1, AfterItself, NothingWaits
<1>2. CASE p.state # "closed"
  <2>1. Dispatch(p, made) = q
    <3>1. Dispatch(p, made) = CHOOSE r \in {Assign(t) : t \in {s}} : TRUE
      BY <1>2 DEF Dispatch, Then
    <3> HIDE DEF s
    <3>2. {Assign(t) : t \in {s}} = {q}
      OBVIOUS
    <3> QED
      BY <3>1, <3>2, OneChoice
  <2>2. n \in Nat /\ Live(p) + n <= MaxWorkers /\ (short => Live(p) + n = MaxWorkers)
    BY <1>0, MaxOfTwo
  <2> HIDE DEF n, s, short
  <2>3. /\ After(s, p)
        /\ s.state # "closed" =>
             /\ s.state = p.state /\ s.pending = p.pending
             /\ IdleSlots(s) = IdleSlots(p) /\ Live(s) = Live(p) + n
    BY <1>2, <2>2, SpawnFacts DEF s
  <2>4. Sound(s)
    BY <2>3 DEF After
  <2>5. /\ Sound(q) /\ q.state = s.state /\ q.jobs = s.jobs /\ Live(q) = Live(s)
        /\ q.pending # <<>> =>
             IdleSlots(q) = {} /\ Len(s.pending) > Cardinality(IdleSlots(s))
    BY <2>4, AssignFacts
  <2> HIDE DEF q
  <2>6. After(q, s)
    BY <2>5 DEF After
  <2>7. After(q, p)
    BY <2>3, <2>6, AfterTransitive
  <2>8. ASSUME q.pending # <<>> PROVE IdleSlots(q) = {} /\ Live(q) = MaxWorkers
    <3>1. q.state # "closed"
      BY <2>5, <2>8, SoundFacts
    <3>2. short
      BY <2>3, <2>5, <2>8, <3>1 DEF short
    <3> QED
      BY <2>2, <2>3, <2>5, <2>8, <3>1, <3>2
  <2> QED
    BY <2>1, <2>7, <2>8 DEF Full
<1> QED
  BY <1>1, <1>2

(* So does the replacement of workers that are gone.                       *)
LEMMA RefillFacts ==
  ASSUME NEW p, Sound(p), NEW made \in 0..MaxWorkers
  PROVE  After(Refill(p, made), p) /\ Full(Refill(p, made))
<1> DEFINE n == Max({0, MinWorkers - Live(p)})
           s == Spawn(p, n, made)  q == Dispatch(s, made)
           due == /\ p.state # "closed"
                  /\ p.pending # <<>> \/ (p.state = "open" /\ Len(p.workers) < MinWorkers)
<1>0. /\ p \in Fields /\ Live(p) <= MaxWorkers /\ Live(p) \in Nat /\ MaxWorkers \in Nat
      /\ MinWorkers \in Nat /\ MinWorkers <= MaxWorkers
      /\ p.state = "closed" => p.pending = <<>>
  BY SoundFacts, FieldFacts, PoolAssumption
<1>1. CASE ~due
  <2>1. Refill(p, made) = p
    BY <1>1 DEF Refill
  <2>2. p.pending = <<>>
    BY <1>0, <1>1
  <2> QED
    BY <2>1, <2>2, AfterItself, NothingWaits
<1>2. CASE due
  <2>1. Refill(p, made) = q
    <3>1. Refill(p, made) = CHOOSE r \in {Dispatch(t, made) : t \in {s}} : TRUE
      BY <1>2 DEF Refill, Then
    <3> HIDE DEF s
    <3>2. {Dispatch(t, made) : t \in {s}} = {q}
      OBVIOUS
    <3> QED
      BY <3>1, <3>2, OneChoice
  <2>2. n \in Nat /\ Live(p) + n <= MaxWorkers
    BY <1>0, MaxOfTwo
  <2> HIDE DEF n, s
  <2>3. After(s, p)
    BY <1>2, <2>2, SpawnFacts DEF s
  <2>4. Sound(s)
    BY <2>3 DEF After
  <2>5. After(q, s) /\ Full(q)
    BY <2>4, DispatchFacts
  <2> HIDE DEF q
  <2> QED
    BY <2>1, <2>3, <2>5, AfterTransitive
<1> QED
  BY <1>1, <1>2

(* Drain waiters are resolved only when the map of a closing pool is       *)
(* empty.                                                                  *)
LEMMA WakeFacts ==
  ASSUME NEW p, Sound(p), Full(p)
  PROVE  After(WakeWhenEmpty(p), p) /\ Full(WakeWhenEmpty(p))
<1>1. CASE ~(p.jobs = <<>> /\ p.state = "closing")
  <2>1. WakeWhenEmpty(p) = p
    BY <1>1 DEF WakeWhenEmpty
  <2> QED
    BY <2>1, AfterItself
<1>2. CASE p.jobs = <<>> /\ p.state = "closing"
  <2> DEFINE q == [p EXCEPT !.woken = TRUE]
  <2>1. WakeWhenEmpty(p) = q
    BY <1>2 DEF WakeWhenEmpty
  <2>2. p \in Fields /\ Live(p) <= MaxWorkers /\ Booked(p) /\ Placed(p, ToSet(p.jobs))
    BY SoundFacts
  <2>3. /\ q.state = p.state /\ q.jobs = p.jobs /\ q.pending = p.pending
        /\ q.workers = p.workers /\ q.retiring = p.retiring /\ q.stuck = p.stuck /\ q.out = p.out
    BY <2>2 DEF Fields
  <2>4. q \in Fields
    BY <2>2 DEF Fields
  <2> HIDE DEF q
  <2>5. Live(q) = Live(p) /\ IdleSlots(q) = IdleSlots(p)
    BY <2>3 DEF Live, IdleSlots
  <2>6. Booked(q) /\ Placed(q, ToSet(q.jobs))
    <3>1. Booked(q)
      BY <2>2, <2>3 DEF Booked
    <3>2. Placed(q, ToSet(p.jobs))
      BY <2>2, <2>3, PlacedFrame
    <3> QED
      BY <2>3, <3>1, <3>2
  <2>7. Within(q)
    BY <1>2, <2>2, <2>3, <2>4, <2>5, <2>6 DEF Within
  <2>8. Sound(q)
    BY <2>6, <2>7 DEF Sound
  <2>9. After(q, p)
    BY <2>3, <2>8 DEF After
  <2>10. Full(q)
    BY <2>3, <2>5 DEF Full
  <2> QED
    BY <2>1, <2>9, <2>10
<1> QED
  BY <1>1, <1>2

(* #afterSettlement as a whole.                                            *)
LEMMA SettlementFacts ==
  ASSUME NEW p, Sound(p), NEW made \in 0..MaxWorkers
  PROVE  After(AfterSettlement(p, made), p) /\ Full(AfterSettlement(p, made))
<1> DEFINE s == Refill(p, made)  q == WakeWhenEmpty(s)
<1>1. AfterSettlement(p, made) = q
  <2>1. AfterSettlement(p, made) = CHOOSE r \in {WakeWhenEmpty(t) : t \in {s}} : TRUE
    BY DEF AfterSettlement, Then
  <2> HIDE DEF s
  <2>2. {WakeWhenEmpty(t) : t \in {s}} = {q}
    OBVIOUS
  <2> QED
    BY <2>1, <2>2, OneChoice
<1>2. After(s, p) /\ Full(s)
  BY RefillFacts
<1> HIDE DEF s
<1>3. Sound(s)
  BY <1>2 DEF After
<1>4. After(q, s) /\ Full(q)
  BY <1>2, <1>3, WakeFacts
<1> HIDE DEF q
<1> QED
  BY <1>1, <1>2, <1>4, AfterTransitive

(* A handler settles a job in this way: its place is free already.         *)
LEMMA ForgottenFacts ==
  ASSUME NEW p \in Fields, Live(p) <= MaxWorkers, Booked(p), NEW j \in ToSet(p.jobs),
         Placed(p, ToSet(p.jobs) \ {j}), p.state # "closed", ~p.woken, NEW made \in 0..MaxWorkers
  PROVE  /\ Sound(Forget(p, j))
         /\ LET q == AfterSettlement(Forget(p, j), made)
            IN /\ Sound(q) /\ Full(q) /\ ToSet(q.jobs) \subseteq ToSet(p.jobs) \ {j}
               /\ q.state \in {p.state, "closed"}
<1> DEFINE f == Forget(p, j)  q == AfterSettlement(f, made)
<1>1. /\ f \in Fields /\ Booked(f) /\ ToSet(f.jobs) = ToSet(p.jobs) \ {j}
      /\ f.state = p.state /\ f.workers = p.workers /\ f.pending = p.pending
      /\ f.retiring = p.retiring /\ f.stuck = p.stuck /\ f.woken = p.woken
  BY ForgetFacts
<1> HIDE DEF f
<1>2. Placed(f, ToSet(f.jobs))
  BY <1>1, PlacedFrame
<1>3. Live(f) = Live(p)
  BY <1>1 DEF Live
<1>4. ~f.woken
  BY <1>1
<1>5. Within(f)
  BY <1>1, <1>3, <1>4 DEF Within
<1>6. Sound(f)
  BY <1>2, <1>5 DEF Sound
<1>7. After(q, f) /\ Full(q)
  BY <1>6, SettlementFacts
<1> HIDE DEF q
<1>8. Sound(q) /\ ToSet(q.jobs) \subseteq ToSet(p.jobs) \ {j} /\ q.state \in {p.state, "closed"}
  BY <1>1, <1>7 DEF After
<1> QED
  BY <1>6, <1>7, <1>8 DEF f, q

(* A pool with a job is not closed, nor are its drain waiters resolved.    *)
LEMMA BusyFacts ==
  ASSUME NEW p, Sound(p), ToSet(p.jobs) # {}
  PROVE  p.state # "closed" /\ ~p.woken
<1>1. p.jobs # <<>>
  BY DEF ToSet
<1>2. p.state # "closed"
  BY <1>1, SoundFacts
<1>3. ~p.woken
  BY <1>1 DEF Sound, Within
<1> QED
  BY <1>2, <1>3

(* #cancel: the job is gone, wherever it was.                              *)
LEMMA CancelJobFacts ==
  ASSUME NEW p, Sound(p), NEW j, NEW made \in 0..MaxWorkers
  PROVE  LET q == CancelJob(p, j, made)
         IN /\ After(q, p) /\ j \notin ToSet(q.jobs)
            /\ j \in ToSet(p.jobs) => Full(q)
<1> DEFINE J == ToSet(p.jobs)  w == p.workers  s == p.pending
           waiting == [p EXCEPT !.pending = RemoveFirst(@, j)]
           slots == {i \in DOMAIN w : w[i].job = j}
           freed == IF slots = {} THEN waiting ELSE RemoveWorker(waiting, CHOOSE i \in slots : TRUE)
           q == AfterSettlement(Forget(freed, j), made)
<1>0. /\ p \in Fields /\ Live(p) <= MaxWorkers /\ Booked(p) /\ Placed(p, J)
      /\ J \in SUBSET Job /\ w \in Seq(Slot) /\ s \in Seq(Job) /\ p.jobs \in Seq(Job)
      /\ Idle \notin Job
  BY SoundFacts, FieldFacts, PoolAssumption
<1>1. Contains(p.jobs, j) <=> j \in J
  BY <1>0, ContainsFacts
<1>2. CASE j \notin J
  <2>1. CancelJob(p, j, made) = p
    BY <1>1, <1>2 DEF CancelJob
  <2> QED
    BY <1>2, <2>1, AfterItself
<1>3. CASE j \in J
  <2>1. CancelJob(p, j, made) = q
    <3>1. CancelJob(p, j, made)
            = CHOOSE r \in {AfterSettlement(t, made) : t \in {Forget(freed, j)}} : TRUE
      BY <1>1, <1>3 DEF CancelJob, Then
    <3> HIDE DEF freed
    <3>2. {AfterSettlement(t, made) : t \in {Forget(freed, j)}} = {q}
      OBVIOUS
    <3> QED
      BY <3>1, <3>2, OneChoice
  <2>2. p.state # "closed" /\ ~p.woken
    BY <1>3, BusyFacts
  <2>3. /\ IsInjective(s) /\ ToSet(s) \subseteq J /\ J \subseteq ToSet(s) \cup Running(p)
        /\ \A i \in DOMAIN w : w[i].job # Idle =>
             w[i].ready /\ w[i].job \in J /\ w[i].job \notin ToSet(s)
        /\ \A i, h \in DOMAIN w : w[i].job = w[h].job /\ i # h => w[i].job = Idle
    BY <1>0 DEF Placed
  <2>4. /\ RemoveFirst(s, j) \in Seq(Job) /\ IsInjective(RemoveFirst(s, j))
        /\ ToSet(RemoveFirst(s, j)) = ToSet(s) \ {j}
    BY <1>0, <2>3, RemoveFirstFacts
  <2>5. /\ waiting.workers = w /\ waiting.pending = RemoveFirst(s, j)
        /\ waiting.state = p.state /\ waiting.jobs = p.jobs /\ waiting.out = p.out
        /\ waiting.woken = p.woken /\ waiting.retiring = p.retiring /\ waiting.stuck = p.stuck
    BY <1>0 DEF Fields
  <2>6. waiting \in Fields
    <3> DEFINE r == RemoveFirst(s, j)
    <3>1. waiting = [p EXCEPT !.pending = r] /\ r \in Seq(Job)
      BY <2>4
    <3> HIDE DEF waiting, r
    <3> QED
      BY <1>0, <3>1 DEF Fields
  <2> HIDE DEF waiting
  <2>7. Live(waiting) = Live(p) /\ Running(waiting) = Running(p)
    BY <2>5 DEF Live, Running
  <2>8. /\ freed \in Fields /\ Live(freed) = Live(p) /\ Placed(freed, J \ {j})
        /\ freed.state = p.state /\ freed.jobs = p.jobs /\ freed.out = p.out
        /\ freed.woken = p.woken
    <3>1. CASE slots = {}
      <4>1. freed = waiting
        BY <3>1
      <4>2. j \notin Running(p)
        BY <3>1 DEF Running
      <4>3. \A i \in DOMAIN w : w[i].job # j
        BY <3>1
      <4>4. Placed(waiting, J \ {j})
        <5>1. IsInjective(waiting.pending) /\ ToSet(waiting.pending) \subseteq J \ {j}
          BY <2>3, <2>4, <2>5
        <5>2. J \ {j} \subseteq ToSet(waiting.pending) \cup Running(waiting)
          BY <2>3, <2>4, <2>5, <2>7
        <5>3. \A i \in DOMAIN w : w[i].job # Idle =>
                w[i].ready /\ w[i].job \in J \ {j} /\ w[i].job \notin ToSet(waiting.pending)
          BY <2>3, <2>4, <2>5, <4>3
        <5> QED
          BY <2>3, <2>5, <5>1, <5>2, <5>3 DEF Placed
      <4> QED
        BY <2>5, <2>6, <2>7, <4>1, <4>4
    <3>2. CASE slots # {}
      <4> DEFINE i == CHOOSE i \in slots : TRUE
      <4>1. i \in DOMAIN w /\ w[i].job = j
        BY <3>2
      <4>2. freed = RemoveWorker(waiting, i)
        BY <3>2
      <4> HIDE DEF i, slots, freed
      <4>3. j \notin ToSet(s) /\ j # Idle
        BY <1>0, <1>3, <2>3, <4>1
      <4>4. Placed(waiting, J)
        <5>1. ToSet(waiting.pending) = ToSet(s) /\ IsInjective(waiting.pending)
          BY <2>4, <2>5, <4>3
        <5> QED
          BY <2>3, <2>5, <2>7, <5>1 DEF Placed
      <4>5. /\ freed \in Fields /\ Live(freed) = Live(waiting) /\ Placed(freed, J \ {j})
            /\ freed.state = waiting.state /\ freed.jobs = waiting.jobs
            /\ freed.out = waiting.out /\ freed.woken = waiting.woken
        BY <1>0, <2>5, <2>6, <4>1, <4>2, <4>4, RemoveWorkerFacts
      <4> QED
        BY <2>5, <2>7, <4>5
    <3> QED
      BY <3>1, <3>2
  <2> HIDE DEF freed
  <2>9. Booked(freed)
    BY <1>0, <2>8 DEF Booked
  <2>10. /\ Sound(q) /\ Full(q) /\ ToSet(q.jobs) \subseteq J \ {j}
         /\ q.state \in {p.state, "closed"}
    BY <1>0, <1>3, <2>2, <2>8, <2>9, ForgottenFacts
  <2> HIDE DEF q
  <2>11. After(q, p) /\ j \notin ToSet(q.jobs)
    BY <2>10 DEF After
  <2> QED
    BY <2>1, <2>10, <2>11
<1> QED
  BY <1>2, <1>3

(* #handleWorkerFailure, with the job of the worker or without.            *)
LEMMA WorkerFailureFacts ==
  ASSUME NEW p, Sound(p), NEW i \in DOMAIN p.workers, NEW made \in 0..MaxWorkers
  PROVE  LET q == WorkerFailure(p, i, made) IN After(q, p) /\ Full(q)
<1> DEFINE J == ToSet(p.jobs)  w == p.workers  j == w[i].job
           removed == RemoveWorker(p, i)
           settled == IF Contains(p.jobs, j) THEN Forget(removed, j) ELSE removed
           q == AfterSettlement(settled, made)
<1>0. /\ p \in Fields /\ Live(p) <= MaxWorkers /\ Booked(p) /\ Placed(p, J)
      /\ J \in SUBSET Job /\ w \in Seq(Slot) /\ p.jobs \in Seq(Job) /\ Idle \notin Job
  BY SoundFacts, FieldFacts, PoolAssumption
<1>1. Contains(p.jobs, j) <=> j \in J
  BY <1>0, ContainsFacts
<1>2. /\ removed \in Fields /\ Live(removed) = Live(p) /\ Placed(removed, J \ {j})
      /\ removed.state = p.state /\ removed.jobs = p.jobs
      /\ removed.out = p.out /\ removed.woken = p.woken
  BY <1>0, RemoveWorkerFacts
<1>3. p.state # "closed"
  <2>1. p.workers # <<>>
    OBVIOUS
  <2> QED
    BY <2>1, SoundFacts
<1>4. j # Idle => j \in J
  BY <1>0 DEF Placed
<1>5. Booked(removed) /\ Live(removed) <= MaxWorkers
  BY <1>0, <1>2 DEF Booked
<1>6. CASE w[i].ready
  <2>1. WorkerFailure(p, i, made) = q
    <3>1. WorkerFailure(p, i, made)
            = CHOOSE r \in {AfterSettlement(t, made) : t \in {settled}} : TRUE
      BY <1>6 DEF WorkerFailure, Then
    <3> HIDE DEF settled
    <3>2. {AfterSettlement(t, made) : t \in {settled}} = {q}
      OBVIOUS
    <3> QED
      BY <3>1, <3>2, OneChoice
  <2> HIDE DEF removed
  <2>2. CASE j \in J
    <3>1. settled = Forget(removed, j)
      BY <1>1, <2>2
    <3>2. ~removed.woken
      BY <1>2, <2>2, BusyFacts
    <3> HIDE DEF settled, j
    <3>3. Sound(q) /\ Full(q) /\ ToSet(q.jobs) \subseteq J \ {j} /\ q.state \in {p.state, "closed"}
      BY <1>2, <1>3, <1>5, <2>2, <3>1, <3>2, ForgottenFacts
    <3> HIDE DEF q
    <3> QED
      BY <2>1, <3>3 DEF After
  <2>3. CASE j \notin J
    <3>1. settled = removed
      BY <1>1, <2>3
    <3>2. J \ {j} = J
      BY <2>3
    <3>3. p.woken => p.state # "open" /\ p.jobs = <<>>
      BY DEF Sound, Within
    <3>4. removed.woken => removed.state # "open" /\ removed.jobs = <<>>
      BY <1>2, <3>3
    <3>5. Within(removed)
      BY <1>2, <1>3, <1>5, <3>4 DEF Within
    <3>6. Sound(removed)
      BY <1>2, <3>2, <3>5 DEF Sound
    <3>7. After(removed, p)
      BY <1>2, <3>6 DEF After
    <3> HIDE DEF settled
    <3>8. After(q, removed) /\ Full(q)
      BY <3>1, <3>6, SettlementFacts
    <3> HIDE DEF q
    <3> QED
      BY <2>1, <3>7, <3>8, AfterTransitive
  <2> QED
    BY <2>2, <2>3
<1>7. CASE ~w[i].ready
  <2> DEFINE f == FailAll(removed)
  <2>1. WorkerFailure(p, i, made) = f
    BY <1>7 DEF WorkerFailure
  <2> HIDE DEF removed
  <2>2. Sound(f) /\ f.state = "closed" /\ f.jobs = <<>>
    BY <1>2, <1>5, FailAllFacts
  <2> HIDE DEF f
  <2>3. f.pending = <<>>
    BY <2>2, SoundFacts
  <2>4. Full(f)
    BY <2>3, NothingWaits
  <2>5. ToSet(f.jobs) = {}
    BY <2>2 DEF ToSet
  <2> QED
    BY <2>1, <2>2, <2>4, <2>5 DEF After
<1> QED
  BY <1>6, <1>7

(* A function by recursion over an interval exists.                        *)
LEMMA CancelAllExists ==
  ASSUME NEW p, NEW made, NEW L \in Nat
  PROVE  \E g : /\ g = [n \in 0..L |-> g[n]]
                /\ \A n \in 0..L : g[n] = IF n = 0 THEN p
                                          ELSE CancelJob(g[n - 1], p.jobs[n], made)
<1> DEFINE F(g, m) == /\ g = [n \in 0..m |-> g[n]]
                      /\ \A n \in 0..m : g[n] = IF n = 0 THEN p
                                                ELSE CancelJob(g[n - 1], p.jobs[n], made)
           bad == {m \in Nat : ~ \E g : F(g, m)}
<1>1. SUFFICES ASSUME bad # {} PROVE FALSE
  OBVIOUS
<1>2. PICK m \in bad : \A b \in bad : m <= b
  <2> HIDE DEF F
  <2>1. bad \in SUBSET Nat
    OBVIOUS
  <2> HIDE DEF bad
  <2> QED
    BY <1>1, <2>1, Smallest
<1>3. m \in Nat /\ ~ \E g : F(g, m)
  OBVIOUS
<1>4. m # 0
  <2> DEFINE g == [n \in 0..0 |-> p]
  <2>1. F(g, 0)
    OBVIOUS
  <2> HIDE DEF F, g
  <2> QED
    BY <1>3, <2>1
<1>5. m - 1 \in Nat /\ m - 1 \notin bad
  <2> HIDE DEF bad
  <2> QED
    BY <1>2, <1>3, <1>4
<1>6. PICK g : F(g, m - 1)
  BY <1>5
<1> DEFINE h == [n \in 0..m |-> IF n = m THEN CancelJob(g[m - 1], p.jobs[m], made) ELSE g[n]]
<1>7. ASSUME NEW n \in 0..m
      PROVE  h[n] = IF n = 0 THEN p ELSE CancelJob(h[n - 1], p.jobs[n], made)
  <2>1. CASE n = 0
    <3>1. h[n] = g[0] /\ 0 \in 0..(m - 1)
      BY <1>3, <1>4, <2>1
    <3> QED
      BY <1>6, <2>1, <3>1
  <2>2. CASE n # 0
    <3>1. n - 1 \in 0..(m - 1) /\ n - 1 # m /\ n - 1 \in 0..m
      BY <1>3, <2>2
    <3>2. h[n - 1] = g[n - 1]
      BY <3>1
    <3>3. CASE n = m
      BY <2>2, <3>2, <3>3
    <3>4. CASE n # m
      <4>1. n \in 0..(m - 1) /\ h[n] = g[n]
        BY <1>3, <3>4
      <4>2. g[n] = CancelJob(g[n - 1], p.jobs[n], made)
        BY <1>6, <2>2, <4>1
      <4> QED
        BY <2>2, <3>2, <4>1, <4>2
    <3> QED
      BY <3>3, <3>4
  <2> QED
    BY <2>1, <2>2
<1>8. F(h, m)
  <2>1. h = [n \in 0..m |-> h[n]]
    OBVIOUS
  <2> HIDE DEF h
  <2> QED
    BY <1>7, <2>1
<1> HIDE DEF F, h
<1> QED
  BY <1>3, <1>8

(* A close without drain cancels every job that was there when it began.   *)
LEMMA CancelAllFacts ==
  ASSUME NEW p, Sound(p), NEW made \in 0..MaxWorkers
  PROVE  LET q == CancelAll(p, made) IN After(q, p) /\ q.jobs = <<>>
<1> DEFINE L == Len(p.jobs)
           F(g) == [n \in 0..L |-> IF n = 0 THEN p ELSE CancelJob(g[n - 1], p.jobs[n], made)]
           T(g) == [n \in 0..L |->
                      IF n = 0 THEN p
                      ELSE CHOOSE r \in {CancelJob(q, p.jobs[n], made) : q \in {g[n - 1]}} : TRUE]
           f == CHOOSE g : g = T(g)
<1>0. p \in Fields /\ p.jobs \in Seq(Job) /\ L \in Nat
  BY SoundFacts, FieldFacts
<1>1. CancelAll(p, made) = f[L]
  BY DEF CancelAll, Then
<1>2. f = F(f)
  <2>1. \A g : T(g) = F(g)
    <3> TAKE g
    <3>1. ASSUME NEW n \in 0..L
          PROVE  (CHOOSE r \in {CancelJob(q, p.jobs[n], made) : q \in {g[n - 1]}} : TRUE)
                   = CancelJob(g[n - 1], p.jobs[n], made)
      <4>1. {CancelJob(t, p.jobs[n], made) : t \in {g[n - 1]}}
              = {CancelJob(g[n - 1], p.jobs[n], made)}
        OBVIOUS
      <4> QED
        BY <4>1, OneChoice
    <3> QED
      BY <3>1
  <2>2. \E g : g = F(g)
    <3>1. PICK g : /\ g = [n \in 0..L |-> g[n]]
                   /\ \A n \in 0..L : g[n] = IF n = 0 THEN p
                                             ELSE CancelJob(g[n - 1], p.jobs[n], made)
      BY <1>0, CancelAllExists
    <3>2. g = F(g)
      BY <3>1
    <3> QED
      BY <3>2
  <2> HIDE DEF F, T
  <2> QED
    BY <2>1, <2>2
<1> HIDE DEF f
<1> DEFINE ok(n) == After(f[n], p) /\ \A k \in 1..n : p.jobs[k] \notin ToSet(f[n].jobs)
           bad == {n \in 0..L : ~ok(n)}
<1>3. bad = {}
  <2> SUFFICES ASSUME bad # {} PROVE FALSE
    OBVIOUS
  <2>1. PICK m \in bad : \A b \in bad : m <= b
    <3>1. bad \in SUBSET Nat
      BY <1>0
    <3> HIDE DEF bad
    <3> QED
      BY <3>1, Smallest
  <2>2. m \in 0..L /\ ~ok(m) /\ m \in Int
    BY <1>0
  <2>3. ok(0)
    <3>1. f[0] = p
      BY <1>0, <1>2
    <3> QED
      BY <3>1, AfterItself
  <2>4. m # 0
    <3> HIDE DEF ok
    <3> QED
      BY <2>2, <2>3
  <2>5. m - 1 \in 0..L /\ m - 1 \notin bad
    <3> HIDE DEF bad
    <3> QED
      BY <1>0, <2>1, <2>2, <2>4
  <2>6. ok(m - 1)
    BY <2>5
  <2>7. f[m] = CancelJob(f[m - 1], p.jobs[m], made)
    BY <1>2, <2>2, <2>4
  <2>8. After(f[m - 1], p) /\ Sound(f[m - 1])
    BY <2>6 DEF After
  <2>9. After(f[m], f[m - 1]) /\ p.jobs[m] \notin ToSet(f[m].jobs)
    BY <2>7, <2>8, CancelJobFacts
  <2>10. After(f[m], p)
    BY <2>8, <2>9, AfterTransitive
  <2>11. ASSUME NEW k \in 1..m PROVE p.jobs[k] \notin ToSet(f[m].jobs)
    <3>1. CASE k = m
      BY <2>9, <3>1
    <3>2. CASE k # m
      <4>1. k \in 1..(m - 1)
        BY <2>2, <3>2
      <4>2. p.jobs[k] \notin ToSet(f[m - 1].jobs)
        BY <2>6, <4>1
      <4> QED
        BY <2>9, <4>2 DEF After
    <3> QED
      BY <3>1, <3>2
  <2> QED
    BY <2>2, <2>10, <2>11
<1>4. ok(L)
  <2>1. L \in 0..L
    BY <1>0
  <2> HIDE DEF ok
  <2> QED
    BY <1>3, <2>1
<1> DEFINE q == f[L]
<1>5. q.jobs \in Seq(Job) /\ ToSet(q.jobs) \subseteq ToSet(p.jobs)
  <2>1. After(q, p)
    BY <1>4
  <2>2. Sound(q) /\ ToSet(q.jobs) \subseteq ToSet(p.jobs)
    BY <2>1 DEF After
  <2> HIDE DEF q
  <2> QED
    BY <2>2, SoundFacts, FieldFacts
<1>6. ToSet(q.jobs) = {}
  <2>1. \A j \in ToSet(p.jobs) : \E k \in 1..L : p.jobs[k] = j
    BY <1>0 DEF ToSet
  <2> QED
    BY <1>4, <1>5, <2>1
<1>7. q.jobs = <<>>
  BY <1>5, <1>6, EmptySet
<1> QED
  BY <1>1, <1>4, <1>7

(* The end of close() terminates a pool only when it has no job.           *)
LEMMA CloseIfEmptyFacts ==
  ASSUME NEW p, Sound(p), Full(p)
  PROVE  LET q == CloseIfEmpty(p)
         IN Sound(q) /\ Full(q) /\ q.jobs = p.jobs /\ q.state \in {p.state, "closed"}
<1>1. CASE p.jobs # <<>>
  BY <1>1 DEF CloseIfEmpty
<1>2. CASE p.jobs = <<>>
  <2> DEFINE q == TerminateAll(p)
  <2>1. /\ p \in Fields /\ Live(p) <= MaxWorkers /\ Booked(p) /\ Placed(p, ToSet(p.jobs))
        /\ p.pending \in Seq(Job) /\ ToSet(p.jobs) = {}
    <3>1. ToSet(p.jobs) = {}
      BY <1>2 DEF ToSet
    <3>2. p \in Fields /\ Live(p) <= MaxWorkers /\ Booked(p) /\ Placed(p, ToSet(p.jobs))
      BY SoundFacts
    <3> HIDE DEF q
    <3> QED
      BY <3>1, <3>2, FieldFacts
  <2>2. p.pending = <<>>
    BY <2>1, EmptySet DEF Placed
  <2>3. /\ q \in Fields /\ Live(q) = Live(p) /\ q.state = "closed" /\ q.workers = <<>>
        /\ q.pending = p.pending /\ q.jobs = p.jobs /\ q.out = p.out
    BY <2>1, TerminateAllFacts
  <2>4. CloseIfEmpty(p) = q
    BY <1>2 DEF CloseIfEmpty
  <2> HIDE DEF q
  <2>5. Booked(q)
    BY <2>1, <2>3 DEF Booked
  <2>6. Placed(q, ToSet(q.jobs))
    BY <2>1, <2>2, <2>3, NoJobs
  <2>7. Within(q)
    BY <1>2, <2>1, <2>3, <2>5 DEF Within
  <2>8. Sound(q) /\ Full(q)
    BY <2>2, <2>3, <2>6, <2>7, NothingWaits DEF Sound
  <2> QED
    BY <2>3, <2>4, <2>8
<1> QED
  BY <1>1, <1>2

ClosersOK ==
  \A k \in Closer :
    /\ closer[k] \in {"retiring", "closed", "failed"} => pool.state = "closed"
    /\ closer[k] = "woken" => pool.state # "open" /\ pool.jobs = <<>>
    /\ closer[k] = "draining" => pool.state # "open"
    /\ closer[k] = "closed" => Live(pool) = 0

Typed ==
  /\ closer \in [Closer -> {"out", "draining", "woken", "retiring", "closed", "failed"}]
  /\ fate \in [Job -> {"new", "live", "refused", "answered", "rejected"}]
  /\ faults \in 0 .. MaxFaults

PoolInv ==
  /\ Sound(pool) /\ Full(pool) /\ ~pool.woken
  /\ Typed /\ ClosersOK
  /\ \A j \in Job : fate[j] = "live" <=> j \in ToSet(pool.jobs)

(* A pool with its flag cleared.                                           *)
LEMMA ClearFacts ==
  ASSUME NEW p, Sound(p), Full(p)
  PROVE  LET q == [p EXCEPT !.woken = FALSE]
         IN /\ Sound(q) /\ Full(q) /\ ~q.woken
            /\ q.state = p.state /\ q.jobs = p.jobs /\ Live(q) = Live(p)
<1> DEFINE q == [p EXCEPT !.woken = FALSE]
<1>1. p \in Fields /\ Live(p) <= MaxWorkers /\ Booked(p) /\ Placed(p, ToSet(p.jobs))
  BY SoundFacts
<1>2. /\ q.state = p.state /\ q.jobs = p.jobs /\ q.pending = p.pending
      /\ q.workers = p.workers /\ q.retiring = p.retiring /\ q.stuck = p.stuck /\ q.out = p.out
  BY <1>1 DEF Fields
<1>3. q \in Fields
  BY <1>1 DEF Fields
<1>4. ~q.woken
  BY <1>1 DEF Fields
<1> HIDE DEF q
<1>5. Live(q) = Live(p) /\ IdleSlots(q) = IdleSlots(p)
  BY <1>2 DEF Live, IdleSlots
<1>6. Booked(q)
  BY <1>1, <1>2 DEF Booked
<1>7. Placed(q, ToSet(p.jobs))
  BY <1>1, <1>2, PlacedFrame
<1>8. p.state = "closed" => p.workers = <<>> /\ p.jobs = <<>>
  BY SoundFacts
<1>9. Within(q)
  BY <1>1, <1>2, <1>3, <1>4, <1>5, <1>6, <1>8 DEF Within
<1>10. Sound(q)
  BY <1>2, <1>7, <1>9 DEF Sound
<1>11. Full(q)
  BY <1>2, <1>5 DEF Full
<1> QED
  BY <1>2, <1>4, <1>5, <1>10, <1>11 DEF q

(* What a handler must leave behind for the invariant to survive it.       *)
Fit(r, by) ==
  /\ Sound(r) /\ Full(r)
  /\ pool.state # "open" => r.state # "open" /\ ToSet(r.jobs) \subseteq ToSet(pool.jobs)
  /\ pool.state = "closed" => r.state = "closed" /\ (Live(pool) = 0 => Live(r) = 0)
  /\ \A k \in Closer \cap by : r.state # "open"

(* The invariant survives every handler that leaves behind what it must.   *)
LEMMA HandledFacts ==
  ASSUME PoolInv, NEW r, NEW by, NEW cost \in Nat, NEW made \in 0..MaxWorkers,
         Fit(r, by), Handled(r, by, cost, made)
  PROVE  PoolInv'
<1>1. /\ Sound(r) /\ Full(r)
      /\ pool.state # "open" => r.state # "open" /\ ToSet(r.jobs) \subseteq ToSet(pool.jobs)
      /\ pool.state = "closed" => r.state = "closed" /\ (Live(pool) = 0 => Live(r) = 0)
      /\ \A k \in Closer \cap by : r.state # "open"
  BY DEF Fit
<1>2. /\ faults' = faults + cost + (IF made < MaxWorkers THEN 1 ELSE 0)
      /\ faults' <= MaxFaults
      /\ pool' = [r EXCEPT !.woken = FALSE]
      /\ closer' = [k \in Closer |->
                      IF k \in by THEN IF r.state = "closed" THEN "retiring" ELSE "draining"
                      ELSE IF r.woken /\ closer[k] = "draining" THEN "woken"
                      ELSE closer[k]]
      /\ fate' = [j \in Job |-> IF Contains(r.jobs, j) THEN "live"
                                ELSE IF j \in by THEN "answered"
                                ELSE IF fate[j] = "live" THEN "rejected"
                                ELSE fate[j]]
  BY DEF Handled
<1>3. /\ Sound(pool') /\ Full(pool') /\ ~pool'.woken
      /\ pool'.state = r.state /\ pool'.jobs = r.jobs /\ Live(pool') = Live(r)
  <2> DEFINE q == [r EXCEPT !.woken = FALSE]
  <2>1. /\ Sound(q) /\ Full(q) /\ ~q.woken
        /\ q.state = r.state /\ q.jobs = r.jobs /\ Live(q) = Live(r)
    BY <1>1, ClearFacts
  <2>2. pool' = q
    BY <1>2
  <2> HIDE DEF q
  <2> QED
    BY <2>1, <2>2
<1>4. Typed
  BY DEF PoolInv
<1>5. Typed'
  <2>1. closer' \in [Closer -> {"out", "draining", "woken", "retiring", "closed", "failed"}]
    BY <1>2, <1>4 DEF Typed
  <2>2. fate' \in [Job -> {"new", "live", "refused", "answered", "rejected"}]
    BY <1>2, <1>4 DEF Typed
  <2>3. faults' \in 0 .. MaxFaults
    BY <1>2, <1>4, PoolAssumption DEF Typed
  <2> QED
    BY <2>1, <2>2, <2>3 DEF Typed
<1>6. r.jobs \in Seq(Job) /\ pool.jobs \in Seq(Job)
  BY <1>1, SoundFacts, FieldFacts DEF PoolInv
<1>7. \A j \in Job : fate'[j] = "live" <=> j \in ToSet(pool'.jobs)
  <2> TAKE j \in Job
  <2>1. Contains(r.jobs, j) <=> j \in ToSet(pool'.jobs)
    BY <1>3, <1>6, ContainsFacts
  <2> QED
    BY <1>2, <2>1
<1>8. r.woken => r.state # "open" /\ r.jobs = <<>>
  BY <1>1 DEF Sound, Within
<1>9. pool.jobs = <<>> /\ ToSet(r.jobs) \subseteq ToSet(pool.jobs) => r.jobs = <<>>
  <2> SUFFICES ASSUME pool.jobs = <<>>, ToSet(r.jobs) \subseteq ToSet(pool.jobs) PROVE r.jobs = <<>>
    OBVIOUS
  <2>1. ToSet(pool.jobs) = {}
    BY <1>6, EmptySet
  <2>2. ToSet(r.jobs) = {}
    BY <2>1
  <2> QED
    BY <1>6, <2>2, EmptySet
<1>10. ASSUME NEW k \in Closer
       PROVE  /\ closer'[k] \in {"retiring", "closed", "failed"} => r.state = "closed"
              /\ closer'[k] = "woken" => r.state # "open" /\ r.jobs = <<>>
              /\ closer'[k] = "draining" => r.state # "open"
              /\ closer'[k] = "closed" => Live(r) = 0
  <2>1. /\ closer[k] \in {"retiring", "closed", "failed"} => pool.state = "closed"
        /\ closer[k] = "woken" => pool.state # "open" /\ pool.jobs = <<>>
        /\ closer[k] = "draining" => pool.state # "open"
        /\ closer[k] = "closed" => Live(pool) = 0
    BY DEF PoolInv, ClosersOK
  <2>2. CASE k \in by
    <3>1. closer'[k] = IF r.state = "closed" THEN "retiring" ELSE "draining"
      BY <1>2, <2>2
    <3> QED
      BY <1>1, <2>2, <3>1
  <2>3. CASE k \notin by /\ r.woken /\ closer[k] = "draining"
    <3>1. closer'[k] = "woken"
      BY <1>2, <2>3
    <3> QED
      BY <1>8, <2>3, <3>1
  <2>4. CASE k \notin by /\ ~(r.woken /\ closer[k] = "draining")
    <3>1. closer'[k] = closer[k]
      BY <1>2, <2>4
    <3> QED
      BY <1>1, <1>9, <2>1, <3>1
  <2> QED
    BY <2>2, <2>3, <2>4
<1>11. ClosersOK'
  BY <1>3, <1>10 DEF ClosersOK
<1> QED
  BY <1>3, <1>5, <1>7, <1>11 DEF PoolInv

(* A handler that works by the pool's methods does.                        *)
LEMMA FitAfter ==
  ASSUME NEW p, NEW r, NEW by, After(r, p), Full(r), p.state = pool.state,
         pool.state # "open" => ToSet(p.jobs) \subseteq ToSet(pool.jobs),
         pool.state = "closed" => Live(pool) # 0, Closer \cap by = {}
  PROVE  Fit(r, by)
<1>1. Sound(r) /\ ToSet(r.jobs) \subseteq ToSet(p.jobs) /\ r.state \in {p.state, "closed"}
  BY DEF After
<1> QED
  BY <1>1 DEF Fit

(* A pool of which only the threads that end have changed.                 *)
LEMMA SoundFrame ==
  ASSUME NEW p, NEW q \in Fields, Sound(p), Live(q) <= MaxWorkers,
         q.workers = p.workers, q.pending = p.pending, q.jobs = p.jobs, q.out = p.out,
         q.state = p.state \/ p.state = "open", q.state = "closed" => p.state = "closed",
         q.woken => p.woken
  PROVE  Sound(q)
<1>1. p \in Fields /\ Live(p) <= MaxWorkers /\ Booked(p) /\ Placed(p, ToSet(p.jobs))
  BY SoundFacts
<1>2. p.state = "closed" => p.workers = <<>> /\ p.jobs = <<>>
  BY SoundFacts
<1>3. p.woken => p.state # "open" /\ p.jobs = <<>>
  BY DEF Sound, Within
<1>4. Booked(q)
  BY <1>1 DEF Booked
<1>5. Placed(q, ToSet(p.jobs))
  BY <1>1, PlacedFrame
<1>6. q.woken => q.state # "open" /\ q.jobs = <<>>
  BY <1>3
<1>7. Within(q)
  BY <1>2, <1>4, <1>6 DEF Within
<1> QED
  BY <1>5, <1>7 DEF Sound

(* What one worker tells about itself.                                     *)
LEMMA SlotChange ==
  ASSUME NEW p \in Fields, NEW i \in DOMAIN p.workers, NEW s \in Slot
  PROVE  LET q == [p EXCEPT !.workers = [p.workers EXCEPT ![i] = s]]
         IN /\ q \in Fields /\ Live(q) = Live(p)
            /\ DOMAIN q.workers = DOMAIN p.workers /\ q.workers[i] = s
            /\ \A k \in DOMAIN p.workers : k # i => q.workers[k] = p.workers[k]
            /\ q.state = p.state /\ q.jobs = p.jobs /\ q.pending = p.pending
            /\ q.out = p.out /\ q.woken = p.woken /\ q.retiring = p.retiring /\ q.stuck = p.stuck
<1> DEFINE w == p.workers  v == [w EXCEPT ![i] = s]  q == [p EXCEPT !.workers = v]
<1>1. w \in Seq(Slot) /\ Len(w) \in Nat /\ DOMAIN w = 1..Len(w)
  BY FieldFacts
<1>2. v \in Seq(Slot) /\ Len(v) = Len(w) /\ DOMAIN v = DOMAIN w
  BY <1>1
<1>3. v[i] = s /\ \A k \in DOMAIN w : k # i => v[k] = w[k]
  BY <1>1
<1> HIDE DEF v
<1>4. /\ q.workers = v /\ q.state = p.state /\ q.jobs = p.jobs /\ q.pending = p.pending
      /\ q.out = p.out /\ q.woken = p.woken /\ q.retiring = p.retiring /\ q.stuck = p.stuck
  BY DEF Fields
<1>5. q \in Fields
  BY <1>2 DEF Fields
<1>6. Live(q) = Live(p)
  <2> HIDE DEF q
  <2> QED
    BY <1>2, <1>4 DEF Live
<1> HIDE DEF q
<1>7. /\ q \in Fields /\ Live(q) = Live(p)
      /\ DOMAIN q.workers = DOMAIN p.workers /\ q.workers[i] = s
      /\ \A k \in DOMAIN p.workers : k # i => q.workers[k] = p.workers[k]
      /\ q.state = p.state /\ q.jobs = p.jobs /\ q.pending = p.pending
      /\ q.out = p.out /\ q.woken = p.woken /\ q.retiring = p.retiring /\ q.stuck = p.stuck
  BY <1>2, <1>3, <1>4, <1>5, <1>6
<1> QED
  BY <1>7 DEF q, v

(* A worker that reports ready ran nothing before.                         *)
LEMMA ReadyFacts ==
  ASSUME NEW p, Sound(p), NEW i \in DOMAIN p.workers, ~p.workers[i].ready
  PROVE  LET q == [p EXCEPT !.workers[i].ready = TRUE]
         IN Sound(q) /\ q.state = p.state /\ q.jobs = p.jobs
<1> DEFINE w == p.workers  s == [w[i] EXCEPT !.ready = TRUE]
           q == [p EXCEPT !.workers = [p.workers EXCEPT ![i] = s]]  J == ToSet(p.jobs)
<1>1. /\ p \in Fields /\ Live(p) <= MaxWorkers /\ Booked(p) /\ Placed(p, J)
      /\ w \in Seq(Slot)
  BY SoundFacts, FieldFacts
<1>2. w[i] \in Slot
  BY <1>1, SlotFacts
<1>3. s \in Slot /\ s.job = w[i].job
  BY <1>2 DEF Slot
<1>4. s.ready
  BY <1>2 DEF Slot
<1>5. [p EXCEPT !.workers[i].ready = TRUE] = q
  OBVIOUS
<1> HIDE DEF s
<1>6. /\ q \in Fields /\ Live(q) = Live(p)
      /\ DOMAIN q.workers = DOMAIN p.workers /\ q.workers[i] = s
      /\ \A k \in DOMAIN p.workers : k # i => q.workers[k] = p.workers[k]
      /\ q.state = p.state /\ q.jobs = p.jobs /\ q.pending = p.pending
      /\ q.out = p.out /\ q.woken = p.woken
  BY <1>1, <1>3, SlotChange
<1> HIDE DEF q
<1>7. \A k \in DOMAIN w : q.workers[k].job = w[k].job
  BY <1>3, <1>6
<1>8. Running(q) = Running(p)
  BY <1>6, <1>7 DEF Running
<1>9. \A k \in DOMAIN w : w[k].ready => q.workers[k].ready
  BY <1>4, <1>6
<1>10. Placed(q, J)
  <2>1. /\ IsInjective(p.pending) /\ ToSet(p.pending) \subseteq J
        /\ J \subseteq ToSet(p.pending) \cup Running(p)
        /\ \A k \in DOMAIN w : w[k].job # Idle =>
             w[k].ready /\ w[k].job \in J /\ w[k].job \notin ToSet(p.pending)
        /\ \A k, h \in DOMAIN w : w[k].job = w[h].job /\ k # h => w[k].job = Idle
    BY <1>1 DEF Placed
  <2>2. \A k \in DOMAIN w : q.workers[k].job # Idle =>
          q.workers[k].ready /\ q.workers[k].job \in J /\ q.workers[k].job \notin ToSet(p.pending)
    BY <1>7, <1>9, <2>1
  <2> QED
    BY <1>6, <1>7, <1>8, <2>1, <2>2 DEF Placed
<1>11. Booked(q)
  BY <1>1, <1>6 DEF Booked
<1>12. p.woken => p.state # "open" /\ p.jobs = <<>>
  BY DEF Sound, Within
<1>13. p.state # "closed"
  <2>1. w # <<>>
    OBVIOUS
  <2> QED
    BY <2>1, SoundFacts
<1>14. q.woken => q.state # "open" /\ q.jobs = <<>>
  BY <1>6, <1>12
<1>15. Within(q)
  BY <1>1, <1>6, <1>11, <1>13, <1>14 DEF Within
<1>16. Sound(q)
  BY <1>6, <1>10, <1>15 DEF Sound
<1> QED
  BY <1>5, <1>6, <1>16

(* An answered job leaves its worker free.                                 *)
LEMMA ResultFacts ==
  ASSUME NEW p, Sound(p), NEW i \in DOMAIN p.workers, p.workers[i].job # Idle,
         NEW made \in 0..MaxWorkers
  PROVE  LET j == p.workers[i].job
             q == AfterSettlement(Forget([p EXCEPT !.workers[i].job = Idle], j), made)
         IN After(q, p) /\ Full(q)
<1> DEFINE w == p.workers  j == w[i].job  s == [w[i] EXCEPT !.job = Idle]
           f == [p EXCEPT !.workers = [p.workers EXCEPT ![i] = s]]  J == ToSet(p.jobs)
           q == AfterSettlement(Forget(f, j), made)
<1>1. /\ p \in Fields /\ Live(p) <= MaxWorkers /\ Booked(p) /\ Placed(p, J)
      /\ w \in Seq(Slot)
  BY SoundFacts, FieldFacts
<1>2. w[i] \in Slot
  BY <1>1, SlotFacts
<1>3. s \in Slot /\ s.job = Idle
  BY <1>2 DEF Slot
<1>4. [p EXCEPT !.workers[i].job = Idle] = f
  OBVIOUS
<1> HIDE DEF s
<1>5. /\ f \in Fields /\ Live(f) = Live(p)
      /\ DOMAIN f.workers = DOMAIN p.workers /\ f.workers[i] = s
      /\ \A k \in DOMAIN p.workers : k # i => f.workers[k] = p.workers[k]
      /\ f.state = p.state /\ f.jobs = p.jobs /\ f.pending = p.pending
      /\ f.out = p.out /\ f.woken = p.woken
  <2> HIDE DEF j, J, q, w
  <2>1. p \in Fields
    BY <1>1
  <2> QED
    BY <1>3, <2>1, SlotChange
<1> HIDE DEF f
<1>6. /\ IsInjective(p.pending) /\ ToSet(p.pending) \subseteq J
      /\ J \subseteq ToSet(p.pending) \cup Running(p)
      /\ \A k \in DOMAIN w : w[k].job # Idle =>
           w[k].ready /\ w[k].job \in J /\ w[k].job \notin ToSet(p.pending)
      /\ \A k, h \in DOMAIN w : w[k].job = w[h].job /\ k # h => w[k].job = Idle
  BY <1>1 DEF Placed
<1>7. j \in J /\ j \notin ToSet(p.pending) /\ p.state # "closed" /\ ~p.woken
  <2>1. j \in J /\ j \notin ToSet(p.pending)
    BY <1>6
  <2> QED
    BY <2>1, BusyFacts
<1>8. \A k \in DOMAIN w : k # i => f.workers[k] = w[k] /\ (w[k].job # Idle => w[k].job # j)
  BY <1>5, <1>6
<1>9. J \ {j} \subseteq ToSet(p.pending) \cup Running(f)
  <2> SUFFICES ASSUME NEW x \in J, x # j, x \notin ToSet(p.pending) PROVE x \in Running(f)
    OBVIOUS
  <2>1. PICK k \in DOMAIN w : w[k].job = x /\ x # Idle
    BY <1>6 DEF Running
  <2>2. f.workers[k].job = x /\ k \in DOMAIN f.workers
    BY <1>5, <1>8, <2>1
  <2> QED
    BY <2>1, <2>2 DEF Running
<1>10. ASSUME NEW k \in DOMAIN w, f.workers[k].job # Idle
       PROVE  /\ f.workers[k].ready /\ f.workers[k].job \in J \ {j}
              /\ f.workers[k].job \notin ToSet(p.pending) /\ k # i
  <2>1. k # i
    BY <1>3, <1>5, <1>10
  <2>2. f.workers[k] = w[k] /\ w[k].job # j
    BY <1>8, <1>10, <2>1
  <2> QED
    BY <1>6, <1>10, <2>1, <2>2
<1>11. Placed(f, J \ {j})
  <2>1. \A k, h \in DOMAIN w :
          f.workers[k].job = f.workers[h].job /\ k # h => f.workers[k].job = Idle
    BY <1>6, <1>8, <1>10
  <2>2. ToSet(p.pending) \subseteq J \ {j}
    BY <1>6, <1>7
  <2> HIDE DEF j, J, w
  <2>3. DOMAIN f.workers = DOMAIN w
    BY <1>5 DEF w
  <2> QED
    BY <1>5, <1>6, <1>9, <1>10, <2>1, <2>2, <2>3 DEF Placed
<1>12. Booked(f)
  BY <1>1, <1>5 DEF Booked
<1> HIDE DEF j, J
<1>13. ToSet(f.jobs) = J /\ Live(f) <= MaxWorkers /\ f.state # "closed" /\ ~f.woken
  BY <1>1, <1>5, <1>7 DEF J
<1>14. /\ Sound(q) /\ Full(q) /\ ToSet(q.jobs) \subseteq J \ {j}
       /\ q.state \in {p.state, "closed"}
  BY <1>5, <1>7, <1>11, <1>12, <1>13, ForgottenFacts
<1> HIDE DEF q
<1>15. After(q, p) /\ Full(q)
  BY <1>14 DEF After, J
<1> QED
  BY <1>4, <1>15 DEF q, j

(* What the steps use of the invariant.                                    *)
LEMMA InvFacts ==
  ASSUME PoolInv
  PROVE  /\ Sound(pool) /\ Full(pool) /\ ~pool.woken /\ pool \in Fields /\ Live(pool) \in Nat
         /\ pool.state \in {"open", "closing", "closed"} /\ pool.jobs \in Seq(Job)
         /\ ToSet(pool.jobs) \in SUBSET Job /\ Live(pool) <= MaxWorkers
         /\ pool.retiring \in Nat /\ pool.stuck \in Nat
         /\ \A j \in Job : fate[j] = "live" <=> j \in ToSet(pool.jobs)
<1>1. Sound(pool) /\ Full(pool) /\ ~pool.woken
  BY DEF PoolInv
<1>2. /\ pool \in Fields /\ Live(pool) <= MaxWorkers /\ ToSet(pool.jobs) \in SUBSET Job
  BY <1>1, SoundFacts
<1>3. \A j \in Job : fate[j] = "live" <=> j \in ToSet(pool.jobs)
  BY DEF PoolInv
<1> QED
  BY <1>1, <1>2, <1>3, FieldFacts

(* An accepted job is booked, and waits.                                   *)
LEMMA QueuedFacts ==
  ASSUME NEW p, Sound(p), ~p.woken, NEW j \in Job \ ToSet(p.jobs), Accepts(p, j)
  PROVE  Sound(Queued(p, j)) /\ Queued(p, j).state = p.state
<1> DEFINE q == Queued(p, j)  J == ToSet(p.jobs)  a == Append(p.jobs, j)  b == Append(p.pending, j)
           o == p.out + Bytes[j]
<1>1. /\ p \in Fields /\ Live(p) <= MaxWorkers /\ Booked(p) /\ Placed(p, J)
      /\ p.jobs \in Seq(Job) /\ p.pending \in Seq(Job) /\ p.out \in Int /\ J \in SUBSET Job
      /\ QueueLimit \in Nat /\ MaxBytes \in Nat
  BY SoundFacts, FieldFacts, PoolAssumption
<1>2. p.state = "open" /\ Len(p.jobs) < QueueLimit /\ o <= MaxBytes
  BY DEF Accepts
<1>3. Bytes[j] \in Nat
  BY BytesFacts
<1>4. q = [p EXCEPT !.jobs = a, !.pending = b, !.out = o]
  BY DEF Queued
<1>5. a \in Seq(Job) /\ b \in Seq(Job) /\ o \in Int
  BY <1>1, <1>3
<1>6. /\ Len(a) = Len(p.jobs) + 1 /\ ToSet(a) = J \cup {j}
      /\ IsInjective(p.jobs) => IsInjective(a)
  BY <1>1, AppendFacts
<1>7. /\ ToSet(b) = ToSet(p.pending) \cup {j}
      /\ IsInjective(p.pending) /\ j \notin ToSet(p.pending) => IsInjective(b)
  BY <1>1, AppendFacts
<1> HIDE DEF a, b, o
<1>8. q \in Fields
  BY <1>1, <1>4, <1>5 DEF Fields
<1>9. /\ q.jobs = a /\ q.pending = b /\ q.out = o /\ q.workers = p.workers
      /\ q.state = p.state /\ q.retiring = p.retiring /\ q.stuck = p.stuck
  BY <1>1, <1>4 DEF Fields
<1>10. ~q.woken
  BY <1>1, <1>4 DEF Fields
<1> HIDE DEF q
<1>11. Live(q) = Live(p) /\ Running(q) = Running(p)
  BY <1>9 DEF Live, Running
<1>12. SumBytes(J \cup {j}) = SumBytes(J) + Bytes[j]
  <2>1. IsFiniteSet(J)
    BY <1>1, CountElements
  <2> HIDE DEF J
  <2>2. j \in Job \ J
    BY DEF J
  <2> QED
    BY <2>1, <2>2, SumFacts
<1>13. Booked(q)
  <2>1. IsInjective(p.jobs) /\ p.out = SumBytes(J)
    BY <1>1 DEF Booked
  <2>2. Len(p.jobs) + 1 <= QueueLimit
    BY <1>1, <1>2
  <2>3. q.out = SumBytes(J \cup {j})
    BY <1>9, <1>12, <2>1 DEF o
  <2> QED
    BY <1>2, <1>6, <1>9, <2>1, <2>2, <2>3 DEF Booked
<1>14. Placed(q, J \cup {j})
  <2>1. /\ IsInjective(p.pending) /\ ToSet(p.pending) \subseteq J
        /\ J \subseteq ToSet(p.pending) \cup Running(p)
        /\ \A i \in DOMAIN p.workers :
             p.workers[i].job # Idle =>
               /\ p.workers[i].ready /\ p.workers[i].job \in J
               /\ p.workers[i].job \notin ToSet(p.pending)
        /\ \A i, h \in DOMAIN p.workers :
             p.workers[i].job = p.workers[h].job /\ i # h => p.workers[i].job = Idle
    BY <1>1 DEF Placed
  <2>2. IsInjective(b) /\ ToSet(b) \subseteq J \cup {j}
    BY <1>7, <2>1
  <2>3. J \cup {j} \subseteq ToSet(b) \cup Running(p)
    BY <1>7, <2>1
  <2>4. \A i \in DOMAIN p.workers :
             p.workers[i].job # Idle =>
               /\ p.workers[i].ready /\ p.workers[i].job \in J \cup {j}
               /\ p.workers[i].job \notin ToSet(b)
    BY <1>7, <2>1
  <2> QED
    BY <1>9, <1>11, <2>1, <2>2, <2>3, <2>4 DEF Placed
<1>15. Within(q)
  BY <1>1, <1>2, <1>8, <1>9, <1>10, <1>11, <1>13 DEF Within
<1>16. Sound(q)
  BY <1>6, <1>9, <1>14, <1>15 DEF Sound
<1> QED
  BY <1>9, <1>16 DEF q

(* parse() accepts a job.                                                  *)
LEMMA ParseStep ==
  ASSUME PoolInv, NEW j \in Job, NEW made \in 0..MaxWorkers, Parse(j, made)
  PROVE  PoolInv'
<1> DEFINE p == Queued(pool, j)  r == Dispatch(p, made)
<1>1. fate[j] = "new" /\ Accepts(pool, j) /\ Handled(r, {}, 0, made)
  BY DEF Parse
<1>2. j \notin ToSet(pool.jobs)
  BY <1>1, InvFacts
<1>3. Sound(p) /\ p.state = pool.state /\ pool.state = "open"
  BY <1>1, <1>2, InvFacts, QueuedFacts DEF Accepts
<1> HIDE DEF p
<1>4. After(r, p) /\ Full(r)
  BY <1>3, DispatchFacts
<1> HIDE DEF r
<1>5. Fit(r, {})
  BY <1>3, <1>4, FitAfter
<1> QED
  BY <1>1, <1>5, HandledFacts

(* A job's timer fires or its caller aborts.                               *)
LEMMA CancelStep ==
  ASSUME PoolInv, NEW j \in Job, NEW made \in 0..MaxWorkers, Cancel(j, made)
  PROVE  PoolInv'
<1> DEFINE r == CancelJob(pool, j, made)
<1>1. Contains(pool.jobs, j) /\ Handled(r, {}, 0, made)
  BY DEF Cancel
<1>2. j \in ToSet(pool.jobs)
  BY <1>1, InvFacts, ContainsFacts
<1>3. After(r, pool) /\ Full(r)
  BY <1>2, InvFacts, CancelJobFacts
<1>4. pool.state # "closed"
  BY <1>2, InvFacts, BusyFacts
<1> HIDE DEF r
<1>5. Fit(r, {})
  BY <1>3, <1>4, FitAfter
<1> QED
  BY <1>1, <1>5, HandledFacts

(* A closed pool has no worker that could report anything.                 *)
LEMMA WorkersMeanOpen == ASSUME NEW p, Sound(p), NEW i \in DOMAIN p.workers PROVE p.state # "closed"
<1>1. p.workers # <<>>
  OBVIOUS
<1> QED
  BY <1>1, SoundFacts

(* A worker is initialized.                                                *)
LEMMA ReadyStep ==
  ASSUME PoolInv, NEW i \in 1..MaxWorkers, NEW made \in 0..MaxWorkers, Ready(i, made)
  PROVE  PoolInv'
<1> DEFINE p == [pool EXCEPT !.workers[i].ready = TRUE]  r == Dispatch(p, made)
<1>1. i \in DOMAIN pool.workers /\ ~pool.workers[i].ready /\ Handled(r, {}, 0, made)
  BY DEF Ready
<1>2. Sound(p) /\ p.state = pool.state /\ p.jobs = pool.jobs
  BY <1>1, InvFacts, ReadyFacts
<1>3. pool.state # "closed"
  BY <1>1, InvFacts, WorkersMeanOpen
<1> HIDE DEF p
<1>4. After(r, p) /\ Full(r)
  BY <1>2, DispatchFacts
<1> HIDE DEF r
<1>5. Fit(r, {})
  BY <1>2, <1>3, <1>4, FitAfter
<1> QED
  BY <1>1, <1>5, HandledFacts

(* A worker answers.                                                       *)
LEMMA ResultStep ==
  ASSUME PoolInv, NEW i \in 1..MaxWorkers, NEW made \in 0..MaxWorkers, Result(i, made)
  PROVE  PoolInv'
<1> DEFINE j == pool.workers[i].job
           f == Forget([pool EXCEPT !.workers[i].job = Idle], j)
           r == AfterSettlement(f, made)
<1>1. i \in DOMAIN pool.workers /\ j # Idle /\ Handled(r, {j}, 0, made)
  <2>1. /\ i \in DOMAIN pool.workers /\ j # Idle
        /\ Handled(Then(f, LAMBDA q : AfterSettlement(q, made)), {j}, 0, made)
    BY DEF Result
  <2>2. Then(f, LAMBDA q : AfterSettlement(q, made)) = r
    <3>1. {AfterSettlement(t, made) : t \in {f}} = {r}
      OBVIOUS
    <3> QED
      BY <3>1, OneChoice DEF Then
  <2> QED
    BY <2>1, <2>2
<1>2. After(r, pool) /\ Full(r)
  BY <1>1, InvFacts, ResultFacts
<1>3. pool.state # "closed"
  BY <1>1, InvFacts, WorkersMeanOpen
<1>4. j \in Job
  <2>1. pool.workers \in Seq(Slot)
    BY InvFacts, FieldFacts
  <2> QED
    BY <1>1, <2>1, SlotFacts
<1> HIDE DEF r, j
<1>5. Closer \cap {j} = {}
  BY <1>4, PoolAssumption
<1>6. Fit(r, {j})
  BY <1>2, <1>3, <1>5, FitAfter
<1> QED
  BY <1>1, <1>6, HandledFacts

(* A worker fails.                                                         *)
LEMMA WorkerFailsStep ==
  ASSUME PoolInv, NEW i \in 1..MaxWorkers, NEW made \in 0..MaxWorkers, WorkerFails(i, made)
  PROVE  PoolInv'
<1> DEFINE r == WorkerFailure(pool, i, made)
<1>1. i \in DOMAIN pool.workers /\ Handled(r, {}, 1, made)
  BY DEF WorkerFails
<1>2. After(r, pool) /\ Full(r)
  BY <1>1, InvFacts, WorkerFailureFacts
<1>3. pool.state # "closed"
  BY <1>1, InvFacts, WorkersMeanOpen
<1> HIDE DEF r
<1>4. Fit(r, {})
  BY <1>2, <1>3, FitAfter
<1> QED
  BY <1>1, <1>4, HandledFacts

(* One termination fewer in flight, and some more that failed.             *)
LEMMA EndedFacts ==
  ASSUME NEW p, Sound(p), NEW n \in {0, 1}, p.retiring > 0
  PROVE  LET q == [p EXCEPT !.retiring = @ - 1, !.stuck = @ + n]
         IN /\ Sound(q) /\ q.state = p.state /\ q.jobs = p.jobs /\ Live(q) = Live(p) - 1 + n
            /\ q.pending = p.pending /\ IdleSlots(q) = IdleSlots(p)
<1> DEFINE a == p.retiring - 1  b == p.stuck + n  q == [p EXCEPT !.retiring = a, !.stuck = b]
<1>1. p \in Fields /\ Live(p) <= MaxWorkers /\ Live(p) \in Nat /\ MaxWorkers \in Nat
  BY SoundFacts, FieldFacts, PoolAssumption
<1>2. a \in Nat /\ b \in Nat /\ p.retiring \in Nat /\ p.stuck \in Nat /\ Len(p.workers) \in Nat
  BY <1>1, FieldFacts
<1>3. [p EXCEPT !.retiring = @ - 1, !.stuck = @ + n] = q
  BY <1>1 DEF Fields
<1> HIDE DEF a, b
<1>4. q \in Fields
  BY <1>1, <1>2 DEF Fields
<1>5. /\ q.workers = p.workers /\ q.pending = p.pending /\ q.jobs = p.jobs /\ q.out = p.out
      /\ q.state = p.state /\ q.retiring = a /\ q.stuck = b
  BY <1>1 DEF Fields
<1>6. q.woken = p.woken
  BY <1>1 DEF Fields
<1> HIDE DEF q
<1>7. Live(q) = Live(p) - 1 + n
  <2>1. Live(q) = Len(p.workers) + (p.retiring - 1) + (p.stuck + n)
    BY <1>5 DEF Live, a, b
  <2>2. Live(p) = Len(p.workers) + p.retiring + p.stuck
    BY DEF Live
  <2> QED
    BY <1>2, <2>1, <2>2
<1>8. Live(q) <= MaxWorkers
  BY <1>1, <1>7
<1>9. Sound(q)
  BY <1>4, <1>5, <1>6, <1>8, SoundFrame
<1>10. IdleSlots(q) = IdleSlots(p)
  BY <1>5 DEF IdleSlots
<1> QED
  BY <1>3, <1>5, <1>7, <1>9, <1>10

(* A thread has ended.                                                     *)
LEMMA RetiredStep ==
  ASSUME PoolInv, NEW made \in 0..MaxWorkers, Retired(made)
  PROVE  PoolInv'
<1> DEFINE p == [pool EXCEPT !.retiring = @ - 1]  r == AfterSettlement(p, made)
<1>1. pool.retiring > 0 /\ Handled(r, {}, 0, made)
  <2>1. pool.retiring > 0 /\ Handled(Then(p, LAMBDA q : AfterSettlement(q, made)), {}, 0, made)
    BY DEF Retired
  <2>2. Then(p, LAMBDA q : AfterSettlement(q, made)) = r
    <3>1. {AfterSettlement(t, made) : t \in {p}} = {r}
      OBVIOUS
    <3> QED
      BY <3>1, OneChoice DEF Then
  <2> QED
    BY <2>1, <2>2
<1>2. Sound(p) /\ p.state = pool.state /\ p.jobs = pool.jobs
  <2> DEFINE q == [pool EXCEPT !.retiring = @ - 1, !.stuck = @ + 0]
  <2>1. p = q
    <3> DEFINE a == pool.retiring - 1  b == pool.stuck + 0
    <3>1. pool \in Fields /\ b = pool.stuck
      BY InvFacts
    <3> HIDE DEF a, b
    <3>2. [pool EXCEPT !.retiring = a, !.stuck = b] = [pool EXCEPT !.retiring = a]
      BY <3>1 DEF Fields
    <3> QED
      BY <3>2 DEF a, b
  <2>2. Sound(q) /\ q.state = pool.state /\ q.jobs = pool.jobs
    BY <1>1, InvFacts, EndedFacts
  <2> HIDE DEF p, q
  <2> QED
    BY <2>1, <2>2
<1> HIDE DEF p
<1>3. After(r, p) /\ Full(r)
  BY <1>2, SettlementFacts
<1>4. Live(pool) # 0
  <2>1. Len(pool.workers) \in Nat
    BY InvFacts, FieldFacts
  <2> QED
    BY <1>1, <2>1, InvFacts DEF Live
<1> HIDE DEF r
<1>5. Fit(r, {})
  BY <1>2, <1>3, <1>4, FitAfter
<1> QED
  BY <1>1, <1>5, HandledFacts

(* A termination is rejected: the thread stays counted.                    *)
LEMMA RetireFailsStep == ASSUME PoolInv, RetireFails PROVE PoolInv'
<1> DEFINE r == [pool EXCEPT !.retiring = @ - 1, !.stuck = @ + 1]
<1>1. pool.retiring > 0 /\ Handled(r, {}, 1, MaxWorkers)
  BY DEF RetireFails
<1>2. /\ Sound(r) /\ r.state = pool.state /\ r.jobs = pool.jobs /\ Live(r) = Live(pool) - 1 + 1
      /\ r.pending = pool.pending /\ IdleSlots(r) = IdleSlots(pool)
  BY <1>1, InvFacts, EndedFacts
<1> HIDE DEF r
<1>3. Live(r) = Live(pool)
  BY <1>2, InvFacts
<1>4. Full(r)
  BY <1>2, <1>3, InvFacts DEF Full
<1>5. Fit(r, {})
  BY <1>2, <1>3, <1>4 DEF Fit
<1>6. MaxWorkers \in 0..MaxWorkers
  BY PoolAssumption
<1> QED
  BY <1>1, <1>5, <1>6, HandledFacts

(* close(), with or without drain.                                         *)
LEMMA CloseStep ==
  ASSUME PoolInv, NEW k \in Closer, NEW drain \in BOOLEAN, NEW made \in 0..MaxWorkers,
         Close(k, drain, made)
  PROVE  PoolInv'
<1> DEFINE closing == [pool EXCEPT !.state = "closing"]
           emptied == IF drain THEN closing ELSE CancelAll(closing, made)
           r == CloseIfEmpty(emptied)
<1>1. pool.state # "closed" /\ Handled(r, {k}, 0, made)
  <2>1. pool.state # "closed" /\ Handled(Then(emptied, CloseIfEmpty), {k}, 0, made)
    BY DEF Close
  <2>2. Then(emptied, CloseIfEmpty) = r
    <3> HIDE DEF emptied
    <3>1. {CloseIfEmpty(t) : t \in {emptied}} = {r}
      OBVIOUS
    <3> QED
      BY <3>1, OneChoice DEF Then
  <2> HIDE DEF r
  <2> QED
    BY <2>1, <2>2
<1>2. /\ closing.workers = pool.workers /\ closing.pending = pool.pending
      /\ closing.jobs = pool.jobs /\ closing.out = pool.out /\ closing.state = "closing"
      /\ closing.retiring = pool.retiring /\ closing.stuck = pool.stuck
  BY InvFacts DEF Fields
<1>3. closing \in Fields
  BY InvFacts DEF Fields
<1>4. ~closing.woken
  BY InvFacts DEF Fields
<1> HIDE DEF closing
<1>5. Live(closing) = Live(pool) /\ IdleSlots(closing) = IdleSlots(pool)
  BY <1>2 DEF Live, IdleSlots
<1>6. Sound(closing)
  <2>1. /\ Booked(pool) /\ Placed(pool, ToSet(pool.jobs))
    BY InvFacts, SoundFacts
  <2>2. Booked(closing)
    BY <1>2, <2>1 DEF Booked
  <2>3. Placed(closing, ToSet(pool.jobs))
    BY <1>2, <2>1, PlacedFrame
  <2>4. Within(closing)
    BY <1>2, <1>3, <1>4, <1>5, <2>2, InvFacts DEF Within
  <2> QED
    BY <1>2, <2>3, <2>4 DEF Sound
<1>7. Full(closing)
  BY <1>2, <1>5, InvFacts DEF Full
<1>8. /\ Sound(emptied) /\ Full(emptied) /\ emptied.state \in {"closing", "closed"}
      /\ ToSet(emptied.jobs) \subseteq ToSet(pool.jobs)
  <2>1. CASE drain
    BY <1>2, <1>6, <1>7, <2>1
  <2>2. CASE ~drain
    <3>1. After(emptied, closing) /\ emptied.jobs = <<>>
      BY <1>6, <2>2, CancelAllFacts
    <3>2. Sound(emptied) /\ emptied.state \in {"closing", "closed"} /\ ToSet(emptied.jobs) = {}
      BY <1>2, <3>1 DEF After, ToSet
    <3>3. emptied.pending \in Seq(Job) /\ ToSet(emptied.pending) \subseteq ToSet(emptied.jobs)
      <4>1. emptied \in Fields /\ Placed(emptied, ToSet(emptied.jobs))
        BY <3>2, SoundFacts
      <4> QED
        BY <4>1, FieldFacts DEF Placed
    <3>4. emptied.pending = <<>>
      BY <3>2, <3>3, EmptySet
    <3>5. Full(emptied)
      BY <3>4, NothingWaits
    <3> QED
      BY <3>2, <3>5
  <2> QED
    BY <2>1, <2>2
<1> HIDE DEF emptied
<1>9. Sound(r) /\ Full(r) /\ r.jobs = emptied.jobs /\ r.state \in {emptied.state, "closed"}
  BY <1>8, CloseIfEmptyFacts
<1> HIDE DEF r
<1>10. Fit(r, {k})
  BY <1>1, <1>8, <1>9 DEF Fit
<1> QED
  BY <1>1, <1>10, HandledFacts

(* The continuation of a drained close.                                    *)
LEMMA CloseDrainedStep ==
  ASSUME PoolInv, NEW k \in Closer, CloseDrained(k)
  PROVE  PoolInv'
<1> DEFINE r == TerminateAll(pool)
<1>1. closer[k] = "woken" /\ Handled(r, {k}, 0, MaxWorkers)
  BY DEF CloseDrained
<1>2. pool.jobs = <<>>
  BY <1>1 DEF PoolInv, ClosersOK
<1>3. r = CloseIfEmpty(pool)
  BY <1>2 DEF CloseIfEmpty
<1>4. Sound(r) /\ Full(r) /\ r.jobs = pool.jobs
  BY <1>3, InvFacts, CloseIfEmptyFacts
<1>5. r.state = "closed" /\ Live(r) = Live(pool)
  BY InvFacts, TerminateAllFacts
<1> HIDE DEF r
<1>6. Fit(r, {k})
  BY <1>4, <1>5 DEF Fit
<1>7. MaxWorkers \in 0..MaxWorkers
  BY PoolAssumption
<1> QED
  BY <1>1, <1>6, <1>7, HandledFacts

(* Steps that leave the pool alone.                                        *)
LEMMA PoolStays ==
  ASSUME PoolInv, UNCHANGED pool, Typed', ClosersOK',
         \A j \in Job : fate'[j] = "live" <=> fate[j] = "live"
  PROVE  PoolInv'
<1>1. /\ Sound(pool) /\ Full(pool) /\ ~pool.woken
      /\ \A j \in Job : fate[j] = "live" <=> j \in ToSet(pool.jobs)
  BY InvFacts
<1> QED
  BY <1>1 DEF PoolInv

(* parse() refuses a job.                                                  *)
LEMMA RefuseStep == ASSUME PoolInv, NEW j \in Job, Refuse(j) PROVE PoolInv'
<1>1. /\ fate[j] = "new" /\ fate' = [fate EXCEPT ![j] = "refused"]
      /\ pool' = pool /\ closer' = closer /\ faults' = faults
  BY DEF Refuse
<1>2. Typed'
  BY <1>1 DEF PoolInv, Typed
<1>3. ClosersOK'
  BY <1>1 DEF PoolInv, ClosersOK
<1>4. \A i \in Job : fate'[i] = "live" <=> fate[i] = "live"
  BY <1>1 DEF PoolInv, Typed
<1> QED
  BY <1>1, <1>2, <1>3, <1>4, PoolStays

(* A close() learns what became of the threads it waits for.               *)
LEMMA CloserStep ==
  ASSUME PoolInv, NEW k \in Closer, NEW s \in {"retiring", "failed", "closed"},
         pool.state = "closed", s = "closed" => Live(pool) = 0,
         closer' = [closer EXCEPT ![k] = s], UNCHANGED <<pool, fate, faults>>
  PROVE  PoolInv'
<1>1. Typed'
  BY DEF PoolInv, Typed
<1>2. ClosersOK'
  <2>1. /\ closer \in [Closer -> {"out", "draining", "woken", "retiring", "closed", "failed"}]
        /\ ClosersOK
    BY DEF PoolInv, Typed
  <2>2. \A h \in Closer : closer'[h] = IF h = k THEN s ELSE closer[h]
    BY <2>1
  <2> QED
    BY <2>1, <2>2 DEF ClosersOK
<1> QED
  BY <1>1, <1>2, PoolStays

(* The constructor, when it can spawn the minimum and when it cannot.      *)
LEMMA PoolInvInit == Init => PoolInv
<1> SUFFICES ASSUME Init PROVE PoolInv
  OBVIOUS
<1>1. PICK made \in 0..MaxWorkers : pool = [Spawn(Open, MinWorkers, made) EXCEPT !.woken = FALSE]
  BY DEF Init
<1> DEFINE r == Spawn(Open, MinWorkers, made)
<1>2. /\ Open.state = "open" /\ Open.workers = <<>> /\ Open.retiring = 0 /\ Open.stuck = 0
      /\ Open.pending = <<>> /\ Open.jobs = <<>> /\ Open.out = 0
  BY DEF Open
<1>3. ~Open.woken
  BY DEF Open
<1>4. Open \in Fields
  BY DEF Open, Fields
<1>5. Live(Open) = 0 /\ ToSet(Open.jobs) = {}
  BY <1>2 DEF Live, ToSet
<1>6. Booked(Open)
  <2>1. SumBytes({}) = 0
    BY FS_EmptySet, SumFacts
  <2>2. IsInjective(<<>>) /\ 0 <= QueueLimit /\ 0 <= MaxBytes
    BY PoolAssumption DEF IsInjective
  <2> QED
    BY <1>2, <1>5, <2>1, <2>2 DEF Booked
<1>7. Sound(Open)
  <2>1. Placed(Open, {})
    BY <1>2, NoJobs
  <2>2. Within(Open)
    BY <1>2, <1>3, <1>4, <1>5, <1>6, PoolAssumption DEF Within
  <2> QED
    BY <1>5, <2>1, <2>2 DEF Sound
<1>8. After(r, Open) /\ (r.state # "closed" => r.pending = Open.pending)
  <2>1. MinWorkers \in Nat /\ Live(Open) + MinWorkers <= MaxWorkers
    BY <1>5, PoolAssumption
  <2> QED
    BY <1>2, <1>7, <2>1, SpawnFacts
<1> HIDE DEF r
<1>9. Sound(r) /\ ToSet(r.jobs) = {}
  BY <1>5, <1>8 DEF After
<1>10. r.pending = <<>>
  BY <1>2, <1>8, <1>9, SoundFacts
<1>11. Sound(pool) /\ Full(pool) /\ ~pool.woken /\ pool.jobs = r.jobs
  <2> DEFINE q == [r EXCEPT !.woken = FALSE]
  <2>1. Full(r)
    BY <1>10, NothingWaits
  <2>2. Sound(q) /\ Full(q) /\ ~q.woken /\ q.jobs = r.jobs
    BY <1>9, <2>1, ClearFacts
  <2>3. pool = q
    BY <1>1 DEF r
  <2> HIDE DEF q
  <2> QED
    BY <2>2, <2>3
<1>12. closer = [k \in Closer |-> "out"] /\ fate = [j \in Job |-> "new"] /\ faults = 0
  BY DEF Init
<1>13. Typed
  BY <1>12, PoolAssumption DEF Typed
<1>14. ClosersOK
  BY <1>12 DEF ClosersOK
<1> QED
  BY <1>9, <1>11, <1>12, <1>13, <1>14 DEF PoolInv

(* Every step keeps the invariant.                                         *)
LEMMA PoolInvStep == PoolInv /\ [Next]_vars => PoolInv'
<1> SUFFICES ASSUME PoolInv, [Next]_vars PROVE PoolInv'
  OBVIOUS
<1>1. ASSUME NEW made \in 0..MaxWorkers, NEW j \in Job, Parse(j, made) PROVE PoolInv'
  BY <1>1, ParseStep
<1>2. ASSUME NEW made \in 0..MaxWorkers, NEW j \in Job, Cancel(j, made) PROVE PoolInv'
  BY <1>2, CancelStep
<1>3. ASSUME NEW made \in 0..MaxWorkers, NEW i \in 1..MaxWorkers, Ready(i, made) PROVE PoolInv'
  BY <1>3, ReadyStep
<1>4. ASSUME NEW made \in 0..MaxWorkers, NEW i \in 1..MaxWorkers, Result(i, made) PROVE PoolInv'
  BY <1>4, ResultStep
<1>5. ASSUME NEW made \in 0..MaxWorkers, NEW i \in 1..MaxWorkers, WorkerFails(i, made)
      PROVE  PoolInv'
  BY <1>5, WorkerFailsStep
<1>6. ASSUME NEW made \in 0..MaxWorkers, NEW k \in Closer, NEW drain \in BOOLEAN,
             Close(k, drain, made)
      PROVE  PoolInv'
  BY <1>6, CloseStep
<1>7. ASSUME NEW made \in 0..MaxWorkers, Retired(made) PROVE PoolInv'
  BY <1>7, RetiredStep
<1>8. CASE RetireFails
  BY <1>8, RetireFailsStep
<1>9. ASSUME NEW j \in Job, Refuse(j) PROVE PoolInv'
  BY <1>9, RefuseStep
<1>10. ASSUME NEW k \in Closer, CloseAgain(k) PROVE PoolInv'
  <2>1. /\ pool.state = "closed" /\ closer' = [closer EXCEPT ![k] = "retiring"]
        /\ UNCHANGED <<pool, fate, faults>>
    BY <1>10 DEF CloseAgain
  <2> QED
    BY <2>1, CloserStep
<1>11. ASSUME NEW k \in Closer, CloseDrained(k) PROVE PoolInv'
  BY <1>11, CloseDrainedStep
<1>12. ASSUME NEW k \in Closer, CloseEnds(k) PROVE PoolInv'
  <2> DEFINE s == IF pool.stuck > 0 THEN "failed" ELSE "closed"
  <2>1. /\ closer[k] = "retiring" /\ (pool.retiring = 0 \/ pool.stuck > 0)
        /\ closer' = [closer EXCEPT ![k] = s] /\ UNCHANGED <<pool, fate, faults>>
    BY <1>12 DEF CloseEnds
  <2>2. pool.state = "closed"
    BY <2>1 DEF PoolInv, ClosersOK
  <2>3. s = "closed" => Live(pool) = 0
    <3>1. pool.workers = <<>>
      BY <2>2, InvFacts, SoundFacts
    <3> QED
      BY <2>1, <3>1, InvFacts DEF Live
  <2>4. s \in {"retiring", "failed", "closed"}
    OBVIOUS
  <2> HIDE DEF s
  <2> QED
    BY <2>1, <2>2, <2>3, <2>4, CloserStep
<1>13. ASSUME NEW k \in Closer, CloseTimesOut(k) PROVE PoolInv'
  <2>1. /\ closer[k] = "retiring" /\ closer' = [closer EXCEPT ![k] = "failed"]
        /\ UNCHANGED <<pool, fate, faults>>
    BY <1>13 DEF CloseTimesOut
  <2>2. pool.state = "closed"
    BY <2>1 DEF PoolInv, ClosersOK
  <2> QED
    BY <2>1, <2>2, CloserStep
<1>14. CASE UNCHANGED vars
  <2>1. UNCHANGED pool /\ closer' = closer /\ fate' = fate /\ faults' = faults
    BY <1>14 DEF vars
  <2>2. Typed' /\ ClosersOK'
    BY <2>1 DEF PoolInv, Typed, ClosersOK
  <2> QED
    BY <2>1, <2>2, PoolStays
<1> QED
  BY <1>1, <1>2, <1>3, <1>4, <1>5, <1>6, <1>7, <1>8, <1>9, <1>10, <1>11, <1>12, <1>13, <1>14
  DEF Next

(* Between handlers the pool is sound, work is conserved, and promises and *)
(* close() calls agree with it.                                            *)
THEOREM PoolInvHolds == Spec => []PoolInv
<1>1. Init => PoolInv
  BY PoolInvInit
<1>2. PoolInv /\ [Next]_vars => PoolInv'
  BY PoolInvStep
<1> QED
  BY <1>1, <1>2, PTL DEF Spec

(* A sequence within a length.                                             *)
LEMMA ShortSequence ==
  ASSUME NEW S, NEW n \in Nat, NEW s \in Seq(S), Len(s) <= n
  PROVE  s \in SeqOf(S, n)
<1>1. Len(s) \in 0..n /\ s \in [1..Len(s) -> S]
  OBVIOUS
<1> QED
  BY <1>1 DEF SeqOf

(* The jobs that wait and the jobs that run are what the pool has booked.  *)
LEMMA PlacesFacts ==
  ASSUME NEW p, Sound(p)
  PROVE  /\ ToSet(p.jobs) = ToSet(p.pending) \cup Running(p)
         /\ Len(p.jobs) = Len(p.pending) + Cardinality(Running(p))
         /\ IsFiniteSet(Running(p)) /\ Cardinality(Running(p)) \in Nat
<1> DEFINE J == ToSet(p.jobs)  W == ToSet(p.pending)  R == Running(p)
<1>1. /\ p.jobs \in Seq(Job) /\ p.pending \in Seq(Job) /\ IsInjective(p.jobs)
      /\ Placed(p, J)
  BY SoundFacts, FieldFacts DEF Booked
<1>2. /\ IsInjective(p.pending) /\ W \subseteq J /\ J \subseteq W \cup R
      /\ \A i \in DOMAIN p.workers :
           p.workers[i].job # Idle => p.workers[i].job \in J /\ p.workers[i].job \notin W
  BY <1>1 DEF Placed
<1>3. R \subseteq J /\ R \cap W = {}
  BY <1>2 DEF Running
<1>4. /\ IsFiniteSet(J) /\ IsFiniteSet(W)
      /\ Cardinality(J) = Len(p.jobs) /\ Cardinality(W) = Len(p.pending)
  BY <1>1, <1>2, CountElements
<1> HIDE DEF J, W, R
<1>5. IsFiniteSet(R) /\ Cardinality(R) \in Nat
  BY <1>3, <1>4, FS_Subset, FS_CardinalityType
<1>6. J = W \cup R /\ W \cap R = {}
  BY <1>2, <1>3
<1>7. Cardinality(W \cup R) = Cardinality(W) + Cardinality(R)
  <2>1. Cardinality(W \cap R) = 0
    BY <1>6, FS_EmptySet
  <2>2. Cardinality(W) \in Nat
    BY <1>4, FS_CardinalityType
  <2>3. Cardinality(W \cup R) = Cardinality(W) + Cardinality(R) - Cardinality(W \cap R)
    BY <1>4, <1>5, FS_Union
  <2> QED
    BY <1>5, <2>1, <2>2, <2>3
<1> QED
  BY <1>4, <1>5, <1>6, <1>7 DEF J, W, R

(* The invariant bounds the counts, the queue and its bytes.               *)
LEMMA InvImpliesType == PoolInv => TypeOK
<1> SUFFICES ASSUME PoolInv PROVE TypeOK
  OBVIOUS
<1> DEFINE p == pool
<1>1. /\ p \in Fields /\ Live(p) <= MaxWorkers /\ Booked(p) /\ Sound(p) /\ ~p.woken
      /\ MaxWorkers \in Nat /\ QueueLimit \in Nat /\ MaxBytes \in Nat
  BY InvFacts, SoundFacts, PoolAssumption
<1>2. /\ p.state \in {"open", "closing", "closed"} /\ p.workers \in Seq(Slot)
      /\ p.retiring \in Nat /\ p.stuck \in Nat /\ p.pending \in Seq(Job) /\ p.jobs \in Seq(Job)
      /\ Len(p.workers) \in Nat /\ Len(p.jobs) \in Nat /\ Len(p.pending) \in Nat
  BY <1>1, FieldFacts
<1>3. /\ Len(p.workers) <= MaxWorkers /\ p.retiring \in 0..MaxWorkers /\ p.stuck \in 0..MaxWorkers
  BY <1>1, <1>2 DEF Live
<1>4. Len(p.jobs) <= QueueLimit
  BY <1>1 DEF Booked
<1>5. Len(p.pending) <= QueueLimit
  BY <1>1, <1>2, <1>4, PlacesFacts
<1>6. p.out \in 0..MaxBytes
  <2>1. p.out = SumBytes(ToSet(p.jobs)) /\ p.out <= MaxBytes
    BY <1>1 DEF Booked
  <2>2. SumBytes(ToSet(p.jobs)) \in Nat
    BY <1>2, CountElements, SumFacts
  <2> QED
    BY <1>1, <2>1, <2>2
<1>7. /\ p.workers \in SeqOf(Slot, MaxWorkers) /\ p.pending \in SeqOf(Job, QueueLimit)
      /\ p.jobs \in SeqOf(Job, QueueLimit)
  BY <1>1, <1>2, <1>3, <1>4, <1>5, ShortSequence
<1>8. p.woken \in BOOLEAN
  BY <1>1 DEF Fields
<1>9. p = [state |-> p.state, workers |-> p.workers, retiring |-> p.retiring, stuck |-> p.stuck,
           pending |-> p.pending, jobs |-> p.jobs, out |-> p.out, woken |-> p.woken]
  BY <1>1 DEF Fields
<1>10. pool \in Pool
  <2> HIDE DEF p
  <2>1. p \in Pool
    BY <1>2, <1>3, <1>6, <1>7, <1>8, <1>9 DEF Pool
  <2> QED
    BY <2>1 DEF p
<1>11. Typed
  BY DEF PoolInv
<1> QED
  BY <1>1, <1>10, <1>11 DEF TypeOK, Typed

(* Type correctness, with the limits on workers, queue and bytes.          *)
THEOREM PoolTyped == Spec => []TypeOK
  BY PoolInvHolds, InvImpliesType, PTL

(* The places of jobs are counted.                                         *)
LEMMA InvImpliesOnePlace == PoolInv => JobsHaveOnePlace
<1> SUFFICES ASSUME PoolInv PROVE JobsHaveOnePlace
  OBVIOUS
<1>1. Sound(pool) /\ pool.jobs \in Seq(Job)
  BY InvFacts
<1>2. \A j \in Job : fate[j] = "live" <=> Contains(pool.jobs, j)
  BY <1>1, InvFacts, ContainsFacts
<1>3. \A i, h \in DOMAIN pool.workers :
        pool.workers[i].job = pool.workers[h].job /\ i # h => pool.workers[i].job = Idle
  BY <1>1, SoundFacts DEF Placed
<1>4. pool.out = SumBytes(ToSet(pool.jobs))
  BY <1>1, SoundFacts DEF Booked
<1> QED
  BY <1>1, <1>2, <1>3, <1>4, PlacesFacts DEF JobsHaveOnePlace

(* Every open promise belongs to one job that waits once or runs on one    *)
(* worker, and the reserved bytes are the sum of theirs, whichever of      *)
(* parse, cancellation, answer, failure and close came before.             *)
THEOREM EveryJobHasOnePlace == Spec => []JobsHaveOnePlace
  BY PoolInvHolds, InvImpliesOnePlace, PTL

(* Live threads, those that are being terminated included, never exceed    *)
(* maxWorkers: no method replaces a worker before its thread has ended.    *)
THEOREM ThreadsAreBounded == Spec => []WorkersBounded
<1>1. PoolInv => WorkersBounded
  BY InvFacts DEF WorkersBounded
<1> QED
  BY <1>1, PoolInvHolds, PTL

(* No job waits beside an idle worker or below the bound on threads, after *)
(* any handler.                                                            *)
THEOREM NoIdleWorkerWhileJobsWait == Spec => []WaitingMeansFull
<1>1. PoolInv => WaitingMeansFull
  BY InvFacts DEF WaitingMeansFull, Full
<1> QED
  BY <1>1, PoolInvHolds, PTL

(* A closed pool has neither job nor worker, and a close() that reports    *)
(* success leaves no thread alive.                                         *)
THEOREM ClosedPoolsAreGone == Spec => []ClosedMeansGone
<1>1. PoolInv => ClosedMeansGone
  <2> SUFFICES ASSUME PoolInv PROVE ClosedMeansGone
    OBVIOUS
  <2>1. ClosedIsQuiet
    BY InvFacts, SoundFacts DEF ClosedIsQuiet
  <2>2. (\E k \in Closer : closer[k] = "closed") => Live(pool) = 0
    BY DEF PoolInv, ClosersOK
  <2> QED
    BY <2>1, <2>2 DEF ClosedMeansGone
<1> QED
  BY <1>1, PoolInvHolds, PTL
=============================================================================
