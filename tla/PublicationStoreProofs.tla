----------------------- MODULE PublicationStoreProofs -----------------------
(***************************************************************************)
(* Proofs about PublicationStore (src/src/intelligence/storage/store.ts,   *)
(* src/src/intelligence/mutation/freshness.ts), for any number of          *)
(* refreshes, inputs, tables and attempts.                                 *)
(*                                                                         *)
(* StoreInv is inductive: a section stands over a reservation and on what  *)
(* it has written, a running collection spares the pin of a reader and     *)
(* what readers take as the latest. The promises to readers and to peers   *)
(* follow step by step. WholeInv, that what is recorded is linked, needs a *)
(* collection that deletes all it finds obsolete.                          *)
(***************************************************************************)
EXTENDS PublicationStore, Sequences, FiniteSetTheorems, WellFoundedInduction, TLAPS

(* A set of naturals that has a bound has a largest member.                *)
LEMMA Largest ==
  ASSUME NEW S \in SUBSET Nat, NEW n \in Nat, S # {}, \A s \in S : s <= n
  PROVE  \E m \in S : \A s \in S : s <= m
<1> DEFINE T == {k \in Nat : \A s \in S : s <= k}
<1>1. T \subseteq Nat /\ T # {}
  OBVIOUS
<1>2. \E m \in T : \A y \in T : ~(<<y, m>> \in OpToRel(<, Nat))
  <2> HIDE DEF T
  <2> QED
    BY <1>1, NatLessThanWellFounded, WFMin
<1>3. PICK m \in T : \A y \in T : ~(y < m)
  BY <1>1, <1>2 DEF OpToRel
<1>4. m \in S
  <2> SUFFICES ASSUME m \notin S PROVE FALSE
    OBVIOUS
  <2>1. m \in Nat /\ \A s \in S : s \in Nat /\ s < m
    OBVIOUS
  <2>2. PICK s \in S : TRUE
    OBVIOUS
  <2>3. m - 1 \in Nat
    BY <2>1, <2>2
  <2>4. \A y \in S : y <= m - 1
    BY <2>1, <2>3
  <2> QED
    BY <1>3, <2>1, <2>3, <2>4
<1> QED
  BY <1>4

(* There is a first and a last table, and the next one after any other.    *)
LEMMA TableFacts ==
  /\ Cardinality(Tables) \in Nat \ {0} /\ Tables = 1..Cardinality(Tables)
  /\ 1 \in Tables
  /\ \A t \in Tables : t \in Nat /\ (t < Cardinality(Tables) => t + 1 \in Tables)
<1>1. Cardinality(Tables) \in Nat
  BY ConstantsAssumption, FS_CardinalityType
<1>2. Tables = 1..Cardinality(Tables) /\ Tables # {}
  BY ConstantsAssumption
<1> QED
  BY <1>1, <1>2

(* A generation is named by an input and one of its attempts.              *)
LEMMA GenFacts == \A g \in Gens : g.input \in Inputs /\ g.attempt \in 1..Attempts[g.input]
  BY DEF Gens

(* What an input needs in a table are artifacts.                           *)
LEMMA NeedsFacts == \A i \in Inputs, t \in Tables : Needs[i][t] \subseteq Artifacts
  BY ConstantsAssumption DEF Artifacts

(* Records keep sets of artifacts by table; the empty one keeps none.      *)
LEMMA RecordFacts ==
  /\ NoRecord \in Records /\ DOMAIN NoRecord.versions = {}
  /\ \A r \in Records : /\ DOMAIN r.versions \subseteq Tables
                        /\ \A t \in DOMAIN r.versions : r.versions[t] \subseteq Artifacts
<1> DEFINE none == << >>
<1>0. none \in Seq(SUBSET Artifacts) /\ Len(none) = 0
  OBVIOUS
<1>1. none \in Versions /\ DOMAIN none = {}
  <2> HIDE DEF none
  <2>1. DOMAIN none = {} /\ none \in [{} -> SUBSET Artifacts]
    BY <1>0
  <2> QED
    BY <2>1 DEF Versions
<1> QED
  BY <1>1 DEF Records, NoRecord, Versions

(* The store starts empty.                                                 *)
LEMMA InitStore == Init => StoreInv
<1> SUFFICES ASSUME Init PROVE StoreInv
  OBVIOUS
<1>1. Shape
  BY TableFacts, RecordFacts DEF Init, Shape, Engaged, Section, Idle
<1>2. TypeOK
  <2>1. \A g \in Gens :
          /\ pubs[g].state \in {"none", "reserved", "abandoned", "published"}
          /\ pubs[g].at = 0 /\ pubs[g].lapsed \in BOOLEAN
          /\ DOMAIN pubs[g].versions = {}
    BY RecordFacts DEF Init, NoRecord
  <2>2. links \in [Gens -> [Tables -> SUBSET Artifacts]] /\ rows \in [Tables -> SUBSET Artifacts]
    BY DEF Init, Unlinked
  <2>3. \A c \in Calls :
          /\ call[c].step = "start" /\ call[c].token = Nobody /\ call[c].table \in Tables
          /\ writer # c
    BY TableFacts, ConstantsAssumption DEF Init, Idle
  <2>4. /\ writer = Nobody /\ step = "start" /\ Nobody # collector /\ spared = {} /\ clock = 0
        /\ faults \in 0..MaxFaults
    BY ConstantsAssumption DEF Init
  <2> QED
    BY <2>1, <2>2, <2>3, <2>4 DEF TypeOK
<1>3. SectionInv /\ PinInv /\ LatestInv
  BY DEF Init, SectionInv, PinInv, LatestInv, Idle, Section
<1> QED
  BY <1>1, <1>2, <1>3 DEF StoreInv

----------------------------------------------------------------------------
(* A refresh changes its own entry only, and a step of it that leaves the  *)
(* entry well formed leaves all of them so.                                *)
LEMMA CallStep ==
  ASSUME Shape, NEW c \in Calls, NEW e, call' = [call EXCEPT ![c] = e],
         e \in [step : {"start", "reserve", "done"} \cup Engaged,
                token : Gens \cup {Nobody}, table : Tables],
         e.step \in Engaged => e.token \in Gens /\ e.token.input = InputOf[c]
  PROVE  /\ call' \in [Calls -> [step : {"start", "reserve", "done"} \cup Engaged,
                                 token : Gens \cup {Nobody}, table : Tables]]
         /\ \A d \in Calls : call'[d].step \in Engaged =>
              call'[d].token \in Gens /\ call'[d].token.input = InputOf[d]
  BY DEF Shape

(* Going on to a step, for a refresh that has its generation if it needs   *)
(* one there.                                                              *)
LEMMA GoStep ==
  ASSUME Shape, NEW c \in Calls, NEW next \in {"reserve"} \cup Engaged, Go(c, next),
         next = "reserve" \/ call[c].step \in Engaged
  PROVE  /\ call' \in [Calls -> [step : {"start", "reserve", "done"} \cup Engaged,
                                 token : Gens \cup {Nobody}, table : Tables]]
         /\ \A d \in Calls : call'[d].step \in Engaged =>
              call'[d].token \in Gens /\ call'[d].token.input = InputOf[d]
<1>1. "reserve" \notin Engaged
  BY DEF Engaged, Section
<1> QED
  BY <1>1 DEF Shape, Go

(* A refresh that ends, or starts again, works for no generation.          *)
LEMMA EndStep ==
  ASSUME Shape, NEW c \in Calls, NEW last \in {"start", "done"}, End(c, last)
  PROVE  /\ call' \in [Calls -> [step : {"start", "reserve", "done"} \cup Engaged,
                                 token : Gens \cup {Nobody}, table : Tables]]
         /\ \A d \in Calls : call'[d].step \in Engaged =>
              call'[d].token \in Gens /\ call'[d].token.input = InputOf[d]
  BY TableFacts DEF Shape, End, Idle, Engaged, Section

(* A record stays one when it is reserved or abandoned.                    *)
LEMMA StateStep ==
  ASSUME Shape, NEW g \in Gens, NEW v \in {"reserved", "abandoned"},
         pubs' = [pubs EXCEPT ![g].state = v]
  PROVE  pubs' \in [Gens -> Records]
  BY DEF Shape, Records

(* Of the active reservations of an input, the code takes the one of the   *)
(* last attempt.                                                           *)
LEMMA LastActive ==
  ASSUME NEW i \in Inputs, NEW active \in SUBSET {g \in Gens : g.input = i}, active # {}
  PROVE  LET last == CHOOSE g \in active : \A h \in active : h.attempt <= g.attempt
         IN last \in active
<1> DEFINE A == {g.attempt : g \in active}
<1>1. Attempts[i] \in Nat /\ \A g \in active : g \in Gens /\ g.input = i
  BY ConstantsAssumption
<1>2. A \in SUBSET Nat /\ A # {} /\ \A a \in A : a <= Attempts[i]
  BY <1>1, GenFacts
<1>3. \E m \in A : \A a \in A : a <= m
  <2> HIDE DEF A
  <2> QED
    BY <1>1, <1>2, Largest
<1> QED
  BY <1>3

(* Every step keeps the records, the refreshes and the reader well formed. *)
LEMMA ShapeStep ==
  ASSUME TypeOK, Shape, [Next]_vars
  PROVE  Shape'
<1> DEFINE Calling == [step : {"start", "reserve", "done"} \cup Engaged,
                       token : Gens \cup {Nobody}, table : Tables]
<1>1. ASSUME NEW c \in Calls, Reuse(c) PROVE Shape'
  BY <1>1, EndStep, GoStep DEF Reuse, Shape
<1>2. ASSUME NEW c \in Calls, Reserve(c) PROVE Shape'
  <2>1. PICK held \in Gens :
          /\ held.input = InputOf[c]
          /\ pubs' = pubs \/ pubs' = [pubs EXCEPT ![held] = [NoRecord EXCEPT !.state = "reserved"]]
          /\ \/ call' = [call EXCEPT ![c] = [step |-> "put", token |-> held, table |-> 1]]
             \/ End(c, "start")
    <3> DEFINE i == InputOf[c]
               active == {g \in Gens : g.input = i /\ Active(g)}
               fresh == [input |-> i, attempt |-> Attempt(i)]
               last == CHOOSE g \in active : \A h \in active : h.attempt <= g.attempt
               held == IF active = {} THEN fresh ELSE last
    <3>1. held.input = i
      <4>1. CASE active = {}
        BY <4>1
      <4>2. CASE active # {}
        <5>1. i \in Inputs /\ active \in SUBSET {g \in Gens : g.input = i}
          BY ConstantsAssumption
        <5>2. last \in active
          <6> HIDE DEF active
          <6> QED
            BY <4>2, <5>1, LastActive
        <5> QED
          BY <4>2, <5>2
      <4> QED
        BY <4>1, <4>2
    <3>2. /\ held \in Gens
          /\ pubs' = IF active # {} THEN pubs
                     ELSE [pubs EXCEPT ![fresh] = [NoRecord EXCEPT !.state = "reserved"]]
          /\ \/ call' = [call EXCEPT ![c] = [step |-> "put", token |-> held, table |-> 1]]
             \/ End(c, "start")
      BY <1>2 DEF Reserve
    <3>3. pubs' = pubs \/ pubs' = [pubs EXCEPT ![held] = [NoRecord EXCEPT !.state = "reserved"]]
      BY <3>2
    <3> HIDE DEF held
    <3> QED
      BY <3>1, <3>2, <3>3
  <2>2. [NoRecord EXCEPT !.state = "reserved"] \in Records
    BY RecordFacts DEF Records
  <2>3. pubs' \in [Gens -> Records]
    BY <2>1, <2>2 DEF Shape
  <2>4. CASE End(c, "start")
    BY <1>2, <2>3, <2>4, EndStep DEF Reserve, Shape
  <2>5. CASE call' = [call EXCEPT ![c] = [step |-> "put", token |-> held, table |-> 1]]
    BY <1>2, <2>1, <2>3, <2>5, CallStep, TableFacts DEF Reserve, Shape, Engaged
  <2> QED
    BY <2>1, <2>4, <2>5
<1>3. ASSUME NEW c \in Calls, Put(c) \/ WriteRows(c) \/ Link(c) PROVE Shape'
  BY <1>3, GoStep DEF Put, WriteRows, Link, Shape, Engaged, Section
<1>4. ASSUME NEW c \in Calls, Record(c) PROVE Shape'
  <2> DEFINE t == call[c].table  g == call[c].token
             v == [u \in DOMAIN pubs[g].versions \cup {t} |->
                     IF u = t THEN rows[t] ELSE pubs[g].versions[u]]
  <2>1. /\ t \in Tables /\ g \in Gens /\ g.input = InputOf[c] /\ rows[t] \in SUBSET Artifacts
        /\ pubs[g] \in Records
    BY <1>4 DEF Record, Shape, TypeOK, Engaged, Section
  <2>2. v \in Versions
    <3> DEFINE old == pubs[g].versions  S == rows[t]
    <3>1. PICK D \in SUBSET Tables : old \in [D -> SUBSET Artifacts]
      BY <2>1 DEF Records, Versions
    <3> HIDE DEF old, S, t
    <3>2. S \in SUBSET Artifacts /\ t \in Tables
      BY <2>1 DEF S, t
    <3>3. [u \in DOMAIN old \cup {t} |-> IF u = t THEN S ELSE old[u]] \in
            [D \cup {t} -> SUBSET Artifacts]
      BY <3>1, <3>2
    <3>4. v \in [D \cup {t} -> SUBSET Artifacts] /\ D \cup {t} \in SUBSET Tables
      BY <3>2, <3>3 DEF old, S, t
    <3> QED
      BY <3>4 DEF Versions
  <2>3. pubs' = [pubs EXCEPT ![g].versions = v]
    BY <1>4 DEF Record, Shape
  <2>4. pubs' \in [Gens -> Records]
    <3> HIDE DEF v, g
    <3> QED
      BY <2>1, <2>2, <2>3 DEF Shape, Records
  <2>5. CASE /\ t < Cardinality(Tables)
             /\ call' = [call EXCEPT ![c].step = "put", ![c].table = t + 1]
    <3>1. t + 1 \in Tables
      BY <2>1, <2>5, TableFacts
    <3> DEFINE e == [call[c] EXCEPT !.step = "put", !.table = t + 1]
    <3>2. e \in Calling /\ e.step = "put" /\ e.token = g
      BY <3>1 DEF Shape, Engaged
    <3>3. call' = [call EXCEPT ![c] = e]
      BY <2>5 DEF Shape
    <3> HIDE DEF e
    <3> QED
      BY <1>4, <2>1, <2>4, <3>2, <3>3, CallStep DEF Record, Shape
  <2>6. CASE Go(c, "finalize") \/ Go(c, "abandon")
    BY <1>4, <2>4, <2>6, GoStep DEF Record, Shape, Engaged, Section
  <2> QED
    BY <1>4, <2>5, <2>6 DEF Record
<1>5. ASSUME NEW c \in Calls, Finalize(c) PROVE Shape'
  <2>1. call[c].token \in Gens
    BY <1>5 DEF Finalize, Shape, Engaged
  <2>2. pubs' \in [Gens -> Records]
    BY <1>5, <2>1 DEF Finalize, Shape, Records, TypeOK
  <2> QED
    BY <1>5, <2>2, EndStep, GoStep DEF Finalize, Shape, Engaged
<1>6. ASSUME NEW c \in Calls, Abandon(c) PROVE Shape'
  BY <1>6, StateStep, EndStep DEF Abandon, Shape, Engaged
<1>7. ASSUME NEW c \in Calls, Fails(c) \/ Crash(c) PROVE Shape'
  BY <1>7, EndStep, GoStep DEF Fails, Crash, Shape, Engaged, Section
<1>8. ASSUME NEW g \in Gens, Lapse(g) PROVE Shape'
  BY <1>8 DEF Lapse, Shape, Records
<1>9. CASE Collection
  <2>1. pubs' \in [Gens -> Records]
    BY <1>9, RecordFacts DEF Collection, Collect, DeletePublications, DeleteLinks, DeleteRows,
       CollectStops, Shape
  <2> QED
    BY <1>9, <2>1 DEF Collection, Collect, DeletePublications, DeleteLinks, DeleteRows,
       CollectStops, Shape
<1>10. CASE Reading
  <2>1. CASE FindLatest
    <3>1. PICK g \in Gens : reader' = [step |-> "checked", gen |-> g, record |-> pubs[g]]
      BY <2>1 DEF FindLatest, Latest
    <3>2. pubs[g] \in Records
      BY DEF Shape
    <3> QED
      BY <2>1, <3>1, <3>2 DEF FindLatest, Shape
  <2>2. CASE WritePin
    <3>1. reader.gen \in Gens /\ reader.record \in Records
      BY <2>2 DEF WritePin, Shape
    <3> QED
      BY <2>2, <3>1 DEF WritePin, Shape
  <2>3. CASE LapsePin
    <3>1. reader \in [step : {"open"}, gen : Gens, record : Records, lapsed : BOOLEAN]
      BY <2>3 DEF LapsePin, Shape
    <3>2. reader' \in [step : {"open"}, gen : Gens, record : Records, lapsed : BOOLEAN]
      BY <2>3, <3>1 DEF LapsePin
    <3> QED
      BY <2>3, <3>2 DEF LapsePin, Shape
  <2>4. CASE Close
    BY <2>4 DEF Close, Shape
  <2> QED
    BY <1>10, <2>1, <2>2, <2>3, <2>4 DEF Reading
<1>11. CASE UNCHANGED vars
  BY <1>11 DEF vars, Shape
<1> QED
  BY <1>1, <1>2, <1>3, <1>4, <1>5, <1>6, <1>7, <1>8, <1>9, <1>10, <1>11 DEF Next, Refresh

----------------------------------------------------------------------------
(* A record is as old as the publication it became.                        *)
LEMMA AgeStep ==
  ASSUME TypeOK, Shape, [Next]_vars
  PROVE  clock' \in Nat /\ \A g \in Gens : pubs'[g].at \in 0..clock'
<1>0. clock \in Nat /\ \A g \in Gens : pubs[g].at \in 0..clock
  BY DEF TypeOK
<1>1. ASSUME UNCHANGED <<pubs, clock>>
      PROVE  clock' \in Nat /\ \A g \in Gens : pubs'[g].at \in 0..clock'
  BY <1>0, <1>1
<1>2. ASSUME NEW c \in Calls, Reserve(c)
      PROVE  clock' \in Nat /\ \A g \in Gens : pubs'[g].at \in 0..clock'
  BY <1>0, <1>2 DEF Reserve, NoRecord, Shape
<1>3. ASSUME NEW c \in Calls, Record(c) \/ Abandon(c)
      PROVE  clock' \in Nat /\ \A g \in Gens : pubs'[g].at \in 0..clock'
  BY <1>0, <1>3 DEF Record, Abandon, Shape, Records
<1>4. ASSUME NEW c \in Calls, Finalize(c)
      PROVE  clock' \in Nat /\ \A g \in Gens : pubs'[g].at \in 0..clock'
  BY <1>0, <1>4 DEF Finalize, Shape, Records
<1>5. ASSUME NEW g \in Gens, Lapse(g)
      PROVE  clock' \in Nat /\ \A h \in Gens : pubs'[h].at \in 0..clock'
  BY <1>0, <1>5 DEF Lapse, Shape, Records
<1>6. CASE DeletePublications
  BY <1>0, <1>6 DEF DeletePublications, NoRecord
<1> QED
  BY <1>1, <1>2, <1>3, <1>4, <1>5, <1>6
     DEF Next, Refresh, Collection, Reading, Reuse, Put, WriteRows, Link, Fails, Crash, Collect,
         DeleteLinks, DeleteRows, CollectStops, FindLatest, WritePin, LapsePin, Close, vars

(* Rows and links stay within what the inputs need.                        *)
LEMMA TableStep ==
  ASSUME TypeOK, Shape, [Next]_vars
  PROVE  /\ links' \in [Gens -> [Tables -> SUBSET Artifacts]]
         /\ rows' \in [Tables -> SUBSET Artifacts]
<1>0. links \in [Gens -> [Tables -> SUBSET Artifacts]] /\ rows \in [Tables -> SUBSET Artifacts]
  BY DEF TypeOK
<1>1. ASSUME UNCHANGED <<links, rows>>
      PROVE  /\ links' \in [Gens -> [Tables -> SUBSET Artifacts]]
             /\ rows' \in [Tables -> SUBSET Artifacts]
  BY <1>0, <1>1
<1>2. ASSUME NEW c \in Calls, WriteRows(c) \/ Link(c)
      PROVE  /\ links' \in [Gens -> [Tables -> SUBSET Artifacts]]
             /\ rows' \in [Tables -> SUBSET Artifacts]
  <2>1. /\ call[c].table \in Tables /\ call[c].token \in Gens
        /\ Needs[InputOf[c]][call[c].table] \subseteq Artifacts
    BY <1>2, NeedsFacts, ConstantsAssumption DEF WriteRows, Link, Shape, Engaged, Section
  <2> QED
    BY <1>0, <1>2, <2>1 DEF WriteRows, Link
<1>3. ASSUME DeleteLinks \/ DeleteRows
      PROVE  /\ links' \in [Gens -> [Tables -> SUBSET Artifacts]]
             /\ rows' \in [Tables -> SUBSET Artifacts]
  BY <1>0, <1>3 DEF DeleteLinks, DeleteRows, Unlinked
<1> QED
  BY <1>1, <1>2, <1>3
     DEF Next, Refresh, Collection, Reading, Reuse, Reserve, Put, Record, Finalize, Abandon, Fails,
         Crash, Lapse, Collect, DeletePublications, CollectStops, FindLatest, WritePin, LapsePin,
         Close, vars

(* Whoever is inside a section holds the writer's lock.                    *)
Holding(c) == call[c].step \in Section <=> writer = c

(* No step breaks that, nor lets a refresh into the section of a           *)
(* collection.                                                             *)
LEMMA WriterStep ==
  ASSUME TypeOK, Shape, [Next]_vars
  PROVE  /\ writer' \in Calls \cup {collector, Nobody}
         /\ \A d \in Calls : Holding(d)'
         /\ (step # "start" <=> writer = collector)'
<1> DEFINE Goal == /\ writer' \in Calls \cup {collector, Nobody}
                   /\ \A d \in Calls : Holding(d)'
                   /\ (step # "start" <=> writer = collector)'
<1>0. /\ writer \in Calls \cup {collector, Nobody}
      /\ \A d \in Calls : Holding(d)
      /\ step # "start" <=> writer = collector
      /\ Nobody \notin Calls /\ collector \notin Calls \cup {Nobody}
  BY ConstantsAssumption DEF TypeOK, Holding, Section
<1>1. ASSUME NEW c \in Calls, Reuse(c) \/ Reserve(c) \/ Finalize(c) \/ Abandon(c) PROVE Goal
  BY <1>0, <1>1 DEF Reuse, Reserve, Finalize, Abandon, Go, End, Idle, Shape, Holding, Section
<1>2. ASSUME NEW c \in Calls, Put(c) \/ WriteRows(c) \/ Link(c) PROVE Goal
  BY <1>0, <1>2 DEF Put, WriteRows, Link, Go, Shape, Holding, Section
<1>3. ASSUME NEW c \in Calls, Record(c) PROVE Goal
  BY <1>0, <1>3 DEF Record, Go, Shape, Holding, Section
<1>4. ASSUME NEW c \in Calls, Fails(c) \/ Crash(c) PROVE Goal
  BY <1>0, <1>4 DEF Fails, Crash, Go, End, Idle, Shape, Holding, Section
<1>5. ASSUME NEW g \in Gens, Lapse(g) PROVE Goal
  BY <1>0, <1>5 DEF Lapse, Holding
<1>6. CASE Collection
  BY <1>0, <1>6 DEF Collection, Collect, DeletePublications, DeleteLinks, DeleteRows,
     CollectStops, Holding
<1>7. CASE Reading \/ UNCHANGED vars
  BY <1>0, <1>7 DEF Reading, FindLatest, WritePin, LapsePin, Close, vars, Holding
<1> QED
  BY <1>1, <1>2, <1>3, <1>4, <1>5, <1>6, <1>7 DEF Next, Refresh

(* Faults are counted, and a collection spares generations.                *)
LEMMA CountStep ==
  ASSUME TypeOK, Shape, [Next]_vars
  PROVE  faults' \in 0..MaxFaults /\ spared' \subseteq Gens
<1>0. faults \in 0..MaxFaults /\ spared \subseteq Gens /\ MaxFaults \in Nat
  BY ConstantsAssumption DEF TypeOK
<1>1. CASE Collect
  <2>1. \A pins \in Pins : pins \subseteq Gens
    BY DEF Pins, Shape
  <2> QED
    BY <1>0, <1>1, <2>1 DEF Collect, Protected
<1>2. faults' = faults \/ Fault
  BY DEF Next, Refresh, Collection, Reading, Reuse, Reserve, Put, WriteRows, Link, Record, Finalize,
     Abandon, Fails, Crash, Lapse, Collect, DeletePublications, DeleteLinks, DeleteRows,
     CollectStops, FindLatest, WritePin, LapsePin, Close, vars
<1>3. spared' \in {spared, {}} \/ Collect
  BY DEF Next, Refresh, Collection, Reading, Reuse, Reserve, Put, WriteRows, Link, Record, Finalize,
     Abandon, Fails, Crash, Lapse, DeletePublications, DeleteLinks, DeleteRows,
     CollectStops, FindLatest, WritePin, LapsePin, Close, vars
<1> QED
  BY <1>0, <1>1, <1>2, <1>3 DEF Fault

(* Every step keeps the types.                                             *)
LEMMA TypeStep ==
  ASSUME TypeOK, Shape, [Next]_vars
  PROVE  TypeOK'
<1>1. Shape'
  BY ShapeStep
<1>2. \A g \in Gens :
        /\ pubs'[g].state \in {"none", "reserved", "abandoned", "published"}
        /\ pubs'[g].lapsed \in BOOLEAN
        /\ DOMAIN pubs'[g].versions \subseteq Tables
        /\ \A t \in DOMAIN pubs'[g].versions : pubs'[g].versions[t] \subseteq Artifacts
  <2>1. \A g \in Gens : pubs'[g] \in Records
    BY <1>1 DEF Shape
  <2> QED
    BY <2>1, RecordFacts DEF Records
<1>3. \A c \in Calls :
       /\ call'[c].step \in {"start", "reserve", "put", "rows", "link", "record", "finalize",
                             "abandon", "done"}
       /\ call'[c].token \in Gens \cup {Nobody} /\ call'[c].table \in Tables
  BY <1>1 DEF Shape, Engaged, Section
<1>4. \A c \in Calls : call'[c].step \in {"rows", "link", "record"} <=> writer' = c
  BY WriterStep DEF Holding, Section
<1> QED
  BY <1>2, <1>3, <1>4, AgeStep, TableStep, WriterStep, CountStep DEF TypeOK

----------------------------------------------------------------------------
Standing(c) ==
  LET g == call[c].token  t == call[c].table  needs == Needs[InputOf[c]][t]
  IN /\ call[c].step \in Section => pubs[g].state = "reserved"
     /\ call[c].step \in {"link", "record"} => needs \subseteq rows[t]
     /\ call[c].step = "record" => needs \subseteq links[g][t]

(* A step that leaves the entry of a refresh alone, the state of its       *)
(* generation, and what its tables hold, leaves its section standing.      *)
LEMMA StandingFrame ==
  ASSUME Shape, NEW c \in Calls, Standing(c), call'[c] = call[c],
         \A g \in Gens : pubs[g].state = "reserved" => pubs'[g].state = "reserved",
         \A t \in Tables : rows[t] \subseteq rows'[t],
         \A g \in Gens, t \in Tables : links[g][t] \subseteq links'[g][t]
  PROVE  Standing(c)'
<1>1. call[c].table \in Tables
  BY DEF Shape
<1>2. call[c].step \in Section => call[c].token \in Gens
  BY DEF Shape, Engaged
<1> QED
  BY <1>1, <1>2 DEF Standing, Section

(* Only the holder of the writer's lock touches what sections stand on.    *)
LEMMA SectionStep ==
  ASSUME TypeOK, Shape, SectionInv, [Next]_vars
  PROVE  SectionInv'
<1> SUFFICES ASSUME NEW d \in Calls PROVE Standing(d)'
  BY DEF SectionInv, Standing
<1>0. /\ Standing(d) /\ Holding(d) /\ (step # "start" <=> writer = collector)
      /\ \A c \in Calls : Holding(c)
      /\ Nobody \notin Calls /\ collector \notin Calls \cup {Nobody}
      /\ Needs \in [Inputs -> [Tables -> SUBSET Artifacts]]
  BY ConstantsAssumption DEF TypeOK, SectionInv, Standing, Holding, Section
<1>1. ASSUME UNCHANGED <<pubs, links, rows>>, call'[d].step \notin Section \/ call'[d] = call[d]
      PROVE  Standing(d)'
  <2>1. CASE call'[d] = call[d]
    BY <1>0, <1>1, <2>1, StandingFrame
  <2>2. CASE call'[d].step \notin Section
    BY <2>2 DEF Standing, Section
  <2> QED
    BY <1>1, <2>1, <2>2
<1>2. ASSUME writer # d, call'[d] = call[d] \/ call'[d].step \notin Section PROVE Standing(d)'
  BY <1>0, <1>2 DEF Standing, Holding, Section
<1>3. ASSUME NEW c \in Calls, c # d, Refresh(c) PROVE Standing(d)'
  <2>1. call'[d] = call[d]
    BY <1>3 DEF Refresh, Reuse, Reserve, Put, WriteRows, Link, Record, Finalize, Abandon, Fails,
       Crash, Go, End, Shape
  <2>2. CASE writer = d
    <3>1. UNCHANGED <<pubs, links, rows>>
      BY <1>0, <1>3, <2>2 DEF Refresh, Reuse, Reserve, Put, WriteRows, Link, Record, Finalize,
         Abandon, Fails, Crash, Holding, Section
    <3> QED
      BY <1>1, <2>1, <3>1
  <2> QED
    BY <1>2, <2>1, <2>2
<1>4. CASE Reuse(d) \/ Reserve(d) \/ Finalize(d) \/ Abandon(d) \/ Fails(d) \/ Crash(d) \/ Record(d)
  <2>1. call'[d].step \notin Section
    BY <1>4 DEF Reuse, Reserve, Finalize, Abandon, Fails, Crash, Record, Go, End, Idle, Section,
       Shape
  <2> QED
    BY <2>1 DEF Standing, Section
<1>5. CASE Put(d)
  <2>1. call[d].token \in Gens /\ (Active(call[d].token) => pubs[call[d].token].state = "reserved")
    BY <1>5 DEF Put, Shape, Engaged, Active
  <2> QED
    BY <1>5, <2>1 DEF Put, Go, Shape, Standing, Section
<1>6. CASE WriteRows(d)
  <2>1. /\ call'[d].step = "link" /\ call'[d].token = call[d].token
        /\ call'[d].table = call[d].table /\ pubs' = pubs
    BY <1>6 DEF WriteRows, Go, Shape
  <2>2. call[d].table \in Tables /\ call[d].step \in Section
    BY <1>6 DEF WriteRows, Shape, Section
  <2>3. rows'[call[d].table] = rows[call[d].table] \cup Needs[InputOf[d]][call[d].table]
    BY <1>6, <2>2 DEF WriteRows, TypeOK
  <2> QED
    BY <1>0, <2>1, <2>2, <2>3 DEF Standing
<1>7. CASE Link(d)
  <2>1. /\ call'[d].step = "record" /\ call'[d].token = call[d].token
        /\ call'[d].table = call[d].table /\ pubs' = pubs /\ rows' = rows
    BY <1>7 DEF Link, Go, Shape
  <2>2. call[d].table \in Tables /\ call[d].step \in Section /\ call[d].token \in Gens
    BY <1>7 DEF Link, Shape, Section, Engaged
  <2>3. links'[call[d].token][call[d].table] =
          links[call[d].token][call[d].table] \cup Needs[InputOf[d]][call[d].table]
    BY <1>7, <2>2 DEF Link, TypeOK
  <2>4. call[d].step = "link"
    BY <1>7 DEF Link
  <2> QED
    BY <1>0, <2>1, <2>2, <2>3, <2>4 DEF Standing
<1>8. ASSUME NEW g \in Gens, Lapse(g) PROVE Standing(d)'
  <2>1. \A h \in Gens : pubs'[h].state = pubs[h].state
    BY <1>8 DEF Lapse, Shape, Records
  <2>2. UNCHANGED <<call, links, rows>>
    BY <1>8 DEF Lapse
  <2> QED
    BY <1>0, <2>1, <2>2, StandingFrame
<1>9. CASE Collection
  <2>1. call' = call
    BY <1>9 DEF Collection, Collect, DeletePublications, DeleteLinks, DeleteRows, CollectStops
  <2>2. UNCHANGED <<pubs, links, rows>> \/ step # "start"
    BY <1>9 DEF Collection, Collect, DeletePublications, DeleteLinks, DeleteRows, CollectStops
  <2> QED
    BY <1>0, <1>1, <1>2, <2>1, <2>2
<1>10. CASE Reading \/ UNCHANGED vars
  BY <1>1, <1>10 DEF Reading, FindLatest, WritePin, LapsePin, Close, vars
<1> QED
  BY <1>3, <1>4, <1>5, <1>6, <1>7, <1>8, <1>9, <1>10 DEF Next, Refresh

(* A collection spares the pin it reads, and no pin is written while it    *)
(* runs.                                                                   *)
LEMMA PinStep ==
  ASSUME TypeOK, Shape, PinInv, [Next]_vars
  PROVE  PinInv'
<1>1. CASE Collect
  <2>1. reader.step = "open" /\ ~reader.lapsed => \A pins \in Pins : reader.gen \in pins
    BY DEF Pins, Shape
  <2> QED
    BY <1>1, <2>1 DEF Collect, Protected, PinInv
<1>2. CASE DeletePublications \/ DeleteLinks \/ DeleteRows \/ CollectStops
  BY <1>2 DEF DeletePublications, DeleteLinks, DeleteRows, CollectStops, PinInv
<1>3. CASE UNCHANGED <<step, spared>> /\ reader' = reader
  BY <1>3 DEF PinInv
<1>4. CASE Reading
  <2>1. step # "start" => writer # Nobody
    BY ConstantsAssumption DEF TypeOK
  <2> QED
    BY <1>4, <2>1 DEF Reading, FindLatest, WritePin, LapsePin, Close, PinInv, Shape
<1> QED
  BY <1>1, <1>2, <1>3, <1>4
     DEF Next, Refresh, Collection, Reuse, Reserve, Put, WriteRows, Link, Record, Finalize, Abandon,
         Fails, Crash, Lapse, vars

(* While a collection runs no publication comes or goes, but by it.        *)
LEMMA LatestStep ==
  ASSUME TypeOK, Shape, LatestInv, [Next]_vars
  PROVE  LatestInv'
<1>0. (step # "start" => writer = collector) /\ collector \notin Calls \cup {Nobody}
  BY ConstantsAssumption DEF TypeOK
<1>1. CASE Collect
  <2>1. SUFFICES ASSUME NEW g \in Gens, g \in Latest PROVE g \in spared'
    BY <1>1 DEF Collect, LatestInv, Latest, Published
  <2>2. Newer(g) = {} /\ Published(g)
    <3>1. \A h \in Gens : Published(h) => pubs[h].at <= pubs[g].at /\ pubs[h].at \in Int
      BY <2>1 DEF Latest, Shape, Records
    <3>2. pubs[g].at \in Int
      BY <2>1 DEF Shape, Records
    <3> QED
      BY <2>1, <3>1, <3>2 DEF Latest, Newer
  <2>3. Cardinality(Newer(g)) < Keep
    BY <2>2, FS_EmptySet, ConstantsAssumption
  <2> QED
    BY <1>1, <2>2, <2>3 DEF Collect, Protected
<1>2. CASE step' = "publications" /\ step = "publications"
  <2>1. spared' = spared
    BY <1>2 DEF Next, Refresh, Collection, Reading, Reuse, Reserve, Put, WriteRows, Link, Record,
       Finalize, Abandon, Fails, Crash, Lapse, Collect, DeletePublications, DeleteLinks,
       DeleteRows, CollectStops, FindLatest, WritePin, LapsePin, Close, vars
  <2>2. \A g \in Gens : pubs'[g].state = pubs[g].state /\ pubs'[g].at = pubs[g].at
    <3>1. CASE \E g \in Gens : Lapse(g)
      BY <3>1 DEF Lapse, Shape, Records
    <3>2. CASE pubs' = pubs
      BY <3>2
    <3>3. CASE \E c \in Calls : Record(c)
      BY <1>0, <1>2, <3>3 DEF Record, Section, TypeOK
    <3> QED
      BY <1>0, <1>2, <3>1, <3>2, <3>3
         DEF Next, Refresh, Collection, Reading, Reuse, Reserve, Put, WriteRows, Link, Finalize,
             Abandon, Fails, Crash, Collect, DeletePublications, DeleteLinks, DeleteRows,
             CollectStops, FindLatest, WritePin, LapsePin, Close, vars
  <2>3. Latest' = Latest
    BY <2>2 DEF Latest, Published
  <2> QED
    BY <1>2, <2>1, <2>3 DEF LatestInv
<1>3. CASE step' # "publications"
  BY <1>3 DEF LatestInv
<1>4. step' # step => Collection
  BY DEF Next, Refresh, Reading, Reuse, Reserve, Put, WriteRows, Link, Record, Finalize, Abandon,
     Fails, Crash, Lapse, FindLatest, WritePin, LapsePin, Close, vars
<1>5. Collection => Collect \/ step' # "publications"
  BY DEF Collection, DeletePublications, DeleteLinks, DeleteRows, CollectStops
<1> QED
  BY <1>1, <1>2, <1>3, <1>4, <1>5

(* The invariant of the store, whatever a collection leaves behind at its  *)
(* limit of deletions.                                                     *)
THEOREM StoreInvHolds == Spec => []StoreInv
<1>1. StoreInv /\ [Next]_vars => StoreInv'
  BY ShapeStep, TypeStep, SectionStep, PinStep, LatestStep DEF StoreInv
<1> QED
  BY <1>1, InitStore, PTL DEF Spec

----------------------------------------------------------------------------
(* The records have their types and ages, and only the holder of the       *)
(* writer's lock is between two writes of a section                        *)
(* (withExclusiveOwnership).                                               *)
THEOREM StoreTyped == Spec => []TypeOK
<1>1. StoreInv => TypeOK
  BY DEF StoreInv
<1> QED
  BY <1>1, StoreInvHolds, PTL

(* A fresh reservation has a later attempt than all that are counted.      *)
LEMMA FreshAttempt ==
  ASSUME NEW i \in Inputs, NEW g \in Gens, g.input = i, pubs[g].state \in {"reserved", "abandoned"}
  PROVE  g.attempt < Attempt(i)
<1> DEFINE counted == {h \in Gens : h.input = i /\ pubs[h].state \in {"reserved", "abandoned"}}
           A == {0} \cup {h.attempt : h \in counted}
<1>1. A \in SUBSET Nat /\ A # {} /\ Attempts[i] \in Nat /\ \A a \in A : a <= Attempts[i]
  BY GenFacts, ConstantsAssumption
<1>2. g.attempt \in A
  OBVIOUS
<1>3. Attempt(i) = 1 + Max(A)
  BY DEF Attempt
<1> HIDE DEF A
<1>4. \E m \in A : \A a \in A : a <= m
  BY <1>1, Largest
<1>5. \E m \in A : \A a \in A : m >= a
  BY <1>1, <1>4
<1>6. Max(A) \in A /\ \A a \in A : Max(A) >= a
  BY <1>5 DEF Max
<1>7. Max(A) \in Nat /\ g.attempt \in Nat /\ Max(A) >= g.attempt
  BY <1>1, <1>2, <1>6
<1> QED
  BY <1>3, <1>7

(* Only a collection touches an abandoned record.                          *)
LEMMA AbandonedStep ==
  ASSUME TypeOK, Shape, SectionInv, Next, NEW g \in Gens, pubs[g].state = "abandoned"
  PROVE  pubs'[g] \in {pubs[g], NoRecord}
<1>1. ASSUME NEW c \in Calls, Reserve(c) PROVE pubs'[g] = pubs[g]
  <2> DEFINE fresh == [input |-> InputOf[c], attempt |-> Attempt(InputOf[c])]
  <2>1. pubs' = pubs \/ pubs' = [pubs EXCEPT ![fresh] = [NoRecord EXCEPT !.state = "reserved"]]
    BY <1>1 DEF Reserve
  <2>2. g # fresh
    <3>1. InputOf[c] \in Inputs /\ g.attempt \in Nat
      BY GenFacts, ConstantsAssumption
    <3>2. g.input = InputOf[c] => g.attempt < Attempt(InputOf[c])
      BY <3>1, FreshAttempt
    <3>3. g.attempt # Attempt(InputOf[c]) \/ g.input # InputOf[c]
      BY <3>1, <3>2
    <3> QED
      BY <3>3
  <2> HIDE DEF fresh
  <2> QED
    BY <2>1, <2>2 DEF Shape
<1>2. ASSUME NEW c \in Calls, Record(c) PROVE pubs'[g] = pubs[g]
  <2>1. call[c].token # g
    BY <1>2 DEF Record, SectionInv, Section
  <2> QED
    BY <1>2, <2>1 DEF Record, Shape
<1>3. ASSUME NEW c \in Calls, Finalize(c) \/ Abandon(c) PROVE pubs'[g] = pubs[g]
  BY <1>3 DEF Finalize, Abandon, Active, Shape
<1>4. ASSUME NEW h \in Gens, Lapse(h) PROVE pubs'[g] = pubs[g]
  BY <1>4 DEF Lapse, Active, Shape
<1>5. CASE DeletePublications
  BY <1>5 DEF DeletePublications
<1> QED
  BY <1>1, <1>2, <1>3, <1>4, <1>5
     DEF Next, Refresh, Collection, Reading, Reuse, Put, WriteRows, Link, Fails, Crash, Collect,
         DeleteLinks, DeleteRows, CollectStops, FindLatest, WritePin, LapsePin, Close

(* A reservation a refresh gave up is never reserved again, recorded or    *)
(* published, whatever peers share its token: its attempt is not used      *)
(* again, and sections only stand over a live reservation                  *)
(* (abandonPublication).                                                   *)
THEOREM AbandonedNeverRevives == Spec => AbandonedIsFinal
<1>1. StoreInv /\ Next =>
        \A g \in Gens : pubs[g].state = "abandoned" => pubs'[g] \in {pubs[g], NoRecord}
  BY AbandonedStep DEF StoreInv
<1>2. UNCHANGED vars =>
        \A g \in Gens : pubs[g].state = "abandoned" => pubs'[g] \in {pubs[g], NoRecord}
  BY DEF vars
<1> QED
  BY <1>1, <1>2, StoreInvHolds, PTL DEF Spec, AbandonedIsFinal

(* The links of a pinned generation are not taken away.                    *)
LEMMA PinnedLinks ==
  ASSUME TypeOK, Shape, PinInv, Next, reader.step = "open", ~reader.lapsed
  PROVE  \A t \in Tables : links[reader.gen][t] \subseteq links'[reader.gen][t]
<1>1. reader.gen \in Gens
  BY DEF Shape
<1>2. CASE \E c \in Calls : Link(c)
  BY <1>1, <1>2 DEF Link, TypeOK
<1>3. CASE DeleteLinks
  BY <1>1, <1>3 DEF DeleteLinks, PinInv
<1>4. CASE links' = links
  BY <1>4
<1> QED
  BY <1>2, <1>3, <1>4
     DEF Next, Refresh, Collection, Reading, Reuse, Reserve, Put, WriteRows, Record, Finalize,
         Abandon, Fails, Crash, Lapse, Collect, DeletePublications, DeleteRows, CollectStops,
         FindLatest, WritePin, LapsePin, Close

(* What a reader sees through a pin it has written stays while the pin has *)
(* not lapsed, whatever is collected (pinGeneration, collect).             *)
THEOREM PinsAreHonoured == Spec => PinsHold
<1> DEFINE Sees == reader.step = "open" /\ ~reader.lapsed /\ Whole(reader.gen, reader.record)
<1>1. StoreInv /\ [Next]_vars => ((Sees /\ reader' = reader) => Sees')
  <2> SUFFICES ASSUME StoreInv, [Next]_vars, Sees, reader' = reader PROVE Sees'
    OBVIOUS
  <2>1. \A t \in Tables : links[reader.gen][t] \subseteq links'[reader.gen][t]
    BY PinnedLinks DEF StoreInv, vars
  <2> QED
    BY <2>1 DEF Whole
<1> QED
  BY <1>1, StoreInvHolds, PTL DEF Spec, PinsHold

(* Some publication is the latest if there is one.                         *)
LEMMA LatestExists ==
  ASSUME TypeOK, NEW g \in Gens, Published(g)
  PROVE  \E m \in Latest : pubs[g].at <= pubs[m].at
<1> DEFINE A == {pubs[h].at : h \in {k \in Gens : Published(k)}}
<1>1. clock \in Nat /\ A \in SUBSET Nat /\ A # {} /\ \A a \in A : a <= clock
  BY DEF TypeOK
<1>2. \E m \in A : \A a \in A : a <= m
  <2> HIDE DEF A
  <2> QED
    BY <1>1, Largest
<1> QED
  BY <1>2 DEF Latest

(* Deleting the records of a collection leaves the latest publication, for *)
(* it is spared, and makes no other the latest, for each has a latest      *)
(* above it.                                                               *)
LEMMA LatestKept ==
  ASSUME TypeOK, Shape, LatestInv, DeletePublications
  PROVE  Latest' = Latest
<1>1. PICK gs \in SUBSET Obsolete : pubs' = [g \in Gens |-> IF g \in gs THEN NoRecord ELSE pubs[g]]
  BY DEF DeletePublications, kSubset
<1>2. \A g \in Latest : g \notin gs
  BY <1>1 DEF DeletePublications, LatestInv, Latest, Obsolete, Published
<1>3. \A g \in Gens : Published(g)' <=> Published(g) /\ g \notin gs
  BY <1>1 DEF Published, NoRecord
<1>4. \A g \in Gens : g \notin gs => pubs'[g] = pubs[g]
  BY <1>1
<1>5. \A g \in Gens : pubs[g].at \in Nat
  BY DEF TypeOK
<1>6. ASSUME NEW g \in Latest PROVE g \in Latest'
  BY <1>2, <1>3, <1>4, <1>6 DEF Latest
<1>7. ASSUME NEW g \in Gens, g \in Latest' PROVE g \in Latest
  <2>1. /\ Published(g) /\ g \notin gs
        /\ \A h \in Gens : Published(h) /\ h \notin gs => pubs[h].at <= pubs[g].at
    BY <1>3, <1>4, <1>7 DEF Latest
  <2>2. ASSUME NEW h \in Gens, Published(h) PROVE pubs[h].at <= pubs[g].at
    <3>1. PICK m \in Latest : pubs[h].at <= pubs[m].at
      BY <2>2, LatestExists
    <3>2. m \in Gens /\ Published(m) /\ m \notin gs
      BY <1>2 DEF Latest
    <3>3. pubs[m].at <= pubs[g].at
      BY <2>1, <3>2
    <3> QED
      BY <1>5, <3>1, <3>2, <3>3
  <2> QED
    BY <2>1, <2>2 DEF Latest
<1> QED
  BY <1>6, <1>7 DEF Latest

(* A collection never changes which generation readers take as the latest  *)
(* (collect), even one that reaches its limit of deletions or stops.       *)
THEOREM CollectionsSpareTheLatest == Spec => CollectSparesLatest
<1>1. StoreInv /\ [Next]_vars => (step' # step => Latest' = Latest)
  <2> SUFFICES ASSUME StoreInv, [Next]_vars, step' # step PROVE Latest' = Latest
    OBVIOUS
  <2>1. CASE DeletePublications
    BY <2>1, LatestKept DEF StoreInv
  <2>2. CASE pubs' = pubs
    BY <2>2 DEF Latest, Published
  <2> QED
    BY <2>1, <2>2
       DEF Next, Refresh, Collection, Reading, Reuse, Reserve, Put, WriteRows, Link, Record,
           Finalize, Abandon, Fails, Crash, Lapse, Collect, DeleteLinks, DeleteRows, CollectStops,
           FindLatest, WritePin, LapsePin, Close, vars
<1> QED
  BY <1>1, StoreInvHolds, PTL DEF Spec, CollectSparesLatest

----------------------------------------------------------------------------
(* A collection whose limit is not reached deletes all it finds obsolete.  *)
LEMMA AllObsolete ==
  ASSUME IsFiniteSet(Gens), Cardinality(Gens) <= MaxDeletes,
         NEW gs \in kSubset(Min({MaxDeletes, Cardinality(Obsolete)}), Obsolete)
  PROVE  gs = Obsolete
<1> DEFINE n == Cardinality(Obsolete)
<1>1. Obsolete \in SUBSET Gens
  BY DEF Obsolete
<1>2. IsFiniteSet(Obsolete) /\ n \in Nat /\ n <= Cardinality(Gens) /\ Cardinality(Gens) \in Nat
  BY <1>1, FS_Subset, FS_CardinalityType
<1>3. MaxDeletes \in Nat
  BY ConstantsAssumption
<1>4. n <= MaxDeletes
  BY <1>2, <1>3
<1>5. gs \in SUBSET Obsolete /\ Cardinality(gs) = Min({MaxDeletes, n})
  BY DEF kSubset
<1> HIDE DEF n
<1>6. Min({MaxDeletes, n}) = n
  BY <1>2, <1>3, <1>4 DEF Min
<1>7. Cardinality(gs) = Cardinality(Obsolete)
  BY <1>5, <1>6 DEF n
<1> QED
  BY <1>2, <1>5, <1>7, FS_Subset

(* What a collection leaves of the publications is spared when it deletes  *)
(* the links.                                                              *)
LEMMA SparedStep ==
  ASSUME IsFiniteSet(Gens), Cardinality(Gens) <= MaxDeletes,
         TypeOK, Shape, SparedInv, [Next]_vars
  PROVE  SparedInv'
<1>0. (step # "start" <=> writer = collector) /\ collector \notin Calls \cup {Nobody}
  BY ConstantsAssumption DEF TypeOK
<1>1. CASE Collect
  <2>1. \A g \in Gens : Active(g)' <=> Active(g)
    BY <1>1 DEF Collect, Active
  <2> QED
    BY <1>1, <2>1 DEF Collect, Protected, SparedInv
<1>2. CASE DeletePublications
  <2>1. PICK gs \in kSubset(Min({MaxDeletes, Cardinality(Obsolete)}), Obsolete) :
          pubs' = [g \in Gens |-> IF g \in gs THEN NoRecord ELSE pubs[g]]
    BY <1>2 DEF DeletePublications
  <2>2. gs = Obsolete
    BY AllObsolete
  <2>3. step = "publications" /\ step' = "links" /\ spared' = spared
    BY <1>2 DEF DeletePublications
  <2>4. ASSUME NEW g \in Gens, pubs'[g].state # "none" PROVE g \in spared
    <3>1. g \notin Obsolete /\ pubs'[g] = pubs[g]
      BY <2>1, <2>2, <2>4 DEF NoRecord
    <3>2. pubs[g].state \in {"none", "reserved", "abandoned", "published"}
      BY DEF TypeOK
    <3>3. Active(g) \/ (Published(g) /\ g \in spared)
      BY <2>4, <3>1, <3>2 DEF Obsolete, Active, Published
    <3> QED
      BY <2>3, <3>3 DEF SparedInv
  <2> QED
    BY <2>3, <2>4 DEF SparedInv
<1>3. CASE DeleteLinks \/ DeleteRows \/ CollectStops
  BY <1>3 DEF DeleteLinks, DeleteRows, CollectStops, SparedInv
<1>4. ASSUME UNCHANGED <<step, spared>>, step # "start" => pubs' = pubs \/ \E g \in Gens : Lapse(g)
      PROVE  SparedInv'
  <2>1. CASE step = "start"
    BY <1>4, <2>1 DEF SparedInv
  <2>2. CASE pubs' = pubs
    BY <1>4, <2>2 DEF SparedInv, Active
  <2>3. ASSUME NEW h \in Gens, Lapse(h) PROVE SparedInv'
    <3>1. \A g \in Gens : pubs'[g].state = pubs[g].state /\ (~pubs'[g].lapsed => ~pubs[g].lapsed)
      BY <2>3 DEF Lapse, Shape, Records
    <3> QED
      BY <1>4, <3>1 DEF SparedInv, Active
  <2> QED
    BY <1>4, <2>1, <2>2, <2>3
<1>5. ASSUME NEW c \in Calls, Refresh(c)
      PROVE  UNCHANGED <<step, spared>> /\ (step # "start" => pubs' = pubs)
  <2>1. CASE Record(c)
    BY <1>0, <2>1 DEF Record, TypeOK
  <2> QED
    BY <1>0, <1>5, <2>1 DEF Refresh, Reuse, Reserve, Put, WriteRows, Link, Finalize, Abandon,
       Fails, Crash
<1>6. ASSUME (\E g \in Gens : Lapse(g)) \/ Reading \/ UNCHANGED vars
      PROVE  UNCHANGED <<step, spared>> /\ (pubs' = pubs \/ \E g \in Gens : Lapse(g))
  BY <1>6 DEF Lapse, Reading, FindLatest, WritePin, LapsePin, Close, vars
<1> QED
  BY <1>1, <1>2, <1>3, <1>4, <1>5, <1>6 DEF Next, Collection

(* A recorded version holds the rows the input needs, and they are linked. *)
Linked(g) ==
  pubs[g].state # "none" =>
    \A t \in DOMAIN pubs[g].versions :
      Needs[g.input][t] \subseteq links[g][t] \cap pubs[g].versions[t]

(* A record whose versions stay and whose links are not taken stays        *)
(* linked.                                                                 *)
LEMMA LinkedFrame ==
  ASSUME NEW g \in Gens, TypeOK, Linked(g), pubs[g].state # "none",
         pubs'[g].versions = pubs[g].versions, \A t \in Tables : links[g][t] \subseteq links'[g][t]
  PROVE  Linked(g)'
<1>1. DOMAIN pubs[g].versions \subseteq Tables
  BY DEF TypeOK
<1> QED
  BY <1>1 DEF Linked

(* A version is recorded once its rows are written and linked, and the     *)
(* links of a record stay while the record does.                           *)
LEMMA LinkedStep ==
  ASSUME TypeOK, Shape, SectionInv, SparedInv, LinkedInv, [Next]_vars
  PROVE  LinkedInv'
<1> SUFFICES ASSUME NEW g \in Gens PROVE Linked(g)'
  BY DEF LinkedInv, Linked
<1>0. Linked(g)
  BY DEF LinkedInv, Linked
<1>1. CASE pubs' = pubs /\ links' = links
  BY <1>0, <1>1 DEF Linked
<1>2. ASSUME NEW c \in Calls, Reserve(c) PROVE Linked(g)'
  <2> DEFINE fresh == [input |-> InputOf[c], attempt |-> Attempt(InputOf[c])]
  <2>1. /\ pubs' = pubs \/ pubs' = [pubs EXCEPT ![fresh] = [NoRecord EXCEPT !.state = "reserved"]]
        /\ links' = links
    BY <1>2 DEF Reserve
  <2> HIDE DEF fresh
  <2>2. pubs'[g] = pubs[g] \/ pubs'[g] = [NoRecord EXCEPT !.state = "reserved"]
    BY <2>1 DEF Shape
  <2>3. CASE pubs'[g] = pubs[g]
    BY <1>0, <2>1, <2>3 DEF Linked
  <2>4. CASE pubs'[g] = [NoRecord EXCEPT !.state = "reserved"]
    <3>1. pubs'[g].versions = NoRecord.versions
      BY <2>4 DEF NoRecord
    <3> QED
      BY <3>1, RecordFacts DEF Linked
  <2> QED
    BY <2>2, <2>3, <2>4
<1>3. ASSUME NEW c \in Calls, Link(c) PROVE Linked(g)'
  <2>1. /\ pubs' = pubs
        /\ \A t \in Tables : links[g][t] \subseteq links'[g][t]
    BY <1>3 DEF Link, TypeOK
  <2> QED
    BY <1>0, <2>1, LinkedFrame DEF Linked
<1>4. ASSUME NEW c \in Calls, Record(c) PROVE Linked(g)'
  <2> DEFINE t == call[c].table  h == call[c].token
             v == [u \in DOMAIN pubs[h].versions \cup {t} |->
                     IF u = t THEN rows[t] ELSE pubs[h].versions[u]]
  <2>1. /\ h \in Gens /\ h.input = InputOf[c] /\ links' = links
        /\ pubs' = [pubs EXCEPT ![h].versions = v]
    BY <1>4 DEF Record, Shape, Engaged, Section
  <2>2. /\ pubs[h].state = "reserved"
        /\ Needs[InputOf[c]][t] \subseteq rows[t] /\ Needs[InputOf[c]][t] \subseteq links[h][t]
    BY <1>4 DEF Record, SectionInv, Section
  <2>3. CASE g # h
    <3> HIDE DEF h, v
    <3>1. pubs'[g] = pubs[g]
      BY <2>1, <2>3 DEF Shape
    <3> QED
      BY <1>0, <2>1, <3>1 DEF Linked
  <2>4. CASE g = h
    <3>1. pubs'[g].versions = v
      <4> HIDE DEF h, v
      <4> QED
        BY <2>1, <2>4 DEF Shape, Records
    <3>2. \A u \in DOMAIN pubs[g].versions :
            Needs[g.input][u] \subseteq links[g][u] \cap pubs[g].versions[u]
      BY <1>0, <2>2, <2>4 DEF Linked
    <3>3. DOMAIN v = DOMAIN pubs[g].versions \cup {t} /\ v[t] = rows[t]
      BY <2>4
    <3>4. \A u \in DOMAIN pubs[g].versions : u # t => v[u] = pubs[g].versions[u]
      BY <2>4
    <3> HIDE DEF h, v, t
    <3>5. \A u \in DOMAIN v : Needs[g.input][u] \subseteq links[g][u] \cap v[u]
      BY <2>1, <2>2, <2>4, <3>2, <3>3, <3>4
    <3> QED
      BY <2>1, <3>1, <3>5 DEF Linked
  <2> QED
    BY <2>3, <2>4
<1>5. ASSUME NEW c \in Calls, Finalize(c) \/ Abandon(c) PROVE Linked(g)'
  <2>1. /\ pubs'[g].versions = pubs[g].versions /\ links' = links
        /\ pubs'[g] = pubs[g] \/ pubs[g].state # "none"
    BY <1>5 DEF Finalize, Abandon, Shape, Records, Active
  <2> QED
    BY <1>0, <2>1 DEF Linked
<1>6. ASSUME NEW h \in Gens, Lapse(h) PROVE Linked(g)'
  <2>1. /\ pubs'[g].versions = pubs[g].versions /\ links' = links
        /\ pubs'[g].state = pubs[g].state
    BY <1>6 DEF Lapse, Shape, Records
  <2> QED
    BY <1>0, <2>1 DEF Linked
<1>7. CASE DeletePublications
  <2>1. links' = links /\ (pubs'[g] = pubs[g] \/ pubs'[g] = NoRecord)
    BY <1>7 DEF DeletePublications
  <2> QED
    BY <1>0, <2>1 DEF Linked, NoRecord
<1>8. CASE DeleteLinks
  <2>1. pubs' = pubs /\ (pubs[g].state # "none" => links'[g] = links[g])
    BY <1>8 DEF DeleteLinks, SparedInv
  <2> QED
    BY <1>0, <2>1 DEF Linked
<1> QED
  BY <1>1, <1>2, <1>3, <1>4, <1>5, <1>6, <1>7, <1>8
     DEF Next, Refresh, Collection, Reading, Reuse, Put, WriteRows, Fails, Crash, Collect,
         DeleteRows, CollectStops, FindLatest, WritePin, LapsePin, Close, vars

(* Only a complete reservation is published, and no publication is         *)
(* recorded to.                                                            *)
LEMMA CompleteStep ==
  ASSUME TypeOK, Shape, SectionInv, [Next]_vars, \A g \in Gens : Published(g) => Complete(g)
  PROVE  \A g \in Gens : Published(g)' => Complete(g)'
<1> SUFFICES ASSUME NEW g \in Gens, Published(g)' PROVE Complete(g)'
  OBVIOUS
<1>1. CASE pubs'[g] = pubs[g]
  BY <1>1 DEF Published, Complete
<1>2. ASSUME NEW c \in Calls, Reserve(c) PROVE pubs'[g] = pubs[g]
  <2> DEFINE fresh == [input |-> InputOf[c], attempt |-> Attempt(InputOf[c])]
  <2>1. pubs' = pubs \/ pubs' = [pubs EXCEPT ![fresh] = [NoRecord EXCEPT !.state = "reserved"]]
    BY <1>2 DEF Reserve
  <2> HIDE DEF fresh
  <2> QED
    BY <2>1 DEF Shape, Published, NoRecord
<1>3. ASSUME NEW c \in Calls, Record(c) PROVE pubs'[g] = pubs[g]
  <2>1. pubs[call[c].token].state = "reserved" /\ call[c].token \in Gens
    BY <1>3 DEF Record, SectionInv, Section, Shape, Engaged
  <2>2. \A h \in Gens : h # call[c].token => pubs'[h] = pubs[h]
    BY <1>3 DEF Record, Shape
  <2>3. pubs'[call[c].token].state = "reserved"
    BY <1>3, <2>1 DEF Record, Shape, Records
  <2> QED
    BY <2>2, <2>3 DEF Published
<1>4. ASSUME NEW c \in Calls, Finalize(c) PROVE Complete(g)'
  <2>1. pubs'[g].versions = pubs[g].versions
    BY <1>4 DEF Finalize, Shape, Records
  <2>2. Published(g) \/ Complete(g)
    BY <1>4 DEF Finalize, Shape, Published
  <2> QED
    BY <2>1, <2>2 DEF Complete
<1>5. ASSUME NEW c \in Calls, Abandon(c) PROVE pubs'[g] = pubs[g]
  BY <1>5 DEF Abandon, Shape, Records, Published
<1>6. ASSUME NEW h \in Gens, Lapse(h) PROVE pubs'[g] = pubs[g]
  BY <1>6 DEF Lapse, Shape, Records, Published, Active
<1>7. CASE DeletePublications
  BY <1>1, <1>7 DEF DeletePublications, NoRecord, Published
<1> QED
  BY <1>1, <1>2, <1>3, <1>4, <1>5, <1>6, <1>7
     DEF Next, Refresh, Collection, Reading, Reuse, Put, WriteRows, Link, Fails, Crash, Collect,
         DeleteLinks, DeleteRows, CollectStops, FindLatest, WritePin, LapsePin, Close, vars

(* The empty store is whole.                                               *)
LEMMA InitWhole == Init => WholeInv
<1> SUFFICES ASSUME Init PROVE WholeInv
  OBVIOUS
<1>1. \A g \in Gens : pubs[g].state = "none"
  BY DEF Init, NoRecord
<1> QED
  BY <1>1 DEF Init, WholeInv, SparedInv, LinkedInv, Published

(* A published generation has all its rows, recorded and linked, whatever  *)
(* refresh failed between two writes (finalizePublication), when a         *)
(* collection may delete as many records as there are generations: one     *)
(* that reaches its limit keeps records of generations whose links it then *)
(* deletes.                                                                *)
THEOREM PublicationsAreWhole ==
  ASSUME IsFiniteSet(Gens), Cardinality(Gens) <= MaxDeletes
  PROVE  Spec => []PublishedIsWhole
<1>1. StoreInv /\ WholeInv /\ [Next]_vars => WholeInv'
  BY SparedStep, LinkedStep, CompleteStep DEF WholeInv, StoreInv
<1>2. WholeInv => PublishedIsWhole
  BY DEF WholeInv, LinkedInv, Published, PublishedIsWhole, Whole, Complete
<1> QED
  BY <1>1, <1>2, InitWhole, StoreInvHolds, PTL DEF Spec
=============================================================================
