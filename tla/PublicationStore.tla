--------------------------- MODULE PublicationStore ---------------------------
(***************************************************************************)
(* How an index generation is published, read and collected.               *)
(*                                                                         *)
(*   src/src/intelligence/storage/store.ts        the store                *)
(*   src/src/intelligence/mutation/freshness.ts   the refresh that calls it *)
(*                                                                         *)
(* A refresh reserves a generation, writes the rows of each table, links   *)
(* them to the generation, records the table's version, and finalizes.     *)
(* Every write runs in an exclusive section (the storage writer's lock),   *)
(* but a section may fail between two of its writes and the process may    *)
(* die there. What a refresh reads before its first section is not         *)
(* protected, nor is what a reader reads before it writes its pin.         *)
(*                                                                         *)
(* A generation is named by its input (everything its identity hashes but  *)
(* the attempt) and the attempt number, so equal inputs meet on equal      *)
(* names. A table version is the set of rows the table then held. Tables   *)
(* that are written in one section count as one. A reservation is live or  *)
(* lapsed, and so is a pin; legacy publications are left out.              *)
(***************************************************************************)
EXTENDS Integers, FiniteSets, FiniteSetsExt, TLC

CONSTANTS Calls,       \* refreshes, each of one workspace state
          InputOf,     \* what each refresh would publish
          Inputs,
          Tables,      \* numbered in the order a refresh writes them
          Needs,       \* the rows each input has in each table
          Attempts,    \* bound: attempts of each input
          Keep,        \* keepPublishedGenerations
          MaxDeletes,  \* maxDeletesPerTable
          MaxFaults,   \* bound: failed writes, busy writers, lost leases, aborts,
                       \* crashes, and reservations that lapse
          Nobody

Artifacts == UNION {Needs[i][t] : i \in Inputs, t \in Tables}
collector == "collector"

ASSUME ConstantsAssumption ==
  /\ InputOf \in [Calls -> Inputs]
  /\ IsFiniteSet(Tables) /\ Tables = 1..Cardinality(Tables) /\ Tables # {}
  /\ Needs \in [Inputs -> [Tables -> SUBSET Artifacts]]
  /\ Attempts \in [Inputs -> Nat \ {0}]
  /\ {Keep, MaxDeletes} \subseteq Nat \ {0} /\ MaxFaults \in Nat
  /\ Nobody \notin Calls /\ collector \notin Calls \cup {Nobody}

VARIABLES
  pubs,    \* the publications table: the record of each generation
  links,   \* generation_artifacts: per generation and table, the rows linked
  rows,    \* the latest version of each table
  writer,  \* who is inside an exclusive section of several writes
  call,    \* each refresh: its next step, its reservation, its next table
  step,    \* next step of the collector
  spared,  \* generations a running collection protects
  reader,  \* a reader and its pin
  clock,   \* publications so far: publishedAt
  faults

vars == <<pubs, links, rows, writer, call, step, spared, reader, clock, faults>>

Gens      == UNION {[input : {i}, attempt : 1..Attempts[i]] : i \in Inputs}
NoRecord  == [state |-> "none", versions |-> << >>, at |-> 0, lapsed |-> FALSE]
Unlinked  == [t \in Tables |-> {}]
Idle      == [step |-> "start", token |-> Nobody, table |-> 1]

Published(g) == pubs[g].state = "published"
Active(g)    == pubs[g].state = "reserved" /\ ~pubs[g].lapsed

(* Readers take the generation published last.                             *)
Latest == {g \in Gens : Published(g) /\ \A h \in Gens : Published(h) => pubs[h].at <= pubs[g].at}

Init ==
  /\ pubs = [g \in Gens |-> NoRecord]
  /\ links = [g \in Gens |-> Unlinked]
  /\ rows = Unlinked
  /\ writer = Nobody
  /\ call = [c \in Calls |-> Idle]
  /\ step = "start"
  /\ spared = {}
  /\ reader = [step |-> "out"]
  /\ clock = 0 /\ faults = 0

Go(c, next) == call' = [call EXCEPT ![c].step = next]
End(c, last) == call' = [call EXCEPT ![c] = [Idle EXCEPT !.step = last]]
Fault == faults < MaxFaults /\ faults' = faults + 1

----------------------------------------------------------------------------
(* A refresh. Its sections of one write are single actions; a write that   *)
(* is applied and still reported as failed is one of their outcomes. After *)
(* a failure the next call may refresh the same state once more.           *)

(* Outside any section: is the same input published already?               *)
Reuse(c) ==
  /\ call[c].step = "start"
  /\ IF \E g \in Gens : g.input = InputOf[c] /\ Published(g)
     THEN End(c, "done") ELSE Go(c, "reserve")
  /\ UNCHANGED <<pubs, links, rows, writer, step, spared, reader, clock, faults>>

(* Mutant: the attempts of abandoned reservations are not counted.         *)
AttemptAmongActive(i) ==
  1 + Max({0} \cup {g.attempt : g \in {h \in Gens : h.input = i /\ pubs[h].state = "reserved"}})

(* Published generations are not among the attempts: their records do not  *)
(* parse as reservations.                                                  *)
Attempt(i) ==
  1 + Max({0} \cup {g.attempt : g \in {h \in Gens :
                       h.input = i /\ pubs[h].state \in {"reserved", "abandoned"}}})

Reserve(c) ==
  /\ call[c].step = "reserve" /\ writer = Nobody
  /\ LET i      == InputOf[c]
         active == {g \in Gens : g.input = i /\ Active(g)}
         fresh  == [input |-> i, attempt |-> Attempt(i)]
         held   == IF active = {} THEN fresh
                   ELSE CHOOSE g \in active : \A h \in active : h.attempt <= g.attempt
     IN /\ held \in Gens
        /\ pubs' = IF active # {} THEN pubs
                   ELSE [pubs EXCEPT ![fresh] = [NoRecord EXCEPT !.state = "reserved"]]
        /\ \/ call' = [call EXCEPT ![c] = [step |-> "put", token |-> held, table |-> 1]]
              /\ UNCHANGED faults
           \/ Fault /\ End(c, "start")
  /\ UNCHANGED <<links, rows, writer, step, spared, reader, clock>>

(* One section per table: rows, then links, then the version of the table. *)
Put(c) ==
  /\ call[c].step = "put" /\ writer = Nobody
  /\ IF Active(call[c].token) THEN writer' = c /\ Go(c, "rows")
                              ELSE UNCHANGED writer /\ Go(c, "abandon")
  /\ UNCHANGED <<pubs, links, rows, step, spared, reader, clock, faults>>

WriteRows(c) ==
  /\ call[c].step = "rows"
  /\ LET t == call[c].table IN rows' = [rows EXCEPT ![t] = @ \cup Needs[InputOf[c]][t]]
  /\ Go(c, "link")
  /\ UNCHANGED <<pubs, links, writer, step, spared, reader, clock, faults>>

Link(c) ==
  /\ call[c].step = "link"
  /\ LET t == call[c].table
     IN links' = [links EXCEPT ![call[c].token][t] = @ \cup Needs[InputOf[c]][t]]
  /\ Go(c, "record")
  /\ UNCHANGED <<pubs, rows, writer, step, spared, reader, clock, faults>>

Record(c) ==
  /\ call[c].step = "record"
  /\ LET t == call[c].table
     IN /\ pubs' = [pubs EXCEPT ![call[c].token].versions =
                      [u \in DOMAIN @ \cup {t} |-> IF u = t THEN rows[t] ELSE @[u]]]
        /\ \/ t < Cardinality(Tables) /\ UNCHANGED faults
              /\ call' = [call EXCEPT ![c].step = "put", ![c].table = t + 1]
           \/ t = Cardinality(Tables) /\ Go(c, "finalize") /\ UNCHANGED faults
           \/ Fault /\ Go(c, "abandon")
  /\ writer' = Nobody
  /\ UNCHANGED <<links, rows, step, spared, reader, clock>>

(* Mutant: the tables a reservation declared are not compared with those   *)
(* it has recorded.                                                        *)
CompleteEnough(g) == TRUE

Complete(g) == DOMAIN pubs[g].versions = Tables

(* A generation a peer has published meanwhile is returned as it is.       *)
Finalize(c) ==
  /\ call[c].step = "finalize" /\ writer = Nobody
  /\ LET g == call[c].token
     IN \/ Published(g) /\ End(c, "done") /\ UNCHANGED <<pubs, clock, faults>>
        \/ /\ Active(g) /\ Complete(g)
           /\ pubs' = [pubs EXCEPT ![g].state = "published", ![g].at = clock + 1]
           /\ clock' = clock + 1
           /\ \/ End(c, "done") /\ UNCHANGED faults
              \/ Fault /\ Go(c, "abandon")
        \/ /\ ~Published(g) /\ ~(Active(g) /\ Complete(g))
           /\ Go(c, "abandon") /\ UNCHANGED <<pubs, clock, faults>>
  /\ UNCHANGED <<links, rows, writer, step, spared, reader>>

(* The refresh's catch block; what abandonPublication throws is ignored.   *)
Abandon(c) ==
  /\ call[c].step = "abandon" /\ writer = Nobody
  /\ IF Active(call[c].token)
     THEN pubs' = [pubs EXCEPT ![call[c].token].state = "abandoned"]
     ELSE UNCHANGED pubs
  /\ End(c, "start")
  /\ UNCHANGED <<links, rows, writer, step, spared, reader, clock, faults>>

(* Mutant: a section that fails keeps the writer's lock.                   *)
FailsHolding(c) ==
  /\ Fault
  /\ call[c].step \in {"put", "rows", "link", "record", "finalize"} /\ Go(c, "abandon")
  /\ UNCHANGED <<pubs, links, rows, writer, step, spared, reader, clock>>

(* An abort, an I/O error or a lost lease between any two writes, or a     *)
(* section of another process under way: the writer's lock is only tried.  *)
Fails(c) ==
  /\ Fault
  /\ \/ call[c].step \in {"reserve", "abandon"} /\ End(c, "start")
     \/ call[c].step \in {"put", "rows", "link", "record", "finalize"} /\ Go(c, "abandon")
  /\ writer' = IF writer = c THEN Nobody ELSE writer
  /\ UNCHANGED <<pubs, links, rows, step, spared, reader, clock>>

Crash(c) ==
  /\ call[c].step \notin {"start", "done"}
  /\ Fault
  /\ writer' = IF writer = c THEN Nobody ELSE writer
  /\ End(c, "start")
  /\ UNCHANGED <<pubs, links, rows, step, spared, reader, clock>>

Lapse(g) ==
  /\ Active(g)
  /\ Fault
  /\ pubs' = [pubs EXCEPT ![g].lapsed = TRUE]
  /\ UNCHANGED <<links, rows, writer, call, step, spared, reader, clock>>

----------------------------------------------------------------------------
(* A collection is one section: pins, publications, links, rows.           *)

(* A pin protects its generation, for a grace period even once it lapsed.  *)
Pins == IF reader.step # "open" THEN {{}}
        ELSE {{reader.gen}} \cup (IF reader.lapsed THEN {{}} ELSE {})

(* Mutant: publications are sorted oldest first.                           *)
NewerReversed(g) == {h \in Gens : Published(h) /\ pubs[h].at < pubs[g].at}

Newer(g) == {h \in Gens : Published(h) /\ pubs[h].at > pubs[g].at}

(* Mutant: the pins of readers are not looked at.                          *)
ProtectedUnpinned(pins) ==
  {g \in Gens : Active(g) \/ (Published(g) /\ Cardinality(Newer(g)) < Keep)}

Protected(pins) ==
  pins \cup {g \in Gens : Active(g) \/ (Published(g) /\ Cardinality(Newer(g)) < Keep)}

Collect ==
  /\ step = "start" /\ writer = Nobody
  /\ writer' = collector
  /\ \E pins \in Pins : spared' = Protected(pins)
  /\ step' = "publications"
  /\ UNCHANGED <<pubs, links, rows, call, reader, clock, faults>>

Obsolete == {g \in Gens : \/ pubs[g].state = "abandoned"
                          \/ pubs[g].state = "reserved" /\ pubs[g].lapsed
                          \/ Published(g) /\ g \notin spared}

DeletePublications ==
  /\ step = "publications"
  /\ \E gs \in kSubset(Min({MaxDeletes, Cardinality(Obsolete)}), Obsolete) :
       pubs' = [g \in Gens |-> IF g \in gs THEN NoRecord ELSE pubs[g]]
  /\ step' = "links"
  /\ UNCHANGED <<links, rows, writer, spared, call, reader, clock, faults>>

(* What is not protected goes, or stays while it is too young.             *)
DeleteLinks ==
  /\ step = "links"
  /\ \/ links' = [g \in Gens |-> IF g \in spared THEN links[g] ELSE Unlinked]
     \/ UNCHANGED links
  /\ step' = "rows"
  /\ UNCHANGED <<pubs, rows, writer, spared, call, reader, clock, faults>>

DeleteRows ==
  /\ step = "rows"
  /\ \/ rows' = [t \in Tables |-> rows[t] \cap UNION {links[g][t] : g \in spared}]
     \/ UNCHANGED rows
  /\ writer' = Nobody
  /\ step' = "start"
  /\ spared' = {}
  /\ UNCHANGED <<pubs, links, call, reader, clock, faults>>

CollectStops ==
  /\ step # "start"
  /\ Fault
  /\ writer' = Nobody
  /\ step' = "start"
  /\ spared' = {}
  /\ UNCHANGED <<pubs, links, rows, call, reader, clock>>

----------------------------------------------------------------------------
(* A reader takes the latest generation, checks that the stored record is  *)
(* still the one it read (a change in between only turns it away), and     *)
(* later writes its pin and opens the tables.                              *)

FindLatest ==
  /\ reader.step = "out"
  /\ \E g \in Latest : reader' = [step |-> "checked", gen |-> g, record |-> pubs[g]]
  /\ UNCHANGED <<pubs, links, rows, writer, call, step, spared, clock, faults>>

WritePin ==
  /\ reader.step = "checked"
  /\ reader' = IF writer = Nobody
               THEN [step |-> "open", gen |-> reader.gen, record |-> reader.record,
                     lapsed |-> FALSE]
               ELSE [step |-> "out"]
  /\ UNCHANGED <<pubs, links, rows, writer, call, step, spared, clock, faults>>

LapsePin ==
  /\ reader.step = "open" /\ ~reader.lapsed
  /\ reader' = [reader EXCEPT !.lapsed = TRUE]
  /\ UNCHANGED <<pubs, links, rows, writer, call, step, spared, clock, faults>>

Close ==
  /\ reader.step = "open" /\ writer = Nobody
  /\ reader' = [step |-> "out"]
  /\ UNCHANGED <<pubs, links, rows, writer, call, step, spared, clock, faults>>

Refresh(c) == \/ Reuse(c) \/ Reserve(c) \/ Put(c) \/ WriteRows(c) \/ Link(c) \/ Record(c)
              \/ Finalize(c) \/ Abandon(c) \/ Fails(c) \/ Crash(c)
Collection == Collect \/ DeletePublications \/ DeleteLinks \/ DeleteRows \/ CollectStops
Reading    == FindLatest \/ WritePin \/ LapsePin \/ Close

Next == (\E c \in Calls : Refresh(c)) \/ (\E g \in Gens : Lapse(g)) \/ Collection \/ Reading

Spec == Init /\ [][Next]_vars

----------------------------------------------------------------------------
(* The records, and who may be inside a section.                           *)
TypeOK ==
  /\ \A g \in Gens :
       /\ pubs[g].state \in {"none", "reserved", "abandoned", "published"}
       /\ pubs[g].at \in 0..clock /\ pubs[g].lapsed \in BOOLEAN
       /\ DOMAIN pubs[g].versions \subseteq Tables
       /\ \A t \in DOMAIN pubs[g].versions : pubs[g].versions[t] \subseteq Artifacts
  /\ links \in [Gens -> [Tables -> SUBSET Artifacts]]
  /\ rows \in [Tables -> SUBSET Artifacts]
  /\ writer \in Calls \cup {collector, Nobody}
  /\ \A c \in Calls :
       /\ call[c].step \in {"start", "reserve", "put", "rows", "link", "record", "finalize",
                           "abandon", "done"}
       /\ call[c].step \in {"rows", "link", "record"} <=> writer = c
       /\ call[c].token \in Gens \cup {Nobody} /\ call[c].table \in Tables
  /\ step # "start" <=> writer = collector
  /\ spared \subseteq Gens /\ clock \in Nat /\ faults \in 0..MaxFaults

(* What a reader of a generation can see: rows of the pinned versions that *)
(* are linked to the generation.                                           *)
Whole(g, record) ==
  /\ DOMAIN record.versions = Tables
  /\ \A t \in Tables : Needs[g.input][t] \subseteq links[g][t] \cap record.versions[t]

(* Whatever refresh failed or died between two writes, and whatever peer   *)
(* shared its reservation, a published generation has all of its rows, in  *)
(* the versions it recorded and linked (finalizePublication, collect).     *)
PublishedIsWhole == \A g \in Gens : Published(g) => Whole(g, pubs[g])

(* Once a pin is written, no collection, even one that ends after newer    *)
(* generations came, takes a row away from its reader before it lapses.    *)
PinsHold ==
  [][LET Sees == reader.step = "open" /\ ~reader.lapsed /\ Whole(reader.gen, reader.record)
     IN (Sees /\ reader' = reader) => Sees']_vars

(* A collection never changes which generation readers take as the latest. *)
CollectSparesLatest ==
  [][step' # step => Latest' = Latest]_vars

(* A generation a refresh gave up is never revived: peers with the same    *)
(* token cannot write to or publish it; only a collection removes it.      *)
AbandonedIsFinal ==
  [][\A g \in Gens : pubs[g].state = "abandoned" =>
       pubs'[g] \in {pubs[g], NoRecord}]_vars

(* A published generation is immutable: its record changes only when a     *)
(* collection removes it (immutable: true in every published record).      *)
PublishedStays ==
  [][\A g \in Gens : Published(g) => pubs'[g] \in {pubs[g], NoRecord}]_vars

----------------------------------------------------------------------------
(* The strengthening the proofs of PublicationStoreProofs rest on.         *)

Section  == {"rows", "link", "record"}
Engaged  == {"put", "finalize", "abandon"} \cup Section
Versions == UNION {[S -> SUBSET Artifacts] : S \in SUBSET Tables}
Records  == [state : {"none", "reserved", "abandoned", "published"}, versions : Versions,
             at : Nat, lapsed : BOOLEAN]

(* A refresh that is under way works for a generation of its own input.    *)
Shape ==
  /\ pubs \in [Gens -> Records]
  /\ call \in [Calls -> [step : {"start", "reserve", "done"} \cup Engaged,
                         token : Gens \cup {Nobody}, table : Tables]]
  /\ \A c \in Calls : call[c].step \in Engaged =>
       call[c].token \in Gens /\ call[c].token.input = InputOf[c]
  /\ step \in {"start", "publications", "links", "rows"}
  /\ reader \in [step : {"out"}] \cup [step : {"checked"}, gen : Gens, record : Records]
               \cup [step : {"open"}, gen : Gens, record : Records, lapsed : BOOLEAN]

(* A section stands over a reservation, and what it has written is there.  *)
SectionInv ==
  \A c \in Calls :
    LET g == call[c].token  t == call[c].table  needs == Needs[InputOf[c]][t]
    IN /\ call[c].step \in Section => pubs[g].state = "reserved"
       /\ call[c].step \in {"link", "record"} => needs \subseteq rows[t]
       /\ call[c].step = "record" => needs \subseteq links[g][t]

(* A running collection spares the pin of a reader that has not lapsed.    *)
PinInv ==
  (step # "start" /\ reader.step = "open" /\ ~reader.lapsed) => reader.gen \in spared

(* What readers take as the latest is spared.                              *)
LatestInv == step = "publications" => Latest \subseteq spared

StoreInv == TypeOK /\ Shape /\ SectionInv /\ PinInv /\ LatestInv

(* When a collection deletes all it finds obsolete, what is left of the    *)
(* publications is spared, so its links stay.                              *)
SparedInv ==
  /\ step = "publications" => \A g \in Gens : Active(g) => g \in spared
  /\ step \in {"links", "rows"} => \A g \in Gens : pubs[g].state # "none" => g \in spared

LinkedInv ==
  \A g \in Gens : pubs[g].state # "none" =>
    \A t \in DOMAIN pubs[g].versions :
      Needs[g.input][t] \subseteq links[g][t] \cap pubs[g].versions[t]

WholeInv ==
  /\ SparedInv /\ LinkedInv
  /\ \A g \in Gens : Published(g) => Complete(g)
=============================================================================
