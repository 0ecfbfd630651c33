--------------------------- MODULE ReceiptsProofs ----------------------------
(***************************************************************************)
(* Preview receipts are spent once and as previewed, for all batches,      *)
(* sessions, plans, contents, tokens and limits.                           *)
(***************************************************************************)
EXTENDS Receipts, FiniteSetTheorems, TLAPS

World == [file : [Files -> Contents], workspace : Nat, config : Nat, validator : Nat, changes : Nat]

Stored == [file : Files, session : Sessions, source : Contents, candidate : Contents,
           binding : [workspace : Nat, config : Nat], validator : Nat, aged : BOOLEAN]

Made == [receipt : Stored, by : Batches, told : BOOLEAN, lost : BOOLEAN]

Prepared == [kind : {"preview"}, token : Nat]
            \cup [kind : {"receipt"}, token : Nat, candidate : Contents, source : Contents, validator : Nat]
            \cup [kind : {"direct"}, source : Contents]

Answers == {"none", "reserved", "expired", "unknown", "file_mismatch", "session_mismatch",
            "workspace_changed", "configuration_changed", "source_changed", "receipt_limit",
            "staging", "journal", "sql_changed", "files"}

Running == [state : {"waiting", "preflight", "begin", "apply", "rollback", "release", "done"},
            session : Sessions, entries : Plans, at : Nat,
            captured : {<<>>} \cup [Files -> Contents], prepared : Seq(Prepared),
            committed : SUBSET (Files \X Contents),
            wrote : SUBSET [token : Nat, file : Files, over : Contents, text : Contents],
            began : BOOLEAN, safe : BOOLEAN, completed : BOOLEAN, answer : Answers]

Shape ==
    /\ world \in World
    /\ \E n \in Nat : DOMAIN made = 1 .. n
    /\ made \in [DOMAIN made -> Made]
    /\ DOMAIN receipts \subseteq DOMAIN made /\ receipts \in [DOMAIN receipts -> Stored]
    /\ reserved \in [Batches -> SUBSET Nat]
    /\ batch \in [Batches -> {Idle} \cup Running]

(* A stored receipt is as it was made, but for its age.                    *)
AsMade(t) ==
    LET r == made[t].receipt
    IN /\ receipts[t].file = r.file /\ receipts[t].session = r.session
       /\ receipts[t].source = r.source /\ receipts[t].candidate = r.candidate

Working == {"preflight", "begin", "apply", "rollback"}

(* What a batch has reserved: all tokens it names while it works.          *)
Reserves(b) ==
    /\ batch[b].state # "idle" => TokensOf(batch[b].entries) \subseteq DOMAIN made
    /\ batch[b].state \in {"idle", "waiting", "done"} => reserved[b] = {}
    /\ batch[b].state \in Working => reserved[b] = TokensOf(batch[b].entries)

(* What a batch has prepared is of its entries, and of receipts as they    *)
(* were made.                                                              *)
Agrees(e, p) ==
    /\ e.kind = p.kind
    /\ p.kind = "receipt" => /\ p.token = e.token /\ p.token \in DOMAIN made
                             /\ p.candidate = made[p.token].receipt.candidate

Prepares(b) ==
    /\ batch[b].state \in Working =>
         /\ batch[b].captured \in [Files -> Contents]
         /\ batch[b].at >= 1
         /\ Len(batch[b].prepared) <= Len(batch[b].entries)
         /\ \A i \in 1 .. Len(batch[b].prepared) : Agrees(batch[b].entries[i], batch[b].prepared[i])
    /\ batch[b].state = "waiting" => batch[b].prepared = <<>>
    /\ batch[b].state \in {"waiting", "preflight"} =>
         batch[b].at = Len(batch[b].prepared) + 1
    /\ batch[b].state \in {"begin", "apply"} => Len(batch[b].prepared) = Len(batch[b].entries)

(* What a batch has written by receipts is as previewed; the receipt is    *)
(* still reserved, or spent and gone.                                      *)
AsPreviewed(b, w) ==
    LET r == made[w.token].receipt
    IN /\ w.token \in DOMAIN made
       /\ w.file = r.file /\ w.over = r.source /\ w.text = r.candidate
       /\ batch[b].session = r.session

Spends(b, w) ==
    \/ w.token \in reserved[b]
    \/ batch[b].completed /\ w.token \notin DOMAIN receipts

Writes(b) ==
    /\ batch[b].state \in {"waiting", "preflight", "begin"} => batch[b].wrote = {}
    /\ batch[b].state \in {"release", "done"} /\ batch[b].wrote # {} => batch[b].completed
    /\ batch[b].state # "idle" => \A w \in batch[b].wrote : AsPreviewed(b, w) /\ Spends(b, w)

Apart(a, b) ==
    /\ reserved[a] \cap reserved[b] = {}
    /\ batch[a].state # "idle" /\ batch[b].state # "idle" =>
         \A v \in batch[a].wrote, w \in batch[b].wrote : v.token # w.token

(* A stored receipt is known, or its batch is still at work on it.         *)
Owned(t) ==
    \/ made[t].told \/ made[t].lost
    \/ /\ batch[made[t].by].state \in {"preflight", "begin", "apply"}
       /\ t \in Previews(made[t].by)

OfSession(s) == {t \in DOMAIN receipts : receipts[t].session = s}

ReceiptsInv ==
    /\ Shape
    /\ \A t \in DOMAIN receipts : AsMade(t) /\ Owned(t)
    /\ \A b \in Batches : Reserves(b) /\ Prepares(b) /\ Writes(b)
    /\ \A a, b \in Batches : a # b => Apart(a, b)
    /\ \A s \in Sessions : Cardinality(OfSession(s)) <= MaxReceipts

-----------------------------------------------------------------------------
(* Parts of a state.                                                       *)

LEMMA IdleState == Idle.state = "idle"
BY DEF Idle

LEMMA RunningBatch ==
    ASSUME Shape, NEW b \in Batches, batch[b].state # "idle"
    PROVE  batch[b] \in Running
BY IdleState DEF Shape

LEMMA EntriesOfBatch ==
    ASSUME ReceiptsAssumption, NEW k \in Running
    PROVE  /\ k.entries \in Seq(Entries) /\ Len(k.entries) \in Nat
           /\ \A i \in 1 .. Len(k.entries) :
                /\ k.entries[i] \in ToSet(k.entries) /\ k.entries[i] \in Entries
                /\ k.entries[i].file \in Files
                /\ k.entries[i].kind \in {"preview", "direct", "receipt"}
<1>1. k.entries \in Seq(Entries)
  BY DEF ReceiptsAssumption, Running
<1>2. \A i \in 1 .. Len(k.entries) : k.entries[i] \in Entries /\ k.entries[i] \in ToSet(k.entries)
  BY <1>1 DEF ToSet
<1> QED
  BY <1>1, <1>2 DEF ReceiptsAssumption, Files

(* The tokens of a sequence of entries.                                    *)
LEMMA TokenOfEntry ==
    ASSUME NEW s, NEW i \in DOMAIN s, s[i].kind = "receipt"
    PROVE  s[i].token \in TokensOf(s)
BY DEF TokensOf, ToSet

LEMMA WithoutFacts ==
    ASSUME Shape, NEW ts
    PROVE  /\ DOMAIN Without(ts) = DOMAIN receipts \ ts
           /\ Without(ts) \in [DOMAIN receipts \ ts -> Stored]
           /\ \A t \in DOMAIN receipts \ ts : Without(ts)[t] = receipts[t]
BY DEF Shape, Without

LEMMA ReceiptsAreFinite ==
    ASSUME Shape
    PROVE  IsFiniteSet(DOMAIN made) /\ IsFiniteSet(DOMAIN receipts)
<1>1. PICK n \in Nat : DOMAIN made = 1 .. n
  BY DEF Shape
<1>2. IsFiniteSet(1 .. n)
  BY FS_Interval
<1> QED
  BY <1>1, <1>2, FS_Subset DEF Shape

LEMMA FewerOfSession ==
    ASSUME ReceiptsInv, NEW s \in Sessions, NEW T \in SUBSET OfSession(s), ReceiptsAssumption
    PROVE  Cardinality(T) <= MaxReceipts
<1>1. IsFiniteSet(OfSession(s))
  <2>1. OfSession(s) \subseteq DOMAIN receipts
    BY DEF OfSession
  <2> QED
    BY <2>1, ReceiptsAreFinite, FS_Subset DEF ReceiptsInv
<1>2. Cardinality(T) <= Cardinality(OfSession(s)) /\ Cardinality(T) \in Nat
      /\ Cardinality(OfSession(s)) \in Nat
  BY <1>1, FS_Subset, FS_CardinalityType
<1> QED
  BY <1>2 DEF ReceiptsInv, ReceiptsAssumption

-----------------------------------------------------------------------------
(* What steps have in common.                                              *)

(* What is known of a receipt only grows, and what is stored of it goes.   *)
Grows ==
    \A t \in DOMAIN made :
        /\ t \in DOMAIN made'
        /\ made'[t].receipt = made[t].receipt /\ made'[t].by = made[t].by
        /\ (made[t].told => made'[t].told) /\ (made[t].lost => made'[t].lost)

Shrinks ==
    \A t \in DOMAIN receipts' \cap DOMAIN made :
        /\ t \in DOMAIN receipts
        /\ receipts'[t].file = receipts[t].file /\ receipts'[t].session = receipts[t].session
        /\ receipts'[t].source = receipts[t].source
        /\ receipts'[t].candidate = receipts[t].candidate

(* What the invariant says of one batch.                                   *)
Sound(b) ==
    /\ Reserves(b) /\ Prepares(b) /\ Writes(b)
    /\ \A t \in DOMAIN receipts : made[t].by = b => Owned(t)
    /\ \A a \in Batches \ {b} : Apart(a, b) /\ Apart(b, a)

(* The batches of C move, and receipts may be made.                        *)
LEMMA Moves ==
    ASSUME ReceiptsInv, Shape', NEW C \in SUBSET Batches, Grows, Shrinks,
           \A a \in Batches \ C : reserved'[a] = reserved[a] /\ batch'[a] = batch[a],
           \A c \in C : Sound(c)',
           \A t \in DOMAIN receipts' \ DOMAIN made : AsMade(t)' /\ Owned(t)',
           \A s \in Sessions : (Cardinality(OfSession(s)) <= MaxReceipts)'
    PROVE  ReceiptsInv'
<1>1. Shape
  BY DEF ReceiptsInv
<1>2. ASSUME NEW t \in DOMAIN receipts' PROVE AsMade(t)' /\ Owned(t)'
  <2>1. CASE t \notin DOMAIN made
    BY <2>1
  <2>2. CASE t \in DOMAIN made
    <3>1. t \in DOMAIN receipts /\ AsMade(t) /\ Owned(t) /\ made[t] \in Made
      BY <1>1, <2>2 DEF ReceiptsInv, Shape, Shrinks
    <3>2. AsMade(t)'
      BY <2>2, <3>1 DEF AsMade, Grows, Shrinks
    <3>3. made[t].by \in Batches
      BY <3>1 DEF Made
    <3>4. PICK c \in Batches : made[t].by = c /\ made'[t].by = c
      BY <2>2, <3>3 DEF Grows
    <3>5. ASSUME c \in C PROVE Owned(t)'
      BY <3>4, <3>5 DEF Sound
    <3>6. ASSUME c \notin C PROVE Owned(t)'
      <4>1. batch'[c] = batch[c]
        BY <3>6
      <4>2. Previews(c)' = Previews(c)
        BY <4>1 DEF Previews
      <4>3. (made[t].told => made'[t].told) /\ (made[t].lost => made'[t].lost)
        BY <2>2 DEF Grows
      <4> QED
        BY <3>1, <3>4, <4>1, <4>2, <4>3 DEF Owned
    <3> QED
      BY <3>2, <3>5, <3>6
  <2> QED
    BY <2>1, <2>2
<1>3. ASSUME NEW a \in Batches PROVE Reserves(a)' /\ Prepares(a)' /\ Writes(a)'
  <2>1. Reserves(a) /\ Prepares(a) /\ Writes(a)
    BY DEF ReceiptsInv
  <2>2. CASE a \notin C
    <3>1. batch'[a] = batch[a] /\ reserved'[a] = reserved[a]
      BY <2>2
    <3>2. Reserves(a)'
      BY <2>1, <3>1 DEF Reserves, Grows
    <3>3. Prepares(a)'
      BY <2>1, <3>1 DEF Prepares, Agrees, Grows
    <3>4. Writes(a)'
      <4>1. ASSUME NEW w \in batch[a].wrote, AsPreviewed(a, w), Spends(a, w)
            PROVE  AsPreviewed(a, w)' /\ Spends(a, w)'
        <5>1. AsPreviewed(a, w)'
          BY <3>1, <4>1 DEF AsPreviewed, Grows
        <5>2. Spends(a, w)'
          BY <3>1, <4>1 DEF AsPreviewed, Spends, Shrinks
        <5> QED
          BY <5>1, <5>2
      <4> QED
        BY <2>1, <3>1, <4>1 DEF Writes
    <3> QED
      BY <3>2, <3>3, <3>4
  <2> QED
    BY <2>2 DEF Sound
<1>4. ASSUME NEW a \in Batches, NEW b \in Batches, a # b PROVE Apart(a, b)'
  <2>1. CASE a \in C \/ b \in C
    BY <1>4, <2>1 DEF Sound
  <2>2. CASE a \notin C /\ b \notin C
    BY <1>4, <2>2 DEF ReceiptsInv, Apart
  <2> QED
    BY <2>1, <2>2
<1> QED
  BY <1>2, <1>3, <1>4 DEF ReceiptsInv

(* No receipt is made.                                                     *)
LEMMA MovesOnly ==
    ASSUME ReceiptsInv, ReceiptsAssumption, NEW C \in SUBSET Batches, Grows, Shrinks,
           world' \in World, DOMAIN made' = DOMAIN made, made' \in [DOMAIN made -> Made],
           DOMAIN receipts' \subseteq DOMAIN receipts, receipts' \in [DOMAIN receipts' -> Stored],
           reserved' \in [Batches -> SUBSET Nat], batch' \in [Batches -> {Idle} \cup Running],
           \A a \in Batches \ C : reserved'[a] = reserved[a] /\ batch'[a] = batch[a],
           \A c \in C : Sound(c)'
    PROVE  ReceiptsInv'
<1>1. Shape
  BY DEF ReceiptsInv
<1>2. Shape'
  BY <1>1 DEF Shape
<1>3. DOMAIN receipts' \ DOMAIN made = {}
  BY <1>1 DEF Shape
<1>4. ASSUME NEW s \in Sessions PROVE (Cardinality(OfSession(s)) <= MaxReceipts)'
  <2>1. OfSession(s)' \subseteq OfSession(s)
    BY <1>1 DEF OfSession, Shrinks, Shape
  <2> QED
    BY <2>1, FewerOfSession
<1> QED
  BY <1>2, <1>3, <1>4, Moves

(* One batch goes on, and has not written more.                            *)
LEMMA BatchSteps ==
    ASSUME ReceiptsInv, ReceiptsAssumption, NEW b \in Batches, NEW n \in Running,
           batch[b].state # "idle", batch' = [batch EXCEPT ![b] = n], world' \in World,
           DOMAIN made' = DOMAIN made, made' \in [DOMAIN made -> Made], Grows,
           NEW ts, receipts' = Without(ts), reserved' = reserved,
           n.session = batch[b].session, n.wrote \subseteq batch[b].wrote,
           batch[b].completed => n.completed,
           n.state \in {"waiting", "preflight", "begin"} => n.wrote = {},
           n.state \in {"release", "done"} /\ n.wrote # {} => n.completed,
           Reserves(b)', Prepares(b)',
           \A t \in DOMAIN receipts' : made'[t].by = b => Owned(t)'
    PROVE  ReceiptsInv'
<1>1. Shape /\ Writes(b) /\ batch \in [Batches -> {Idle} \cup Running]
  BY DEF ReceiptsInv, Shape
<1>2. batch'[b] = n /\ \A a \in Batches \ {b} : batch'[a] = batch[a]
  BY <1>1
<1>3. batch' \in [Batches -> {Idle} \cup Running]
  BY <1>1
<1>4. /\ DOMAIN receipts' = DOMAIN receipts \ ts /\ receipts' \in [DOMAIN receipts' -> Stored]
      /\ \A t \in DOMAIN receipts' : receipts'[t] = receipts[t]
  <2>1. /\ DOMAIN Without(ts) = DOMAIN receipts \ ts
        /\ Without(ts) \in [DOMAIN receipts \ ts -> Stored]
        /\ \A t \in DOMAIN receipts \ ts : Without(ts)[t] = receipts[t]
    BY <1>1, WithoutFacts
  <2> QED
    BY <2>1
<1>5. Writes(b)'
  <2>1. ASSUME NEW w \in n.wrote PROVE AsPreviewed(b, w)' /\ Spends(b, w)'
    <3>1. AsPreviewed(b, w) /\ Spends(b, w)
      BY <1>1, <2>1 DEF Writes
    <3> QED
      BY <1>2, <1>4, <3>1 DEF AsPreviewed, Spends, Grows
  <2> QED
    BY <1>2, <2>1 DEF Writes
<1>6. ASSUME NEW a \in Batches \ {b} PROVE Apart(a, b)' /\ Apart(b, a)'
  <2>1. Apart(a, b) /\ Apart(b, a)
    BY DEF ReceiptsInv
  <2> QED
    BY <1>2, <2>1 DEF Apart
<1>7. PICK C \in SUBSET Batches : C = {b}
  OBVIOUS
<1>8. \A c \in C : Sound(c)'
  BY <1>5, <1>6, <1>7 DEF Sound
<1>9. Shrinks /\ DOMAIN receipts' \subseteq DOMAIN receipts
  BY <1>1, <1>4 DEF Shrinks, Shape
<1>10. reserved' \in [Batches -> SUBSET Nat]
  BY <1>1 DEF Shape
<1>11. \A a \in Batches \ C : reserved'[a] = reserved[a] /\ batch'[a] = batch[a]
  BY <1>2, <1>7
<1> QED
  BY <1>3, <1>4, <1>8, <1>9, <1>10, <1>11, MovesOnly

-----------------------------------------------------------------------------
(* What a batch in progress leaves alone.                                  *)

LEMMA NothingGoes ==
    ASSUME Shape
    PROVE  receipts = Without({})
<1>1. receipts = [t \in DOMAIN receipts |-> receipts[t]]
  BY DEF Shape
<1>2. DOMAIN receipts \ {} = DOMAIN receipts
  OBVIOUS
<1> QED
  BY <1>1, <1>2 DEF Without

LEMMA SameIsKnown ==
    ASSUME Shape, made' = made
    PROVE  DOMAIN made' = DOMAIN made /\ made' \in [DOMAIN made -> Made] /\ Grows
BY DEF Shape, Grows

(* What a batch that is not at work made is known.                         *)
LEMMA OthersAreKnown ==
    ASSUME ReceiptsInv, NEW b \in Batches, NEW t \in DOMAIN receipts, made[t].by = b,
           \/ batch[b].state \notin {"preflight", "begin", "apply"}
           \/ t \notin Previews(b)
    PROVE  made[t].told \/ made[t].lost
BY DEF ReceiptsInv, Owned

(* A batch leaves its work behind, or is about to.                         *)
LEMMA Leaves ==
    ASSUME ReceiptsInv, ReceiptsAssumption, NEW b \in Batches, NEW n \in Running,
           batch[b].state # "idle", batch' = [batch EXCEPT ![b] = n], world' \in World,
           DOMAIN made' = DOMAIN made, made' \in [DOMAIN made -> Made], Grows,
           NEW ts, receipts' = Without(ts), reserved' = reserved,
           n.session = batch[b].session, n.entries = batch[b].entries,
           n.wrote \subseteq batch[b].wrote, batch[b].completed => n.completed,
           n.state \in {"rollback", "release", "done"},
           n.state = "rollback" => /\ batch[b].state \in Working /\ n.captured = batch[b].captured
                                   /\ n.prepared = batch[b].prepared /\ n.at = batch[b].at,
           n.state = "done" => reserved[b] = {},
           n.state # "rollback" /\ n.wrote # {} => n.completed,
           \A t \in DOMAIN receipts' : made[t].by = b => made'[t].told \/ made'[t].lost
    PROVE  ReceiptsInv'
<1>1. /\ batch \in [Batches -> {Idle} \cup Running] /\ Reserves(b) /\ Prepares(b)
      /\ Shape
  BY DEF ReceiptsInv, Shape
<1>2. batch'[b] = n
  BY <1>1
<1>3. Reserves(b)'
  <2>1. TokensOf(n.entries) \subseteq DOMAIN made
    BY <1>1 DEF Reserves
  <2>2. n.state = "rollback" => reserved[b] = TokensOf(n.entries)
    BY <1>1 DEF Reserves
  <2> QED
    BY <1>2, <2>1, <2>2 DEF Reserves, Working
<1>4. Prepares(b)'
  <2>1. ASSUME n.state = "rollback" PROVE Prepares(b)'
    <3>1. /\ n.captured \in [Files -> Contents] /\ n.at >= 1 /\ Len(n.prepared) <= Len(n.entries)
          /\ \A i \in 1 .. Len(n.prepared) : Agrees(n.entries[i], n.prepared[i])
      BY <1>1, <2>1 DEF Prepares
    <3>2. \A i \in 1 .. Len(n.prepared) : Agrees(n.entries[i], n.prepared[i])'
      BY <1>1, <3>1 DEF Agrees, Grows
    <3> QED
      BY <1>2, <2>1, <3>1, <3>2 DEF Prepares
  <2>2. ASSUME n.state # "rollback" PROVE Prepares(b)'
    BY <1>2, <2>2 DEF Prepares, Working
  <2> QED
    BY <2>1, <2>2
<1>5. \A t \in DOMAIN receipts' : made'[t].by = b => Owned(t)'
  <2>0. DOMAIN Without(ts) = DOMAIN receipts \ ts
    BY <1>1, WithoutFacts
  <2>1. DOMAIN receipts' \subseteq DOMAIN made
    BY <1>1, <2>0 DEF Shape
  <2> QED
    BY <2>1 DEF Grows, Owned
<1> QED
  BY <1>3, <1>4, <1>5, BatchSteps

(* A batch fails, and forgets what it has previewed.                       *)
LEMMA Forgets ==
    ASSUME ReceiptsInv, ReceiptsAssumption, NEW b \in Batches, batch[b].state \in Working,
           NEW st \in {"release", "rollback"}, NEW an \in Answers, NEW sf \in BOOLEAN,
           batch' = [batch EXCEPT ![b] = [[batch[b] EXCEPT !.state = st, !.answer = an] EXCEPT !.safe = sf]],
           st = "release" => batch[b].wrote = {},
           NEW ts, Previews(b) \subseteq ts, receipts' = Without(ts),
           UNCHANGED <<world, reserved, made>>
    PROVE  ReceiptsInv'
<1> DEFINE k == batch[b]  m == [k EXCEPT !.state = st, !.answer = an]  n == [m EXCEPT !.safe = sf]
<1>1. Shape /\ k \in Running /\ batch[b].state # "idle" /\ batch' = [batch EXCEPT ![b] = n]
  BY RunningBatch DEF ReceiptsInv, Working
<1>2. /\ m \in Running /\ m.state = st /\ m.session = k.session /\ m.entries = k.entries
      /\ m.captured = k.captured /\ m.prepared = k.prepared /\ m.at = k.at
      /\ m.wrote = k.wrote /\ m.completed = k.completed
  <2>1. k \in Running
    BY <1>1
  <2> HIDE DEF k
  <2> QED
    BY <2>1 DEF Running
<1>3. /\ n \in Running /\ n.state = m.state /\ n.session = m.session /\ n.entries = m.entries
      /\ n.captured = m.captured /\ n.prepared = m.prepared /\ n.at = m.at
      /\ n.wrote = m.wrote /\ n.completed = m.completed
  <2>1. m \in Running
    BY <1>2
  <2> HIDE DEF m
  <2> QED
    BY <2>1 DEF Running
<1>4. world' \in World /\ DOMAIN made' = DOMAIN made /\ made' \in [DOMAIN made -> Made] /\ Grows
  BY <1>1, SameIsKnown DEF Shape
<1>5. \A t \in DOMAIN receipts' : made[t].by = b => made'[t].told \/ made'[t].lost
  <2>0. DOMAIN Without(ts) = DOMAIN receipts \ ts
    BY <1>1, WithoutFacts
  <2>1. ASSUME NEW t \in DOMAIN receipts', made[t].by = b PROVE made'[t].told \/ made'[t].lost
    <3>1. t \in DOMAIN receipts /\ t \notin Previews(b)
      BY <2>0, <2>1
    <3> QED
      BY <2>1, <3>1, OthersAreKnown
  <2> QED
    BY <2>1
<1>6. /\ n.session = batch[b].session /\ n.entries = batch[b].entries /\ n.state = st
      /\ n.captured = batch[b].captured /\ n.prepared = batch[b].prepared /\ n.at = batch[b].at
      /\ n.wrote = batch[b].wrote /\ n.completed = batch[b].completed
  BY <1>2, <1>3
<1>7. n \in Running
  BY <1>3
<1> HIDE DEF n, m, k
<1>8. /\ n.session = batch[b].session /\ n.entries = batch[b].entries
      /\ n.wrote \subseteq batch[b].wrote /\ (batch[b].completed => n.completed)
      /\ n.state \in {"rollback", "release", "done"}
      /\ n.state = "rollback" => /\ batch[b].state \in Working /\ n.captured = batch[b].captured
                                 /\ n.prepared = batch[b].prepared /\ n.at = batch[b].at
      /\ n.state = "done" => reserved[b] = {}
      /\ n.state # "rollback" /\ n.wrote # {} => n.completed
  BY <1>6
<1> QED
  BY <1>1, <1>4, <1>5, <1>7, <1>8, Leaves

-----------------------------------------------------------------------------
(* The steps of a batch.                                                   *)

LEMMA CallInv ==
    ASSUME ReceiptsInv, ReceiptsAssumption, NEW b \in Batches, NEW s \in Sessions, NEW p \in Plans,
           Call(b, s, p)
    PROVE  ReceiptsInv'
<1> DEFINE n == [state |-> "waiting", session |-> s, entries |-> p, at |-> 1,
                 captured |-> <<>>, prepared |-> <<>>, committed |-> {}, wrote |-> {},
                 began |-> FALSE, safe |-> TRUE, completed |-> FALSE, answer |-> "none"]
<1>1. /\ batch[b].state = "idle" /\ batch' = [batch EXCEPT ![b] = n]
      /\ UNCHANGED <<world, receipts, reserved, expired, made>>
      /\ TokensOf(p) \subseteq DOMAIN made
  BY IdleState DEF Call
<1>2. /\ n \in Running /\ n.state = "waiting" /\ n.entries = p /\ n.wrote = {} /\ n.at = 1
      /\ n.prepared = <<>>
  <2>1. <<>> \in Seq(Prepared)
    OBVIOUS
  <2> QED
    BY <2>1 DEF Running, Answers
<1> HIDE DEF n
<1>3. Shape /\ batch \in [Batches -> {Idle} \cup Running] /\ reserved[b] = {}
  BY <1>1 DEF ReceiptsInv, Shape, Reserves
<1>4. /\ batch'[b] = n /\ batch' \in [Batches -> {Idle} \cup Running]
      /\ \A a \in Batches \ {b} : batch'[a] = batch[a]
  BY <1>1, <1>2, <1>3
<1>5. Sound(b)'
  <2>1. Reserves(b)'
    BY <1>1, <1>2, <1>3, <1>4 DEF Reserves, Working
  <2>2. Prepares(b)' /\ Writes(b)'
    BY <1>2, <1>4 DEF Prepares, Writes, Working
  <2>3. \A t \in DOMAIN receipts' : made'[t].by = b => Owned(t)'
    BY <1>1, OthersAreKnown DEF Owned
  <2>4. \A a \in Batches \ {b} : Apart(a, b)' /\ Apart(b, a)'
    BY <1>1, <1>2, <1>3, <1>4 DEF Apart
  <2> QED
    BY <2>1, <2>2, <2>3, <2>4 DEF Sound
<1>6. /\ world' \in World /\ DOMAIN made' = DOMAIN made /\ made' \in [DOMAIN made -> Made] /\ Grows
      /\ Shrinks /\ DOMAIN receipts' \subseteq DOMAIN receipts
      /\ receipts' \in [DOMAIN receipts' -> Stored] /\ reserved' \in [Batches -> SUBSET Nat]
  BY <1>1, <1>3, SameIsKnown DEF Shape, Shrinks
<1>7. PICK C \in SUBSET Batches : C = {b}
  OBVIOUS
<1>8. /\ \A a \in Batches \ C : reserved'[a] = reserved[a] /\ batch'[a] = batch[a]
      /\ \A c \in C : Sound(c)'
  BY <1>1, <1>4, <1>5, <1>7
<1> QED
  BY <1>4, <1>6, <1>8, MovesOnly

(* The tokens of a batch were handed out, and those of others are others.  *)
LEMMA ReserveInv ==
    ASSUME ReceiptsInv, ReceiptsAssumption, NEW b \in Batches, Reserve(b)
    PROVE  ReceiptsInv'
<1> DEFINE k == batch[b]
<1>1. /\ Shape /\ Reserves(b) /\ Prepares(b) /\ Writes(b) /\ k \in Running
      /\ k.state = "waiting" /\ k.wrote = {} /\ reserved[b] = {}
      /\ UNCHANGED <<world, receipts, expired, made>>
  <2>1. Shape /\ Reserves(b) /\ Prepares(b) /\ Writes(b) /\ k.state = "waiting"
        /\ UNCHANGED <<world, receipts, expired, made>>
    BY DEF ReceiptsInv, Reserve
  <2>2. k \in Running
    BY <2>1, RunningBatch
  <2> QED
    BY <2>1, <2>2 DEF Reserves, Writes
<1>2. CASE /\ batch' = [batch EXCEPT ![b].state = "done", ![b].answer = "reserved"]
           /\ UNCHANGED reserved
  <2> DEFINE n == [k EXCEPT !.state = "done", !.answer = "reserved"]
  <2>1. batch' = [batch EXCEPT ![b] = n]
    BY <1>2
  <2>2. /\ n \in Running /\ n.state = "done" /\ n.session = k.session /\ n.entries = k.entries
        /\ n.wrote = k.wrote /\ n.completed = k.completed
    <3>1. k \in Running
      BY <1>1
    <3> HIDE DEF k
    <3> QED
      BY <3>1 DEF Running, Answers
  <2> HIDE DEF n
  <2>3. \A t \in DOMAIN receipts' : made[t].by = b => made'[t].told \/ made'[t].lost
    BY <1>1, OthersAreKnown
  <2>4. receipts' = Without({}) /\ world' \in World /\ reserved' = reserved
    BY <1>1, <1>2, NothingGoes DEF Shape
  <2>5. DOMAIN made' = DOMAIN made /\ made' \in [DOMAIN made -> Made] /\ Grows
    BY <1>1, SameIsKnown
  <2>6. /\ n.session = batch[b].session /\ n.entries = batch[b].entries
        /\ n.wrote \subseteq batch[b].wrote /\ (batch[b].completed => n.completed)
        /\ n.state \in {"rollback", "release", "done"} /\ n.state # "rollback"
        /\ (n.state = "done" => reserved[b] = {}) /\ n.wrote = {} /\ batch[b].state # "idle"
    BY <1>1, <2>2
  <2>7. n \in Running
    BY <2>2
  <2> HIDE DEF k
  <2> QED
    BY <2>1, <2>3, <2>4, <2>5, <2>6, <2>7, Leaves
<1>3. CASE /\ TokensOf(k.entries) \cap UNION {reserved[o] : o \in Batches} = {}
           /\ batch' = [batch EXCEPT ![b].state = "preflight", ![b].captured = world.file]
           /\ reserved' = [reserved EXCEPT ![b] = TokensOf(k.entries)]
  <2> DEFINE n == [k EXCEPT !.state = "preflight", !.captured = world.file]
  <2>1. batch' = [batch EXCEPT ![b] = n]
    BY <1>3
  <2>2. world.file \in [Files -> Contents]
    BY <1>1 DEF Shape, World
  <2>3. /\ n \in Running /\ n.state = "preflight" /\ n.session = k.session /\ n.entries = k.entries
        /\ n.captured = world.file /\ n.wrote = k.wrote /\ n.at = k.at /\ n.prepared = k.prepared
    <3>1. k \in Running
      BY <1>1
    <3>2. world.file \in {<<>>} \cup [Files -> Contents]
      BY <2>2
    <3> DEFINE captures == {<<>>} \cup [Files -> Contents]  file == world.file
    <3>3. file \in captures
      BY <3>2
    <3> HIDE DEF k, captures, file
    <3>4. [k EXCEPT !.state = "preflight", !.captured = file] \in Running
      BY <3>1, <3>3 DEF Running, captures
    <3>5. LET m == [k EXCEPT !.state = "preflight", !.captured = file]
          IN /\ m.state = "preflight" /\ m.session = k.session /\ m.entries = k.entries
             /\ m.captured = file /\ m.wrote = k.wrote /\ m.at = k.at /\ m.prepared = k.prepared
      BY <3>1 DEF Running
    <3> QED
      BY <3>4, <3>5 DEF file
  <2>4. TokensOf(k.entries) \subseteq DOMAIN made /\ TokensOf(k.entries) \subseteq Nat
    BY <1>1 DEF Reserves, Shape
  <2> HIDE DEF n
  <2>5. /\ batch'[b] = n /\ batch' \in [Batches -> {Idle} \cup Running]
        /\ reserved'[b] = TokensOf(k.entries) /\ reserved' \in [Batches -> SUBSET Nat]
        /\ \A a \in Batches \ {b} : batch'[a] = batch[a] /\ reserved'[a] = reserved[a]
    <3>1. batch \in [Batches -> {Idle} \cup Running] /\ reserved \in [Batches -> SUBSET Nat]
      BY <1>1 DEF Shape
    <3>2. n \in Running
      BY <2>3
    <3> DEFINE T == TokensOf(k.entries)
    <3>3. T \in SUBSET Nat /\ reserved' = [reserved EXCEPT ![b] = T]
      BY <1>3, <2>4
    <3> HIDE DEF T
    <3>4. reserved'[b] = T /\ reserved' \in [Batches -> SUBSET Nat]
          /\ \A a \in Batches \ {b} : reserved'[a] = reserved[a]
      BY <3>1, <3>3
    <3>5. batch'[b] = n /\ batch' \in [Batches -> {Idle} \cup Running]
          /\ \A a \in Batches \ {b} : batch'[a] = batch[a]
      BY <2>1, <3>1, <3>2
    <3> QED
      BY <3>4, <3>5 DEF T
  <2>6. Sound(b)'
    <3>1. Reserves(b)'
      BY <1>1, <2>3, <2>4, <2>5 DEF Reserves, Working
    <3>2. Prepares(b)'
      <4>1. k.at = Len(k.prepared) + 1 /\ k.prepared = <<>>
        BY <1>1 DEF Prepares
      <4>2. Len(k.prepared) = 0 /\ k.at = 1 /\ Len(k.entries) \in Nat
        BY <1>1, <4>1, EntriesOfBatch
      <4>3. n.at = 1 /\ Len(n.prepared) = 0 /\ n.captured \in [Files -> Contents]
            /\ n.state = "preflight" /\ n.entries = k.entries
        BY <2>2, <2>3, <4>2
      <4> QED
        BY <2>5, <4>2, <4>3 DEF Prepares
    <3>3. Writes(b)'
      BY <1>1, <2>3, <2>5 DEF Writes
    <3>4. \A t \in DOMAIN receipts' : made'[t].by = b => Owned(t)'
      BY <1>1, OthersAreKnown DEF Owned
    <3>5. \A a \in Batches \ {b} : Apart(a, b)' /\ Apart(b, a)'
      BY <1>1, <1>3, <2>3, <2>5 DEF Apart
    <3> QED
      BY <3>1, <3>2, <3>3, <3>4, <3>5 DEF Sound
  <2>7. /\ world' \in World /\ DOMAIN made' = DOMAIN made /\ made' \in [DOMAIN made -> Made] /\ Grows
        /\ Shrinks /\ DOMAIN receipts' \subseteq DOMAIN receipts
        /\ receipts' \in [DOMAIN receipts' -> Stored]
    BY <1>1, SameIsKnown DEF Shape, Shrinks
  <2>8. PICK C \in SUBSET Batches : C = {b}
    OBVIOUS
  <2>9. /\ \A a \in Batches \ C : reserved'[a] = reserved[a] /\ batch'[a] = batch[a]
        /\ \A c \in C : Sound(c)'
    BY <2>5, <2>6, <2>8
  <2> QED
    BY <2>5, <2>7, <2>9, MovesOnly
<1> QED
  BY <1>2, <1>3 DEF Reserve

LEMMA UnlockInv ==
    ASSUME ReceiptsInv, ReceiptsAssumption, NEW b \in Batches, Unlock(b)
    PROVE  ReceiptsInv'
<1> DEFINE k == batch[b]  n == [k EXCEPT !.state = "done"]
<1>1. /\ Shape /\ Writes(b) /\ k \in Running /\ k.state = "release" /\ reserved[b] = {}
      /\ batch' = [batch EXCEPT ![b] = n] /\ UNCHANGED <<world, receipts, reserved, expired, made>>
  BY RunningBatch DEF ReceiptsInv, Unlock
<1>2. /\ n \in Running /\ n.state = "done" /\ n.session = k.session /\ n.entries = k.entries
      /\ n.wrote = k.wrote /\ n.completed = k.completed
  <2>1. k \in Running
    BY <1>1
  <2> HIDE DEF k
  <2> QED
    BY <2>1 DEF Running
<1> HIDE DEF n
<1>3. \A t \in DOMAIN receipts' : made[t].by = b => made'[t].told \/ made'[t].lost
  BY <1>1, OthersAreKnown
<1>4. receipts' = Without({}) /\ world' \in World /\ reserved' = reserved
      /\ DOMAIN made' = DOMAIN made /\ made' \in [DOMAIN made -> Made] /\ Grows
  BY <1>1, NothingGoes, SameIsKnown DEF Shape
<1>5. /\ n.session = batch[b].session /\ n.entries = batch[b].entries
      /\ n.wrote \subseteq batch[b].wrote /\ (batch[b].completed => n.completed)
      /\ n.state \in {"rollback", "release", "done"} /\ n.state # "rollback"
      /\ (n.state = "done" => reserved[b] = {}) /\ (n.wrote # {} => n.completed)
      /\ batch[b].state # "idle"
  BY <1>1, <1>2 DEF Writes
<1>6. batch' = [batch EXCEPT ![b] = n] /\ n \in Running
  BY <1>1, <1>2
<1> HIDE DEF k
<1> QED
  BY <1>3, <1>4, <1>5, <1>6, Leaves

(* What is known of the receipts of a batch, and of no other.              *)
LEMMA Learns ==
    ASSUME Shape, NEW T,
           \/ made' = [t \in DOMAIN made |-> [made[t] EXCEPT !.told = @ \/ t \in T]]
           \/ made' = [t \in DOMAIN made |-> [made[t] EXCEPT !.lost = @ \/ t \in T]]
    PROVE  /\ DOMAIN made' = DOMAIN made /\ made' \in [DOMAIN made -> Made] /\ Grows
           /\ \A t \in DOMAIN made \cap T : made'[t].told \/ made'[t].lost
<1>1. made \in [DOMAIN made -> Made]
  BY DEF Shape
<1>2. ASSUME NEW m \in Made, NEW in \in BOOLEAN, NEW n,
             n = [m EXCEPT !.told = @ \/ in] \/ n = [m EXCEPT !.lost = @ \/ in]
      PROVE  /\ n \in Made /\ n.receipt = m.receipt /\ n.by = m.by
             /\ (m.told => n.told) /\ (m.lost => n.lost) /\ (in => n.told \/ n.lost)
  <2>1. CASE n = [m EXCEPT !.told = @ \/ in]
    BY <2>1 DEF Made
  <2>2. CASE n = [m EXCEPT !.lost = @ \/ in]
    BY <2>2 DEF Made
  <2> QED
    BY <1>2, <2>1, <2>2
<1>3. /\ DOMAIN made' = DOMAIN made
      /\ \A t \in DOMAIN made :
           /\ made'[t] \in Made /\ made'[t].receipt = made[t].receipt /\ made'[t].by = made[t].by
           /\ (made[t].told => made'[t].told) /\ (made[t].lost => made'[t].lost)
           /\ t \in T => made'[t].told \/ made'[t].lost
  <2>1. ASSUME NEW t \in DOMAIN made,
               \/ made'[t] = [made[t] EXCEPT !.told = @ \/ t \in T]
               \/ made'[t] = [made[t] EXCEPT !.lost = @ \/ t \in T]
        PROVE  /\ made'[t] \in Made /\ made'[t].receipt = made[t].receipt /\ made'[t].by = made[t].by
               /\ (made[t].told => made'[t].told) /\ (made[t].lost => made'[t].lost)
               /\ t \in T => made'[t].told \/ made'[t].lost
    <3> DEFINE m == made[t]  in == t \in T
    <3>1. m \in Made /\ in \in BOOLEAN
      BY <1>1
    <3>2. made'[t] = [m EXCEPT !.told = @ \/ in] \/ made'[t] = [m EXCEPT !.lost = @ \/ in]
      BY <2>1
    <3> HIDE DEF m, in
    <3>3. /\ made'[t] \in Made /\ made'[t].receipt = m.receipt /\ made'[t].by = m.by
          /\ (m.told => made'[t].told) /\ (m.lost => made'[t].lost)
          /\ in => made'[t].told \/ made'[t].lost
      BY <1>2, <3>1, <3>2, Zenon
    <3> QED
      BY <3>3 DEF m, in
  <2>2. DOMAIN made' = DOMAIN made
    OBVIOUS
  <2>3. ASSUME NEW t \in DOMAIN made
        PROVE  \/ made'[t] = [made[t] EXCEPT !.told = @ \/ t \in T]
               \/ made'[t] = [made[t] EXCEPT !.lost = @ \/ t \in T]
    OBVIOUS
  <2> QED
    BY <2>1, <2>2, <2>3
<1>4. made' \in [DOMAIN made -> Made]
  <2>1. made' = [t \in DOMAIN made |-> made'[t]]
    OBVIOUS
  <2> QED
    BY <1>3, <2>1
<1> QED
  BY <1>3, <1>4 DEF Grows

LEMMA CompleteInv ==
    ASSUME ReceiptsInv, ReceiptsAssumption, NEW b \in Batches, Complete(b)
    PROVE  ReceiptsInv'
<1> DEFINE k == batch[b]  m == [k EXCEPT !.state = "release", !.answer = "files"]
           n == [m EXCEPT !.completed = TRUE]
<1>1. /\ Shape /\ k \in Running /\ k.state = "apply" /\ batch' = [batch EXCEPT ![b] = n]
      /\ made' = [t \in DOMAIN made |-> [made[t] EXCEPT !.told = @ \/ t \in Previews(b)]]
      /\ UNCHANGED <<world, receipts, reserved, expired>>
  BY RunningBatch DEF ReceiptsInv, Complete
<1>2. /\ m \in Running /\ m.state = "release" /\ m.session = k.session /\ m.entries = k.entries
      /\ m.wrote = k.wrote
  <2>1. k \in Running
    BY <1>1
  <2> HIDE DEF k
  <2> QED
    BY <2>1 DEF Running, Answers
<1>3. /\ n \in Running /\ n.state = m.state /\ n.session = m.session /\ n.entries = m.entries
      /\ n.wrote = m.wrote /\ n.completed
  <2>1. m \in Running
    BY <1>2
  <2> HIDE DEF m
  <2> QED
    BY <2>1 DEF Running
<1>4. /\ DOMAIN made' = DOMAIN made /\ made' \in [DOMAIN made -> Made] /\ Grows
      /\ \A t \in DOMAIN made \cap Previews(b) : made'[t].told \/ made'[t].lost
  BY <1>1, Learns
<1>5. \A t \in DOMAIN receipts' : made[t].by = b => made'[t].told \/ made'[t].lost
  <2>1. ASSUME NEW t \in DOMAIN receipts, made[t].by = b PROVE made'[t].told \/ made'[t].lost
    <3>1. t \in DOMAIN made
      BY <1>1 DEF Shape
    <3>2. CASE t \in Previews(b)
      BY <1>4, <3>1, <3>2
    <3>3. CASE t \notin Previews(b)
      BY <1>4, <2>1, <3>1, <3>3, OthersAreKnown DEF Grows
    <3> QED
      BY <3>2, <3>3
  <2> QED
    BY <1>1, <2>1
<1>6. receipts' = Without({}) /\ world' \in World /\ reserved' = reserved
  BY <1>1, NothingGoes DEF Shape
<1>7. /\ n.session = batch[b].session /\ n.entries = batch[b].entries
      /\ n.wrote \subseteq batch[b].wrote /\ (batch[b].completed => n.completed)
      /\ n.state \in {"rollback", "release", "done"} /\ n.state # "rollback" /\ n.state # "done"
      /\ n.completed /\ batch[b].state # "idle"
  BY <1>1, <1>2, <1>3
<1>8. batch' = [batch EXCEPT ![b] = n] /\ n \in Running
  BY <1>1, <1>3
<1> HIDE DEF k, m, n
<1> QED
  BY <1>4, <1>5, <1>6, <1>7, <1>8, Leaves

LEMMA RollbackInv ==
    ASSUME ReceiptsInv, ReceiptsAssumption, NEW b \in Batches, Rollback(b)
    PROVE  ReceiptsInv'
<1> DEFINE k == batch[b]
           whole == \A c \in k.committed : world.file[c[1]] = c[2]
           m == [k EXCEPT !.state = "release", !.safe = whole]  n == [m EXCEPT !.wrote = {}]
           mine(f) == \E c \in k.committed : c[1] = f /\ world.file[f] = c[2]
           file == [f \in Files |-> IF mine(f) THEN k.captured[f] ELSE world.file[f]]
<1>1. /\ Shape /\ Prepares(b) /\ k \in Running /\ k.state = "rollback"
      /\ batch' = [batch EXCEPT ![b] = n] /\ world' = [world EXCEPT !.file = file]
      /\ UNCHANGED <<receipts, reserved, expired, made>>
  BY RunningBatch DEF ReceiptsInv, Rollback
<1>2. /\ m \in Running /\ m.state = "release" /\ m.session = k.session /\ m.entries = k.entries
      /\ m.completed = k.completed /\ m.wrote = k.wrote
  <2>1. k \in Running /\ whole \in BOOLEAN
    BY <1>1
  <2> HIDE DEF k, whole
  <2> QED
    BY <2>1 DEF Running
<1>3. /\ n \in Running /\ n.state = m.state /\ n.session = m.session /\ n.entries = m.entries
      /\ n.wrote = {} /\ n.completed = m.completed
  <2>1. m \in Running
    BY <1>2
  <2> HIDE DEF m
  <2> QED
    BY <2>1 DEF Running
<1>4. world' \in World
  <2>1. k.captured \in [Files -> Contents] /\ world \in World /\ world.file \in [Files -> Contents]
    BY <1>1 DEF Prepares, Working, Shape, World
  <2>2. file \in [Files -> Contents]
    BY <2>1
  <2> HIDE DEF file
  <2> QED
    BY <1>1, <2>1, <2>2 DEF World
<1>5. \A t \in DOMAIN receipts' : made[t].by = b => made'[t].told \/ made'[t].lost
  BY <1>1, OthersAreKnown
<1>6. receipts' = Without({}) /\ reserved' = reserved
      /\ DOMAIN made' = DOMAIN made /\ made' \in [DOMAIN made -> Made] /\ Grows
  BY <1>1, NothingGoes, SameIsKnown
<1>7. /\ n.session = batch[b].session /\ n.entries = batch[b].entries
      /\ n.wrote \subseteq batch[b].wrote /\ (batch[b].completed => n.completed)
      /\ n.state \in {"rollback", "release", "done"} /\ n.state # "rollback" /\ n.state # "done"
      /\ n.wrote = {} /\ batch[b].state # "idle"
  BY <1>1, <1>2, <1>3
<1>8. batch' = [batch EXCEPT ![b] = n] /\ n \in Running
  BY <1>1, <1>3
<1> HIDE DEF k, m, n, whole, file
<1> QED
  BY <1>4, <1>5, <1>6, <1>7, <1>8, Leaves

-----------------------------------------------------------------------------
(* A batch goes on to prepare or to apply.                                 *)
LEMMA Goes ==
    ASSUME ReceiptsInv, ReceiptsAssumption, NEW b \in Batches, NEW n \in Running,
           batch[b].state \in {"preflight", "begin", "apply"},
           batch' = [batch EXCEPT ![b] = n], world' \in World, UNCHANGED <<receipts, reserved, made>>,
           n.session = batch[b].session, n.entries = batch[b].entries,
           n.captured = batch[b].captured, n.wrote = batch[b].wrote,
           n.completed = batch[b].completed, n.state \in {"preflight", "begin", "apply"},
           n.state = "apply" \/ n.wrote = {}, n.at >= 1,
           n.state = "preflight" => n.at = Len(n.prepared) + 1,
           n.state # "preflight" => Len(n.prepared) = Len(n.entries),
           Len(n.prepared) <= Len(n.entries),
           \A i \in 1 .. Len(n.prepared) : Agrees(n.entries[i], n.prepared[i]),
           ToSet(batch[b].prepared) \subseteq ToSet(n.prepared)
    PROVE  ReceiptsInv'
<1>1. /\ batch \in [Batches -> {Idle} \cup Running] /\ Reserves(b) /\ Prepares(b)
      /\ Shape
  BY DEF ReceiptsInv, Shape
<1>2. batch'[b] = n /\ batch[b].state # "idle"
  BY <1>1
<1>3. Reserves(b)'
  BY <1>1, <1>2 DEF Reserves, Working
<1>4. Prepares(b)'
  <2>1. n.captured \in [Files -> Contents]
    BY <1>1 DEF Prepares, Working
  <2>2. \A i \in 1 .. Len(n.prepared) : Agrees(n.entries[i], n.prepared[i])'
    BY DEF Agrees
  <2> QED
    BY <1>2, <2>1, <2>2 DEF Prepares, Working
<1>5. \A t \in DOMAIN receipts' : made'[t].by = b => Owned(t)'
  <2>1. ASSUME NEW t \in DOMAIN receipts, made[t].by = b PROVE Owned(t)'
    <3>1. Owned(t)
      BY DEF ReceiptsInv
    <3>2. t \in Previews(b) => t \in Previews(b)'
      BY <1>2 DEF Previews
    <3> QED
      BY <1>2, <2>1, <3>1, <3>2 DEF Owned
  <2> QED
    BY <2>1
<1>6. receipts' = Without({}) /\ DOMAIN made' = DOMAIN made /\ made' \in [DOMAIN made -> Made] /\ Grows
  BY <1>1, NothingGoes, SameIsKnown
<1>7. /\ n.wrote \subseteq batch[b].wrote /\ (batch[b].completed => n.completed)
      /\ n.state \in {"waiting", "preflight", "begin"} => n.wrote = {}
      /\ n.state \in {"release", "done"} /\ n.wrote # {} => n.completed
  OBVIOUS
<1> QED
  BY <1>2, <1>3, <1>4, <1>5, <1>6, <1>7, BatchSteps

LEMMA StageInv ==
    ASSUME ReceiptsInv, ReceiptsAssumption, NEW b \in Batches, Stage(b)
    PROVE  ReceiptsInv'
<1> DEFINE k == batch[b]
<1>1. /\ Shape /\ Prepares(b) /\ Writes(b) /\ k \in Running /\ k.state = "preflight"
      /\ k.at > Len(k.entries) /\ UNCHANGED <<world, receipts, reserved, expired>>
  BY RunningBatch DEF ReceiptsInv, Stage
<1>2. /\ Len(k.entries) \in Nat /\ k.prepared \in Seq(Prepared) /\ k.at = Len(k.prepared) + 1
      /\ Len(k.prepared) <= Len(k.entries) /\ k.at >= 1 /\ k.wrote = {}
      /\ \A i \in 1 .. Len(k.prepared) : Agrees(k.entries[i], k.prepared[i])
  <2>1. k \in Running
    BY <1>1
  <2>2. Len(k.entries) \in Nat
    BY <2>1, EntriesOfBatch
  <2>3. k.prepared \in Seq(Prepared)
    BY <2>1 DEF Running
  <2> QED
    BY <1>1, <2>2, <2>3 DEF Prepares, Writes, Working
<1>3. Len(k.prepared) = Len(k.entries)
  <2>1. Len(k.prepared) \in Nat
    BY <1>2
  <2> QED
    BY <1>1, <1>2, <2>1
<1>4. CASE batch' = [batch EXCEPT ![b].state = "begin"] /\ UNCHANGED made
  <2> DEFINE n == [k EXCEPT !.state = "begin"]
  <2>1. batch' = [batch EXCEPT ![b] = n]
    BY <1>4
  <2>2. /\ n \in Running /\ n.state = "begin" /\ n.session = k.session /\ n.entries = k.entries
        /\ n.wrote = k.wrote /\ n.completed = k.completed /\ n.captured = k.captured
        /\ n.prepared = k.prepared /\ n.at = k.at
    <3>1. k \in Running
      BY <1>1
    <3> HIDE DEF k
    <3> QED
      BY <3>1 DEF Running
  <2> HIDE DEF n
  <2>3. world' \in World /\ UNCHANGED <<receipts, reserved, made>>
    BY <1>1, <1>4 DEF Shape
  <2>4. /\ batch[b].state \in {"preflight", "begin", "apply"}
        /\ n.session = batch[b].session /\ n.entries = batch[b].entries
        /\ n.captured = batch[b].captured /\ n.wrote = batch[b].wrote
        /\ n.completed = batch[b].completed /\ n.state \in {"preflight", "begin", "apply"}
        /\ (n.state = "apply" \/ n.wrote = {}) /\ n.at >= 1
        /\ (n.state = "preflight" => n.at = Len(n.prepared) + 1)
        /\ (n.state # "preflight" => Len(n.prepared) = Len(n.entries))
        /\ Len(n.prepared) <= Len(n.entries)
        /\ \A i \in 1 .. Len(n.prepared) : Agrees(n.entries[i], n.prepared[i])
        /\ ToSet(batch[b].prepared) \subseteq ToSet(n.prepared)
    BY <1>1, <1>2, <1>3, <2>2
  <2>5. n \in Running
    BY <2>2
  <2> HIDE DEF k
  <2> QED
    BY <2>1, <2>3, <2>4, <2>5, Goes
<1>5. CASE /\ batch' = [batch EXCEPT ![b].state = "release", ![b].answer = "staging"]
           /\ made' = [t \in DOMAIN made |-> [made[t] EXCEPT !.lost = @ \/ t \in Previews(b)]]
  <2> DEFINE n == [k EXCEPT !.state = "release", !.answer = "staging"]
  <2>1. batch' = [batch EXCEPT ![b] = n]
    BY <1>5
  <2>2. /\ n \in Running /\ n.state = "release" /\ n.session = k.session /\ n.entries = k.entries
        /\ n.wrote = k.wrote /\ n.completed = k.completed
    <3>1. k \in Running
      BY <1>1
    <3> HIDE DEF k
    <3> QED
      BY <3>1 DEF Running, Answers
  <2> HIDE DEF n
  <2>3. /\ DOMAIN made' = DOMAIN made /\ made' \in [DOMAIN made -> Made] /\ Grows
        /\ \A t \in DOMAIN made \cap Previews(b) : made'[t].told \/ made'[t].lost
    BY <1>1, <1>5, Learns
  <2>4. \A t \in DOMAIN receipts' : made[t].by = b => made'[t].told \/ made'[t].lost
    <3>1. ASSUME NEW t \in DOMAIN receipts, made[t].by = b PROVE made'[t].told \/ made'[t].lost
      <4>1. t \in DOMAIN made
        BY <1>1 DEF Shape
      <4>2. CASE t \in Previews(b)
        BY <2>3, <4>1, <4>2
      <4>3. CASE t \notin Previews(b)
        BY <2>3, <3>1, <4>1, <4>3, OthersAreKnown DEF Grows
      <4> QED
        BY <4>2, <4>3
    <3> QED
      BY <1>1, <3>1
  <2>5. receipts' = Without({}) /\ world' \in World /\ reserved' = reserved
    BY <1>1, NothingGoes DEF Shape
  <2>6. /\ n.session = batch[b].session /\ n.entries = batch[b].entries
        /\ n.wrote \subseteq batch[b].wrote /\ (batch[b].completed => n.completed)
        /\ n.state \in {"rollback", "release", "done"} /\ n.state # "rollback" /\ n.state # "done"
        /\ n.wrote = {} /\ batch[b].state # "idle"
    BY <1>1, <1>2, <2>2
  <2>7. n \in Running
    BY <2>2
  <2> HIDE DEF k
  <2> QED
    BY <2>1, <2>3, <2>4, <2>5, <2>6, <2>7, Leaves
<1> QED
  BY <1>4, <1>5 DEF Stage

LEMMA BeginInv ==
    ASSUME ReceiptsInv, ReceiptsAssumption, NEW b \in Batches, Begin(b)
    PROVE  ReceiptsInv'
<1> DEFINE k == batch[b]  moves == Plan(b) # {}  still == Plan(b) = {}
<1>1. /\ Shape /\ Prepares(b) /\ Writes(b) /\ k \in Running /\ k.state = "begin"
      /\ UNCHANGED <<world, reserved, expired, made>>
  BY RunningBatch DEF ReceiptsInv, Begin
<1>2. /\ Len(k.prepared) = Len(k.entries) /\ Len(k.prepared) <= Len(k.entries) /\ k.wrote = {}
      /\ \A i \in 1 .. Len(k.prepared) : Agrees(k.entries[i], k.prepared[i])
  BY <1>1 DEF Prepares, Writes, Working
<1>3. CASE /\ batch' = [batch EXCEPT ![b].state = "apply", ![b].at = 1,
                                     ![b].began = moves, ![b].safe = still]
           /\ UNCHANGED receipts
  <2> DEFINE m == [k EXCEPT !.state = "apply", !.at = 1]
             n == [m EXCEPT !.began = moves, !.safe = still]
  <2>1. batch' = [batch EXCEPT ![b] = n]
    BY <1>3
  <2>2. /\ m \in Running /\ m.state = "apply" /\ m.session = k.session /\ m.entries = k.entries
        /\ m.wrote = k.wrote /\ m.completed = k.completed /\ m.captured = k.captured
        /\ m.prepared = k.prepared /\ m.at = 1
    <3>1. k \in Running
      BY <1>1
    <3> HIDE DEF k
    <3> QED
      BY <3>1 DEF Running
  <2>3. /\ n \in Running /\ n.state = m.state /\ n.session = m.session /\ n.entries = m.entries
        /\ n.wrote = m.wrote /\ n.completed = m.completed /\ n.captured = m.captured
        /\ n.prepared = m.prepared /\ n.at = m.at
    <3>1. m \in Running /\ moves \in BOOLEAN /\ still \in BOOLEAN
      BY <2>2
    <3> HIDE DEF m, moves, still
    <3> QED
      BY <3>1 DEF Running
  <2> HIDE DEF n
  <2>4. world' \in World /\ UNCHANGED <<receipts, reserved, made>>
    BY <1>1, <1>3 DEF Shape
  <2>5. /\ batch[b].state \in {"preflight", "begin", "apply"}
        /\ n.session = batch[b].session /\ n.entries = batch[b].entries
        /\ n.captured = batch[b].captured /\ n.wrote = batch[b].wrote
        /\ n.completed = batch[b].completed /\ n.state \in {"preflight", "begin", "apply"}
        /\ (n.state = "apply" \/ n.wrote = {}) /\ n.at >= 1
        /\ (n.state = "preflight" => n.at = Len(n.prepared) + 1)
        /\ (n.state # "preflight" => Len(n.prepared) = Len(n.entries))
        /\ Len(n.prepared) <= Len(n.entries)
        /\ \A i \in 1 .. Len(n.prepared) : Agrees(n.entries[i], n.prepared[i])
        /\ ToSet(batch[b].prepared) \subseteq ToSet(n.prepared)
    BY <1>1, <1>2, <2>2, <2>3
  <2>6. n \in Running
    BY <2>3
  <2> HIDE DEF k
  <2> QED
    BY <2>1, <2>4, <2>5, <2>6, Goes
<1>4. CASE /\ batch' = [batch EXCEPT ![b].state = "release", ![b].answer = "journal", ![b].safe = FALSE]
           /\ receipts' = Without(Previews(b))
  <2>1. batch' = [batch EXCEPT ![b] = [[batch[b] EXCEPT !.state = "release", !.answer = "journal"]
                                       EXCEPT !.safe = FALSE]]
    BY <1>4
  <2>2. batch[b].state \in Working /\ "journal" \in Answers /\ batch[b].wrote = {}
    BY <1>1, <1>2 DEF Working, Answers
  <2>3. Previews(b) \subseteq Previews(b) /\ UNCHANGED <<world, reserved, made>>
    BY <1>1
  <2> QED
    BY <1>4, <2>1, <2>2, <2>3, Forgets
<1> QED
  BY <1>3, <1>4 DEF Begin

-----------------------------------------------------------------------------
(* A receipt to which nothing is objected is what was previewed of the     *)
(* file, and the file still holds what it was previewed over.              *)
LEMMA NoObjection ==
    ASSUME ReceiptsInv, NEW b \in Batches, NEW f, NEW t
    PROVE  /\ Objection(b, f, t) \in Answers
           /\ Objection(b, f, t) = "none" =>
                /\ t \in DOMAIN receipts /\ t \in DOMAIN made /\ t \in Nat
                /\ receipts[t] \in Stored /\ made[t] \in Made /\ AsMade(t)
                /\ receipts[t].file = f /\ receipts[t].session = batch[b].session
                /\ receipts[t].source = world.file[f]
<1>1. Objection(b, f, t) \in Answers
  BY DEF Objection, Answers
<1>2. ASSUME Objection(b, f, t) = "none"
      PROVE  /\ t \in DOMAIN receipts /\ receipts[t].file = f
             /\ receipts[t].session = batch[b].session /\ receipts[t].source = world.file[f]
  BY <1>2 DEF Objection
<1>3. t \in DOMAIN receipts => /\ t \in DOMAIN made /\ t \in Nat
                               /\ receipts[t] \in Stored /\ made[t] \in Made /\ AsMade(t)
  BY DEF ReceiptsInv, Shape
<1> QED
  BY <1>1, <1>2, <1>3

(* One more entry is prepared.                                             *)
LEMMA Prepared1 ==
    ASSUME ReceiptsInv, ReceiptsAssumption, NEW b \in Batches, batch[b].state = "preflight",
           batch[b].at <= Len(batch[b].entries), NEW q \in Prepared, Agrees(Current(b), q)
    PROVE  LET s == Append(batch[b].prepared, q)
           IN /\ s \in Seq(Prepared) /\ Len(s) = Len(batch[b].prepared) + 1
              /\ batch[b].at + 1 = Len(s) + 1 /\ batch[b].at + 1 \in Nat /\ batch[b].at + 1 >= 1
              /\ Len(s) <= Len(batch[b].entries)
              /\ \A i \in 1 .. Len(s) : Agrees(batch[b].entries[i], s[i])
              /\ ToSet(s) = ToSet(batch[b].prepared) \cup {q}
<1> DEFINE k == batch[b]  p == k.prepared  s == Append(p, q)
<1>1. /\ k \in Running /\ Prepares(b)
  BY RunningBatch DEF ReceiptsInv
<1>2. /\ p \in Seq(Prepared) /\ k.at = Len(p) + 1 /\ k.at \in Nat /\ Len(k.entries) \in Nat
      /\ \A i \in 1 .. Len(p) : Agrees(k.entries[i], p[i])
  <2>1. Len(k.entries) \in Nat
    BY <1>1, EntriesOfBatch
  <2> QED
    BY <1>1, <2>1 DEF Running, Prepares, Working
<1>3. /\ s \in Seq(Prepared) /\ Len(s) = Len(p) + 1 /\ s[Len(p) + 1] = q
      /\ \A i \in 1 .. Len(p) : s[i] = p[i]
  BY <1>2
<1>4. \A i \in 1 .. Len(s) : Agrees(k.entries[i], s[i])
  <2>1. ASSUME NEW i \in 1 .. Len(s) PROVE Agrees(k.entries[i], s[i])
    <3>1. CASE i \in 1 .. Len(p)
      BY <1>2, <1>3, <3>1
    <3>2. CASE i = Len(p) + 1
      BY <1>2, <1>3, <3>2 DEF Current
    <3>3. i \in 1 .. Len(p) \/ i = Len(p) + 1
      BY <1>2, <1>3
    <3> QED
      BY <3>1, <3>2, <3>3
  <2> QED
    BY <2>1
<1>5. ToSet(s) = ToSet(p) \cup {q}
  <2>1. /\ DOMAIN s = 1 .. Len(p) + 1 /\ DOMAIN p = 1 .. Len(p) /\ Len(p) \in Nat
        /\ s[Len(p) + 1] = q /\ \A i \in 1 .. Len(p) : s[i] = p[i]
    BY <1>2, <1>3
  <2> HIDE DEF s, p
  <2>2. ASSUME NEW x \in ToSet(s) PROVE x \in ToSet(p) \cup {q}
    <3>1. PICK i \in 1 .. Len(p) + 1 : x = s[i]
      BY <2>1, <2>2 DEF ToSet
    <3>2. i \in 1 .. Len(p) \/ i = Len(p) + 1
      BY <2>1
    <3> QED
      BY <2>1, <3>1, <3>2 DEF ToSet
  <2>3. ASSUME NEW x \in ToSet(p) PROVE x \in ToSet(s)
    <3>1. PICK i \in 1 .. Len(p) : x = p[i]
      BY <2>1, <2>3 DEF ToSet
    <3>2. i \in 1 .. Len(p) + 1
      BY <2>1
    <3> QED
      BY <2>1, <3>1, <3>2 DEF ToSet
  <2>4. q \in ToSet(s)
    <3>1. Len(p) + 1 \in 1 .. Len(p) + 1
      BY <2>1
    <3> QED
      BY <2>1, <3>1 DEF ToSet
  <2> QED
    BY <2>2, <2>3, <2>4
<1>6. Len(s) <= Len(k.entries)
  BY <1>2, <1>3
<1>7. k.at + 1 = Len(s) + 1 /\ k.at + 1 \in Nat /\ k.at + 1 >= 1
  BY <1>2, <1>3
<1> QED
  BY <1>3, <1>4, <1>5, <1>6, <1>7, Zenon

LEMMA PreflightInv ==
    ASSUME ReceiptsInv, ReceiptsAssumption, NEW b \in Batches, Preflight(b)
    PROVE  ReceiptsInv'
<1> DEFINE k == batch[b]  e == Current(b)
           o == IF e.kind = "receipt" THEN Objection(b, e.file, e.token) ELSE "none"
           p == IF e.kind = "receipt" /\ o = "none"
                THEN [kind |-> "receipt", token |-> e.token, candidate |-> receipts[e.token].candidate,
                      source |-> receipts[e.token].source, validator |-> receipts[e.token].validator]
                ELSE [kind |-> "direct", source |-> world.file[e.file]]
           ts == (IF e.kind = "receipt" THEN Aged(e.token) ELSE {}) \cup Previews(b)
<1>1. /\ Shape /\ Prepares(b) /\ Writes(b) /\ k \in Running /\ k.state = "preflight" /\ k.wrote = {}
      /\ k.at <= Len(k.entries) /\ e.kind # "preview" /\ UNCHANGED <<world, reserved, expired, made>>
  <2>1. /\ Shape /\ Prepares(b) /\ Writes(b) /\ k.state = "preflight"
        /\ k.at <= Len(k.entries) /\ e.kind # "preview" /\ UNCHANGED <<world, reserved, expired, made>>
    BY DEF ReceiptsInv, Preflight, Mutates
  <2> QED
    BY <2>1, RunningBatch DEF Writes
<1>2. k.at \in 1 .. Len(k.entries)
  <2>1. k.at >= 1 /\ k.at \in Nat /\ Len(k.entries) \in Nat
    BY <1>1, EntriesOfBatch DEF Prepares, Working, Running
  <2> QED
    BY <1>1, <2>1
<1>3. e.file \in Files /\ e.kind \in {"direct", "receipt"}
  BY <1>1, <1>2, EntriesOfBatch DEF Current
<1>4. o \in Answers
  BY NoObjection DEF Answers
<1>5. CASE /\ o # "none" /\ receipts' = Without(ts)
           /\ batch' = [batch EXCEPT ![b].state = "release", ![b].answer = o]
  <2> DEFINE sf == k.safe
  <2>1. batch' = [batch EXCEPT ![b] = [[batch[b] EXCEPT !.state = "release", !.answer = o]
                                       EXCEPT !.safe = sf]]
    <3> DEFINE m == [k EXCEPT !.state = "release", !.answer = o]
    <3>1. batch' = [batch EXCEPT ![b] = m]
      BY <1>5
    <3>2. m \in Running /\ m.safe = sf
      <4>1. k \in Running /\ o \in Answers
        BY <1>1, <1>4
      <4> HIDE DEF k, o
      <4> QED
        BY <4>1 DEF Running
    <3>3. [m EXCEPT !.safe = sf] = m
      <4> HIDE DEF m, sf
      <4> QED
        BY <3>2 DEF Running
    <3> QED
      BY <3>1, <3>3
  <2>2. batch[b].state \in Working /\ sf \in BOOLEAN /\ batch[b].wrote = {}
    BY <1>1 DEF Working, Running
  <2>3. Previews(b) \subseteq ts /\ UNCHANGED <<world, reserved, made>>
    BY <1>1
  <2> HIDE DEF sf, ts, o
  <2> QED
    BY <1>4, <1>5, <2>1, <2>2, <2>3, Forgets
<1>6. CASE /\ o = "none" /\ UNCHANGED receipts
           /\ batch' = [batch EXCEPT ![b].prepared = Append(@, p), ![b].at = @ + 1]
  <2>1. p \in Prepared /\ Agrees(e, p)
    <3>1. CASE e.kind = "receipt"
      <4>1. /\ e.token \in DOMAIN receipts /\ e.token \in DOMAIN made /\ e.token \in Nat
            /\ receipts[e.token] \in Stored /\ AsMade(e.token)
        BY <1>6, <3>1, NoObjection
      <4>2. p = [kind |-> "receipt", token |-> e.token, candidate |-> receipts[e.token].candidate,
                 source |-> receipts[e.token].source, validator |-> receipts[e.token].validator]
        BY <1>6, <3>1
      <4> HIDE DEF e, p
      <4>3. p \in Prepared
        BY <4>1, <4>2 DEF Prepared, Stored
      <4>4. p.kind = "receipt" /\ p.token = e.token /\ p.candidate = made[e.token].receipt.candidate
        BY <4>1, <4>2 DEF AsMade
      <4> QED
        BY <3>1, <4>1, <4>3, <4>4 DEF Agrees
    <3>2. CASE e.kind = "direct"
      <4>1. p = [kind |-> "direct", source |-> world.file[e.file]] /\ world.file[e.file] \in Contents
        BY <1>1, <1>3, <3>2 DEF Shape, World
      <4> HIDE DEF e, p
      <4> QED
        BY <3>2, <4>1 DEF Prepared, Agrees
    <3> QED
      BY <1>3, <3>1, <3>2
  <2> HIDE DEF p, o
  <2> DEFINE s == Append(k.prepared, p)  i == k.at + 1
  <2>2. /\ s \in Seq(Prepared) /\ i = Len(s) + 1 /\ i \in Nat /\ i >= 1
        /\ Len(s) <= Len(k.entries) /\ \A j \in 1 .. Len(s) : Agrees(k.entries[j], s[j])
        /\ ToSet(k.prepared) \subseteq ToSet(s)
    BY <1>1, <2>1, Prepared1
  <2> DEFINE n == [k EXCEPT !.prepared = s, !.at = i]
  <2>3. batch' = [batch EXCEPT ![b] = n]
    BY <1>6
  <2>4. /\ n \in Running /\ n.prepared = s /\ n.at = i /\ n.state = k.state
        /\ n.session = k.session /\ n.entries = k.entries /\ n.captured = k.captured
        /\ n.wrote = k.wrote /\ n.completed = k.completed
    <3>1. k \in Running /\ s \in Seq(Prepared) /\ i \in Nat
      BY <1>1, <2>2
    <3> DEFINE lists == Seq(Prepared)
    <3>2. s \in lists
      BY <3>1
    <3> HIDE DEF k, s, i, lists
    <3>3. n \in Running
      BY <3>1, <3>2 DEF Running, lists
    <3> QED
      BY <3>1, <3>3 DEF Running
  <2>5. world' \in World /\ UNCHANGED <<receipts, reserved, made>>
    BY <1>1, <1>6 DEF Shape
  <2> HIDE DEF n, s, i
  <2>6. /\ batch[b].state \in {"preflight", "begin", "apply"}
        /\ n.session = batch[b].session /\ n.entries = batch[b].entries
        /\ n.captured = batch[b].captured /\ n.wrote = batch[b].wrote
        /\ n.completed = batch[b].completed /\ n.state = "preflight" /\ n.wrote = {} /\ n.at >= 1
        /\ n.at = Len(n.prepared) + 1 /\ Len(n.prepared) <= Len(n.entries)
        /\ \A j \in 1 .. Len(n.prepared) : Agrees(n.entries[j], n.prepared[j])
        /\ ToSet(batch[b].prepared) \subseteq ToSet(n.prepared)
    BY <1>1, <2>2, <2>4
  <2>7. n \in Running
    BY <2>4
  <2> HIDE DEF k
  <2> QED
    BY <2>3, <2>5, <2>6, <2>7, Goes
<1> QED
  BY <1>5, <1>6 DEF Preflight, Fail

(* A receipt is stored while its session has room for it.                  *)
LEMMA PreviewStores ==
    ASSUME ReceiptsInv, ReceiptsAssumption, NEW b \in Batches, NEW c \in Contents,
           batch[b].state = "preflight", batch[b].at <= Len(batch[b].entries),
           Current(b).kind = "preview", Room(b), NEW t, t = Cardinality(DOMAIN made) + 1,
           NEW r, r = [file |-> Current(b).file, session |-> batch[b].session,
                       source |-> world.file[Current(b).file], candidate |-> c,
                       binding |-> Binding, validator |-> world.validator, aged |-> FALSE],
           receipts' = [x \in DOMAIN receipts \cup {t} |-> IF x = t THEN r ELSE receipts[x]],
           made' = [x \in DOMAIN made \cup {t} |->
                      IF x = t THEN [receipt |-> r, by |-> b, told |-> FALSE, lost |-> FALSE] ELSE made[x]],
           batch' = [batch EXCEPT ![b].prepared = Append(@, [kind |-> "preview", token |-> t]),
                                  ![b].at = @ + 1],
           UNCHANGED <<world, reserved>>
    PROVE  ReceiptsInv'
<1> DEFINE k == batch[b]  e == Current(b)  q == [kind |-> "preview", token |-> t]
           s == Append(k.prepared, q)  i == k.at + 1  n == [k EXCEPT !.prepared = s, !.at = i]
           m == [receipt |-> r, by |-> b, told |-> FALSE, lost |-> FALSE]
<1>1. /\ Shape /\ Reserves(b) /\ Prepares(b) /\ Writes(b) /\ k \in Running
      /\ k.state = "preflight" /\ k.wrote = {} /\ k.at <= Len(k.entries)
      /\ batch' = [batch EXCEPT ![b] = n]
  <2>1. /\ Shape /\ Reserves(b) /\ Prepares(b) /\ Writes(b)
    BY DEF ReceiptsInv
  <2> QED
    BY <2>1, RunningBatch DEF Writes
<1>2. PICK l \in Nat : DOMAIN made = 1 .. l
  BY <1>1 DEF Shape
<1>3. t = l + 1 /\ t \in Nat /\ t \notin DOMAIN made /\ DOMAIN made \cup {t} = 1 .. l + 1
  <2>1. Cardinality(1 .. l) = l
    BY FS_Interval
  <2> QED
    BY <1>2, <2>1
<1>4. r \in Stored /\ r.session = k.session /\ r.file = e.file
  <2>1. k.at \in 1 .. Len(k.entries)
    <3>1. k.at >= 1 /\ k.at \in Nat /\ Len(k.entries) \in Nat
      BY <1>1, EntriesOfBatch DEF Prepares, Working, Running
    <3> QED
      BY <1>1, <3>1
  <2>2. e.file \in Files
    BY <1>1, <2>1, EntriesOfBatch DEF Current
  <2>3. k.session \in Sessions
    BY <1>1 DEF Running
  <2>4. world \in World
    BY <1>1 DEF Shape
  <2> HIDE DEF k, e
  <2>5. world.file[e.file] \in Contents /\ Binding \in [workspace : Nat, config : Nat]
        /\ world.validator \in Nat
    BY <2>2, <2>4 DEF World, Binding
  <2>6. r = [file |-> e.file, session |-> k.session, source |-> world.file[e.file], candidate |-> c,
             binding |-> Binding, validator |-> world.validator, aged |-> FALSE]
    BY DEF k, e
  <2> QED
    BY <2>2, <2>3, <2>5, <2>6 DEF Stored
<1>5. m \in Made /\ m.receipt = r /\ m.by = b
  BY <1>4 DEF Made
<1> HIDE DEF m
<1>6. /\ DOMAIN made' = DOMAIN made \cup {t} /\ made'[t] = m /\ \A x \in DOMAIN made : made'[x] = made[x]
      /\ DOMAIN receipts' = DOMAIN receipts \cup {t} /\ receipts'[t] = r
      /\ \A x \in DOMAIN receipts : receipts'[x] = receipts[x]
      /\ made' = [x \in DOMAIN made \cup {t} |-> made'[x]]
      /\ receipts' = [x \in DOMAIN receipts \cup {t} |-> receipts'[x]]
  <2>1. DOMAIN receipts \subseteq DOMAIN made
    BY <1>1 DEF Shape
  <2> QED
    BY <1>3, <2>1 DEF m
<1>7. q \in Prepared /\ Agrees(e, q) /\ q.kind = "preview" /\ q.token = t
  BY <1>3 DEF Prepared, Agrees
<1> HIDE DEF q
<1>8. /\ s \in Seq(Prepared) /\ i = Len(s) + 1 /\ i \in Nat /\ i >= 1
      /\ Len(s) <= Len(k.entries) /\ \A j \in 1 .. Len(s) : Agrees(k.entries[j], s[j])
      /\ ToSet(s) = ToSet(k.prepared) \cup {q}
  BY <1>1, <1>7, Prepared1
<1>9. /\ n \in Running /\ n.prepared = s /\ n.at = i /\ n.state = k.state
      /\ n.session = k.session /\ n.entries = k.entries /\ n.captured = k.captured
      /\ n.wrote = k.wrote /\ n.completed = k.completed
  <2>1. k \in Running /\ s \in Seq(Prepared) /\ i \in Nat
    BY <1>1, <1>8
  <2> DEFINE lists == Seq(Prepared)
  <2>2. s \in lists
    BY <2>1
  <2> HIDE DEF k, s, i, lists
  <2>3. n \in Running
    BY <2>1, <2>2 DEF Running, lists
  <2> QED
    BY <2>1, <2>3 DEF Running
<1> HIDE DEF n, s, i
<1>10. /\ batch'[b] = n /\ batch' \in [Batches -> {Idle} \cup Running]
       /\ \A a \in Batches \ {b} : batch'[a] = batch[a]
  BY <1>1, <1>9 DEF Shape
<1>11. Shape'
  <2>1. made' \in [DOMAIN made' -> Made] /\ receipts' \in [DOMAIN receipts' -> Stored]
        /\ DOMAIN receipts' \subseteq DOMAIN made'
    BY <1>1, <1>4, <1>5, <1>6 DEF Shape
  <2>2. \E x \in Nat : DOMAIN made' = 1 .. x
    BY <1>2, <1>3, <1>6
  <2> QED
    BY <1>1, <1>10, <2>1, <2>2 DEF Shape
<1>12. Grows /\ Shrinks
  BY <1>1, <1>3, <1>6 DEF Grows, Shrinks, Shape
<1>13. t \in Previews(b)' /\ \A x \in Previews(b) : x \in Previews(b)'
  BY <1>7, <1>8, <1>9, <1>10 DEF Previews
<1>14. AsMade(t)' /\ Owned(t)'
  <2>1. made'[t].receipt = r /\ made'[t].by = b /\ receipts'[t] = r
    BY <1>5, <1>6
  <2> QED
    BY <1>1, <1>9, <1>10, <1>13, <2>1 DEF AsMade, Owned
<1>15. Sound(b)'
  <2>1. Reserves(b)'
    BY <1>1, <1>6, <1>9, <1>10 DEF Reserves, Working
  <2>2. Prepares(b)'
    <3>1. PICK g \in Running : g = n
      BY <1>9
    <3>2. \A j \in 1 .. Len(g.prepared) : Agrees(g.entries[j], g.prepared[j])
      BY <1>8, <1>9, <3>1
    <3>3. \A j \in 1 .. Len(g.prepared) : Agrees(g.entries[j], g.prepared[j])'
      BY <1>6, <3>2 DEF Agrees
    <3>4. /\ g.captured \in [Files -> Contents] /\ g.state = "preflight" /\ g.at >= 1
          /\ g.at = Len(g.prepared) + 1 /\ Len(g.prepared) <= Len(g.entries) /\ batch'[b] = g
      BY <1>1, <1>8, <1>9, <1>10, <3>1 DEF Prepares, Working
    <3> QED
      BY <3>3, <3>4 DEF Prepares
  <2>3. Writes(b)'
    BY <1>1, <1>9, <1>10 DEF Writes
  <2>4. \A x \in DOMAIN receipts' : made'[x].by = b => Owned(x)'
    <3>1. ASSUME NEW x \in DOMAIN receipts, made'[x].by = b PROVE Owned(x)'
      <4>1. Owned(x) /\ made'[x] = made[x]
        BY <1>1, <1>6 DEF ReceiptsInv, Shape
      <4> QED
        BY <1>1, <1>9, <1>10, <1>13, <3>1, <4>1 DEF Owned
    <3> QED
      BY <1>6, <1>14, <3>1
  <2>5. \A a \in Batches \ {b} : Apart(a, b)' /\ Apart(b, a)'
    <3>1. ASSUME NEW a \in Batches \ {b} PROVE Apart(a, b)' /\ Apart(b, a)'
      <4>1. Apart(a, b) /\ Apart(b, a)
        BY DEF ReceiptsInv
      <4> QED
        BY <1>1, <1>9, <1>10, <4>1 DEF Apart
    <3> QED
      BY <3>1
  <2> QED
    BY <2>1, <2>2, <2>3, <2>4, <2>5 DEF Sound
<1>16. ASSUME NEW u \in Sessions PROVE (Cardinality(OfSession(u)) <= MaxReceipts)'
  <2>1. CASE u # k.session
    <3>1. OfSession(u)' \subseteq OfSession(u)
      BY <1>4, <1>6, <2>1 DEF OfSession
    <3> QED
      BY <3>1, FewerOfSession
  <2>2. CASE u = k.session
    <3> DEFINE S == OfSession(u)  T == OfSession(u)'
    <3>1. T \subseteq S \cup {t} /\ t \notin S /\ S \subseteq DOMAIN receipts
      BY <1>1, <1>3, <1>6 DEF OfSession, Shape
    <3>2. Cardinality(S) < MaxReceipts
      BY <2>2 DEF OfSession, Room
    <3>3. IsFiniteSet(S)
      BY <1>1, <3>1, ReceiptsAreFinite, FS_Subset
    <3> HIDE DEF S, T
    <3>4. Cardinality(S) \in Nat /\ IsFiniteSet(S \cup {t}) /\ Cardinality(S \cup {t}) = Cardinality(S) + 1
      BY <3>1, <3>3, FS_AddElement, FS_CardinalityType
    <3>5. Cardinality(T) <= Cardinality(S \cup {t}) /\ Cardinality(T) \in Nat
      BY <3>1, <3>4, FS_Subset, FS_CardinalityType
    <3>6. MaxReceipts \in Nat
      BY DEF ReceiptsAssumption
    <3>7. Cardinality(T) <= MaxReceipts
      BY <3>2, <3>4, <3>5, <3>6
    <3> QED
      BY <3>7 DEF T
  <2> QED
    BY <2>1, <2>2
<1>17. PICK C \in SUBSET Batches : C = {b}
  OBVIOUS
<1>18. /\ \A a \in Batches \ C : reserved'[a] = reserved[a] /\ batch'[a] = batch[a]
       /\ \A d \in C : Sound(d)'
  BY <1>10, <1>15, <1>17
<1>19. \A x \in DOMAIN receipts' \ DOMAIN made : AsMade(x)' /\ Owned(x)'
  BY <1>1, <1>6, <1>14 DEF Shape
<1> QED
  BY <1>11, <1>12, <1>16, <1>18, <1>19, Moves

LEMMA PreviewInv ==
    ASSUME ReceiptsInv, ReceiptsAssumption, NEW b \in Batches, NEW c \in Contents, Preview(b, c)
    PROVE  ReceiptsInv'
<1> DEFINE k == batch[b]
<1>1. /\ Shape /\ Writes(b) /\ k \in Running /\ k.state = "preflight" /\ k.wrote = {}
      /\ UNCHANGED <<world, reserved, expired>>
  <2>1. Shape /\ Writes(b) /\ k.state = "preflight" /\ UNCHANGED <<world, reserved, expired>>
    BY DEF ReceiptsInv, Preview
  <2> QED
    BY <2>1, RunningBatch DEF Writes
<1>2. CASE Room(b)
  <2> DEFINE t == Cardinality(DOMAIN made) + 1
             r == [file |-> Current(b).file, session |-> batch[b].session,
                   source |-> world.file[Current(b).file], candidate |-> c,
                   binding |-> Binding, validator |-> world.validator, aged |-> FALSE]
  <2>1. /\ batch[b].at <= Len(batch[b].entries) /\ Current(b).kind = "preview"
        /\ receipts' = [x \in DOMAIN receipts \cup {t} |-> IF x = t THEN r ELSE receipts[x]]
        /\ made' = [x \in DOMAIN made \cup {t} |->
                      IF x = t THEN [receipt |-> r, by |-> b, told |-> FALSE, lost |-> FALSE] ELSE made[x]]
        /\ batch' = [batch EXCEPT ![b].prepared = Append(@, [kind |-> "preview", token |-> t]),
                                  ![b].at = @ + 1]
    BY <1>2 DEF Preview
  <2> QED
    BY <1>1, <1>2, <2>1, PreviewStores
<1>3. CASE /\ batch' = [batch EXCEPT ![b].state = "release", ![b].answer = "receipt_limit"]
           /\ receipts' = Without({} \cup Previews(b)) /\ UNCHANGED made
  <2> DEFINE sf == k.safe  m == [k EXCEPT !.state = "release", !.answer = "receipt_limit"]
  <2>1. batch' = [batch EXCEPT ![b] = m]
    BY <1>3
  <2>2. m \in Running /\ m.safe = sf
    <3>1. k \in Running
      BY <1>1
    <3> HIDE DEF k
    <3> QED
      BY <3>1 DEF Running, Answers
  <2>3. [m EXCEPT !.safe = sf] = m
    <3> HIDE DEF m, sf
    <3> QED
      BY <2>2 DEF Running
  <2>4. batch' = [batch EXCEPT ![b] = [[batch[b] EXCEPT !.state = "release", !.answer = "receipt_limit"]
                                       EXCEPT !.safe = sf]]
    BY <2>1, <2>3
  <2>5. batch[b].state \in Working /\ sf \in BOOLEAN /\ batch[b].wrote = {}
        /\ "receipt_limit" \in Answers
    BY <1>1 DEF Working, Running, Answers
  <2>6. Previews(b) \subseteq {} \cup Previews(b) /\ UNCHANGED <<world, reserved, made>>
    BY <1>1, <1>3
  <2> HIDE DEF sf
  <2> QED
    BY <1>3, <2>4, <2>5, <2>6, Forgets
<1> QED
  BY <1>2, <1>3 DEF Preview, Fail

(* What a batch writes by a receipt: what was previewed, and the receipt   *)
(* is still its own.                                                       *)
LEMMA ApplyWrites ==
    ASSUME ReceiptsInv, ReceiptsAssumption, NEW b \in Batches, NEW n \in Running,
           batch[b].state = "apply", batch' = [batch EXCEPT ![b] = n], world' \in World,
           UNCHANGED <<receipts, reserved, made>>,
           n.session = batch[b].session, n.entries = batch[b].entries,
           n.captured = batch[b].captured, n.prepared = batch[b].prepared,
           n.completed = batch[b].completed, n.state = "apply", n.at >= 1,
           NEW w, n.wrote = batch[b].wrote \cup {w},
           AsPreviewed(b, w), w.token \in DOMAIN receipts, w.token \in TokensOf(batch[b].entries)
    PROVE  ReceiptsInv'
<1>1. /\ Shape /\ Reserves(b) /\ Prepares(b) /\ Writes(b)
      /\ reserved[b] = TokensOf(batch[b].entries)
  BY DEF ReceiptsInv, Reserves, Working
<1>2. /\ batch'[b] = n /\ batch' \in [Batches -> {Idle} \cup Running]
      /\ \A a \in Batches \ {b} : batch'[a] = batch[a]
  BY <1>1 DEF Shape
<1>3. Sound(b)'
  <2>1. Reserves(b)'
    BY <1>1, <1>2 DEF Reserves, Working
  <2>2. Prepares(b)'
    <3>1. /\ n.captured \in [Files -> Contents] /\ Len(n.prepared) = Len(n.entries)
          /\ Len(n.prepared) <= Len(n.entries)
          /\ \A i \in 1 .. Len(n.prepared) : Agrees(n.entries[i], n.prepared[i])
      BY <1>1 DEF Prepares, Working
    <3>2. \A i \in 1 .. Len(n.prepared) : Agrees(n.entries[i], n.prepared[i])'
      BY <3>1 DEF Agrees
    <3> QED
      BY <1>2, <3>1, <3>2 DEF Prepares, Working
  <2>3. Writes(b)'
    <3>1. ASSUME NEW v \in n.wrote PROVE AsPreviewed(b, v)' /\ Spends(b, v)'
      <4>1. AsPreviewed(b, v) /\ Spends(b, v)
        BY <1>1 DEF Writes, Spends
      <4> QED
        BY <1>2, <4>1 DEF AsPreviewed, Spends
    <3> QED
      BY <1>2, <3>1 DEF Writes
  <2>4. \A t \in DOMAIN receipts' : made'[t].by = b => Owned(t)'
    <3>1. Previews(b)' = Previews(b)
      BY <1>2 DEF Previews
    <3>2. ASSUME NEW t \in DOMAIN receipts, made[t].by = b PROVE Owned(t)'
      <4>1. Owned(t)
        BY DEF ReceiptsInv
      <4> QED
        BY <1>2, <3>1, <3>2, <4>1 DEF Owned
    <3> QED
      BY <3>2
  <2>5. \A a \in Batches \ {b} : Apart(a, b)' /\ Apart(b, a)'
    <3>1. ASSUME NEW a \in Batches \ {b} PROVE Apart(a, b)' /\ Apart(b, a)'
      <4>1. Apart(a, b) /\ Apart(b, a) /\ Writes(a) /\ batch'[a] = batch[a]
        BY <1>2 DEF ReceiptsInv
      <4>2. ASSUME batch[a].state # "idle", NEW v \in batch[a].wrote PROVE v.token # w.token
        BY <1>1, <4>1, <4>2 DEF Apart, Writes, Spends
      <4> QED
        BY <1>1, <1>2, <4>1, <4>2 DEF Apart
    <3> QED
      BY <3>1
  <2> QED
    BY <2>1, <2>2, <2>3, <2>4, <2>5 DEF Sound
<1>4. /\ DOMAIN made' = DOMAIN made /\ made' \in [DOMAIN made -> Made] /\ Grows
      /\ Shrinks /\ DOMAIN receipts' \subseteq DOMAIN receipts
      /\ receipts' \in [DOMAIN receipts' -> Stored] /\ reserved' \in [Batches -> SUBSET Nat]
  BY <1>1, SameIsKnown DEF Shape, Shrinks
<1>5. PICK C \in SUBSET Batches : C = {b}
  OBVIOUS
<1>6. /\ \A a \in Batches \ C : reserved'[a] = reserved[a] /\ batch'[a] = batch[a]
      /\ \A d \in C : Sound(d)'
  BY <1>2, <1>3, <1>5
<1> QED
  BY <1>2, <1>4, <1>6, MovesOnly

(* The record of a batch that has written one more file.                   *)
Written(k, i, f, c, ws) == [k EXCEPT !.at = i, !.committed = @ \cup {<<f, c>>}, !.wrote = ws]

LEMMA WrittenBatch ==
    ASSUME NEW k \in Running, NEW f \in Files, NEW c \in Contents,
           NEW ws \in SUBSET [token : Nat, file : Files, over : Contents, text : Contents],
           NEW i \in Nat
    PROVE  LET n == Written(k, i, f, c, ws)
           IN /\ n \in Running /\ n.wrote = ws /\ n.at = i /\ n.state = k.state
              /\ n.session = k.session /\ n.entries = k.entries /\ n.captured = k.captured
              /\ n.prepared = k.prepared /\ n.completed = k.completed
<1> DEFINE cs == k.committed \cup {<<f, c>>}  m == [k EXCEPT !.at = i, !.committed = cs]
           n == [m EXCEPT !.wrote = ws]
           writes == SUBSET [token : Nat, file : Files, over : Contents, text : Contents]
           commits == SUBSET (Files \X Contents)
<1>1. cs \in commits /\ ws \in writes
  BY DEF Running
<1> HIDE DEF cs, commits, writes
<1>2. m \in Running
  BY <1>1 DEF Running, commits
<1>3. /\ m.wrote = k.wrote /\ m.at = i /\ m.state = k.state /\ m.session = k.session
      /\ m.entries = k.entries /\ m.captured = k.captured /\ m.prepared = k.prepared
      /\ m.completed = k.completed
  BY DEF Running
<1> HIDE DEF m
<1>4. n \in Running
  BY <1>1, <1>2 DEF Running, writes
<1>5. /\ n.wrote = ws /\ n.at = m.at /\ n.state = m.state /\ n.session = m.session
      /\ n.entries = m.entries /\ n.captured = m.captured /\ n.prepared = m.prepared
      /\ n.completed = m.completed
  BY <1>2 DEF Running
<1>6. Written(k, i, f, c, ws) = n
  BY Zenon DEF Written, cs, m
<1> HIDE DEF n
<1> QED
  BY <1>3, <1>4, <1>5, <1>6

LEMMA ApplyInv ==
    ASSUME ReceiptsInv, ReceiptsAssumption, NEW b \in Batches, Apply(b)
    PROVE  ReceiptsInv'
<1> DEFINE k == batch[b]  e == Current(b)  p == k.prepared[k.at]
           o == CASE p.kind = "preview" -> "none"
                  [] p.kind = "receipt" /\ p.validator # world.validator -> "sql_changed"
                  [] p.kind = "receipt" /\ Objection(b, e.file, e.token) # "none" ->
                       Objection(b, e.file, e.token)
                  [] OTHER -> IF p.source = world.file[e.file] THEN "none" ELSE "source_changed"
           ts == Previews(b) \cup IF p.kind = "receipt" THEN Aged(e.token) ELSE {}
           i == k.at + 1
<1>1. /\ Shape /\ Reserves(b) /\ Prepares(b) /\ Writes(b) /\ k \in Running
      /\ k.state = "apply" /\ k.at <= Len(k.entries)
      /\ UNCHANGED <<reserved, expired, made>>
  <2>1. /\ Shape /\ Reserves(b) /\ Prepares(b) /\ Writes(b) /\ k.state = "apply"
        /\ k.at <= Len(k.entries) /\ UNCHANGED <<reserved, expired, made>>
    BY DEF ReceiptsInv, Apply
  <2> QED
    BY <2>1, RunningBatch
<1>2. /\ k.at \in 1 .. Len(k.entries) /\ Len(k.prepared) = Len(k.entries) /\ k.at \in Nat
      /\ k.prepared \in Seq(Prepared) /\ i \in Nat /\ i >= 1
      /\ \A j \in 1 .. Len(k.prepared) : Agrees(k.entries[j], k.prepared[j])
  <2>1. k.at >= 1 /\ k.at \in Nat /\ Len(k.entries) \in Nat /\ k.prepared \in Seq(Prepared)
        /\ Len(k.prepared) = Len(k.entries)
        /\ \A j \in 1 .. Len(k.prepared) : Agrees(k.entries[j], k.prepared[j])
    BY <1>1, EntriesOfBatch DEF Prepares, Working, Running
  <2> QED
    BY <1>1, <2>1
<1>3. /\ e.file \in Files /\ p \in Prepared /\ Agrees(e, p)
      /\ e = k.entries[k.at] /\ e \in ToSet(k.entries)
  BY <1>1, <1>2, EntriesOfBatch DEF Current
<1>4. o \in Answers
  <2>1. Objection(b, e.file, e.token) \in Answers
    BY NoObjection
  <2> QED
    BY <2>1 DEF Answers
<1>5. world \in World /\ world.file \in [Files -> Contents]
  BY <1>1 DEF Shape, World
<1>6. CASE /\ o # "none" /\ receipts' = Without(ts) /\ UNCHANGED world
           /\ batch' = [batch EXCEPT ![b].state = "rollback", ![b].answer = o]
  <2> DEFINE sf == k.safe  m == [k EXCEPT !.state = "rollback", !.answer = o]
  <2>1. batch' = [batch EXCEPT ![b] = m]
    <3> HIDE DEF o
    <3> QED
      BY <1>6
  <2>2. m \in Running /\ m.safe = sf
    <3>1. k \in Running /\ o \in Answers
      BY <1>1, <1>4
    <3> HIDE DEF k, o
    <3> QED
      BY <3>1 DEF Running
  <2>3. [m EXCEPT !.safe = sf] = m
    <3> HIDE DEF m, sf
    <3> QED
      BY <2>2 DEF Running
  <2>4. batch' = [batch EXCEPT ![b] = [[batch[b] EXCEPT !.state = "rollback", !.answer = o]
                                       EXCEPT !.safe = sf]]
    BY <2>1, <2>3
  <2>5. batch[b].state \in Working /\ sf \in BOOLEAN
    BY <1>1 DEF Working, Running
  <2>6. Previews(b) \subseteq ts /\ UNCHANGED <<world, reserved, made>>
    BY <1>1, <1>6
  <2> HIDE DEF sf, ts, o
  <2> QED
    BY <1>4, <1>6, <2>4, <2>5, <2>6, Forgets
<1>7. CASE /\ p.kind = "preview" /\ UNCHANGED <<receipts, world>>
           /\ batch' = [batch EXCEPT ![b].at = @ + 1]
  <2> DEFINE n == [k EXCEPT !.at = i]
  <2>1. batch' = [batch EXCEPT ![b] = n]
    BY <1>7
  <2>2. /\ n \in Running /\ n.wrote = k.wrote /\ n.at = i /\ n.state = k.state
        /\ n.session = k.session /\ n.entries = k.entries /\ n.captured = k.captured
        /\ n.prepared = k.prepared /\ n.completed = k.completed
    <3>1. k \in Running /\ i \in Nat
      BY <1>1, <1>2
    <3> HIDE DEF k, i
    <3> QED
      BY <3>1 DEF Running
  <2> HIDE DEF n
  <2>3. world' \in World /\ UNCHANGED <<receipts, reserved, made>>
    BY <1>1, <1>5, <1>7
  <2>4. /\ batch[b].state \in {"preflight", "begin", "apply"}
        /\ n.session = batch[b].session /\ n.entries = batch[b].entries
        /\ n.captured = batch[b].captured /\ n.wrote = batch[b].wrote
        /\ n.completed = batch[b].completed /\ n.state = "apply" /\ n.at >= 1
        /\ Len(n.prepared) = Len(n.entries) /\ Len(n.prepared) <= Len(n.entries)
        /\ \A j \in 1 .. Len(n.prepared) : Agrees(n.entries[j], n.prepared[j])
        /\ ToSet(batch[b].prepared) \subseteq ToSet(n.prepared)
    <3>1. Len(k.entries) \in Nat
      BY <1>2
    <3> QED
      BY <1>1, <1>2, <2>2, <3>1
  <2>5. n \in Running
    BY <2>2
  <2> HIDE DEF k
  <2> QED
    BY <2>1, <2>3, <2>4, <2>5, Goes
<1>8. ASSUME NEW c \in Contents, world' = [world EXCEPT !.file[e.file] = c], UNCHANGED receipts,
             p.kind = "direct",
             batch' = [batch EXCEPT ![b].at = @ + 1, ![b].committed = @ \cup {<<e.file, c>>},
                                    ![b].wrote = @]
      PROVE  ReceiptsInv'
  <2> DEFINE n == Written(k, i, e.file, c, k.wrote)
  <2>1. batch' = [batch EXCEPT ![b] = n]
    BY <1>8, Zenon DEF Written
  <2>2. /\ n \in Running /\ n.wrote = k.wrote /\ n.at = i /\ n.state = k.state
        /\ n.session = k.session /\ n.entries = k.entries /\ n.captured = k.captured
        /\ n.prepared = k.prepared /\ n.completed = k.completed
    <3>1. k \in Running /\ i \in Nat /\ e.file \in Files
          /\ k.wrote \in SUBSET [token : Nat, file : Files, over : Contents, text : Contents]
      BY <1>1, <1>2, <1>3 DEF Running
    <3> HIDE DEF k, i, e
    <3> QED
      BY <3>1, WrittenBatch
  <2> HIDE DEF n
  <2>3. world' \in World /\ UNCHANGED <<receipts, reserved, made>>
    <3>1. e.file \in Files
      BY <1>3
    <3> HIDE DEF e
    <3> QED
      BY <1>1, <1>5, <1>8, <3>1 DEF World
  <2>4. /\ batch[b].state \in {"preflight", "begin", "apply"}
        /\ n.session = batch[b].session /\ n.entries = batch[b].entries
        /\ n.captured = batch[b].captured /\ n.wrote = batch[b].wrote
        /\ n.completed = batch[b].completed /\ n.state = "apply" /\ n.at >= 1
        /\ Len(n.prepared) = Len(n.entries) /\ Len(n.prepared) <= Len(n.entries)
        /\ \A j \in 1 .. Len(n.prepared) : Agrees(n.entries[j], n.prepared[j])
        /\ ToSet(batch[b].prepared) \subseteq ToSet(n.prepared)
    <3>1. Len(k.entries) \in Nat
      BY <1>2
    <3> QED
      BY <1>1, <1>2, <2>2, <3>1
  <2>5. n \in Running
    BY <2>2
  <2> HIDE DEF k
  <2> QED
    BY <2>1, <2>3, <2>4, <2>5, Goes
<1>9. ASSUME NEW c, c = p.candidate, world' = [world EXCEPT !.file[e.file] = c], UNCHANGED receipts,
             p.kind = "receipt", o = "none",
             batch' = [batch EXCEPT ![b].at = @ + 1, ![b].committed = @ \cup {<<e.file, c>>},
                         ![b].wrote = @ \cup {[token |-> p.token, file |-> e.file,
                                               over |-> world.file[e.file], text |-> c]}]
      PROVE  ReceiptsInv'
  <2>1. Objection(b, e.file, e.token) = "none"
    BY <1>9
  <2>2. /\ e.token \in DOMAIN receipts /\ e.token \in DOMAIN made /\ e.token \in Nat
        /\ receipts[e.token] \in Stored /\ made[e.token] \in Made /\ AsMade(e.token)
        /\ receipts[e.token].file = e.file /\ receipts[e.token].session = batch[b].session
        /\ receipts[e.token].source = world.file[e.file]
    BY <2>1, NoObjection
  <2>3. e.kind = "receipt" /\ p.token = e.token /\ p.candidate = made[e.token].receipt.candidate
    BY <1>3, <1>9 DEF Agrees
  <2>4. c \in Contents /\ c = made[e.token].receipt.candidate
    BY <1>9, <2>2, <2>3 DEF Made, Stored
  <2>5. PICK w \in [token : Nat, file : Files, over : Contents, text : Contents] :
          /\ w = [token |-> p.token, file |-> e.file, over |-> world.file[e.file], text |-> c]
          /\ w.token = e.token /\ w.file = e.file /\ w.over = world.file[e.file] /\ w.text = c
    <3>1. p.token \in Nat /\ e.file \in Files /\ world.file[e.file] \in Contents /\ p.token = e.token
      BY <1>3, <1>5, <2>2, <2>3
    <3> DEFINE v == [token |-> p.token, file |-> e.file, over |-> world.file[e.file], text |-> c]
    <3>2. /\ v \in [token : Nat, file : Files, over : Contents, text : Contents]
          /\ v.token = e.token /\ v.file = e.file /\ v.over = world.file[e.file] /\ v.text = c
      <4> HIDE DEF p, e
      <4> QED
        BY <2>4, <3>1
    <3> HIDE DEF p, e
    <3> QED
      BY <3>2
  <2>6. AsPreviewed(b, w) /\ w.token \in DOMAIN receipts /\ w.token \in TokensOf(batch[b].entries)
    <3>1. e.token \in TokensOf(k.entries)
      BY <1>3, <2>3 DEF TokensOf
    <3> HIDE DEF e, p
    <3> QED
      BY <2>2, <2>4, <2>5, <3>1 DEF AsPreviewed, AsMade
  <2> DEFINE ws == k.wrote \cup {w}
             n == Written(k, i, e.file, c, ws)
  <2>7. batch' = [batch EXCEPT ![b] = n]
    BY <1>9, <2>5, Zenon DEF Written
  <2>8. /\ n \in Running /\ n.wrote = ws /\ n.at = i /\ n.state = k.state
        /\ n.session = k.session /\ n.entries = k.entries /\ n.captured = k.captured
        /\ n.prepared = k.prepared /\ n.completed = k.completed
    <3>1. k \in Running /\ i \in Nat /\ e.file \in Files /\ c \in Contents
          /\ ws \in SUBSET [token : Nat, file : Files, over : Contents, text : Contents]
      BY <1>1, <1>2, <1>3, <2>4, <2>5 DEF Running
    <3> HIDE DEF k, i, e, ws
    <3> QED
      BY <3>1, WrittenBatch
  <2> HIDE DEF n
  <2>9. world' \in World /\ UNCHANGED <<receipts, reserved, made>>
    <3>1. e.file \in Files
      BY <1>3
    <3> HIDE DEF e
    <3> QED
      BY <1>1, <1>5, <1>9, <2>4, <3>1 DEF World
  <2>10. /\ n.session = batch[b].session /\ n.entries = batch[b].entries
         /\ n.captured = batch[b].captured /\ n.prepared = batch[b].prepared
         /\ n.completed = batch[b].completed /\ n.state = "apply" /\ n.at >= 1
         /\ n.wrote = batch[b].wrote \cup {w} /\ batch[b].state = "apply" /\ n \in Running
    BY <1>1, <1>2, <2>8
  <2> HIDE DEF k, e, p, ws
  <2> QED
    BY <2>6, <2>7, <2>9, <2>10, ApplyWrites
<1>10. p.kind \in {"preview", "receipt", "direct"}
  BY <1>3 DEF Prepared
<1>11. CASE o # "none"
  BY <1>6, <1>11 DEF Apply
<1>12. CASE o = "none"
  <2>1. PICK c \in IF p.kind = "receipt" THEN {p.candidate} ELSE Contents :
          /\ UNCHANGED receipts
          /\ IF p.kind = "preview"
             THEN batch' = [batch EXCEPT ![b].at = @ + 1] /\ UNCHANGED world
             ELSE /\ world' = [world EXCEPT !.file[e.file] = c]
                  /\ batch' = [batch EXCEPT ![b].at = @ + 1,
                       ![b].committed = @ \cup {<<e.file, c>>},
                       ![b].wrote = IF p.kind = "direct" THEN @ ELSE @ \cup
                         {[token |-> p.token, file |-> e.file, over |-> world.file[e.file], text |-> c]}]
    BY <1>12 DEF Apply
  <2>2. CASE p.kind = "preview"
    BY <1>7, <2>1, <2>2
  <2>3. CASE p.kind = "direct"
    BY <1>8, <2>1, <2>3
  <2>4. CASE p.kind = "receipt"
    BY <1>9, <1>12, <2>1, <2>4
  <2> QED
    BY <1>10, <2>2, <2>3, <2>4
<1> QED
  BY <1>11, <1>12

(* A receipt that a batch has spent goes when its token is released.       *)
LEMMA ReleaseInv ==
    ASSUME ReceiptsInv, ReceiptsAssumption, NEW b \in Batches, NEW t \in Tokens, Release(b, t)
    PROVE  ReceiptsInv'
<1> DEFINE ts == {x \in {t} \cap DOMAIN receipts : ~Reusable(b, x)}  T == reserved[b] \ {t}
<1>1. /\ Shape /\ Reserves(b) /\ Prepares(b) /\ Writes(b)
      /\ batch[b].state = "release" /\ receipts' = Without(ts)
      /\ reserved' = [reserved EXCEPT ![b] = T] /\ UNCHANGED <<world, expired, batch, made>>
  BY DEF ReceiptsInv, Release
<1>2. /\ DOMAIN Without(ts) = DOMAIN receipts \ ts
      /\ Without(ts) \in [DOMAIN receipts \ ts -> Stored]
      /\ \A x \in DOMAIN receipts \ ts : Without(ts)[x] = receipts[x]
  BY <1>1, WithoutFacts
<1>3. /\ DOMAIN receipts' = DOMAIN receipts \ ts /\ receipts' \in [DOMAIN receipts' -> Stored]
      /\ \A x \in DOMAIN receipts' : receipts'[x] = receipts[x]
  BY <1>1, <1>2
<1>4. batch[b].completed /\ t \in DOMAIN receipts => t \in ts
  BY DEF Reusable
<1> HIDE DEF ts
<1>5. /\ reserved'[b] = T /\ reserved' \in [Batches -> SUBSET Nat]
      /\ \A a \in Batches \ {b} : reserved'[a] = reserved[a]
  <2>1. reserved \in [Batches -> SUBSET Nat] /\ T \in SUBSET Nat
    BY <1>1 DEF Shape
  <2> HIDE DEF T
  <2> QED
    BY <1>1, <2>1
<1>6. Sound(b)'
  <2>1. Reserves(b)'
    BY <1>1 DEF Reserves, Working
  <2>2. Prepares(b)'
    BY <1>1 DEF Prepares, Working
  <2>3. Writes(b)'
    <3>1. ASSUME NEW w \in batch[b].wrote PROVE AsPreviewed(b, w)' /\ Spends(b, w)'
      <4>1. AsPreviewed(b, w) /\ Spends(b, w) /\ batch[b].completed
        BY <1>1, <3>1 DEF Writes
      <4>2. AsPreviewed(b, w)'
        BY <1>1, <4>1 DEF AsPreviewed
      <4>3. CASE w.token \in reserved[b] /\ w.token # t
        BY <1>5, <4>2, <4>3 DEF Spends
      <4>4. CASE w.token = t
        BY <1>1, <1>3, <1>4, <4>1, <4>2, <4>4 DEF Spends
      <4>5. CASE w.token \notin reserved[b]
        BY <1>1, <1>3, <4>1, <4>2, <4>5 DEF Spends
      <4> QED
        BY <4>3, <4>4, <4>5
    <3> QED
      BY <1>1, <3>1 DEF Writes
  <2>4. \A x \in DOMAIN receipts' : made'[x].by = b => Owned(x)'
    <3>1. Previews(b)' = Previews(b)
      BY <1>1 DEF Previews
    <3> QED
      BY <1>1, <1>3, OthersAreKnown DEF Owned
  <2>5. \A a \in Batches \ {b} : Apart(a, b)' /\ Apart(b, a)'
    <3>1. ASSUME NEW a \in Batches \ {b} PROVE Apart(a, b)' /\ Apart(b, a)'
      <4>1. Apart(a, b) /\ Apart(b, a)
        BY DEF ReceiptsInv
      <4> QED
        BY <1>1, <1>5, <4>1 DEF Apart
    <3> QED
      BY <3>1
  <2> QED
    BY <2>1, <2>2, <2>3, <2>4, <2>5 DEF Sound
<1>7. /\ world' \in World /\ DOMAIN made' = DOMAIN made /\ made' \in [DOMAIN made -> Made] /\ Grows
      /\ batch' \in [Batches -> {Idle} \cup Running]
  BY <1>1, SameIsKnown DEF Shape
<1>8. Shrinks /\ DOMAIN receipts' \subseteq DOMAIN receipts
  BY <1>3 DEF Shrinks
<1>9. PICK C \in SUBSET Batches : C = {b}
  OBVIOUS
<1>10. /\ \A a \in Batches \ C : reserved'[a] = reserved[a] /\ batch'[a] = batch[a]
       /\ \A d \in C : Sound(d)'
  BY <1>1, <1>5, <1>6, <1>9
<1> QED
  BY <1>3, <1>5, <1>7, <1>8, <1>10, MovesOnly

-----------------------------------------------------------------------------
(* The steps of the world, of the timers and of nobody.                    *)

LEMMA NobodyMoves ==
    ASSUME ReceiptsInv, ReceiptsAssumption, world' \in World, UNCHANGED <<reserved, batch, made>>,
           DOMAIN receipts' \subseteq DOMAIN receipts, receipts' \in [DOMAIN receipts' -> Stored],
           Shrinks
    PROVE  ReceiptsInv'
<1>1. Shape
  BY DEF ReceiptsInv
<1>2. /\ DOMAIN made' = DOMAIN made /\ made' \in [DOMAIN made -> Made] /\ Grows
      /\ batch' \in [Batches -> {Idle} \cup Running] /\ reserved' \in [Batches -> SUBSET Nat]
  BY <1>1, SameIsKnown DEF Shape
<1>3. PICK C \in SUBSET Batches : C = {}
  OBVIOUS
<1>4. /\ \A a \in Batches \ C : reserved'[a] = reserved[a] /\ batch'[a] = batch[a]
      /\ \A d \in C : Sound(d)'
  BY <1>3
<1> QED
  BY <1>2, <1>4, MovesOnly

LEMMA AgeInv ==
    ASSUME ReceiptsInv, ReceiptsAssumption, NEW t \in Tokens, Age(t)
    PROVE  ReceiptsInv'
<1>1. /\ Shape /\ t \in DOMAIN receipts /\ receipts' = [receipts EXCEPT ![t].aged = TRUE]
      /\ UNCHANGED <<world, reserved, batch, made>>
  BY DEF ReceiptsInv, Age
<1>2. /\ receipts \in [DOMAIN receipts -> Stored] /\ world' \in World
  BY <1>1 DEF Shape
<1>3. PICK r \in Stored : /\ r = [receipts[t] EXCEPT !.aged = TRUE]
                          /\ r.file = receipts[t].file /\ r.session = receipts[t].session
                          /\ r.source = receipts[t].source /\ r.candidate = receipts[t].candidate
  <2> DEFINE old == receipts[t]  r == [old EXCEPT !.aged = TRUE]
  <2>1. old \in Stored
    BY <1>1, <1>2
  <2> HIDE DEF old
  <2>2. r \in Stored /\ r.file = old.file /\ r.session = old.session
        /\ r.source = old.source /\ r.candidate = old.candidate
    BY <2>1 DEF Stored
  <2> QED
    BY <2>2 DEF old
<1>4. receipts' = [receipts EXCEPT ![t] = r]
  BY <1>1, <1>3
<1>5. /\ DOMAIN receipts' = DOMAIN receipts /\ receipts' \in [DOMAIN receipts' -> Stored]
      /\ receipts'[t] = r /\ \A x \in DOMAIN receipts \ {t} : receipts'[x] = receipts[x]
  BY <1>1, <1>2, <1>3, <1>4
<1>6. Shrinks
  BY <1>3, <1>5 DEF Shrinks
<1> QED
  BY <1>1, <1>2, <1>5, <1>6, NobodyMoves

LEMMA ExpireInv ==
    ASSUME ReceiptsInv, ReceiptsAssumption, NEW t \in Tokens, Expire(t)
    PROVE  ReceiptsInv'
<1>1. /\ Shape /\ receipts' = Without({t}) /\ UNCHANGED <<world, reserved, batch, made>>
  BY DEF ReceiptsInv, Expire
<1>2. /\ DOMAIN Without({t}) = DOMAIN receipts \ {t}
      /\ Without({t}) \in [DOMAIN receipts \ {t} -> Stored]
      /\ \A x \in DOMAIN receipts \ {t} : Without({t})[x] = receipts[x]
  BY <1>1, WithoutFacts
<1>3. /\ DOMAIN receipts' = DOMAIN receipts \ {t} /\ receipts' \in [DOMAIN receipts' -> Stored]
      /\ \A x \in DOMAIN receipts' : receipts'[x] = receipts[x]
  BY <1>1, <1>2
<1>4. Shrinks /\ DOMAIN receipts' \subseteq DOMAIN receipts /\ world' \in World
  BY <1>1, <1>3 DEF Shrinks, Shape
<1> QED
  BY <1>1, <1>3, <1>4, NobodyMoves

LEMMA ChangeInv ==
    ASSUME ReceiptsInv, ReceiptsAssumption, NEW f \in Files, NEW c \in Contents, Change(f, c)
    PROVE  ReceiptsInv'
<1>1. Shape /\ UNCHANGED <<receipts, reserved, batch, made>> /\ world \in World
  BY DEF ReceiptsInv, Change, Shape
<1>2. world' \in World
  <2>1. CASE world' = [world EXCEPT !.file[f] = c, !.changes = @ + 1]
    <3> DEFINE file == [world.file EXCEPT ![f] = c]  n == world.changes + 1
    <3>1. file \in [Files -> Contents] /\ n \in Nat
      BY <1>1 DEF World
    <3>2. world' = [world EXCEPT !.file = file, !.changes = n]
      BY <2>1
    <3> HIDE DEF file, n
    <3> QED
      BY <1>1, <3>1, <3>2 DEF World
  <2>2. CASE world' = [world EXCEPT !.workspace = @ + 1, !.changes = @ + 1]
    <3> DEFINE moved == world.workspace + 1  n == world.changes + 1
    <3>1. moved \in Nat /\ n \in Nat
      BY <1>1 DEF World
    <3>2. world' = [world EXCEPT !.workspace = moved, !.changes = n]
      BY <2>2
    <3> HIDE DEF moved, n
    <3> QED
      BY <1>1, <3>1, <3>2 DEF World
  <2>3. CASE world' = [world EXCEPT !.config = @ + 1, !.changes = @ + 1]
    <3> DEFINE moved == world.config + 1  n == world.changes + 1
    <3>1. moved \in Nat /\ n \in Nat
      BY <1>1 DEF World
    <3>2. world' = [world EXCEPT !.config = moved, !.changes = n]
      BY <2>3
    <3> HIDE DEF moved, n
    <3> QED
      BY <1>1, <3>1, <3>2 DEF World
  <2>4. CASE world' = [world EXCEPT !.validator = @ + 1, !.changes = @ + 1]
    <3> DEFINE moved == world.validator + 1  n == world.changes + 1
    <3>1. moved \in Nat /\ n \in Nat
      BY <1>1 DEF World
    <3>2. world' = [world EXCEPT !.validator = moved, !.changes = n]
      BY <2>4
    <3> HIDE DEF moved, n
    <3> QED
      BY <1>1, <3>1, <3>2 DEF World
  <2> QED
    BY <2>1, <2>2, <2>3, <2>4 DEF Change
<1>3. Shrinks /\ DOMAIN receipts' \subseteq DOMAIN receipts /\ receipts' \in [DOMAIN receipts' -> Stored]
  BY <1>1 DEF Shrinks, Shape
<1> QED
  BY <1>1, <1>2, <1>3, NobodyMoves

LEMMA StutterInv ==
    ASSUME ReceiptsInv, ReceiptsAssumption, UNCHANGED vars
    PROVE  ReceiptsInv'
<1>1. Shape /\ UNCHANGED <<world, receipts, reserved, batch, made>>
  BY DEF ReceiptsInv, vars
<1>2. /\ Shrinks /\ DOMAIN receipts' \subseteq DOMAIN receipts
      /\ receipts' \in [DOMAIN receipts' -> Stored] /\ world' \in World
  BY <1>1 DEF Shrinks, Shape
<1> QED
  BY <1>1, <1>2, NobodyMoves

LEMMA InitInv ==
    ASSUME Init, ReceiptsAssumption
    PROVE  ReceiptsInv
<1>1. world \in World
  <2> DEFINE file == [f \in Files |-> CHOOSE c \in Contents : TRUE]
  <2>1. file \in [Files -> Contents]
    BY DEF ReceiptsAssumption
  <2> HIDE DEF file
  <2>2. world \in [file : {file}, workspace : {0}, config : {0}, validator : {0}, changes : {0}]
    BY DEF Init, file
  <2> QED
    BY <2>1, <2>2 DEF World
<1>2. /\ receipts = <<>> /\ made = <<>> /\ reserved = [b \in Batches |-> {}]
      /\ batch = [b \in Batches |-> Idle]
  BY DEF Init
<1>3. DOMAIN receipts = {} /\ DOMAIN made = {} /\ DOMAIN made = 1 .. 0
  BY <1>2
<1>4. receipts \in [DOMAIN receipts -> Stored] /\ made \in [DOMAIN made -> Made]
  BY <1>2
<1>5. Shape
  BY <1>1, <1>2, <1>3, <1>4 DEF Shape
<1>6. ASSUME NEW b \in Batches PROVE Reserves(b) /\ Prepares(b) /\ Writes(b)
  BY <1>2, IdleState DEF Reserves, Prepares, Writes, Working
<1>7. ASSUME NEW a \in Batches, NEW b \in Batches PROVE Apart(a, b)
  BY <1>2, IdleState DEF Apart
<1>8. ASSUME NEW s \in Sessions PROVE Cardinality(OfSession(s)) <= MaxReceipts
  <2>1. OfSession(s) = {}
    BY <1>3 DEF OfSession
  <2> QED
    BY <2>1, FS_EmptySet DEF ReceiptsAssumption
<1> QED
  BY <1>3, <1>5, <1>6, <1>7, <1>8 DEF ReceiptsInv

(* The inductive invariant: what is stored is what was made and is known or *)
(* in use, what a batch writes by a receipt is what was previewed, and no   *)
(* token is with two batches.                                               *)
THEOREM ReceiptsInvHolds == ReceiptsAssumption => (Spec => []ReceiptsInv)
<1> SUFFICES ASSUME ReceiptsAssumption PROVE Spec => []ReceiptsInv
  OBVIOUS
<1>1. Init => ReceiptsInv
  BY InitInv
<1>2. ReceiptsInv /\ [Next]_vars => ReceiptsInv'
  <2> SUFFICES ASSUME ReceiptsInv, [Next]_vars PROVE ReceiptsInv'
    OBVIOUS
  <2>1. ASSUME NEW b \in Batches, Step(b) PROVE ReceiptsInv'
    BY <2>1, CallInv, ReserveInv, PreflightInv, StageInv, BeginInv, ApplyInv, PreviewInv,
       CompleteInv, RollbackInv, UnlockInv, ReleaseInv DEF Step
  <2>2. ASSUME NEW t \in Tokens, Age(t) \/ Expire(t) PROVE ReceiptsInv'
    BY <2>2, AgeInv, ExpireInv
  <2>3. ASSUME NEW f \in Files, NEW c \in Contents, Change(f, c) PROVE ReceiptsInv'
    BY <2>3, ChangeInv
  <2>4. CASE Stop
    BY <2>4, StutterInv DEF Stop
  <2>5. CASE UNCHANGED vars
    BY <2>5, StutterInv
  <2> QED
    BY <2>1, <2>2, <2>3, <2>4, <2>5 DEF Next
<1> QED
  BY <1>1, <1>2, PTL DEF Spec

(* Preview receipts are spent once, as previewed, and never leak, for all   *)
(* batches, plans, contents and limits.                                     *)
THEOREM ReceiptsAlwaysHonest == ReceiptsAssumption => (Spec => []ReceiptsAreHonest)
<1> SUFFICES ASSUME ReceiptsAssumption PROVE Spec => []ReceiptsAreHonest
  OBVIOUS
<1>1. ReceiptsInv => ReceiptsAreHonest
  <2> SUFFICES ASSUME ReceiptsInv PROVE ReceiptsAreHonest
    OBVIOUS
  <2>1. SpentOnce
    BY DEF ReceiptsInv, Apart, SpentOnce, Kept
  <2>2. WrittenAsPreviewed
    BY DEF ReceiptsInv, Writes, AsPreviewed, WrittenAsPreviewed
  <2>3. ReservedByTheRunning
    <3>1. \A a, b \in Batches : a # b => reserved[a] \cap reserved[b] = {}
      BY DEF ReceiptsInv, Apart
    <3>2. \A b \in Batches : batch[b].state \in {"idle", "waiting", "done"} => reserved[b] = {}
      BY DEF ReceiptsInv, Reserves
    <3> QED
      BY <3>1, <3>2 DEF ReservedByTheRunning
  <2>4. StoredForSomeone
    BY DEF ReceiptsInv, Owned, OfSession, StoredForSomeone
  <2> QED
    BY <2>1, <2>2, <2>3, <2>4 DEF ReceiptsAreHonest
<1> QED
  BY <1>1, ReceiptsInvHolds, PTL
=============================================================================
