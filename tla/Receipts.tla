------------------------------ MODULE Receipts ------------------------------
(* The preview receipts of patch/engine.ts.  A preview computes a patch,     *)
(* stores it under a token and hands the token out; a later batch that names *)
(* the token writes what was previewed.  Batches hold the locks of their     *)
(* files while they run, editors hold none, and a receipt may expire at any  *)
(* moment.  A patched file is a member of Contents; the formatter's rewriting*)
(* of a candidate is left to MutationTransaction.                            *)
EXTENDS Naturals, Sequences, SequencesExt, FiniteSets

CONSTANTS Batches,      \* batches that run in the model, numbered in their order
          Sessions,     \* MCP sessions
          Plans,        \* the sequences of entries a batch may be asked for
          Tokens,       \* the receipts that can be handed out
          Contents,     \* what a file may hold
          MaxReceipts,  \* MAX_PREVIEW_SESSION_RECEIPTS
          MaxChanges    \* changes made by the rest of the world

VARIABLES world,     \* the files, and what a receipt is bound to
          receipts,  \* previewReceipts
          reserved,  \* reservedPreviewReceipts: the tokens each batch has reserved
          expired,   \* expiredPreviewReceipts
          batch,     \* the batches
          made       \* every receipt as it was made, and how it is known

vars == <<world, receipts, reserved, expired, batch, made>>

Entries == UNION {ToSet(p) : p \in Plans}
Files == {e.file : e \in Entries}

ReceiptsAssumption ==
    /\ Plans \subseteq Seq(Entries)
    /\ \A e \in Entries : e.kind \in {"preview", "direct", "receipt"}
    /\ Contents # {} /\ MaxReceipts \in Nat

Idle == [state |-> "idle"]

Locked(b) == IF batch[b].state \in {"idle", "waiting", "done"} THEN {}
             ELSE {e.file : e \in ToSet(batch[b].entries)}

Mutates(e) == e.kind # "preview"

TokensOf(entries) == {e.token : e \in {x \in ToSet(entries) : x.kind = "receipt"}}

Binding == [workspace |-> world.workspace, config |-> world.config]

Init == /\ world \in [file : {[f \in Files |-> CHOOSE c \in Contents : TRUE]},
                      workspace : {0}, config : {0}, validator : {0}, changes : {0}]
        /\ receipts = <<>>
        /\ reserved = [b \in Batches |-> {}]
        /\ expired = {}
        /\ batch = [b \in Batches |-> Idle]
        /\ made = <<>>

Without(ts) == [t \in DOMAIN receipts \ ts |-> receipts[t]]

(* A call arrives; a token it names was handed out before, perhaps to others. *)
Call(b, s, entries) ==
    /\ batch[b] = Idle /\ \A o \in Batches : o < b => batch[o] # Idle
    /\ TokensOf(entries) \subseteq {t \in DOMAIN made : made[t].told}
    /\ batch' = [batch EXCEPT ![b] =
         [state |-> "waiting", session |-> s, entries |-> entries, at |-> 1,
          captured |-> <<>>, prepared |-> <<>>, committed |-> {}, wrote |-> {},
          began |-> FALSE, safe |-> TRUE, completed |-> FALSE, answer |-> "none"]]
    /\ UNCHANGED <<world, receipts, reserved, expired, made>>

(* withFencedFileLocks, then withReservedPreviewReceipts: all tokens or none. *)
Reserve(b) ==
    LET e == batch[b].entries IN
    /\ batch[b].state = "waiting"
    /\ \A o \in Batches \ {b} : Locked(o) \cap {x.file : x \in ToSet(e)} = {}
    /\ IF \/ Cardinality(TokensOf(e)) # Len(SelectSeq(e, LAMBDA x : x.kind = "receipt"))
          \/ TokensOf(e) \cap UNION {reserved[o] : o \in Batches} # {}
       THEN /\ batch' = [batch EXCEPT ![b].state = "done", ![b].answer = "reserved"]
            /\ UNCHANGED reserved
       ELSE /\ batch' = [batch EXCEPT ![b].state = "preflight", ![b].captured = world.file]
            /\ reserved' = [reserved EXCEPT ![b] = TokensOf(e)]
    /\ UNCHANGED <<world, receipts, expired, made>>

(* What validatePreviewReceipt says of a token for a file, the first objection *)
(* first; "aged" is a receipt past its time whose timer has not run yet.       *)
Objection(b, f, t) ==
    CASE \E o \in Batches \ {b} : t \in reserved[o] -> "reserved"
      [] t \notin DOMAIN receipts -> IF t \in expired THEN "expired" ELSE "unknown"
      [] receipts[t].aged -> "expired"
      [] receipts[t].file # f -> "file_mismatch"
      [] receipts[t].session # batch[b].session -> "session_mismatch"
      [] receipts[t].binding.workspace # world.workspace -> "workspace_changed"
      [] receipts[t].binding.config # world.config -> "configuration_changed"
      [] receipts[t].source # world.file[f] -> "source_changed"
      [] OTHER -> "none"

Aged(t) == {x \in {t} \cap DOMAIN receipts : receipts[x].aged}

Previews(b) == {p.token : p \in {x \in ToSet(batch[b].prepared) : x.kind = "preview"}}

(* discardPreparedPreviews; what a failing batch has previewed is forgotten.  *)
Fail(b, answer, more) ==
    /\ batch' = [batch EXCEPT ![b].state = "release", ![b].answer = answer]
    /\ receipts' = Without(more \cup Previews(b))

Current(b) == batch[b].entries[batch[b].at]

Room(b) == Cardinality({t \in DOMAIN receipts : receipts[t].session = batch[b].session}) < MaxReceipts

(* patchPreview: the limits are read and the receipt is stored in one turn.   *)
Preview(b, c) ==
    /\ batch[b].state = "preflight" /\ batch[b].at <= Len(batch[b].entries)
    /\ Current(b).kind = "preview"
    /\ LET t == Cardinality(DOMAIN made) + 1
           r == [file |-> Current(b).file, session |-> batch[b].session,
                 source |-> world.file[Current(b).file], candidate |-> c,
                 binding |-> Binding, validator |-> world.validator, aged |-> FALSE]
       IN IF Room(b)
          THEN /\ t \in Tokens
               /\ receipts' = [x \in DOMAIN receipts \cup {t} |-> IF x = t THEN r ELSE receipts[x]]
               /\ made' = [x \in DOMAIN made \cup {t} |->
                             IF x = t THEN [receipt |-> r, by |-> b, told |-> FALSE, lost |-> FALSE] ELSE made[x]]
               /\ batch' = [batch EXCEPT ![b].prepared = Append(@, [kind |-> "preview", token |-> t]),
                                         ![b].at = @ + 1]
          ELSE Fail(b, "receipt_limit", {}) /\ UNCHANGED made
    /\ UNCHANGED <<world, reserved, expired>>

(* preflightPatchBatch of an entry that writes.                               *)
Preflight(b) ==
    /\ batch[b].state = "preflight" /\ batch[b].at <= Len(batch[b].entries)
    /\ Mutates(Current(b))
    /\ LET e == Current(b)
           o == IF e.kind = "receipt" THEN Objection(b, e.file, e.token) ELSE "none"
           p == IF e.kind = "receipt" /\ o = "none"
                THEN [kind |-> "receipt", token |-> e.token, candidate |-> receipts[e.token].candidate,
                      source |-> receipts[e.token].source, validator |-> receipts[e.token].validator]
                ELSE [kind |-> "direct", source |-> world.file[e.file]]
       IN IF o # "none"
          THEN Fail(b, o, IF e.kind = "receipt" THEN Aged(e.token) ELSE {})
          ELSE /\ batch' = [batch EXCEPT ![b].prepared = Append(@, p), ![b].at = @ + 1]
               /\ UNCHANGED receipts
    /\ UNCHANGED <<world, reserved, expired, made>>

Plan(b) == {e \in ToSet(batch[b].entries) : Mutates(e)}

(* The snapshots are staged before the try block that discards previews, so   *)
(* what the batch previewed stays stored when the staging fails.              *)
Stage(b) ==
    /\ batch[b].state = "preflight" /\ batch[b].at > Len(batch[b].entries)
    /\ IF \A e \in Plan(b) : world.file[e.file] = batch[b].captured[e.file]
       THEN batch' = [batch EXCEPT ![b].state = "begin"] /\ UNCHANGED made
       ELSE /\ batch' = [batch EXCEPT ![b].state = "release", ![b].answer = "staging"]
            /\ made' = [t \in DOMAIN made |-> [made[t] EXCEPT !.lost = @ \/ t \in Previews(b)]]
    /\ UNCHANGED <<world, receipts, reserved, expired>>

(* beginMutation; when it fails, nobody knows what the journal holds.         *)
Begin(b) ==
    /\ batch[b].state = "begin"
    /\ \/ /\ batch' = [batch EXCEPT ![b].state = "apply", ![b].at = 1,
                                    ![b].began = Plan(b) # {}, ![b].safe = Plan(b) = {}]
          /\ UNCHANGED receipts
       \/ /\ Plan(b) # {}
          /\ batch' = [batch EXCEPT ![b].state = "release", ![b].answer = "journal", ![b].safe = FALSE]
          /\ receipts' = Without(Previews(b))
    /\ UNCHANGED <<world, reserved, expired, made>>

(* applyPreparedPatch: the receipt is validated again after the formatting,   *)
(* and commit replaces the file only while it still holds the source.         *)
Apply(b) ==
    /\ batch[b].state = "apply" /\ batch[b].at <= Len(batch[b].entries)
    /\ LET e == Current(b)
           p == batch[b].prepared[batch[b].at]
           o == CASE p.kind = "preview" -> "none"
                  [] p.kind = "receipt" /\ p.validator # world.validator -> "sql_changed"
                  [] p.kind = "receipt" /\ Objection(b, e.file, e.token) # "none" ->
                       Objection(b, e.file, e.token)
                  [] OTHER -> IF p.source = world.file[e.file] THEN "none" ELSE "source_changed"
       IN IF o # "none"
          THEN /\ batch' = [batch EXCEPT ![b].state = "rollback", ![b].answer = o]
               /\ receipts' = Without(Previews(b) \cup IF p.kind = "receipt" THEN Aged(e.token) ELSE {})
               /\ UNCHANGED world
          ELSE /\ UNCHANGED receipts
               /\ \E c \in IF p.kind = "receipt" THEN {p.candidate} ELSE Contents :
                    IF p.kind = "preview"
                    THEN batch' = [batch EXCEPT ![b].at = @ + 1] /\ UNCHANGED world
                    ELSE /\ world' = [world EXCEPT !.file[e.file] = c]
                         /\ batch' = [batch EXCEPT ![b].at = @ + 1,
                              ![b].committed = @ \cup {<<e.file, c>>},
                              ![b].wrote = IF p.kind = "direct" THEN @ ELSE @ \cup
                                {[token |-> p.token, file |-> e.file, over |-> world.file[e.file], text |-> c]}]
    /\ UNCHANGED <<reserved, expired, made>>

(* completeMutation and the answer, which tells the caller its new tokens.    *)
Complete(b) ==
    /\ batch[b].state = "apply" /\ batch[b].at > Len(batch[b].entries)
    /\ batch' = [batch EXCEPT ![b].state = "release", ![b].answer = "files", ![b].completed = TRUE]
    /\ made' = [t \in DOMAIN made |-> [made[t] EXCEPT !.told = @ \/ t \in Previews(b)]]
    /\ UNCHANGED <<world, receipts, reserved, expired>>

(* rollbackFileBatch: a file an editor has changed since is left to recovery. *)
Rollback(b) ==
    /\ batch[b].state = "rollback"
    /\ LET whole == \A c \in batch[b].committed : world.file[c[1]] = c[2]
           mine(f) == \E c \in batch[b].committed : c[1] = f /\ world.file[f] = c[2]
       IN /\ world' = [world EXCEPT !.file =
                         [f \in Files |-> IF mine(f) THEN batch[b].captured[f] ELSE @[f]]]
          /\ batch' = [batch EXCEPT ![b].state = "release", ![b].safe = whole, ![b].wrote = {}]
    /\ UNCHANGED <<receipts, reserved, expired, made>>

ReusableWhileUnchanged(b, t) == world.file[receipts[t].file] = receipts[t].source

Reusable(b, t) == /\ batch[b].safe /\ ~batch[b].completed
                  /\ world.file[receipts[t].file] = receipts[t].source

(* The finally block of withReservedPreviewReceipts, a token at a time.       *)
Release(b, t) ==
    /\ batch[b].state = "release" /\ t \in reserved[b]
    /\ receipts' = Without({x \in {t} \cap DOMAIN receipts : ~Reusable(b, x)})
    /\ reserved' = [reserved EXCEPT ![b] = @ \ {t}]
    /\ UNCHANGED <<world, expired, batch, made>>

Unlock(b) == /\ batch[b].state = "release" /\ reserved[b] = {}
             /\ batch' = [batch EXCEPT ![b].state = "done"]
             /\ UNCHANGED <<world, receipts, reserved, expired, made>>

Age(t) == /\ t \in DOMAIN receipts /\ ~receipts[t].aged
          /\ receipts' = [receipts EXCEPT ![t].aged = TRUE]
          /\ UNCHANGED <<world, reserved, expired, batch, made>>

(* expirePreviewReceipt: the timer runs, whether a batch is at work or not.   *)
Expire(t) == /\ Aged(t) # {}
             /\ receipts' = Without({t})
             /\ expired' = expired \cup {t}
             /\ UNCHANGED <<world, reserved, batch, made>>

(* An editor writes a file, or the workspace, configuration or validator moves. *)
Change(f, c) ==
    /\ world.changes < MaxChanges
    /\ \/ world' = [world EXCEPT !.file[f] = c, !.changes = @ + 1]
       \/ world' = [world EXCEPT !.workspace = @ + 1, !.changes = @ + 1]
       \/ world' = [world EXCEPT !.config = @ + 1, !.changes = @ + 1]
       \/ world' = [world EXCEPT !.validator = @ + 1, !.changes = @ + 1]
    /\ UNCHANGED <<receipts, reserved, expired, batch, made>>

(* Every batch has ended, or the model has no token left for a preview.       *)
Stop == /\ \/ \A b \in Batches : batch[b].state = "done"
           \/ DOMAIN made = Tokens
        /\ UNCHANGED vars

Step(b) == \/ \E s \in Sessions, p \in Plans : Call(b, s, p)
           \/ Reserve(b) \/ Preflight(b) \/ Stage(b) \/ Begin(b) \/ Apply(b)
           \/ \E c \in Contents : Preview(b, c)
           \/ Complete(b) \/ Rollback(b) \/ Unlock(b)
           \/ \E t \in Tokens : Release(b, t)

Next == \/ \E b \in Batches : Step(b)
        \/ \E t \in Tokens : Age(t) \/ Expire(t)
        \/ \E f \in Files, c \in Contents : Change(f, c)
        \/ Stop

Spec == Init /\ [][Next]_vars

-----------------------------------------------------------------------------
Kept(b) == {w \in batch[b].wrote : batch[b].completed}

(* A receipt is spent by one batch at most, whatever fails, is undone by an   *)
(* editor or runs beside it.                                                  *)
SpentOnce == \A a, b \in Batches \ {x \in Batches : batch[x].state \in {"idle", "waiting"}} :
    a # b => {w.token : w \in Kept(a)} \cap {w.token : w \in Kept(b)} = {}

(* What a batch keeps of a receipt is the previewed text, in the previewed    *)
(* file, over the previewed source, for the session that asked for it.        *)
WrittenAsPreviewed == \A b \in {x \in Batches : batch[x].state \notin {"idle", "waiting"}} :
    \A w \in batch[b].wrote :
        LET r == made[w.token].receipt
        IN /\ w.file = r.file /\ w.over = r.source /\ w.text = r.candidate
           /\ batch[b].session = r.session

(* A token is reserved by the one running batch that names it, and by none    *)
(* once the batch has ended.                                                  *)
ReservedByTheRunning == \A b \in Batches :
    /\ batch[b].state \in {"idle", "waiting", "done"} => reserved[b] = {}
    /\ \A o \in Batches \ {b} : reserved[o] \cap reserved[b] = {}

(* Every stored receipt is known to a caller or belongs to a running batch;   *)
(* the exception is a batch whose snapshots could not be staged.  No session  *)
(* holds more of them than its limit.                                         *)
StoredForSomeone ==
    /\ \A t \in DOMAIN receipts : \/ made[t].told \/ made[t].lost
                                  \/ batch[made[t].by].state \notin {"release", "done"}
    /\ \A s \in Sessions : Cardinality({t \in DOMAIN receipts : receipts[t].session = s}) <= MaxReceipts

(* Preview receipts are spent once, as previewed, and never leak.             *)
ReceiptsAreHonest == /\ SpentOnce
                     /\ WrittenAsPreviewed
                     /\ ReservedByTheRunning
                     /\ StoredForSomeone
=============================================================================
