---------------------------- MODULE AtomicBatch ----------------------------
(***************************************************************************)
(* What a mutating tool promises of the files of a checkout, seen by a     *)
(* reader that lets recovery run first: a batch is applied as a whole or   *)
(* not at all, it may be taken back as a whole until the caller was told   *)
(* it succeeded, and never after that.                                     *)
(***************************************************************************)
EXTENDS Integers

CONSTANTS Files, Hashes

VARIABLES contents,   \* what each file holds
          before,     \* the contents the latest batch started from
          after,      \* the contents it was asked for
          settled     \* its success is final

abstract == <<contents, before, after, settled>>

Init ==
  /\ contents \in [Files -> Hashes]
  /\ before = contents /\ after = contents
  /\ settled = FALSE

Start ==
  /\ before' = contents
  /\ after' \in [Files -> Hashes]
  /\ settled' = FALSE
  /\ UNCHANGED contents

Apply ==
  /\ contents = before
  /\ contents' = after
  /\ settled' \in BOOLEAN
  /\ UNCHANGED <<before, after>>

Confirm ==
  /\ contents = after
  /\ settled' = TRUE
  /\ UNCHANGED <<contents, before, after>>

Revoke ==
  /\ ~settled
  /\ contents = after
  /\ contents' = before
  /\ UNCHANGED <<before, after, settled>>

Next == Start \/ Apply \/ Confirm \/ Revoke

Spec == Init /\ [][Next]_abstract
=============================================================================
