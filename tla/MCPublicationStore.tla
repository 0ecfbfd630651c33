-------------------------- MODULE MCPublicationStore --------------------------
(* Two refreshes of the same workspace state and one of another; the two   *)
(* states share the row s of the first table.                              *)
EXTENDS PublicationStore

CONSTANTS c1, c2, c3, A, B, s, x, y

Symmetric == Permutations({c1, c2})
MCInputOf == c1 :> A @@ c2 :> A @@ c3 :> B
MCAttempts == A :> 2 @@ B :> 1
MCNeeds   == A :> <<{s}, {x}>> @@ B :> <<{s}, {y}>>
=============================================================================
