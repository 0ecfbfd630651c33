----------------------------- MODULE MCFileLock -----------------------------
(* Turns: three calls of one process and one of a process under another    *)
(* account, all on one file. Crossed: two calls that list the same two     *)
(* files in opposite orders, in processes under two accounts.              *)
EXTENDS FileLock

CONSTANTS c1, c2, c3, c4, p1, p2, a1, a2

MCFiles     == {1, 2}
MCAccountOf == p1 :> a1 @@ p2 :> a2

TurnsCalls     == {c1, c2, c3, c4}
TurnsProcOf    == c1 :> p1 @@ c2 :> p1 @@ c3 :> p1 @@ c4 :> p2
TurnsRequested == [c \in TurnsCalls |-> <<1>>]

CrossedCalls     == {c1, c2}
CrossedProcOf    == c1 :> p1 @@ c2 :> p2
CrossedRequested == c1 :> <<1, 2>> @@ c2 :> <<2, 1>>
=============================================================================
