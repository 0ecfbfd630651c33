------------------------ MODULE MCMutationTransaction ------------------------
(* Small instances of MutationTransaction for TLC.                         *)
EXTENDS MutationTransaction, FiniteSets, TLC

CONSTANTS a, b, old, new, pretty

(* Batches name each path once, in the order of the request.               *)
MCBatches == {s \in UNION {[1..n -> Files] : n \in 1..Cardinality(Files)} :
                \A i, j \in DOMAIN s : s[i] = s[j] => i = j}

AllTools    == {"file_write", "file_patch", "file_delete"}
Patching    == {"file_patch"}
AsIs        == [c \in Contents |-> c]
Prettifying == [c \in Contents |-> IF c = new THEN pretty ELSE c]
Symmetric   == Permutations(Files) \cup Permutations(Contents)
=============================================================================
