----------------------------- MODULE MCHashTable -----------------------------
(* Instance of HashTable for TLC: a long chain and a short one. *)
EXTENDS HashTable

CONSTANTS k1, k2, k3, k4

MCHash == [k \in {k1, k2, k3, k4} |-> IF k = k4 THEN "b" ELSE "a"]

=============================================================================
