----------------------------- MODULE MCWorkQueue -----------------------------
(* Instance of WorkQueue for TLC: k1's name is a prefix of k2's. *)
EXTENDS WorkQueue

CONSTANTS k1, k2

MCPrefixMatch == {<<k, k>> : k \in Key} \cup {<<k1, k2>>}

=============================================================================
