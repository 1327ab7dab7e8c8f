------------------------------ MODULE MCMapping ------------------------------
(* Instances of Mapping for TLC. *)
EXTENDS Mapping, TLC

CONSTANTS k1, k2

\* k1's name is a prefix of k2's.
MCPrefixMatch == {<<k, k>> : k \in Key} \cup {<<k1, k2>>}

\* No name is a prefix of another: all keys are alike, and so are the users.
MCExactMatch == {<<k, k>> : k \in Key}

Alike == Permutations(Key) \cup Permutations(User)

=============================================================================
