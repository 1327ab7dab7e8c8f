----------------------------- MODULE MCSsdCache -----------------------------
(* Instances of SsdCache for TLC. *)
EXTENDS SsdCache, TLC

\* No name is a prefix of another: all keys are alike, so are users and values.
MCExactMatch == {<<k, k>> : k \in Key}

Alike == Permutations(Key) \cup Permutations(User) \cup Permutations(Val)

=============================================================================
