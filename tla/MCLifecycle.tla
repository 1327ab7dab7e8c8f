----------------------------- MODULE MCLifecycle -----------------------------
(* Instances of Lifecycle for TLC. *)
EXTENDS Lifecycle, TLC

Alike == Permutations(Server) \cup Permutations(User) \cup Permutations(Segment)

=============================================================================
