---------------------------- MODULE MCJobRecord ----------------------------
(* Instances of JobRecord for TLC. *)
EXTENDS JobRecord, TLC

Symmetry == Permutations(Handler) \cup Permutations(Session)

=============================================================================
