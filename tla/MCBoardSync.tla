---------------------------- MODULE MCBoardSync ----------------------------
(* Instances of BoardSync for TLC. *)
EXTENDS BoardSync, TLC

Symmetry == Permutations(Place) \cup Permutations(Drain)

=============================================================================
