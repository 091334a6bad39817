------------------------------- MODULE MCTeam -------------------------------
(* Instances of Team for TLC. *)
EXTENDS Team, TLC

Symmetry == Permutations(Person) \cup Permutations(Handler)

=============================================================================
