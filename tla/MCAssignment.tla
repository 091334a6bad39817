---------------------------- MODULE MCAssignment ----------------------------
(* Small instances of Assignment for TLC. *)
EXTENDS Assignment, TLC

\* Requests, technicians, jobs and appointments are interchangeable.
Symmetry ==
    Permutations(Client) \cup Permutations(Technician) \cup Permutations(Job)
        \cup Permutations(Appointment)

=============================================================================
