-------------------------- MODULE MCDeliveryQueue --------------------------
(* Small instances of DeliveryQueue for TLC. *)
EXTENDS DeliveryQueue, TLC

\* Instances and background calls are interchangeable.
RunnerSymmetry == Permutations(Worker) \cup Permutations(Caller)

=============================================================================
