--------------------------- MODULE MCOutboxWorker ---------------------------
(* Small instances of OutboxWorker for TLC. *)
EXTENDS OutboxWorker, TLC

\* Instances are interchangeable.
WorkerSymmetry == Permutations(Worker)

=============================================================================
