------------------------------- MODULE MCCadence -------------------------------
(* TLC instances of Cadence: executors and mail workers are interchangeable. *)
EXTENDS Cadence, TLC

ProcSymmetry == Permutations(Executors) \cup Permutations(Mailers)

=============================================================================
