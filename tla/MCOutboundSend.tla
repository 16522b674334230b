---------------------------- MODULE MCOutboundSend ----------------------------
(* TLC instances of OutboundSend: the workers are interchangeable. *)
EXTENDS OutboundSend, TLC

WorkerSymmetry == Permutations(Workers)

=============================================================================
