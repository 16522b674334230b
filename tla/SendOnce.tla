------------------------------- MODULE SendOnce -------------------------------
(***************************************************************************)
(* What the outbound pipeline promises, said without workers, sweeps or    *)
(* queues: a message waits in the queue, is taken into flight by one       *)
(* sender, reaches the provider at most once, and either comes back        *)
(* undelivered or is closed for good.  OutboundSend implements it.         *)
(***************************************************************************)
EXTENDS Naturals

CONSTANT Messages

VARIABLES
  phase,  \* where each message is
  count   \* how often it has been put on the wire

vars == <<phase, count>>

Phases == {"queued", "withdrawn", "in_flight", "closed"}

Init ==
  /\ phase = [m \in Messages |-> "queued"]
  /\ count = [m \in Messages |-> 0]

Move(m, from, to) ==
  /\ phase[m] = from
  /\ phase' = [phase EXCEPT ![m] = to]
  /\ UNCHANGED count

Take(m) == Move(m, "queued", "in_flight")

\* The provider takes it: once, and only from the sender that holds it.
Deliver(m) ==
  /\ phase[m] = "in_flight" /\ count[m] = 0
  /\ count' = [count EXCEPT ![m] = 1]
  /\ UNCHANGED phase

\* Back to the queue: only what nobody has received.
PutBack(m) == count[m] = 0 /\ Move(m, "in_flight", "queued")

Close(m) == Move(m, "in_flight", "closed")

\* The author takes a waiting message back, or sends it again.
Withdraw(m) == Move(m, "queued", "withdrawn")
Resubmit(m) == Move(m, "withdrawn", "queued")

\* It may also be closed unsent: nothing here promises delivery.
Drop(m) == Move(m, "queued", "closed") \/ Move(m, "withdrawn", "closed")

Next ==
  \E m \in Messages :
    \/ Take(m) \/ Deliver(m) \/ PutBack(m) \/ Close(m)
    \/ Withdraw(m) \/ Resubmit(m) \/ Drop(m)

Spec == Init /\ [][Next]_vars

=============================================================================
