----------------------------- MODULE CommandOrder -----------------------------
(***************************************************************************)
(* What a client may rely on when it queues commands for a device          *)
(* (Connection::queCommand): the device executes them one at a time, in    *)
(* the order they were queued, and every command is answered exactly once, *)
(* before the next one is executed.                                        *)
(***************************************************************************)
EXTENDS Naturals

CONSTANTS Devices

VARIABLES queued, executed, answered    \* how many commands of each device

vars == <<queued, executed, answered>>

Init == queued = [d \in Devices |-> 0] /\ executed = queued /\ answered = queued

Queue(d) ==
  /\ queued' = [queued EXCEPT ![d] = @ + 1]
  /\ UNCHANGED <<executed, answered>>

Execute(d) ==
  /\ executed[d] < queued[d] /\ answered[d] = executed[d]
  /\ executed' = [executed EXCEPT ![d] = @ + 1]
  /\ UNCHANGED <<queued, answered>>

Answer(d) ==
  /\ answered[d] < executed[d]
  /\ answered' = [answered EXCEPT ![d] = @ + 1]
  /\ UNCHANGED <<queued, executed>>

Next == \E d \in Devices : Queue(d) \/ Execute(d) \/ Answer(d)

Spec == Init /\ [][Next]_vars
=============================================================================
