--------------------------- MODULE MCCentraldVotes ---------------------------
(* Votes and connections: two sensors and a roof; required_devices changes. *)
EXTENDS Centrald

CONSTANTS rain, wind, roof

MCDevice   == {rain, wind, roof}
MCSequence == <<roof>>
MCRequired == {{rain}, {rain, wind}}

Sensor == {[NewStatus EXCEPT !.ready = TRUE, !.good = g] : g \in BOOLEAN}
Roof   == {[NewStatus EXCEPT !.ready = TRUE, !.move = b, !.blockOpen = b, !.blockClose = ~b] : b \in BOOLEAN}
MCStatuses == [d \in MCDevice |-> IF d = roof THEN Roof ELSE Sensor]

\* The middle of the night: the votes do not depend on the period.
MCSolar   == {<<NIGHT, DAWN>>}
MCPeriods == {}

\* last_night_on and switched_standby are written, never read: states that
\* differ only in them behave alike.
MCView == <<conns, [srv EXCEPT !.lastOn = FALSE, !.switchedStandby = FALSE], required, nextEvent>>
=============================================================================
