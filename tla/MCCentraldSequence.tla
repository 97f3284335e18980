------------------------- MODULE MCCentraldSequence -------------------------
(* The open/close sequence: a telescope (cover) behind a roof, each closed, *)
(* moving or open, in a night in which the system is switched on and off.   *)
EXTENDS Centrald

CONSTANTS roof, tel

MCDevice   == {roof, tel}
MCSequence == <<roof, tel>>
MCRequired == {{}}

Ready  == [NewStatus EXCEPT !.ready = TRUE]
Closed == [Ready EXCEPT !.blockOpen = TRUE]
Opened == [Ready EXCEPT !.blockClose = TRUE]
Moving == [Ready EXCEPT !.blockOpen = TRUE, !.blockClose = TRUE]

\* The roof also sees the weather: it votes bad while it is closed.
MCStatuses == [d \in MCDevice |->
                 IF d = roof THEN {Closed, Opened, Moving, [Closed EXCEPT !.good = FALSE]}
                 ELSE {Closed, Opened, Moving}]

\* Always night: what opens and closes is switching, clients and weather.
MCSolar   == {<<NIGHT, DAWN>>}
MCPeriods == {}

\* last_night_on and switched_standby are written, never read: states that
\* differ only in them behave alike.
MCView == <<conns, [srv EXCEPT !.lastOn = FALSE, !.switchedStandby = FALSE], required, nextEvent>>
=============================================================================
