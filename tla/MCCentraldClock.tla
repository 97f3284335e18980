--------------------------- MODULE MCCentraldClock ---------------------------
(* The periods of the day: every pair next_event returns at a latitude where *)
(* the sun rises and sets, every period a client may force, one device.      *)
EXTENDS Centrald

CONSTANTS roof

MCDevice   == {roof}
MCSequence == <<roof>>
MCRequired == {{}, {roof}}

MCStatuses == [d \in MCDevice |->
  {[NewStatus EXCEPT !.ready = TRUE, !.blockOpen = b, !.blockClose = ~b] : b \in BOOLEAN}]

MCSolar   == {<<p, (p + 1) % 6>> : p \in Period}
MCPeriods == Period
NoPeriods == {}
=============================================================================
