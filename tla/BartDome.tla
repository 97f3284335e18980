------------------------------ MODULE BartDome ------------------------------
(***************************************************************************)
(* The dome daemon on the BART roof: what the daemon's handlers, the       *)
(* driver's checks, the timers and the roof promise together.              *)
(***************************************************************************)
EXTENDS Dome, BartRoof

\* The driver that Dome is given is BartRoof.
ASSUME BartDriverAssumption ==
  /\ RoofStates = BartRoofs /\ RoofInit = BartStart
  /\ \A r \in BartRoofs :
       /\ IsOpened(r) = BartIsOpened(r) /\ IsClosed(r) = BartIsClosed(r)
       /\ StartOpen(r) = BartStartOpen(r) /\ StartClose(r) = BartStartClose(r)
       /\ EndOpen(r) = BartEndOpen(r) /\ EndClose(r) = BartEndClose(r)
       /\ StopRoof(r) = BartStop(r) /\ FoundOpen(r) = BartFoundOpen(r)
       /\ FirstState(r) = BartFirstState(r) /\ Reboot(r) = BartReboot(r)
       /\ Travel(r) = BartTravel(r) /\ Timeout(r) = BartTimeout(r) /\ ByHand(r) = BartByHand(r)

MotorOpens == roof.motor /\ ~roof.closing
Bad == ~IsGoodWeather(dome, master)

(* The motor is started in the opening direction only in good weather, or  *)
(* when an operator asked to ignore it, whatever handler started it        *)
(* (Dome::domeOpenStart tests isGoodWeather before startOpen).             *)
OpensOnlyInGoodWeather ==
  [][MotorOpens' /\ ~MotorOpens => IsGoodWeather(dome, master')]_vars

(* While the daemon believes the roof opens or closes, a running motor     *)
(* turns that way: Bart::startOpen and startClose check the direction.     *)
DirectionMatchesState ==
  roof.motor => /\ dome.state = "OPENING" => ~roof.closing
                /\ dome.state = "CLOSING" => roof.closing

(* A close that ends with the roof still open is retried, has used up its  *)
(* retries, or was a quiet one (Dome::checkOpening and closeFailed).       *)
FailedCloseRetried ==
  [][dome.state = "CLOSING" /\ dome'.state = "CLOSED" /\ roof'.pos # "closed" /\ restarts' = restarts
     => dome'.retry \/ dome'.retries = MaxRetries \/ dome.quiet]_vars

(* Exposures and telescope moves are blocked exactly while the roof opens, *)
(* whichever way the opening ended or was overtaken (the BOP bits of        *)
(* Dome::domeOpenStart, domeCloseStart, domeStop and checkOpening).         *)
OpeningBlocksMoves == dome.bop <=> dome.state = "OPENING"

(* Every move the daemon watches comes to an end: by the end switch or by  *)
(* its timeout (Dome::checkOpening over Bart::isOpened and isClosed).      *)
MoveEnds == /\ dome.state = "OPENING" ~> dome.state # "OPENING"
            /\ dome.state = "CLOSING" ~> dome.state # "CLOSING"

\* the motor opens and the daemon does not look at it
Unwatched == MotorOpens /\ dome.state # "OPENING"

(* Once the weather stays bad the roof gets closed again and again, or an  *)
(* opening motor is running that the daemon does not watch any more        *)
(* (Dome::idle, closeDomeWeather and the retry timer).                     *)
BadWeatherClosesWatched == <>[]Bad => []<>(roof.pos = "closed" \/ Unwatched)

-----------------------------------------------------------------------------
(* What comments of the code say, and the code does not always do.         *)

(* bart.cpp, idle: "In bad weather Dome closes it as always".              *)
BadWeatherCloses == <>[]Bad => []<>(roof.pos = "closed")

(* dome.h, closeFailing: "an ordinary close failed: its retries are        *)
(* running or it gave up", so it is over when the roof is found closed.    *)
FoundClosedIsNotFailing ==
  [][(PostEvent \/ CommandClose) /\ dome'.state = "CLOSED" /\ ~dome'.retry => ~CloseFailing(dome')]_vars
=============================================================================
