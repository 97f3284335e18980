------------------------------ MODULE BartRoof ------------------------------
(***************************************************************************)
(* The BART roof: the driver's memory (two move timeouts), the motor and   *)
(* direction relays of the Ford board, and the roof itself.  The roof goes *)
(* on moving while a driver function talks to the board, and with          *)
(* LineFails any exchange with the board may fail.                         *)
(***************************************************************************)
EXTENDS Naturals

CONSTANTS
  LineFails,       \* exchanges with the board may fail
  DeadSwitches,    \* end switches that never make, a subset of {"open", "closed"}
  Jams,            \* the roof may stay short of its end past the move timeout
  Hands            \* the roof may be moved by hand or by wind

ASSUME BartAssumption == /\ LineFails \in BOOLEAN /\ Jams \in BOOLEAN /\ Hands \in BOOLEAN
                         /\ DeadSwitches \subseteq {"open", "closed"}

BartRoofs == [pos : {"closed", "mid", "open"},   \* the roof
              motor : BOOLEAN, closing : BOOLEAN,   \* pins MOTOR and SMER
              openTimer : {"off", "runs", "past"}, closeTimer : {"off", "runs", "past"}]

BartStart == {[pos |-> "closed", motor |-> FALSE, closing |-> FALSE, openTimer |-> "off", closeTimer |-> "off"]}

-----------------------------------------------------------------------------
(* The roof and its end switches.                                          *)

BartTravel(r) ==
  CASE r.motor /\ r.closing /\ r.pos = "open"    -> {[r EXCEPT !.pos = "mid"]}
    [] r.motor /\ r.closing /\ r.pos = "mid"     -> {[r EXCEPT !.pos = "closed"]}
    [] r.motor /\ ~r.closing /\ r.pos = "closed" -> {[r EXCEPT !.pos = "mid"]}
    [] r.motor /\ ~r.closing /\ r.pos = "mid"    -> {[r EXCEPT !.pos = "open"]}
    [] OTHER -> {}

\* the roof while the driver waits for the board
Meanwhile(r) == {r} \cup BartTravel(r)

Reached(r, end) == r.pos = end /\ end \notin DeadSwitches

Reads == IF LineFails THEN BOOLEAN ELSE {TRUE}

\* a move lasts less than CAS_NA_OTEVRENI unless the roof jams
BartTimeout(r) ==
  IF BartTravel(r) # {} /\ ~Jams THEN {}
  ELSE {[r EXCEPT !.openTimer = "past"] : t \in {r.openTimer} \cap {"runs"}}
       \cup {[r EXCEPT !.closeTimer = "past"] : t \in {r.closeTimer} \cap {"runs"}}

BartByHand(r) == IF Hands THEN {[r EXCEPT !.pos = p] : p \in {"closed", "mid", "open"}} \ {r} ELSE {}

-----------------------------------------------------------------------------
(* The driver.                                                             *)

Lost(outcomes) == IF LineFails THEN outcomes ELSE {}

StopMotor(r) ==
  UNION {{<<"ok", [s EXCEPT !.motor = FALSE]>>}
         \cup Lost({<<"fail", s>>, <<"fail", [s EXCEPT !.motor = FALSE]>>}) : s \in Meanwhile(r)}

\* mutant: only the end switch ends an opening
IsOpenedBySwitch(r) ==
  {IF read /\ Reached(s, "open") THEN <<"done", s>> ELSE <<"wait", s>> : s \in Meanwhile(r), read \in Reads}

BartIsOpened(r) ==
  {IF (read /\ Reached(s, "open")) \/ s.openTimer = "past" THEN <<"done", s>> ELSE <<"wait", s>> :
     s \in Meanwhile(r), read \in Reads}

BartIsClosed(r) ==
  {CASE read /\ Reached(s, "closed") -> <<"done", s>>
     [] ~(read /\ Reached(s, "closed")) /\ s.closeTimer = "past" -> <<"error", s>>
     [] OTHER -> <<"wait", s>> : s \in Meanwhile(r), read \in Reads}

BartEndOpen(r) == {<<o[1], [o[2] EXCEPT !.openTimer = "off"]>> : o \in StopMotor(r)}

\* the direction relay is released whether or not the motor stopped
BartEndClose(r) ==
  UNION {{<<o[1], [o[2] EXCEPT !.closing = FALSE]>>} \cup Lost({o}) :
           o \in StopMotor([r EXCEPT !.closeTimer = "off"])}

\* after the direction is set: run the motor, or stop it again
DriveOpen(r) ==
  {<<"ok", [r EXCEPT !.motor = TRUE, !.openTimer = "runs", !.closeTimer = "off"]>>}
  \cup Lost({<<"fail", o[2]>> : o \in StopMotor(r) \cup StopMotor([r EXCEPT !.motor = TRUE])})

DriveClose(r) ==
  {<<"ok", [r EXCEPT !.motor = TRUE, !.closeTimer = "runs", !.openTimer = "off"]>>}
  \cup Lost({<<"fail", o[2]>> : o \in StopMotor(r) \cup StopMotor([r EXCEPT !.motor = TRUE])})

StartOpenStopped(o) ==
  IF o[1] = "fail" THEN {o}
  ELSE DriveOpen([o[2] EXCEPT !.closing = FALSE])
       \cup Lost({<<"fail", o[2]>>, <<"fail", [o[2] EXCEPT !.closing = FALSE]>>})

BartStartOpen(r) ==
  (UNION {IF Reached(s, "open") THEN BartEndOpen(s)
          ELSE UNION {StartOpenStopped(o) : o \in StopMotor(s)} : s \in Meanwhile(r)})
  \cup Lost({<<"fail", r>>})

\* mutant: any running motor is taken for a close in progress
StartCloseAnyMotor(r) ==
  UNION {IF Reached(s, "closed") THEN BartEndClose(s)
         ELSE IF s.motor THEN {<<"ok", [s EXCEPT !.closeTimer = IF @ = "off" THEN "runs" ELSE @]>>}
         ELSE DriveClose([s EXCEPT !.closing = TRUE]) : s \in Meanwhile(r)}

BartStartClose(r) ==
  (UNION {IF Reached(s, "closed") THEN BartEndClose(s)
          ELSE IF s.motor /\ s.closing
          THEN {<<"ok", [s EXCEPT !.closeTimer = IF @ = "off" THEN "runs" ELSE @]>>}
          ELSE IF s.motor THEN {<<"fail", s>>}
          ELSE DriveClose([s EXCEPT !.closing = TRUE])
               \cup Lost({<<"fail", [s EXCEPT !.closing = TRUE]>>}) : s \in Meanwhile(r)})
  \cup Lost({<<"fail", s>> : s \in Meanwhile(r)})

\* the driver has no stop ()
BartStop(r) == {<<"fail", r>>}

\* idle (): every ROOF_CHECK_INTERVAL, and every ROOF_RECLOSE_INTERVAL once found open
BartFoundOpen(r) == {FALSE, ~Reached(r, "closed") /\ ~r.motor}

-----------------------------------------------------------------------------
(* A start of the driver: nothing is remembered, the relays are as left.   *)

BartFirstState(r) ==
  CASE Reached(r, "closed") -> {"CLOSED"}
    [] Reached(r, "open")   -> {"OPENED"}
    [] OTHER -> {"UNKNOW"}

BartReboot(r) == [r EXCEPT !.openTimer = "off", !.closeTimer = "off"]
=============================================================================
