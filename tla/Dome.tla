-------------------------------- MODULE Dome --------------------------------
(***************************************************************************)
(* The dome daemon (rts2dome::Dome): the handlers that open, close, watch  *)
(* and retry, over a driver given as operators.  Every driver operator     *)
(* returns the SET of its outcomes <<result, roof>>, because the roof      *)
(* moves, and the line to it may fail, while the handler runs.             *)
(* A handler is a function from <<daemon, roof>> to a set of such pairs.   *)
(***************************************************************************)
EXTENDS Naturals

CONSTANTS
  IsOpened(_), IsClosed(_),      \* "done" (-2), "error" (-1) or "wait" (>= 0)
  StartOpen(_), StartClose(_),   \* "ok" (0), "fail" (-1), "stow" (1, close only)
  EndOpen(_), EndClose(_),       \* "ok" or "fail"
  StopRoof(_),                   \* "ok" or "fail"
  FoundOpen(_),                  \* driver's own look at a roof that should be closed
  FirstState(_), Reboot(_),      \* what init () finds, and the driver's memory then
  Travel(_), Timeout(_), ByHand(_),   \* what the roof and the clock may do
  RoofStates, RoofInit,
  MaxRetries,                    \* DOME_CLOSE_MAX_RETRIES
  AutoClose,                     \* domeAutoClose is NULL or true
  WeatherOpens,                  \* weather_open
  Masters,                       \* the states centrald may announce
  MayIgnore,                     \* ignore_time may be set by an operator
  MaxRestarts                    \* bound on the daemon's restarts

ASSUME RetriesAssumption == MaxRetries \in Nat /\ MaxRestarts \in Nat
ASSUME SwitchesAssumption == AutoClose \in BOOLEAN /\ WeatherOpens \in BOOLEAN /\ MayIgnore \in BOOLEAN

VARIABLES
  dome,      \* state bits, retry timer and counters of the daemon
  roof,      \* the driver's memory and the hardware
  master,    \* the connection to centrald and the state it announced
  restarts

vars == <<dome, roof, master, restarts>>

States == {"UNKNOW", "CLOSED", "OPENING", "OPENED", "CLOSING", "WAIT_CLOSING"}
MasterStates == [weather : {"good", "bad"}, onoff : {"ON", "STANDBY", "OFF"}, night : BOOLEAN]

ASSUME MastersAssumption == Masters \subseteq MasterStates

Daemon == [state : States, stopped : BOOLEAN, bop : BOOLEAN,
           block : SUBSET {"OPEN", "CLOSE"},
           retry : BOOLEAN,          \* EVENT_DOMECLOSE_RETRY is scheduled
           retries : 0 .. MaxRetries, failReported : BOOLEAN, quiet : BOOLEAN,
           ignore : BOOLEAN,         \* ignoreTimeout lies in the future
           nextOpen : BOOLEAN,       \* nextGoodWeather has passed
           contact : BOOLEAN,        \* centraldLastContactTime is recent
           settled : BOOLEAN,        \* initialSettleTime has passed
           vote : {"good", "bad"},   \* own weather bit
           sent : SUBSET {"on", "standby"}]   \* commands queued to centrald

NoMaster == [weather |-> "good", onoff |-> "OFF", night |-> FALSE]

FreshDaemon(s) ==
  [state |-> s, stopped |-> FALSE, bop |-> FALSE, block |-> {}, retry |-> FALSE,
   retries |-> 0, failReported |-> FALSE, quiet |-> FALSE, ignore |-> FALSE,
   nextOpen |-> FALSE, contact |-> TRUE, settled |-> FALSE, vote |-> "good", sent |-> {}]

TypeOK == /\ dome \in Daemon
          /\ roof \in RoofStates
          /\ master \in [up : BOOLEAN, said : MasterStates]
          /\ restarts \in 0 .. MaxRestarts

-----------------------------------------------------------------------------
(* Weather.                                                                *)

IsGoodWeather(d, m) == \/ d.ignore
                       \/ m.up /\ m.said.weather = "good" /\ d.nextOpen

-----------------------------------------------------------------------------
(* Opening and closing.                                                    *)

Opened(d)  == [d EXCEPT !.state = "OPENED", !.bop = FALSE, !.block = {"CLOSE"}]
Opening(d) == [d EXCEPT !.state = "OPENING", !.bop = TRUE, !.block = {"OPEN", "CLOSE"},
                        !.failReported = FALSE, !.retries = 0]
Closed(d)  == [d EXCEPT !.state = "CLOSED", !.block = {"OPEN"}]
Closing(d) == [d EXCEPT !.state = "CLOSING", !.bop = FALSE, !.block = {"OPEN", "CLOSE"},
                        !.failReported = FALSE]
NoTimer(d) == [d EXCEPT !.retry = FALSE]

TryOpen(d, r) == {IF s[1] = "ok" THEN <<Opening(d), s[2]>> ELSE <<d, s[2]>> : s \in StartOpen(r)}

\* mutant: the weather test dropped
OpenStartAnyWeather(d, r, m) ==
  UNION {IF o[1] = "done" THEN {<<Opened(NoTimer(d)), o[2]>>}
         ELSE TryOpen(NoTimer(d), o[2]) : o \in IsOpened(r)}

DomeOpenStart(d, r, m) ==
  UNION {IF o[1] = "done" THEN {<<Opened(NoTimer(d)), o[2]>>}
         ELSE IF IsGoodWeather(d, m) THEN TryOpen(NoTimer(d), o[2])
         ELSE {<<NoTimer(d), o[2]>>} : o \in IsOpened(r)}

CloseResult(d, result) ==
  CASE result = "ok"   -> Closing(d)
    [] result = "fail" -> [d EXCEPT !.failReported = TRUE, !.retry = TRUE]
    [] result = "stow" -> [d EXCEPT !.state = "WAIT_CLOSING", !.bop = FALSE, !.retry = TRUE]

TryClose(d, r) == {<<CloseResult(d, s[1]), s[2]>> : s \in StartClose(r)}

\* mutant: a roof found closed leaves the blocks of an opening
CloseStartKeepsBop(d, r, quiet) ==
  LET c == [NoTimer(d) EXCEPT !.quiet = quiet]
  IN UNION {IF o[1] = "done" THEN {<<[Closed(c) EXCEPT !.retries = 0], o[2]>>}
            ELSE TryClose(c, o[2]) : o \in IsClosed(r)}

DomeCloseStart(d, r, quiet) ==
  LET c == [NoTimer(d) EXCEPT !.quiet = quiet]
  IN UNION {IF o[1] = "done" THEN {<<[Closed(c) EXCEPT !.bop = FALSE, !.retries = 0], o[2]>>}
            ELSE TryClose(c, o[2]) : o \in IsClosed(r)}

\* mutants: retries without end; no retry at all
CloseFailedForever(d) == [d EXCEPT !.retries = @ + 1, !.retry = TRUE]
CloseFailedSilently(d) == d

CloseFailed(d) == IF d.retries < MaxRetries
                  THEN [d EXCEPT !.retries = @ + 1, !.retry = TRUE]
                  ELSE d

DomeStop(d, r) == {IF s[1] = "ok" THEN <<[NoTimer(d) EXCEPT !.stopped = TRUE, !.bop = FALSE], s[2]>>
                   ELSE <<NoTimer(d), s[2]>> : s \in StopRoof(r)}

CheckOpened(d, r) ==
  UNION {IF o[1] = "wait" THEN {<<d, o[2]>>}
         ELSE {<<Opened(d), e[2]>> : e \in EndOpen(o[2])} : o \in IsOpened(r)}

\* a closing that ended: quietly, with an error, or with the roof closed
CloseEnded(d, arrived, ended) ==
  CASE arrived = "error" /\ d.quiet  -> [Closed(d) EXCEPT !.quiet = FALSE]
    [] arrived = "error" /\ ~d.quiet -> CloseFailed(Closed(d))
    [] arrived = "done" /\ ended = "fail" -> CloseFailed(Closed(d))
    [] arrived = "done" /\ ended = "ok" -> [Closed(d) EXCEPT !.retries = 0]

CheckClosed(d, r) ==
  UNION {IF o[1] = "wait" THEN {<<d, o[2]>>}
         ELSE {<<CloseEnded(d, o[1], e[1]), e[2]>> : e \in EndClose(o[2])} : o \in IsClosed(r)}

CheckOpening(d, r) == CASE d.state = "OPENING" -> CheckOpened(d, r)
                        [] d.state = "CLOSING" -> CheckClosed(d, r)
                        [] OTHER -> {<<d, r>>}

\* mutant: bad weather only asks centrald for standby
CloseDomeWeatherOnlyAsks(d, r, m) ==
  {<<[d EXCEPT !.sent = IF m.said.onoff = "ON" THEN @ \cup {"standby"} ELSE @], r>>}

CloseDomeWeather(d, r, m) ==
  LET asked == [d EXCEPT !.sent = IF m.said.onoff = "ON" THEN @ \cup {"standby"} ELSE @]
  IN IF d.ignore THEN {<<d, r>>}
     ELSE IF AutoClose THEN DomeCloseStart(asked, r, FALSE)
     ELSE {<<asked, r>>}

-----------------------------------------------------------------------------
(* idle (): the driver's look at the roof, then Dome::idle.                *)

CloseFailing(d) == d.retries > 0 \/ d.failReported

QuietClose(d, r, m) ==
  IF d.state = "CLOSED" /\ AutoClose /\ ~CloseFailing(d) /\ IsGoodWeather(d, m)
  THEN UNION {IF found THEN DomeCloseStart(d, r, TRUE) ELSE {<<d, r>>} : found \in FoundOpen(r)}
  ELSE {<<d, r>>}

FollowWeather(d, r, m) ==
  IF ~IsGoodWeather(d, m) THEN CloseDomeWeather(d, r, m)
  ELSE IF WeatherOpens /\ m.said.onoff = "STANDBY" THEN {<<[d EXCEPT !.sent = @ \cup {"on"}], r>>}
  ELSE {<<d, r>>}

Vote(d, m) == LET c == d.contact \/ m.up
              IN [d EXCEPT !.contact = c, !.vote = IF c /\ d.nextOpen THEN "good" ELSE "bad"]

DomeIdle(d, r, m) ==
  IF ~d.settled THEN {<<d, r>>}
  ELSE {<<Vote(w[1], m), w[2]>> : w \in UNION {FollowWeather(c[1], c[2], m) : c \in CheckOpening(d, r)}}

Becomes(outcomes) == \E w \in outcomes : dome' = w[1] /\ roof' = w[2]

Idle == /\ Becomes(UNION {DomeIdle(w[1], w[2], master) : w \in QuietClose(dome, roof, master)})
        /\ UNCHANGED <<master, restarts>>

\* EVENT_DOMECLOSE_RETRY
PostEvent == /\ dome.retry
             /\ Becomes(DomeCloseStart(NoTimer(dome), roof, FALSE))
             /\ UNCHANGED <<master, restarts>>

-----------------------------------------------------------------------------
(* Commands of clients and of centrald's open and close sequence.          *)

CommandOpen  == Becomes(DomeOpenStart(dome, roof, master)) /\ UNCHANGED <<master, restarts>>
CommandClose == Becomes(DomeCloseStart(dome, roof, FALSE)) /\ UNCHANGED <<master, restarts>>
CommandStop  == Becomes(DomeStop(dome, roof)) /\ UNCHANGED <<master, restarts>>

CloseFor == /\ Becomes(DomeCloseStart([dome EXCEPT !.nextOpen = FALSE], roof, FALSE))
            /\ UNCHANGED <<master, restarts>>

ResetNext == /\ ~dome.nextOpen
             /\ dome' = [dome EXCEPT !.nextOpen = TRUE]
             /\ UNCHANGED <<roof, master, restarts>>

SetIgnore == /\ MayIgnore
             /\ dome' = [dome EXCEPT !.ignore = TRUE]
             /\ UNCHANGED <<roof, master, restarts>>

-----------------------------------------------------------------------------
(* The state of the observatory.                                           *)

Observing(d, r, m) == IF AutoClose THEN DomeOpenStart(d, r, m) ELSE {<<d, r>>}

\* standby () and off () differ only in the wall sockets
StandbyOff(d, r) == LET c == [d EXCEPT !.ignore = FALSE]
                    IN IF AutoClose THEN DomeCloseStart(c, r, FALSE) ELSE {<<c, r>>}

ChangeMasterState(d, r, old, m) ==
  IF old.weather = "good" /\ m.said.weather = "bad" /\ d.ignore THEN {<<d, r>>}
  ELSE IF m.said.onoff = "ON" /\ m.said.night THEN Observing(d, r, m)
  ELSE StandbyOff(d, r)

\* centrald announces its state; a repeated one only brings the connection back
MasterSays == \E new \in Masters :
  /\ ~master.up \/ new # master.said
  /\ master' = [up |-> TRUE, said |-> new]
  /\ IF new = master.said THEN UNCHANGED <<dome, roof>>
     ELSE Becomes(ChangeMasterState(dome, roof, master.said, master'))
  /\ UNCHANGED restarts

MasterLost == /\ master.up
              /\ master' = [master EXCEPT !.up = FALSE]
              /\ UNCHANGED <<dome, roof, restarts>>

Delivered == /\ master.up
             /\ \E c \in dome.sent : dome' = [dome EXCEPT !.sent = @ \ {c}]
             /\ UNCHANGED <<roof, master, restarts>>

-----------------------------------------------------------------------------
(* The clock, the roof and restarts of the daemon.                         *)

Settle == ~dome.settled /\ dome' = [dome EXCEPT !.settled = TRUE] /\ UNCHANGED <<roof, master, restarts>>
NextOpenPasses == ~dome.nextOpen /\ dome' = [dome EXCEPT !.nextOpen = TRUE] /\ UNCHANGED <<roof, master, restarts>>
IgnoreEnds == dome.ignore /\ dome' = [dome EXCEPT !.ignore = FALSE] /\ UNCHANGED <<roof, master, restarts>>
ContactAges == /\ ~master.up /\ dome.contact
               /\ dome' = [dome EXCEPT !.contact = FALSE]
               /\ UNCHANGED <<roof, master, restarts>>

RoofTravels == roof' \in Travel(roof) /\ UNCHANGED <<dome, master, restarts>>
MoveTimesOut == roof' \in Timeout(roof) /\ UNCHANGED <<dome, master, restarts>>
HandMoves == roof' \in ByHand(roof) /\ UNCHANGED <<dome, master, restarts>>

Restart == /\ restarts < MaxRestarts
           /\ restarts' = restarts + 1
           /\ roof' = Reboot(roof)
           /\ \E s \in FirstState(roof) : dome' = FreshDaemon(s)
           /\ master' = [up |-> FALSE, said |-> NoMaster]

Init == /\ restarts = 0
        /\ roof \in RoofInit
        /\ \E s \in FirstState(roof) : dome = FreshDaemon(s)
        /\ master = [up |-> FALSE, said |-> NoMaster]

Next == \/ Idle \/ PostEvent
        \/ CommandOpen \/ CommandClose \/ CommandStop \/ CloseFor \/ ResetNext \/ SetIgnore
        \/ MasterSays \/ MasterLost \/ Delivered
        \/ Settle \/ NextOpenPasses \/ IgnoreEnds \/ ContactAges
        \/ RoofTravels \/ MoveTimesOut \/ HandMoves \/ Restart

Spec == Init /\ [][Next]_vars

\* the main loop runs idle () at least every poll timeout, timers fire, clocks
\* run and a powered roof moves
Fairness == /\ WF_vars(Idle) /\ WF_vars(PostEvent)
            /\ WF_vars(Settle) /\ WF_vars(MoveTimesOut) /\ WF_vars(RoofTravels)

FairSpec == Spec /\ Fairness
=============================================================================
