------------------------------ MODULE Centrald ------------------------------
(***************************************************************************)
(* The central server, base/centrald: it keeps one connection per device,  *)
(* turns the devices' votes into the weather and stop bits of the system   *)
(* state, switches the system between on/standby/off and the periods of    *)
(* the day, and drives the open/close sequence of the observatory.         *)
(*                                                                         *)
(* The daemon is single threaded: a handler runs to its end.  What a       *)
(* handler does to the daemon's own state (record srv) is written as a     *)
(* composition of operators, one per C++ method, in call order.            *)
(***************************************************************************)
EXTENDS Naturals, Sequences, FiniteSets

CONSTANTS
  Device,         \* names of the devices that may register
  NoDevice,       \* the empty string of a device-name value
  OpenSequence,   \* open_sequence: devices in opening order
  RequiredSets,   \* the values required_devices can be given
  Statuses,       \* Statuses[d]: the status words device d may report
  SolarEvents,    \* the <<current period, next period>> pairs next_event returns
  ManualPeriods,  \* periods a client forces with "day", "evening", ...
  MaxTimers,      \* bound: close timers pending at once
  MaxQueue        \* bound: commands waiting on one connection

DAY     == 0
EVENING == 1
DUSK    == 2
NIGHT   == 3
DAWN    == 4
MORNING == 5
Period  == DAY..MORNING
OnOff   == {"on", "standby", "soft_off", "hard_off"}

\* The bits of a device's status word that centrald reacts to.
Status == [ready : BOOLEAN, good : BOOLEAN, move : BOOLEAN,
           blockOpen : BOOLEAN, blockClose : BOOLEAN]

\* A connection as the constructor leaves it: not ready, and - because a
\* zero bit means good - good weather and free to move before any report.
NewStatus == [ready |-> FALSE, good |-> TRUE, move |-> TRUE,
              blockOpen |-> FALSE, blockClose |-> FALSE]

ASSUME DeviceAssumption   == NoDevice \notin Device
ASSUME SequenceAssumption == OpenSequence \in Seq(Device)
ASSUME RequiredAssumption == RequiredSets \subseteq SUBSET Device /\ RequiredSets # {}
ASSUME StatusAssumption   == Statuses \in [Device -> SUBSET Status]
ASSUME SolarAssumption    == SolarEvents \subseteq Period \X Period /\ SolarEvents # {}
ASSUME PeriodAssumption   == ManualPeriods \subseteq Period
ASSUME BoundAssumption    == MaxTimers \in Nat /\ MaxQueue \in Nat

VARIABLES
  conns,      \* the connection list: link and last status word per device name
  srv,        \* the daemon's own state, see Server
  required,   \* required_devices
  nextEvent   \* next_event_type

vars == <<conns, srv, required, nextEvent>>

\* "delete" is CONN_DELETE: the socket is closed, the list entry is not yet
\* erased.
Conn == [link : {"none", "connected", "delete"}, status : Status]

Server == [onoff : OnOff, period : Period, weather : BOOLEAN, stop : BOOLEAN,
           op : {"none", "opening", "closing"}, last : Device \cup {NoDevice},
           failed : SUBSET (Device \cup {NoDevice}), timers : Seq(Device),
           queue : [Device -> Seq({"open", "close"})],
           badDevice : Device \cup {NoDevice},
           lastOn : BOOLEAN, switchedStandby : BOOLEAN]

\* Type correctness of the four variables.
TypeOK ==
  /\ conns \in [Device -> Conn]
  /\ srv \in Server
  /\ required \in SUBSET Device
  /\ nextEvent \in Period

Present(cs, d)   == cs[d].link # "none"
Connected(cs, d) == cs[d].link = "connected"

-----------------------------------------------------------------------------
(* The open/close sequence.                                                *)

SmallestOf(S) == CHOOSE i \in S : \A j \in S : i <= j
LargestOf(S)  == CHOOSE i \in S : \A j \in S : j <= i

UpdateOpenCloseClear(s) == [s EXCEPT !.op = "none", !.last = NoDevice]

\* The places of the sequence at which doOpen's loop stops: a device that is
\* missing, or one that blocks opening.
OpenStops(cs) ==
  {i \in DOMAIN OpenSequence :
     \/ ~Present(cs, OpenSequence[i])
     \/ cs[OpenSequence[i]].status.blockOpen}

DoOpen(s, cs) ==
  IF OpenStops(cs) = {} THEN UpdateOpenCloseClear(s)
  ELSE LET d == OpenSequence[SmallestOf(OpenStops(cs))]
       IN  IF ~Present(cs, d)
           THEN [s EXCEPT !.op = "none"]
           ELSE [s EXCEPT !.queue[d] = Append(@, "open"), !.last = d]

\* The places at which doClose's loop stops; a missing device is skipped.
CloseStops(s, cs) ==
  {i \in DOMAIN OpenSequence :
     /\ Present(cs, OpenSequence[i])
     /\ OpenSequence[i] \notin s.failed
     /\ cs[OpenSequence[i]].status.blockClose}

\* Mutant: the sequence is closed in opening order.
DoCloseForward(s, cs) ==
  IF OpenSequence = <<>> THEN s
  ELSE IF CloseStops(s, cs) = {}
       THEN [UpdateOpenCloseClear(s) EXCEPT !.failed = {}]
       ELSE LET d == OpenSequence[SmallestOf(CloseStops(s, cs))]
            IN  [s EXCEPT !.queue[d] = Append(@, "close"), !.last = d,
                          !.timers = IF s.last = d THEN @ ELSE Append(@, d)]

DoClose(s, cs) ==
  IF OpenSequence = <<>> THEN s
  ELSE IF CloseStops(s, cs) = {}
       THEN [UpdateOpenCloseClear(s) EXCEPT !.failed = {}]
       ELSE LET d == OpenSequence[LargestOf(CloseStops(s, cs))]
            IN  [s EXCEPT !.queue[d] = Append(@, "close"), !.last = d,
                          !.timers = IF s.last = d THEN @ ELSE Append(@, d)]

StartOpen(s, cs)  == DoOpen([s EXCEPT !.op = "opening"], cs)
StartClose(s, cs) == DoClose([s EXCEPT !.op = "closing"], cs)

OpenCloseChanged(s, cs) ==
  CASE s.op = "opening" -> DoOpen(s, cs)
    [] s.op = "closing" -> DoClose(s, cs)
    [] OTHER -> s

-----------------------------------------------------------------------------
(* The system state word.                                                  *)

\* The states in which centrald wants the observatory open.
ShouldOpen(s) == s.weather /\ s.onoff = "on" /\ s.period \in {DUSK, NIGHT, DAWN}

\* Mutant: a state that does not want the observatory open only stops opening
\* when the system is switched off, not in bad weather.
StateChangedIgnoresWeather(s, cs) ==
  IF s.onoff = "on" /\ s.period \in {DUSK, NIGHT, DAWN} THEN StartOpen(s, cs) ELSE StartClose(s, cs)

StateChanged(s, cs) == IF ShouldOpen(s) THEN StartOpen(s, cs) ELSE StartClose(s, cs)

\* Daemon::setState calls stateChanged only when the word really differs.
SetState(s, new, cs) == IF new = s THEN s ELSE StateChanged(new, cs)

SetWeatherState(s, good, cs) == SetState(s, [s EXCEPT !.weather = good], cs)
SetStopState(s, stop, cs)    == SetState(s, [s EXCEPT !.stop = stop], cs)

\* maskCentralState: mask names the bits of new_state that are set; the
\* standby bit is part of hard_off and not of soft_off.
HasStandbyBit(onoff) == onoff \in {"standby", "hard_off"}

MaskCentralState(s, mask, onoff, period, cs) ==
  LET noted   == [s EXCEPT !.switchedStandby =
                    @ \/ (~HasStandbyBit(s.onoff) /\ s.period \in {DUSK, NIGHT, DAWN})]
      masked  == [noted EXCEPT !.onoff  = IF "onoff"  \in mask THEN onoff  ELSE @,
                               !.period = IF "status" \in mask THEN period ELSE @]
      changed == SetState(noted, masked, cs)
  IN  IF "status" \in mask
      THEN [changed EXCEPT !.lastOn = (period = NIGHT /\ ~HasStandbyBit(onoff))]
      ELSE changed

-----------------------------------------------------------------------------
(* Voting.  A required device fails unless it is connected and votes well; *)
(* any other listed device fails when it votes badly.                      *)

\* Mutants: only required devices vote; a required device that is missing
\* is not counted; the same for stop votes.
FailedWeatherOnlyRequired(cs, req) == {d \in req : ~(cs[d].status.good /\ Connected(cs, d))}
FailedWeatherOnlyPresent(cs, req)  == {d \in Device : Present(cs, d) /\ ~cs[d].status.good}
FailedStopOnlyRequired(cs, req)    == {d \in req : ~(cs[d].status.move /\ Connected(cs, d))}

FailedWeather(cs, req) ==
  {d \in req : ~(cs[d].status.good /\ Connected(cs, d))}
    \cup {d \in Device \ req : Present(cs, d) /\ ~cs[d].status.good}

FailedStop(cs, req) ==
  {d \in req : ~(cs[d].status.move /\ Connected(cs, d))}
    \cup {d \in Device \ req : Present(cs, d) /\ ~cs[d].status.move}

\* Mutant: the last device to report takes the blame.
WeatherChangedBlamesLast(s, device, cs, req) ==
  LET blamed == IF device # NoDevice /\ Present(cs, device) /\ ~cs[device].status.good
                THEN [s EXCEPT !.badDevice = device] ELSE s
      good   == FailedWeather(cs, req) = {}
      voted  == SetWeatherState(blamed, good, cs)
  IN  IF good THEN [voted EXCEPT !.badDevice = NoDevice] ELSE voted

\* device is the name of the connection that caused the call.
WeatherChanged(s, device, cs, req) ==
  LET blamed == IF /\ device # NoDevice /\ Present(cs, device)
                   /\ ~cs[device].status.good /\ s.badDevice = NoDevice
                THEN [s EXCEPT !.badDevice = device] ELSE s
      good   == FailedWeather(cs, req) = {}
      voted  == SetWeatherState(blamed, good, cs)
  IN  IF good THEN [voted EXCEPT !.badDevice = NoDevice] ELSE voted

StopChanged(s, cs, req) == SetStopState(s, FailedStop(cs, req) # {}, cs)

DeviceReady(s, d, cs, req) == StopChanged(WeatherChanged(s, d, cs, req), cs, req)

-----------------------------------------------------------------------------
(* Handlers.                                                               *)

\* Every bounded resource; a conjunct of each action that may use one more.
WithinBounds(s) == Len(s.timers) <= MaxTimers /\ \A d \in Device : Len(s.queue[d]) <= MaxQueue

\* The daemon after initValues: no connection, period bits still zero, the
\* first idle pass to come.  reboot_on picks on or hard_off.
Init ==
  /\ conns = [d \in Device |-> [link |-> "none", status |-> NewStatus]]
  /\ \E onoff \in {"on", "hard_off"} :
       srv = [onoff |-> onoff, period |-> DAY, weather |-> FALSE, stop |-> FALSE,
              op |-> IF OpenSequence = <<>> /\ onoff = "on" THEN "closing" ELSE "none",
              last |-> NoDevice, failed |-> {}, timers |-> <<>>,
              queue |-> [d \in Device |-> <<>>], badDevice |-> NoDevice,
              lastOn |-> FALSE, switchedStandby |-> FALSE]
  /\ required \in RequiredSets
  /\ \E e \in SolarEvents : nextEvent = e[2]

\* A device connects and registers; a name on the list is refused.
Register(d) ==
  /\ ~Present(conns, d)
  /\ conns' = [conns EXCEPT ![d] = [link |-> "connected", status |-> NewStatus]]
  /\ UNCHANGED <<srv, required, nextEvent>>

\* A status line of device d: the word is stored, then the parts that
\* changed are distributed.
SetDeviceState(d, st) ==
  LET old == conns[d].status
      cs  == [conns EXCEPT ![d].status = st]
      s1  == IF ~old.ready /\ st.ready THEN DeviceReady(srv, d, cs, required) ELSE srv
      s2  == IF old.good # st.good THEN WeatherChanged(s1, d, cs, required) ELSE s1
      s3  == IF old.move # st.move THEN StopChanged(s2, cs, required) ELSE s2
      s4  == IF old.blockOpen # st.blockOpen \/ old.blockClose # st.blockClose
             THEN OpenCloseChanged(s3, cs) ELSE s3
  IN  /\ Connected(conns, d)
      /\ conns' = cs
      /\ srv' = s4
      /\ WithinBounds(srv')
      /\ UNCHANGED <<required, nextEvent>>

\* The link breaks or times out: CONN_DELETE, nothing is re-evaluated yet.
ConnectionError(d) ==
  /\ Connected(conns, d)
  /\ conns' = [conns EXCEPT ![d].link = "delete"]
  /\ UNCHANGED <<srv, required, nextEvent>>

\* Mutant: the entry is erased and nobody votes.
ConnectionRemovedSilently(d) ==
  /\ conns[d].link = "delete"
  /\ conns' = [conns EXCEPT ![d] = [link |-> "none", status |-> NewStatus]]
  /\ srv' = [srv EXCEPT !.queue[d] = <<>>]
  /\ UNCHANGED <<required, nextEvent>>

\* pollSuccess erases the entry, then connectionRemoved votes again.
ConnectionRemoved(d) ==
  LET cs == [conns EXCEPT ![d] = [link |-> "none", status |-> NewStatus]]
      s0 == [srv EXCEPT !.queue[d] = <<>>]
  IN  /\ conns[d].link = "delete"
      /\ conns' = cs
      /\ srv' = StopChanged(WeatherChanged(s0, d, cs, required), cs, required)
      /\ WithinBounds(srv')
      /\ UNCHANGED <<required, nextEvent>>

\* A client's connection is removed: the same votes, and no device to blame.
ClientRemoved ==
  /\ srv' = StopChanged(WeatherChanged(srv, NoDevice, conns, required), conns, required)
  /\ WithinBounds(srv')
  /\ UNCHANGED <<conns, required, nextEvent>>

\* The head of the command queue is sent and answered.
CommandDone(d) ==
  /\ Connected(conns, d)
  /\ srv.queue[d] # <<>>
  /\ srv' = [srv EXCEPT !.queue[d] = Tail(@)]
  /\ UNCHANGED <<conns, required, nextEvent>>

\* Mutant: the period before next_event_type, without the wrap to morning.
ChangeStateNoWrap(onoff) ==
  /\ srv' = MaskCentralState(srv, {"onoff", "status"}, onoff, nextEvent + 5, conns)
  /\ WithinBounds(srv')
  /\ UNCHANGED <<conns, required, nextEvent>>

\* on, standby, soft_off, off from a client or a device: the period is
\* recomputed from next_event_type.
ChangeState(onoff) ==
  /\ srv' = MaskCentralState(srv, {"onoff", "status"}, onoff, (nextEvent + 5) % 6, conns)
  /\ WithinBounds(srv')
  /\ UNCHANGED <<conns, required, nextEvent>>

\* day, evening, dusk, night, dawn, morning from a client.
ChangePeriod(p) ==
  /\ srv' = MaskCentralState(srv, {"status"}, "on", p, conns)
  /\ WithinBounds(srv')
  /\ UNCHANGED <<conns, required, nextEvent>>

ClientOpen ==
  /\ srv' = StartOpen(srv, conns)
  /\ WithinBounds(srv')
  /\ UNCHANGED <<conns, required, nextEvent>>

ClientClose ==
  /\ srv' = StartClose(srv, conns)
  /\ WithinBounds(srv')
  /\ UNCHANGED <<conns, required, nextEvent>>

\* Mutant: the idle pass writes the whole state word that next_event returned.
IdleWritesOnOff(e, morningOff, morningStandby) ==
  /\ nextEvent' = e[2]
  /\ srv' = MaskCentralState(srv, {"onoff", "status"}, "on", e[1], conns)
  /\ WithinBounds(srv')
  /\ UNCHANGED <<conns, required>>

\* idle once next_event_time has passed; morning_off and morning_standby are
\* writable values, so either may hold at any time.
Idle(e, morningOff, morningStandby) ==
  LET call    == e[1]
      differs == ~(srv.onoff = "on" /\ srv.weather /\ ~srv.stop /\ srv.period = call)
      cleared == IF e[2] = DUSK THEN [srv EXCEPT !.switchedStandby = FALSE] ELSE srv
      endOfNight == cleared.period = MORNING /\ call = DAY
      switched == IF endOfNight /\ morningOff
                  THEN MaskCentralState(cleared, {"onoff"}, "hard_off", DAY, conns)
                  ELSE IF endOfNight /\ morningStandby /\ cleared.onoff \in {"on", "standby"}
                       THEN MaskCentralState(cleared, {"onoff"}, "standby", DAY, conns)
                       ELSE cleared
  IN  /\ nextEvent' = e[2]
      /\ srv' = IF differs THEN MaskCentralState(switched, {"status"}, "on", call, conns) ELSE srv
      /\ WithinBounds(srv')
      /\ UNCHANGED <<conns, required>>

\* EVENT_CLOSE_TIMEOUT: timers all run 180 s, so the oldest fires first.
CloseTimeout ==
  LET s == [srv EXCEPT !.timers = Tail(@)]
  IN  /\ srv.timers # <<>>
      /\ srv' = IF srv.op = "closing"
                THEN DoClose([s EXCEPT !.failed = @ \cup {srv.last}], conns) ELSE s
      /\ WithinBounds(srv')
      /\ UNCHANGED <<conns, required, nextEvent>>

\* required_devices written by a client or re-read on SIGHUP; neither path
\* votes again.
SetRequired(R) ==
  /\ required' = R
  /\ UNCHANGED <<conns, srv, nextEvent>>

Next ==
  \/ \E d \in Device : Register(d) \/ ConnectionError(d) \/ ConnectionRemoved(d) \/ CommandDone(d)
  \/ \E d \in Device : \E st \in Statuses[d] : SetDeviceState(d, st)
  \/ ClientRemoved
  \/ \E onoff \in OnOff : ChangeState(onoff)
  \/ \E p \in ManualPeriods : ChangePeriod(p)
  \/ ClientOpen
  \/ ClientClose
  \/ \E e \in SolarEvents, mo \in BOOLEAN, ms \in BOOLEAN : Idle(e, mo, ms)
  \/ CloseTimeout
  \/ \E R \in RequiredSets : SetRequired(R)

Spec == Init /\ [][Next]_vars

-----------------------------------------------------------------------------
(* Properties.                                                             *)

\* While the system state says good weather, no connection on the list votes
\* for bad weather: every path that stores a vote runs weatherChanged.
NoBadVoteInGoodWeather ==
  srv.weather => \A d \in Device : Present(conns, d) => conns[d].status.good

\* While the stop bit is clear, no listed device forbids movement: the same
\* for stopChanged.
NoStopVoteWhileMoving ==
  ~srv.stop => \A d \in Device : Present(conns, d) => conns[d].status.move

\* Weather turns good only in a step after which every required device is
\* connected and votes good, whatever was required before.
GoodWeatherNeedsRequired ==
  [][~srv.weather /\ srv'.weather =>
       \A d \in required' : Connected(conns', d) /\ conns'[d].status.good]_vars

\* Losing a required device ends good weather in the step that erases its
\* connection (connectionRemoved).
RequiredLossEndsGoodWeather ==
  [][\A d \in required : Present(conns, d) /\ ~Present(conns', d) => ~srv'.weather]_vars

\* An opening is running only because the decision of stateChanged allows it,
\* or because a client asked for it: when the decision flips to closed an
\* opening in progress is abandoned in the same step.
OpeningFollowsDecision ==
  [][srv'.op = "opening" =>
       \/ ShouldOpen(srv')
       \/ srv.op = "opening" /\ ~ShouldOpen(srv)
       \/ ClientOpen]_vars

\* The system is never switched up - towards on - by the daemon itself: only
\* on, standby and soft_off commands do that, not the sun.
Rank(onoff) == CASE onoff = "hard_off" -> 0 [] onoff = "soft_off" -> 1
                 [] onoff = "standby" -> 2 [] onoff = "on" -> 3

OnlyCommandsRaise ==
  [][Rank(srv'.onoff) > Rank(srv.onoff) => \E onoff \in OnOff : ChangeState(onoff)]_vars

\* A device is blamed (bad_weather_device) only while the weather is bad, and
\* the first device blamed stays blamed until the weather is good again.
FirstReporterKept ==
  [][/\ srv'.badDevice # NoDevice => ~srv'.weather
     /\ srv.badDevice \notin {NoDevice, srv'.badDevice} => srv'.badDevice = NoDevice /\ srv'.weather]_vars

\* A "close" reaches a device's queue only when every later device of the
\* sequence is absent, does not block closing or has failed to close; an
\* "open" only when every earlier one is present and does not block opening.
Later(i)   == {OpenSequence[j] : j \in {k \in DOMAIN OpenSequence : k > i}}
Earlier(i) == {OpenSequence[j] : j \in {k \in DOMAIN OpenSequence : k < i}}

Queued(d, c) == Len(srv'.queue[d]) > Len(srv.queue[d]) /\ c = srv'.queue[d][Len(srv'.queue[d])]

SequenceRespected ==
  [][\A i \in DOMAIN OpenSequence :
       /\ Queued(OpenSequence[i], "close") =>
            \A e \in Later(i) :
              Present(conns', e) /\ conns'[e].status.blockClose => e \in srv'.failed
       /\ Queued(OpenSequence[i], "open") =>
            \A e \in Earlier(i) : Present(conns', e) /\ ~conns'[e].status.blockOpen]_vars

-----------------------------------------------------------------------------
(* What the descriptions of centrald's values say, and the code does not.  *)

\* open_close_timeout, "timeout for open/close device": a closing device has
\* a timer that will end the wait for it.
CloseHasTimeout == srv.op = "closing" /\ OpenSequence # <<>> => srv.timers # <<>>

\* close_failed, "device(s) failed to close": a device is listed there only
\* when the timer armed for that device has run out.
FailedByOwnTimeout ==
  [][\A d \in srv'.failed \ srv.failed : srv.timers # <<>> /\ Head(srv.timers) = d]_vars

\* weatherChanged, "This routine is also called periodically": good weather
\* does not outlive a required device that is never there.
SpecIdle ==
  /\ Spec
  /\ WF_vars(\E e \in SolarEvents, mo \in BOOLEAN, ms \in BOOLEAN : Idle(e, mo, ms))
  /\ WF_vars(\E d \in Device : ConnectionRemoved(d))

MissingRequiredIsNoticed ==
  \A d \in Device :
    []<>~(srv.weather /\ d \in required /\ conns[d].link = "none")
=============================================================================
