--------------------------- MODULE CentraldProofs ---------------------------
(***************************************************************************)
(* Theorems of Centrald for every set of devices, every open sequence and  *)
(* every value of the bounds: type correctness; that the weather and stop  *)
(* bits of the system never ignore a vote centrald has received; that an   *)
(* opening runs only while it is wanted, that devices close from the last  *)
(* to the first and open from the first to the last, and that the daemon   *)
(* by itself never switches the system up.                                 *)
(*                                                                         *)
(* The handlers are compositions of operators on the record srv, so the    *)
(* proofs follow the same composition: each operator has a lemma that      *)
(* bounds its type and says which parts of the state word it keeps.        *)
(*                                                                         *)
(* One handler may start, abandon and restart the sequence several times;  *)
(* Advances is what holds between its start and any point on its way.      *)
(***************************************************************************)
EXTENDS Centrald, WellFoundedInduction, TLAPS

-----------------------------------------------------------------------------
(* Smallest and largest members, the first devices the two loops stop at.  *)

LEMMA SmallestExists ==
  ASSUME NEW S \in SUBSET Nat, S # {}
  PROVE  SmallestOf(S) \in S /\ \A j \in S : SmallestOf(S) <= j
<1>1. \E x \in S : \A y \in S : ~ (<<y, x>> \in OpToRel(<, Nat))
  BY NatLessThanWellFounded, WFMin
<1>2. PICK x \in S : \A y \in S : ~ (<<y, x>> \in OpToRel(<, Nat))
  BY <1>1
<1>3. \A y \in S : x <= y
  <2> SUFFICES ASSUME NEW y \in S PROVE x <= y
    OBVIOUS
  <2>1. ~(y < x)
    BY <1>2 DEF OpToRel
  <2> QED
    BY <2>1
<1> QED
  BY <1>3 DEF SmallestOf

LEMMA LargestExists ==
  ASSUME NEW n \in Nat, NEW S \in SUBSET (1..n), S # {}
  PROVE  LargestOf(S) \in S /\ \A j \in S : j <= LargestOf(S)
<1> DEFINE T == {k \in Nat : n - k \in S}
<1>1. T \in SUBSET Nat /\ T # {}
  <2>1. PICK i \in S : TRUE
    OBVIOUS
  <2>2. n - (n - i) = i /\ n - i \in Nat
    BY <2>1
  <2> QED
    BY <2>1, <2>2
<1>2. SmallestOf(T) \in T /\ \A j \in T : SmallestOf(T) <= j
  BY <1>1, SmallestExists
<1> DEFINE m == n - SmallestOf(T)
<1>3. m \in S
  BY <1>2
<1>4. ASSUME NEW j \in S PROVE j <= m
  <2>1. n - j \in T
    <3>1. n - (n - j) = j /\ n - j \in Nat
      OBVIOUS
    <3> QED
      BY <3>1
  <2>2. SmallestOf(T) <= n - j /\ SmallestOf(T) \in Nat
    BY <2>1, <1>2
  <2> QED
    BY <2>2
<1> QED
  BY <1>3, <1>4 DEF LargestOf

-----------------------------------------------------------------------------
(* What each operator on srv keeps.                                        *)

Connections == [Device -> Conn]

\* The state word and the blamed device: what the sequence operators keep.
SameWord(s, t) ==
  /\ t.onoff = s.onoff /\ t.period = s.period
  /\ t.weather = s.weather /\ t.stop = s.stop
  /\ t.badDevice = s.badDevice

LEMMA SequenceStops ==
  ASSUME NEW s \in Server, NEW cs \in Connections
  PROVE  /\ OpenStops(cs) # {} => OpenSequence[SmallestOf(OpenStops(cs))] \in Device
         /\ CloseStops(s, cs) # {} => OpenSequence[LargestOf(CloseStops(s, cs))] \in Device
<1>1. OpenStops(cs) \in SUBSET Nat /\ OpenStops(cs) \subseteq DOMAIN OpenSequence
  BY SequenceAssumption DEF OpenStops
<1>2. CloseStops(s, cs) \in SUBSET (1..Len(OpenSequence)) /\ Len(OpenSequence) \in Nat
  BY SequenceAssumption DEF CloseStops
<1>3. \A i \in DOMAIN OpenSequence : OpenSequence[i] \in Device
  BY SequenceAssumption
<1>4. DOMAIN OpenSequence = 1..Len(OpenSequence)
  BY SequenceAssumption
<1> QED
  BY <1>1, <1>2, <1>3, <1>4, SmallestExists, LargestExists

LEMMA DoOpenKeeps ==
  ASSUME NEW s \in Server, NEW cs \in Connections
  PROVE  DoOpen(s, cs) \in Server /\ SameWord(s, DoOpen(s, cs))
<1>1. CASE OpenStops(cs) = {}
  BY <1>1 DEF DoOpen, UpdateOpenCloseClear, Server, SameWord
<1>2. CASE OpenStops(cs) # {}
  <2> DEFINE d == OpenSequence[SmallestOf(OpenStops(cs))]
  <2>1. d \in Device
    BY <1>2, SequenceStops
  <2> HIDE DEF d
  <2>2. Append(s.queue[d], "open") \in Seq({"open", "close"})
    BY <2>1 DEF Server
  <2>3. [s EXCEPT !.queue[d] = Append(@, "open"), !.last = d] \in Server
    BY <2>1, <2>2 DEF Server
  <2>4. DoOpen(s, cs) \in {[s EXCEPT !.op = "none"],
                           [s EXCEPT !.queue[d] = Append(@, "open"), !.last = d]}
    BY <1>2 DEF DoOpen, d
  <2>5. /\ [s EXCEPT !.op = "none"] \in Server
        /\ SameWord(s, [s EXCEPT !.op = "none"])
    BY DEF Server, SameWord
  <2>6. SameWord(s, [s EXCEPT !.queue[d] = Append(@, "open"), !.last = d])
    BY DEF Server, SameWord
  <2> QED
    BY <2>3, <2>4, <2>5, <2>6
<1> QED
  BY <1>1, <1>2

LEMMA DoCloseKeeps ==
  ASSUME NEW s \in Server, NEW cs \in Connections
  PROVE  DoClose(s, cs) \in Server /\ SameWord(s, DoClose(s, cs))
<1>1. CASE OpenSequence = <<>>
  BY <1>1 DEF DoClose, SameWord
<1>2. CASE OpenSequence # <<>> /\ CloseStops(s, cs) = {}
  BY <1>2 DEF DoClose, UpdateOpenCloseClear, Server, SameWord
<1>3. CASE OpenSequence # <<>> /\ CloseStops(s, cs) # {}
  <2> DEFINE d == OpenSequence[LargestOf(CloseStops(s, cs))]
             t == IF s.last = d THEN s.timers ELSE Append(s.timers, d)
  <2>1. d \in Device
    BY <1>3, SequenceStops
  <2>2. DoClose(s, cs) = [s EXCEPT !.queue[d] = Append(@, "close"), !.last = d, !.timers = t]
    BY <1>3 DEF DoClose
  <2> HIDE DEF d
  <2>3. t \in Seq(Device)
    <3>1. s.timers \in Seq(Device)
      BY DEF Server
    <3> QED
      BY <2>1, <3>1
  <2> HIDE DEF t
  <2>4. Append(s.queue[d], "close") \in Seq({"open", "close"})
    BY <2>1 DEF Server
  <2>5. DoClose(s, cs) \in Server
    <3>1. [s EXCEPT !.queue[d] = Append(@, "close")] \in Server
      BY <2>1, <2>4 DEF Server
    <3>2. \A r \in Server : [r EXCEPT !.last = d] \in Server
      BY <2>1 DEF Server
    <3>3. \A r \in Server : [r EXCEPT !.timers = t] \in Server
      BY <2>3 DEF Server
    <3> QED
      BY <3>1, <3>2, <3>3, <2>2
  <2>6. SameWord(s, DoClose(s, cs))
    BY <2>2 DEF Server, SameWord
  <2> QED
    BY <2>5, <2>6
<1> QED
  BY <1>1, <1>2, <1>3

LEMMA StateChangedKeeps ==
  ASSUME NEW s \in Server, NEW cs \in Connections
  PROVE  /\ StartOpen(s, cs) \in Server /\ SameWord(s, StartOpen(s, cs))
         /\ StartClose(s, cs) \in Server /\ SameWord(s, StartClose(s, cs))
         /\ StateChanged(s, cs) \in Server /\ SameWord(s, StateChanged(s, cs))
         /\ OpenCloseChanged(s, cs) \in Server /\ SameWord(s, OpenCloseChanged(s, cs))
<1>1. /\ [s EXCEPT !.op = "opening"] \in Server /\ SameWord(s, [s EXCEPT !.op = "opening"])
      /\ [s EXCEPT !.op = "closing"] \in Server /\ SameWord(s, [s EXCEPT !.op = "closing"])
  BY DEF Server, SameWord
<1>2. StartOpen(s, cs) \in Server /\ SameWord(s, StartOpen(s, cs))
  BY <1>1, DoOpenKeeps DEF StartOpen, SameWord
<1>3. StartClose(s, cs) \in Server /\ SameWord(s, StartClose(s, cs))
  BY <1>1, DoCloseKeeps DEF StartClose, SameWord
<1>4. StateChanged(s, cs) \in Server /\ SameWord(s, StateChanged(s, cs))
  BY <1>2, <1>3 DEF StateChanged
<1>5. OpenCloseChanged(s, cs) \in Server /\ SameWord(s, OpenCloseChanged(s, cs))
  <2>1. SameWord(s, s)
    BY DEF SameWord
  <2>2. OpenCloseChanged(s, cs) \in {DoOpen(s, cs), DoClose(s, cs), s}
    BY DEF OpenCloseChanged
  <2> QED
    BY <2>1, <2>2, DoOpenKeeps, DoCloseKeeps
<1> QED
  BY <1>2, <1>3, <1>4, <1>5

LEMMA SetStateKeeps ==
  ASSUME NEW s \in Server, NEW new \in Server, NEW cs \in Connections
  PROVE  SetState(s, new, cs) \in Server /\ SameWord(new, SetState(s, new, cs))
BY StateChangedKeeps DEF SetState, SameWord

LEMMA MaskCentralStateKeeps ==
  ASSUME NEW s \in Server, NEW cs \in Connections, NEW mask,
         NEW onoff \in OnOff, NEW period \in Period
  PROVE  LET t == MaskCentralState(s, mask, onoff, period, cs)
         IN  /\ t \in Server
             /\ t.weather = s.weather /\ t.stop = s.stop /\ t.badDevice = s.badDevice
<1> DEFINE noted  == [s EXCEPT !.switchedStandby =
                       @ \/ (~HasStandbyBit(s.onoff) /\ s.period \in {DUSK, NIGHT, DAWN})]
           on     == IF "onoff" \in mask THEN onoff ELSE noted.onoff
           per    == IF "status" \in mask THEN period ELSE noted.period
           masked == [noted EXCEPT !.onoff = on, !.period = per]
           changed == SetState(noted, masked, cs)
           lastOn == period = NIGHT /\ ~HasStandbyBit(onoff)
<1>1. noted \in Server /\ noted.weather = s.weather /\ noted.stop = s.stop
      /\ noted.badDevice = s.badDevice
  BY DEF Server
<1> HIDE DEF noted
<1>2. on \in OnOff /\ per \in Period
  BY <1>1 DEF Server
<1>a. masked = [noted EXCEPT !.onoff  = IF "onoff"  \in mask THEN onoff  ELSE @,
                             !.period = IF "status" \in mask THEN period ELSE @]
  BY <1>1 DEF Server
<1> HIDE DEF on, per
<1>3. /\ masked \in Server /\ masked.weather = noted.weather /\ masked.stop = noted.stop
      /\ masked.badDevice = noted.badDevice
  BY <1>1, <1>2 DEF Server
<1> HIDE DEF masked
<1>4. /\ changed \in Server /\ changed.weather = s.weather /\ changed.stop = s.stop
      /\ changed.badDevice = s.badDevice
  BY <1>1, <1>3, SetStateKeeps DEF SameWord
<1>5. MaskCentralState(s, mask, onoff, period, cs)
        \in {[changed EXCEPT !.lastOn = lastOn], changed}
  BY <1>a DEF MaskCentralState, noted
<1> HIDE DEF changed
<1>6. lastOn \in BOOLEAN
  OBVIOUS
<1> HIDE DEF lastOn
<1>7. LET t == [changed EXCEPT !.lastOn = lastOn]
      IN  t \in Server /\ t.weather = changed.weather /\ t.stop = changed.stop
          /\ t.badDevice = changed.badDevice
  BY <1>4, <1>6 DEF Server
<1> QED
  BY <1>4, <1>5, <1>7

-----------------------------------------------------------------------------
(* What a vote decides.                                                    *)

AllGood(cs)     == \A d \in Device : Present(cs, d) => cs[d].status.good
AllMove(cs)     == \A d \in Device : Present(cs, d) => cs[d].status.move
RequiredIn(cs, req) == \A d \in req : Connected(cs, d) /\ cs[d].status.good

LEMMA NobodyFailed ==
  ASSUME NEW cs \in Connections, NEW req \in SUBSET Device
  PROVE  /\ FailedWeather(cs, req) = {} => AllGood(cs) /\ RequiredIn(cs, req)
         /\ FailedStop(cs, req) = {} => AllMove(cs)
BY DEF FailedWeather, FailedStop, AllGood, AllMove, RequiredIn

LEMMA StopChangedVotes ==
  ASSUME NEW s \in Server, NEW cs \in Connections, NEW req \in SUBSET Device
  PROVE  LET t == StopChanged(s, cs, req)
         IN  /\ t \in Server
             /\ t.stop = (FailedStop(cs, req) # {})
             /\ t.weather = s.weather /\ t.badDevice = s.badDevice
<1> DEFINE stop == FailedStop(cs, req) # {}
           new  == [s EXCEPT !.stop = stop]
<1>1. stop \in BOOLEAN
  OBVIOUS
<1>2. StopChanged(s, cs, req) = SetState(s, new, cs)
  BY DEF StopChanged, SetStopState
<1> HIDE DEF stop
<1>3. new \in Server /\ new.stop = stop /\ new.weather = s.weather /\ new.badDevice = s.badDevice
  BY <1>1 DEF Server
<1> HIDE DEF new
<1>4. SetState(s, new, cs) \in Server /\ SameWord(new, SetState(s, new, cs))
  BY <1>3, SetStateKeeps
<1> QED
  BY <1>2, <1>3, <1>4 DEF SameWord, stop

LEMMA WeatherChangedVotes ==
  ASSUME NEW s \in Server, NEW device \in Device \cup {NoDevice},
         NEW cs \in Connections, NEW req \in SUBSET Device
  PROVE  LET t == WeatherChanged(s, device, cs, req)
         IN  /\ t \in Server
             /\ t.weather = (FailedWeather(cs, req) = {})
             /\ t.stop = s.stop
             /\ t.weather => t.badDevice = NoDevice
             /\ ~t.weather /\ s.badDevice # NoDevice => t.badDevice = s.badDevice
<1> DEFINE blamed == IF /\ device # NoDevice /\ Present(cs, device)
                        /\ ~cs[device].status.good /\ s.badDevice = NoDevice
                     THEN [s EXCEPT !.badDevice = device] ELSE s
           good   == FailedWeather(cs, req) = {}
           new    == [blamed EXCEPT !.weather = good]
           voted  == SetState(blamed, new, cs)
<1>1. /\ blamed \in Server /\ blamed.stop = s.stop
      /\ s.badDevice # NoDevice => blamed.badDevice = s.badDevice
  BY DEF Server
<1>2. WeatherChanged(s, device, cs, req)
        = IF good THEN [voted EXCEPT !.badDevice = NoDevice] ELSE voted
  BY DEF WeatherChanged, SetWeatherState
<1> HIDE DEF blamed
<1>3. good \in BOOLEAN
  OBVIOUS
<1> HIDE DEF good
<1>4. /\ new \in Server /\ new.weather = good /\ new.stop = blamed.stop
      /\ new.badDevice = blamed.badDevice
  BY <1>1, <1>3 DEF Server
<1> HIDE DEF new
<1>5. /\ voted \in Server /\ voted.weather = good /\ voted.stop = s.stop
      /\ voted.badDevice = blamed.badDevice
  BY <1>1, <1>4, SetStateKeeps DEF SameWord
<1> HIDE DEF voted
<1>6. LET t == [voted EXCEPT !.badDevice = NoDevice]
      IN  t \in Server /\ t.weather = good /\ t.stop = s.stop /\ t.badDevice = NoDevice
  BY <1>5 DEF Server
<1> QED
  BY <1>1, <1>2, <1>3, <1>5, <1>6 DEF good

-----------------------------------------------------------------------------
(* The inductive invariant.                                                *)

\* A device is blamed only in bad weather: FirstReporterKept needs it, and
\* it is not part of the properties the runs check as invariants.
BlameInBadWeather == srv.badDevice # NoDevice => ~srv.weather

IInv == TypeOK /\ NoBadVoteInGoodWeather /\ NoStopVoteWhileMoving /\ BlameInBadWeather

\* The three action properties, as one step of them.
GoodStep  == ~srv.weather /\ srv'.weather => RequiredIn(conns', required')
LossStep  == \A d \in required : Present(conns, d) /\ ~Present(conns', d) => ~srv'.weather
BlameStep ==
  /\ srv'.badDevice # NoDevice => ~srv'.weather
  /\ srv.badDevice \notin {NoDevice, srv'.badDevice} => srv'.badDevice = NoDevice /\ srv'.weather

StepOK == IInv' /\ GoodStep /\ LossStep /\ BlameStep

LEMMA InitIInv == Init => IInv
<1> SUFFICES ASSUME Init PROVE IInv
  OBVIOUS
<1>1. conns \in Connections /\ \A d \in Device : ~Present(conns, d)
  BY DEF Init, Connections, Conn, Status, NewStatus, Present
<1>2. PICK onoff \in {"on", "hard_off"} :
        srv = [onoff |-> onoff, period |-> DAY, weather |-> FALSE, stop |-> FALSE,
              op |-> IF OpenSequence = <<>> /\ onoff = "on" THEN "closing" ELSE "none",
              last |-> NoDevice, failed |-> {}, timers |-> <<>>,
              queue |-> [d \in Device |-> <<>>], badDevice |-> NoDevice,
              lastOn |-> FALSE, switchedStandby |-> FALSE]
  BY DEF Init
<1>3. srv \in Server
  BY <1>2 DEF Server, OnOff, Period, DAY, MORNING
<1>4. required \in SUBSET Device
  BY RequiredAssumption DEF Init
<1>5. nextEvent \in Period
  BY SolarAssumption DEF Init
<1> QED
  BY <1>1, <1>2, <1>3, <1>4, <1>5
  DEF IInv, TypeOK, NoBadVoteInGoodWeather, NoStopVoteWhileMoving, BlameInBadWeather, Connections

\* A step that changes neither the connections nor the bits the votes decide.
LEMMA QuietStep ==
  ASSUME IInv, srv' \in Server, conns' = conns, required' \in SUBSET Device, nextEvent' \in Period,
         srv'.weather = srv.weather, srv'.stop = srv.stop, srv'.badDevice = srv.badDevice
  PROVE  StepOK
BY DEF IInv, TypeOK, NoBadVoteInGoodWeather, NoStopVoteWhileMoving, BlameInBadWeather,
       StepOK, GoodStep, LossStep, BlameStep, Present

\* A step that ends in both votes over the new connections.
LEMMA VotingStep ==
  ASSUME IInv, NEW s \in Server, NEW device \in Device \cup {NoDevice},
         conns' \in Connections, UNCHANGED <<required, nextEvent>>,
         s.badDevice = srv.badDevice,
         srv' = StopChanged(WeatherChanged(s, device, conns', required), conns', required),
         \A d \in required : Present(conns, d) /\ ~Present(conns', d) => ~Connected(conns', d)
  PROVE  StepOK
<1> DEFINE w == WeatherChanged(s, device, conns', required)
<1>1. required \in SUBSET Device
  BY DEF IInv, TypeOK
<1>2. /\ w \in Server /\ w.weather = (FailedWeather(conns', required) = {})
      /\ w.weather => w.badDevice = NoDevice
      /\ ~w.weather /\ s.badDevice # NoDevice => w.badDevice = s.badDevice
  BY <1>1, WeatherChangedVotes
<1> HIDE DEF w
<1>3. /\ srv' \in Server /\ srv'.stop = (FailedStop(conns', required) # {})
      /\ srv'.weather = w.weather /\ srv'.badDevice = w.badDevice
  BY <1>1, <1>2, StopChangedVotes DEF w
<1>4. /\ srv'.weather => AllGood(conns') /\ RequiredIn(conns', required)
      /\ ~srv'.stop => AllMove(conns')
  BY <1>1, <1>2, <1>3, NobodyFailed
<1>5. IInv'
  BY <1>2, <1>3, <1>4
  DEF IInv, TypeOK, NoBadVoteInGoodWeather, NoStopVoteWhileMoving, BlameInBadWeather,
      AllGood, AllMove, Connections
<1>6. GoodStep
  BY <1>4 DEF GoodStep
<1>7. LossStep
  BY <1>4 DEF LossStep, RequiredIn
<1>8. BlameStep
  BY <1>2, <1>3 DEF BlameStep
<1> QED
  BY <1>5, <1>6, <1>7, <1>8 DEF StepOK

-----------------------------------------------------------------------------
(* One lemma per action, then the theorems.                                *)

LEMMA SetDeviceStateStep ==
  ASSUME IInv, NEW d \in Device, NEW st \in Statuses[d], SetDeviceState(d, st)
  PROVE  StepOK
<1> DEFINE old == conns[d].status
           cs == [conns EXCEPT ![d].status = st]
           s1 == IF ~old.ready /\ st.ready THEN DeviceReady(srv, d, cs, required) ELSE srv
           s2 == IF old.good # st.good THEN WeatherChanged(s1, d, cs, required) ELSE s1
           s3 == IF old.move # st.move THEN StopChanged(s2, cs, required) ELSE s2
           s4 == IF old.blockOpen # st.blockOpen \/ old.blockClose # st.blockClose
                 THEN OpenCloseChanged(s3, cs) ELSE s3
           noWeather == FailedWeather(cs, required) = {}
           noStop    == FailedStop(cs, required) = {}
<1>1. /\ srv \in Server /\ conns \in Connections /\ required \in SUBSET Device
      /\ nextEvent \in Period /\ d \in Device \cup {NoDevice}
  BY DEF IInv, TypeOK, Connections
<1>2. conns' = cs /\ srv' = s4 /\ required' = required /\ nextEvent' = nextEvent
  BY DEF SetDeviceState
<1>3. st \in Status
  BY StatusAssumption
<1>4. /\ cs \in Connections
      /\ \A e \in Device : Present(cs, e) <=> Present(conns, e)
      /\ \A e \in Device : e # d => cs[e].status = conns[e].status
      /\ cs[d].status = st
  BY <1>1, <1>3 DEF Connections, Conn, Present
<1> HIDE DEF cs
<1>5. /\ DeviceReady(srv, d, cs, required) \in Server
      /\ DeviceReady(srv, d, cs, required).weather = noWeather
      /\ DeviceReady(srv, d, cs, required).stop = ~noStop
      /\ noWeather => DeviceReady(srv, d, cs, required).badDevice = NoDevice
      /\ ~noWeather /\ srv.badDevice # NoDevice
           => DeviceReady(srv, d, cs, required).badDevice = srv.badDevice
  <2> DEFINE w == WeatherChanged(srv, d, cs, required)
             r == StopChanged(w, cs, required)
  <2>1. /\ w \in Server /\ w.weather = noWeather
        /\ w.weather => w.badDevice = NoDevice
        /\ ~w.weather /\ srv.badDevice # NoDevice => w.badDevice = srv.badDevice
    BY <1>1, <1>4, WeatherChangedVotes
  <2>2. DeviceReady(srv, d, cs, required) = r
    BY DEF DeviceReady
  <2> HIDE DEF w
  <2>3. r \in Server /\ r.stop = ~noStop /\ r.weather = w.weather /\ r.badDevice = w.badDevice
    BY <1>1, <1>4, <2>1, StopChangedVotes
  <2> QED
    BY <2>1, <2>2, <2>3
<1>6. /\ s1 \in Server
      /\ s1.weather \in {srv.weather, noWeather} /\ s1.stop \in {srv.stop, ~noStop}
      /\ s1.badDevice # NoDevice => ~s1.weather
      /\ srv.badDevice # NoDevice /\ s1.badDevice # srv.badDevice
           => noWeather /\ s1.badDevice = NoDevice /\ s1.weather
  BY <1>1, <1>5 DEF IInv, BlameInBadWeather
<1> HIDE DEF s1
<1>7. /\ s2 \in Server
      /\ s2.weather \in {srv.weather, noWeather} /\ s2.stop \in {srv.stop, ~noStop}
      /\ old.good # st.good => s2.weather = noWeather
      /\ s2.badDevice # NoDevice => ~s2.weather
      /\ srv.badDevice # NoDevice /\ s2.badDevice # srv.badDevice
           => s2.badDevice = NoDevice /\ s2.weather
  <2>1. CASE old.good # st.good
    <3>1. LET w == WeatherChanged(s1, d, cs, required)
          IN  /\ w \in Server /\ w.weather = noWeather /\ w.stop = s1.stop
              /\ w.weather => w.badDevice = NoDevice
              /\ ~w.weather /\ s1.badDevice # NoDevice => w.badDevice = s1.badDevice
      BY <1>1, <1>4, <1>6, WeatherChangedVotes
    <3> QED
      BY <2>1, <3>1, <1>6
  <2>2. CASE old.good = st.good
    BY <2>2, <1>6
  <2> QED
    BY <2>1, <2>2
<1> HIDE DEF s2
<1>8. /\ s3 \in Server
      /\ s3.weather = s2.weather /\ s3.badDevice = s2.badDevice
      /\ s3.stop \in {srv.stop, ~noStop}
      /\ old.move # st.move => s3.stop = ~noStop
  BY <1>1, <1>4, <1>7, StopChangedVotes
<1> HIDE DEF s3
<1>9. s4 \in Server /\ s4.weather = s3.weather /\ s4.stop = s3.stop /\ s4.badDevice = s3.badDevice
  BY <1>4, <1>8, StateChangedKeeps DEF SameWord
<1> HIDE DEF s4
<1>10. srv'.weather => AllGood(cs)
  <2>1. CASE srv'.weather = noWeather
    BY <2>1, <1>1, <1>4, NobodyFailed
  <2>2. CASE srv'.weather # noWeather
    <3>1. old.good = st.good /\ srv'.weather = srv.weather
      BY <2>2, <1>2, <1>7, <1>8, <1>9
    <3> QED
      BY <3>1, <1>4 DEF IInv, NoBadVoteInGoodWeather, AllGood
  <2> QED
    BY <2>1, <2>2
<1>11. ~srv'.stop => AllMove(cs)
  <2>1. CASE srv'.stop = ~noStop
    BY <2>1, <1>1, <1>4, NobodyFailed
  <2>2. CASE srv'.stop # ~noStop
    <3>1. old.move = st.move /\ srv'.stop = srv.stop
      BY <2>2, <1>2, <1>8, <1>9
    <3> QED
      BY <3>1, <1>4 DEF IInv, NoStopVoteWhileMoving, AllMove
  <2> QED
    BY <2>1, <2>2
<1>12. IInv'
  BY <1>1, <1>2, <1>4, <1>7, <1>8, <1>9, <1>10, <1>11
  DEF IInv, TypeOK, NoBadVoteInGoodWeather, NoStopVoteWhileMoving, BlameInBadWeather,
      AllGood, AllMove, Connections
<1>13. GoodStep
  <2>1. ~srv.weather /\ srv'.weather => noWeather
    BY <1>2, <1>7, <1>8, <1>9
  <2> QED
    BY <2>1, <1>1, <1>2, <1>4, NobodyFailed DEF GoodStep
<1>14. LossStep
  BY <1>1, <1>2, <1>4 DEF LossStep
<1>15. BlameStep
  BY <1>2, <1>7, <1>8, <1>9 DEF BlameStep
<1> QED
  BY <1>12, <1>13, <1>14, <1>15 DEF StepOK

LEMMA ConnectionStep ==
  ASSUME IInv, NEW d \in Device, Register(d) \/ ConnectionError(d)
  PROVE  StepOK
<1>1. conns \in Connections /\ srv' = srv /\ required' = required /\ nextEvent' = nextEvent
  BY DEF IInv, TypeOK, Register, ConnectionError, Connections
<1>2. conns' \in Connections
  <2>1. [link |-> "connected", status |-> NewStatus] \in Conn
    BY DEF Conn, NewStatus, Status
  <2>2. CASE Register(d)
    BY <1>1, <2>1, <2>2 DEF Register, Connections
  <2>3. CASE ConnectionError(d)
    <3>1. [conns[d] EXCEPT !.link = "delete"] \in Conn
      BY <1>1 DEF Connections, Conn
    <3>2. conns' = [conns EXCEPT ![d] = [conns[d] EXCEPT !.link = "delete"]]
      BY <2>3 DEF ConnectionError
    <3> QED
      BY <1>1, <3>1, <3>2 DEF Connections
  <2> QED
    BY <2>2, <2>3
<1>3. \A e \in Device : Present(conns, e) => Present(conns', e)
  BY <1>1 DEF Register, ConnectionError, Connections, Conn, Present, Connected
<1>4. \A e \in Device :
        \/ conns'[e].status = NewStatus
        \/ Present(conns, e) /\ conns'[e].status = conns[e].status
        \/ ~Present(conns', e)
  BY <1>1 DEF Register, ConnectionError, Connections, Conn, Present, Connected
<1>5. IInv'
  BY <1>1, <1>2, <1>4
  DEF IInv, TypeOK, NoBadVoteInGoodWeather, NoStopVoteWhileMoving, BlameInBadWeather, Connections, NewStatus
<1> QED
  BY <1>1, <1>3, <1>5 DEF IInv, TypeOK, BlameInBadWeather, StepOK, GoodStep, LossStep, BlameStep

LEMMA RemovalStep ==
  ASSUME IInv, ClientRemoved \/ \E d \in Device : ConnectionRemoved(d)
  PROVE  StepOK
<1>1. srv \in Server /\ conns \in Connections
  BY DEF IInv, TypeOK, Connections
<1>2. CASE ClientRemoved
  <2>1. conns' = conns /\ UNCHANGED <<required, nextEvent>>
        /\ srv' = StopChanged(WeatherChanged(srv, NoDevice, conns', required), conns', required)
    BY <1>2 DEF ClientRemoved
  <2> QED
    BY <1>1, <2>1, VotingStep
<1>3. ASSUME NEW d \in Device, ConnectionRemoved(d) PROVE StepOK
  <2> DEFINE s0 == [srv EXCEPT !.queue[d] = <<>>]
  <2>1. s0 \in Server /\ s0.badDevice = srv.badDevice
    <3>1. [srv.queue EXCEPT ![d] = <<>>] \in [Device -> Seq({"open", "close"})]
      <4>1. <<>> \in Seq({"open", "close"}) /\ srv.queue \in [Device -> Seq({"open", "close"})]
        BY <1>1 DEF Server
      <4> QED
        BY <4>1
    <3>2. s0 = [srv EXCEPT !.queue = [srv.queue EXCEPT ![d] = <<>>]]
      OBVIOUS
    <3> QED
      BY <1>1, <3>1, <3>2 DEF Server
  <2> HIDE DEF s0
  <2>2. /\ conns' = [conns EXCEPT ![d] = [link |-> "none", status |-> NewStatus]]
        /\ srv' = StopChanged(WeatherChanged(s0, d, conns', required), conns', required)
        /\ UNCHANGED <<required, nextEvent>>
    BY <1>3 DEF ConnectionRemoved, s0
  <2>3. conns' \in Connections
    BY <1>1, <2>2 DEF Connections, Conn, NewStatus, Status
  <2>4. \A e \in Device : ~Present(conns', e) => ~Connected(conns', e)
    BY DEF Present, Connected
  <2>5. required \in SUBSET Device
    BY DEF IInv, TypeOK
  <2> QED
    BY <2>1, <2>2, <2>3, <2>4, <2>5, VotingStep
<1> QED
  BY <1>2, <1>3

LEMMA CommandDoneStep ==
  ASSUME IInv, NEW d \in Device, CommandDone(d)
  PROVE  StepOK
<1>1. srv \in Server /\ srv.queue \in [Device -> Seq({"open", "close"})] /\ srv.queue[d] # <<>>
  BY DEF IInv, TypeOK, Server, CommandDone
<1>2. [srv.queue EXCEPT ![d] = Tail(@)] \in [Device -> Seq({"open", "close"})]
  <2>1. Tail(srv.queue[d]) \in Seq({"open", "close"})
    BY <1>1
  <2> QED
    BY <1>1, <2>1
<1>3. srv' = [srv EXCEPT !.queue = [srv.queue EXCEPT ![d] = Tail(@)]]
  BY DEF CommandDone
<1>4. srv' \in Server /\ srv'.weather = srv.weather /\ srv'.stop = srv.stop
      /\ srv'.badDevice = srv.badDevice
  BY <1>1, <1>2, <1>3 DEF Server
<1> QED
  BY <1>4, QuietStep DEF IInv, TypeOK, CommandDone

LEMMA SwitchStep ==
  ASSUME IInv, \/ \E onoff \in OnOff : ChangeState(onoff)
               \/ \E p \in ManualPeriods : ChangePeriod(p)
               \/ ClientOpen
               \/ ClientClose
  PROVE  StepOK
<1>1. srv \in Server /\ conns \in Connections /\ required \in SUBSET Device /\ nextEvent \in Period
  BY DEF IInv, TypeOK, Connections
<1>2. (nextEvent + 5) % 6 \in Period /\ "on" \in OnOff
  BY <1>1 DEF Period, DAY, MORNING, OnOff
<1>3. ASSUME NEW onoff \in OnOff, ChangeState(onoff) PROVE StepOK
  BY <1>1, <1>2, <1>3, MaskCentralStateKeeps, QuietStep DEF ChangeState
<1>4. ASSUME NEW p \in ManualPeriods, ChangePeriod(p) PROVE StepOK
  <2>1. p \in Period
    BY PeriodAssumption
  <2> QED
    BY <1>1, <1>2, <1>4, <2>1, MaskCentralStateKeeps, QuietStep DEF ChangePeriod
<1>5. CASE ClientOpen
  BY <1>1, <1>5, StateChangedKeeps, QuietStep DEF ClientOpen, SameWord
<1>6. CASE ClientClose
  BY <1>1, <1>6, StateChangedKeeps, QuietStep DEF ClientClose, SameWord
<1> QED
  BY <1>3, <1>4, <1>5, <1>6

LEMMA IdleStep ==
  ASSUME IInv, NEW e \in SolarEvents, NEW mo \in BOOLEAN, NEW ms \in BOOLEAN, Idle(e, mo, ms)
  PROVE  StepOK
<1> DEFINE Same(s) == /\ s \in Server /\ s.weather = srv.weather /\ s.stop = srv.stop
                      /\ s.badDevice = srv.badDevice
           cleared == IF e[2] = DUSK THEN [srv EXCEPT !.switchedStandby = FALSE] ELSE srv
           off     == MaskCentralState(cleared, {"onoff"}, "hard_off", DAY, conns)
           standby == MaskCentralState(cleared, {"onoff"}, "standby", DAY, conns)
<1>1. srv \in Server /\ conns \in Connections /\ required \in SUBSET Device
  BY DEF IInv, TypeOK, Connections
<1>2. e[1] \in Period /\ e[2] \in Period /\ DAY \in Period /\ OnOff = {"on", "standby", "soft_off", "hard_off"}
  BY SolarAssumption DEF Period, DAY, MORNING, OnOff
<1>3. Same(cleared)
  BY <1>1 DEF Server
<1>4. PICK switched \in {off, standby, cleared} :
        srv' \in {MaskCentralState(switched, {"status"}, "on", e[1], conns), srv}
  BY DEF Idle
<1> HIDE DEF cleared
<1>5. Same(off) /\ Same(standby)
  BY <1>1, <1>2, <1>3, MaskCentralStateKeeps
<1>6. Same(switched)
  BY <1>3, <1>4, <1>5
<1> HIDE DEF off, standby
<1>7. Same(MaskCentralState(switched, {"status"}, "on", e[1], conns))
  BY <1>1, <1>2, <1>6, MaskCentralStateKeeps
<1>8. Same(srv')
  BY <1>1, <1>4, <1>7
<1> QED
  BY <1>1, <1>2, <1>8, QuietStep DEF Idle

LEMMA CloseTimeoutStep ==
  ASSUME IInv, CloseTimeout
  PROVE  StepOK
<1> DEFINE s == [srv EXCEPT !.timers = Tail(@)]
           f == [s EXCEPT !.failed = @ \cup {srv.last}]
<1>1. srv \in Server /\ conns \in Connections /\ srv.timers # <<>>
  BY DEF IInv, TypeOK, Connections, CloseTimeout
<1>2. s \in Server /\ SameWord(srv, s)
  <2>1. srv.timers \in Seq(Device)
    BY <1>1 DEF Server
  <2>2. Tail(srv.timers) \in Seq(Device)
    BY <1>1, <2>1
  <2> QED
    BY <1>1, <2>2 DEF Server, SameWord
<1>3. srv' = IF srv.op = "closing" THEN DoClose(f, conns) ELSE s
  BY DEF CloseTimeout
<1> HIDE DEF s
<1>4. srv.last \in Device \cup {NoDevice}
  BY <1>1 DEF Server
<1>5. f \in Server /\ SameWord(s, f)
  BY <1>2, <1>4 DEF Server, SameWord
<1> HIDE DEF f
<1>6. DoClose(f, conns) \in Server /\ SameWord(f, DoClose(f, conns))
  BY <1>1, <1>5, DoCloseKeeps
<1>7. srv' \in Server /\ SameWord(srv, srv')
  BY <1>2, <1>3, <1>5, <1>6 DEF SameWord
<1> QED
  BY <1>7, QuietStep DEF CloseTimeout, SameWord, IInv, TypeOK

\* Every step preserves the inductive invariant and obeys the three action
\* properties.
LEMMA NextStep == IInv /\ [Next]_vars => StepOK
<1> SUFFICES ASSUME IInv, [Next]_vars PROVE StepOK
  OBVIOUS
<1>1. CASE UNCHANGED vars
  BY <1>1, QuietStep DEF IInv, TypeOK, vars
<1>2. ASSUME NEW d \in Device, Register(d) \/ ConnectionError(d) PROVE StepOK
  BY <1>2, ConnectionStep
<1>3. ASSUME NEW d \in Device, CommandDone(d) PROVE StepOK
  BY <1>3, CommandDoneStep
<1>4. ASSUME NEW d \in Device, NEW st \in Statuses[d], SetDeviceState(d, st) PROVE StepOK
  BY <1>4, SetDeviceStateStep
<1>5. ASSUME ClientRemoved \/ \E d \in Device : ConnectionRemoved(d) PROVE StepOK
  BY <1>5, RemovalStep
<1>6. ASSUME NEW e \in SolarEvents, NEW mo \in BOOLEAN, NEW ms \in BOOLEAN, Idle(e, mo, ms)
      PROVE  StepOK
  BY <1>6, IdleStep
<1>7. CASE CloseTimeout
  BY <1>7, CloseTimeoutStep
<1>8. ASSUME NEW R \in RequiredSets, SetRequired(R) PROVE StepOK
  <2>1. R \in SUBSET Device
    BY RequiredAssumption
  <2> QED
    BY <1>8, <2>1, QuietStep DEF SetRequired, IInv, TypeOK
<1> QED
  BY <1>1, <1>2, <1>3, <1>4, <1>5, <1>6, <1>7, <1>8, SwitchStep DEF Next

\* The state of centrald stays well typed: the period never leaves the six
\* periods and every command waits on the queue of a device.
THEOREM TypeCorrect == Spec => []TypeOK
<1>1. IInv /\ [Next]_vars => IInv'
  BY NextStep DEF StepOK
<1>2. IInv => TypeOK
  BY DEF IInv
<1> QED
  BY InitIInv, <1>1, <1>2, PTL DEF Spec

\* While the server announces good weather no connection on its list has voted bad
\* (setState, connectionRemoved and deviceReady count the votes again in time).
THEOREM VotesRespected == Spec => []NoBadVoteInGoodWeather
<1>1. IInv /\ [Next]_vars => IInv'
  BY NextStep DEF StepOK
<1>2. IInv => NoBadVoteInGoodWeather
  BY DEF IInv
<1> QED
  BY InitIInv, <1>1, <1>2, PTL DEF Spec

\* While the server lets devices move no connection on its list votes for a stop
\* (the same handlers, over the stop bits).
THEOREM StopVotesRespected == Spec => []NoStopVoteWhileMoving
<1>1. IInv /\ [Next]_vars => IInv'
  BY NextStep DEF StepOK
<1>2. IInv => NoStopVoteWhileMoving
  BY DEF IInv
<1> QED
  BY InitIInv, <1>1, <1>2, PTL DEF Spec

\* Weather becomes good only with every required device connected and voting
\* good (weatherChanged).
THEOREM GoodWeatherJustified == Spec => GoodWeatherNeedsRequired
<1>1. IInv /\ [Next]_vars => IInv'
  BY NextStep DEF StepOK
<1>2. IInv /\ [Next]_vars =>
        [~srv.weather /\ srv'.weather =>
           \A d \in required' : Connected(conns', d) /\ conns'[d].status.good]_vars
  BY NextStep DEF StepOK, GoodStep, RequiredIn
<1> QED
  BY InitIInv, <1>1, <1>2, PTL DEF Spec, GoodWeatherNeedsRequired

\* Erasing the connection of a required device ends good weather in the same
\* step (connectionRemoved).
THEOREM RequiredLossNoticed == Spec => RequiredLossEndsGoodWeather
<1>1. IInv /\ [Next]_vars => IInv'
  BY NextStep DEF StepOK
<1>2. IInv /\ [Next]_vars =>
        [\A d \in required : Present(conns, d) /\ ~Present(conns', d) => ~srv'.weather]_vars
  BY NextStep DEF StepOK, LossStep
<1> QED
  BY InitIInv, <1>1, <1>2, PTL DEF Spec, RequiredLossEndsGoodWeather

\* bad_weather_device names the first device that reported, for as long as
\* the weather is bad.
THEOREM FirstReporter == Spec => FirstReporterKept
<1>1. IInv /\ [Next]_vars => IInv'
  BY NextStep DEF StepOK
<1>2. IInv /\ [Next]_vars =>
        [/\ srv'.badDevice # NoDevice => ~srv'.weather
         /\ srv.badDevice \notin {NoDevice, srv'.badDevice} => srv'.badDevice = NoDevice /\ srv'.weather]_vars
  BY NextStep DEF StepOK, BlameStep
<1> QED
  BY InitIInv, <1>1, <1>2, PTL DEF Spec, FirstReporterKept

-----------------------------------------------------------------------------
(* What a handler may do on its way.                                       *)

\* opening is begun only where it is wanted, and is not carried on where it is not any more
Decides(s, t) ==
  t.op = "opening" => ShouldOpen(t) \/ (s.op = "opening" /\ ~ShouldOpen(s))

LastOf(q) == q[Len(q)]

\* the device still blocks closing, so that a later close of the handler stops at it, too
ClosesInOrder(t, cs, i) ==
  /\ i \in CloseStops(t, cs)
  /\ \A e \in Later(i) : Present(cs, e) /\ cs[e].status.blockClose => e \in t.failed

OpensInOrder(cs, i) == \A e \in Earlier(i) : Present(cs, e) /\ ~cs[e].status.blockOpen

\* what was added to the queues since they were q
InOrder(q, cs, t) ==
  \A i \in DOMAIN OpenSequence : LET d == OpenSequence[i] IN
    Len(t.queue[d]) > Len(q[d]) =>
      /\ LastOf(t.queue[d]) = "close" => ClosesInOrder(t, cs, i)
      /\ LastOf(t.queue[d]) = "open" => OpensInOrder(cs, i)

\* every device has one place in the sequence
NoRepeats == \A i, j \in DOMAIN OpenSequence : OpenSequence[i] = OpenSequence[j] => i = j

Advances(q, cs, s, t) ==
  /\ t \in Server
  /\ Decides(s, t)
  /\ NoRepeats /\ InOrder(q, cs, s) => InOrder(q, cs, t)

\* OpenSequence is indexed by numbers and names devices.
LEMMA SequenceOfDevices ==
  /\ DOMAIN OpenSequence \subseteq Nat
  /\ \A i \in DOMAIN OpenSequence : OpenSequence[i] \in Device
<1>1. OpenSequence \in Seq(Device)
  BY SequenceAssumption
<1> QED
  BY <1>1

LEMMA AdvancesOn ==
  ASSUME NEW q, NEW cs, NEW s, NEW t, NEW u, Advances(q, cs, s, t), Advances(q, cs, t, u)
  PROVE  Advances(q, cs, s, u)
BY DEF Advances, Decides

\* A step that leaves the sequence and the decision alone.
LEMMA AsideAdvances ==
  ASSUME NEW q, NEW cs, NEW s, NEW t \in Server,
         t.op = s.op, t.onoff = s.onoff, t.period = s.period, t.weather = s.weather,
         t.queue = s.queue, t.failed = s.failed
  PROVE  Advances(q, cs, s, t)
BY DEF Advances, Decides, ShouldOpen, InOrder, ClosesInOrder, CloseStops

\* The loop of doOpen stops at the first device that is missing or blocks opening.
LEMMA DoOpenAdvances ==
  ASSUME NEW q, NEW cs \in Connections, NEW s \in Server
  PROVE  /\ Advances(q, cs, s, DoOpen(s, cs)) /\ SameWord(s, DoOpen(s, cs))
         /\ DoOpen(s, cs).op \in {s.op, "none"}
<1> DEFINE t == DoOpen(s, cs)
<1>1. t \in Server /\ SameWord(s, t)
  BY DoOpenKeeps
<1>2. CASE OpenStops(cs) = {}
  <2>1. t.op = "none" /\ t.queue = s.queue /\ t.failed = s.failed
    BY <1>2 DEF DoOpen, UpdateOpenCloseClear, Server
  <2> HIDE DEF t
  <2>2. InOrder(q, cs, s) => InOrder(q, cs, t)
    BY <2>1 DEF InOrder, ClosesInOrder, CloseStops
  <2> QED
    BY <1>1, <2>1, <2>2 DEF Advances, Decides, t
<1>3. CASE OpenStops(cs) # {}
  <2> DEFINE m == SmallestOf(OpenStops(cs))
             d == OpenSequence[m]
  <2>1. m \in OpenStops(cs) /\ \A j \in OpenStops(cs) : m <= j
    <3>1. OpenStops(cs) \in SUBSET Nat
      BY SequenceAssumption DEF OpenStops
    <3> QED
      BY <1>3, <3>1, SmallestExists
  <2>2. m \in DOMAIN OpenSequence /\ d \in Device /\ DOMAIN OpenSequence \subseteq Nat
    BY <2>1, SequenceOfDevices DEF OpenStops
  <2>3. t = IF ~Present(cs, d) THEN [s EXCEPT !.op = "none"]
            ELSE [s EXCEPT !.queue[d] = Append(@, "open"), !.last = d]
    BY <1>3 DEF DoOpen
  <2>4. OpensInOrder(cs, m)
    <3>1. \A k \in DOMAIN OpenSequence : k < m => k \notin OpenStops(cs)
      BY <2>1, <2>2
    <3> QED
      BY <3>1 DEF OpensInOrder, Earlier, OpenStops
  <2> HIDE DEF m
  <2>5. CASE ~Present(cs, d)
    <3>1. t.op = "none" /\ t.queue = s.queue /\ t.failed = s.failed
      BY <2>3, <2>5 DEF Server
    <3> HIDE DEF t, d
    <3>2. InOrder(q, cs, s) => InOrder(q, cs, t)
      BY <3>1 DEF InOrder, ClosesInOrder, CloseStops
    <3> QED
      BY <1>1, <3>1, <3>2 DEF Advances, Decides, t
  <2>6. CASE Present(cs, d)
    <3> DEFINE w == Append(s.queue[d], "open")
    <3>1. t = [s EXCEPT !.queue[d] = w, !.last = d]
      BY <2>3, <2>6
    <3>2. s.queue \in [Device -> Seq({"open", "close"})]
      BY DEF Server
    <3>3. LastOf(w) = "open"
      BY <2>2, <3>2 DEF LastOf
    <3> HIDE DEF w
    <3>4. /\ t.op = s.op /\ t.failed = s.failed /\ t.queue[d] = w
          /\ \A e \in Device : e # d => t.queue[e] = s.queue[e]
      BY <2>2, <3>1, <3>2 DEF Server
    <3> HIDE DEF t
    <3>5. ASSUME NoRepeats, InOrder(q, cs, s)
          PROVE  InOrder(q, cs, t)
      <4> SUFFICES ASSUME NEW i \in DOMAIN OpenSequence,
                          Len(t.queue[OpenSequence[i]]) > Len(q[OpenSequence[i]])
                   PROVE  /\ LastOf(t.queue[OpenSequence[i]]) = "close" => ClosesInOrder(t, cs, i)
                          /\ LastOf(t.queue[OpenSequence[i]]) = "open" => OpensInOrder(cs, i)
        BY DEF InOrder
      <4>1. CASE i = m
        BY <2>4, <3>3, <3>4, <4>1
      <4>2. CASE i # m
        <5>1. OpenSequence[i] # d /\ OpenSequence[i] \in Device
          BY <2>2, <3>5, <4>2, SequenceAssumption DEF NoRepeats
        <5>2. t.queue[OpenSequence[i]] = s.queue[OpenSequence[i]]
          BY <3>4, <5>1
        <5> QED
          BY <3>4, <3>5, <5>2 DEF InOrder, ClosesInOrder, CloseStops
      <4> QED
        BY <4>1, <4>2
    <3> QED
      BY <1>1, <3>4, <3>5 DEF Advances, Decides, SameWord, ShouldOpen, t
  <2> QED
    BY <2>5, <2>6
<1> QED
  BY <1>1, <1>2, <1>3 DEF t

\* The loop of doClose stops at the last device that blocks closing and has not failed to.
LEMMA DoCloseAdvances ==
  ASSUME NEW q, NEW cs \in Connections, NEW s \in Server
  PROVE  /\ Advances(q, cs, s, DoClose(s, cs)) /\ SameWord(s, DoClose(s, cs))
         /\ DoClose(s, cs).op \in {s.op, "none"}
<1> DEFINE t == DoClose(s, cs)
<1>1. t \in Server /\ SameWord(s, t)
  BY DoCloseKeeps
<1>2. CASE OpenSequence = <<>>
  BY <1>1, <1>2, AsideAdvances DEF DoClose
<1>3. CASE OpenSequence # <<>> /\ CloseStops(s, cs) = {}
  <2>1. t.op = "none" /\ t.queue = s.queue
    BY <1>3 DEF DoClose, UpdateOpenCloseClear, Server
  <2> HIDE DEF t
  <2>2. InOrder(q, cs, s) => InOrder(q, cs, t)
    BY <1>3, <2>1 DEF InOrder, ClosesInOrder
  <2> QED
    BY <1>1, <2>1, <2>2 DEF Advances, Decides, t
<1>4. CASE OpenSequence # <<>> /\ CloseStops(s, cs) # {}
  <2> DEFINE m == LargestOf(CloseStops(s, cs))
             d == OpenSequence[m]
             w == Append(s.queue[d], "close")
             r == IF s.last = d THEN s.timers ELSE Append(s.timers, d)
  <2>1. m \in CloseStops(s, cs) /\ \A j \in CloseStops(s, cs) : j <= m
    <3>1. CloseStops(s, cs) \in SUBSET (1..Len(OpenSequence)) /\ Len(OpenSequence) \in Nat
      BY SequenceAssumption DEF CloseStops
    <3> QED
      BY <1>4, <3>1, LargestExists
  <2>2. m \in DOMAIN OpenSequence /\ d \in Device /\ DOMAIN OpenSequence \subseteq Nat
    BY <2>1, SequenceOfDevices DEF CloseStops
  <2>3. t = [s EXCEPT !.queue[d] = w, !.last = d, !.timers = r]
    BY <1>4 DEF DoClose
  <2>4. \A e \in Later(m) : Present(cs, e) /\ cs[e].status.blockClose => e \in s.failed
    <3>1. \A k \in DOMAIN OpenSequence : k > m => k \notin CloseStops(s, cs)
      BY <2>1, <2>2
    <3> QED
      BY <3>1 DEF Later, CloseStops
  <2> HIDE DEF m, r
  <2>5. s.queue \in [Device -> Seq({"open", "close"})]
    BY DEF Server
  <2>6. LastOf(w) = "close"
    BY <2>2, <2>5 DEF LastOf
  <2> HIDE DEF w
  <2>7. /\ t.op = s.op /\ t.failed = s.failed /\ t.queue[d] = w
        /\ \A e \in Device : e # d => t.queue[e] = s.queue[e]
    BY <2>2, <2>3, <2>5 DEF Server
  <2> HIDE DEF t
  <2>8. CloseStops(t, cs) = CloseStops(s, cs)
    BY <2>7 DEF CloseStops
  <2>9. ClosesInOrder(t, cs, m)
    BY <2>1, <2>4, <2>7, <2>8 DEF ClosesInOrder
  <2>10. ASSUME NoRepeats, InOrder(q, cs, s)
         PROVE  InOrder(q, cs, t)
    <3> SUFFICES ASSUME NEW i \in DOMAIN OpenSequence,
                        Len(t.queue[OpenSequence[i]]) > Len(q[OpenSequence[i]])
                 PROVE  /\ LastOf(t.queue[OpenSequence[i]]) = "close" => ClosesInOrder(t, cs, i)
                        /\ LastOf(t.queue[OpenSequence[i]]) = "open" => OpensInOrder(cs, i)
      BY DEF InOrder
    <3>1. CASE i = m
      BY <2>6, <2>7, <2>9, <3>1
    <3>2. CASE i # m
      <4>1. OpenSequence[i] # d /\ OpenSequence[i] \in Device
        BY <2>2, <2>10, <3>2, SequenceAssumption DEF NoRepeats
      <4>2. t.queue[OpenSequence[i]] = s.queue[OpenSequence[i]]
        BY <2>7, <4>1
      <4> QED
        BY <2>7, <2>8, <2>10, <4>2 DEF InOrder, ClosesInOrder
    <3> QED
      BY <3>1, <3>2
  <2> QED
    BY <1>1, <2>7, <2>10 DEF Advances, Decides, SameWord, ShouldOpen, t
<1> QED
  BY <1>1, <1>2, <1>3, <1>4 DEF t

-----------------------------------------------------------------------------
(* The operators of the handlers.                                          *)

\* Only op is written: what the sequence and the switch are started from.
LEMMA OpWritten ==
  ASSUME NEW s \in Server, NEW op \in {"opening", "closing"}
  PROVE  LET t == [s EXCEPT !.op = op] IN
         /\ t \in Server /\ SameWord(s, t) /\ t.op = op
         /\ t.queue = s.queue /\ t.failed = s.failed
BY DEF Server, SameWord

LEMMA StartCloseAdvances ==
  ASSUME NEW q, NEW cs \in Connections, NEW s \in Server
  PROVE  /\ Advances(q, cs, s, StartClose(s, cs)) /\ SameWord(s, StartClose(s, cs))
         /\ StartClose(s, cs).op # "opening"
<1> DEFINE c == [s EXCEPT !.op = "closing"]
<1>1. /\ c \in Server /\ SameWord(s, c) /\ c.op = "closing"
      /\ c.queue = s.queue /\ c.failed = s.failed
  BY OpWritten
<1>2. StartClose(s, cs) = DoClose(c, cs)
  BY DEF StartClose
<1> HIDE DEF c
<1>3. Advances(q, cs, s, c)
  BY <1>1 DEF Advances, Decides, InOrder, ClosesInOrder, CloseStops
<1>4. /\ Advances(q, cs, c, DoClose(c, cs)) /\ SameWord(c, DoClose(c, cs))
      /\ DoClose(c, cs).op \in {c.op, "none"}
  BY <1>1, DoCloseAdvances
<1> QED
  BY <1>1, <1>2, <1>3, <1>4, AdvancesOn DEF SameWord

\* Where the observatory should be open, or a client says so, opening may begin.
LEMMA StartOpenQueues ==
  ASSUME NEW q, NEW cs \in Connections, NEW s \in Server, NoRepeats, InOrder(q, cs, s)
  PROVE  InOrder(q, cs, StartOpen(s, cs))
<1> DEFINE c == [s EXCEPT !.op = "opening"]
<1>1. c \in Server /\ c.queue = s.queue /\ c.failed = s.failed
  BY OpWritten
<1>2. StartOpen(s, cs) = DoOpen(c, cs)
  BY DEF StartOpen
<1> HIDE DEF c
<1>3. InOrder(q, cs, c)
  BY <1>1 DEF InOrder, ClosesInOrder, CloseStops
<1> QED
  BY <1>1, <1>2, <1>3, DoOpenAdvances DEF Advances

\* stateChanged decides anew: what was going on before does not matter.
LEMMA StateChangedAdvances ==
  ASSUME NEW q, NEW cs \in Connections, NEW s \in Server
  PROVE  LET t == StateChanged(s, cs) IN
         /\ t \in Server /\ SameWord(s, t)
         /\ t.op = "opening" => ShouldOpen(t)
         /\ NoRepeats /\ InOrder(q, cs, s) => InOrder(q, cs, t)
<1>1. CASE ShouldOpen(s)
  <2>1. StartOpen(s, cs) \in Server /\ SameWord(s, StartOpen(s, cs))
    BY StateChangedKeeps
  <2> QED
    BY <1>1, <2>1, StartOpenQueues DEF StateChanged, SameWord, ShouldOpen
<1>2. CASE ~ShouldOpen(s)
  BY <1>2, StartCloseAdvances DEF StateChanged, Advances
<1> QED
  BY <1>1, <1>2

\* The state word is written, and stateChanged called when it differs.
LEMMA SetStateAdvances ==
  ASSUME NEW q, NEW cs \in Connections, NEW s \in Server, NEW new \in Server,
         new.queue = s.queue, new.failed = s.failed
  PROVE  /\ Advances(q, cs, s, SetState(s, new, cs))
         /\ SameWord(new, SetState(s, new, cs))
<1>1. CASE new = s
  BY <1>1 DEF SetState, SameWord, Advances, Decides
<1>2. CASE new # s
  <2>1. InOrder(q, cs, s) => InOrder(q, cs, new)
    BY DEF InOrder, ClosesInOrder, CloseStops
  <2> QED
    BY <1>2, <2>1, StateChangedAdvances DEF SetState, Advances, Decides
<1> QED
  BY <1>1, <1>2

LEMMA OpenCloseChangedAdvances ==
  ASSUME NEW q, NEW cs \in Connections, NEW s \in Server
  PROVE  /\ Advances(q, cs, s, OpenCloseChanged(s, cs))
         /\ SameWord(s, OpenCloseChanged(s, cs))
<1>1. OpenCloseChanged(s, cs) \in {DoOpen(s, cs), DoClose(s, cs), s}
  BY DEF OpenCloseChanged
<1>2. Advances(q, cs, s, s) /\ SameWord(s, s)
  BY AsideAdvances DEF SameWord
<1> QED
  BY <1>1, <1>2, DoOpenAdvances, DoCloseAdvances

LEMMA StopChangedAdvances ==
  ASSUME NEW q, NEW cs \in Connections, NEW s \in Server, NEW req
  PROVE  LET t == StopChanged(s, cs, req) IN Advances(q, cs, s, t) /\ t.onoff = s.onoff
<1> DEFINE stop == FailedStop(cs, req) # {}
           new  == [s EXCEPT !.stop = stop]
<1>1. stop \in BOOLEAN
  OBVIOUS
<1>2. StopChanged(s, cs, req) = SetState(s, new, cs)
  BY DEF StopChanged, SetStopState
<1> HIDE DEF stop
<1>3. new \in Server /\ new.onoff = s.onoff /\ new.queue = s.queue /\ new.failed = s.failed
  BY <1>1 DEF Server
<1> HIDE DEF new
<1> QED
  BY <1>2, <1>3, SetStateAdvances DEF SameWord

LEMMA WeatherChangedAdvances ==
  ASSUME NEW q, NEW cs \in Connections, NEW s \in Server, NEW device \in Device \cup {NoDevice}, NEW req
  PROVE  LET t == WeatherChanged(s, device, cs, req) IN Advances(q, cs, s, t) /\ t.onoff = s.onoff
<1> DEFINE blamed == IF /\ device # NoDevice /\ Present(cs, device)
                        /\ ~cs[device].status.good /\ s.badDevice = NoDevice
                     THEN [s EXCEPT !.badDevice = device] ELSE s
           good   == FailedWeather(cs, req) = {}
           new    == [blamed EXCEPT !.weather = good]
           voted  == SetState(blamed, new, cs)
           clear  == [voted EXCEPT !.badDevice = NoDevice]
<1>1. blamed \in Server /\ blamed.op = s.op /\ blamed.onoff = s.onoff /\ blamed.period = s.period
      /\ blamed.weather = s.weather /\ blamed.queue = s.queue /\ blamed.failed = s.failed
  BY DEF Server
<1>2. WeatherChanged(s, device, cs, req) = IF good THEN clear ELSE voted
  BY DEF WeatherChanged, SetWeatherState
<1> HIDE DEF blamed
<1>3. good \in BOOLEAN
  OBVIOUS
<1> HIDE DEF good
<1>4. /\ new \in Server /\ new.onoff = s.onoff /\ new.queue = blamed.queue
      /\ new.failed = blamed.failed
  BY <1>1, <1>3 DEF Server
<1> HIDE DEF new
<1>5. Advances(q, cs, s, blamed)
  BY <1>1, AsideAdvances
<1>6. Advances(q, cs, blamed, voted) /\ voted.onoff = s.onoff
  BY <1>1, <1>4, SetStateAdvances DEF SameWord
<1> HIDE DEF voted
<1>7. /\ clear \in Server /\ clear.op = voted.op /\ clear.onoff = voted.onoff
      /\ clear.period = voted.period /\ clear.weather = voted.weather
      /\ clear.queue = voted.queue /\ clear.failed = voted.failed
  BY <1>6 DEF Advances, Server
<1> HIDE DEF clear
<1>8. Advances(q, cs, voted, clear)
  BY <1>7, AsideAdvances
<1> QED
  BY <1>2, <1>5, <1>6, <1>7, <1>8, AdvancesOn

LEMMA MaskCentralStateAdvances ==
  ASSUME NEW q, NEW cs \in Connections, NEW s \in Server, NEW mask,
         NEW onoff \in OnOff, NEW period \in Period
  PROVE  LET t == MaskCentralState(s, mask, onoff, period, cs)
         IN  /\ Advances(q, cs, s, t)
             /\ t.onoff = IF "onoff" \in mask THEN onoff ELSE s.onoff
<1> DEFINE noted  == [s EXCEPT !.switchedStandby =
                       @ \/ (~HasStandbyBit(s.onoff) /\ s.period \in {DUSK, NIGHT, DAWN})]
           on     == IF "onoff" \in mask THEN onoff ELSE noted.onoff
           per    == IF "status" \in mask THEN period ELSE noted.period
           masked == [noted EXCEPT !.onoff = on, !.period = per]
           changed == SetState(noted, masked, cs)
           lastOn == period = NIGHT /\ ~HasStandbyBit(onoff)
           last   == [changed EXCEPT !.lastOn = lastOn]
<1>1. noted \in Server /\ noted.op = s.op /\ noted.onoff = s.onoff /\ noted.period = s.period
      /\ noted.weather = s.weather /\ noted.queue = s.queue /\ noted.failed = s.failed
  BY DEF Server
<1>2. masked = [noted EXCEPT !.onoff  = IF "onoff"  \in mask THEN onoff  ELSE @,
                             !.period = IF "status" \in mask THEN period ELSE @]
  <2> HIDE DEF noted
  <2> QED
    BY <1>1 DEF Server
<1>3. MaskCentralState(s, mask, onoff, period, cs) \in {last, changed}
  BY <1>2 DEF MaskCentralState
<1>4. Advances(q, cs, s, noted)
  BY <1>1, AsideAdvances
<1> HIDE DEF noted
<1>5. on \in OnOff /\ per \in Period /\ on = IF "onoff" \in mask THEN onoff ELSE s.onoff
  BY <1>1 DEF Server
<1> HIDE DEF on, per
<1>6. masked \in Server /\ masked.onoff = on /\ masked.queue = noted.queue
      /\ masked.failed = noted.failed
  BY <1>1, <1>5 DEF Server
<1> HIDE DEF masked
<1>7. Advances(q, cs, noted, changed) /\ changed.onoff = on
  BY <1>1, <1>6, SetStateAdvances DEF SameWord
<1> HIDE DEF changed
<1>8. lastOn \in BOOLEAN
  OBVIOUS
<1> HIDE DEF lastOn
<1>9. /\ last \in Server /\ last.op = changed.op /\ last.onoff = changed.onoff
      /\ last.period = changed.period /\ last.weather = changed.weather
      /\ last.queue = changed.queue /\ last.failed = changed.failed
  BY <1>7, <1>8 DEF Advances, Server
<1> HIDE DEF last
<1>10. Advances(q, cs, changed, last)
  BY <1>9, AsideAdvances
<1> QED
  BY <1>3, <1>4, <1>5, <1>7, <1>9, <1>10, AdvancesOn

-----------------------------------------------------------------------------
(* One lemma per action, then the theorems.                                *)

Lowers(s, t) == t.onoff = s.onoff \/ ~(Rank(t.onoff) > Rank(s.onoff))

SequenceStep ==
  /\ Decides(srv, srv') \/ ClientOpen
  /\ NoRepeats => InOrder(srv.queue, conns', srv')
  /\ Lowers(srv, srv') \/ \E onoff \in OnOff : ChangeState(onoff)

LEMMA FromTheStart ==
  ASSUME NEW s \in Server, NEW cs
  PROVE  InOrder(s.queue, cs, s)
<1>1. \A i \in DOMAIN OpenSequence : Len(s.queue[OpenSequence[i]]) \in Nat
  <2>1. s.queue \in [Device -> Seq({"open", "close"})]
    BY DEF Server
  <2>2. \A i \in DOMAIN OpenSequence : OpenSequence[i] \in Device
    BY SequenceAssumption
  <2> QED
    BY <2>1, <2>2
<1> QED
  BY <1>1 DEF InOrder

LEMMA AdvancesStep ==
  ASSUME srv \in Server, Advances(srv.queue, conns', srv, srv'),
         Lowers(srv, srv') \/ \E onoff \in OnOff : ChangeState(onoff)
  PROVE  SequenceStep
BY FromTheStart DEF Advances, SequenceStep

\* A step that leaves the sequence and the switch alone, and queues nothing.
LEMMA AsideStep ==
  ASSUME srv \in Server, srv' \in Server,
         srv'.op = srv.op, SameWord(srv, srv'),
         \A d \in Device : ~(Len(srv'.queue[d]) > Len(srv.queue[d]))
  PROVE  SequenceStep
<1>1. \A i \in DOMAIN OpenSequence : OpenSequence[i] \in Device
  BY SequenceAssumption
<1> QED
  BY <1>1 DEF SequenceStep, Decides, SameWord, ShouldOpen, Lowers, InOrder

LEMMA SameSequence ==
  ASSUME srv \in Server, srv' = srv
  PROVE  SequenceStep
BY AsideAdvances, AdvancesStep DEF Lowers

LEMMA CommandDoneSequence ==
  ASSUME srv \in Server, NEW d \in Device, CommandDone(d)
  PROVE  SequenceStep
<1> DEFINE r == Tail(srv.queue[d])
           f == [srv.queue EXCEPT ![d] = r]
<1>1. srv.queue \in [Device -> Seq({"open", "close"})] /\ srv.queue[d] # <<>>
  BY DEF Server, CommandDone
<1>2. r \in Seq({"open", "close"}) /\ ~(Len(r) > Len(srv.queue[d]))
  BY <1>1
<1> HIDE DEF r
<1>3. /\ f \in [Device -> Seq({"open", "close"})] /\ f[d] = r
      /\ \A e \in Device : e # d => f[e] = srv.queue[e]
  BY <1>1, <1>2
<1>4. srv' = [srv EXCEPT !.queue = f]
  BY DEF CommandDone, r
<1> HIDE DEF f
<1>5. srv' \in Server /\ srv'.op = srv.op /\ SameWord(srv, srv') /\ srv'.queue = f
  BY <1>3, <1>4 DEF Server, SameWord
<1>6. \A e \in Device : ~(Len(srv'.queue[e]) > Len(srv.queue[e]))
  <2>1. \A e \in Device : Len(srv.queue[e]) \in Nat
    BY <1>1
  <2> QED
    BY <1>2, <1>3, <1>5, <2>1
<1> QED
  BY <1>5, <1>6, AsideStep

\* Up to four handlers run at a status line, over the same new connections.
LEMMA SetDeviceStateSequence ==
  ASSUME TypeOK, NEW d \in Device, NEW st \in Statuses[d], SetDeviceState(d, st)
  PROVE  SequenceStep
<1> DEFINE q  == srv.queue
           old == conns[d].status
           cs == [conns EXCEPT ![d].status = st]
           w1 == WeatherChanged(srv, d, cs, required)
           d1 == StopChanged(w1, cs, required)
           s1 == IF ~old.ready /\ st.ready THEN d1 ELSE srv
           w2 == WeatherChanged(s1, d, cs, required)
           s2 == IF old.good # st.good THEN w2 ELSE s1
           w3 == StopChanged(s2, cs, required)
           s3 == IF old.move # st.move THEN w3 ELSE s2
           w4 == OpenCloseChanged(s3, cs)
           s4 == IF old.blockOpen # st.blockOpen \/ old.blockClose # st.blockClose THEN w4 ELSE s3
           Goes(t) == Advances(q, cs, srv, t) /\ t.onoff = srv.onoff
<1>1. srv \in Server /\ conns \in Connections /\ st \in Status /\ d \in Device \cup {NoDevice}
  BY StatusAssumption DEF TypeOK, Connections
<1>2. cs \in Connections
  BY <1>1 DEF Connections, Conn
<1>3. conns' = cs /\ srv' = s4
  BY DEF SetDeviceState, DeviceReady
<1> HIDE DEF cs, q
<1>4. Goes(srv)
  BY <1>1, AsideAdvances
<1>5. Goes(w1)
  BY <1>1, <1>2, WeatherChangedAdvances
<1> HIDE DEF w1
<1>6. Goes(d1)
  <2>1. w1 \in Server
    BY <1>5 DEF Advances
  <2> QED
    BY <1>2, <1>5, <2>1, StopChangedAdvances, AdvancesOn
<1> HIDE DEF d1
<1>7. Goes(s1) /\ s1 \in Server
  BY <1>1, <1>4, <1>6 DEF Advances
<1> HIDE DEF s1
<1>8. Goes(w2)
  BY <1>1, <1>2, <1>7, WeatherChangedAdvances, AdvancesOn
<1> HIDE DEF w2
<1>9. Goes(s2) /\ s2 \in Server
  BY <1>7, <1>8 DEF Advances
<1> HIDE DEF s2
<1>10. Goes(w3)
  BY <1>2, <1>9, StopChangedAdvances, AdvancesOn
<1> HIDE DEF w3
<1>11. Goes(s3) /\ s3 \in Server
  BY <1>9, <1>10 DEF Advances
<1> HIDE DEF s3
<1>12. Goes(w4)
  BY <1>2, <1>11, OpenCloseChangedAdvances, AdvancesOn DEF SameWord
<1> HIDE DEF w4
<1>13. Goes(s4)
  BY <1>11, <1>12
<1> HIDE DEF s4
<1> QED
  BY <1>1, <1>3, <1>13, AdvancesStep DEF Lowers, q

LEMMA RemovalSequence ==
  ASSUME TypeOK, ClientRemoved \/ \E d \in Device : ConnectionRemoved(d)
  PROVE  SequenceStep
<1> DEFINE Votes(s, device) == StopChanged(WeatherChanged(s, device, conns', required), conns', required)
<1>1. srv \in Server /\ conns \in Connections
  BY DEF TypeOK, Connections
<1>2. ASSUME NEW s \in Server, NEW device \in Device \cup {NoDevice}, conns' \in Connections
      PROVE  Advances(s.queue, conns', s, Votes(s, device)) /\ Votes(s, device).onoff = s.onoff
  <2> DEFINE w == WeatherChanged(s, device, conns', required)
  <2>1. Advances(s.queue, conns', s, w) /\ w.onoff = s.onoff
    BY <1>2, WeatherChangedAdvances
  <2> HIDE DEF w
  <2>2. w \in Server
    BY <2>1 DEF Advances
  <2>3. Advances(s.queue, conns', w, Votes(s, device)) /\ Votes(s, device).onoff = w.onoff
    BY <1>2, <2>2, StopChangedAdvances DEF w
  <2> QED
    BY <2>1, <2>3, AdvancesOn
<1> HIDE DEF Votes
<1>3. CASE ClientRemoved
  <2>1. conns' = conns /\ srv' = Votes(srv, NoDevice)
    BY <1>3 DEF ClientRemoved, Votes
  <2> QED
    BY <1>1, <1>2, <2>1, AdvancesStep DEF Lowers
<1>4. ASSUME NEW d \in Device, ConnectionRemoved(d)
      PROVE  SequenceStep
  <2> DEFINE f  == [srv.queue EXCEPT ![d] = <<>>]
             s0 == [srv EXCEPT !.queue = f]
  <2>1. /\ conns' = [conns EXCEPT ![d] = [link |-> "none", status |-> NewStatus]]
        /\ srv' = Votes(s0, d)
    BY <1>4 DEF ConnectionRemoved, Votes
  <2>2. conns' \in Connections
    BY <1>1, <2>1 DEF Connections, Conn, NewStatus, Status
  <2>3. srv.queue \in [Device -> Seq({"open", "close"})]
    BY <1>1 DEF Server
  <2>4. /\ f \in [Device -> Seq({"open", "close"})] /\ f[d] = <<>>
        /\ \A e \in Device : e # d => f[e] = srv.queue[e]
    <3>1. <<>> \in Seq({"open", "close"})
      OBVIOUS
    <3> QED
      BY <2>3, <3>1
  <2> HIDE DEF f
  <2>5. /\ s0 \in Server /\ s0.op = srv.op /\ s0.onoff = srv.onoff /\ s0.queue = f
        /\ ShouldOpen(s0) <=> ShouldOpen(srv)
    BY <1>1, <2>4 DEF Server, ShouldOpen
  <2> HIDE DEF s0
  <2>6. Advances(f, conns', s0, srv') /\ srv'.onoff = srv.onoff
    BY <1>2, <2>1, <2>2, <2>5
  <2>7. NoRepeats => InOrder(f, conns', srv')
    BY <2>5, <2>6, FromTheStart DEF Advances
  <2>8. InOrder(f, conns', srv') => InOrder(srv.queue, conns', srv')
    <3>1. srv' \in Server
      BY <2>6 DEF Advances
    <3>2. \A e \in Device : /\ Len(srv'.queue[e]) \in Nat /\ Len(srv.queue[e]) \in Nat
                            /\ Len(f[e]) \in Nat /\ Len(f[e]) <= Len(srv.queue[e])
      <4>1. srv'.queue \in [Device -> Seq({"open", "close"})]
        BY <3>1 DEF Server
      <4>2. Len(f[d]) = 0
        BY <2>4
      <4> QED
        BY <2>3, <2>4, <4>1, <4>2
    <3>3. \A e \in Device : Len(srv'.queue[e]) > Len(srv.queue[e]) => Len(srv'.queue[e]) > Len(f[e])
      BY <3>2
    <3>4. \A i \in DOMAIN OpenSequence : OpenSequence[i] \in Device
      BY SequenceAssumption
    <3> QED
      BY <3>3, <3>4 DEF InOrder
  <2>9. Decides(srv, srv')
    BY <2>5, <2>6 DEF Advances, Decides
  <2> QED
    BY <2>6, <2>7, <2>8, <2>9 DEF SequenceStep, Lowers
<1> QED
  BY <1>3, <1>4

LEMMA SwitchSequence ==
  ASSUME TypeOK, \/ \E onoff \in OnOff : ChangeState(onoff)
                 \/ \E p \in ManualPeriods : ChangePeriod(p)
                 \/ ClientOpen
                 \/ ClientClose
  PROVE  SequenceStep
<1>1. srv \in Server /\ conns \in Connections /\ (nextEvent + 5) % 6 \in Period /\ "on" \in OnOff
  BY DEF TypeOK, Connections, Period, DAY, MORNING, OnOff
<1>2. ASSUME NEW onoff \in OnOff, ChangeState(onoff)
      PROVE  SequenceStep
  <2>1. conns' = conns
        /\ srv' = MaskCentralState(srv, {"onoff", "status"}, onoff, (nextEvent + 5) % 6, conns)
    BY <1>2 DEF ChangeState
  <2>2. Advances(srv.queue, conns', srv, srv')
    BY <1>1, <2>1, MaskCentralStateAdvances
  <2> QED
    BY <1>1, <1>2, <2>2, AdvancesStep
<1>3. ASSUME NEW p \in ManualPeriods, ChangePeriod(p)
      PROVE  SequenceStep
  <2>1. conns' = conns /\ srv' = MaskCentralState(srv, {"status"}, "on", p, conns)
    BY <1>3 DEF ChangePeriod
  <2>2. p \in Period
    BY PeriodAssumption
  <2>3. Advances(srv.queue, conns', srv, srv') /\ srv'.onoff = srv.onoff
    BY <1>1, <2>1, <2>2, MaskCentralStateAdvances
  <2> QED
    BY <1>1, <2>3, AdvancesStep DEF Lowers
<1>4. CASE ClientOpen
  <2>1. conns' = conns /\ srv' = StartOpen(srv, conns)
    BY <1>4 DEF ClientOpen
  <2>2. NoRepeats => InOrder(srv.queue, conns', srv')
    BY <1>1, <2>1, FromTheStart, StartOpenQueues
  <2>3. srv'.onoff = srv.onoff
    BY <1>1, <2>1, StateChangedKeeps DEF SameWord
  <2> QED
    BY <1>4, <2>2, <2>3 DEF SequenceStep, Lowers
<1>5. CASE ClientClose
  <2>1. conns' = conns /\ srv' = StartClose(srv, conns)
    BY <1>5 DEF ClientClose
  <2>2. Advances(srv.queue, conns', srv, srv') /\ srv'.onoff = srv.onoff
    BY <1>1, <2>1, StartCloseAdvances DEF SameWord
  <2> QED
    BY <1>1, <2>2, AdvancesStep DEF Lowers
<1> QED
  BY <1>2, <1>3, <1>4, <1>5

\* The masks that idle uses: the switch alone, the period alone.
LEMMA SwitchedAdvances ==
  ASSUME NEW q, NEW cs \in Connections, NEW s \in Server, NEW o \in OnOff, NEW p \in Period
  PROVE  /\ Advances(q, cs, s, MaskCentralState(s, {"onoff"}, o, p, cs))
         /\ MaskCentralState(s, {"onoff"}, o, p, cs).onoff = o
         /\ Advances(q, cs, s, MaskCentralState(s, {"status"}, o, p, cs))
         /\ MaskCentralState(s, {"status"}, o, p, cs).onoff = s.onoff
BY MaskCentralStateAdvances

\* The sun switches off or to standby at the most.
LEMMA IdleSequence ==
  ASSUME TypeOK, NEW e \in SolarEvents, NEW mo \in BOOLEAN, NEW ms \in BOOLEAN, Idle(e, mo, ms)
  PROVE  SequenceStep
<1> DEFINE q == srv.queue
           cleared == IF e[2] = DUSK THEN [srv EXCEPT !.switchedStandby = FALSE] ELSE srv
           end     == cleared.period = MORNING /\ e[1] = DAY
           off     == MaskCentralState(cleared, {"onoff"}, "hard_off", DAY, conns)
           standby == MaskCentralState(cleared, {"onoff"}, "standby", DAY, conns)
           switched == IF end /\ mo THEN off
                       ELSE IF end /\ ms /\ cleared.onoff \in {"on", "standby"} THEN standby
                       ELSE cleared
           last    == MaskCentralState(switched, {"status"}, "on", e[1], conns)
<1>1. srv \in Server /\ conns \in Connections
  BY DEF TypeOK, Connections
<1>2. /\ e[1] \in Period /\ DAY \in Period
      /\ "on" \in OnOff /\ "standby" \in OnOff /\ "hard_off" \in OnOff
  BY SolarAssumption DEF Period, DAY, MORNING, OnOff
<1>3. conns' = conns /\ srv' \in {last, srv}
  BY DEF Idle
<1>4. Advances(q, conns, srv, srv)
  BY <1>1, AsideAdvances
<1>5. Advances(q, conns, srv, cleared) /\ cleared \in Server /\ cleared.onoff = srv.onoff
  <2>1. /\ cleared \in Server /\ cleared.op = srv.op /\ cleared.onoff = srv.onoff
        /\ cleared.period = srv.period /\ cleared.weather = srv.weather
        /\ cleared.queue = srv.queue /\ cleared.failed = srv.failed
    BY <1>1 DEF Server
  <2> HIDE DEF cleared
  <2> QED
    BY <2>1, AsideAdvances
<1> HIDE DEF cleared, q
<1>6. /\ Advances(q, conns, cleared, off) /\ off.onoff = "hard_off"
      /\ Advances(q, conns, cleared, standby) /\ standby.onoff = "standby"
  BY <1>1, <1>2, <1>5, SwitchedAdvances
<1> HIDE DEF off, standby
<1>7. Advances(q, conns, srv, switched) /\ switched \in Server
  BY <1>5, <1>6, AdvancesOn DEF Advances
<1>8. Lowers(srv, switched)
  <2>1. srv.onoff \in OnOff
    BY <1>1 DEF Server
  <2> QED
    BY <1>5, <1>6, <2>1 DEF Lowers, OnOff, Rank
<1> HIDE DEF switched
<1>9. Advances(q, conns, switched, last) /\ last.onoff = switched.onoff
  BY <1>1, <1>2, <1>7, SwitchedAdvances
<1> HIDE DEF last
<1>10. Advances(q, conns, srv, srv') /\ Lowers(srv, srv')
  BY <1>3, <1>4, <1>7, <1>8, <1>9, AdvancesOn DEF Lowers
<1> QED
  BY <1>1, <1>3, <1>10, AdvancesStep DEF q

LEMMA CloseTimeoutSequence ==
  ASSUME TypeOK, CloseTimeout
  PROVE  SequenceStep
<1> DEFINE r == Tail(srv.timers)
           s == [srv EXCEPT !.timers = r]
           n == s.failed \cup {srv.last}
           f == [s EXCEPT !.failed = n]
<1>1. srv \in Server /\ conns \in Connections /\ srv.timers # <<>> /\ conns' = conns
  BY DEF TypeOK, Connections, CloseTimeout
<1>2. srv' = IF srv.op = "closing" THEN DoClose(f, conns) ELSE s
  BY DEF CloseTimeout
<1>3. r \in Seq(Device)
  <2>1. srv.timers \in Seq(Device)
    BY <1>1 DEF Server
  <2> QED
    BY <1>1, <2>1
<1> HIDE DEF r
<1>4. /\ s \in Server /\ s.op = srv.op /\ SameWord(srv, s) /\ s.queue = srv.queue
      /\ s.failed = srv.failed
  BY <1>1, <1>3 DEF Server, SameWord
<1> HIDE DEF s
<1>5. n \in SUBSET (Device \cup {NoDevice})
  BY <1>1, <1>4 DEF Server
<1> HIDE DEF n
<1>6. f \in Server /\ f.op = srv.op /\ SameWord(srv, f) /\ f.queue = srv.queue
  BY <1>4, <1>5 DEF Server, SameWord
<1> HIDE DEF f
<1>7. CASE srv.op = "closing"
  <2>1. /\ Advances(srv.queue, conns, f, DoClose(f, conns)) /\ SameWord(f, DoClose(f, conns))
        /\ DoClose(f, conns).op \in {f.op, "none"}
    BY <1>1, <1>6, DoCloseAdvances
  <2>2. InOrder(f.queue, conns, f)
    BY <1>6, FromTheStart
  <2> QED
    BY <1>1, <1>2, <1>6, <1>7, <2>1, <2>2 DEF SequenceStep, Advances, Decides, Lowers, SameWord
<1>8. CASE srv.op # "closing"
  <2>1. Advances(srv.queue, conns', srv, s)
    BY <1>1, <1>4, AsideAdvances DEF SameWord
  <2> QED
    BY <1>1, <1>2, <1>4, <1>8, <2>1, AdvancesStep DEF Lowers, SameWord
<1> QED
  BY <1>7, <1>8

LEMMA NextSequence == TypeOK /\ [Next]_vars => SequenceStep
<1> SUFFICES ASSUME TypeOK, [Next]_vars
             PROVE  SequenceStep
  OBVIOUS
<1>1. srv \in Server
  BY DEF TypeOK
<1>2. CASE UNCHANGED vars
  BY <1>1, <1>2, SameSequence DEF vars
<1>3. ASSUME NEW d \in Device, Register(d) \/ ConnectionError(d)
      PROVE  SequenceStep
  BY <1>1, <1>3, SameSequence DEF Register, ConnectionError
<1>4. ASSUME NEW d \in Device, CommandDone(d)
      PROVE  SequenceStep
  BY <1>1, <1>4, CommandDoneSequence
<1>5. ASSUME NEW d \in Device, NEW st \in Statuses[d], SetDeviceState(d, st)
      PROVE  SequenceStep
  BY <1>5, SetDeviceStateSequence
<1>6. ASSUME NEW e \in SolarEvents, NEW mo \in BOOLEAN, NEW ms \in BOOLEAN, Idle(e, mo, ms)
      PROVE  SequenceStep
  BY <1>6, IdleSequence
<1>7. ASSUME NEW R \in RequiredSets, SetRequired(R)
      PROVE  SequenceStep
  BY <1>1, <1>7, SameSequence DEF SetRequired
<1> QED
  BY <1>2, <1>3, <1>4, <1>5, <1>6, <1>7, RemovalSequence, SwitchSequence, CloseTimeoutSequence
  DEF Next

\* An opening goes on only while the state of the system wants the observatory open,
\* or a client asked for it: when the weather, the switch or the period ends that,
\* stateChanged starts the closing in the same step, wherever the handler is.
THEOREM OpeningDecided == Spec => OpeningFollowsDecision
<1>1. TypeOK /\ [Next]_vars =>
        [srv'.op = "opening" =>
           \/ ShouldOpen(srv')
           \/ srv.op = "opening" /\ ~ShouldOpen(srv)
           \/ ClientOpen]_vars
  BY NextSequence DEF SequenceStep, Decides, ShouldOpen
<1> QED
  BY TypeCorrect, <1>1, PTL DEF Spec, OpeningFollowsDecision

\* Only the commands on, standby and soft_off switch the system up: idle, which follows
\* the sun and obeys morning_off and morning_standby, lowers it or leaves it alone.
THEOREM OnlyCommandsSwitchUp == Spec => OnlyCommandsRaise
<1>1. TypeOK /\ [Next]_vars =>
        [Rank(srv'.onoff) > Rank(srv.onoff) => \E onoff \in OnOff : ChangeState(onoff)]_vars
  <2> SUFFICES ASSUME TypeOK, [Next]_vars, Rank(srv'.onoff) > Rank(srv.onoff)
               PROVE  \E onoff \in OnOff : ChangeState(onoff)
    OBVIOUS
  <2>1. srv.onoff \in OnOff
    BY DEF TypeOK, Server
  <2>2. ~(Rank(srv.onoff) > Rank(srv.onoff))
    BY <2>1 DEF OnOff, Rank
  <2> QED
    BY <2>2, NextSequence DEF SequenceStep, Lowers
<1> QED
  BY TypeCorrect, <1>1, PTL DEF Spec, OnlyCommandsRaise

\* With every device in the sequence once, a close goes to a device only when all that
\* come after it are closed, gone or failed (doClose), an open only when all before it
\* are there and open (doOpen), although one status line may run both loops several times.
THEOREM OpenCloseInSequence == NoRepeats => (Spec => SequenceRespected)
<1> SUFFICES ASSUME NoRepeats
             PROVE  Spec => SequenceRespected
  OBVIOUS
<1>1. TypeOK /\ [Next]_vars =>
        [\A i \in DOMAIN OpenSequence :
           /\ Queued(OpenSequence[i], "close") =>
                \A e \in Later(i) :
                  Present(conns', e) /\ conns'[e].status.blockClose => e \in srv'.failed
           /\ Queued(OpenSequence[i], "open") =>
                \A e \in Earlier(i) : Present(conns', e) /\ ~conns'[e].status.blockOpen]_vars
  BY NextSequence DEF SequenceStep, InOrder, ClosesInOrder, OpensInOrder, Queued, LastOf
<1> QED
  BY TypeCorrect, <1>1, PTL DEF Spec, SequenceRespected

==============================================================================
