--------------------------- MODULE BartDomeProofs ---------------------------
(***************************************************************************)
(* Theorems of the dome daemon on the BART roof: type correctness, the     *)
(* blocks of an opening, the direction of the motor, the weather it opens  *)
(* in and the retries of a failed close, for every bound on the retries    *)
(* and restarts, every set of announced states and every roof that jams,   *)
(* is pushed or has dead end switches.                                     *)
(*                                                                         *)
(* First what each function of the driver may answer and do to the roof,   *)
(* then what each handler of the daemon makes of it.                       *)
(***************************************************************************)
EXTENDS BartDome, TLAPS

\* The driver does not touch the relays, and a roof nothing pulls away stays where it is.
Drifts(r, s) ==
  /\ s \in BartRoofs
  /\ s.motor = r.motor /\ s.closing = r.closing
  /\ ~r.motor \/ (r.closing /\ r.pos = "closed") => s.pos = r.pos

\* the motor turns in the opening direction
Lifts(r) == r.motor /\ ~r.closing

Outcome(results, w) == w = <<w[1], w[2]>> /\ w[1] \in results /\ w[2] \in BartRoofs

-----------------------------------------------------------------------------
(* The driver.                                                             *)

LEMMA TravelDrifts ==
  ASSUME NEW r \in BartRoofs, NEW s \in BartTravel(r)
  PROVE  Drifts(r, s)
BY DEF BartTravel, Drifts, BartRoofs

LEMMA MeanwhileDrifts ==
  ASSUME NEW r \in BartRoofs, NEW s \in Meanwhile(r)
  PROVE  Drifts(r, s)
BY TravelDrifts DEF Meanwhile, Drifts

LEMMA IsOpenedDrifts ==
  ASSUME NEW r \in BartRoofs, NEW o \in IsOpened(r)
  PROVE  Outcome({"done", "wait"}, o) /\ Drifts(r, o[2])
<1>1. PICK s \in Meanwhile(r), read \in Reads :
        o = IF (read /\ Reached(s, "open")) \/ s.openTimer = "past" THEN <<"done", s>> ELSE <<"wait", s>>
  BY BartDriverAssumption DEF BartIsOpened
<1>2. o = <<"done", s>> \/ o = <<"wait", s>>
  BY <1>1
<1>3. Drifts(r, s)
  BY MeanwhileDrifts
<1> QED
  BY <1>2, <1>3 DEF Outcome, Drifts

LEMMA IsClosedDrifts ==
  ASSUME NEW r \in BartRoofs, NEW o \in IsClosed(r)
  PROVE  /\ Outcome({"done", "error", "wait"}, o) /\ Drifts(r, o[2])
         /\ o[1] = "done" => o[2].pos = "closed" /\ "closed" \notin DeadSwitches
<1>1. PICK s \in Meanwhile(r), read \in Reads :
        o = CASE read /\ Reached(s, "closed") -> <<"done", s>>
              [] ~(read /\ Reached(s, "closed")) /\ s.closeTimer = "past" -> <<"error", s>>
              [] OTHER -> <<"wait", s>>
  BY BartDriverAssumption DEF BartIsClosed
<1>2. (o = <<"done", s>> /\ Reached(s, "closed")) \/ o = <<"error", s>> \/ o = <<"wait", s>>
  BY <1>1
<1>3. Drifts(r, s)
  BY MeanwhileDrifts
<1> QED
  BY <1>2, <1>3 DEF Outcome, Drifts, Reached

LEMMA StopMotorStops ==
  ASSUME NEW r \in BartRoofs, NEW o \in StopMotor(r)
  PROVE  /\ Outcome({"ok", "fail"}, o)
         /\ o[2].closing = r.closing /\ (o[2].motor => r.motor)
         /\ ~LineFails => o[1] = "ok" /\ ~o[2].motor
         /\ ~r.motor \/ (r.closing /\ r.pos = "closed") => o[2].pos = r.pos
<1>1. PICK s \in Meanwhile(r) :
        \/ o = <<"ok", [s EXCEPT !.motor = FALSE]>>
        \/ LineFails /\ o = <<"fail", s>>
        \/ LineFails /\ o = <<"fail", [s EXCEPT !.motor = FALSE]>>
  BY DEF StopMotor, Lost
<1> DEFINE s0 == [s EXCEPT !.motor = FALSE]
<1>2. Drifts(r, s)
  BY MeanwhileDrifts
<1>3. s0 \in BartRoofs /\ ~s0.motor /\ s0.closing = s.closing /\ s0.pos = s.pos
  BY <1>2 DEF Drifts, BartRoofs
<1>4. o = <<"ok", s0>> \/ (LineFails /\ (o = <<"fail", s>> \/ o = <<"fail", s0>>))
  BY <1>1
<1> HIDE DEF s0
<1> QED
  BY <1>2, <1>3, <1>4 DEF Drifts, Outcome

LEMMA EndOpenStops ==
  ASSUME NEW r \in BartRoofs, NEW o \in BartEndOpen(r)
  PROVE  /\ Outcome({"ok", "fail"}, o)
         /\ o[2].closing = r.closing /\ (o[2].motor => r.motor)
         /\ ~LineFails => o[1] = "ok" /\ ~o[2].motor
<1>1. PICK m \in StopMotor(r) : o = <<m[1], [m[2] EXCEPT !.openTimer = "off"]>>
  BY DEF BartEndOpen
<1> DEFINE s0 == [m[2] EXCEPT !.openTimer = "off"]
<1>2. /\ Outcome({"ok", "fail"}, m)
      /\ m[2].closing = r.closing /\ (m[2].motor => r.motor)
      /\ ~LineFails => m[1] = "ok" /\ ~m[2].motor
  BY StopMotorStops
<1>3. s0 \in BartRoofs /\ s0.motor = m[2].motor /\ s0.closing = m[2].closing
  BY <1>2 DEF Outcome, BartRoofs
<1>4. o = <<m[1], s0>>
  BY <1>1
<1> HIDE DEF s0
<1> QED
  BY <1>2, <1>3, <1>4 DEF Outcome

LEMMA EndCloseStops ==
  ASSUME NEW r \in BartRoofs, NEW o \in BartEndClose(r)
  PROVE  /\ Outcome({"ok", "fail"}, o)
         /\ ~LineFails => o[1] = "ok" /\ ~o[2].motor
         /\ ~r.motor \/ (r.closing /\ r.pos = "closed") => o[2].pos = r.pos
<1> DEFINE q == [r EXCEPT !.closeTimer = "off"]
<1>1. /\ q \in BartRoofs /\ q.motor = r.motor /\ q.closing = r.closing /\ q.pos = r.pos
  BY DEF BartRoofs
<1>2. PICK m \in StopMotor(q) : o = <<m[1], [m[2] EXCEPT !.closing = FALSE]>> \/ (LineFails /\ o = m)
  BY DEF BartEndClose, Lost
<1> HIDE DEF q
<1> DEFINE s0 == [m[2] EXCEPT !.closing = FALSE]
<1>3. /\ Outcome({"ok", "fail"}, m)
      /\ ~LineFails => m[1] = "ok" /\ ~m[2].motor
      /\ ~q.motor \/ (q.closing /\ q.pos = "closed") => m[2].pos = q.pos
  BY <1>1, StopMotorStops
<1>4. s0 \in BartRoofs /\ s0.motor = m[2].motor /\ s0.pos = m[2].pos
  BY <1>3 DEF Outcome, BartRoofs
<1>5. o = <<m[1], s0>> \/ (LineFails /\ o = m)
  BY <1>2
<1> HIDE DEF s0
<1> QED
  BY <1>1, <1>3, <1>4, <1>5 DEF Outcome

LEMMA DriveOpenDrives ==
  ASSUME NEW r \in BartRoofs, ~r.closing, NEW o \in DriveOpen(r)
  PROVE  Outcome({"ok", "fail"}, o) /\ (~LineFails => o[1] = "ok" /\ ~o[2].closing)
<1> DEFINE s0 == [r EXCEPT !.motor = TRUE, !.openTimer = "runs", !.closeTimer = "off"]
           q == [r EXCEPT !.motor = TRUE]
<1>1. s0 \in BartRoofs /\ ~s0.closing /\ q \in BartRoofs
  BY DEF BartRoofs
<1>2. o = <<"ok", s0>> \/ (LineFails /\ \E m \in StopMotor(r) \cup StopMotor(q) : o = <<"fail", m[2]>>)
  BY DEF DriveOpen, Lost
<1> HIDE DEF s0, q
<1>3. \A m \in StopMotor(r) \cup StopMotor(q) : m[2] \in BartRoofs
  BY <1>1, StopMotorStops DEF Outcome
<1> QED
  BY <1>1, <1>2, <1>3 DEF Outcome

LEMMA DriveCloseDrives ==
  ASSUME NEW r \in BartRoofs, r.closing, NEW o \in DriveClose(r)
  PROVE  Outcome({"ok", "fail"}, o) /\ (~LineFails => o[1] = "ok" /\ o[2].closing)
<1> DEFINE s0 == [r EXCEPT !.motor = TRUE, !.closeTimer = "runs", !.openTimer = "off"]
           q == [r EXCEPT !.motor = TRUE]
<1>1. s0 \in BartRoofs /\ s0.closing /\ q \in BartRoofs
  BY DEF BartRoofs
<1>2. o = <<"ok", s0>> \/ (LineFails /\ \E m \in StopMotor(r) \cup StopMotor(q) : o = <<"fail", m[2]>>)
  BY DEF DriveClose, Lost
<1> HIDE DEF s0, q
<1>3. \A m \in StopMotor(r) \cup StopMotor(q) : m[2] \in BartRoofs
  BY <1>1, StopMotorStops DEF Outcome
<1> QED
  BY <1>1, <1>2, <1>3 DEF Outcome

\* On a reliable line an opening that starts always starts, and turns the right way.
LEMMA StartOpenOpens ==
  ASSUME NEW r \in BartRoofs, NEW o \in StartOpen(r)
  PROVE  /\ Outcome({"ok", "fail"}, o)
         /\ ~LineFails => o[1] = "ok" /\ (o[2].motor => ~o[2].closing)
<1>1. \/ LineFails /\ o = <<"fail", r>>
      \/ \E s \in Meanwhile(r) :
           \/ Reached(s, "open") /\ o \in BartEndOpen(s)
           \/ \E m \in StopMotor(s) : o \in StartOpenStopped(m)
  BY BartDriverAssumption DEF BartStartOpen, Lost
<1>2. CASE LineFails /\ o = <<"fail", r>>
  BY <1>2 DEF Outcome
<1>3. ASSUME NEW s \in Meanwhile(r), o \in BartEndOpen(s)
      PROVE  /\ Outcome({"ok", "fail"}, o)
             /\ ~LineFails => o[1] = "ok" /\ (o[2].motor => ~o[2].closing)
  BY <1>3, MeanwhileDrifts, EndOpenStops DEF Drifts
<1>4. ASSUME NEW s \in Meanwhile(r), NEW m \in StopMotor(s), o \in StartOpenStopped(m)
      PROVE  /\ Outcome({"ok", "fail"}, o)
             /\ ~LineFails => o[1] = "ok" /\ (o[2].motor => ~o[2].closing)
  <2>1. Outcome({"ok", "fail"}, m) /\ (~LineFails => m[1] = "ok")
    BY MeanwhileDrifts, StopMotorStops DEF Drifts
  <2>2. CASE m[1] = "fail"
    BY <1>4, <2>1, <2>2 DEF StartOpenStopped
  <2>3. CASE m[1] # "fail"
    <3> DEFINE q == [m[2] EXCEPT !.closing = FALSE]
    <3>1. q \in BartRoofs /\ ~q.closing
      BY <2>1 DEF Outcome, BartRoofs
    <3>2. o \in DriveOpen(q) \/ (LineFails /\ (o = <<"fail", m[2]>> \/ o = <<"fail", q>>))
      BY <1>4, <2>3 DEF StartOpenStopped, Lost
    <3> HIDE DEF q
    <3>3. CASE o \in DriveOpen(q)
      BY <3>1, <3>3, DriveOpenDrives
    <3>4. CASE LineFails /\ (o = <<"fail", m[2]>> \/ o = <<"fail", q>>)
      BY <2>1, <3>1, <3>4 DEF Outcome
    <3> QED
      BY <3>2, <3>3, <3>4
  <2> QED
    BY <2>2, <2>3
<1> QED
  BY <1>1, <1>2, <1>3, <1>4

\* On a reliable line a close that starts turns the right way, one that is refused leaves
\* the relays alone, and none lifts the roof.
LEMMA StartCloseCloses ==
  ASSUME NEW r \in BartRoofs, NEW o \in StartClose(r)
  PROVE  /\ Outcome({"ok", "fail"}, o)
         /\ ~LineFails => /\ o[1] = "ok" => (o[2].motor => o[2].closing)
                          /\ o[1] = "fail" => o[2].motor = r.motor /\ o[2].closing = r.closing
<1> DEFINE Claim == /\ Outcome({"ok", "fail"}, o)
                    /\ ~LineFails => /\ o[1] = "ok" => (o[2].motor => o[2].closing)
                                     /\ o[1] = "fail" => o[2].motor = r.motor /\ o[2].closing = r.closing
<1>1. PICK s \in Meanwhile(r) :
        \/ LineFails /\ o = <<"fail", s>>
        \/ Reached(s, "closed") /\ o \in BartEndClose(s)
        \/ s.motor /\ s.closing /\ o = <<"ok", [s EXCEPT !.closeTimer = IF @ = "off" THEN "runs" ELSE @]>>
        \/ s.motor /\ ~s.closing /\ o = <<"fail", s>>
        \/ ~s.motor /\ o \in DriveClose([s EXCEPT !.closing = TRUE])
        \/ LineFails /\ o = <<"fail", [s EXCEPT !.closing = TRUE]>>
  BY BartDriverAssumption DEF BartStartClose, Lost
<1>2. Drifts(r, s)
  BY MeanwhileDrifts
<1> DEFINE q == [s EXCEPT !.closing = TRUE]
           c == [s EXCEPT !.closeTimer = IF @ = "off" THEN "runs" ELSE @]
<1>3. q \in BartRoofs /\ q.closing /\ c \in BartRoofs /\ c.closing = s.closing
  BY <1>2 DEF Drifts, BartRoofs
<1>4. \/ LineFails /\ (o = <<"fail", s>> \/ o = <<"fail", q>>)
      \/ o \in BartEndClose(s)
      \/ s.closing /\ o = <<"ok", c>>
      \/ o = <<"fail", s>>
      \/ o \in DriveClose(q)
  BY <1>1
<1> HIDE DEF q, c
<1>5. CASE o \in BartEndClose(s)
  BY <1>2, <1>5, EndCloseStops DEF Drifts, Outcome
<1>6. CASE o \in DriveClose(q)
  BY <1>3, <1>6, DriveCloseDrives DEF Outcome
<1>7. CASE (LineFails /\ o = <<"fail", q>>) \/ o = <<"fail", s>> \/ (s.closing /\ o = <<"ok", c>>)
  BY <1>2, <1>3, <1>7 DEF Outcome, Drifts
<1> QED
  BY <1>4, <1>5, <1>6, <1>7


-----------------------------------------------------------------------------
(* The handlers of the daemon.                                             *)

\* The blocking bit stands for an opening, and on a reliable line a running motor turns
\* the way the daemon believes.
Turns(d, r) ==
  ~LineFails /\ r.motor => /\ d.state = "OPENING" => ~r.closing
                           /\ d.state = "CLOSING" => r.closing

Well(d, r) == /\ d \in Daemon /\ r \in BartRoofs
              /\ d.bop <=> d.state = "OPENING"
              /\ Turns(d, r)

\* what a handler leaves; only one that may open lifts a roof that was not lifting
Leaves(w, r, mayOpen) ==
  /\ w = <<w[1], w[2]>> /\ Well(w[1], w[2])
  /\ ~LineFails /\ Lifts(w[2]) => Lifts(r) \/ mayOpen

\* a roof that is open although the daemon calls it closed is looked after
Cared(d, r, quiet) == r.pos = "closed" \/ d.retry \/ d.retries = MaxRetries \/ quiet

LEMMA StatesOfDaemon ==
  ASSUME NEW d \in Daemon
  PROVE  /\ Opened(d) \in Daemon /\ Opened(d).state = "OPENED" /\ ~Opened(d).bop
         /\ Opening(d) \in Daemon /\ Opening(d).state = "OPENING" /\ Opening(d).bop
         /\ Closed(d) \in Daemon /\ Closed(d).state = "CLOSED" /\ Closed(d).bop = d.bop
         /\ Closed(d).retry = d.retry /\ Closed(d).retries = d.retries
         /\ Closing(d) \in Daemon /\ Closing(d).state = "CLOSING" /\ ~Closing(d).bop
         /\ NoTimer(d) \in Daemon /\ NoTimer(d).state = d.state /\ NoTimer(d).bop = d.bop
         /\ NoTimer(d).retries = d.retries
<1>0. 0 \in 0 .. MaxRetries
  BY RetriesAssumption
<1>1. Opened(d) \in Daemon /\ Opened(d).state = "OPENED" /\ ~Opened(d).bop
  BY DEF Opened, Daemon, States
<1>2. Opening(d) \in Daemon /\ Opening(d).state = "OPENING" /\ Opening(d).bop
  <2> DEFINE u == [d EXCEPT !.state = "OPENING", !.bop = TRUE, !.block = {"OPEN", "CLOSE"}]
  <2>1. u \in Daemon /\ u.state = "OPENING" /\ u.bop
    BY DEF Daemon, States
  <2>2. Opening(d) = [u EXCEPT !.failReported = FALSE, !.retries = 0]
    BY DEF Opening
  <2> HIDE DEF u
  <2> QED
    BY <1>0, <2>1, <2>2 DEF Daemon
<1>3. /\ Closed(d) \in Daemon /\ Closed(d).state = "CLOSED" /\ Closed(d).bop = d.bop
      /\ Closed(d).retry = d.retry /\ Closed(d).retries = d.retries
  BY DEF Closed, Daemon, States
<1>4. Closing(d) \in Daemon /\ Closing(d).state = "CLOSING" /\ ~Closing(d).bop
  BY DEF Closing, Daemon, States
<1>5. /\ NoTimer(d) \in Daemon /\ NoTimer(d).state = d.state /\ NoTimer(d).bop = d.bop
      /\ NoTimer(d).retries = d.retries
  BY DEF NoTimer, Daemon
<1> QED
  BY <1>1, <1>2, <1>3, <1>4, <1>5

\* a change of the daemon that leaves its state and its blocking bit alone
LEMMA WellAside ==
  ASSUME NEW d, NEW r, Well(d, r), NEW u \in Daemon, u.state = d.state, u.bop = d.bop,
         NEW s, Drifts(r, s)
  PROVE  Well(u, s)
BY DEF Well, Turns, Drifts

LEMMA OpenStartLeaves ==
  ASSUME NEW d, NEW r, Well(d, r), NEW m, NEW w \in DomeOpenStart(d, r, m)
  PROVE  /\ Leaves(w, r, IsGoodWeather(d, m))
         /\ w[1].state = d.state \/ w[1].state \in {"OPENED", "OPENING"}
<1> DEFINE n == NoTimer(d)
<1>1. d \in Daemon /\ r \in BartRoofs
  BY DEF Well
<1>2. n \in Daemon /\ n.state = d.state /\ n.bop = d.bop
  BY <1>1, StatesOfDaemon
<1>3. PICK o \in IsOpened(r) :
        \/ w = <<Opened(n), o[2]>>
        \/ IsGoodWeather(d, m) /\ w \in TryOpen(n, o[2])
        \/ w = <<n, o[2]>>
  BY DEF DomeOpenStart
<1>4. Drifts(r, o[2])
  BY <1>1, IsOpenedDrifts
<1>5. Opened(n) \in Daemon /\ Opened(n).state = "OPENED" /\ ~Opened(n).bop
      /\ Opening(n) \in Daemon /\ Opening(n).state = "OPENING" /\ Opening(n).bop
  BY <1>2, StatesOfDaemon
<1> HIDE DEF n
<1>6. CASE w = <<Opened(n), o[2]>>
  BY <1>4, <1>5, <1>6 DEF Leaves, Well, Turns, Drifts, Lifts
<1>7. CASE IsGoodWeather(d, m) /\ w \in TryOpen(n, o[2])
  <2>1. PICK s \in StartOpen(o[2]) : w = IF s[1] = "ok" THEN <<Opening(n), s[2]>> ELSE <<n, s[2]>>
    BY <1>7 DEF TryOpen
  <2>2. /\ Outcome({"ok", "fail"}, s)
        /\ ~LineFails => s[1] = "ok" /\ (s[2].motor => ~s[2].closing)
    BY <1>4, StartOpenOpens DEF Drifts
  <2>3. CASE s[1] = "ok"
    BY <1>5, <1>7, <2>1, <2>2, <2>3 DEF Leaves, Well, Turns, Outcome
  <2>4. CASE s[1] # "ok"
    BY <1>2, <1>7, <2>1, <2>2, <2>4 DEF Leaves, Well, Turns, Outcome
  <2> QED
    BY <2>3, <2>4
<1>8. CASE w = <<n, o[2]>>
  <2>1. Well(n, o[2])
    BY <1>2, <1>4, WellAside
  <2> QED
    BY <1>2, <1>4, <1>8, <2>1 DEF Leaves, Drifts, Lifts
<1> QED
  BY <1>3, <1>6, <1>7, <1>8

LEMMA CloseStartLeaves ==
  ASSUME NEW d, NEW r, Well(d, r), NEW quiet \in BOOLEAN, NEW w \in DomeCloseStart(d, r, quiet)
  PROVE  /\ Leaves(w, r, FALSE)
         /\ w[1].state = "CLOSED" => w[2].pos = "closed" \/ w[1].retry
<1> DEFINE c == [NoTimer(d) EXCEPT !.quiet = quiet]
           z == [Closed(c) EXCEPT !.bop = FALSE, !.retries = 0]
           f == [c EXCEPT !.failReported = TRUE, !.retry = TRUE]
<1>1. d \in Daemon /\ r \in BartRoofs
  BY DEF Well
<1>2. c \in Daemon /\ c.state = d.state /\ c.bop = d.bop
  <2>1. NoTimer(d) \in Daemon /\ NoTimer(d).state = d.state /\ NoTimer(d).bop = d.bop
    BY <1>1, StatesOfDaemon
  <2> QED
    BY <2>1 DEF Daemon
<1>3. PICK o \in IsClosed(r) : \/ o[1] = "done" /\ w = <<z, o[2]>>
                               \/ w \in TryClose(c, o[2])
  BY DEF DomeCloseStart
<1> HIDE DEF c
<1>4. /\ Outcome({"done", "error", "wait"}, o) /\ Drifts(r, o[2])
      /\ o[1] = "done" => o[2].pos = "closed"
  BY <1>1, IsClosedDrifts
<1>5. z \in Daemon /\ z.state = "CLOSED" /\ ~z.bop
  <2>1. Closed(c) \in Daemon /\ Closed(c).state = "CLOSED" /\ 0 \in 0 .. MaxRetries
    BY <1>2, StatesOfDaemon, RetriesAssumption
  <2> QED
    BY <2>1 DEF Daemon
<1>6. f \in Daemon /\ f.retry /\ f.state = d.state /\ f.bop = d.bop
  BY <1>2 DEF Daemon
<1>7. Closing(c) \in Daemon /\ Closing(c).state = "CLOSING" /\ ~Closing(c).bop
  BY <1>2, StatesOfDaemon
<1>8. CASE o[1] = "done" /\ w = <<z, o[2]>>
  <2> HIDE DEF z
  <2> QED
    BY <1>4, <1>5, <1>8 DEF Leaves, Well, Turns, Drifts, Lifts
<1>9. CASE w \in TryClose(c, o[2])
  <2>1. PICK s \in StartClose(o[2]) : w = <<CloseResult(c, s[1]), s[2]>>
    BY <1>9 DEF TryClose
  <2>2. /\ Outcome({"ok", "fail"}, s)
        /\ ~LineFails => /\ s[1] = "ok" => (s[2].motor => s[2].closing)
                         /\ s[1] = "fail" => s[2].motor = r.motor /\ s[2].closing = r.closing
    BY <1>4, StartCloseCloses DEF Drifts
  <2>3. CASE s[1] = "ok"
    <3>1. w = <<Closing(c), s[2]>>
      BY <2>1, <2>3 DEF CloseResult
    <3> QED
      BY <1>7, <2>2, <2>3, <3>1 DEF Leaves, Well, Turns, Lifts, Outcome
  <2>4. CASE s[1] = "fail"
    <3>1. w = <<f, s[2]>>
      BY <2>1, <2>4 DEF CloseResult
    <3> HIDE DEF f
    <3> QED
      BY <1>6, <2>2, <2>4, <3>1 DEF Leaves, Well, Turns, Lifts, Outcome
  <2> QED
    BY <2>2, <2>3, <2>4 DEF Outcome
<1> QED
  BY <1>3, <1>8, <1>9


\* The line is reliable, or the closed switch is dead and the line cannot lie about it.
Reliable == ~LineFails \/ "closed" \in DeadSwitches

LEMMA CheckClosedLeaves ==
  ASSUME NEW d, NEW r, Well(d, r), d.state = "CLOSING", NEW w \in CheckClosed(d, r)
  PROVE  /\ Leaves(w, r, FALSE)
         /\ Reliable /\ w[1].state = "CLOSED" => Cared(w[1], w[2], d.quiet)
<1>1. d \in Daemon /\ r \in BartRoofs
  BY DEF Well
<1>2. PICK o \in IsClosed(r) :
        IF o[1] = "wait" THEN w = <<d, o[2]>>
        ELSE \E e \in EndClose(o[2]) : w = <<CloseEnded(d, o[1], e[1]), e[2]>>
  BY DEF CheckClosed
<1>3. /\ Outcome({"done", "error", "wait"}, o) /\ Drifts(r, o[2])
      /\ o[1] = "done" => o[2].pos = "closed" /\ "closed" \notin DeadSwitches
  BY <1>1, IsClosedDrifts
<1>4. CASE o[1] = "wait"
  <2>1. w = <<d, o[2]>>
    BY <1>2, <1>4
  <2>2. Well(d, o[2])
    BY <1>1, <1>3, WellAside
  <2> QED
    BY <1>3, <2>1, <2>2 DEF Leaves, Drifts, Lifts
<1>5. CASE o[1] # "wait"
  <2>1. PICK e \in EndClose(o[2]) : w = <<CloseEnded(d, o[1], e[1]), e[2]>>
    BY <1>2, <1>5
  <2>2. /\ Outcome({"ok", "fail"}, e)
        /\ ~LineFails => e[1] = "ok" /\ ~e[2].motor
        /\ ~o[2].motor \/ (o[2].closing /\ o[2].pos = "closed") => e[2].pos = o[2].pos
    BY <1>3, EndCloseStops, BartDriverAssumption DEF Drifts
  <2> DEFINE c == Closed(d)
             f == CloseFailed(c)
             q == [c EXCEPT !.quiet = FALSE]
             z == [c EXCEPT !.retries = 0]
             u == CloseEnded(d, o[1], e[1])
  <2>3. /\ c \in Daemon /\ c.state = "CLOSED" /\ c.bop = d.bop
        /\ c.retry = d.retry /\ c.retries = d.retries
    BY <1>1, StatesOfDaemon
  <2>4. \/ o[1] = "error" /\ d.quiet /\ u = q
        \/ (o[1] = "error" \/ e[1] = "fail") /\ u = f
        \/ o[1] = "done" /\ e[1] = "ok" /\ u = z
    BY <1>3, <1>5, <2>2 DEF CloseEnded, Outcome
  <2> HIDE DEF c
  <2>5. f \in Daemon /\ f.state = "CLOSED" /\ f.bop = d.bop /\ (f.retry \/ f.retries = MaxRetries)
    <3> DEFINE n == c.retries + 1
               g == [c EXCEPT !.retries = n, !.retry = TRUE]
    <3>1. c.retries \in 0 .. MaxRetries
      BY <2>3 DEF Daemon
    <3>2. CASE c.retries < MaxRetries
      <4>1. f = g
        BY <3>2 DEF CloseFailed
      <4>2. n \in 0 .. MaxRetries
        BY <3>1, <3>2, RetriesAssumption
      <4> HIDE DEF n, f
      <4> QED
        BY <2>3, <4>1, <4>2 DEF Daemon
    <3>3. CASE ~(c.retries < MaxRetries)
      <4>1. f = c
        BY <3>3 DEF CloseFailed
      <4>2. c.retries = MaxRetries
        BY <3>1, <3>3, RetriesAssumption
      <4> HIDE DEF f
      <4> QED
        BY <2>3, <4>1, <4>2
    <3> QED
      BY <3>2, <3>3
  <2>6. q \in Daemon /\ q.state = "CLOSED" /\ q.bop = d.bop
    BY <2>3 DEF Daemon
  <2>7. z \in Daemon /\ z.state = "CLOSED" /\ z.bop = d.bop
    BY <2>3, RetriesAssumption DEF Daemon
  <2> HIDE DEF f, q, z, u
  <2>8. u \in Daemon /\ u.state = "CLOSED" /\ u.bop = d.bop /\ w = <<u, e[2]>>
    BY <2>1, <2>4, <2>5, <2>6, <2>7 DEF u
  <2>9. Leaves(w, r, FALSE)
    BY <2>2, <2>8 DEF Leaves, Well, Turns, Outcome, Lifts
  <2>10. ASSUME Reliable PROVE Cared(u, e[2], d.quiet)
    <3>1. CASE o[1] = "error" /\ d.quiet
      BY <3>1 DEF Cared
    <3>2. CASE u = f
      BY <2>5, <3>2 DEF Cared
    <3>3. CASE o[1] = "done"
      <4>1. ~LineFails
        BY <1>3, <2>10, <3>3 DEF Reliable
      <4>2. ~o[2].motor \/ o[2].closing
        BY <1>3, <4>1 DEF Well, Turns, Drifts
      <4> QED
        BY <1>3, <2>2, <3>3, <4>2 DEF Cared
    <3> QED
      BY <2>4, <3>1, <3>2, <3>3
  <2> QED
    BY <2>8, <2>9, <2>10
<1> QED
  BY <1>4, <1>5

LEMMA CheckOpenedLeaves ==
  ASSUME NEW d, NEW r, Well(d, r), d.state = "OPENING", NEW w \in CheckOpened(d, r)
  PROVE  Leaves(w, r, FALSE)
<1>1. d \in Daemon /\ r \in BartRoofs
  BY DEF Well
<1>2. PICK o \in IsOpened(r) :
        IF o[1] = "wait" THEN w = <<d, o[2]>>
        ELSE \E e \in EndOpen(o[2]) : w = <<Opened(d), e[2]>>
  BY DEF CheckOpened
<1>3. Outcome({"done", "wait"}, o) /\ Drifts(r, o[2])
  BY <1>1, IsOpenedDrifts
<1>4. CASE o[1] = "wait"
  <2>1. Well(d, o[2])
    BY <1>1, <1>3, WellAside
  <2> QED
    BY <1>2, <1>3, <1>4, <2>1 DEF Leaves, Drifts, Lifts
<1>5. CASE o[1] # "wait"
  <2>1. PICK e \in EndOpen(o[2]) : w = <<Opened(d), e[2]>>
    BY <1>2, <1>5
  <2>2. /\ Outcome({"ok", "fail"}, e)
        /\ ~LineFails => e[1] = "ok" /\ ~e[2].motor
    BY <1>3, EndOpenStops, BartDriverAssumption DEF Drifts
  <2>3. Opened(d) \in Daemon /\ Opened(d).state = "OPENED" /\ ~Opened(d).bop
    BY <1>1, StatesOfDaemon
  <2> QED
    BY <2>1, <2>2, <2>3 DEF Leaves, Well, Turns, Outcome, Lifts
<1> QED
  BY <1>4, <1>5

LEMMA CheckOpeningLeaves ==
  ASSUME NEW d, NEW r, Well(d, r), NEW w \in CheckOpening(d, r)
  PROVE  /\ Leaves(w, r, FALSE)
         /\ Reliable /\ d.state = "CLOSING" /\ w[1].state = "CLOSED" => Cared(w[1], w[2], d.quiet)
<1>1. CASE d.state = "OPENING"
  BY <1>1, CheckOpenedLeaves DEF CheckOpening
<1>2. CASE d.state = "CLOSING"
  BY <1>2, CheckClosedLeaves DEF CheckOpening
<1>3. CASE d.state \notin {"OPENING", "CLOSING"}
  <2>1. w = <<d, r>>
    BY <1>3 DEF CheckOpening
  <2> QED
    BY <1>3, <2>1 DEF Leaves, Well
<1> QED
  BY <1>1, <1>2, <1>3


LEMMA StayLeaves ==
  ASSUME NEW d, NEW r, Well(d, r), NEW u \in Daemon, u.state = d.state, u.bop = d.bop
  PROVE  Leaves(<<u, r>>, r, FALSE)
BY DEF Leaves, Well, Turns

LEMMA FollowWeatherLeaves ==
  ASSUME NEW d, NEW r, Well(d, r), NEW m, NEW w \in FollowWeather(d, r, m)
  PROVE  /\ Leaves(w, r, FALSE)
         /\ w[1].state = "CLOSED" =>
              \/ w[2].pos = "closed" \/ w[1].retry
              \/ /\ d.state = "CLOSED" /\ w[2] = r
                 /\ w[1].retry = d.retry /\ w[1].retries = d.retries
<1> DEFINE a == [d EXCEPT !.sent = IF m.said.onoff = "ON" THEN @ \cup {"standby"} ELSE @]
           b == [d EXCEPT !.sent = @ \cup {"on"}]
<1>1. d \in Daemon
  BY DEF Well
<1>2. /\ a \in Daemon /\ a.state = d.state /\ a.bop = d.bop
      /\ a.retry = d.retry /\ a.retries = d.retries
  <2> DEFINE x == IF m.said.onoff = "ON" THEN d.sent \cup {"standby"} ELSE d.sent
  <2>1. x \in SUBSET {"on", "standby"}
    BY <1>1 DEF Daemon
  <2>2. a = [d EXCEPT !.sent = x]
    OBVIOUS
  <2> HIDE DEF x
  <2> QED
    BY <1>1, <2>1, <2>2 DEF Daemon
<1>3. /\ b \in Daemon /\ b.state = d.state /\ b.bop = d.bop
      /\ b.retry = d.retry /\ b.retries = d.retries
  BY <1>1 DEF Daemon
<1>4. w \in DomeCloseStart(a, r, FALSE) \/ w = <<a, r>> \/ w = <<b, r>> \/ w = <<d, r>>
  BY DEF FollowWeather, CloseDomeWeather
<1> HIDE DEF a, b
<1>5. CASE w \in DomeCloseStart(a, r, FALSE)
  <2>1. Well(a, r)
    BY <1>2 DEF Well, Turns
  <2> QED
    BY <1>5, <2>1, CloseStartLeaves
<1>6. CASE w = <<a, r>> \/ w = <<b, r>> \/ w = <<d, r>>
  <2>1. Leaves(<<a, r>>, r, FALSE) /\ Leaves(<<b, r>>, r, FALSE) /\ Leaves(<<d, r>>, r, FALSE)
    BY <1>1, <1>2, <1>3, StayLeaves
  <2>2. CASE w = <<a, r>>
    BY <1>2, <2>1, <2>2
  <2>3. CASE w = <<b, r>>
    BY <1>3, <2>1, <2>3
  <2>4. CASE w = <<d, r>>
    BY <2>1, <2>4
  <2> QED
    BY <1>6, <2>2, <2>3, <2>4
<1> QED
  BY <1>4, <1>5, <1>6

LEMMA QuietCloseLeaves ==
  ASSUME NEW d, NEW r, Well(d, r), NEW m, NEW w \in QuietClose(d, r, m)
  PROVE  Leaves(w, r, FALSE) /\ (d.state # "CLOSED" => w = <<d, r>>)
<1>1. (w \in DomeCloseStart(d, r, TRUE) /\ d.state = "CLOSED") \/ w = <<d, r>>
  BY DEF QuietClose
<1>2. Leaves(<<d, r>>, r, FALSE)
  BY StayLeaves DEF Well
<1> QED
  BY <1>1, <1>2, CloseStartLeaves

LEMMA VoteAside ==
  ASSUME NEW d \in Daemon, NEW m
  PROVE  /\ Vote(d, m) \in Daemon /\ Vote(d, m).state = d.state /\ Vote(d, m).bop = d.bop
         /\ Vote(d, m).retry = d.retry /\ Vote(d, m).retries = d.retries
<1> DEFINE c == d.contact \/ m.up
           v == IF c /\ d.nextOpen THEN "good" ELSE "bad"
<1>1. c \in BOOLEAN /\ v \in {"good", "bad"}
  OBVIOUS
<1>2. Vote(d, m) = [d EXCEPT !.contact = c, !.vote = v]
  BY DEF Vote
<1> HIDE DEF c, v
<1> QED
  BY <1>1, <1>2 DEF Daemon

LEMMA DomeIdleLeaves ==
  ASSUME NEW d, NEW r, Well(d, r), NEW m, NEW w \in DomeIdle(d, r, m)
  PROVE  /\ Leaves(w, r, FALSE)
         /\ Reliable /\ d.state = "CLOSING" /\ w[1].state = "CLOSED" => Cared(w[1], w[2], d.quiet)
<1>1. CASE ~d.settled
  <2>1. w = <<d, r>> /\ d \in Daemon
    BY <1>1 DEF DomeIdle, Well
  <2> QED
    BY <2>1, StayLeaves
<1>2. CASE d.settled
  <2>1. PICK c \in CheckOpening(d, r) : \E f \in FollowWeather(c[1], c[2], m) : w = <<Vote(f[1], m), f[2]>>
    BY <1>2 DEF DomeIdle
  <2>2. PICK f \in FollowWeather(c[1], c[2], m) : w = <<Vote(f[1], m), f[2]>>
    BY <2>1
  <2>3. /\ Leaves(c, r, FALSE)
        /\ Reliable /\ d.state = "CLOSING" /\ c[1].state = "CLOSED" => Cared(c[1], c[2], d.quiet)
    BY CheckOpeningLeaves
  <2>4. /\ Leaves(f, c[2], FALSE)
        /\ f[1].state = "CLOSED" =>
             \/ f[2].pos = "closed" \/ f[1].retry
             \/ /\ c[1].state = "CLOSED" /\ f[2] = c[2]
                /\ f[1].retry = c[1].retry /\ f[1].retries = c[1].retries
    BY <2>3, FollowWeatherLeaves DEF Leaves
  <2>5. /\ w[1] \in Daemon /\ w[1].state = f[1].state /\ w[1].bop = f[1].bop
        /\ w[1].retry = f[1].retry /\ w[1].retries = f[1].retries
        /\ w[2] = f[2] /\ w = <<w[1], w[2]>>
    BY <2>2, <2>4, VoteAside DEF Leaves, Well
  <2>6. Leaves(w, r, FALSE)
    BY <2>3, <2>4, <2>5 DEF Leaves, Well, Turns
  <2> QED
    BY <2>3, <2>4, <2>5, <2>6 DEF Cared
<1> QED
  BY <1>1, <1>2

-----------------------------------------------------------------------------
(* The invariant and the steps.                                            *)

IInv == TypeOK /\ Well(dome, roof)

OpensInGoodWeather == MotorOpens' /\ ~MotorOpens => IsGoodWeather(dome, master')

Retried ==
  dome.state = "CLOSING" /\ dome'.state = "CLOSED" /\ roof'.pos # "closed" /\ restarts' = restarts
  => dome'.retry \/ dome'.retries = MaxRetries \/ dome.quiet

\* what every step keeps and shows
Kept == IInv' /\ (~LineFails => OpensInGoodWeather) /\ (Reliable => Retried)

\* A step that takes one of the outcomes of a handler.
LEMMA LeavesKept ==
  ASSUME IInv, NEW w, Leaves(w, roof, IsGoodWeather(dome, master')), dome' = w[1], roof' = w[2],
         master' \in [up : BOOLEAN, said : MasterStates], restarts' = restarts,
         Reliable /\ dome.state = "CLOSING" /\ w[1].state = "CLOSED" => Cared(w[1], w[2], dome.quiet)
  PROVE  Kept
<1>1. IInv'
  BY BartDriverAssumption DEF IInv, TypeOK, Leaves, Well, Turns
<1>2. ~LineFails => OpensInGoodWeather
  BY DEF OpensInGoodWeather, MotorOpens, Leaves, Lifts
<1>3. Reliable => Retried
  BY DEF Retried, Cared
<1> QED
  BY <1>1, <1>2, <1>3 DEF Kept

\* A step that leaves the daemon's state, its blocking bit and the relays alone.
LEMMA AsideKept ==
  ASSUME IInv, dome' \in Daemon, dome'.state = dome.state, dome'.bop = dome.bop,
         roof' \in BartRoofs, roof'.motor = roof.motor, roof'.closing = roof.closing,
         master' \in [up : BOOLEAN, said : MasterStates], restarts' = restarts
  PROVE  Kept
<1>1. IInv'
  BY BartDriverAssumption DEF IInv, TypeOK, Well, Turns
<1>2. OpensInGoodWeather /\ Retried
  BY DEF OpensInGoodWeather, MotorOpens, Retried
<1> QED
  BY <1>1, <1>2 DEF Kept


LEMMA FirstWell ==
  ASSUME NEW r \in BartRoofs, NEW s \in FirstState(r)
  PROVE  Well(FreshDaemon(s), r)
<1>1. s \in {"CLOSED", "OPENED", "UNKNOW"}
  BY BartDriverAssumption DEF BartFirstState
<1>2. FreshDaemon(s) \in Daemon
  BY <1>1, RetriesAssumption DEF FreshDaemon, Daemon, States
<1> QED
  BY <1>1, <1>2 DEF Well, Turns, FreshDaemon

LEMMA InitIInv == Init => IInv
<1> SUFFICES ASSUME Init PROVE IInv
  OBVIOUS
<1>1. roof \in BartRoofs
  <2>1. roof \in BartStart
    BY BartDriverAssumption DEF Init
  <2>2. roof = [pos |-> "closed", motor |-> FALSE, closing |-> FALSE,
                openTimer |-> "off", closeTimer |-> "off"]
    BY <2>1 DEF BartStart
  <2> QED
    BY <2>2 DEF BartRoofs
<1>2. Well(dome, roof)
  BY <1>1, FirstWell DEF Init
<1>3. master \in [up : BOOLEAN, said : MasterStates]
  BY DEF Init, NoMaster, MasterStates
<1> QED
  BY <1>1, <1>2, <1>3, RetriesAssumption, BartDriverAssumption DEF IInv, TypeOK, Well, Init

LEMMA HandlersKept ==
  ASSUME IInv, UNCHANGED <<master, restarts>>,
         \/ Idle \/ PostEvent \/ CommandOpen \/ CommandClose \/ CommandStop \/ CloseFor
  PROVE  Kept
<1> USE DEF Becomes
<1>0. /\ Well(dome, roof) /\ dome \in Daemon /\ roof \in BartRoofs
      /\ master' \in [up : BOOLEAN, said : MasterStates]
  BY DEF IInv, TypeOK, Well
<1>1. CASE Idle
  <2>1. PICK q \in QuietClose(dome, roof, master) :
          \E w \in DomeIdle(q[1], q[2], master) : dome' = w[1] /\ roof' = w[2]
    BY <1>1 DEF Idle
  <2>2. PICK w \in DomeIdle(q[1], q[2], master) : dome' = w[1] /\ roof' = w[2]
    BY <2>1
  <2>3. Leaves(q, roof, FALSE) /\ (dome.state # "CLOSED" => q = <<dome, roof>>)
    BY <1>0, QuietCloseLeaves
  <2>4. /\ Leaves(w, q[2], FALSE)
        /\ Reliable /\ q[1].state = "CLOSING" /\ w[1].state = "CLOSED" => Cared(w[1], w[2], q[1].quiet)
    BY <2>3, DomeIdleLeaves DEF Leaves
  <2>5. Leaves(w, roof, IsGoodWeather(dome, master'))
    BY <2>3, <2>4 DEF Leaves
  <2> QED
    BY <1>0, <2>2, <2>3, <2>4, <2>5, LeavesKept
<1>2. CASE PostEvent \/ CommandClose \/ CloseFor
  <2> DEFINE n == [dome EXCEPT !.nextOpen = FALSE]
  <2>1. /\ NoTimer(dome) \in Daemon /\ NoTimer(dome).state = dome.state /\ NoTimer(dome).bop = dome.bop
        /\ n \in Daemon /\ n.state = dome.state /\ n.bop = dome.bop
    BY <1>0, StatesOfDaemon, ZenonT(60) DEF Daemon
  <2>2. \E d \in {NoTimer(dome), dome, n} : \E w \in DomeCloseStart(d, roof, FALSE) :
          dome' = w[1] /\ roof' = w[2]
    BY <1>2 DEF PostEvent, CommandClose, CloseFor
  <2> HIDE DEF n
  <2>3. PICK d \in {NoTimer(dome), dome, n} :
          \E w \in DomeCloseStart(d, roof, FALSE) : dome' = w[1] /\ roof' = w[2]
    BY <2>2
  <2>4. PICK w \in DomeCloseStart(d, roof, FALSE) : dome' = w[1] /\ roof' = w[2]
    BY <2>3
  <2>5. Well(d, roof)
    BY <1>0, <2>1 DEF Well, Turns
  <2>6. Leaves(w, roof, FALSE) /\ (w[1].state = "CLOSED" => w[2].pos = "closed" \/ w[1].retry)
    BY <2>5, CloseStartLeaves
  <2>7. Leaves(w, roof, IsGoodWeather(dome, master'))
    BY <2>6 DEF Leaves
  <2> QED
    BY <1>0, <2>4, <2>6, <2>7, LeavesKept DEF Cared
<1>3. CASE CommandOpen
  <2>1. PICK w \in DomeOpenStart(dome, roof, master) : dome' = w[1] /\ roof' = w[2]
    BY <1>3 DEF CommandOpen
  <2>2. /\ Leaves(w, roof, IsGoodWeather(dome, master'))
        /\ w[1].state = dome.state \/ w[1].state \in {"OPENED", "OPENING"}
    BY <1>0, OpenStartLeaves
  <2> QED
    BY <1>0, <2>1, <2>2, LeavesKept
<1>4. CASE CommandStop
  <2>1. dome' = NoTimer(dome) /\ roof' = roof
    BY <1>0, <1>4, BartDriverAssumption DEF CommandStop, DomeStop, BartStop
  <2>2. NoTimer(dome) \in Daemon /\ NoTimer(dome).state = dome.state /\ NoTimer(dome).bop = dome.bop
    BY <1>0, StatesOfDaemon
  <2> QED
    BY <1>0, <2>1, <2>2, AsideKept
<1> QED
  BY <1>1, <1>2, <1>3, <1>4

LEMMA MasterSaysKept ==
  ASSUME IInv, MasterSays
  PROVE  Kept
<1>1. PICK new \in Masters :
        /\ master' = [up |-> TRUE, said |-> new] /\ restarts' = restarts
        /\ \/ UNCHANGED <<dome, roof>>
           \/ \E w \in ChangeMasterState(dome, roof, master.said, master') : dome' = w[1] /\ roof' = w[2]
  BY DEF MasterSays, Becomes
<1>2. /\ Well(dome, roof) /\ dome \in Daemon /\ roof \in BartRoofs
      /\ master' \in [up : BOOLEAN, said : MasterStates]
  BY <1>1, MastersAssumption DEF IInv, TypeOK, Well
<1>3. CASE UNCHANGED <<dome, roof>>
  BY <1>1, <1>2, <1>3, AsideKept
<1>4. ASSUME NEW w \in ChangeMasterState(dome, roof, master.said, master'),
             dome' = w[1], roof' = w[2]
      PROVE  Kept
  <2> DEFINE c == [dome EXCEPT !.ignore = FALSE]
  <2>1. c \in Daemon /\ c.state = dome.state /\ c.bop = dome.bop
    BY <1>2 DEF Daemon
  <2>2. \/ w = <<dome, roof>> \/ w = <<c, roof>>
        \/ w \in DomeOpenStart(dome, roof, master') \/ w \in DomeCloseStart(c, roof, FALSE)
    BY DEF ChangeMasterState, Observing, StandbyOff
  <2> HIDE DEF c
  <2>3. CASE w = <<dome, roof>> \/ w = <<c, roof>>
    BY <1>1, <1>2, <1>4, <2>1, <2>3, AsideKept
  <2>4. CASE w \in DomeOpenStart(dome, roof, master')
    <3>1. /\ Leaves(w, roof, IsGoodWeather(dome, master'))
          /\ w[1].state = dome.state \/ w[1].state \in {"OPENED", "OPENING"}
      BY <1>2, <2>4, OpenStartLeaves
    <3> QED
      BY <1>1, <1>2, <1>4, <3>1, LeavesKept
  <2>5. CASE w \in DomeCloseStart(c, roof, FALSE)
    <3>1. Well(c, roof)
      BY <1>2, <2>1 DEF Well, Turns
    <3>2. Leaves(w, roof, FALSE) /\ (w[1].state = "CLOSED" => w[2].pos = "closed" \/ w[1].retry)
      BY <2>5, <3>1, CloseStartLeaves
    <3>3. Leaves(w, roof, IsGoodWeather(dome, master'))
      BY <3>2 DEF Leaves
    <3> QED
      BY <1>1, <1>2, <1>4, <3>2, <3>3, LeavesKept DEF Cared
  <2> QED
    BY <2>2, <2>3, <2>4, <2>5
<1> QED
  BY <1>1, <1>3, <1>4

LEMMA RestartKept ==
  ASSUME IInv, Restart
  PROVE  Kept
<1>1. roof \in BartRoofs
  BY DEF IInv, Well
<1>2. roof' \in BartRoofs /\ roof'.motor = roof.motor /\ roof'.closing = roof.closing
  BY <1>1, BartDriverAssumption DEF Restart, BartReboot, BartRoofs
<1>3. Well(dome', roof')
  <2>1. Well(dome', roof)
    BY <1>1, FirstWell DEF Restart
  <2> QED
    BY <1>2, <2>1 DEF Well, Turns
<1>4. master' \in [up : BOOLEAN, said : MasterStates] /\ restarts' \in 0 .. MaxRestarts
  BY RetriesAssumption DEF Restart, NoMaster, MasterStates, IInv, TypeOK
<1>5. IInv'
  BY <1>2, <1>3, <1>4, BartDriverAssumption DEF IInv, TypeOK, Well
<1>6. OpensInGoodWeather
  BY <1>2 DEF OpensInGoodWeather, MotorOpens
<1>7. Retried
  BY RetriesAssumption DEF Retried, Restart, IInv, TypeOK
<1> QED
  BY <1>5, <1>6, <1>7 DEF Kept

LEMMA RoofKept ==
  ASSUME IInv, RoofTravels \/ MoveTimesOut \/ HandMoves
  PROVE  Kept
<1>1. /\ dome \in Daemon /\ roof \in BartRoofs /\ master \in [up : BOOLEAN, said : MasterStates]
  BY DEF IInv, TypeOK, Well
<1>2. UNCHANGED <<dome, master, restarts>>
  BY DEF RoofTravels, MoveTimesOut, HandMoves
<1>3. roof' \in BartRoofs /\ roof'.motor = roof.motor /\ roof'.closing = roof.closing
  <2>1. CASE RoofTravels
    BY <1>1, <2>1, BartDriverAssumption, TravelDrifts DEF RoofTravels, Drifts
  <2>2. CASE MoveTimesOut
    <3>1. roof' = [roof EXCEPT !.openTimer = "past"] \/ roof' = [roof EXCEPT !.closeTimer = "past"]
      BY <1>1, <2>2, BartDriverAssumption DEF MoveTimesOut, BartTimeout
    <3> QED
      BY <1>1, <3>1 DEF BartRoofs
  <2>3. CASE HandMoves
    <3>1. \E p \in {"closed", "mid", "open"} : roof' = [roof EXCEPT !.pos = p]
      BY <1>1, <2>3, BartDriverAssumption DEF HandMoves, BartByHand
    <3> QED
      BY <1>1, <3>1 DEF BartRoofs
  <2> QED
    BY <2>1, <2>2, <2>3
<1> QED
  BY <1>1, <1>2, <1>3, AsideKept

LEMMA ClocksKept ==
  ASSUME IInv, ResetNext \/ SetIgnore \/ MasterLost \/ Delivered
               \/ Settle \/ NextOpenPasses \/ IgnoreEnds \/ ContactAges
  PROVE  Kept
<1>1. /\ dome \in Daemon /\ roof \in BartRoofs /\ master \in [up : BOOLEAN, said : MasterStates]
  BY DEF IInv, TypeOK, Well
<1>2. restarts' = restarts /\ roof' = roof
  BY DEF ResetNext, SetIgnore, MasterLost, Delivered, Settle, NextOpenPasses, IgnoreEnds, ContactAges
<1>3. master' \in [up : BOOLEAN, said : MasterStates]
  BY <1>1 DEF ResetNext, SetIgnore, MasterLost, Delivered, Settle, NextOpenPasses, IgnoreEnds, ContactAges
<1>4. dome' \in Daemon /\ dome'.state = dome.state /\ dome'.bop = dome.bop
  <2>1. CASE ResetNext \/ NextOpenPasses
    BY <1>1, <2>1 DEF ResetNext, NextOpenPasses, Daemon
  <2>2. CASE SetIgnore \/ IgnoreEnds
    BY <1>1, <2>2, ZenonT(60) DEF SetIgnore, IgnoreEnds, Daemon
  <2>3. CASE MasterLost
    BY <1>1, <2>3 DEF MasterLost
  <2>4. CASE Delivered
    <3>1. PICK c \in dome.sent : dome' = [dome EXCEPT !.sent = @ \ {c}]
      BY <2>4 DEF Delivered
    <3> QED
      BY <1>1, <3>1 DEF Daemon
  <2>5. CASE Settle \/ ContactAges
    BY <1>1, <2>5, ZenonT(60) DEF Settle, ContactAges, Daemon
  <2> QED
    BY <2>1, <2>2, <2>3, <2>4, <2>5
<1> QED
  BY <1>1, <1>2, <1>3, <1>4, AsideKept

LEMMA StepIInv == IInv /\ [Next]_vars => Kept
<1> SUFFICES ASSUME IInv, [Next]_vars PROVE Kept
  OBVIOUS
<1>1. CASE Idle \/ PostEvent \/ CommandOpen \/ CommandClose \/ CommandStop \/ CloseFor
  BY <1>1, HandlersKept DEF Idle, PostEvent, CommandOpen, CommandClose, CommandStop, CloseFor
<1>2. CASE MasterSays
  BY <1>2, MasterSaysKept
<1>3. CASE Restart
  BY <1>3, RestartKept
<1>4. CASE RoofTravels \/ MoveTimesOut \/ HandMoves
  BY <1>4, RoofKept
<1>5. CASE ResetNext \/ SetIgnore \/ MasterLost \/ Delivered
           \/ Settle \/ NextOpenPasses \/ IgnoreEnds \/ ContactAges
  BY <1>5, ClocksKept
<1>6. CASE UNCHANGED vars
  BY <1>6, AsideKept DEF vars, IInv, TypeOK, Well
<1> QED
  BY <1>1, <1>2, <1>3, <1>4, <1>5, <1>6 DEF Next

-----------------------------------------------------------------------------
(* The theorems.                                                           *)

LEMMA Invariance == Spec => []IInv
<1>1. IInv /\ [Next]_vars => IInv'
  BY StepIInv DEF Kept
<1> QED
  BY <1>1, InitIInv, PTL DEF Spec

\* The daemon's values and the driver's keep their types whatever fails; in particular the
\* count of retries stays below its limit (Dome::closeFailed).
THEOREM TypeCorrect == Spec => []TypeOK
<1>1. IInv => TypeOK
  BY DEF IInv
<1> QED
  BY <1>1, Invariance, PTL

\* Exposures and moves are blocked exactly while the roof opens, whatever the driver answers
\* and however the opening ends (domeOpenStart, domeCloseStart, checkOpening).
THEOREM BlockedWhileOpening == Spec => []OpeningBlocksMoves
<1>1. IInv => OpeningBlocksMoves
  BY DEF IInv, Well, OpeningBlocksMoves
<1> QED
  BY <1>1, Invariance, PTL

\* On a reliable line a running motor turns the way the daemon believes (startOpen and
\* startClose of the driver, which look at the direction before they start).
THEOREM DirectionKept == ~LineFails => (Spec => []DirectionMatchesState)
<1> SUFFICES ASSUME ~LineFails PROVE Spec => []DirectionMatchesState
  OBVIOUS
<1>1. IInv => DirectionMatchesState
  BY DEF IInv, Well, Turns, DirectionMatchesState
<1> QED
  BY <1>1, Invariance, PTL

\* On a reliable line no step of any handler turns the motor to opening but in good weather
\* or when an operator said to ignore it (domeOpenStart is the only way to startOpen).
THEOREM OpensWhenGood == ~LineFails => (Spec => OpensOnlyInGoodWeather)
<1> SUFFICES ASSUME ~LineFails PROVE Spec => OpensOnlyInGoodWeather
  OBVIOUS
<1>1. IInv /\ [Next]_vars => OpensInGoodWeather
  BY StepIInv DEF Kept
<1> QED
  BY <1>1, Invariance, PTL DEF Spec, OpensOnlyInGoodWeather, OpensInGoodWeather

\* A close that ends with the roof open is retried, used up or quiet: on a reliable line, and
\* on any line when the closed switch is dead (checkOpening and closeFailed).
THEOREM CloseRetried == ~LineFails \/ "closed" \in DeadSwitches => (Spec => FailedCloseRetried)
<1> SUFFICES ASSUME Reliable PROVE Spec => FailedCloseRetried
  BY DEF Reliable
<1>1. IInv /\ [Next]_vars => Retried
  BY StepIInv DEF Kept
<1> QED
  BY <1>1, Invariance, PTL DEF Spec, FailedCloseRetried, Retried


==============================================================================
