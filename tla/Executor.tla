------------------------------ MODULE Executor ------------------------------
(***************************************************************************)
(* The executor (rts2plan::Executor), its queue of targets and the clients *)
(* it drives: a script on every camera (DevScript, DevClientCameraExec)    *)
(* and the telescope (DevClientTelescopeExec).  A target is executed as an *)
(* object of class Target: two requests for one target are two objects.    *)
(* A handler is a function on the process, as events call each other.      *)
(***************************************************************************)
EXTENDS Naturals, Sequences, SequencesExt, Selection

CONSTANTS
  Targets,       \* the targets of the database
  CameraOrder,   \* cameras, in the order of the executor's connections
  Scripts,       \* the targets with a script, of every camera
  MaxObjects,    \* bound on the targets created
  MaxCommands,   \* bound on what waits for a camera when it is sent more
  MaxMoves,      \* bound on the moves that wait for the telescope
  MaxInputs      \* bound on what the operator, the clock and the sky do

Cameras == Range(CameraOrder)

ASSUME OrderAssumption == CameraOrder \in Seq(Cameras)
ASSUME ScriptsAssumption ==
  Scripts \in [Cameras -> SUBSET Targets] /\ \A t \in Targets : \E c \in Cameras : t \in Scripts[c]
ASSUME BoundsAssumption == MaxObjects \in Nat /\ MaxCommands \in Nat /\ MaxMoves \in Nat \ {0} /\ MaxInputs \in Nat

VARIABLES
  exec,    \* the process and what its devices are doing
  sky,     \* the targets above the horizon
  inputs   \* commands, changes of the night and of the sky so far

vars == <<exec, sky, inputs>>

NULL == 0
Objects == 1..MaxObjects
Pointer == Objects \cup {NULL}

Target == [id : Targets, started : BOOLEAN, obs : {"none", "open", "closed"},
           move : {"not", "started", "ended", "failed"}]

\* window: no times, starts later, started, ended
Entry == [target : Objects, window : {"none", "later", "now", "over"}]

Script == [current : Pointer, next : Pointer, kill : Pointer,
           todo : BOOLEAN,             \* nextComd: the exposure waits for the move
           que : Seq({"expose", "killall"}),
           exposing : BOOLEAN, reading : BOOLEAN]

Process == [current : Pointer, queue : Seq(Entry), autoLoop : BOOLEAN, enabled : BOOLEAN,
            end : BOOLEAN,             \* EXEC_END
            held : BOOLEAN,            \* the current target was left with no script to end it
            night : {"day", "morning", "night"},
            targets : Seq(Target), deleted : SUBSET Objects, script : [Cameras -> Script],
            tel : [current : Pointer, moves : 0..MaxMoves, slewing : BOOLEAN]]

TypeOK == exec \in Process /\ Len(exec.targets) <= MaxObjects /\ sky \in SUBSET Targets /\ inputs \in 0..MaxInputs

-----------------------------------------------------------------------------
(* Scripts of the cameras.                                                 *)

WasMoved(p, o) == p.targets[o].move \in {"ended", "failed"}

\* an empty script sits the target out
StartTarget(p, c) ==
  LET s == p.script[c] IN
  IF s.current # NULL \/ s.next = NULL THEN s
  ELSE IF p.targets[s.next].id \in Scripts[c]
       THEN [s EXCEPT !.current = s.next, !.next = NULL, !.todo = TRUE]
       ELSE [s EXCEPT !.next = NULL]

NextCommand(p, s) ==
  IF s.todo /\ WasMoved(p, s.current)
  THEN [s EXCEPT !.todo = FALSE, !.que = Append(@, "expose")]
  ELSE s

\* EVENT_SET_TARGET at one camera
SetTarget(p, c, o) ==
  LET q == [p EXCEPT !.script[c].next = o] IN
  IF q.script[c].current # NULL THEN q.script[c] ELSE NextCommand(q, StartTarget(q, c))

\* EVENT_OBSERVE
Observe(p) == [p EXCEPT !.script = [c \in Cameras |-> NextCommand(p, StartTarget(p, c))]]

\* EVENT_KILL_ALL; a killTarget stays
KillAll(p) ==
  [p EXCEPT !.script = [c \in Cameras |->
    [p.script[c] EXCEPT !.current = NULL, !.next = NULL, !.todo = FALSE,
                        !.que = Append(@, "killall")]]]

\* EVENT_SCRIPT_RUNNING_QUESTION
Running(s) == s.current # NULL \/ s.kill # NULL \/ s.next # NULL
NoneRunning(p) == \A c \in Cameras : ~Running(p.script[c])

-----------------------------------------------------------------------------
(* The queue.                                                              *)

InQueue(p) == {e.target : e \in Range(p.queue)}

\* mutant: a target that was observed stays in the queue
FilterTimes(p) ==
  LET q == [p EXCEPT !.queue = Selected(@, {e \in Range(@) : e.window # "over"})]
  IN [q EXCEPT !.deleted = @ \cup (InQueue(p) \ (InQueue(q) \cup {p.current}))]

\* a request whose time has come removes what is queued before it
FilterExpired(p) ==
  LET due  == {i \in DOMAIN p.queue : p.queue[i].window \in {"now", "over"}}
      from == IF due = {} THEN 1 ELSE CHOOSE i \in due : \A j \in due : j <= i
      open == {e \in Range(p.queue) : e.window # "over" /\ ~p.targets[e.target].started}
      q    == [p EXCEPT !.queue = Selected(SubSeq(@, from, Len(@)), open)]
  IN [q EXCEPT !.deleted = @ \cup (InQueue(p) \ (InQueue(q) \cup {p.current}))]

\* targets below the horizon go behind the first one that is up
FilterUnobservable(queue, up, ids) ==
  LET ups     == {i \in DOMAIN queue : ids[queue[i].target].id \in up}
      first   == IF ups = {} THEN Len(queue) + 1 ELSE CHOOSE i \in ups : \A j \in ups : i <= j
      skipped == SubSeq(queue, 1, first - 1)
      rest    == SubSeq(queue, first, Len(queue))
  IN IF rest # <<>> /\ Head(rest).window \in {"none", "now"}
     THEN <<Head(rest)>> \o skipped \o Tail(rest)
     ELSE skipped \o rest

Filter(p) == [p EXCEPT !.queue = FilterUnobservable(@, sky, p.targets)]

BeforeChange(p) == Filter(FilterExpired(p))

\* mutant: the entry of the current target is deleted as well
ClearWithCurrent(p) == [p EXCEPT !.queue = <<>>, !.autoLoop = TRUE, !.deleted = @ \cup InQueue(p)]

\* mutant: the current target is deleted as well
ClearCurrent(p) ==
  [p EXCEPT !.queue = <<>>, !.autoLoop = TRUE, !.deleted = @ \cup InQueue(p) \cup {p.current}]

ClearNextTargets(p) ==
  [p EXCEPT !.queue = <<>>, !.autoLoop = TRUE, !.deleted = @ \cup (InQueue(p) \ {p.current})]

-----------------------------------------------------------------------------
(* The executor.                                                           *)

EndObservation(p) ==
  IF p.current = NULL THEN p
  ELSE LET t == p.targets[p.current]
       IN [p EXCEPT !.targets[p.current] =
            [t EXCEPT !.started = FALSE, !.obs = IF t.obs = "open" THEN "closed" ELSE t.obs]]

\* EVENT_SLEW_TO_TARGET: syncTarget opens an observation, or resynchronises when the
\* target has had one; an ended target keeps its number and opens none again
Slew(p) ==
  LET t == p.targets[p.current]
  IN [p EXCEPT !.targets[p.current] =
        [t EXCEPT !.move = "started", !.obs = IF t.obs = "none" THEN "open" ELSE t.obs],
               !.tel.moves = IF @ < MaxMoves THEN @ + 1 ELSE @]

\* mutant: the observation is not ended
DropOpen(p) == ClearNextTargets([p EXCEPT !.current = NULL, !.held = FALSE])

\* the executor has no current target any more
Drop(p) == ClearNextTargets([EndObservation(p) EXCEPT !.current = NULL, !.held = FALSE])

\* EVENT_SET_TARGET
SetTargetAll(p) ==
  [p EXCEPT !.script = [c \in Cameras |-> SetTarget(p, c, p.current)], !.tel.current = p.current]

\* with auto_loop off a started target is left without being ended
LeaveStarted(p) ==
  IF ~p.autoLoop /\ p.current # NULL /\ p.targets[p.current].started
  THEN [p EXCEPT !.current = NULL] ELSE p

TakeFront(p) ==
  IF p.queue = <<>> THEN p
  ELSE [EndObservation(p) EXCEPT !.current = Head(p.queue).target]

Execute(p) == IF p.current = NULL THEN p ELSE Slew(SetTargetAll(p))

DoSwitch(p) ==
  Execute([TakeFront(LeaveStarted(BeforeChange(p))) EXCEPT !.autoLoop = TRUE, !.held = FALSE])

\* no script runs, and nobody is told: the current target stays
Held(p) == [p EXCEPT !.held = @ \/ (p.current # NULL /\ NoneRunning(p))]

SwitchTarget(p) ==
  IF ~p.enabled THEN Held(ClearNextTargets(p))
  ELSE IF p.end \/ (~p.autoLoop /\ p.queue = <<>>)
       THEN Drop([(IF p.autoLoop THEN KillAll(p) ELSE p) EXCEPT !.end = FALSE])
  ELSE IF p.night = "night" THEN DoSwitch(p)
  ELSE Drop(p)

\* a target whose script ends before an exposure counts as observed
StartObservation(p) ==
  IF p.current = NULL THEN p ELSE [p EXCEPT !.targets[p.current].started = TRUE]

\* a camera without a script takes the target that waits for it
StartWaiting(p) ==
  [p EXCEPT !.script = [c \in Cameras |->
     IF p.script[c].current # NULL THEN p.script[c] ELSE NextCommand(p, StartTarget(p, c))]]

\* EVENT_SCRIPT_ENDED: first the executor, then the clients
ScriptEnded(p) ==
  StartWaiting(IF NoneRunning(p) THEN SwitchTarget(StartObservation(p)) ELSE p)

DeleteScript(p, c) ==
  IF p.script[c].current = NULL THEN p
  ELSE ScriptEnded([p EXCEPT !.script[c] = [@ EXCEPT !.current = NULL, !.todo = FALSE]])

\* EVENT_STOP_OBSERVATION: the end of one script may start the next target
StopObservation(p) ==
  LET stopped[i \in 0 .. Len(CameraOrder)] ==
        IF i = 0 THEN p ELSE DeleteScript(stopped[i - 1], CameraOrder[i])
  IN stopped[Len(CameraOrder)]

\* mutant: the other scripts are not counted
SwitchAlways(p) == SwitchTarget(p)

\* EVENT_LAST_READOUT and the end of a failed move
SwitchIfDone(p) == IF NoneRunning(p) THEN SwitchTarget(p) ELSE p

\* mutant: an executor that was told to end does not observe
MoveOkUnlessEnd(p) == IF p.current = NULL \/ p.end THEN p ELSE Observe(p)

\* EVENT_MOVE_OK
MoveOk(p) == IF p.current = NULL THEN p ELSE Observe(p)

\* EVENT_MOVE_FAILED
MoveFailed(p) == SwitchIfDone(StopObservation(p))

DoStop(p) == SwitchIfDone(StopObservation(KillAll(ClearNextTargets(p))))

Create(p, t) ==
  [p EXCEPT !.targets = Append(@, [id |-> t, started |-> FALSE, obs |-> "none",
                                   move |-> "not"])]

AddTarget(p, t, w) ==
  LET q == Create(p, t)
  IN [q EXCEPT !.queue = Append(@, [target |-> Len(q.targets), window |-> w])]

QueueTarget(p, t, w) ==
  LET q == AddTarget(p, t, w) IN IF q.current = NULL THEN SwitchTarget(q) ELSE q

SetNext(p, t) ==
  IF p.queue # <<>> /\ p.targets[Head(p.queue).target].id = t THEN p
  ELSE QueueTarget(IF p.queue # <<>> THEN ClearNextTargets(p) ELSE p, t, "none")

\* clearAll: of the queued commands only one already sent is left
ClearAll(p, sent) ==
  [p EXCEPT !.script = [c \in Cameras |->
              [p.script[c] EXCEPT !.que = IF c \in sent /\ @ # <<>> THEN <<Head(@)>> ELSE <<>>]],
            !.tel.moves = IF @ > 0 THEN 1 ELSE 0]

\* mutant: the scripts of the interrupted target are left running
SetTargetNoKill(p) == [p EXCEPT !.tel.current = p.current]

\* EVENT_SET_TARGET_KILL at the cameras and the telescope
SetTargetKill(p) ==
  LET k == KillAll(p)
  IN [k EXCEPT !.script = [c \in Cameras |-> [k.script[c] EXCEPT !.kill = p.current]],
               !.tel.current = p.current]

SetNowTo(p, t, sent) ==
  LET n == Create(EndObservation(p), t)
      q == ClearNextTargets([n EXCEPT !.current = Len(n.targets), !.held = FALSE])
  IN Slew(SetTargetKill(ClearAll(q, sent)))

SetNow(p, t, sent) == IF p.current = NULL THEN SetNext(p, t) ELSE SetNowTo(p, t, sent)

-----------------------------------------------------------------------------
(* What the executor is told.                                              *)

Idle == [current |-> NULL, next |-> NULL, kill |-> NULL, todo |-> FALSE, que |-> <<>>,
         exposing |-> FALSE, reading |-> FALSE]

Init ==
  /\ \E night \in {"day", "night"} : exec =
            [current |-> NULL, queue |-> <<>>, autoLoop |-> TRUE, enabled |-> TRUE,
             end |-> FALSE, held |-> FALSE, night |-> night, targets |-> <<>>, deleted |-> {},
             script |-> [c \in Cameras |-> Idle],
             tel |-> [current |-> NULL, moves |-> 0, slewing |-> FALSE]]
  /\ sky = Targets
  /\ inputs = 0

Input == inputs < MaxInputs /\ inputs' = inputs + 1

Told(p) == Input /\ exec' = p /\ UNCHANGED sky

Becomes(p) == exec' = p /\ UNCHANGED <<sky, inputs>>

CanCreate == Len(exec.targets) < MaxObjects

\* bound: what sends the cameras more waits for them to catch up
CanSend == \A c \in Cameras : Len(exec.script[c].que) < MaxCommands

Queue == CanCreate /\ CanSend /\ \E t \in Targets, w \in {"none", "later", "now"} :
           Told(QueueTarget(exec, t, w))

NextTarget == CanCreate /\ CanSend /\ \E t \in Targets : Told(SetNext(exec, t))

Now == CanCreate /\ CanSend /\ \E t \in Targets, sent \in SUBSET Cameras :
         Told(SetNow(exec, t, sent))

Skip == CanCreate /\ CanSend /\ exec.queue # <<>> /\ \E sent \in SUBSET Cameras :
          Told(SetNow(exec, exec.targets[Head(exec.queue).target].id, sent))

\* a burst interrupts, or is queued when it is close to the current target
Grb == CanCreate /\ CanSend /\ exec.night = "night" /\ \E t \in Targets :
  \/ \E sent \in SUBSET Cameras : Told(SetNowTo(exec, t, sent))
  \/ exec.current # NULL /\ Told(AddTarget(ClearNextTargets(exec), t, "none"))

End == Told([exec EXCEPT !.end = TRUE])

Stop == CanSend /\ Told(DoStop([exec EXCEPT !.end = TRUE]))

Clear == Told(ClearNextTargets(exec))

SetAutoLoop == \E b \in BOOLEAN : Told([exec EXCEPT !.autoLoop = b])

\* the value is set after the hook that stops
Disable == exec.enabled /\ CanSend /\ Told([DoStop(exec) EXCEPT !.enabled = FALSE])

Enable == ~exec.enabled /\ Told([exec EXCEPT !.enabled = TRUE])

ChangeMasterState == CanSend /\ \E n \in {"day", "morning", "night"} \ {exec.night} :
  LET p == [exec EXCEPT !.night = n]
      q == [p EXCEPT !.end = FALSE]
  IN Told(IF n = "day" THEN DoStop(p)
             ELSE IF q.current = NULL /\ q.queue # <<>> THEN SwitchTarget(q) ELSE q)

-----------------------------------------------------------------------------
(* What the devices do.                                                    *)

\* DevClientCameraExecDb::exposureStarted
ExposureStarts(c) ==
  LET s == exec.script[c] IN
  /\ ~s.exposing /\ ~s.reading /\ s.que # <<>> /\ Head(s.que) = "expose"
  /\ Becomes([exec EXCEPT !.script[c] = [s EXCEPT !.que = Tail(@), !.exposing = TRUE],
                          !.targets = IF s.current = NULL THEN @
                                      ELSE [@ EXCEPT ![s.current].started = TRUE]])

\* the last exposure of a script ends it, the readout goes on
ExposureEnds(c) ==
  LET p == [exec EXCEPT !.script[c] = [@ EXCEPT !.exposing = FALSE, !.reading = TRUE]]
      s == p.script[c]
  IN /\ exec.script[c].exposing
     /\ Becomes(IF s.current # NULL /\ ~s.todo /\ "expose" \notin Range(s.que)
                THEN SwitchIfDone(DeleteScript(p, c)) ELSE p)

ReadoutEnds(c) ==
  LET p == [exec EXCEPT !.script[c].reading = FALSE]
  IN /\ exec.script[c].reading
     /\ Becomes(IF p.script[c].current = NULL THEN ScriptEnded(p) ELSE p)

\* the camera has executed a killall; only the latest one is looked at
Killed(c) ==
  LET s == [exec.script[c] EXCEPT !.que = Tail(@), !.exposing = FALSE, !.reading = FALSE]
      p == [exec EXCEPT !.script[c] = s]
  IN /\ exec.script[c].que # <<>> /\ Head(exec.script[c].que) = "killall"
     /\ Becomes(IF "killall" \in Range(s.que) THEN p
                ELSE LET t == IF s.current = NULL /\ s.kill # NULL
                              THEN SetTarget(p, c, s.kill) ELSE s
                     IN Held([p EXCEPT !.script[c] = [t EXCEPT !.kill = NULL]]))

\* the telescope's client writes to the target it saw last, whoever was moved to
Moved(p, result) ==
  IF p.tel.current = NULL THEN p
  ELSE [p EXCEPT !.targets[p.tel.current].move = result]

MoveStarts ==
  /\ exec.tel.moves > 0
  /\ Becomes([exec EXCEPT !.tel.moves = @ - 1, !.tel.slewing = TRUE])

MoveRefused ==
  /\ exec.tel.moves > 0 /\ CanSend
  /\ Becomes(MoveFailed(Moved([exec EXCEPT !.tel.moves = @ - 1], "failed")))

MoveEnds ==
  /\ exec.tel.slewing
  /\ Becomes(MoveOk(Moved([exec EXCEPT !.tel.slewing = FALSE], "ended")))

MoveBreaks ==
  /\ exec.tel.slewing /\ CanSend
  /\ Becomes(MoveFailed(Moved([exec EXCEPT !.tel.slewing = FALSE], "failed")))

-----------------------------------------------------------------------------

TimePasses == \E i \in DOMAIN exec.queue :
  LET w == exec.queue[i].window IN
  /\ w \in {"later", "now"}
  /\ Told([exec EXCEPT !.queue[i].window = IF w = "later" THEN "now" ELSE "over"])

SkyTurns == \E up \in SUBSET Targets : up # sky /\ sky' = up /\ Input /\ UNCHANGED exec

CameraSteps == \E c \in Cameras :
  ExposureStarts(c) \/ ExposureEnds(c) \/ ReadoutEnds(c) \/ Killed(c)

Operator == Queue \/ NextTarget \/ Now \/ Skip \/ Grb \/ End \/ Stop \/ Clear \/ SetAutoLoop
            \/ Disable \/ Enable

Next == Operator \/ ChangeMasterState \/ CameraSteps
        \/ MoveStarts \/ MoveRefused \/ MoveEnds \/ MoveBreaks \/ TimePasses \/ SkyTurns

Spec == Init /\ [][Next]_vars

CameraStep(c) == ExposureStarts(c) \/ ExposureEnds(c) \/ ReadoutEnds(c) \/ Killed(c)
TelescopeStep == MoveStarts \/ MoveRefused \/ MoveEnds \/ MoveBreaks

CameraBusy(c) == exec.script[c].que # <<>> \/ exec.script[c].exposing \/ exec.script[c].reading
TelescopeBusy == exec.tel.moves > 0 \/ exec.tel.slewing

(* The cameras execute what they are sent, exposures and readouts end, and *)
(* a move is taken or refused and ends or fails: weak fairness, with what  *)
(* enables the steps written out, as TLC is slow at it.                    *)
FairSpec ==
  /\ Spec
  /\ \A c \in Cameras : []<>~CameraBusy(c) \/ []<><<CameraStep(c)>>_vars
  /\ []<>~TelescopeBusy \/ []<><<TelescopeStep>>_vars

-----------------------------------------------------------------------------
(* Properties.                                                             *)

(* Whatever is queued, interrupted, stopped or killed, no camera works for *)
(* another target than the executor's (SET_TARGET, SET_TARGET_KILL, the    *)
(* OK of a killall that was overtaken).                                    *)
ScriptsFollowTarget ==
  \A c \in Cameras : LET s == exec.script[c] IN
    {s.current, s.next, s.kill} \subseteq {NULL, exec.current}

(* Neither the executor, nor its queue, nor a camera's script holds a      *)
(* target that the queue has deleted (clearNext, removeEntry).  The        *)
(* telescope's client, whose pointer is never cleared (execcli.cpp:531 and *)
(* 709), is not among them.                                                *)
TargetsAlive ==
  LET held == {exec.current} \cup InQueue(exec) \cup
              UNION {{exec.script[c].current, exec.script[c].next, exec.script[c].kill} : c \in Cameras}
  IN held \cap exec.deleted = {}

(* A script that has not exposed waits for a move of the telescope that is *)
(* on its way, and one that has nothing left to send is being exposed: no  *)
(* script waits for an event that cannot come.                             *)
NoScriptForgotten ==
  \A c \in Cameras : LET s == exec.script[c] IN s.current # NULL =>
    \/ s.todo /\ exec.tel.current = s.current /\ (exec.tel.moves > 0 \/ exec.tel.slewing)
    \/ s.exposing \/ "expose" \in Range(s.que)

(* A target has a script that will end it.  Known exceptions: an executor  *)
(* that was disabled, and a camera whose killall is done after the last    *)
(* script has ended and that has no script for the new target.             *)
TargetWorkedOn == exec.current = NULL \/ exec.held \/ ~NoneRunning(exec)

(* A target that the executor gives up is not left with an open            *)
(* observation in the database, unless auto_loop was off.                  *)
ObservationsClosed ==
  [][\A o \in DOMAIN exec.targets :
       exec.current = o /\ exec'.current # o /\ exec.autoLoop => exec'.targets[o].obs # "open"]_vars

(* Every queued target is executed or removed, also when moves fail: the   *)
(* same target is not tried for ever.  An executor that was disabled while *)
(* it had a target keeps it for good.                                      *)
QueueServed ==
  \A o \in Objects : o \in InQueue(exec) ~> (o \notin InQueue(exec) \/ exec.current = o \/ exec.held)

(* "if false, executor will not perform its duties, thus enabling          *)
(* problem-free full manual control" (executor.cpp:184): a disabled        *)
(* executor asks no camera for an exposure.                                *)
Asked(p, c) == "expose" \in Range(p.script[c].que)

DisabledStartsNothing ==
  [][~exec.enabled => \A c \in Cameras : Asked(exec', c) => Asked(exec, c)]_vars
=============================================================================
