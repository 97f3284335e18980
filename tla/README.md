# A verification development of rts2ng

rts2ng runs a robotic observatory.  A central server (`rts2-centrald`), one
daemon per device (dome, mount, camera, sensors ...) and client services
(executor, image processing, monitors) talk over a text protocol on TCP.  This
directory holds TLA+ modules that model parts of it, the TLC configurations that
check them on small instances, and proofs that TLAPS checks.  `PROJECT.json`
maps every definition to the lines it models.

## 1. The system

| part | state it keeps | operations | talks to |
|---|---|---|---|
| **centrald** (`base/centrald`) | connections with the last status word of every device; on/off state, period of the day, weather and stop bits; open/close sequence, its timers and failed devices | `register`, `on/standby/off`, forced periods, `open/close`, status of devices, `idle` (sun), `connectionRemoved`, close timer | every daemon and client; sends them the state word, sends `open`/`close` to devices |
| **connection, block** (`base/kernel`) | link state, command queue, running command, authorization | send, reply, `queCommand`, drop, reconnect, handshake | two per pair of programs |
| **daemon, device** | status word, values, queue of value changes, timers | `maskState`, `setCondValue`, `checkQueChanges`, `autosave`, fork and watchdog | its own handlers |
| **dome** (`base/dome/src`) | DOME_* state, blocking bits, close retries and their timer, next_open, ignore_time | `open`, `close`, `stop`, `close_for`, `reset_next`, `idle`, master state changes | centrald (state in; `on`/`standby` out), the driver |
| **dome drivers** (`bart`, `d50`, `zelio`, `perek2m`) | move timeouts, relays, end switches | the virtuals of `dome.h` | serial boards, the roof, for D50 the mount |
| **teld** | motion, tracking, model and corrections, MOVE_NUM and move_completed, blocking bit, block_move | `move`, `resync`, `altaz`, `change`, `correct`, `park`, `stop`, `script_ends`, values, `idle` | centrald, the driver, imgproc, executor |
| **camd** | exposure and readout bits, queued exposures, queued values, filter and focuser in motion | `expose`, `stopexpo`, `killall`, `script_ends`, values, `idle`, exit | centrald, wheel and focuser, executor |
| **focusd, filterd** | one position in motion | a value, `idle` | camera |
| **sensord** | measured values, weather vote | timers, thresholds | centrald |
| **executor, script** | current target, queue, enabled, auto_loop; on every camera the current, next and kill target of a script and its prepared command | `queue`, `next`, `now`, `skip`, `grb`, `end`, `stop`, `clear`, period changes; exposures, readouts, moves, answers of `killall` | cameras and mount (as a client), database |
| **imgproc** | image queue, astrometry processes | process an image, send `correct` | mount, database |
| monitors, web, database, images, vendored libraries | views, files | user commands | as clients |

Daemons are single threaded: the main loop of `Block` polls, runs the handler of
each message to its end, fires timers and calls `idle`.  So a handler is one
step, and what interleaves is handlers of one daemon, and daemons with each
other.  Two things are *not* atomic: hardware goes on moving while a driver
function waits for its serial line, and a message takes effect later at the peer.

What makes the system hard:

* votes: one bit for the observatory is computed from the last reports of many
  devices that come, break and vanish;
* sequences with timers that outlive the sequence they were armed for;
* handlers call each other: starting an exposure changes the state, which frees queued
  values, which may start an exposure; ending a script posts an event that starts the
  next target before the loop that ended the script is over;
* blocking bits are exclusion between processes, computed by centrald from reports that
  are on their way, and asked for by a command that travels there and back;
* every handler of the dome may open, close, cancel or retry, against a roof that
  moves meanwhile and a line that may fail;
* state read from a peer is old when it is used.

What makes each part correct:

* centrald: bad weather or a stop vote of any device counts at once and until it is
  withdrawn; required devices are needed for good weather; the sun never switches
  the system on; devices open and close in order, each with a timeout;
* dome: opens only in good weather, always closes in bad weather, the motor runs
  only during a move and in its direction, failed closes are retried and reported;
* connections: every command is answered once, or fails with its connection; a
  command with a blocking mask is sent only when the mask is clear;
* value queue: changes apply in the order they came, and none is lost;
* camera: a waiting exposure is never forgotten, starts only unblocked, and holds the
  mount exactly while it exposes;
* mount: corrections are applied once, to the model their image was taken with; nothing
  moves in the stop state; move_completed means what it says;
* executor, script: cameras work for the executor's target and for no other; no script
  waits for what cannot come; the executor, its queue and its scripts do not use a target
  after the queue has deleted it, its observation is closed, and every queued target gets
  its turn.  (The telescope's client keeps its pointer, execcli.cpp:531 and 709, when the
  target has ended, and no property covers it.)

## 2. Modules

| module | models | runs |
|---|---|---|
| `Centrald` | the central server: connections, votes, state, periods, open/close sequence | through the MC modules |
| `MCCentraldVotes`, `MCCentraldSequence`, `MCCentraldClock` | three instances for three questions | `centrald_*` |
| `CentraldProofs` | theorems about `Centrald`: types, votes, weather, the open/close sequence, the switch | tlapm |
| `Dome` | the dome daemon over any driver, the driver given by operator constants | through `BartDome` |
| `BartRoof` | the BART driver, its Ford board and the roof | through `BartDome` |
| `BartDome` | the two together, and what they promise | through `MCBartDome` |
| `MCBartDome` | the states centrald may announce | `dome_*` |
| `BartDomeProofs` | theorems about `BartDome` | tlapm |
| `Camera`, `MCCamera` | the camera daemon: exposures, their queue, queued values, optics, exit | `camera` |
| `CameraProofs` | theorems about `Camera` | tlapm |
| `Selection` | what a loop over a queue leaves of it, used by `Camera` and `Executor` | through both |
| `SelectionProofs` | what a selection is, and the induction that shows it | tlapm |
| `Interlock`, `MCInterlock` | client, mount, camera, other devices and centrald around the blocking masks, over FIFO links | `interlock*` |
| `CommandOrder` | the abstract queue of commands that `Interlock` implements | property of `interlock` |
| `InterlockProofs` | types, the refinement of `CommandOrder`, who knows of whose blocks | tlapm |
| `InterlockExclusion` | the exclusion itself, on top of `InterlockProofs` | tlapm |
| `Telescope`, `MCTelescope` | the mount daemon, its driver by its answers | `telescope` |
| `TelescopeProofs` | theorems about `Telescope` | tlapm |
| `Executor`, `MCExecutor` | executor, queue, scripts on the cameras, the telescope's client | `executor*` |
| `ExecutorProofs` | theorems about `Executor` | tlapm |

### Centrald

`conns[d]` is the entry of device `d` in the connection list.  `link = "delete"`
is `CONN_DELETE`: the socket is closed but `pollSuccess` has not erased the entry
yet, and until it does the device still counts as present and cannot register
again.  `status` holds the bits of the status word that centrald looks at; a fresh
connection has a word of zeros, which means good weather.  `srv` is the state of
`Centrald`: on/off, period, weather and stop bit, the sequence (`op`, `last`,
`failed`, `timers`, `queue`), the blamed device and two history values.

Each C++ method is an operator on `srv` and actions compose them in call order:
a status report (`SetDeviceState`) stores the word and runs `weatherChanged`,
`stopChanged` and `openCloseChanged`; the first two end in `maskState`, whose
`stateChanged` may start an opening or a closing.  `nextEvent` is
`next_event_type`; the sun is the set `SolarEvents` of pairs <<period, next period>>
that `next_event` returns.  Time is abstract: the close timers fire in the order
they were armed, at any moment.

### Dome and BartRoof

A driver function is an operator from the roof to the SET of its outcomes
<<result, roof>>: the roof may have moved while the function ran, and with
`LineFails` each exchange with the Ford board may fail.  Handlers of `Dome` map a
pair <<daemon, roof>> to a set of such pairs; an action picks one.  `Dome` does not
know the driver: its virtual methods are CONSTANT operators that a configuration
binds (`IsOpened <- BartIsOpened`), so that another driver is another module.
`QuietClose` is the part of `Bart::idle` that comes before `Dome::idle`.  That the constants
are the operators of `BartRoof` is the assumption `BartDriverAssumption` of `BartDome`: TLC
evaluates it on every run, and the proofs use it.

`BartRoof` has the position of the roof, the two relays MOTOR and SMER and the two
move timeouts.  The roof, the end switches, the clock and a hand on the roof are
external; they are modelled as the simulator `dome/tests/bart-bench/fordsim.py`
uses them: the hardware switches stop the roof at its ends even with the relay on,
and the closed switch stays made until an opening roof has left it.  A move takes
less than `CAS_NA_OTEVRENI` (20 s; 15 s in the simulator) unless `Jams`.

`master.said` is what centrald last announced and `master.up` whether it is
connected; centrald may announce any state of the set `Masters` at any time.  EVENING and
MORNING need no value of their own, because `standby ()` and `off ()` differ only in
wall sockets; `night` is dusk, night or dawn.

### Camera

`cam` is the daemon: the state bits of the chip, the queue of value changes (`que`), the
optics in motion, the queued exposures (`qexp`) with the flags that say how they may
start, and the answers it owes.  A handler is an operator on `cam`; where the C++ calls
go round (`maskState` -> `stateChanged` -> `checkQueChanges` -> `setFullBopState` ->
`camStartExposure` -> `maskState`), so do the operators, once: the inner round is cut
where the code's own guards stop it.  `said` is the last blocking state centrald sent
and `want` a history of the exposure time the clients asked for.  `Rest` gives the
exposure time that was copied at the start a fixed value when nothing exposes, so that states do not multiply.  The driver
answers at random, with errors if `StartFails`.  A start that fails leaves what is queued
behind it until the next command; `failed` remembers that, and `NothingForgotten` allows it.

### Interlock and CommandOrder

Every link is a sequence in each direction.  `client[d]` is the client's connection to
worker `d` (queue, running command, blocking state), `dev[d]` the worker and what it has
sent, `srv` the status words, running `status_info` and outgoing messages of centrald.
`Issue` queues a command the way `DevClientCameraExec::doNextCommand` does: with the mask
of its kind, which makes `sendCommand` put `device_status` in front of it and hold it
back until the mask is clear.  `Pending` and `UpdateStatusWait` are centrald's wait for
the other devices, `ConnectionRemoved` and `Erased` the loss of one.  What the code does in
a loop over the connections (`BopMaskChanged`, `UpdateStatusWaits`) is a function on the
devices here: each pass of the loop reads and writes the entry of its own device only.

`CommandOrder` says what a client may rely on: commands of one device are executed one
at a time, in order, each answered before the next.  `Interlock` implements it with
`queued`, `executed` and `answered` read from its history variable `seen`
(`QueueKeepsOrder == Order!Spec`), although every masked command has helper commands
pushed in front of the queue.

`Exclusion`, no exposure while the mount moves, does not hold (section 4).
`ExclusionUnlessEarly` is what does: as long as no `device_status` has been answered by a
blocking state that centrald had sent for another reason, the interlock is tight.

### Telescope

`tel` is the daemon with the mount in it (`motion`, `reached`).  A handler gets `d`, what
the driver answers while it runs.  Two kinds of drivers exist: for some a stopped move
is a failed one, for others it has ended (`StoppedIsFailed`).  Coordinates are names
(`Low` is below the horizon) and the model CORR_ is the list of the images whose errors
it contains, so that "an error corrected twice" can be said.  An image remembers
MOVE_NUM, CORR_IMG and the corrections it was taken with; its astrometry ends in any order,
late or never.  `told` is the blocking state centrald still owes.

`err` of `Correct` is `pos_err` against the two writable limits: below `ignore_correction`
nothing happens; below `small_correction` (0 by default) the handler answers "ignoring", but has
stored the correction before, and sets no BOP_EXPOSURE.  Such a correction waits with `small` set.
`MovesBlockExposures` and `CorrectionSettled` speak of the others, which are announced to the
cameras: a small one waits until the next move in place or the next blocking state adds it to CORR_
(`telescope_small` in section 4).

### Executor

`exec` is the executor process with its clients: `targets` are the objects of class
Target that were created (two requests for one target are two objects), `deleted` those
the queue has freed, and pointers are their numbers, so that a use of a freed object is
visible; the telescope's client keeps the target it last moved to, and its pointer is the one that
`TargetsAlive` does not count.  An object has one observation: `endObservation` does not take
its number away (target.ec:782, 826), so that slewing it again after the end opens no other
(`Slew`).  Posted events are function composition in the order of the connections
(`CameraOrder`): `StopObservation` goes through the cameras one by one because the end of one
script may start the next target before the next camera is reached.  `que` is what waits for a
camera, `killall` included; `tel.moves` the moves that wait for the telescope.  `held` is
a history: the current target was left with no script to end it, either because the
executor is disabled or because a camera with no script for it answered `killall` last.

Left out: continuous targets, acquisition and wait states, the GRB distance, errors of the
database, exposures that fail (and with them `dont_execute_for`, so that `NoScriptForgotten` and
`TargetWorkedOn` say nothing of a target whose exposures fail), the EXEC state word, scripts with
more than one exposure, and targets with no script on any camera.  `auto_loop` defaults
to on, `ignore_day` is off.

## 3. Runs and bounds

Passing runs:

| run | question | bounds |
|---|---|---|
| `centrald_votes` | votes of two sensors and a roof while they register, report, break and vanish and `required_devices` changes | 3 devices, 1 timer, 2 commands per queue |
| `centrald_sequence` | opening and closing two devices in order, with timers, in a night; the closed roof may vote bad weather | 2 devices, 2 timers, 2 commands per queue |
| `centrald_clock` | all periods, forced and natural, all settings of `morning_off` and `morning_standby` | 1 device |
| `dome_moves` | weather, commands, centrald, one restart; roof may jam or be pushed | `MaxRetries = 1`, 1 restart, reliable line, wakes on good weather |
| `dome_failures` | retries with a failing line and a dead closed switch | `MaxRetries = 2` |
| `dome_live` | moves end, bad weather closes; the open switch never makes, as at BART | `MaxRetries = 1`, no jams |
| `camera` | clients, value changes, optics, blocks, failures and the exit around one camera | 2 symmetric clients, 1 queued exposure beside the running one, 2 value changes |
| `interlock` | exclusion and order, beside a device that may vanish | 1 mount, 1 camera, 1 roof, 3 commands; states after an early answer are not explored (`NotEarly`) |
| `interlock_live` | a roof that blocks, unblocks and vanishes while a command waits: all answered, no block left behind | 1 command, 1 change of the roof |
| `telescope` | moves, corrections, offsets, park, stop, refusals and failures of the driver, late astrometry | MOVE_NUM up to 2 when a client asks for more, 2 images, 1 low and 1 high target |
| `executor` | commands, night, sky, failing moves, scripts | 2 cameras, 2 targets (one camera has no script for one), 2 target objects, 3 inputs |

Three devices are enough for votes: the properties compare one device with the
rest, and two sensors give every order of two different reports.  Two devices are the
shortest sequence in which order, and the timer of another device, can matter.
`DOME_CLOSE_MAX_RETRIES` is 3; one or two retries reach the counter's limit and the
emergency behind it.  `MaxTimers`, `MaxQueue` and `MaxRestarts` only stop counters.

Three commands are the shortest story with an exposure, a move and an exposure around each
other.  Two images and two moves give every order of a correction and the move it is
late for.  Two target objects are the shortest switch; the invariants of `executor` were
also checked with three objects and four inputs (7 090 771 states, no error).
`ExclusionUnlessEarly` says nothing of states after an early answer, hence the
constraint of `interlock`, which also limits `QueueKeepsOrder` to the steps before one.
`MaxOther`, `MaxLost`, `MaxInputs`, `MaxCommands` and `MaxMoves` only stop counters; in
`Executor` moves beyond `MaxMoves` merge with the waiting one.

`MCView` (in the votes and sequence runs) hides `lastOn` and `switchedStandby`, which no guard and no
property reads.

Fairness: `Centrald`'s passing runs check safety only; `SpecIdle` assumes that `idle`
and the removal of dead connections go on, because the main loop calls both after every poll.
`FairSpec` of `Dome` assumes that `idle` goes on, a scheduled
timer fires, the settling time passes, a powered roof moves and a move timeout
passes.  `FairSpec` of `Telescope` assumes that `idle` goes on, centrald's blocking
states arrive, an exposure ends and a motion arrives or fails.  `FairSpec` of `Interlock`
is weak fairness of all that programs do by themselves: reading a socket, ending the
work in progress, erasing a lost connection.  `FairSpec` of `Executor` is weak fairness of every
camera and of the telescope, with what enables their steps written out (`CameraBusy`,
`TelescopeBusy`), because TLC is slow at computing it.  Main loops poll for ever and
drivers have timeouts, which justifies these.  Commands, the weather and centrald owe nothing.

## 4. Where the code and its documentation disagree

One run ends in a counterexample, `executor_disabled`: switching `enabled` off during a script calls
`stop ()` from `setValue`, while the value is still true.  That ends the scripts and
starts the target again; its exposure is sent when the move ends, after the executor was disabled.

The other disagreements were met while modelling.  Their configurations stay here so
that each can be reproduced with `tlc -config <name>.cfg <module>`; every property is stated
and commented in its module.

| configuration (module) | property | what the code does | what the sources say |
|---|---|---|---|
| `centrald_close_timeout` (`MCCentraldSequence`) | `CloseHasTimeout` | `doClose` (centrald.cpp:1123) arms no timer for the device that was the last one opened, and waits for it | centrald.cpp:433: "timeout for open/close device" |
| `centrald_close_failed` (`MCCentraldSequence`) | `FailedByOwnTimeout` | a close timer is never cancelled and declares another device failed (826) | centrald.cpp:435: "device(s) failed to close" |
| `centrald_required_silent` (`MCCentraldClock`) | `MissingRequiredIsNoticed` | a device made required while absent (512) does not end good weather | centrald.h:151: "This routine is also called periodically" |
| `dome_rain` (`MCBartDome`) | `BadWeatherCloses` | an opening motor nobody watches makes `startClose` refuse for ever (bart.cpp:277): the roof stays open in the rain | bart.cpp:494: "In bad weather Dome closes it as always (retries, EMERGENCY)." |
| `dome_reversed` (`MCBartDome`) | `OpensOnlyInGoodWeather` | `endClose` (bart.cpp:332) releases the direction relay although the motor did not stop, which turns it to opening | bart.cpp:184: "the motor is stopped again unless it runs in the intended direction" |
| `dome_stale_alarm` (`MCBartDome`) | `FoundClosedIsNotFailing` | a roof found closed (dome.cpp:168) still counts as failing, so the driver's recheck is off | dome.h:78: "its retries are running or it gave up" |
| `camera_answer` (`MCCamera`) | `Answered` | when `isExposing` fails (camd.cpp:1484), an exposure that waited for values is queued by `maskState` and wiped by `stopExposure` on the next line: its command is never answered | camd.cpp:1939: "do not send OK, send it after we finish" |
| `interlock_early` (`MCInterlock`) | `Exclusion` | a blocking state already under way ends `device_status` (device.cpp:1242), and an exposure starts while the mount moves | device.cpp:638: "OK will be returned when command return from centrald" |
| `telescope_miss` (`MCTelescope`) | `CorrectionsFromTarget` | `correct` (teld.cpp:2764) looks at move_completed when the answer comes: an image of a failed move counts once the same target is reached | base/STATUS.md:357: "A `correct` is taken only for a move that reached its target" |
| `telescope_small` (`MCTelescope`) | `SmallIsIgnored` | a correction below `small_correction` is stored before it is refused (teld.cpp:2780, 2790), and the next move in place adds it to CORR_ | teld.cpp:2792: "NOT correcting pos_err" |

The way to `dome_rain` is short.  The roof starts to open and, before it has left
the closed switch, a close is asked.  `domeCloseStart` finds `isClosed` at -2 and
takes the probe for the end of a close: the state becomes CLOSED, nobody calls
`endClose`, and the motor goes on opening with no handler watching it.  From then on
`startClose` refuses every close, because the motor "runs open".  `domeOpenStart` has
the twin of this, with the open switch.  `BadWeatherClosesWatched` in `dome_live` shows
that such an unwatched opening motor is the only way, with a working line and closed
switch, in which bad weather does not close the roof.

## 5. Proofs

Every theorem is one of the specification, for every value of the constants that their
named assumptions allow (`TargetsAssumption`, `BoundsAssumption` and so on); TLC
evaluates those on every run.  Each module proves that its `IInv` is inductive and reads the
theorems off it.

| module | theorem | of | hypothesis |
|---|---|---|---|
| `CentraldProofs` | `TypeCorrect` | `TypeOK` | |
| | `VotesRespected`, `StopVotesRespected` | `NoBadVoteInGoodWeather`, `NoStopVoteWhileMoving` | |
| | `GoodWeatherJustified` | `GoodWeatherNeedsRequired` | |
| | `RequiredLossNoticed` | `RequiredLossEndsGoodWeather` | |
| | `FirstReporter` | `FirstReporterKept` | |
| | `OpeningDecided` | `OpeningFollowsDecision` | |
| | `OpenCloseInSequence` | `SequenceRespected` | `NoRepeats` |
| | `OnlyCommandsSwitchUp` | `OnlyCommandsRaise` | |
| `TelescopeProofs` | `TypeCorrect` | `TypeOK` | |
| | `ExposuresBlocked` | `MovesBlockExposures` | |
| | `CompletionMeant` | `CompletedMeansReached` | `StoppedIsFailed` |
| | `CorrectionsMatchImages` | `CorrectsWhatItSaw` | |
| | `StopHolds` | `StillAtRest` | `~BlockOnStandby` |
| `BartDomeProofs` | `TypeCorrect` | `TypeOK` | |
| | `BlockedWhileOpening` | `OpeningBlocksMoves` | |
| | `DirectionKept` | `DirectionMatchesState` | `~LineFails` |
| | `OpensWhenGood` | `OpensOnlyInGoodWeather` | `~LineFails` |
| | `CloseRetried` | `FailedCloseRetried` | `~LineFails` or a dead closed switch |
| `CameraProofs` | `MountReleased` | `HoldsTheMount` | |
| | `ExposureTimeStands` | `SettingsHold` | |
| | `BlocksRespected` | `StartsUnblocked` | |
| | `TypeCorrect` | `TypeOK` | |
| | `ChangesInOrder` | `InOrder` | |
| | `ExposuresRemembered` | `NothingForgotten` | |
| `InterlockProofs` | `TypeCorrect` | `TypeOK` | |
| | `QueueRefinesOrder` | `QueueKeepsOrder`, the refinement of `CommandOrder` | |
| | `BlocksKnown` | `ViewsSettle` | |
| `InterlockExclusion` | `ExclusionKept` | `ExclusionUnlessEarly` | |
| `ExecutorProofs` | `TypeCorrect` | `TypeOK` | |
| | `FollowTarget` | `ScriptsFollowTarget` | |
| | `NoneDeleted` | `TargetsAlive` | |
| | `NoneForgotten` | `NoScriptForgotten` | |
| | `WorkedOn` | `TargetWorkedOn` | |
| | `Closed` | `ObservationsClosed` | |

The hypotheses name the configurations the properties are about; the runs take the same.
`NoRepeats` is a configuration whose `open_sequence` names every device once: for a device with
two places in it, before and after another, no order of the two could be kept.
With a driver for which a stopped move has simply ended, `CompletedMeansReached` is not
promised (`StoppedIsFailed`).  `block_on_standby` (teld.cpp:327, off by default) lifts the block
of the stop state together with its own, so that `StillAtRest` needs it off; a write of `block_move` does the same and is not modelled.
On an unreliable line
the direction relay and the motor relay are written by two exchanges of which one may
fail: `dome_reversed` (section 4) is the counterexample without `~LineFails`.  `CloseRetried` holds
there, too, if the closed switch is dead, because the roof is then never found closed in passing.

### Centrald

The invariant is `TypeOK`, the two vote invariants and
`BlameInBadWeather` (a device is blamed only in bad weather).  The vote invariants
alone are not inductive: the steps need the types of the status words and of the
sequence to know that the operators stay inside `Server`, and `FirstReporterKept`
needs `BlameInBadWeather`.  For each operator on `srv` one lemma says that it keeps
the type and which fields it leaves alone; `WeatherChangedVotes` and
`StopChangedVotes` say what the bits mean afterwards.  Every action is then a *quiet
step* (no status word got worse and the bits are kept) or a *voting step* (the votes
were counted again), and the theorems follow from these two kinds.

The theorems on the sequence need no invariant beyond `TypeOK`, they are of single steps; but one
step, a status line say, may abandon, restart and continue the sequence several times, so that
`doOpen` and `doClose` run up to four times in it.  `Advances(q, cs, s, t)` is what holds between
any two points on the way: opening goes on only as decided (`Decides`), and whatever was added to
the queues since `q` went to the right device (`InOrder`).  It is closed under composition
(`AdvancesOn`), there is one lemma for each operator, and an action is a chain of them.  The
clause that makes it so is in `ClosesInOrder`: a device that was told to close still blocks closing
(`CloseStops`), so that no later pass of the handler can find the closing finished and forget
which devices failed and were passed by.

### Telescope

A handler is a function on the daemon's record: its lemma says that the invariant of one record
(`Sound`) is kept and that the step is one that the corrections and the stop state
allow (`Passes`).  `CorrectsWhatItSaw` speaks of images that were taken long ago, hence `Known`
in the invariant: an image in flight was not taken in a later move, and within the present
move CORR_IMG identifies the corrections it was taken with.  `MovesBlockExposures`
is the part `Blocks`, which leaves out the small corrections.  `CompletedMeansReached` needs that
nothing can wait to be corrected before a move has arrived (`InState`).

### BartDome

A handler maps <<daemon, roof>> to a set of outcomes.  `Leaves` says what holds of every
outcome: both are well typed, exposures are blocked exactly while the state is OPENING, on a
reliable line a running motor turns the way of the state, and it started to open only in good
weather.  `Reliable` outcomes of a close are in addition `Cared` for: closed, to be retried, or
used up.  The lemmas follow the calls from the driver's virtuals outwards.

### Camera

`Steady` relates the chip's state, the copied exposure time and what blocks; `Goes` says
of the way from one record to the next that an exposure that cares for blocks started only
where centrald's last word allowed it.  Masking the state calls back into the value
queue and the waiting exposure, so the lemmas go from the inside out.  What the value queue holds
plays no part in the first three theorems.

The other three have an invariant of their own, `Orderly`.  An idle chip holds no change back
(`Cleared`), and the time that is due once all that is queued is applied (`Due`) stays among those the
clients may expect: `checkQueChanges` applies what the chip lets through before what it holds back,
and `SplitTimes` shows that this overtaking does not change what the queue comes to.  An exposure
that waits beside an idle chip waits for a block, and for the optics, an answer of
centrald, centrald's block or a queued change (`Minded`).  `NothingForgotten` is weaker and not inductive:
it does not say that `notBop` is up, without which the end of a block starts nothing.  `bop`
is up only for centrald or for a queued change (`BopMeant`), so whatever ends it is
one of these.  Starting an exposure masks the state and comes back to `setFullBopState`, which
could start the next inside the first: it does not, because by then the chip works, no change is
queued that would call it, or `notBop` is down; that is the field `nested` in `TypeOK`.

### Interlock

The invariant counts nothing.  A question and its answers are one token, which is in exactly
one place at a time (`Served`, `Tokens`): a link, a list of centrald, a flag of the device.  What
somebody knows about another is what the last message on the link says or, when there is none,
what is true (`Views`); with empty links this is `ViewsSettle`.  The refinement mapping reads
`queued`, `executed` and `answered` from the history variable, and `Served` says how far apart
they can be: `Order!Next` or a stutter follows for every action.

`InterlockExclusion` extends it.  The client keeps the mount and the cameras apart while it
queues (`OneEngaged`), so a rival of a device with work to do may work off what it has and begins
nothing.  What the device hears after its question is therefore a state that every rival
still at work has reported (`Learns`: `Known` already, or `WillKnow` by the answer centrald still waits
for, which is younger than the rival's last change of state), and everything centrald sends
from there on says so (`Told`), until the last rival is done.  A device that a rival blocks is
`Cautious`: it has nothing on its way that starts it.  An answer that is too early breaks `Learns`,
and is the only thing that does.

### Executor

The six properties come from one invariant, that the process is `Settled` between two events.
No target waits for a script (`next` is NULL: what is set while a script runs is taken when it
ends, in the same event), so that a script and a killTarget name the current target or nothing
(`Follows`); whoever waits for the move does so because it has not ended (`Waits`), and the
telescope's client looks after the current target (`Pointed`); an exposure that was sent stands
behind every killall in its camera's queue (`Exposes`), which is what makes `NoScriptForgotten`
inductive: its own "an exposure is waiting" is lost as soon as a killall overtakes it.

Inside an event the process need not be settled, and handlers call each other.  `Steady` is what
holds at each call (all but `Waits` and `TargetWorkedOn`), `Free` what holds when nobody runs.
The central lemma is `SwitchTargetSettled`: `switchTarget` is only ever called when no script
runs, and then it settles the process whatever it decides.  `StopObservation` may
switch to the next target and then stop its scripts, too; its lemma says of the cameras already
visited that they wait for nothing that is over.  `Closes` is the step relation of
`ObservationsClosed`, closed under composition, so that it follows through a handler that switches
several times.

The queue is filtered, and the scripts are stopped, by recursive functions.  What they compute is
proved in `SelectionProofs` by induction over the natural numbers: `Least` takes a least counterexample
from the library's `WFMin`, which has no operator parameter, `Reaches` and `Recursion` are the two
forms needed (`Recursion`: a function defined by recursion on an interval exists).  `SelectedMeans`
says what the loop of `filterExpired` leaves; `Camera` has the same loop in
`Device::checkQueChanges`.  `Selected` takes the place of the library's `SelectSeq`, whose operator
parameter keeps the prover from unfolding it.

### Only model-checked

All liveness (`MoveEnds`, `BadWeatherClosesWatched`, `AllAnswered`, `CorrectionSettled`,
`QueueServed`), which is out of the prover's reach.  Every invariant and every action property of
the passing runs is a theorem.

## 6. Not modelled

Within centrald: keys and authorization, `weather_update` (a text), messages and the sun
and moon values.  Within the
dome: several centralds with one state master, `setWeatherTimeout` of drivers with a rain
detector, changes of `weather_open` at run time; in the BART driver the wall sockets.
Within the camera: frame transfer and exposures without an image, which only the dummy
driver has, shift-store, the driver codes -3 to -5, cooling, image data.  Within the
mount: MPEC and TLE targets, guiding, alt-az offsets, `setto` and `synccorr`, and all
pointing arithmetic; and what an operator overrides by hand: a write of `block_move`
(teld.cpp:323), which lifts the block of the stop state, and of CORR_, `wcorr` and `wcorr_img` (236,
239, 242).  So `StillAtRest` and `CorrectsWhatItSaw` say nothing of a mount whose operator writes
these.  Within the executor: see section 2.

Not started: the handshake of two devices, the watchdog and forking, timers as a list, the queue of
images in imgproc, the elements and loops of scripts, and the drivers beside BART.  Vendor
libraries (cameras, Gemini, plc and web server), file formats, SQL, user interfaces and
numerical astronomy, which are most of the lines of the repository, are left out for
good: a finite model says nothing about them.

## 7. Plan

1. Of the liveness properties their safety half, what every state in which somebody waits holds
   ready for him, as invariants of the runs with proofs (`NothingForgotten` is one for the camera).
2. `Observatory`: `Centrald` and `Dome` composed over message queues: a late `on` of the
   dome and an operator's `off`; bad weather seen by centrald closes the roof.
3. `Handshake`: authorization between two devices through centrald, with retries, lost
   replies and restarts.
4. `D50Dome`: the D50 driver in the place of `BartRoof`, with the mount interlock.
5. `ScriptElements` and `ImageQueue`.
