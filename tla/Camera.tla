------------------------------- MODULE Camera -------------------------------
(***************************************************************************)
(* The camera daemon (rts2camd::Camera): exposures asked by clients, the   *)
(* queue of value changes held back while the chip works, the wait for the *)
(* rest of the observatory, the optics and the exit.  A handler is a       *)
(* function on the daemon's record; maskState () calls back into the value *)
(* queue and the waiting exposure, which mask the state again.             *)
(***************************************************************************)
EXTENDS Naturals, Sequences, SequencesExt, Selection

CONSTANTS
  Clients,         \* connections that may send commands
  NoClient,        \* exposureConn == nullptr
  MaxExposures,    \* bound on que_exp_num when a client asks for one more
  MaxChanges,      \* bound on the queued value changes when a client sets one more
  StartFails       \* startExposure () of the driver may fail

ASSUME ClientsAssumption == NoClient \notin Clients
ASSUME BoundsAssumption == MaxExposures \in Nat /\ MaxChanges \in Nat /\ StartFails \in BOOLEAN

VARIABLES
  cam,     \* the daemon
  said,    \* the blocking state centrald sent last: BOP_EXPOSURE is set
  want     \* the exposure times that what the clients asked for allows

vars == <<cam, said, want>>

Changes == [value : {"filter", "mode"}, to : {0}] \cup [value : {"exposure"}, to : {0, 1}]

Chip == [expose : BOOLEAN, read : BOOLEAN,
         tel : BOOLEAN,            \* BOP_TEL_MOVE
         error : BOOLEAN]          \* DEVICE_ERROR_KILL or DEVICE_ERROR_HW

IdleChip == [expose |-> FALSE, read |-> FALSE, tel |-> FALSE, error |-> FALSE]

Daemon == [chip : Chip, que : Seq(Changes), exposure : {0, 1},
           moving : SUBSET {"filter", "focuser"},
           qexp : Nat,             \* que_exp_num
           notBop : BOOLEAN,       \* waitingForNotBop
           emptyQue : BOOLEAN,     \* waitingForEmptyQue
           okLater : BOOLEAN,      \* sendOkInExposure
           conn : Clients \cup {NoClient},   \* exposureConn
           care : BOOLEAN,         \* lastCareBlock
           bop : BOOLEAN,          \* BOP_EXPOSURE of fullBopState
           masterBop : BOOLEAN,    \* BOP_EXPOSURE of masterBopState
           asked : BOOLEAN,        \* a status_info to centrald has no answer yet
           owed : SUBSET Clients,  \* clients whose expose has no answer yet
           took : {0, 1},          \* exposure time of the last start
           failed : BOOLEAN,       \* a start failed and left what was queued behind it
           nested : {FALSE},       \* an exposure was started inside the start of another
           exit : {"no", "pending", "waiting"},
           up : BOOLEAN]

TypeOK == cam \in Daemon /\ said \in BOOLEAN /\ want \in SUBSET {0, 1}

Fresh == [chip |-> IdleChip, que |-> <<>>, exposure |-> 0, moving |-> {},
          qexp |-> 0, notBop |-> FALSE, emptyQue |-> FALSE, okLater |-> FALSE,
          conn |-> NoClient, care |-> TRUE, bop |-> FALSE, masterBop |-> FALSE,
          asked |-> FALSE, owed |-> {}, took |-> 0,
          failed |-> FALSE, nested |-> FALSE, exit |-> "no", up |-> TRUE]

Gone == [Fresh EXCEPT !.up = FALSE]

-----------------------------------------------------------------------------
(* The queue of value changes: the filter waits for CAM_EXPOSING, the      *)
(* settings of the chip for CAM_WORKING.                                   *)

\* mutant: a new exposure time waits for the readout only
BlockedByReadout(change, chip) ==
  (chip.expose /\ change.value # "exposure") \/ (change.value # "filter" /\ chip.read)

Blocked(change, chip) == chip.expose \/ (change.value # "filter" /\ chip.read)

Unchanged(c, change) == change.value = "exposure" /\ c.exposure = change.to

\* mode rewrites the exposure time; the filter moves the wheel and the focuser
SetTime(time, change) ==
  CASE change.value = "filter"   -> time
    [] change.value = "mode"     -> 0
    [] change.value = "exposure" -> change.to

\* of several changes the last one that says something of the time decides it
SetTimes(time, changes) ==
  LET says == {i \in DOMAIN changes : changes[i].value # "filter"}
  IN IF says = {} THEN time ELSE SetTime(time, changes[Max(says)])

DoSetValues(c, changes) ==
  [c EXCEPT !.exposure = SetTimes(@, changes),
            !.moving = IF \E i \in DOMAIN changes : changes[i].value = "filter"
                       THEN {"filter", "focuser"} ELSE @]

\* mutant: a value that would not change is never queued
SetCondValueSkips(c, change) ==
  IF Unchanged(c, change) THEN c
  ELSE IF Blocked(change, c.chip) THEN [c EXCEPT !.que = Append(@, change)]
  ELSE DoSetValues(c, <<change>>)

SetCondValue(c, change) ==
  IF (~Unchanged(c, change) \/ c.que # <<>>) /\ Blocked(change, c.chip)
  THEN [c EXCEPT !.que = Append(@, change)]
  ELSE IF Unchanged(c, change) THEN c
  ELSE DoSetValues(c, <<change>>)

\* the queued changes the chip lets through, and those it holds back
Free(c) == Selected(c.que, {change \in Changes : ~Blocked(change, c.chip)})
Held(c) == Selected(c.que, {change \in Changes : Blocked(change, c.chip)})

\* mutant: the state of the device is taken for the blocking state centrald sent
FreeChangesWipes(c) == [DoSetValues(c, Free(c)) EXCEPT !.que = Held(c), !.masterBop = FALSE]

FreeChanges(c) == [DoSetValues(c, Free(c)) EXCEPT !.que = Held(c)]

\* every value that can be queued waits for the end of the exposure, so it blocks exposures
DeviceBop(c) == [c EXCEPT !.bop = c.masterBop \/ c.que # <<>>]

EmptyQue(c) ==
  IF c.que # <<>> \/ ~c.emptyQue THEN c
  ELSE LET e == [c EXCEPT !.emptyQue = FALSE, !.okLater = TRUE]
       IN IF e.conn = NoClient THEN e
          ELSE [e EXCEPT !.qexp = @ + 1, !.notBop = TRUE, !.asked = TRUE, !.failed = FALSE]

\* b: the daemon after setFullBopState () with the free changes applied
CheckQueChanges(c, b) ==
  IF c.qexp > 0 /\ (c.chip.expose \/ c.chip.read) THEN c
  ELSE EmptyQue(IF \A i \in DOMAIN c.que : Blocked(c.que[i], c.chip) THEN c ELSE b)

-----------------------------------------------------------------------------
(* Starting an exposure.                                                   *)

\* what setFullBopState () asks before it starts the waiting exposure
MayStart(c) == c.qexp > 0 /\ c.notBop /\ ~c.masterBop /\ ~c.chip.expose /\ ~c.chip.read

\* setFullBopState () and maskState () called from within the start of an exposure
BopInStart(c) == [DeviceBop(c) EXCEPT !.nested = @ \/ MayStart(c)]
MaskInStart(c, chip) ==
  LET m == [c EXCEPT !.chip = chip]
  IN IF c.chip = chip THEN c ELSE CheckQueChanges(m, BopInStart(FreeChanges(m)))

\* an answer through a connection that is gone ends the daemon
Answer(c, client) ==
  IF client = NoClient THEN Gone ELSE [c EXCEPT !.owed = @ \ {client}]

\* camStartExposureWithoutCheck ()
Start(c, starts) ==
  LET s == MaskInStart(c, [c.chip EXCEPT !.tel = c.care, !.error = FALSE])
      e == MaskInStart([s EXCEPT !.took = s.exposure, !.failed = FALSE],
                       [s.chip EXCEPT !.expose = TRUE, !.tel = c.care])
      f == MaskInStart([s EXCEPT !.failed = s.qexp > 0], [s.chip EXCEPT !.tel = FALSE])
  IN IF ~starts THEN f
     ELSE IF e.okLater /\ e.conn # NoClient THEN [Answer(e, e.conn) EXCEPT !.okLater = FALSE]
     ELSE e

SetFullBopState(c, starts) ==
  IF MayStart(c) THEN Start([DeviceBop(c) EXCEPT !.notBop = FALSE, !.qexp = @ - 1], starts)
  ELSE DeviceBop(c)

MaskState(c, chip, starts) ==
  LET m == [c EXCEPT !.chip = chip]
  IN IF c.chip = chip THEN c ELSE CheckQueChanges(m, SetFullBopState(FreeChanges(m), starts))

CamStartExposure(c, careBlock, starts) ==
  IF careBlock /\ (c.bop \/ c.moving # {})
  THEN [c EXCEPT !.qexp = @ + 1, !.notBop = TRUE, !.failed = FALSE]
  ELSE IF starts THEN Start(c, TRUE)
  ELSE Answer(Start(c, FALSE), c.conn)

Dec(n) == IF n > 0 THEN n - 1 ELSE 0

\* busy: the bits of the chip the caller passes as chipState
CamExpose(c, client, busy, fromQue, careBlock, starts) ==
  CASE c.exit # "no" -> IF client = NoClient THEN c ELSE Answer(c, client)
    [] c.exit = "no" /\ ~busy /\ (fromQue \/ c.que = <<>>) ->
         CamStartExposure([c EXCEPT !.qexp = Dec(@), !.conn = client], careBlock, starts)
    [] c.exit = "no" /\ busy /\ ~fromQue /\ c.que = <<>> -> [c EXCEPT !.qexp = @ + 1]
    [] OTHER -> [c EXCEPT !.emptyQue = TRUE]

\* mutants: the count not tested; the optics end without starting what waits
CheckQueuedAlways(c, starts) ==
  CamExpose([c EXCEPT !.qexp = @ - 1], c.conn, c.chip.expose \/ c.chip.read, FALSE, c.care, starts)
CheckQueuedNever(c, starts) == c

CheckQueuedExposures(c, starts) ==
  IF c.qexp = 0 THEN c
  ELSE CamExpose([c EXCEPT !.qexp = @ - 1], c.conn, c.chip.expose \/ c.chip.read, FALSE, c.care, starts)

-----------------------------------------------------------------------------
(* The end of exposures and readouts.                                      *)

\* mutant: an aborted exposure goes on holding the mount
AbortedHolds(chip, error) == [chip EXCEPT !.expose = FALSE, !.read = FALSE, !.error = error]

Aborted(chip, error) == [chip EXCEPT !.expose = FALSE, !.read = FALSE, !.tel = FALSE, !.error = error]

StopExposure(c) == [c EXCEPT !.qexp = 0]

EndExposure(c, starts) ==
  IF c.conn = NoClient THEN MaskState(StopExposure(c), Aborted(c.chip, FALSE), starts)
  ELSE MaskState(c, [expose |-> FALSE, read |-> TRUE, tel |-> FALSE, error |-> FALSE], starts)

\* the driver failed: nothing is left of the queue when it is looked at
FailExposure(c, starts) == StopExposure(MaskState(c, Aborted(c.chip, TRUE), starts))

EndReadout(c, starts) ==
  IF c.qexp > 0 /\ c.conn # NoClient
  THEN CamExpose(c, c.conn, c.chip.expose, TRUE, c.care, starts)
  ELSE c

CheckReadouts(c, error, starts) ==
  LET e == EndReadout(c, starts)
  IN MaskState(e, [e.chip EXCEPT !.read = FALSE, !.error = error], starts)

\* Camera::killAll, then Device::killAll
KillAll(c, starts) ==
  LET k == StopExposure([c EXCEPT !.notBop = FALSE, !.emptyQue = FALSE, !.moving = @ \ {"filter"}])
  IN [MaskState(k, Aborted(k.chip, TRUE), starts) EXCEPT !.que = <<>>]

ScriptEnds(c, starts) == MaskState(StopExposure(c), [c.chip EXCEPT !.error = FALSE], starts)

-----------------------------------------------------------------------------
(* Steps: commands of a client, ends of the hardware, reports of centrald. *)

Init == cam = Fresh /\ said = FALSE /\ want = {0}

Starts == IF StartFails THEN BOOLEAN ELSE {TRUE}

\* a dropped queue leaves the exposure time open
Dropped == IF cam.que = <<>> THEN want ELSE {0, 1}

\* took says something of a running exposure only, failed of what is queued
Rest(c) == [c EXCEPT !.took = IF c.chip.expose THEN @ ELSE 0, !.failed = @ /\ c.qexp > 0]

Becomes(c) == cam' = Rest(c) /\ UNCHANGED <<said, want>>

Expose(client, care) ==
  /\ cam.up /\ client \notin cam.owed /\ cam.qexp < MaxExposures
  /\ \E starts \in Starts :
       LET busy == cam.chip.expose \/ cam.chip.read
           c == CamExpose([cam EXCEPT !.care = care], client, busy, FALSE, care, starts)
           waits == cam.exit = "no" /\ cam.que # <<>>
       IN Becomes([c EXCEPT !.owed = IF waits THEN @ \cup {client} ELSE @ \ {client}])

Set(client, change) ==
  /\ cam.up /\ client \notin cam.owed /\ Len(cam.que) < MaxChanges
  /\ cam' = SetCondValue(cam, change)
  /\ want' = CASE change.value = "exposure" -> {change.to}
               [] change.value = "mode" -> {0, 1}
               [] change.value = "filter" -> want
  /\ UNCHANGED said

StopExpo(client) ==
  /\ cam.up /\ client \notin cam.owed
  /\ \E starts \in Starts : Becomes(MaskState(StopExposure(cam), Aborted(cam.chip, TRUE), starts))

Kill(client, callScriptEnds) ==
  /\ cam.up /\ client \notin cam.owed
  /\ \E starts \in Starts :
       LET k == KillAll(cam, starts)
       IN /\ cam' = Rest(IF callScriptEnds
                         THEN MaskState(ScriptEnds(k, starts), [k.chip EXCEPT !.error = TRUE], starts)
                         ELSE k)
          /\ want' = Dropped
  /\ UNCHANGED said

EndScript(client) ==
  /\ cam.up /\ client \notin cam.owed
  /\ \E starts \in Starts : Becomes(ScriptEnds(cam, starts))

\* a client that comes back is a new connection
Leave(client) ==
  /\ cam.up
  /\ Becomes([cam EXCEPT !.conn = IF @ = client THEN NoClient ELSE @, !.owed = @ \ {client}])

ExposureEnds == cam.up /\ cam.chip.expose /\ \E starts \in Starts : Becomes(EndExposure(cam, starts))

ExposureFails == cam.up /\ cam.chip.expose /\ \E starts \in Starts : Becomes(FailExposure(cam, starts))

ReadoutEnds == cam.up /\ cam.chip.read /\ \E starts \in Starts : Becomes(CheckReadouts(cam, FALSE, starts))

ReadoutFails == cam.up /\ cam.chip.read /\ \E starts \in Starts : Becomes(CheckReadouts(cam, TRUE, starts))

FilterMoveEnds ==
  /\ cam.up /\ "filter" \in cam.moving
  /\ \E starts \in Starts :
       Becomes(CheckQueuedExposures([cam EXCEPT !.moving = @ \ {"filter"}], starts))

FocuserMoveEnds ==
  /\ cam.up /\ "focuser" \in cam.moving
  /\ \E starts \in Starts :
       Becomes(CheckQueuedExposures([cam EXCEPT !.moving = @ \ {"focuser"}], starts))

\* the blocking state of the other devices, when it changes and when it was asked for
BopStatus(bop) ==
  /\ cam.up /\ (cam.asked \/ bop # said)
  /\ said' = bop
  /\ \E starts \in Starts :
       cam' = Rest(SetFullBopState([cam EXCEPT !.masterBop = bop, !.asked = FALSE], starts))
  /\ UNCHANGED want

ExitSignal ==
  /\ cam.up
  /\ IF cam.exit = "no" /\ (cam.chip.expose \/ cam.chip.read)
     THEN Becomes([cam EXCEPT !.exit = "pending"])
     ELSE Becomes(Gone)

\* the first look of idle () at the exit, and the later ones; exitDeadline passes at any time
PrepareExit ==
  /\ cam.up /\ cam.exit = "pending"
  /\ \E starts \in Starts :
       LET q == [cam EXCEPT !.exit = "waiting", !.qexp = 0]
           k == IF q.chip.expose THEN KillAll(q, starts) ELSE q
       IN /\ cam' = IF k.chip.read THEN Rest(k) ELSE Gone
          /\ want' = IF q.chip.expose THEN Dropped ELSE want
  /\ UNCHANGED said

Exit == cam.up /\ cam.exit = "waiting" /\ Becomes(Gone)

Next ==
  \/ \E client \in Clients :
       \/ \E care \in BOOLEAN : Expose(client, care)
       \/ \E change \in Changes : Set(client, change)
       \/ StopExpo(client) \/ EndScript(client) \/ Leave(client)
       \/ \E callScriptEnds \in BOOLEAN : Kill(client, callScriptEnds)
  \/ ExposureEnds \/ ExposureFails \/ ReadoutEnds \/ ReadoutFails
  \/ FilterMoveEnds \/ FocuserMoveEnds
  \/ \E bop \in BOOLEAN : BopStatus(bop)
  \/ ExitSignal \/ PrepareExit \/ Exit

Spec == Init /\ [][Next]_vars

-----------------------------------------------------------------------------
(* Properties.                                                             *)

(* Value changes are applied in the order they came: once nothing is      *)
(* queued the exposure time is what its last change asked for, although   *)
(* that change may have equalled the content when it came                 *)
(* (Daemon::setCondValue, Device::checkQueChanges).                       *)
InOrder == cam.up /\ cam.que = <<>> => cam.exposure \in want

(* An exposure that waits is never forgotten: the chip, the optics, the   *)
(* reply of centrald or the end of a block will look at it again          *)
(* (Camera::checkQueuedExposures, endReadout, setFullBopState), unless    *)
(* the start of the one before it failed: nothing goes on from there.     *)
NothingForgotten ==
  cam.up /\ cam.exit = "no" /\ cam.conn # NoClient /\ cam.qexp > 0 =>
    cam.chip.expose \/ cam.chip.read \/ cam.moving # {} \/ cam.asked \/ said \/ cam.failed

(* The mount is held only by an exposure that runs, whatever ended the    *)
(* earlier ones: BOP_TEL_MOVE never outlives CAM_EXPOSING.                *)
HoldsTheMount == cam.chip.tel => cam.chip.expose

(* The exposure time does not change under a running exposure, whichever  *)
(* way the change came (CAM_WORKING of the value exposure).               *)
SettingsHold == cam.chip.expose => cam.exposure = cam.took

Starting == ~cam.chip.expose /\ cam'.chip.expose

(* An exposure that cares for blocks starts only if the last state        *)
(* centrald sent did not block exposures (camStartExposure,               *)
(* setFullBopState), also when value changes of its own were applied      *)
(* meanwhile.                                                             *)
StartsUnblocked == [][Starting /\ cam'.care => ~said']_vars

(* A client whose expose has no answer yet still waits for the queue of   *)
(* value changes, or for its exposure to start (sendOkInExposure).        *)
Answered == cam.up => \A k \in cam.owed : cam.emptyQue \/ (cam.okLater /\ cam.qexp > 0)
=============================================================================
