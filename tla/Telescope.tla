----------------------------- MODULE Telescope -----------------------------
(***************************************************************************)
(* The mount daemon (rts2teld::Telescope): moves, corrections measured on  *)
(* images, parking, the stop state and the exposure block.  A handler is a *)
(* function on the daemon's record; d is what the driver answers while the *)
(* handler runs.  Coordinates are names; corr is the list of the images    *)
(* whose errors add up to CORR_.                                           *)
(***************************************************************************)
EXTENDS Naturals, Sequences

CONSTANTS
  Targets,          \* coordinates a client may ask for
  Low,              \* those below the hard horizon
  Nowhere,          \* NaN coordinates
  NoImage,          \* no correction waits
  StoppedIsFailed,  \* isMoving () of the driver calls a stopped mount failed
  StopFails,        \* stopMove () of the driver may fail
  BlockOnStandby,   \* block_on_standby
  MaxMoves,         \* bound on MOVE_NUM when a client asks for one more
  MaxImages         \* bound on the images taken

ASSUME TargetsAssumption == Low \subseteq Targets /\ Nowhere \notin Targets
ASSUME FlagsAssumption == {StoppedIsFailed, StopFails, BlockOnStandby} \subseteq BOOLEAN
ASSUME LimitsAssumption == MaxMoves \in Nat /\ MaxImages \in Nat

VARIABLES
  tel,      \* the daemon
  master,   \* the state of centrald: STOP_EVERYTHING, and standby or off
  cam,      \* a camera exposes and holds BOP_TEL_MOVE
  images,   \* images whose astrometry still runs
  taken     \* the number of images taken

vars == <<tel, master, cam, images, taken>>

\* What an image remembers of the mount it was taken with.
Image == [id : 1..MaxImages, mark : Nat, corrId : 0..MaxImages,
          corr : Seq(1..MaxImages), onTarget : BOOLEAN,
          small : BOOLEAN]  \* answered as ignored, known once it is measured

Mount == [motion : {"still", "slew", "park", "failed"},   \* the mount itself
          reached : BOOLEAN,                      \* it stands where the last move sent it
          moving : {"observing", "moving", "parked", "parking"},
          correcting : BOOLEAN, bop : BOOLEAN,    \* TEL_CORRECTING, BOP_EXPOSURE
          tracking : BOOLEAN, block : BOOLEAN,
          ori : Targets \cup {Nowhere}, oriNew : BOOLEAN,
          moveNum : Nat, completed : BOOLEAN,
          woffs : {0, 1}, woffsNew : BOOLEAN,     \* zero or not, not applied yet
          corr : Seq(1..MaxImages), corrId : 0..MaxImages,
          wcorr : Image \cup {NoImage}, wcorrId : 0..MaxImages,
          told : BOOLEAN]                         \* centrald owes a blocking state

\* Types, and CORR_IMG names the last image that CORR_ holds.
TypeOK == /\ tel \in Mount
          /\ tel.corrId = IF tel.corr = <<>> THEN 0 ELSE tel.corr[Len(tel.corr)]
          /\ master \in [stop : BOOLEAN, off : BOOLEAN]
          /\ cam \in BOOLEAN /\ images \subseteq Image /\ taken \in 0..MaxImages

\* pos_err against ignore_correction and small_correction
Errors == {"negligible", "small", "large"}

Driver == [stop : IF StopFails THEN BOOLEAN ELSE {TRUE}, start : BOOLEAN]

-----------------------------------------------------------------------------
(* Pieces of the handlers.                                                 *)

\* centrald answers every change of the mount's blocking bits
SetBop(t, b) == [t EXCEPT !.bop = b, !.told = @ \/ t.bop # b]

InMotion(t) == t.motion \in {"slew", "park"}

StopMove(t, d) ==
  IF d.stop /\ InMotion(t)
  THEN [t EXCEPT !.motion = IF StoppedIsFailed THEN "failed" ELSE "still"] ELSE t

StopTracking(t, d) == StopMove([t EXCEPT !.tracking = FALSE], d)

\* setTracking (value) of endMove: no tracking stops the mount once more
StartTracking(t, d) == IF t.tracking THEN t ELSE StopMove(t, d)

Observing(t) == SetBop([t EXCEPT !.moving = "observing", !.correcting = FALSE], FALSE)

SetOri(t, target) ==
  [t EXCEPT !.ori = target, !.oriNew = @ \/ t.ori # target \/ target = Nowhere]

IncMoveNum(t) ==
  [t EXCEPT !.moveNum = @ + 1, !.woffs = 0, !.woffsNew = FALSE,
            !.corr = <<>>, !.corrId = 0, !.wcorr = NoImage, !.wcorrId = 0]

Waiting(t) == t.woffsNew \/ t.wcorr # NoImage

FoldCorrection(t) ==
  IF t.wcorr = NoImage THEN t
  ELSE [t EXCEPT !.corr = Append(@, t.wcorr.id), !.corrId = t.wcorrId]

\* mutant: a correction whose move failed stays for the next move
KeepCorrection(s, t) == s

\* mutant: CORR_IMG keeps the image whose correction was dropped
RollbackKeepsId(s, t) ==
  IF t.wcorr = NoImage THEN s ELSE [s EXCEPT !.corr = t.corr, !.wcorr = NoImage]

\* a correction whose move failed is dropped, what it changed restored
Rollback(s, t) ==
  IF t.wcorr = NoImage THEN s
  ELSE [s EXCEPT !.corr = t.corr, !.corrId = t.corrId, !.wcorr = NoImage]

-----------------------------------------------------------------------------
(* Moves.  A move gives the daemon and whether it started.                 *)

Refused(s, t) == <<Rollback(s, t), FALSE>>

Unreachable(t, d) ==
  Observing(StopTracking(StopMove(SetOri(t, Nowhere), d), d))

Started(t) == [t EXCEPT !.motion = "slew", !.reached = FALSE, !.oriNew = FALSE,
                        !.woffsNew = FALSE, !.wcorr = NoImage]

\* t: before a waiting correction was folded in
DoMove(t, s, d, correction, anywhere) ==
  LET busy == s.moving = "moving" \/ s.correcting
      u    == IF busy THEN StopMove(s, d) ELSE s
      v    == SetBop([u EXCEPT !.moving = "moving", !.correcting = correction], TRUE)
  IN  IF s.block \/ s.moving = "parking" \/ (busy /\ ~d.stop) THEN Refused(s, t)
      ELSE IF u.ori \in Low /\ ~anywhere THEN Refused(Unreachable(u, d), t)
      ELSE IF d.start THEN <<Started(v), TRUE>>
      ELSE Refused(Observing(StopTracking(v, d)), t)

StartResyncMove(t0, d, correction, anywhere) ==
  LET c == [t0 EXCEPT !.completed = FALSE]
      t == IF c.oriNew THEN IncMoveNum(c) ELSE c
  IN  IF t0.ori = Nowhere THEN <<c, FALSE>>
      ELSE DoMove(t, FoldCorrection(t), d, correction, anywhere)

\* mutant: the tracking of a refused move stays on
MoveKeepsTracking(t, d, target) ==
  StartResyncMove([SetOri(t, target) EXCEPT !.tracking = TRUE], d, FALSE, FALSE)[1]

\* the family of "move" commands
Move(t, d, target) ==
  LET r == StartResyncMove([SetOri(t, target) EXCEPT !.tracking = TRUE], d, FALSE, FALSE)
  IN  IF r[2] THEN r[1] ELSE StopTracking(r[1], d)

Resync(t, d, target) == StartResyncMove(SetOri(t, target), d, FALSE, FALSE)[1]

\* altaz, and altaz_nc which goes anywhere
AltAz(t, d, target, anywhere) ==
  StartResyncMove(SetOri(StopTracking(t, d), target), d, FALSE, anywhere)[1]

Change(t, d) ==
  StartResyncMove([t EXCEPT !.woffs = 1, !.woffsNew = TRUE], d, TRUE, FALSE)[1]

\* mutant: a parked mount still counts as having reached its target
ParkKeepsCompleted(t, d, keep) ==
  IF t.moving = "parking" \/ t.block THEN t
  ELSE [IncMoveNum(StopTracking(t, d)) EXCEPT !.motion = "park", !.reached = FALSE, !.moving = "parking"]

\* startPark () of a driver may keep ORI
StartPark(t, d, keep) ==
  LET s == IF t.moving = "moving" THEN StopMove(t, d) ELSE t
      u == [StopTracking(s, d) EXCEPT !.completed = FALSE]
      v == IncMoveNum(IF keep THEN u ELSE [u EXCEPT !.ori = Nowhere, !.oriNew = FALSE])
  IN  IF t.moving = "parking" \/ t.block \/ (t.moving = "moving" /\ ~d.stop) THEN t
      ELSE IF d.start THEN [v EXCEPT !.motion = "park", !.reached = FALSE, !.moving = "parking"]
      ELSE u

-----------------------------------------------------------------------------
(* checkMoves () of the idle loop.                                         *)

Parked(t) == SetBop([t EXCEPT !.moving = "parked"], FALSE)

\* good: the driver's endMove () succeeds
MoveEnded(t, d, good) ==
  LET e == StartTracking([t EXCEPT !.completed = TRUE], d)
  IN  IF ~good THEN Observing(t)
      ELSE IF Waiting(e) THEN StartResyncMove(e, d, TRUE, FALSE)[1]
      ELSE Observing(e)

CheckMoves(t, d, good) ==
  CASE t.moving = "moving" /\ ~InMotion(t)  ->
         IF t.motion = "failed" THEN Observing(t) ELSE MoveEnded(t, d, good)
    [] t.moving = "parking" /\ ~InMotion(t) -> Parked(t)
    [] OTHER                                -> t

-----------------------------------------------------------------------------
(* Corrections and the blocking state.                                     *)

TakenFor(t, i) ==
  /\ i.mark = t.moveNum
  /\ i.corrId = t.corrId
  /\ i.id > t.wcorrId

Accepts(t, i) == t.completed /\ TakenFor(t, i)

Taken(t, i) == [t EXCEPT !.wcorr = i, !.wcorrId = i.id]

\* what a small error means: answered as ignored, kept, and no block
TakenAsSmall(t, i) == Taken(t, [i EXCEPT !.small = TRUE])

\* mutant: the cameras are not told of the coming correction
CorrectUnannounced(t, i, err) ==
  CASE ~Accepts(t, i) \/ err = "negligible" -> t
    [] Accepts(t, i) /\ err = "small"       -> TakenAsSmall(t, i)
    [] Accepts(t, i) /\ err = "large"       -> Taken(t, i)

Correct(t, i, err) ==
  CASE ~Accepts(t, i) \/ err = "negligible" -> t
    [] Accepts(t, i) /\ err = "small"       -> TakenAsSmall(t, i)
    [] Accepts(t, i) /\ err = "large"       -> SetBop(Taken(t, i), TRUE)

\* mutant: corrections wait for the next move
FullBopOnlyOffsets(t, d, exposing) ==
  IF t.woffsNew /\ ~exposing THEN StartResyncMove(t, d, TRUE, FALSE)[1] ELSE t

SetFullBopState(t, d, exposing) ==
  IF Waiting(t) /\ ~exposing THEN StartResyncMove(t, d, TRUE, FALSE)[1] ELSE t

ScriptEnds(t) == [t EXCEPT !.woffsNew = @ \/ t.woffs # 0, !.woffs = 0]

SetWoffs(t, offset) ==
  IF offset = t.woffs THEN t
  ELSE SetBop([t EXCEPT !.woffs = offset, !.woffsNew = TRUE], TRUE)

MayTrack(t) == ~t.block /\ t.moving \notin {"parking", "parked"}

-----------------------------------------------------------------------------
(* The state of centrald; standby_park is on.                              *)

\* the stop bit is looked for in the mount's own state, so each message stops
Stop(t, old, new, d) ==
  CASE new.stop -> StopMove(StopTracking([t EXCEPT !.block = TRUE], d), d)
    [] old.stop /\ ~new.stop -> [t EXCEPT !.block = FALSE]
    [] OTHER    -> t

ChangeMasterState(t, old, new, d, keep) ==
  LET s == Stop(t, old, new, d)
      p == IF new.off /\ s.moving \notin {"parked", "parking"} THEN StartPark(s, d, keep) ELSE s
  IN  CASE BlockOnStandby /\ new.off            -> [p EXCEPT !.block = TRUE]
        [] BlockOnStandby /\ old.off /\ ~new.off -> [p EXCEPT !.block = FALSE]
        [] OTHER                                -> p

-----------------------------------------------------------------------------
(* Actions.                                                                *)

Becomes(t) == tel' = t /\ UNCHANGED <<master, cam, images, taken>>

\* initValues () takes the position of the mount for ORI
Init == /\ \E x \in Targets : tel =
                 [motion |-> "still", reached |-> FALSE, moving |-> "observing",
                  correcting |-> FALSE, bop |-> FALSE, tracking |-> FALSE, block |-> FALSE,
                  ori |-> x, oriNew |-> TRUE, moveNum |-> 0, completed |-> FALSE,
                  woffs |-> 0, woffsNew |-> FALSE, corr |-> <<>>, corrId |-> 0,
                  wcorr |-> NoImage, wcorrId |-> 0, told |-> TRUE]
        /\ master = [stop |-> FALSE, off |-> FALSE]
        /\ cam = FALSE /\ images = {} /\ taken = 0

Idle == \E d \in Driver, good \in BOOLEAN : Becomes(CheckMoves(tel, d, good))

Moves == tel.moveNum < MaxMoves

CommandMove   == Moves /\ \E d \in Driver, x \in Targets : Becomes(Move(tel, d, x))
CommandResync == Moves /\ \E d \in Driver, x \in Targets : Becomes(Resync(tel, d, x))
CommandAltAz  == Moves /\ \E d \in Driver, x \in Targets, a \in BOOLEAN : Becomes(AltAz(tel, d, x, a))
CommandChange == Moves /\ \E d \in Driver : Becomes(Change(tel, d))
CommandPark   == Moves /\ \E d \in Driver, k \in BOOLEAN : Becomes(StartPark(tel, d, k))
CommandStop   == \E d \in Driver : Becomes(StopMove(StopTracking(tel, d), d))

CommandCorrect == \E i \in images, err \in Errors :
  /\ tel' = Correct(tel, i, err) /\ images' = images \ {i}
  /\ UNCHANGED <<master, cam, taken>>

CommandScriptEnds == Becomes(ScriptEnds(tel))

\* worm_start and worm_stop, and writes of TRACKING
StartsTracking == MayTrack(tel) /\ Becomes([tel EXCEPT !.tracking = TRUE])
StopsTracking  == \E d \in Driver : Becomes(StopTracking(tel, d))

WriteWoffs == Moves /\ \E o \in {0, 1} : Becomes(SetWoffs(tel, o))
WriteOffs  == Moves /\ \E d \in Driver : Becomes(StartResyncMove(tel, d, FALSE, FALSE)[1])
WriteOri   == Moves /\ \E d \in Driver, x \in Targets \ {tel.ori} : Becomes(Resync(tel, d, x))

\* info () finds the mount below the horizon
BelowHorizon == \E d \in Driver : Becomes(StopTracking(tel, d))

BopSays == /\ tel.told
           /\ \E d \in Driver : Becomes(SetFullBopState([tel EXCEPT !.told = FALSE], d, cam))

MasterSays == \E new \in [stop : BOOLEAN, off : BOOLEAN], d \in Driver, k \in BOOLEAN :
  /\ Moves /\ master' = new
  /\ tel' = ChangeMasterState(tel, master, new, d, k)
  /\ UNCHANGED <<cam, images, taken>>

\* a camera that may expose takes an image, marked with the mount's values
CamStarts ==
  /\ ~cam /\ ~tel.bop /\ taken < MaxImages
  /\ cam' = TRUE /\ taken' = taken + 1
  /\ images' = images \cup
       {[id |-> taken + 1, mark |-> tel.moveNum, corrId |-> tel.corrId, corr |-> tel.corr,
         onTarget |-> tel.reached /\ tel.motion = "still", small |-> FALSE]}
  /\ tel' = [tel EXCEPT !.told = TRUE]
  /\ UNCHANGED master

CamEnds == /\ cam /\ cam' = FALSE
           /\ tel' = [tel EXCEPT !.told = TRUE]
           /\ UNCHANGED <<master, images, taken>>

\* the mount itself
Arrives == InMotion(tel) /\ Becomes([tel EXCEPT !.motion = "still", !.reached = tel.motion = "slew"])
Fails   == InMotion(tel) /\ Becomes([tel EXCEPT !.motion = "failed"])

Next == \/ Idle \/ CommandMove \/ CommandResync \/ CommandAltAz \/ CommandChange
        \/ CommandPark \/ CommandStop \/ CommandCorrect \/ CommandScriptEnds
        \/ StartsTracking \/ StopsTracking \/ WriteWoffs \/ WriteOffs \/ WriteOri
        \/ BelowHorizon \/ BopSays \/ MasterSays \/ CamStarts \/ CamEnds \/ Arrives \/ Fails

Spec == Init /\ [][Next]_vars

\* the idle loop runs, messages arrive, exposures end, moves arrive or fail
FairSpec == Spec /\ WF_vars(Idle) /\ WF_vars(BopSays) /\ WF_vars(CamEnds) /\ WF_vars(Arrives \/ Fails)

-----------------------------------------------------------------------------
(* Properties.                                                             *)

\* a correction waits that the cameras were told of
Announced(t) == t.wcorr # NoImage /\ ~t.wcorr.small

(* move_completed: "the last move reached its target" (checkMoves,         *)
(* startResyncMove and startPark in every order with stops and failures).  *)
CompletedMeansReached == tel.completed => tel.reached /\ tel.motion = "still"

(* A correction enters CORR_ only on top of the corrections its image was  *)
(* taken with and for the same MOVE_NUM, so no error is corrected twice    *)
(* ("correct", startResyncMove and its rollback).  An operator's writes of *)
(* CORR_, wcorr and wcorr_img (236, 239, 242) are outside the model.       *)
CorrectsWhatItSaw ==
  [][tel'.corr # <<>> /\ tel'.corr # tel.corr =>
       /\ tel.wcorr # NoImage /\ tel'.corr = Append(tel.wcorr.corr, tel.wcorr.id)
       /\ tel.wcorr.mark = tel'.moveNum /\ tel'.moveNum = tel.moveNum]_vars

(* While the mount slews or an announced correction waits exposures are    *)
(* blocked (startResyncMove, checkMoves and "correct"); one below          *)
(* small_correction waits without a block (2790).                          *)
MovesBlockExposures == tel.motion = "slew" \/ Announced(tel) => tel.bop

(* A parked mount stands still and does not track, whatever was refused    *)
(* before (startPark, and stopTracking after a refused "move").            *)
ParkedIsStill == tel.moving = "parked" => ~tel.tracking /\ ~InMotion(tel)

(* In the stop state nothing starts a motion and the mount does not track, *)
(* whatever waits or is asked; a stop that the driver refuses leaves the   *)
(* motion that was (changeMasterState and the handlers that start one).    *)
(* Nor does a parked mount move.  The exception, not modelled, is an       *)
(* operator who writes block_move (323) and so lifts the block himself.    *)
StillAtRest ==
  [][/\ ParkedIsStill'
     /\ master'.stop => /\ ~tel'.tracking
                        /\ InMotion(tel') => tel'.motion = tel.motion]_vars

(* An announced correction is carried out or dropped (setFullBopState and  *)
(* checkMoves pick it up).  A small one has no block centrald would answer *)
(* to, and may wait until the blocking state changes for another reason.   *)
CorrectionSettled == Announced(tel) ~> tel.wcorr = NoImage

-----------------------------------------------------------------------------
(* What the documentation says, and the code does not always do.           *)

(* STATUS.md: "A correct is taken only for a move that reached its target" *)
(* since "from a failed move it is the miss, not a pointing error".        *)
CorrectionsFromTarget == [][tel'.wcorr # NoImage /\ tel'.wcorr # tel.wcorr => tel'.wcorr.onTarget]_vars

(* teld.cpp:2792: "NOT correcting pos_err", and the answer "ignoring       *)
(* correction debugging phase": an error below small_correction is not     *)
(* corrected.  It was stored before, and the next move in place adds it.   *)
SmallIsIgnored ==
  [][tel.wcorr # NoImage /\ tel.wcorr.small => tel'.corr # Append(tel.corr, tel.wcorr.id)]_vars
=============================================================================
