--------------------------- MODULE TelescopeProofs ---------------------------
(***************************************************************************)
(* Theorems of Telescope for every set of targets, every driver and every  *)
(* bound: type correctness, what move_completed means, what blocks         *)
(* exposures, the stop state, and that a correction enters CORR_ only on   *)
(* top of what its image saw.                                              *)
(*                                                                         *)
(* A handler is a function on the daemon's record, so its lemma says two   *)
(* things of the record it is given and the one it returns: the invariant  *)
(* of one record (Sound) is kept, and the step from one to the other is    *)
(* one the corrections and the stop state allow (Passes).                  *)
(***************************************************************************)
EXTENDS Telescope, TLAPS

LastOf(corr) == IF corr = <<>> THEN 0 ELSE corr[Len(corr)]

\* CORR_IMG names the last image that CORR_ holds, and a waiting correction is newer
\* and was measured on the corrections CORR_ holds now.
Corrected(t) ==
  /\ t.corrId = LastOf(t.corr)
  /\ t.corrId <= t.wcorrId
  /\ t.wcorr # NoImage => /\ t.wcorr.mark = t.moveNum
                          /\ t.wcorr.corr = t.corr
                          /\ t.wcorr.id = t.wcorrId /\ t.wcorrId > t.corrId

\* The mount moves only in the state that says so; until it has arrived no correction
\* can wait, because none is accepted before move_completed.
InState(t) ==
  /\ t.motion = "slew" => t.moving = "moving"
  /\ t.motion = "park" => t.moving = "parking"
  /\ t.moving \in {"moving", "parking"} => t.wcorr = NoImage /\ ~t.completed

\* a small correction waits without a block
Blocks(t) == t.motion = "slew" \/ (t.wcorr # NoImage /\ ~t.wcorr.small) => t.bop

\* what a driver ensures that takes a stopped move for a failed one
Reaches(t) ==
  StoppedIsFailed => /\ t.completed => t.reached /\ t.motion = "still"
                     /\ t.moving = "moving" /\ t.motion = "still" => t.reached

Sound(t) == t \in Mount /\ Corrected(t) /\ InState(t) /\ Blocks(t) /\ Reaches(t)

Rests(t) == t.moving \in {"parked", "parking"} => ~t.tracking

\* What an image in flight can still tell: it was not taken in a later move, and within
\* the present one CORR_IMG identifies the corrections it was taken with.
Known(t, i) ==
  /\ i.mark <= t.moveNum
  /\ i.mark = t.moveNum => i.corrId <= t.corrId
  /\ i.mark = t.moveNum /\ i.corrId = t.corrId => i.corr = t.corr

\* the stop state blocks moves and tracking, unless block_on_standby lifts the block
Stands == master.stop /\ ~BlockOnStandby => tel.block /\ ~tel.tracking

IInv == TypeOK /\ Sound(tel) /\ Rests(tel) /\ (\A i \in images : Known(tel, i)) /\ Stands

-----------------------------------------------------------------------------
(* What a handler may do to the corrections, and to a mount that is        *)
(* blocked.                                                                *)

KeepsCorr(t, u) == u.corr = t.corr /\ u.corrId = t.corrId /\ u.moveNum = t.moveNum

Folds(t, u) == /\ t.wcorr # NoImage /\ u.corr = Append(t.corr, t.wcorr.id)
               /\ u.corrId = t.wcorrId /\ u.moveNum = t.moveNum

NewMove(t, u) == u.corr = <<>> /\ u.corrId = 0 /\ u.moveNum = t.moveNum + 1

Obeys(t, u) == t.block => u.block /\ (InMotion(u) => u.motion = t.motion)

Passes(t, u) == (KeepsCorr(t, u) \/ Folds(t, u) \/ NewMove(t, u)) /\ Obeys(t, u)

\* no handler but Move and a write of TRACKING starts to track, and none but a park parks
Calm(t, u) == /\ u.tracking => t.tracking
              /\ u.moving \in {"parked", "parking"} => u.moving = t.moving

-----------------------------------------------------------------------------
(* Pieces of the handlers.                                                 *)

LEMMA StopMoveSound ==
  ASSUME NEW t, Sound(t), NEW d \in Driver
  PROVE  /\ Sound(StopMove(t, d)) /\ KeepsCorr(t, StopMove(t, d))
         /\ Obeys(t, StopMove(t, d)) /\ Calm(t, StopMove(t, d))
         /\ StopMove(t, d).wcorr = t.wcorr
         /\ StopMove(t, d).motion # t.motion => ~InMotion(StopMove(t, d))
         /\ d.stop => ~InMotion(StopMove(t, d))
  BY DEF StopMove, Sound, Mount, Corrected, InState, Blocks, Reaches, KeepsCorr, Obeys, Calm, InMotion

LEMMA StopTrackingSound ==
  ASSUME NEW t, Sound(t), NEW d \in Driver
  PROVE  /\ Sound(StopTracking(t, d)) /\ KeepsCorr(t, StopTracking(t, d))
         /\ Obeys(t, StopTracking(t, d)) /\ Calm(t, StopTracking(t, d))
         /\ ~StopTracking(t, d).tracking
         /\ StopTracking(t, d).wcorr = t.wcorr
         /\ StopTracking(t, d).motion # t.motion => ~InMotion(StopTracking(t, d))
         /\ d.stop => ~InMotion(StopTracking(t, d))
<1> DEFINE s == [t EXCEPT !.tracking = FALSE]
<1>1. s \in Mount
  BY DEF Sound, Mount
<1>2. /\ ~s.tracking /\ s.motion = t.motion /\ s.moving = t.moving /\ s.corr = t.corr
      /\ s.wcorr = t.wcorr /\ s.block = t.block /\ s.completed = t.completed
      /\ s.reached = t.reached /\ s.bop = t.bop /\ s.corrId = t.corrId
      /\ s.wcorrId = t.wcorrId /\ s.moveNum = t.moveNum
  BY DEF Sound, Mount
<1>3. StopTracking(t, d) = StopMove(s, d)
  BY DEF StopTracking
<1> HIDE DEF s
<1>4. Sound(s)
  BY <1>1, <1>2 DEF Sound, Corrected, InState, Blocks, Reaches
<1>5. /\ Sound(StopMove(s, d)) /\ KeepsCorr(s, StopMove(s, d))
      /\ Obeys(s, StopMove(s, d)) /\ Calm(s, StopMove(s, d))
      /\ d.stop => ~InMotion(StopMove(s, d))
      /\ StopMove(s, d).wcorr = s.wcorr
      /\ StopMove(s, d).motion # s.motion => ~InMotion(StopMove(s, d))
  BY <1>4, StopMoveSound
<1> QED
  BY <1>2, <1>3, <1>5 DEF KeepsCorr, Obeys, Calm, InMotion

LEMMA SetBopMount ==
  ASSUME NEW t \in Mount, NEW b \in BOOLEAN
  PROVE  SetBop(t, b) \in Mount
<1> DEFINE w == t.told \/ t.bop # b
<1>1. SetBop(t, b) = [t EXCEPT !.bop = b, !.told = w] /\ w \in BOOLEAN
  BY DEF SetBop
<1> HIDE DEF w
<1> QED
  BY <1>1 DEF Mount

LEMMA ObservingSound ==
  ASSUME NEW t, Sound(t), t.motion # "slew", t.motion # "park", t.wcorr = NoImage
  PROVE  /\ Sound(Observing(t)) /\ KeepsCorr(t, Observing(t))
         /\ Observing(t).block = t.block /\ Observing(t).motion = t.motion
         /\ Observing(t).wcorr = NoImage
         /\ Calm(t, Observing(t))
<1> DEFINE u == Observing(t)
<1>1. u \in Mount
  BY ZenonT(60) DEF Observing, SetBop, Sound, Mount
<1>2. /\ u.moving = "observing" /\ ~u.bop /\ u.motion = t.motion /\ u.corr = t.corr
      /\ u.wcorr = t.wcorr /\ u.block = t.block /\ u.completed = t.completed
      /\ u.reached = t.reached /\ u.tracking = t.tracking /\ u.corrId = t.corrId
      /\ u.wcorrId = t.wcorrId /\ u.moveNum = t.moveNum
  BY DEF Observing, SetBop, Sound, Mount
<1> HIDE DEF u
<1>3. Sound(u) /\ KeepsCorr(t, u) /\ Calm(t, u)
  BY <1>1, <1>2 DEF Sound, Corrected, InState, Blocks, Reaches, KeepsCorr, Calm
<1> QED
  BY <1>2, <1>3 DEF u

LEMMA SetOriSound ==
  ASSUME NEW t, Sound(t), NEW target \in Targets \cup {Nowhere}
  PROVE  /\ Sound(SetOri(t, target)) /\ KeepsCorr(t, SetOri(t, target))
         /\ SetOri(t, target).block = t.block /\ SetOri(t, target).motion = t.motion
         /\ SetOri(t, target).moving = t.moving /\ SetOri(t, target).tracking = t.tracking
         /\ SetOri(t, target).wcorr = t.wcorr
<1> DEFINE u == SetOri(t, target)
<1>1. u \in Mount
  BY DEF SetOri, Sound, Mount
<1>2. /\ u.moving = t.moving /\ u.bop = t.bop /\ u.motion = t.motion /\ u.corr = t.corr
      /\ u.wcorr = t.wcorr /\ u.block = t.block /\ u.completed = t.completed
      /\ u.reached = t.reached /\ u.tracking = t.tracking /\ u.corrId = t.corrId
      /\ u.wcorrId = t.wcorrId /\ u.moveNum = t.moveNum
  BY DEF SetOri, Sound, Mount
<1> HIDE DEF u
<1>3. Sound(u) /\ KeepsCorr(t, u)
  BY <1>1, <1>2 DEF Sound, Corrected, InState, Blocks, Reaches, KeepsCorr
<1> QED
  BY <1>2, <1>3 DEF u

LEMMA IncMoveNumSound ==
  ASSUME NEW t, Sound(t)
  PROVE  /\ Sound(IncMoveNum(t)) /\ NewMove(t, IncMoveNum(t))
         /\ IncMoveNum(t).block = t.block /\ IncMoveNum(t).motion = t.motion
         /\ IncMoveNum(t).moving = t.moving /\ IncMoveNum(t).tracking = t.tracking
         /\ IncMoveNum(t).wcorr = NoImage /\ IncMoveNum(t).completed = t.completed
<1> DEFINE u == IncMoveNum(t)
<1>1. u \in Mount
  <2> DEFINE n == t.moveNum + 1
             v == [t EXCEPT !.moveNum = n, !.woffs = 0, !.woffsNew = FALSE]
  <2>4. n \in Nat /\ t \in Mount
    BY DEF Sound, Mount
  <2>1. v \in Mount
    <3> HIDE DEF n
    <3> QED
      BY <2>4 DEF Mount
  <2>2. u = [v EXCEPT !.corr = <<>>, !.corrId = 0, !.wcorr = NoImage, !.wcorrId = 0]
    BY DEF IncMoveNum
  <2>3. <<>> \in Seq(1..MaxImages) /\ 0 \in 0..MaxImages
    BY LimitsAssumption
  <2> HIDE DEF v, u
  <2> QED
    BY <2>1, <2>2, <2>3 DEF Mount
<1>2. /\ u.moving = t.moving /\ u.bop = t.bop /\ u.motion = t.motion /\ u.corr = <<>>
      /\ u.wcorr = NoImage /\ u.block = t.block /\ u.completed = t.completed
      /\ u.reached = t.reached /\ u.tracking = t.tracking /\ u.corrId = 0
      /\ u.wcorrId = 0 /\ u.moveNum = t.moveNum + 1
  BY DEF IncMoveNum, Sound, Mount
<1> HIDE DEF u
<1>3. Sound(u) /\ NewMove(t, u)
  BY <1>1, <1>2 DEF Sound, Corrected, LastOf, InState, Blocks, Reaches, NewMove
<1> QED
  BY <1>2, <1>3 DEF u

-----------------------------------------------------------------------------
(* Moves.  While a move is tried a waiting correction is in CORR_ already, *)
(* so the records in between are not Sound; x is what a handler has made   *)
(* of the mount t at rest, its corrections aside.                          *)

Near(t, x) ==
  /\ x \in Mount
  /\ x.motion = t.motion /\ x.reached = t.reached /\ x.completed = t.completed
  /\ x.block = t.block
  /\ x.tracking => t.tracking
  /\ x.wcorr = t.wcorr /\ x.wcorrId = t.wcorrId /\ x.moveNum = t.moveNum
  /\ t.wcorr = NoImage => KeepsCorr(t, x)
  /\ t.wcorr # NoImage => Folds(t, x)

LEMMA NearObserving ==
  ASSUME NEW t, NEW x, Near(t, x), ~InMotion(t), NEW d \in Driver
  PROVE  /\ Near(t, Observing(StopTracking(x, d)))
         /\ Observing(StopTracking(x, d)).moving = "observing"
<1> DEFINE y == [x EXCEPT !.tracking = FALSE]
           u == Observing(y)
<1>1. /\ y \in Mount /\ ~y.tracking /\ y.motion = x.motion /\ y.corr = x.corr /\ y.wcorr = x.wcorr
      /\ y.block = x.block /\ y.completed = x.completed /\ y.reached = x.reached
      /\ y.corrId = x.corrId /\ y.wcorrId = x.wcorrId /\ y.moveNum = x.moveNum
  BY DEF Near, Mount
<1>2. StopTracking(x, d) = y
  BY <1>1 DEF StopTracking, StopMove, Near, InMotion
<1> HIDE DEF y
<1>3. u \in Mount
  BY <1>1 DEF Observing, SetBop, Mount
<1>4. /\ u.moving = "observing" /\ u.motion = y.motion /\ u.corr = y.corr /\ u.wcorr = y.wcorr
      /\ u.block = y.block /\ u.completed = y.completed /\ u.reached = y.reached
      /\ u.corrId = y.corrId /\ u.wcorrId = y.wcorrId /\ u.moveNum = y.moveNum
      /\ u.tracking = y.tracking
  BY <1>1 DEF Observing, SetBop, Mount
<1> HIDE DEF u
<1> QED
  BY <1>1, <1>2, <1>3, <1>4 DEF Near, KeepsCorr, Folds, u

LEMMA RollbackSound ==
  ASSUME NEW t, Sound(t), NEW x, Near(t, x), ~InMotion(t), ~t.completed,
         x.moving \in {"observing", t.moving}
  PROVE  /\ Sound(Rollback(x, t)) /\ KeepsCorr(t, Rollback(x, t))
         /\ Rollback(x, t).motion = t.motion /\ Rollback(x, t).block = t.block
         /\ Rollback(x, t).moving = x.moving
         /\ Rollback(x, t).wcorr = NoImage
         /\ Calm(t, Rollback(x, t))
<1> DEFINE u == Rollback(x, t)
<1>1. CASE t.wcorr = NoImage
  BY <1>1 DEF Rollback, Near, KeepsCorr, Sound, Corrected, InState, Blocks, Reaches, InMotion, Calm
<1>2. CASE t.wcorr # NoImage
  <2>1. u = [x EXCEPT !.corr = t.corr, !.corrId = t.corrId, !.wcorr = NoImage]
    BY <1>2 DEF Rollback
  <2>2. u \in Mount
    BY <2>1 DEF Near, Sound, Mount
  <2>3. /\ u.moving = x.moving /\ u.motion = x.motion /\ u.corr = t.corr /\ u.wcorr = NoImage
        /\ u.block = x.block /\ u.completed = x.completed /\ u.reached = x.reached
        /\ u.corrId = t.corrId /\ u.wcorrId = x.wcorrId /\ u.moveNum = x.moveNum
        /\ u.tracking = x.tracking
    BY <2>1 DEF Near, Mount
  <2> HIDE DEF u
  <2>4. Sound(u)
    BY <2>2, <2>3 DEF Near, Sound, Corrected, InState, Blocks, Reaches, InMotion
  <2>5. KeepsCorr(t, u) /\ Calm(t, u)
    BY <2>3 DEF Near, KeepsCorr, Calm, InMotion
  <2> QED
    BY <2>3, <2>4, <2>5 DEF u, Near
<1> QED
  BY <1>1, <1>2

LEMMA StartedSound ==
  ASSUME NEW t, Sound(t), NEW x, Near(t, x), ~t.completed, x.moving = "moving", x.bop
  PROVE  /\ Sound(Started(x)) /\ (KeepsCorr(t, Started(x)) \/ Folds(t, Started(x)))
         /\ Started(x).moving = "moving"
         /\ Started(x).tracking => t.tracking
<1> DEFINE u == Started(x)
<1>1. u \in Mount
  BY DEF Started, Near, Mount
<1>2. /\ u.moving = x.moving /\ u.bop = x.bop /\ u.motion = "slew" /\ u.corr = x.corr
      /\ u.wcorr = NoImage /\ u.completed = x.completed
      /\ u.tracking = x.tracking /\ u.corrId = x.corrId
      /\ u.wcorrId = x.wcorrId /\ u.moveNum = x.moveNum
  BY DEF Started, Near, Mount
<1> HIDE DEF u
<1>3. InState(u) /\ Blocks(u) /\ Reaches(u)
  BY <1>1, <1>2 DEF Near, InState, Blocks, Reaches
<1>4. CASE t.wcorr = NoImage
  BY <1>1, <1>2, <1>3, <1>4 DEF Near, KeepsCorr, Sound, Corrected, u
<1>5. CASE t.wcorr # NoImage
  <2>1. t.corr \in Seq(1..MaxImages) /\ t.wcorr.id \in 1..MaxImages /\ t.wcorr.id = t.wcorrId
    BY <1>5 DEF Sound, Mount, Image, Corrected
  <2>2. LastOf(Append(t.corr, t.wcorr.id)) = t.wcorr.id
    BY <2>1 DEF LastOf
  <2>3. Folds(t, u) /\ u.wcorrId = t.wcorrId
    BY <1>2, <1>5 DEF Near, Folds
  <2>4. Corrected(u)
    <3>1. u.corrId = LastOf(u.corr)
      BY <2>1, <2>2, <2>3 DEF Folds
    <3>2. u.corrId <= u.wcorrId
      BY <2>1, <2>3 DEF Folds
    <3> QED
      BY <1>2, <3>1, <3>2 DEF Corrected
  <2> QED
    BY <1>1, <1>2, <1>3, <2>3, <2>4 DEF Near, Sound, u
<1> QED
  BY <1>4, <1>5

LEMMA FoldNear ==
  ASSUME NEW t, Sound(t)
  PROVE  /\ Near(t, FoldCorrection(t))
         /\ FoldCorrection(t).moving = t.moving
<1>1. CASE t.wcorr = NoImage
  BY <1>1 DEF FoldCorrection, Near, KeepsCorr, Sound
<1>2. CASE t.wcorr # NoImage
  <2> DEFINE c == Append(t.corr, t.wcorr.id)
             u == [t EXCEPT !.corr = c, !.corrId = t.wcorrId]
  <2>1. t.corr \in Seq(1..MaxImages) /\ t.wcorr.id \in 1..MaxImages
    BY <1>2 DEF Sound, Mount, Image
  <2>2. c \in Seq(1..MaxImages)
    BY <2>1
  <2>3. FoldCorrection(t) = u
    BY <1>2 DEF FoldCorrection
  <2>4. u.corr = c /\ t \in Mount
    BY DEF Sound, Mount
  <2> HIDE DEF c
  <2>5. u \in Mount
    BY <2>2, <2>4 DEF Mount
  <2>6. /\ u.moving = t.moving /\ u.motion = t.motion /\ u.wcorr = t.wcorr
        /\ u.block = t.block /\ u.completed = t.completed /\ u.reached = t.reached
        /\ u.corrId = t.wcorrId /\ u.wcorrId = t.wcorrId /\ u.moveNum = t.moveNum
        /\ u.tracking = t.tracking
    BY <2>4 DEF Mount
  <2> HIDE DEF u
  <2> QED
    BY <1>2, <2>3, <2>4, <2>5, <2>6 DEF Near, Folds, c
<1> QED
  BY <1>1, <1>2

\* what a try to move makes of the mount, r = <<mount, started>>
Moved(t, r) ==
  /\ Sound(r[1]) /\ r[2] \in BOOLEAN
  /\ KeepsCorr(t, r[1]) \/ Folds(t, r[1])
  /\ Obeys(t, r[1]) /\ Calm(t, r[1])
  /\ r[2] => r[1].moving = "moving" /\ ~t.block

LEMMA DoMoveSound ==
  ASSUME NEW t, Sound(t), ~t.completed, NEW d \in Driver,
         NEW correction \in BOOLEAN, NEW anywhere \in BOOLEAN
  PROVE  Moved(t, DoMove(t, FoldCorrection(t), d, correction, anywhere))
<1> DEFINE s    == FoldCorrection(t)
           busy == s.moving = "moving" \/ s.correcting
           u0   == IF busy THEN StopMove(t, d) ELSE t
           u    == IF busy THEN StopMove(s, d) ELSE s
           v    == SetBop([u EXCEPT !.moving = "moving", !.correcting = correction], TRUE)
           r    == DoMove(t, s, d, correction, anywhere)
<1> SUFFICES Moved(t, r)
  OBVIOUS
<1>1. Near(t, s) /\ s.moving = t.moving
  BY FoldNear
<1>2. /\ Sound(u0) /\ KeepsCorr(t, u0) /\ Obeys(t, u0) /\ Calm(t, u0)
      /\ u0.wcorr = t.wcorr /\ u0.wcorrId = t.wcorrId /\ ~u0.completed /\ u0.moving = t.moving
      /\ u0.block = t.block
      /\ busy /\ d.stop => ~InMotion(u0)
      /\ ~busy => u0 = t
  <2>1. Obeys(t, t) /\ Calm(t, t) /\ KeepsCorr(t, t)
    BY DEF Obeys, Calm, KeepsCorr
  <2>2. /\ StopMove(t, d).wcorrId = t.wcorrId /\ StopMove(t, d).completed = t.completed
        /\ StopMove(t, d).moving = t.moving /\ StopMove(t, d).block = t.block
    BY DEF StopMove, Sound, Mount
  <2> QED
    BY <2>1, <2>2, StopMoveSound
<1>3. Near(u0, u) /\ u.moving = t.moving
  <2>1. CASE t.wcorr = NoImage
    <3>1. s = t
      BY <2>1 DEF FoldCorrection
    <3>2. u = u0
      BY <3>1
    <3> QED
      BY <3>2, <2>1, <1>2 DEF Near, Sound, KeepsCorr
  <2>2. CASE t.wcorr # NoImage
    <3>1. ~InMotion(t) /\ ~InMotion(s)
      BY <2>2, <1>1 DEF Sound, InState, InMotion, Near
    <3>2. u0 = t /\ u = s
      BY <3>1 DEF StopMove
    <3> QED
      BY <3>2, <1>1
  <2> QED
    BY <2>1, <2>2
<1> DEFINE refused == s.block \/ s.moving = "parking" \/ (busy /\ ~d.stop)
<1>4. CASE refused
  <2>1. r = <<Rollback(s, t), FALSE>>
    BY <1>4 DEF DoMove, Refused
  <2>2. Sound(Rollback(s, t)) /\ KeepsCorr(t, Rollback(s, t))
        /\ Rollback(s, t).block = t.block /\ Rollback(s, t).motion = t.motion
        /\ Calm(t, Rollback(s, t))
    <3>1. CASE t.wcorr = NoImage
      BY <3>1 DEF Rollback, FoldCorrection, KeepsCorr, Calm
    <3>2. CASE t.wcorr # NoImage
      <4>1. ~InMotion(t)
        BY <3>2 DEF Sound, InState, InMotion
      <4> QED
        BY <4>1, <1>1, RollbackSound
    <3> QED
      BY <3>1, <3>2
  <2> HIDE DEF r, s
  <2> QED
    BY <2>1, <2>2 DEF Moved, Obeys
<1>5. ASSUME ~refused
      PROVE  /\ ~InMotion(u0) /\ u0.motion \notin {"slew", "park"}
             /\ t.block = FALSE /\ t.moving # "parking"
  <2>1. s.block = t.block /\ t \in Mount
    BY <1>1 DEF Near, Sound
  <2>2. ~t.block /\ t.block \in BOOLEAN /\ t.moving # "parking"
    BY <1>1, <1>5, <2>1 DEF Mount
  <2>3. CASE busy
    BY <1>2, <1>5, <2>2, <2>3 DEF InMotion
  <2>4. CASE ~busy
    BY <1>1, <1>2, <2>2, <2>4 DEF Sound, InState, InMotion
  <2> QED
    BY <2>2, <2>3, <2>4
\* refused or not, the corrections and the block are those of t
<1>6. \A x : Rollback(x, t) = Rollback(x, u0)
  <2> HIDE DEF u0
  <2> QED
    BY <1>2 DEF Rollback, KeepsCorr
<1>7. ASSUME ~refused, NEW x, Near(u0, x), x.moving = "observing"
      PROVE  Moved(t, <<Rollback(x, t), FALSE>>)
  <2> DEFINE y == Rollback(x, u0)
  <2>1. /\ Sound(y) /\ KeepsCorr(u0, y) /\ y.block = u0.block /\ y.motion = u0.motion
        /\ Calm(u0, y)
    BY <1>2, <1>5, <1>7, RollbackSound
  <2> HIDE DEF y
  <2>2. Moved(t, <<y, FALSE>>)
    BY <1>2, <1>5, <2>1 DEF Moved, KeepsCorr, Obeys, Calm, InMotion
  <2> QED
    BY <1>6, <1>7, <2>2 DEF y
<1>8. CASE ~refused /\ u.ori \in Low /\ ~anywhere
  <2> DEFINE w == StopMove(SetOri(u, Nowhere), d)
  <2>1. r = <<Rollback(Observing(StopTracking(w, d)), t), FALSE>>
    BY <1>8 DEF DoMove, Refused, Unreachable
  <2>2. Near(u0, w)
    <3>1. Near(u0, SetOri(u, Nowhere))
      <4> DEFINE x == SetOri(u, Nowhere)
      <4>1. x \in Mount
        BY <1>3 DEF SetOri, Near, Mount
      <4>2. /\ x.motion = u.motion /\ x.reached = u.reached /\ x.completed = u.completed
            /\ x.block = u.block /\ x.tracking = u.tracking /\ x.wcorr = u.wcorr
            /\ x.wcorrId = u.wcorrId /\ x.moveNum = u.moveNum
            /\ x.corr = u.corr /\ x.corrId = u.corrId
        BY <1>3 DEF SetOri, Near, Mount
      <4> HIDE DEF x
      <4> QED
        BY <1>3, <4>1, <4>2 DEF Near, KeepsCorr, Folds, x
    <3>2. w = SetOri(u, Nowhere)
      BY <3>1, <1>5, <1>8 DEF StopMove, Near, InMotion
    <3> QED
      BY <3>1, <3>2
  <2> HIDE DEF w, u0
  <2>3. Near(u0, Observing(StopTracking(w, d))) /\ Observing(StopTracking(w, d)).moving = "observing"
    BY <1>5, <1>8, <2>2, NearObserving
  <2> QED
    BY <1>7, <1>8, <2>1, <2>3
<1>9. /\ Near(u0, v) /\ v.moving = "moving" /\ v.bop
  <2> HIDE DEF u, u0
  <2> DEFINE u1 == [u EXCEPT !.moving = "moving", !.correcting = correction]
  <2>3. u \in Mount
    BY <1>3 DEF Near
  <2>4. u1 \in Mount
    BY <2>3 DEF Mount
  <2>1. v \in Mount
    BY <2>4, SetBopMount
  <2>2. /\ v.motion = u.motion /\ v.reached = u.reached /\ v.completed = u.completed
        /\ v.block = u.block /\ v.tracking = u.tracking /\ v.wcorr = u.wcorr
        /\ v.wcorrId = u.wcorrId /\ v.moveNum = u.moveNum
        /\ v.corr = u.corr /\ v.corrId = u.corrId /\ v.moving = "moving" /\ v.bop
    BY <1>3 DEF SetBop, Near, Mount
  <2> HIDE DEF v
  <2> QED
    BY <1>3, <2>1, <2>2 DEF Near, KeepsCorr, Folds
<1>10. CASE ~refused /\ ~(u.ori \in Low /\ ~anywhere) /\ ~d.start
  <2>1. r = <<Rollback(Observing(StopTracking(v, d)), t), FALSE>>
    BY <1>10 DEF DoMove, Refused
  <2> HIDE DEF v, u0
  <2>2. Near(u0, Observing(StopTracking(v, d))) /\ Observing(StopTracking(v, d)).moving = "observing"
    BY <1>5, <1>9, <1>10, NearObserving
  <2> QED
    BY <1>7, <1>10, <2>1, <2>2
<1>11. CASE ~refused /\ ~(u.ori \in Low /\ ~anywhere) /\ d.start
  <2>1. r = <<Started(v), TRUE>>
    BY <1>11 DEF DoMove
  <2> HIDE DEF v, u0
  <2>2. /\ Sound(Started(v)) /\ (KeepsCorr(u0, Started(v)) \/ Folds(u0, Started(v)))
        /\ Started(v).moving = "moving"
        /\ Started(v).tracking => u0.tracking
    BY <1>2, <1>9, StartedSound
  <2>3. KeepsCorr(t, Started(v)) \/ Folds(t, Started(v))
    BY <1>2, <2>2 DEF KeepsCorr, Folds
  <2> HIDE DEF r
  <2> QED
    BY <1>2, <1>5, <1>11, <2>1, <2>2, <2>3 DEF Moved, Obeys, Calm
<1> HIDE DEF r, refused
<1> QED
  BY <1>4, <1>8, <1>10, <1>11

LEMMA StartResyncSound ==
  ASSUME NEW t0, Sound(t0), NEW d \in Driver,
         NEW correction \in BOOLEAN, NEW anywhere \in BOOLEAN
  PROVE  LET r == StartResyncMove(t0, d, correction, anywhere)
         IN  /\ Sound(r[1]) /\ r[2] \in BOOLEAN
             /\ Passes(t0, r[1]) /\ Calm(t0, r[1])
             /\ r[2] => r[1].moving = "moving" /\ ~t0.block
<1> DEFINE c == [t0 EXCEPT !.completed = FALSE]
           t == IF c.oriNew THEN IncMoveNum(c) ELSE c
           r == StartResyncMove(t0, d, correction, anywhere)
<1>1. /\ Sound(c) /\ KeepsCorr(t0, c) /\ Calm(t0, c) /\ ~c.completed
      /\ c.block = t0.block /\ c.motion = t0.motion
  <2>1. c \in Mount
    BY DEF Sound, Mount
  <2>2. /\ c.moving = t0.moving /\ c.bop = t0.bop /\ c.motion = t0.motion /\ c.corr = t0.corr
        /\ c.wcorr = t0.wcorr /\ c.block = t0.block /\ ~c.completed
        /\ c.reached = t0.reached /\ c.tracking = t0.tracking /\ c.corrId = t0.corrId
        /\ c.wcorrId = t0.wcorrId /\ c.moveNum = t0.moveNum
    BY DEF Sound, Mount
  <2> HIDE DEF c
  <2> QED
    BY <2>1, <2>2 DEF Sound, Corrected, InState, Blocks, Reaches, KeepsCorr, Calm
<1> HIDE DEF c
<1>2. /\ Sound(t) /\ ~t.completed /\ t.block = t0.block /\ t.motion = t0.motion
      /\ KeepsCorr(t0, t) \/ (NewMove(t0, t) /\ t.wcorr = NoImage)
      /\ Calm(t0, t)
      /\ KeepsCorr(t0, t) => t.wcorr = t0.wcorr /\ t.wcorrId = t0.wcorrId
  <2>1. CASE c.oriNew
    <3>1. t0.moveNum \in Nat
      BY DEF Sound, Mount
    <3>2. /\ Sound(t) /\ NewMove(c, t) /\ t.wcorr = NoImage /\ ~t.completed
          /\ t.block = c.block /\ t.motion = c.motion
          /\ t.moving = c.moving /\ t.tracking = c.tracking
      BY <1>1, <2>1, IncMoveNumSound
    <3> HIDE DEF t
    <3> QED
      BY <1>1, <3>1, <3>2 DEF NewMove, KeepsCorr, Calm
  <2>2. CASE ~c.oriNew
    <3>1. c.wcorr = t0.wcorr /\ c.wcorrId = t0.wcorrId
      BY DEF c, Sound, Mount
    <3> QED
      BY <1>1, <2>2, <3>1
  <2> QED
    BY <2>1, <2>2
<1> HIDE DEF t
<1>3. CASE t0.ori = Nowhere
  <2>1. r = <<c, FALSE>>
    BY <1>3 DEF StartResyncMove, c
  <2> HIDE DEF r
  <2> QED
    BY <1>1, <2>1 DEF Passes, Obeys, r
<1>4. CASE t0.ori # Nowhere
  <2>1. r = DoMove(t, FoldCorrection(t), d, correction, anywhere)
    BY <1>4 DEF StartResyncMove, t, c
  <2>2. Moved(t, r)
    BY <1>2, <2>1, DoMoveSound
  <2> HIDE DEF r
  <2>3. KeepsCorr(t0, r[1]) \/ Folds(t0, r[1]) \/ NewMove(t0, r[1])
    BY <1>2, <2>2 DEF Moved, KeepsCorr, Folds, NewMove
  <2> QED
    BY <1>2, <2>2, <2>3 DEF Moved, Passes, Obeys, Calm, r
<1> QED
  BY <1>3, <1>4

-----------------------------------------------------------------------------
(* The handlers.                                                           *)

\* what every handler does to a mount it finds Sound and at rest when parked
Handles(t, u) ==
  /\ Sound(u) /\ Rests(u) /\ Passes(t, u)
  /\ t.block /\ ~t.tracking => ~u.tracking

LEMMA CalmHandles ==
  ASSUME NEW t, Rests(t), NEW u, Sound(u), Passes(t, u), Calm(t, u)
  PROVE  Handles(t, u)
  BY DEF Handles, Rests, Calm

LEMMA MoveHandles ==
  ASSUME NEW t, Sound(t), Rests(t), NEW d \in Driver, NEW target \in Targets
  PROVE  Handles(t, Move(t, d, target))
<1> DEFINE o == SetOri(t, target)
           t0 == [o EXCEPT !.tracking = TRUE]
           r == StartResyncMove(t0, d, FALSE, FALSE)
           u == IF r[2] THEN r[1] ELSE StopTracking(r[1], d)
<1>1. Sound(o) /\ KeepsCorr(t, o) /\ o.block = t.block /\ o.motion = t.motion /\ o.wcorr = t.wcorr
      /\ o.wcorrId = t.wcorrId
  <2>1. o.wcorrId = t.wcorrId
    BY DEF SetOri, Sound, Mount
  <2> QED
    BY <2>1, SetOriSound
<1> HIDE DEF o
<1>2. Sound(t0) /\ KeepsCorr(t, t0) /\ t0.block = t.block /\ t0.motion = t.motion
      /\ t0.wcorr = t.wcorr /\ t0.wcorrId = t.wcorrId
  <2>1. t0 \in Mount
    BY <1>1 DEF Sound, Mount
  <2>2. /\ t0.moving = o.moving /\ t0.bop = o.bop /\ t0.motion = o.motion /\ t0.corr = o.corr
        /\ t0.wcorr = o.wcorr /\ t0.block = o.block /\ t0.completed = o.completed
        /\ t0.reached = o.reached /\ t0.corrId = o.corrId
        /\ t0.wcorrId = o.wcorrId /\ t0.moveNum = o.moveNum
    BY <1>1 DEF Sound, Mount
  <2> HIDE DEF t0
  <2> QED
    BY <1>1, <2>1, <2>2 DEF Sound, Corrected, InState, Blocks, Reaches, KeepsCorr
<1>3. Move(t, d, target) = u
  BY DEF Move, o
<1> HIDE DEF t0
<1>4. /\ Sound(r[1]) /\ r[2] \in BOOLEAN /\ Passes(t0, r[1])
      /\ r[2] => r[1].moving = "moving" /\ ~t0.block
  BY <1>2, StartResyncSound
<1>5. Passes(t, r[1])
  BY <1>2, <1>4 DEF Passes, KeepsCorr, Folds, NewMove, Obeys
<1> HIDE DEF r
<1>6. CASE r[2]
  BY <1>2, <1>3, <1>4, <1>5, <1>6 DEF Handles, Rests
<1>7. CASE ~r[2]
  <2> DEFINE w == StopTracking(r[1], d)
  <2>1. /\ Sound(w) /\ KeepsCorr(r[1], w) /\ Obeys(r[1], w) /\ ~w.tracking
    BY <1>4, StopTrackingSound
  <2>2. u = w
    BY <1>7
  <2> HIDE DEF w, u
  <2>3. Passes(t, w)
    BY <1>5, <2>1 DEF Passes, KeepsCorr, Folds, NewMove, Obeys, InMotion
  <2> QED
    BY <1>3, <2>1, <2>2, <2>3 DEF Handles, Rests
<1> QED
  BY <1>4, <1>6, <1>7

LEMMA ResyncHandles ==
  ASSUME NEW t, Sound(t), Rests(t), NEW d \in Driver, NEW target \in Targets
  PROVE  Handles(t, Resync(t, d, target))
<1> DEFINE o == SetOri(t, target)
           r == StartResyncMove(o, d, FALSE, FALSE)
<1>1. /\ Sound(o) /\ KeepsCorr(t, o) /\ o.block = t.block /\ o.motion = t.motion
      /\ o.wcorr = t.wcorr /\ o.moving = t.moving /\ o.tracking = t.tracking
      /\ o.wcorrId = t.wcorrId
  <2>1. o.wcorrId = t.wcorrId
    BY DEF SetOri, Sound, Mount
  <2> QED
    BY <2>1, SetOriSound
<1>2. Resync(t, d, target) = r[1]
  BY DEF Resync
<1> HIDE DEF o
<1>3. Sound(r[1]) /\ Passes(o, r[1]) /\ Calm(o, r[1])
  BY <1>1, StartResyncSound
<1> HIDE DEF r
<1>4. Passes(t, r[1]) /\ Calm(t, r[1])
  BY <1>1, <1>3 DEF Passes, Calm, KeepsCorr, Folds, NewMove, Obeys
<1> QED
  BY <1>2, <1>3, <1>4, CalmHandles

LEMMA AltAzHandles ==
  ASSUME NEW t, Sound(t), Rests(t), NEW d \in Driver, NEW target \in Targets, NEW anywhere \in BOOLEAN
  PROVE  Handles(t, AltAz(t, d, target, anywhere))
<1> DEFINE s == StopTracking(t, d)
           o == SetOri(s, target)
           r == StartResyncMove(o, d, FALSE, anywhere)
<1>1. /\ Sound(s) /\ KeepsCorr(t, s) /\ Obeys(t, s) /\ Calm(t, s)
      /\ s.wcorr = t.wcorr /\ s.wcorrId = t.wcorrId
  <2>1. s.wcorrId = t.wcorrId
    BY DEF StopTracking, StopMove, Sound, Mount
  <2> QED
    BY <2>1, StopTrackingSound
<1> HIDE DEF s
<1>2. /\ Sound(o) /\ KeepsCorr(s, o) /\ o.block = s.block /\ o.motion = s.motion
      /\ o.wcorr = s.wcorr /\ o.moving = s.moving /\ o.tracking = s.tracking
      /\ o.wcorrId = s.wcorrId
  <2>1. o.wcorrId = s.wcorrId
    BY <1>1 DEF SetOri, Sound, Mount
  <2> QED
    BY <2>1, <1>1, SetOriSound
<1>3. AltAz(t, d, target, anywhere) = r[1]
  BY DEF AltAz, s
<1> HIDE DEF o
<1>4. Sound(r[1]) /\ Passes(o, r[1]) /\ Calm(o, r[1])
  BY <1>2, StartResyncSound
<1> HIDE DEF r
<1>5. Passes(t, r[1]) /\ Calm(t, r[1])
  BY <1>1, <1>2, <1>4 DEF Passes, Calm, KeepsCorr, Folds, NewMove, Obeys, InMotion
<1> QED
  BY <1>3, <1>4, <1>5, CalmHandles

LEMMA ChangeHandles ==
  ASSUME NEW t, Sound(t), Rests(t), NEW d \in Driver
  PROVE  Handles(t, Change(t, d))
<1> DEFINE o == [t EXCEPT !.woffs = 1, !.woffsNew = TRUE]
           r == StartResyncMove(o, d, TRUE, FALSE)
<1>1. /\ o \in Mount
      /\ o.moving = t.moving /\ o.bop = t.bop /\ o.motion = t.motion /\ o.corr = t.corr
      /\ o.wcorr = t.wcorr /\ o.block = t.block /\ o.completed = t.completed
      /\ o.reached = t.reached /\ o.tracking = t.tracking /\ o.corrId = t.corrId
      /\ o.wcorrId = t.wcorrId /\ o.moveNum = t.moveNum
  BY DEF Sound, Mount
<1>2. Change(t, d) = r[1]
  BY DEF Change
<1> HIDE DEF o
<1>3. Sound(o)
  BY <1>1 DEF Sound, Corrected, InState, Blocks, Reaches
<1>4. Sound(r[1]) /\ Passes(o, r[1]) /\ Calm(o, r[1])
  BY <1>3, StartResyncSound
<1> HIDE DEF r
<1>5. Passes(t, r[1]) /\ Calm(t, r[1])
  BY <1>1, <1>4 DEF Passes, Calm, KeepsCorr, Folds, NewMove, Obeys
<1> QED
  BY <1>2, <1>4, <1>5, CalmHandles

\* a step that touches none of the fields the invariant speaks of
LEMMA AsideHandles ==
  ASSUME NEW t, Sound(t), Rests(t), NEW u \in Mount,
         u.moving = t.moving, t.bop => u.bop, u.motion = t.motion, u.corr = t.corr,
         u.wcorr = t.wcorr, u.block = t.block, u.completed = t.completed,
         u.reached = t.reached, u.tracking => t.tracking, u.corrId = t.corrId,
         u.wcorrId = t.wcorrId, u.moveNum = t.moveNum
  PROVE  Handles(t, u)
<1>1. Sound(u)
  BY DEF Sound, Corrected, InState, Blocks, Reaches
<1>2. Passes(t, u) /\ Calm(t, u)
  BY DEF Passes, KeepsCorr, Obeys, Calm
<1> QED
  BY <1>1, <1>2, CalmHandles

LEMMA ParkHandles ==
  ASSUME NEW t, Sound(t), Rests(t), NEW d \in Driver, NEW keep \in BOOLEAN
  PROVE  /\ Handles(t, StartPark(t, d, keep))
         /\ t.block => StartPark(t, d, keep) = t
<1> DEFINE s == IF t.moving = "moving" THEN StopMove(t, d) ELSE t
           s1 == StopTracking(s, d)
           u == [s1 EXCEPT !.completed = FALSE]
           u1 == IF keep THEN u ELSE [u EXCEPT !.ori = Nowhere, !.oriNew = FALSE]
           v == IncMoveNum(u1)
           w == [v EXCEPT !.motion = "park", !.reached = FALSE, !.moving = "parking"]
<1>1. CASE t.moving = "parking" \/ t.block \/ (t.moving = "moving" /\ ~d.stop)
  <2>1. StartPark(t, d, keep) = t
    BY <1>1 DEF StartPark
  <2> QED
    BY <2>1, AsideHandles DEF Sound
<1>2. CASE ~(t.moving = "parking" \/ t.block \/ (t.moving = "moving" /\ ~d.stop))
  <2>1. Sound(s) /\ KeepsCorr(t, s) /\ Calm(t, s) /\ s.wcorr = t.wcorr
    BY StopMoveSound DEF KeepsCorr, Calm
  <2>2. StartPark(t, d, keep) = IF d.start THEN w ELSE u
    BY <1>2 DEF StartPark
  <2> HIDE DEF s
  <2>3. Sound(s1) /\ KeepsCorr(s, s1) /\ Calm(s, s1) /\ ~s1.tracking /\ s1.wcorr = s.wcorr
    BY <2>1, StopTrackingSound
  <2> HIDE DEF s1
  <2>4. Sound(u) /\ KeepsCorr(s1, u) /\ ~u.tracking /\ ~u.completed /\ u.moving = s1.moving
    <3>1. u \in Mount
      BY <2>3 DEF Sound, Mount
    <3>2. /\ u.moving = s1.moving /\ u.bop = s1.bop /\ u.motion = s1.motion /\ u.corr = s1.corr
          /\ u.wcorr = s1.wcorr /\ u.block = s1.block /\ ~u.completed
          /\ u.reached = s1.reached /\ u.tracking = s1.tracking /\ u.corrId = s1.corrId
          /\ u.wcorrId = s1.wcorrId /\ u.moveNum = s1.moveNum
      BY <2>3 DEF Sound, Mount
    <3> HIDE DEF u
    <3> QED
      BY <2>3, <3>1, <3>2 DEF Sound, Corrected, InState, Blocks, Reaches, KeepsCorr
  <2> HIDE DEF u
  <2>5. Sound(u1) /\ KeepsCorr(u, u1) /\ ~u1.tracking /\ ~u1.completed
    <3>1. u1 \in Mount
      <4>1. [u EXCEPT !.ori = Nowhere, !.oriNew = FALSE] \in Mount /\ u \in Mount
        BY <2>4 DEF Sound, Mount
      <4> QED
        BY <4>1
    <3>2. /\ u1.moving = u.moving /\ u1.bop = u.bop /\ u1.motion = u.motion /\ u1.corr = u.corr
          /\ u1.wcorr = u.wcorr /\ u1.block = u.block /\ u1.completed = u.completed
          /\ u1.reached = u.reached /\ u1.tracking = u.tracking /\ u1.corrId = u.corrId
          /\ u1.wcorrId = u.wcorrId /\ u1.moveNum = u.moveNum
      BY <2>4 DEF Sound, Mount
    <3> HIDE DEF u1
    <3> QED
      BY <2>4, <3>1, <3>2 DEF Sound, Corrected, InState, Blocks, Reaches, KeepsCorr
  <2> HIDE DEF u1
  <2>6. Sound(v) /\ NewMove(u1, v) /\ ~v.tracking /\ ~v.completed /\ v.wcorr = NoImage
    BY <2>5, IncMoveNumSound
  <2> HIDE DEF v
  <2>7. Sound(w) /\ ~w.tracking
        /\ w.corr = v.corr /\ w.corrId = v.corrId /\ w.moveNum = v.moveNum
    <3>1. w \in Mount
      BY <2>6 DEF Sound, Mount
    <3>2. /\ w.moving = "parking" /\ w.bop = v.bop /\ w.motion = "park" /\ w.corr = v.corr
          /\ w.wcorr = NoImage /\ w.block = v.block /\ ~w.completed
          /\ ~w.tracking /\ w.corrId = v.corrId
          /\ w.wcorrId = v.wcorrId /\ w.moveNum = v.moveNum
      BY <2>6 DEF Sound, Mount
    <3> HIDE DEF w
    <3> QED
      BY <2>6, <3>1, <3>2 DEF Sound, Corrected, InState, Blocks, Reaches
  <2> HIDE DEF w
  <2>8. Handles(t, w)
    <3>1. NewMove(t, w)
      BY <2>1, <2>3, <2>4, <2>5, <2>6, <2>7 DEF KeepsCorr, NewMove
    <3> QED
      BY <1>2, <2>7, <3>1 DEF Handles, Passes, Obeys, Rests
  <2>9. Handles(t, u)
    <3>1. KeepsCorr(t, u)
      BY <2>1, <2>3, <2>4 DEF KeepsCorr
    <3> QED
      BY <1>2, <2>4, <3>1 DEF Handles, Passes, Obeys, Rests
  <2> QED
    BY <1>2, <2>2, <2>8, <2>9
<1> QED
  BY <1>1, <1>2

LEMMA ParkedHandles ==
  ASSUME NEW t, Sound(t), Rests(t), t.moving = "parking", ~InMotion(t)
  PROVE  Handles(t, Parked(t))
<1> DEFINE u1 == [t EXCEPT !.moving = "parked"]
           u == SetBop(u1, FALSE)
<1>1. u1 \in Mount
  BY DEF Sound, Mount
<1>2. u \in Mount
  BY <1>1, SetBopMount
<1>3. /\ u.moving = "parked" /\ ~u.bop /\ u.motion = t.motion /\ u.corr = t.corr
      /\ u.wcorr = t.wcorr /\ u.block = t.block /\ u.completed = t.completed
      /\ u.reached = t.reached /\ u.tracking = t.tracking /\ u.corrId = t.corrId
      /\ u.wcorrId = t.wcorrId /\ u.moveNum = t.moveNum
  BY DEF SetBop, Sound, Mount
<1> HIDE DEF u
<1>4. Sound(u) /\ Rests(u)
  BY <1>2, <1>3 DEF Sound, Corrected, InState, Blocks, Reaches, Rests, InMotion
<1>5. Passes(t, u)
  BY <1>3 DEF Passes, KeepsCorr, Obeys
<1>6. Handles(t, u)
  BY <1>3, <1>4, <1>5 DEF Handles
<1> QED
  BY <1>6 DEF Parked, u

LEMMA ObservingHandles ==
  ASSUME NEW t, Sound(t), Rests(t), ~InMotion(t), t.wcorr = NoImage
  PROVE  Handles(t, Observing(t))
<1>1. /\ Sound(Observing(t)) /\ KeepsCorr(t, Observing(t)) /\ Calm(t, Observing(t))
      /\ Observing(t).block = t.block /\ Observing(t).motion = t.motion
  BY ObservingSound DEF InMotion
<1>2. Passes(t, Observing(t))
  BY <1>1 DEF Passes, Obeys
<1> QED
  BY <1>1, <1>2, CalmHandles

LEMMA MoveEndedHandles ==
  ASSUME NEW t, Sound(t), Rests(t), t.moving = "moving", t.motion = "still",
         NEW d \in Driver, NEW good \in BOOLEAN
  PROVE  Handles(t, MoveEnded(t, d, good))
<1> DEFINE c == [t EXCEPT !.completed = TRUE]
           e == StartTracking(c, d)
           r == StartResyncMove(e, d, TRUE, FALSE)
<1>1. /\ c \in Mount
      /\ c.moving = t.moving /\ c.bop = t.bop /\ c.motion = "still" /\ c.corr = t.corr
      /\ c.wcorr = t.wcorr /\ c.block = t.block
      /\ c.reached = t.reached /\ c.tracking = t.tracking /\ c.corrId = t.corrId
      /\ c.wcorrId = t.wcorrId /\ c.moveNum = t.moveNum
  BY DEF Sound, Mount
<1>2. t.wcorr = NoImage /\ ~InMotion(t)
  BY DEF Sound, InState, InMotion
<1>3. e = c
  BY <1>1 DEF StartTracking, StopMove, InMotion
<1> HIDE DEF e
<1>4. MoveEnded(t, d, good) =
        IF ~good THEN Observing(t) ELSE IF Waiting(e) THEN r[1] ELSE Observing(e)
  BY DEF MoveEnded, e
<1>5. CASE ~good
  BY <1>2, <1>4, <1>5, ObservingHandles
<1>6. CASE good /\ ~Waiting(e)
  <2> DEFINE u == Observing(c)
  <2>1. u \in Mount
    <3>1. [c EXCEPT !.moving = "observing", !.correcting = FALSE] \in Mount
      BY <1>1 DEF Mount
    <3> QED
      BY <3>1, SetBopMount DEF Observing
  <2>2. c.completed
    BY DEF Sound, Mount
  <2>3. /\ u.moving = "observing" /\ ~u.bop /\ u.motion = "still" /\ u.corr = t.corr
        /\ u.wcorr = t.wcorr /\ u.block = t.block /\ u.completed
        /\ u.reached = t.reached /\ u.tracking = t.tracking /\ u.corrId = t.corrId
        /\ u.wcorrId = t.wcorrId /\ u.moveNum = t.moveNum
    <3> HIDE DEF c
    <3> QED
      BY <1>1, <2>2 DEF Observing, SetBop, Mount
  <2> HIDE DEF u, c
  <2>4. Sound(u)
    BY <1>2, <2>1, <2>3 DEF Sound, Corrected, InState, Blocks, Reaches
  <2>5. Passes(t, u) /\ Calm(t, u)
    BY <2>3 DEF Passes, KeepsCorr, Obeys, InMotion, Calm
  <2>6. Handles(t, u)
    BY <2>4, <2>5, CalmHandles
  <2> QED
    BY <1>3, <1>4, <1>6, <2>6 DEF u
<1>7. CASE good /\ Waiting(e)
  <2> DEFINE q == StartResyncMove(t, d, TRUE, FALSE)
  <2>1. [c EXCEPT !.completed = FALSE] = [t EXCEPT !.completed = FALSE] /\ c.ori = t.ori
    BY DEF Sound, Mount
  <2>2. r = q
    <3> HIDE DEF c
    <3> QED
      BY <1>3, <2>1 DEF StartResyncMove
  <2>3. Sound(q[1]) /\ Passes(t, q[1]) /\ Calm(t, q[1])
    BY StartResyncSound
  <2> HIDE DEF q, r
  <2>4. Handles(t, q[1])
    BY <2>3, CalmHandles
  <2> QED
    BY <1>4, <1>7, <2>2, <2>4
<1> QED
  BY <1>5, <1>6, <1>7

LEMMA CheckMovesHandles ==
  ASSUME NEW t, Sound(t), Rests(t), NEW d \in Driver, NEW good \in BOOLEAN
  PROVE  Handles(t, CheckMoves(t, d, good))
<1>1. Handles(t, t)
  BY AsideHandles DEF Sound
<1>2. CASE t.moving = "moving" /\ ~InMotion(t) /\ t.motion = "failed"
  <2>1. CheckMoves(t, d, good) = Observing(t) /\ t.wcorr = NoImage
    BY <1>2 DEF CheckMoves, Sound, InState
  <2> QED
    BY <1>2, <2>1, ObservingHandles
<1>3. CASE t.moving = "moving" /\ ~InMotion(t) /\ t.motion # "failed"
  <2>1. CheckMoves(t, d, good) = MoveEnded(t, d, good) /\ t.motion = "still"
    BY <1>3 DEF CheckMoves, Sound, Mount, InMotion
  <2> QED
    BY <1>3, <2>1, MoveEndedHandles
<1>4. CASE t.moving = "parking" /\ ~InMotion(t)
  <2>1. CheckMoves(t, d, good) = Parked(t)
    BY <1>4 DEF CheckMoves
  <2> QED
    BY <1>4, <2>1, ParkedHandles
<1>5. CASE ~(t.moving = "moving" /\ ~InMotion(t)) /\ ~(t.moving = "parking" /\ ~InMotion(t))
  <2>1. CheckMoves(t, d, good) = t
    BY <1>5 DEF CheckMoves
  <2> QED
    BY <1>1, <2>1
<1> QED
  BY <1>2, <1>3, <1>4, <1>5

LEMMA StopTrackingHandles ==
  ASSUME NEW t, Sound(t), Rests(t), NEW d \in Driver
  PROVE  Handles(t, StopTracking(t, d))
<1>1. /\ Sound(StopTracking(t, d)) /\ KeepsCorr(t, StopTracking(t, d))
      /\ Obeys(t, StopTracking(t, d)) /\ Calm(t, StopTracking(t, d))
  BY StopTrackingSound
<1> QED
  BY <1>1, CalmHandles DEF Passes

LEMMA StopHandles ==
  ASSUME NEW t, Sound(t), Rests(t), NEW d \in Driver
  PROVE  Handles(t, StopMove(StopTracking(t, d), d))
<1> DEFINE s == StopTracking(t, d)
           u == StopMove(s, d)
<1>1. Sound(s) /\ KeepsCorr(t, s) /\ Obeys(t, s) /\ Calm(t, s)
  BY StopTrackingSound
<1> HIDE DEF s
<1>2. Sound(u) /\ KeepsCorr(s, u) /\ Obeys(s, u) /\ Calm(s, u)
  BY <1>1, StopMoveSound
<1> HIDE DEF u
<1>3. Passes(t, u) /\ Calm(t, u)
  BY <1>1, <1>2 DEF Passes, KeepsCorr, Obeys, Calm, InMotion
<1>4. Handles(t, u)
  BY <1>2, <1>3, CalmHandles
<1> QED
  BY <1>4 DEF s, u

\* a correction that is taken waits; only a small one may do so without a block
LEMMA TakenHandles ==
  ASSUME NEW t, Sound(t), Rests(t), NEW i \in Image, Known(t, i), Accepts(t, i)
  PROVE  Handles(t, SetBop(Taken(t, i), TRUE)) /\ (i.small => Handles(t, Taken(t, i)))
<1> DEFINE w == Taken(t, i)
           b == SetBop(w, TRUE)
<1>1. w \in Mount
  <2>1. i.id \in 0..MaxImages
    BY LimitsAssumption DEF Image
  <2> QED
    BY <2>1 DEF Taken, Sound, Mount
<1>2. b \in Mount
  BY <1>1, SetBopMount
<1>3. /\ w.moving = t.moving /\ w.bop = t.bop /\ w.motion = t.motion /\ w.corr = t.corr
      /\ w.wcorr = i /\ w.block = t.block /\ w.completed = t.completed
      /\ w.reached = t.reached /\ w.tracking = t.tracking /\ w.corrId = t.corrId
      /\ w.wcorrId = i.id /\ w.moveNum = t.moveNum
  BY DEF Taken, Sound, Mount
<1>4. /\ b.moving = w.moving /\ b.bop /\ b.motion = w.motion /\ b.corr = w.corr
      /\ b.wcorr = w.wcorr /\ b.block = w.block /\ b.completed = w.completed
      /\ b.reached = w.reached /\ b.tracking = w.tracking /\ b.corrId = w.corrId
      /\ b.wcorrId = w.wcorrId /\ b.moveNum = w.moveNum
  BY <1>1 DEF SetBop, Mount
<1> HIDE DEF w, b
<1>5. /\ t.completed /\ i.mark = t.moveNum /\ i.corrId = t.corrId /\ i.corr = t.corr
      /\ i.id > t.wcorrId /\ i.id \in Nat /\ t.wcorrId \in Nat /\ t.corrId \in Nat
  BY LimitsAssumption DEF Accepts, TakenFor, Known, Image, Sound, Mount
<1>6. Handles(t, b)
  <2>1. Corrected(b)
    BY <1>3, <1>4, <1>5 DEF Sound, Corrected
  <2>2. Sound(b)
    BY <1>2, <1>3, <1>4, <1>5, <2>1 DEF Sound, InState, Blocks, Reaches
  <2>3. Passes(t, b) /\ Calm(t, b)
    BY <1>3, <1>4 DEF Passes, KeepsCorr, Obeys, Calm, InMotion
  <2> QED
    BY <2>2, <2>3, CalmHandles
<1>7. ASSUME i.small PROVE Handles(t, w)
  <2>1. Corrected(w)
    BY <1>3, <1>5 DEF Sound, Corrected
  <2>2. Sound(w)
    BY <1>1, <1>3, <1>5, <1>7, <2>1 DEF Sound, InState, Blocks, Reaches
  <2>3. Passes(t, w) /\ Calm(t, w)
    BY <1>3 DEF Passes, KeepsCorr, Obeys, Calm, InMotion
  <2> QED
    BY <2>2, <2>3, CalmHandles
<1> QED
  BY <1>6, <1>7 DEF w, b

LEMMA CorrectHandles ==
  ASSUME NEW t, Sound(t), Rests(t), NEW i \in Image, Known(t, i), NEW err \in Errors
  PROVE  Handles(t, Correct(t, i, err))
<1>1. CASE ~Accepts(t, i) \/ err = "negligible"
  BY <1>1, AsideHandles DEF Correct, Sound
<1>2. CASE Accepts(t, i) /\ err = "small"
  <2> DEFINE j == [i EXCEPT !.small = TRUE]
  <2>1. Correct(t, i, err) = Taken(t, j)
    BY <1>2 DEF Correct, TakenAsSmall
  <2>2. /\ j \in Image /\ j.small
        /\ j.id = i.id /\ j.mark = i.mark /\ j.corrId = i.corrId /\ j.corr = i.corr
    BY DEF Image
  <2> HIDE DEF j
  <2>3. Known(t, j) /\ Accepts(t, j)
    BY <1>2, <2>2 DEF Known, Accepts, TakenFor
  <2> QED
    BY <2>1, <2>2, <2>3, TakenHandles
<1>3. CASE Accepts(t, i) /\ err = "large"
  <2>1. Correct(t, i, err) = SetBop(Taken(t, i), TRUE)
    BY <1>3 DEF Correct
  <2> QED
    BY <1>3, <2>1, TakenHandles
<1> QED
  BY <1>1, <1>2, <1>3 DEF Errors

LEMMA ResyncAsItIs ==
  ASSUME NEW t, Sound(t), Rests(t), NEW d \in Driver, NEW correction \in BOOLEAN
  PROVE  Handles(t, StartResyncMove(t, d, correction, FALSE)[1])
<1> DEFINE r == StartResyncMove(t, d, correction, FALSE)
<1>1. Sound(r[1]) /\ Passes(t, r[1]) /\ Calm(t, r[1])
  BY StartResyncSound
<1> HIDE DEF r
<1>2. Handles(t, r[1])
  BY <1>1, CalmHandles
<1> QED
  BY <1>2 DEF r

LEMMA FullBopHandles ==
  ASSUME NEW t, Sound(t), Rests(t), NEW d \in Driver, NEW exposing \in BOOLEAN
  PROVE  Handles(t, SetFullBopState([t EXCEPT !.told = FALSE], d, exposing))
<1> DEFINE s == [t EXCEPT !.told = FALSE]
           u == SetFullBopState(s, d, exposing)
<1>1. /\ s \in Mount
      /\ s.moving = t.moving /\ s.bop = t.bop /\ s.motion = t.motion /\ s.corr = t.corr
      /\ s.wcorr = t.wcorr /\ s.block = t.block /\ s.completed = t.completed
      /\ s.reached = t.reached /\ s.tracking = t.tracking /\ s.corrId = t.corrId
      /\ s.wcorrId = t.wcorrId /\ s.moveNum = t.moveNum
  BY DEF Sound, Mount
<1> HIDE DEF s
<1>2. Handles(t, s)
  BY <1>1, AsideHandles
<1>3. u = s \/ u = StartResyncMove(s, d, TRUE, FALSE)[1]
  BY DEF SetFullBopState
<1>4. Handles(s, StartResyncMove(s, d, TRUE, FALSE)[1])
  BY <1>2, ResyncAsItIs DEF Handles
<1>5. Handles(t, StartResyncMove(s, d, TRUE, FALSE)[1])
  BY <1>1, <1>4 DEF Handles, Passes, KeepsCorr, Folds, NewMove, Obeys
<1> HIDE DEF u
<1>6. Handles(t, u)
  BY <1>2, <1>3, <1>5
<1> QED
  BY <1>6 DEF u, s

\* centrald owes the mount an answer
LEMMA ToldHandles ==
  ASSUME NEW t, Sound(t), Rests(t)
  PROVE  Handles(t, [t EXCEPT !.told = TRUE])
<1> DEFINE u == [t EXCEPT !.told = TRUE]
<1>1. /\ u \in Mount
      /\ u.moving = t.moving /\ u.bop = t.bop /\ u.motion = t.motion /\ u.corr = t.corr
      /\ u.wcorr = t.wcorr /\ u.block = t.block /\ u.completed = t.completed
      /\ u.reached = t.reached /\ u.tracking = t.tracking /\ u.corrId = t.corrId
      /\ u.wcorrId = t.wcorrId /\ u.moveNum = t.moveNum
  BY DEF Sound, Mount
<1> HIDE DEF u
<1>2. Handles(t, u)
  BY <1>1, AsideHandles
<1> QED
  BY <1>2 DEF u

LEMMA OffsetsHandle ==
  ASSUME NEW t, Sound(t), Rests(t), NEW o \in {0, 1}
  PROVE  Handles(t, ScriptEnds(t)) /\ Handles(t, SetWoffs(t, o))
<1>1. Handles(t, ScriptEnds(t))
  <2> DEFINE w == t.woffsNew \/ t.woffs # 0
             u == [t EXCEPT !.woffsNew = w, !.woffs = 0]
  <2>1. ScriptEnds(t) = u /\ w \in BOOLEAN
    BY DEF ScriptEnds
  <2> HIDE DEF w
  <2>2. u \in Mount
    BY <2>1 DEF Sound, Mount
  <2>3. /\ u.moving = t.moving /\ u.bop = t.bop /\ u.motion = t.motion /\ u.corr = t.corr
        /\ u.wcorr = t.wcorr /\ u.block = t.block /\ u.completed = t.completed
        /\ u.reached = t.reached /\ u.tracking = t.tracking /\ u.corrId = t.corrId
        /\ u.wcorrId = t.wcorrId /\ u.moveNum = t.moveNum
    BY DEF Sound, Mount
  <2> HIDE DEF u
  <2> QED
    BY <2>1, <2>2, <2>3, AsideHandles
<1>2. Handles(t, SetWoffs(t, o))
  <2> DEFINE u1 == [t EXCEPT !.woffs = o, !.woffsNew = TRUE]
             u == SetBop(u1, TRUE)
  <2>1. u1 \in Mount
    BY DEF Sound, Mount
  <2>2. u \in Mount
    BY <2>1, SetBopMount
  <2>3. /\ u.moving = t.moving /\ u.bop /\ u.motion = t.motion /\ u.corr = t.corr
        /\ u.wcorr = t.wcorr /\ u.block = t.block /\ u.completed = t.completed
        /\ u.reached = t.reached /\ u.tracking = t.tracking /\ u.corrId = t.corrId
        /\ u.wcorrId = t.wcorrId /\ u.moveNum = t.moveNum
    BY DEF SetBop, Sound, Mount
  <2>4. SetWoffs(t, o) = t \/ SetWoffs(t, o) = u
    BY DEF SetWoffs
  <2> HIDE DEF u
  <2>5. Handles(t, t) /\ Handles(t, u)
    BY <2>2, <2>3, AsideHandles DEF Sound
  <2> QED
    BY <2>4, <2>5
<1> QED
  BY <1>1, <1>2

LEMMA TrackHandles ==
  ASSUME NEW t, Sound(t), Rests(t), MayTrack(t)
  PROVE  Handles(t, [t EXCEPT !.tracking = TRUE])
<1> DEFINE u == [t EXCEPT !.tracking = TRUE]
<1>1. /\ u \in Mount
      /\ u.moving = t.moving /\ u.bop = t.bop /\ u.motion = t.motion /\ u.corr = t.corr
      /\ u.wcorr = t.wcorr /\ u.block = t.block /\ u.completed = t.completed
      /\ u.reached = t.reached /\ u.corrId = t.corrId
      /\ u.wcorrId = t.wcorrId /\ u.moveNum = t.moveNum
  BY DEF Sound, Mount
<1> HIDE DEF u
<1>2. Sound(u) /\ Rests(u)
  BY <1>1 DEF Sound, Corrected, InState, Blocks, Reaches, Rests, MayTrack
<1>3. Handles(t, u)
  BY <1>1, <1>2 DEF Handles, Passes, KeepsCorr, Obeys, MayTrack
<1> QED
  BY <1>3 DEF u

LEMMA MotionHandles ==
  ASSUME NEW t, Sound(t), Rests(t), InMotion(t)
  PROVE  /\ Handles(t, [t EXCEPT !.motion = "still", !.reached = t.motion = "slew"])
         /\ Handles(t, [t EXCEPT !.motion = "failed"])
<1>1. ~t.completed /\ (t.moving = "moving" => t.motion = "slew")
  BY DEF Sound, InState, InMotion
<1>2. Handles(t, [t EXCEPT !.motion = "still", !.reached = t.motion = "slew"])
  <2> DEFINE b == t.motion = "slew"
             u == [t EXCEPT !.motion = "still", !.reached = b]
  <2>1. b \in BOOLEAN
    OBVIOUS
  <2>2. b <=> t.motion = "slew"
    OBVIOUS
  <2> HIDE DEF b
  <2>3. /\ u \in Mount
        /\ u.moving = t.moving /\ u.bop = t.bop /\ u.motion = "still" /\ u.corr = t.corr
        /\ u.wcorr = t.wcorr /\ u.block = t.block /\ u.completed = t.completed
        /\ u.reached = b /\ u.tracking = t.tracking /\ u.corrId = t.corrId
        /\ u.wcorrId = t.wcorrId /\ u.moveNum = t.moveNum
    BY <2>1 DEF Sound, Mount
  <2> HIDE DEF u
  <2>4. Sound(u)
    BY <1>1, <2>2, <2>3 DEF Sound, Corrected, InState, Blocks, Reaches
  <2>5. Passes(t, u) /\ Calm(t, u)
    BY <2>3 DEF Passes, KeepsCorr, Obeys, Calm, InMotion
  <2>6. Handles(t, u)
    BY <2>4, <2>5, CalmHandles
  <2> QED
    BY <2>6 DEF u, b
<1>3. Handles(t, [t EXCEPT !.motion = "failed"])
  <2> DEFINE u == [t EXCEPT !.motion = "failed"]
  <2>1. /\ u \in Mount
        /\ u.moving = t.moving /\ u.bop = t.bop /\ u.motion = "failed" /\ u.corr = t.corr
        /\ u.wcorr = t.wcorr /\ u.block = t.block /\ u.completed = t.completed
        /\ u.reached = t.reached /\ u.tracking = t.tracking /\ u.corrId = t.corrId
        /\ u.wcorrId = t.wcorrId /\ u.moveNum = t.moveNum
    BY DEF Sound, Mount
  <2> HIDE DEF u
  <2>2. Sound(u)
    BY <1>1, <2>1 DEF Sound, Corrected, InState, Blocks, Reaches
  <2>3. Passes(t, u) /\ Calm(t, u)
    BY <2>1 DEF Passes, KeepsCorr, Obeys, Calm, InMotion
  <2>4. Handles(t, u)
    BY <2>2, <2>3, CalmHandles
  <2> QED
    BY <2>4 DEF u
<1> QED
  BY <1>2, <1>3

\* A change of the block leaves the rest alone.
LEMMA BlockSound ==
  ASSUME NEW t, Sound(t), Rests(t), NEW b \in BOOLEAN
  PROVE  LET u == [t EXCEPT !.block = b]
         IN  /\ Sound(u) /\ Rests(u) /\ KeepsCorr(t, u) /\ u.block = b
             /\ u.tracking = t.tracking /\ u.motion = t.motion /\ u.moving = t.moving
             /\ u.wcorr = t.wcorr /\ u.wcorrId = t.wcorrId
<1> DEFINE u == [t EXCEPT !.block = b]
<1>1. /\ u \in Mount
      /\ u.moving = t.moving /\ u.bop = t.bop /\ u.motion = t.motion /\ u.corr = t.corr
      /\ u.wcorr = t.wcorr /\ u.block = b /\ u.completed = t.completed
      /\ u.reached = t.reached /\ u.tracking = t.tracking /\ u.corrId = t.corrId
      /\ u.wcorrId = t.wcorrId /\ u.moveNum = t.moveNum
  BY DEF Sound, Mount
<1> HIDE DEF u
<1>2. Sound(u) /\ Rests(u) /\ KeepsCorr(t, u)
  BY <1>1 DEF Sound, Corrected, InState, Blocks, Reaches, Rests, KeepsCorr
<1> QED
  BY <1>1, <1>2 DEF u

MasterStates == [stop : BOOLEAN, off : BOOLEAN]

LEMMA MasterHandles ==
  ASSUME NEW t, Sound(t), Rests(t), NEW old \in MasterStates, NEW new \in MasterStates,
         NEW d \in Driver, NEW keep \in BOOLEAN
  PROVE  LET u == ChangeMasterState(t, old, new, d, keep)
         IN  /\ Sound(u) /\ Rests(u)
             /\ KeepsCorr(t, u) \/ Folds(t, u) \/ NewMove(t, u)
             /\ new.stop => ~u.tracking /\ (InMotion(u) => u.motion = t.motion)
             /\ new.stop /\ ~BlockOnStandby => u.block
<1> DEFINE s == Stop(t, old, new, d)
           p == IF new.off /\ s.moving \notin {"parked", "parking"} THEN StartPark(s, d, keep) ELSE s
           u == ChangeMasterState(t, old, new, d, keep)
<1>1. /\ Sound(s) /\ Rests(s) /\ KeepsCorr(t, s) /\ s.wcorr = t.wcorr /\ s.wcorrId = t.wcorrId
      /\ new.stop => s.block /\ ~s.tracking /\ (InMotion(s) => s.motion = t.motion)
  <2>1. CASE new.stop
    <3> DEFINE b == [t EXCEPT !.block = TRUE]
               q == StopTracking(b, d)
               w == StopMove(q, d)
    <3>1. /\ Sound(b) /\ Rests(b) /\ KeepsCorr(t, b) /\ b.block
          /\ b.motion = t.motion /\ b.wcorr = t.wcorr /\ b.wcorrId = t.wcorrId
      BY BlockSound
    <3>2. s = w
      BY <2>1 DEF Stop
    <3> HIDE DEF b
    <3>3. /\ Sound(q) /\ KeepsCorr(b, q) /\ Obeys(b, q) /\ Calm(b, q) /\ ~q.tracking
          /\ q.wcorr = b.wcorr /\ q.wcorrId = b.wcorrId
      <4>1. q.wcorrId = b.wcorrId
        BY <3>1 DEF StopTracking, StopMove, Sound, Mount
      <4> QED
        BY <3>1, <4>1, StopTrackingSound
    <3> HIDE DEF q
    <3>4. /\ Sound(w) /\ KeepsCorr(q, w) /\ Obeys(q, w) /\ Calm(q, w)
          /\ w.wcorr = q.wcorr /\ w.wcorrId = q.wcorrId
      <4>1. w.wcorrId = q.wcorrId
        BY <3>3 DEF StopMove, Sound, Mount
      <4> QED
        BY <3>3, <4>1, StopMoveSound
    <3> HIDE DEF w
    <3>5. /\ Sound(w) /\ Rests(w) /\ KeepsCorr(t, w) /\ w.wcorr = t.wcorr /\ w.wcorrId = t.wcorrId
          /\ w.block /\ ~w.tracking /\ (InMotion(w) => w.motion = t.motion)
      BY <3>1, <3>3, <3>4 DEF KeepsCorr, Obeys, Calm, Rests, InMotion
    <3> HIDE DEF s
    <3> QED
      BY <3>2, <3>5
  <2>2. CASE ~new.stop
    <3>1. s = t \/ s = [t EXCEPT !.block = FALSE]
      BY <2>2 DEF Stop
    <3>2. KeepsCorr(t, t)
      BY DEF KeepsCorr
    <3> HIDE DEF s
    <3> QED
      BY <2>2, <3>1, <3>2, BlockSound
  <2> QED
    BY <2>1, <2>2
<1>2. \/ BlockOnStandby /\ u = [p EXCEPT !.block = TRUE]
      \/ BlockOnStandby /\ old.off /\ ~new.off /\ u = [p EXCEPT !.block = FALSE]
      \/ u = p
  <2>1. u = CASE BlockOnStandby /\ new.off            -> [p EXCEPT !.block = TRUE]
              [] BlockOnStandby /\ old.off /\ ~new.off -> [p EXCEPT !.block = FALSE]
              [] OTHER                                -> p
    BY DEF ChangeMasterState
  <2> HIDE DEF s, p, u
  <2>2. CASE BlockOnStandby /\ new.off
    <3>1. ~(BlockOnStandby /\ old.off /\ ~new.off)
      BY <2>2
    <3> QED
      BY <2>1, <2>2, <3>1
  <2>3. CASE BlockOnStandby /\ old.off /\ ~new.off
    BY <2>1, <2>3
  <2>4. CASE ~(BlockOnStandby /\ new.off) /\ ~(BlockOnStandby /\ old.off /\ ~new.off)
    BY <2>1, <2>4
  <2> QED
    BY <2>2, <2>3, <2>4
<1> HIDE DEF s, u
<1>3. /\ Sound(p) /\ Rests(p)
      /\ KeepsCorr(s, p) \/ Folds(s, p) \/ NewMove(s, p)
      /\ s.block => p = s
  <2>1. /\ Handles(s, StartPark(s, d, keep))
        /\ s.block => StartPark(s, d, keep) = s
    BY <1>1, ParkHandles
  <2>2. KeepsCorr(s, s)
    BY DEF KeepsCorr
  <2> QED
    BY <1>1, <2>1, <2>2 DEF Handles, Passes
<1> HIDE DEF p
<1>4. /\ Sound(u) /\ Rests(u) /\ KeepsCorr(p, u)
      /\ u.tracking = p.tracking /\ u.motion = p.motion
      /\ BlockOnStandby \/ u = p
  <2>1. KeepsCorr(p, p)
    BY DEF KeepsCorr
  <2> QED
    BY <1>2, <1>3, <2>1, BlockSound, ZenonT(60)
<1>5. KeepsCorr(t, u) \/ Folds(t, u) \/ NewMove(t, u)
  BY <1>1, <1>3, <1>4 DEF KeepsCorr, Folds, NewMove
<1>6. new.stop => ~u.tracking /\ (InMotion(u) => u.motion = t.motion)
  BY <1>1, <1>3, <1>4 DEF InMotion
<1>7. new.stop /\ ~BlockOnStandby => u.block
  BY <1>1, <1>3, <1>4
<1> QED
  BY <1>4, <1>5, <1>6, <1>7 DEF u

-----------------------------------------------------------------------------
(* The images in flight, and the invariant.                                *)

\* The corrections only grow within a move, and CORR_IMG with them.
LEMMA KnownKept ==
  ASSUME NEW t, Sound(t), NEW u, KeepsCorr(t, u) \/ Folds(t, u) \/ NewMove(t, u),
         NEW i \in Image, Known(t, i)
  PROVE  Known(u, i)
<1>1. t.moveNum \in Nat /\ t.corrId \in Nat /\ t.wcorrId \in Nat /\ i.mark \in Nat /\ i.corrId \in Nat
  BY LimitsAssumption DEF Sound, Mount, Image
<1>2. CASE KeepsCorr(t, u)
  BY <1>2 DEF KeepsCorr, Known
<1>3. CASE Folds(t, u)
  <2>1. t.wcorrId > t.corrId
    BY <1>3 DEF Folds, Sound, Corrected
  <2> QED
    BY <1>1, <1>3, <2>1 DEF Folds, Known
<1>4. CASE NewMove(t, u)
  BY <1>1, <1>4 DEF NewMove, Known
<1> QED
  BY <1>2, <1>3, <1>4

\* The two action properties, as what one step says.
CorrectionSeen ==
  tel'.corr # <<>> /\ tel'.corr # tel.corr =>
    /\ tel.wcorr # NoImage /\ tel'.corr = Append(tel.wcorr.corr, tel.wcorr.id)
    /\ tel.wcorr.mark = tel'.moveNum /\ tel'.moveNum = tel.moveNum

AtRest ==
  /\ ParkedIsStill'
  /\ master'.stop => /\ ~tel'.tracking
                     /\ InMotion(tel') => tel'.motion = tel.motion

LEMMA CorrectionsSeen ==
  ASSUME Sound(tel), KeepsCorr(tel, tel') \/ Folds(tel, tel') \/ NewMove(tel, tel')
  PROVE  CorrectionSeen
BY DEF CorrectionSeen, Sound, Corrected, KeepsCorr, Folds, NewMove

LEMMA SoundRests ==
  ASSUME NEW t, Sound(t), Rests(t), t.moving = "parked"
  PROVE  ~t.tracking /\ ~InMotion(t)
BY DEF Sound, InState, Rests, InMotion

\* What a step of a handler keeps and shows.
Kept == IInv' /\ CorrectionSeen /\ (~BlockOnStandby => AtRest)

LEMMA HandlesKeeps ==
  ASSUME IInv, Handles(tel, tel'), master' = master, cam' \in BOOLEAN, taken' \in 0..MaxImages,
         \A i \in images' : i \in images \/ (i \in Image /\ Known(tel', i))
  PROVE  Kept
<1>1. Sound(tel') /\ Rests(tel') /\ Passes(tel, tel')
  BY DEF Handles
<1>2. images' \subseteq Image
  BY DEF IInv, TypeOK
<1>3. TypeOK'
  BY <1>1, <1>2 DEF IInv, TypeOK, Sound, Corrected, LastOf
<1>4. \A i \in images' : Known(tel', i)
  BY <1>1, KnownKept DEF IInv, TypeOK, Passes
<1>5. Stands'
  BY DEF IInv, Stands, Handles, Passes, Obeys
<1>6. CorrectionSeen
  BY <1>1, CorrectionsSeen DEF IInv, Passes
<1>7. ~BlockOnStandby => AtRest
  <2>1. ParkedIsStill'
    BY <1>1, SoundRests DEF ParkedIsStill
  <2> QED
    BY <1>1, <1>5, <2>1 DEF AtRest, IInv, Stands, Passes, Obeys
<1> QED
  BY <1>1, <1>3, <1>4, <1>5, <1>6, <1>7 DEF Kept, IInv

\* the same for the handlers that touch nothing but the daemon
LEMMA BecomesKeeps ==
  ASSUME IInv, NEW u, Handles(tel, u), Becomes(u)
  PROVE  Kept
BY HandlesKeeps DEF Becomes, IInv, TypeOK

LEMMA InitIInv == Init => IInv
<1> SUFFICES ASSUME Init PROVE IInv
  OBVIOUS
<1>1. PICK x \in Targets : tel =
        [motion |-> "still", reached |-> FALSE, moving |-> "observing",
         correcting |-> FALSE, bop |-> FALSE, tracking |-> FALSE, block |-> FALSE,
         ori |-> x, oriNew |-> TRUE, moveNum |-> 0, completed |-> FALSE,
         woffs |-> 0, woffsNew |-> FALSE, corr |-> <<>>, corrId |-> 0,
         wcorr |-> NoImage, wcorrId |-> 0, told |-> TRUE]
  BY DEF Init
<1>2. 0 \in 0..MaxImages /\ <<>> \in Seq(1..MaxImages)
  BY LimitsAssumption
<1>3. tel \in Mount
  BY <1>1, <1>2 DEF Mount
<1>4. Sound(tel) /\ Rests(tel)
  BY <1>1, <1>3 DEF Sound, Corrected, LastOf, InState, Blocks, Reaches, Rests
<1>5. TypeOK
  BY <1>1, <1>2, <1>3 DEF TypeOK, Init
<1>6. Stands /\ images = {}
  BY DEF Init, Stands
<1> QED
  BY <1>4, <1>5, <1>6 DEF IInv

LEMMA StepIInv == IInv /\ [Next]_vars => Kept
<1> SUFFICES ASSUME IInv, [Next]_vars PROVE Kept
  OBVIOUS
<1> USE DEF IInv
<1>1. CASE Idle
  BY <1>1, CheckMovesHandles, BecomesKeeps DEF Idle
<1>2. CASE CommandMove
  BY <1>2, MoveHandles, BecomesKeeps DEF CommandMove
<1>3. CASE CommandResync
  BY <1>3, ResyncHandles, BecomesKeeps DEF CommandResync
<1>4. CASE CommandAltAz
  BY <1>4, AltAzHandles, BecomesKeeps DEF CommandAltAz
<1>5. CASE CommandChange
  BY <1>5, ChangeHandles, BecomesKeeps DEF CommandChange
<1>6. CASE CommandPark
  BY <1>6, ParkHandles, BecomesKeeps DEF CommandPark
<1>7. CASE CommandStop
  BY <1>7, StopHandles, BecomesKeeps DEF CommandStop
<1>8. CASE CommandCorrect
  <2>1. PICK i \in images, err \in Errors :
          /\ tel' = Correct(tel, i, err) /\ images' = images \ {i}
          /\ UNCHANGED <<master, cam, taken>>
    BY <1>8 DEF CommandCorrect
  <2>2. i \in Image /\ Known(tel, i)
    BY DEF TypeOK
  <2>3. Handles(tel, tel')
    BY <2>1, <2>2, CorrectHandles
  <2> QED
    BY <2>1, <2>3, HandlesKeeps DEF TypeOK
<1>9. CASE CommandScriptEnds
  BY <1>9, OffsetsHandle, BecomesKeeps DEF CommandScriptEnds
<1>10. CASE StartsTracking
  BY <1>10, TrackHandles, BecomesKeeps DEF StartsTracking
<1>11. CASE StopsTracking
  BY <1>11, StopTrackingHandles, BecomesKeeps DEF StopsTracking
<1>12. CASE WriteWoffs
  BY <1>12, OffsetsHandle, BecomesKeeps DEF WriteWoffs
<1>13. CASE WriteOffs
  BY <1>13, ResyncAsItIs, BecomesKeeps DEF WriteOffs
<1>14. CASE WriteOri
  BY <1>14, ResyncHandles, BecomesKeeps DEF WriteOri
<1>15. CASE BelowHorizon
  BY <1>15, StopTrackingHandles, BecomesKeeps DEF BelowHorizon
<1>16. CASE BopSays
  BY <1>16, FullBopHandles, BecomesKeeps DEF BopSays, TypeOK
<1>17. CASE MasterSays
  <2>1. PICK new \in MasterStates, d \in Driver, k \in BOOLEAN :
          /\ master' = new /\ tel' = ChangeMasterState(tel, master, new, d, k)
          /\ UNCHANGED <<cam, images, taken>>
    BY <1>17 DEF MasterSays, MasterStates
  <2>2. master \in MasterStates
    BY DEF TypeOK, MasterStates
  <2>3. /\ Sound(tel') /\ Rests(tel')
        /\ KeepsCorr(tel, tel') \/ Folds(tel, tel') \/ NewMove(tel, tel')
        /\ master'.stop => ~tel'.tracking /\ (InMotion(tel') => tel'.motion = tel.motion)
        /\ master'.stop /\ ~BlockOnStandby => tel'.block
    BY <2>1, <2>2, MasterHandles
  <2>4. TypeOK'
    BY <2>1, <2>3 DEF TypeOK, Sound, Corrected, LastOf, MasterStates
  <2>5. \A i \in images' : Known(tel', i)
    BY <2>1, <2>3, KnownKept DEF TypeOK
  <2>6. Stands'
    BY <2>3 DEF Stands
  <2>7. CorrectionSeen
    BY <2>3, CorrectionsSeen
  <2>8. AtRest
    BY <2>3, SoundRests DEF AtRest, ParkedIsStill
  <2> QED
    BY <2>3, <2>4, <2>5, <2>6, <2>7, <2>8 DEF Kept
<1>18. CASE CamStarts
  <2> DEFINE i == [id |-> taken + 1, mark |-> tel.moveNum, corrId |-> tel.corrId,
                   corr |-> tel.corr, onTarget |-> tel.reached /\ tel.motion = "still",
                   small |-> FALSE]
  <2>1. /\ taken < MaxImages /\ taken' = taken + 1 /\ cam' = TRUE /\ master' = master
        /\ images' = images \cup {i} /\ tel' = [tel EXCEPT !.told = TRUE]
    BY <1>18 DEF CamStarts
  <2>2. Handles(tel, tel')
    BY <2>1, ToldHandles
  <2>3. taken' \in 0..MaxImages /\ taken + 1 \in 1..MaxImages
    BY <2>1, LimitsAssumption DEF TypeOK
  <2>4. i \in Image
    <3>1. (tel.reached /\ tel.motion = "still") \in BOOLEAN
      OBVIOUS
    <3>2. tel.moveNum \in Nat /\ tel.corrId \in 0..MaxImages /\ tel.corr \in Seq(1..MaxImages)
      BY DEF TypeOK, Mount
    <3> QED
      BY <2>3, <3>1, <3>2 DEF Image
  <2>5. Known(tel', i)
    <3>1. tel'.moveNum = tel.moveNum /\ tel'.corrId = tel.corrId /\ tel'.corr = tel.corr
          /\ tel.moveNum \in Nat /\ tel.corrId \in Nat
      BY <2>1, LimitsAssumption DEF TypeOK, Mount
    <3> QED
      BY <3>1 DEF Known
  <2> HIDE DEF i
  <2> QED
    BY <2>1, <2>2, <2>3, <2>4, <2>5, HandlesKeeps
<1>19. CASE CamEnds
  <2>1. Handles(tel, tel') /\ cam' = FALSE /\ UNCHANGED <<master, images, taken>>
    BY <1>19, ToldHandles DEF CamEnds
  <2> QED
    BY <2>1, HandlesKeeps DEF TypeOK
<1>20. CASE Arrives
  BY <1>20, MotionHandles, BecomesKeeps DEF Arrives
<1>21. CASE Fails
  BY <1>21, MotionHandles, BecomesKeeps DEF Fails
<1>22. CASE UNCHANGED vars
  <2>1. Handles(tel, tel')
    BY <1>22, AsideHandles DEF vars, Sound
  <2> QED
    BY <1>22, <2>1, HandlesKeeps DEF vars, TypeOK
<1> QED
  BY <1>1, <1>2, <1>3, <1>4, <1>5, <1>6, <1>7, <1>8, <1>9, <1>10, <1>11, <1>12, <1>13, <1>14,
     <1>15, <1>16, <1>17, <1>18, <1>19, <1>20, <1>21, <1>22 DEF Next

-----------------------------------------------------------------------------
(* The theorems.                                                           *)

LEMMA Invariance == Spec => []IInv
<1>1. IInv /\ [Next]_vars => IInv'
  BY StepIInv DEF Kept
<1> QED
  BY <1>1, InitIInv, PTL DEF Spec

\* The values of the daemon keep their types through every handler, and CORR_IMG always
\* names the last image whose error CORR_ holds (startResyncMove and its rollback, incMoveNum).
THEOREM TypeCorrect == Spec => []TypeOK
<1>1. IInv => TypeOK
  BY DEF IInv
<1> QED
  BY <1>1, Invariance, PTL

\* While the mount slews or a correction waits that was not below small_correction,
\* BOP_EXPOSURE is set: no camera that asks then may start (startResyncMove, checkMoves and
\* "correct").
THEOREM ExposuresBlocked == Spec => []MovesBlockExposures
<1>1. IInv => MovesBlockExposures
  BY DEF IInv, Sound, Blocks, Announced, MovesBlockExposures
<1> QED
  BY <1>1, Invariance, PTL

\* With a driver whose isMoving () calls a stopped move failed, move_completed means that
\* the last move reached its target (checkMoves, stopMove and startPark in any order).
THEOREM CompletionMeant == StoppedIsFailed => (Spec => []CompletedMeansReached)
<1> SUFFICES ASSUME StoppedIsFailed PROVE Spec => []CompletedMeansReached
  OBVIOUS
<1>1. IInv => CompletedMeansReached
  BY DEF IInv, Sound, Reaches, CompletedMeansReached
<1> QED
  BY <1>1, Invariance, PTL

\* A measured error enters CORR_ only for the move and on top of the corrections its image
\* was taken with ("correct", startResyncMove and its rollback); an operator's writes of CORR_
\* and of the waiting correction are outside the model.
THEOREM CorrectionsMatchImages == Spec => CorrectsWhatItSaw
<1>1. IInv /\ [Next]_vars => CorrectionSeen
  BY StepIInv DEF Kept
<1> QED
  BY <1>1, Invariance, PTL DEF Spec, CorrectsWhatItSaw, CorrectionSeen

\* Without block_on_standby, which lifts the block of the stop state with its own, nothing
\* starts a motion or tracks in the stop state, and a parked mount stands still
\* (changeMasterState and every handler that starts a motion).  An operator's write of
\* block_move is outside the model.
THEOREM StopHolds == ~BlockOnStandby => (Spec => StillAtRest)
<1> SUFFICES ASSUME ~BlockOnStandby PROVE Spec => StillAtRest
  OBVIOUS
<1>1. IInv /\ [Next]_vars => AtRest
  BY StepIInv DEF Kept
<1> QED
  BY <1>1, Invariance, PTL DEF Spec, StillAtRest, AtRest

=============================================================================
