---------------------------- MODULE CameraProofs ----------------------------
(***************************************************************************)
(* Theorems of Camera for every set of clients and every bound: what holds *)
(* the mount, that the exposure time stands while the chip exposes, that   *)
(* an exposure that cares for blocks starts unblocked, that value changes  *)
(* take effect in the order they came in, and that an exposure that waits  *)
(* is not forgotten.                                                       *)
(*                                                                         *)
(* A handler masks the state of the device, which calls back into the      *)
(* value queue and the waiting exposure.  The lemmas follow these calls    *)
(* from the inside out and say of each record they return that it is       *)
(* steady, and of the way there that an exposure started only where it may *)
(* (Goes).  For these first theorems the content of the queue is free.     *)
(*                                                                         *)
(* The second half adds what the queue and the waiting exposure need       *)
(* (Orderly): a change held back is held by the chip, and an idle daemon   *)
(* with an exposure waiting has somebody who will look at it again.        *)
(***************************************************************************)
EXTENDS Camera, SelectionProofs, TLAPS

Shaped(c) ==
  c \in [chip : Chip, que : {c.que}, exposure : {c.exposure}, moving : {c.moving},
         qexp : {c.qexp}, notBop : {c.notBop}, emptyQue : {c.emptyQue}, okLater : {c.okLater},
         conn : {c.conn}, care : BOOLEAN, bop : {c.bop}, masterBop : {c.masterBop},
         asked : {c.asked}, owed : {c.owed}, took : {c.took}, failed : {c.failed}, nested : {c.nested},
         exit : {c.exit}, up : BOOLEAN]

\* A daemon that is gone exposes nothing and has nothing left to start.
Over(c) == ~c.up => ~c.chip.expose /\ c.qexp = 0 /\ ~c.emptyQue

Steady(c) == /\ Shaped(c) /\ Over(c)
             /\ c.chip.tel => c.chip.expose
             /\ c.chip.expose => c.exposure = c.took
             /\ c.masterBop => c.bop

\* From c to u an exposure that cares started only if centrald's last word allowed it.
Goes(c, u) == /\ Steady(u)
              /\ u.up => c.up /\ u.masterBop = c.masterBop /\ u.care = c.care
              /\ u.chip.expose /\ u.care => c.chip.expose \/ ~c.masterBop

LEMMA GoesOn ==
  ASSUME NEW c, NEW u, NEW v, Goes(c, u), Goes(u, v)
  PROVE  Goes(c, v)
BY DEF Goes, Steady, Over

-----------------------------------------------------------------------------
(* The queue of value changes.                                             *)

\* A record of the same shape that agrees with c on what the queue does not touch.
Same(c, u) == /\ Shaped(u)
              /\ u.took = c.took /\ u.care = c.care /\ u.masterBop = c.masterBop
              /\ u.up = c.up /\ u.conn = c.conn

LEMMA FreeChangesSame ==
  ASSUME NEW c, Shaped(c)
  PROVE  /\ Same(c, FreeChanges(c)) /\ FreeChanges(c).chip = c.chip
         /\ FreeChanges(c).qexp = c.qexp /\ FreeChanges(c).bop = c.bop
         /\ FreeChanges(c).notBop = c.notBop /\ FreeChanges(c).emptyQue = c.emptyQue
<1> DEFINE q == Free(c)
           h == Held(c)
           x == SetTimes(c.exposure, q)
           m == IF \E i \in DOMAIN q : q[i].value = "filter" THEN {"filter", "focuser"} ELSE c.moving
           s == [c EXCEPT !.exposure = x, !.moving = m]
           u == [s EXCEPT !.que = h]
<1>1. FreeChanges(c) = u
  BY DEF FreeChanges, DoSetValues
<1> HIDE DEF q, h, x, m
<1>2. /\ s \in [chip : Chip, que : {c.que}, exposure : {x}, moving : {m},
           qexp : {c.qexp}, notBop : {c.notBop}, emptyQue : {c.emptyQue}, okLater : {c.okLater},
           conn : {c.conn}, care : BOOLEAN, bop : {c.bop}, masterBop : {c.masterBop},
           asked : {c.asked}, owed : {c.owed}, took : {c.took}, failed : {c.failed}, nested : {c.nested},
           exit : {c.exit}, up : BOOLEAN]
      /\ s.chip = c.chip /\ s.up = c.up /\ s.care = c.care
  BY DEF Shaped
<1> HIDE DEF s
<1>3. /\ u \in [chip : Chip, que : {h}, exposure : {x}, moving : {m},
           qexp : {c.qexp}, notBop : {c.notBop}, emptyQue : {c.emptyQue}, okLater : {c.okLater},
           conn : {c.conn}, care : BOOLEAN, bop : {c.bop}, masterBop : {c.masterBop},
           asked : {c.asked}, owed : {c.owed}, took : {c.took}, failed : {c.failed}, nested : {c.nested},
           exit : {c.exit}, up : BOOLEAN]
      /\ u.chip = c.chip /\ u.up = c.up /\ u.care = c.care
  BY <1>2
<1> HIDE DEF u
<1> QED
  BY <1>1, <1>3 DEF Same, Shaped

LEMMA DeviceBopSame ==
  ASSUME NEW c, Shaped(c)
  PROVE  /\ Same(c, DeviceBop(c)) /\ DeviceBop(c).chip = c.chip
         /\ DeviceBop(c).exposure = c.exposure /\ DeviceBop(c).qexp = c.qexp
         /\ DeviceBop(c).notBop = c.notBop /\ DeviceBop(c).emptyQue = c.emptyQue
         /\ DeviceBop(c).masterBop => DeviceBop(c).bop
<1> DEFINE b == c.masterBop \/ c.que # <<>>
           u == [c EXCEPT !.bop = b]
<1>1. DeviceBop(c) = u
  BY DEF DeviceBop
<1>2. c.masterBop => b
  OBVIOUS
<1> HIDE DEF b
<1> QED
  BY <1>1, <1>2 DEF Same, Shaped

\* The end of the queue may count an exposure, never starts one.
LEMMA EmptyQueSame ==
  ASSUME NEW c, Shaped(c)
  PROVE  /\ Same(c, EmptyQue(c)) /\ EmptyQue(c).chip = c.chip
         /\ EmptyQue(c).exposure = c.exposure /\ EmptyQue(c).bop = c.bop
         /\ ~c.emptyQue => EmptyQue(c) = c
<1> DEFINE e == [c EXCEPT !.emptyQue = FALSE, !.okLater = TRUE]
           u == [e EXCEPT !.qexp = @ + 1, !.notBop = TRUE, !.asked = TRUE, !.failed = FALSE]
<1>1. Same(c, e) /\ e.chip = c.chip /\ e.exposure = c.exposure /\ e.bop = c.bop
  BY DEF Same, Shaped
<1>2. EmptyQue(c) = IF c.que # <<>> \/ ~c.emptyQue THEN c ELSE IF e.conn = NoClient THEN e ELSE u
  BY DEF EmptyQue
<1> HIDE DEF e
<1>3. Same(c, u) /\ u.chip = c.chip /\ u.exposure = c.exposure /\ u.bop = c.bop
  <2> DEFINE n == e.qexp + 1
             v == [e EXCEPT !.qexp = n, !.notBop = TRUE, !.asked = TRUE, !.failed = FALSE]
  <2>1. u = v
    OBVIOUS
  <2> HIDE DEF n
  <2>2. Same(e, v) /\ v.chip = e.chip /\ v.exposure = e.exposure /\ v.bop = e.bop
    BY <1>1 DEF Same, Shaped
  <2> QED
    BY <1>1, <2>1, <2>2 DEF Same
<1> HIDE DEF u
<1>4. Same(c, c)
  BY DEF Same
<1> QED
  BY <1>1, <1>2, <1>3, <1>4

\* Nothing passes a chip that exposes, so b is taken only when it does not.
LEMMA CheckQueChangesResult ==
  ASSUME NEW m, NEW b
  PROVE  \/ CheckQueChanges(m, b) = m
         \/ CheckQueChanges(m, b) = EmptyQue(m)
         \/ ~m.chip.expose /\ CheckQueChanges(m, b) = EmptyQue(b)
<1>1. (\A i \in DOMAIN m.que : Blocked(m.que[i], m.chip)) \/ ~m.chip.expose
  BY DEF Blocked
<1> QED
  BY <1>1 DEF CheckQueChanges

-----------------------------------------------------------------------------
(* Starting an exposure.                                                   *)

LEMMA BopInStartSame ==
  ASSUME NEW c, Shaped(c)
  PROVE  /\ Same(c, BopInStart(c)) /\ BopInStart(c).chip = c.chip
         /\ BopInStart(c).exposure = c.exposure
         /\ BopInStart(c).masterBop => BopInStart(c).bop
<1> DEFINE d == DeviceBop(c)
           n == d.nested \/ MayStart(c)
           u == [d EXCEPT !.nested = n]
<1>1. BopInStart(c) = u
  BY DEF BopInStart
<1>2. /\ Same(c, d) /\ d.chip = c.chip /\ d.exposure = c.exposure
      /\ d.masterBop => d.bop
  BY DeviceBopSame
<1> HIDE DEF d, n
<1>3. /\ Same(d, u) /\ u.chip = d.chip /\ u.exposure = d.exposure
      /\ u.bop = d.bop
  BY <1>2 DEF Same, Shaped
<1> QED
  BY <1>1, <1>2, <1>3 DEF Same

LEMMA MaskInStartSame ==
  ASSUME NEW c, NEW chip \in Chip, Shaped(c), c.masterBop => c.bop
  PROVE  /\ Same(c, MaskInStart(c, chip)) /\ MaskInStart(c, chip).chip = chip
         /\ chip.expose => MaskInStart(c, chip).exposure = c.exposure
         /\ MaskInStart(c, chip).masterBop => MaskInStart(c, chip).bop
<1> DEFINE m == [c EXCEPT !.chip = chip]
           f == FreeChanges(m)
           b == BopInStart(f)
           r == CheckQueChanges(m, b)
<1>1. MaskInStart(c, chip) = IF c.chip = chip THEN c ELSE r
  BY DEF MaskInStart
<1>2. Same(c, c)
  BY DEF Same
<1>3. Same(c, m) /\ m.chip = chip /\ m.exposure = c.exposure /\ m.bop = c.bop
  BY DEF Same, Shaped
<1> HIDE DEF m
<1>4. Same(m, f) /\ f.chip = m.chip
  BY <1>3, FreeChangesSame DEF Same
<1> HIDE DEF f
<1>5. Same(f, b) /\ b.chip = f.chip /\ (b.masterBop => b.bop)
  BY <1>4, BopInStartSame DEF Same
<1> HIDE DEF b
<1>6. /\ Same(m, EmptyQue(m)) /\ EmptyQue(m).chip = m.chip
      /\ EmptyQue(m).exposure = m.exposure /\ EmptyQue(m).bop = m.bop
  BY <1>3, EmptyQueSame DEF Same
<1>7. /\ Same(b, EmptyQue(b)) /\ EmptyQue(b).chip = b.chip /\ EmptyQue(b).bop = b.bop
  BY <1>5, EmptyQueSame DEF Same
<1>8. \/ r = m
      \/ r = EmptyQue(m)
      \/ ~m.chip.expose /\ r = EmptyQue(b)
  BY CheckQueChangesResult
<1> HIDE DEF r
<1>9. /\ Same(c, r) /\ r.chip = chip /\ (chip.expose => r.exposure = c.exposure)
      /\ r.masterBop => r.bop
  BY <1>3, <1>4, <1>5, <1>6, <1>7, <1>8 DEF Same
<1> QED
  BY <1>1, <1>2, <1>9


LEMMA StartSteady ==
  ASSUME NEW c, NEW starts, Shaped(c), c.up, ~c.chip.expose, c.masterBop => c.bop
  PROVE  /\ Steady(Start(c, starts)) /\ Start(c, starts).up
         /\ Start(c, starts).masterBop = c.masterBop /\ Start(c, starts).care = c.care
         /\ ~starts => ~Start(c, starts).chip.expose
<1> DEFINE h == [c.chip EXCEPT !.tel = c.care, !.error = FALSE]
           s == MaskInStart(c, h)
           t == [s EXCEPT !.took = s.exposure, !.failed = FALSE]
           g == [s.chip EXCEPT !.expose = TRUE, !.tel = c.care]
           e == MaskInStart(t, g)
           k == [s.chip EXCEPT !.tel = FALSE]
           b == s.qexp > 0
           f == [s EXCEPT !.failed = b]
           n == MaskInStart(f, k)
           a == Answer(e, e.conn)
           o == [a EXCEPT !.okLater = FALSE]
<1>1. Start(c, starts) = IF ~starts THEN n ELSE IF e.okLater /\ e.conn # NoClient THEN o ELSE e
  BY DEF Start
<1>2. h \in Chip /\ ~h.expose
  BY DEF Shaped, Chip
<1> HIDE DEF h
<1>3. Same(c, s) /\ s.chip = h /\ (s.masterBop => s.bop)
  BY <1>2, MaskInStartSame
<1> HIDE DEF s
<1>4. /\ Shaped(t) /\ t.took = s.exposure /\ t.exposure = s.exposure /\ t.chip = s.chip
      /\ t.care = s.care /\ t.masterBop = s.masterBop /\ t.bop = s.bop /\ t.up = s.up
  BY <1>3 DEF Same, Shaped
<1> HIDE DEF t, b
<1>5. /\ Shaped(f) /\ f.chip = s.chip /\ f.took = s.took /\ f.exposure = s.exposure
       /\ f.care = s.care /\ f.masterBop = s.masterBop /\ f.bop = s.bop /\ f.up = s.up
  BY <1>3 DEF Same, Shaped
<1> HIDE DEF f
<1>6. g \in Chip /\ g.expose
  BY <1>2, <1>3 DEF Chip, Shaped
<1>7. k \in Chip /\ ~k.expose /\ ~k.tel
  BY <1>2, <1>3 DEF Chip
<1> HIDE DEF g, k
<1>8. Same(t, e) /\ e.chip = g /\ e.exposure = t.exposure /\ (e.masterBop => e.bop)
  BY <1>3, <1>4, <1>6, MaskInStartSame
<1>9. Same(f, n) /\ n.chip = k /\ (n.masterBop => n.bop)
  BY <1>3, <1>7, <1>5, MaskInStartSame
<1> HIDE DEF e, n
<1>10. Steady(e) /\ e.up /\ e.masterBop = c.masterBop /\ e.care = c.care
  BY <1>3, <1>4, <1>6, <1>8 DEF Same, Steady, Over
<1>11. Steady(n) /\ n.up /\ n.masterBop = c.masterBop /\ n.care = c.care /\ ~n.chip.expose
  BY <1>3, <1>7, <1>9, <1>5 DEF Same, Steady, Over
<1>12. ASSUME e.conn # NoClient
       PROVE  Steady(o) /\ o.up /\ o.masterBop = e.masterBop /\ o.care = e.care
  <2> DEFINE w == e.owed \ {e.conn}
             v == [e EXCEPT !.owed = w]
  <2>1. a = v
    BY <1>12 DEF Answer
  <2> HIDE DEF w, a
  <2>2. /\ Shaped(v) /\ v.chip = e.chip /\ v.exposure = e.exposure /\ v.took = e.took /\ v.bop = e.bop
        /\ v.masterBop = e.masterBop /\ v.care = e.care /\ v.up = e.up
    BY <1>10 DEF Steady, Shaped
  <2> HIDE DEF v
  <2>3. /\ Shaped(o) /\ o.chip = v.chip /\ o.exposure = v.exposure /\ o.took = v.took /\ o.bop = v.bop
        /\ o.masterBop = v.masterBop /\ o.care = v.care /\ o.up = v.up
    BY <2>1, <2>2 DEF Shaped
  <2> QED
    BY <1>10, <2>2, <2>3 DEF Steady, Over
<1> HIDE DEF o
<1> QED
  BY <1>1, <1>10, <1>11, <1>12

LEMMA GoneSteady ==
  Steady(Gone) /\ ~Gone.up /\ ~Gone.chip.expose
BY DEF Steady, Over, Shaped, Gone, Fresh, IdleChip, Chip

LEMMA AnswerGoes ==
  ASSUME NEW c, NEW client, Steady(c)
  PROVE  Steady(Answer(c, client)) /\ Goes(c, Answer(c, client))
<1>1. CASE client = NoClient
  BY <1>1, GoneSteady DEF Answer, Goes
<1>2. CASE client # NoClient
  <2> DEFINE w == c.owed \ {client}
             v == [c EXCEPT !.owed = w]
  <2>1. Answer(c, client) = v
    BY <1>2 DEF Answer
  <2> HIDE DEF w
  <2>2. Steady(v) /\ v.up = c.up /\ v.masterBop = c.masterBop /\ v.care = c.care /\ v.chip = c.chip
    BY DEF Steady, Shaped, Over
  <2> QED
    BY <2>1, <2>2 DEF Goes
<1> QED
  BY <1>1, <1>2


LEMMA CamStartExposureGoes ==
  ASSUME NEW c, NEW starts \in BOOLEAN, Steady(c), c.up, ~c.chip.expose
  PROVE  Goes(c, CamStartExposure(c, c.care, starts))
<1> DEFINE n == c.qexp + 1
           w == [c EXCEPT !.qexp = n, !.notBop = TRUE, !.failed = FALSE]
           s == Start(c, starts)
           a == Answer(s, c.conn)
<1>1. CamStartExposure(c, c.care, starts) =
        IF c.care /\ (c.bop \/ c.moving # {}) THEN w ELSE IF starts THEN s ELSE a
  BY DEF CamStartExposure
<1>2. Goes(c, w)
  <2> HIDE DEF n
  <2>1. /\ Shaped(w) /\ w.chip = c.chip /\ w.up = c.up /\ w.exposure = c.exposure /\ w.took = c.took
        /\ w.bop = c.bop /\ w.masterBop = c.masterBop /\ w.care = c.care
    BY DEF Steady, Shaped
  <2> HIDE DEF w
  <2> QED
    BY <2>1 DEF Goes, Steady, Over
<1>3. /\ Steady(s) /\ s.up /\ s.masterBop = c.masterBop /\ s.care = c.care
      /\ ~starts => ~s.chip.expose
  BY StartSteady DEF Steady
<1>4. Goes(s, a)
  BY <1>3, AnswerGoes
<1> HIDE DEF w, s, a
<1>5. ASSUME ~(c.care /\ (c.bop \/ c.moving # {})), starts
      PROVE  Goes(c, s)
  BY <1>3, <1>5 DEF Goes, Steady
<1>6. ASSUME ~starts
      PROVE  Goes(c, a)
  <2>1. Goes(c, s)
    BY <1>3, <1>6 DEF Goes
  <2> QED
    BY <2>1, <1>4, GoesOn
<1> QED
  BY <1>1, <1>2, <1>5, <1>6

LEMMA CamExposeGoes ==
  ASSUME NEW c, NEW client, NEW busy \in BOOLEAN, NEW fromQue \in BOOLEAN, NEW starts \in BOOLEAN,
         Steady(c), c.up, ~busy => ~c.chip.expose
  PROVE  Goes(c, CamExpose(c, client, busy, fromQue, c.care, starts))
<1> DEFINE r == CamExpose(c, client, busy, fromQue, c.care, starts)
           d == Dec(c.qexp)
           n == c.qexp + 1
           s == [c EXCEPT !.qexp = d, !.conn = client]
           q == [c EXCEPT !.qexp = n]
           w == [c EXCEPT !.emptyQue = TRUE]
<1>1. Goes(c, c)
  BY DEF Goes
<1>2. CASE c.exit # "no"
  <2>1. r = IF client = NoClient THEN c ELSE Answer(c, client)
    BY <1>2 DEF CamExpose
  <2> QED
    BY <2>1, <1>1, AnswerGoes
<1>3. CASE c.exit = "no" /\ ~busy /\ (fromQue \/ c.que = <<>>)
  <2>1. r = CamStartExposure(s, c.care, starts)
    BY <1>3 DEF CamExpose
  <2> HIDE DEF d
  <2>2. /\ Shaped(s) /\ s.chip = c.chip /\ s.up = c.up /\ s.exposure = c.exposure /\ s.took = c.took
        /\ s.bop = c.bop /\ s.masterBop = c.masterBop /\ s.care = c.care
    BY DEF Steady, Shaped
  <2> HIDE DEF s
  <2>3. Steady(s)
    BY <2>2 DEF Steady, Over
  <2>4. Goes(s, CamStartExposure(s, s.care, starts))
    BY <1>3, <2>2, <2>3, CamStartExposureGoes
  <2> QED
    BY <2>1, <2>2, <2>4 DEF Goes
<1>4. CASE c.exit = "no" /\ busy /\ ~fromQue /\ c.que = <<>>
  <2>1. r = q
    BY <1>4 DEF CamExpose
  <2> HIDE DEF n
  <2>2. /\ Shaped(q) /\ q.chip = c.chip /\ q.up = c.up /\ q.exposure = c.exposure /\ q.took = c.took
        /\ q.bop = c.bop /\ q.masterBop = c.masterBop /\ q.care = c.care
    BY DEF Steady, Shaped
  <2> HIDE DEF q
  <2> QED
    BY <2>1, <2>2 DEF Goes, Steady, Over
<1>5. CASE /\ ~(c.exit # "no")
           /\ ~(c.exit = "no" /\ ~busy /\ (fromQue \/ c.que = <<>>))
           /\ ~(c.exit = "no" /\ busy /\ ~fromQue /\ c.que = <<>>)
  <2>1. r = w
    BY <1>5 DEF CamExpose
  <2>2. /\ Shaped(w) /\ w.chip = c.chip /\ w.up = c.up /\ w.exposure = c.exposure /\ w.took = c.took
        /\ w.bop = c.bop /\ w.masterBop = c.masterBop /\ w.care = c.care
    BY DEF Steady, Shaped
  <2> HIDE DEF w
  <2> QED
    BY <2>1, <2>2 DEF Goes, Steady, Over
<1> QED
  BY <1>2, <1>3, <1>4, <1>5

-----------------------------------------------------------------------------
(* Masking the state of the device.                                        *)

\* The record handed in need not yet block what centrald blocks: this call makes it so.
LEMMA SetFullBopStateGoes ==
  ASSUME NEW c, NEW starts, Shaped(c), Over(c), c.chip.tel => c.chip.expose,
         c.chip.expose => c.exposure = c.took
  PROVE  Goes(c, SetFullBopState(c, starts))
<1> DEFINE d == DeviceBop(c)
           n == d.qexp - 1
           g == [d EXCEPT !.notBop = FALSE, !.qexp = n]
           s == Start(g, starts)
<1>1. SetFullBopState(c, starts) = IF MayStart(c) THEN s ELSE d
  BY DEF SetFullBopState
<1>2. /\ Same(c, d) /\ d.chip = c.chip /\ d.exposure = c.exposure /\ d.qexp = c.qexp
      /\ d.emptyQue = c.emptyQue /\ (d.masterBop => d.bop)
  BY DeviceBopSame
<1> HIDE DEF d
<1>3. Goes(c, d)
  BY <1>2 DEF Goes, Steady, Same, Over
<1>4. ASSUME MayStart(c)
      PROVE  Goes(c, s)
  <2> HIDE DEF n
  <2>1. /\ Shaped(g) /\ g.chip = d.chip /\ g.up = d.up /\ g.bop = d.bop
        /\ g.masterBop = d.masterBop /\ g.care = d.care
    BY <1>2 DEF Same, Shaped
  <2> HIDE DEF g
  <2>2. c.up /\ ~c.chip.expose /\ ~c.masterBop
    BY <1>4 DEF MayStart, Over
  <2>3. Steady(s) /\ s.up /\ s.masterBop = g.masterBop /\ s.care = g.care
    BY <2>1, <2>2, <1>2, StartSteady, ZenonT(60) DEF Same
  <2> HIDE DEF s
  <2> QED
    BY <2>1, <2>2, <2>3, <1>2 DEF Goes, Same
<1> QED
  BY <1>1, <1>3, <1>4

LEMMA EmptyQueGoes ==
  ASSUME NEW c, NEW u, Goes(c, u)
  PROVE  Goes(c, EmptyQue(u)) /\ EmptyQue(u).chip = u.chip
<1>1. /\ Same(u, EmptyQue(u)) /\ EmptyQue(u).chip = u.chip
      /\ EmptyQue(u).exposure = u.exposure /\ EmptyQue(u).bop = u.bop
      /\ ~u.emptyQue => EmptyQue(u) = u
  BY EmptyQueSame DEF Goes, Steady
<1>2. Over(EmptyQue(u))
  BY <1>1 DEF Goes, Steady, Over, Same
<1> QED
  BY <1>1, <1>2 DEF Goes, Steady, Same

LEMMA MaskStateGoes ==
  ASSUME NEW c, NEW chip \in Chip, NEW starts, Steady(c),
         chip.tel => chip.expose, chip.expose => c.chip.expose
  PROVE  /\ Goes(c, MaskState(c, chip, starts))
         /\ c.qexp = 0 => MaskState(c, chip, starts).chip = chip
<1> DEFINE m == [c EXCEPT !.chip = chip]
           f == FreeChanges(m)
           b == SetFullBopState(f, starts)
           r == CheckQueChanges(m, b)
<1>1. MaskState(c, chip, starts) = IF c.chip = chip THEN c ELSE r
  BY DEF MaskState
<1>2. Goes(c, c)
  BY DEF Goes
<1>3. /\ Shaped(m) /\ m.chip = chip /\ m.up = c.up /\ m.exposure = c.exposure /\ m.took = c.took
      /\ m.bop = c.bop /\ m.masterBop = c.masterBop /\ m.care = c.care /\ m.qexp = c.qexp
      /\ m.emptyQue = c.emptyQue
  BY DEF Steady, Shaped
<1> HIDE DEF m
<1>4. Goes(c, m)
  BY <1>3 DEF Goes, Steady, Over
<1>5. /\ Same(m, f) /\ f.chip = m.chip /\ f.qexp = m.qexp /\ f.emptyQue = m.emptyQue
  BY <1>3, FreeChangesSame
<1> HIDE DEF f
<1>6. ASSUME ~chip.expose
      PROVE  Goes(c, b) /\ (c.qexp = 0 => b.chip = chip)
  <2>1. Shaped(f) /\ Over(f) /\ ~f.chip.expose /\ ~f.chip.tel
    BY <1>3, <1>4, <1>5, <1>6 DEF Same, Goes, Steady, Over
  <2>2. f.care = c.care /\ f.masterBop = c.masterBop /\ f.up = c.up
    BY <1>3, <1>5 DEF Same
  <2>3. Goes(f, b)
    BY <2>1, <2>2, SetFullBopStateGoes
  <2>4. Goes(c, b)
    BY <2>1, <2>2, <2>3 DEF Goes
  <2>5. c.qexp = 0 => b = DeviceBop(f)
    BY <1>3, <1>5 DEF SetFullBopState, MayStart
  <2>6. DeviceBop(f).chip = f.chip
    BY <2>1, DeviceBopSame
  <2> HIDE DEF b
  <2> QED
    BY <1>3, <1>5, <2>4, <2>5, <2>6
<1> HIDE DEF b
<1>7. \/ r = m
      \/ r = EmptyQue(m)
      \/ ~m.chip.expose /\ r = EmptyQue(b)
  BY CheckQueChangesResult
<1> HIDE DEF r
<1>8. Goes(c, r) /\ (c.qexp = 0 => r.chip = chip)
  BY <1>3, <1>4, <1>6, <1>7, EmptyQueGoes
<1> QED
  BY <1>1, <1>2, <1>8


-----------------------------------------------------------------------------
(* The handlers, on a daemon that runs.                                    *)

\* v is c with changes of its own bookkeeping only.
Alike(c, v) == /\ Shaped(v) /\ v.chip = c.chip /\ v.up = c.up
               /\ v.exposure = c.exposure /\ v.took = c.took
               /\ v.bop = c.bop /\ v.masterBop = c.masterBop

LEMMA AlikeSteady ==
  ASSUME NEW c, NEW v, Steady(c), c.up, Alike(c, v)
  PROVE  Steady(v) /\ (v.care = c.care => Goes(c, v))
BY DEF Alike, Steady, Over, Goes

LEMMA StopExposureGoes ==
  ASSUME NEW c, Steady(c)
  PROVE  Goes(c, StopExposure(c)) /\ StopExposure(c).qexp = 0 /\ StopExposure(c).chip = c.chip
<1> DEFINE v == [c EXCEPT !.qexp = 0]
<1>1. StopExposure(c) = v
  BY DEF StopExposure
<1>2. /\ Shaped(v) /\ v.chip = c.chip /\ v.up = c.up /\ v.exposure = c.exposure /\ v.took = c.took
      /\ v.bop = c.bop /\ v.masterBop = c.masterBop /\ v.care = c.care /\ v.qexp = 0
      /\ v.emptyQue = c.emptyQue
  BY DEF Steady, Shaped
<1> HIDE DEF v
<1> QED
  BY <1>1, <1>2 DEF Goes, Steady, Over

LEMMA ChipBits ==
  ASSUME NEW c, Steady(c)
  PROVE  /\ \A error \in BOOLEAN :
              /\ Aborted(c.chip, error) \in Chip
              /\ ~Aborted(c.chip, error).tel /\ ~Aborted(c.chip, error).expose
              /\ [c.chip EXCEPT !.error = error] \in Chip
              /\ [c.chip EXCEPT !.error = error].tel = c.chip.tel
              /\ [c.chip EXCEPT !.error = error].expose = c.chip.expose
              /\ [c.chip EXCEPT !.read = FALSE, !.error = error] \in Chip
              /\ [c.chip EXCEPT !.read = FALSE, !.error = error].tel = c.chip.tel
              /\ [c.chip EXCEPT !.read = FALSE, !.error = error].expose = c.chip.expose
         /\ c.chip.expose \in BOOLEAN /\ c.chip.read \in BOOLEAN
         /\ c.chip.tel => c.chip.expose
BY DEF Steady, Shaped, Chip, Aborted

LEMMA EndExposureGoes ==
  ASSUME NEW c, NEW starts, Steady(c)
  PROVE  Goes(c, EndExposure(c, starts))
<1> DEFINE s == StopExposure(c)
           a == Aborted(c.chip, FALSE)
           e == [expose |-> FALSE, read |-> TRUE, tel |-> FALSE, error |-> FALSE]
<1>1. EndExposure(c, starts) = IF c.conn = NoClient THEN MaskState(s, a, starts) ELSE MaskState(c, e, starts)
  BY DEF EndExposure
<1>2. Goes(c, s)
  BY StopExposureGoes
<1>3. a \in Chip /\ ~a.tel /\ ~a.expose
  BY ChipBits
<1>4. e \in Chip /\ ~e.tel /\ ~e.expose
  BY DEF Chip
<1> HIDE DEF s, a, e
<1>5. Goes(s, MaskState(s, a, starts))
  BY <1>2, <1>3, MaskStateGoes DEF Goes
<1>6. Goes(c, MaskState(c, e, starts))
  BY <1>4, MaskStateGoes
<1> QED
  BY <1>1, <1>2, <1>5, <1>6, GoesOn

LEMMA FailExposureGoes ==
  ASSUME NEW c, NEW starts, Steady(c)
  PROVE  Goes(c, FailExposure(c, starts))
<1> DEFINE m == MaskState(c, Aborted(c.chip, TRUE), starts)
<1>1. Goes(c, m)
  BY ChipBits, MaskStateGoes
<1> HIDE DEF m
<1>2. Goes(m, StopExposure(m))
  BY <1>1, StopExposureGoes DEF Goes
<1>3. FailExposure(c, starts) = StopExposure(m)
  BY DEF FailExposure, m
<1> QED
  BY <1>1, <1>2, <1>3, GoesOn

LEMMA CheckReadoutsGoes ==
  ASSUME NEW c, NEW error \in BOOLEAN, NEW starts \in BOOLEAN, Steady(c), c.up
  PROVE  Goes(c, CheckReadouts(c, error, starts))
<1> DEFINE x == CamExpose(c, c.conn, c.chip.expose, TRUE, c.care, starts)
           e == EndReadout(c, starts)
           h == [e.chip EXCEPT !.read = FALSE, !.error = error]
<1>1. Goes(c, x)
  BY ChipBits, CamExposeGoes
<1>2. Goes(c, c)
  BY DEF Goes
<1>3. Goes(c, e)
  BY <1>1, <1>2 DEF EndReadout
<1>4. CheckReadouts(c, error, starts) = MaskState(e, h, starts)
  BY DEF CheckReadouts
<1> HIDE DEF e
<1>5. h \in Chip /\ h.tel = e.chip.tel /\ h.expose = e.chip.expose /\ (e.chip.tel => e.chip.expose)
  BY <1>3, ChipBits DEF Goes
<1> HIDE DEF h
<1>6. Goes(e, MaskState(e, h, starts))
  BY <1>3, <1>5, MaskStateGoes DEF Goes
<1> QED
  BY <1>3, <1>4, <1>6, GoesOn

\* Nothing is queued any more when killAll masks the state, so nothing starts from there.
LEMMA KillAllGoes ==
  ASSUME NEW c, NEW starts, Steady(c), c.up
  PROVE  Goes(c, KillAll(c, starts)) /\ ~KillAll(c, starts).chip.expose
<1> DEFINE w == c.moving \ {"filter"}
           v == [c EXCEPT !.notBop = FALSE, !.emptyQue = FALSE, !.moving = w]
           k == StopExposure(v)
           a == Aborted(k.chip, TRUE)
           m == MaskState(k, a, starts)
           u == [m EXCEPT !.que = <<>>]
<1>1. KillAll(c, starts) = u
  BY DEF KillAll
<1> HIDE DEF w
<1>2. Alike(c, v) /\ v.care = c.care
  BY DEF Alike, Steady, Shaped
<1> HIDE DEF v
<1>3. Goes(c, v)
  BY <1>2, AlikeSteady
<1>4. Goes(v, k) /\ k.qexp = 0
  BY <1>3, StopExposureGoes DEF Goes
<1> HIDE DEF k
<1>5. a \in Chip /\ ~a.tel /\ ~a.expose
  BY <1>4, ChipBits DEF Goes
<1> HIDE DEF a
<1>6. Goes(k, m) /\ m.chip = a
  BY <1>4, <1>5, MaskStateGoes DEF Goes
<1> HIDE DEF m
<1>7. /\ Shaped(u) /\ u.chip = m.chip /\ u.up = m.up /\ u.exposure = m.exposure /\ u.took = m.took
      /\ u.bop = m.bop /\ u.masterBop = m.masterBop /\ u.care = m.care /\ u.qexp = m.qexp
      /\ u.emptyQue = m.emptyQue
  BY <1>6 DEF Goes, Steady, Shaped
<1> HIDE DEF u
<1>8. Goes(m, u)
  BY <1>6, <1>7 DEF Goes, Steady, Over
<1>9. Goes(c, u)
  BY <1>3, <1>4, <1>6, <1>8, GoesOn
<1> QED
  BY <1>1, <1>5, <1>6, <1>7, <1>9

LEMMA ScriptEndsGoes ==
  ASSUME NEW c, NEW starts, Steady(c)
  PROVE  /\ Goes(c, ScriptEnds(c, starts))
         /\ ~c.chip.expose => ~ScriptEnds(c, starts).chip.expose
<1> DEFINE s == StopExposure(c)
           h == [c.chip EXCEPT !.error = FALSE]
<1>1. ScriptEnds(c, starts) = MaskState(s, h, starts)
  BY DEF ScriptEnds
<1>2. Goes(c, s) /\ s.qexp = 0 /\ s.chip = c.chip
  BY StopExposureGoes
<1>3. h \in Chip /\ h.tel = c.chip.tel /\ h.expose = c.chip.expose /\ (c.chip.tel => c.chip.expose)
  BY ChipBits
<1> HIDE DEF s, h
<1>4. Goes(s, MaskState(s, h, starts)) /\ MaskState(s, h, starts).chip = h
  BY <1>2, <1>3, MaskStateGoes DEF Goes
<1> QED
  BY <1>1, <1>2, <1>3, <1>4, GoesOn

LEMMA RestGoes ==
  ASSUME NEW c, Steady(c)
  PROVE  Goes(c, Rest(c)) /\ Rest(c).chip = c.chip
<1> DEFINE t == IF c.chip.expose THEN c.took ELSE 0
           f == c.failed /\ c.qexp > 0
           v == [c EXCEPT !.took = t, !.failed = f]
<1>1. Rest(c) = v
  BY DEF Rest
<1>2. c.chip.expose => t = c.took
  OBVIOUS
<1> HIDE DEF t, f
<1>3. /\ Shaped(v) /\ v.chip = c.chip /\ v.up = c.up /\ v.exposure = c.exposure /\ v.took = t
      /\ v.bop = c.bop /\ v.masterBop = c.masterBop /\ v.care = c.care /\ v.qexp = c.qexp
      /\ v.emptyQue = c.emptyQue
  BY DEF Steady, Shaped
<1> HIDE DEF v
<1> QED
  BY <1>1, <1>2, <1>3 DEF Goes, Steady, Over


-----------------------------------------------------------------------------
(* The steps.                                                              *)

\* The inductive invariant: the daemon is steady and knows what centrald said last.
IInv == Steady(cam) /\ (cam.up => cam.masterBop = said)

\* What every step has to show; the second conjunct is StartsUnblocked.
Good == IInv' /\ (Starting /\ cam'.care => ~said')

LEMMA InitIInv ==
  Init => IInv
<1>1. /\ Shaped(Fresh) /\ Fresh.up /\ ~Fresh.masterBop
      /\ ~Fresh.chip.expose /\ ~Fresh.chip.tel
  BY DEF Shaped, Fresh, IdleChip, Chip
<1>2. Init => cam = Fresh /\ said = FALSE
  BY DEF Init
<1>3. Fresh.masterBop = FALSE
  BY DEF Fresh
<1> QED
  BY <1>1, <1>2, <1>3 DEF IInv, Steady, Over

\* A step that hands c, which exposes only if the daemon did, to a handler.
LEMMA Handled ==
  ASSUME IInv, NEW c, c.chip.expose = cam.chip.expose, c.up => c.masterBop = said',
         NEW u, Goes(c, u), cam' = Rest(u)
  PROVE  Good
<1>1. Goes(u, cam')
  BY RestGoes DEF Goes
<1>2. Goes(c, cam')
  BY <1>1, GoesOn
<1> QED
  BY <1>2 DEF Good, IInv, Starting, Goes, Steady, Over

LEMMA GoesSelf ==
  ASSUME NEW c, Steady(c)
  PROVE  Goes(c, c)
BY DEF Goes

LEMMA ExposeGood ==
  ASSUME IInv, NEW client \in Clients, NEW care \in BOOLEAN, Expose(client, care)
  PROVE  Good
<1>1. PICK starts \in Starts :
        LET busy == cam.chip.expose \/ cam.chip.read
            c == CamExpose([cam EXCEPT !.care = care], client, busy, FALSE, care, starts)
            waits == cam.exit = "no" /\ cam.que # <<>>
        IN Becomes([c EXCEPT !.owed = IF waits THEN @ \cup {client} ELSE @ \ {client}])
  BY DEF Expose
<1> DEFINE v == [cam EXCEPT !.care = care]
           busy == cam.chip.expose \/ cam.chip.read
           c == CamExpose(v, client, busy, FALSE, care, starts)
           w == IF cam.exit = "no" /\ cam.que # <<>> THEN c.owed \cup {client} ELSE c.owed \ {client}
           u == [c EXCEPT !.owed = w]
<1>2. cam' = Rest(u) /\ said' = said
  BY <1>1 DEF Becomes
<1>3. cam.up /\ starts \in BOOLEAN
  BY DEF Expose, Starts
<1>4. Alike(cam, v) /\ v.care = care
  BY DEF Alike, IInv, Steady, Shaped
<1>5. busy \in BOOLEAN /\ (~busy => ~cam.chip.expose)
  BY ChipBits DEF IInv
<1> HIDE DEF v, busy
<1>6. Steady(v)
  BY <1>3, <1>4, AlikeSteady DEF IInv
<1>7. Goes(v, c)
  BY <1>3, <1>4, <1>5, <1>6, CamExposeGoes DEF Alike
<1> HIDE DEF c, w
<1>8. /\ Shaped(u) /\ u.chip = c.chip /\ u.up = c.up /\ u.exposure = c.exposure /\ u.took = c.took
      /\ u.bop = c.bop /\ u.masterBop = c.masterBop /\ u.care = c.care /\ u.qexp = c.qexp
      /\ u.emptyQue = c.emptyQue
  BY <1>7 DEF Goes, Steady, Shaped
<1> HIDE DEF u
<1>9. Goes(v, u)
  BY <1>7, <1>8 DEF Goes, Steady, Over
<1> QED
  BY <1>2, <1>3, <1>4, <1>9, Handled DEF Alike, IInv

LEMMA SetGood ==
  ASSUME IInv, NEW client \in Clients, NEW change \in Changes, Set(client, change)
  PROVE  Good
<1> DEFINE q == Append(cam.que, change)
           a == [cam EXCEPT !.que = q]
           x == SetTimes(cam.exposure, <<change>>)
           m == IF \E i \in DOMAIN <<change>> : <<change>>[i].value = "filter"
                THEN {"filter", "focuser"} ELSE cam.moving
           d == [cam EXCEPT !.exposure = x, !.moving = m]
<1>1. \/ cam' = a
      \/ cam' = cam
      \/ ~cam.chip.expose /\ cam' = d
  BY DEF Set, SetCondValue, Blocked, DoSetValues
<1>2. cam.up /\ said' = said
  BY DEF Set
<1> HIDE DEF q, x, m
<1>3. ASSUME cam' = a
      PROVE  Good
  <2>1. Alike(cam, a) /\ a.care = cam.care
    BY DEF Alike, IInv, Steady, Shaped
  <2> HIDE DEF a
  <2> QED
    BY <1>2, <1>3, <2>1, AlikeSteady DEF Good, IInv, Starting, Alike
<1>4. ASSUME cam' = cam
      PROVE  Good
  BY <1>2, <1>4 DEF Good, IInv, Starting, Steady, Shaped, Over
<1>5. ASSUME ~cam.chip.expose, cam' = d
      PROVE  Good
  <2>1. /\ Shaped(d) /\ d.chip = cam.chip /\ d.up = cam.up
        /\ d.bop = cam.bop /\ d.masterBop = cam.masterBop
    BY DEF IInv, Steady, Shaped
  <2> HIDE DEF d
  <2>2. Steady(d)
    BY <1>2, <1>5, <2>1 DEF IInv, Steady, Over
  <2> QED
    BY <1>2, <1>5, <2>1, <2>2 DEF Good, IInv, Starting
<1> QED
  BY <1>1, <1>3, <1>4, <1>5

LEMMA KillGood ==
  ASSUME IInv, NEW client \in Clients, NEW callScriptEnds \in BOOLEAN, Kill(client, callScriptEnds)
  PROVE  Good
<1>1. PICK starts \in Starts :
        LET k == KillAll(cam, starts)
        IN cam' = Rest(IF callScriptEnds
                       THEN MaskState(ScriptEnds(k, starts), [k.chip EXCEPT !.error = TRUE], starts)
                       ELSE k)
  BY DEF Kill
<1> DEFINE k == KillAll(cam, starts)
           s == ScriptEnds(k, starts)
           h == [k.chip EXCEPT !.error = TRUE]
           m == MaskState(s, h, starts)
           u == IF callScriptEnds THEN m ELSE k
<1>2. cam' = Rest(u) /\ said' = said /\ cam.up
  BY <1>1 DEF Kill
<1>3. Goes(cam, k) /\ ~k.chip.expose
  BY <1>2, KillAllGoes DEF IInv
<1> HIDE DEF k
<1>4. Goes(k, s)
  BY <1>3, ScriptEndsGoes DEF Goes
<1>5. h \in Chip /\ ~h.tel /\ ~h.expose
  BY <1>3, ChipBits DEF Goes
<1> HIDE DEF s, h
<1>6. Goes(s, m)
  BY <1>4, <1>5, MaskStateGoes DEF Goes
<1> HIDE DEF m
<1>7. Goes(cam, u)
  BY <1>3, <1>4, <1>6, GoesOn
<1> QED
  BY <1>2, <1>7, Handled DEF IInv

\* The handlers a client or the hardware sets off on the daemon as it is.
LEMMA PlainGood ==
  ASSUME IInv,
         \/ \E client \in Clients : StopExpo(client) \/ EndScript(client) \/ Leave(client)
         \/ ExposureEnds \/ ExposureFails \/ ReadoutEnds \/ ReadoutFails
  PROVE  Good
<1> USE DEF IInv
<1>1. Steady(cam) /\ (cam.up => cam.masterBop = said)
  OBVIOUS
<1>2. ASSUME NEW u, Goes(cam, u), Becomes(u)
      PROVE  Good
  BY <1>2, Handled DEF Becomes
<1>3. ASSUME NEW client \in Clients, StopExpo(client)
      PROVE  Good
  <2>1. PICK starts \in Starts : Becomes(MaskState(StopExposure(cam), Aborted(cam.chip, TRUE), starts))
    BY <1>3 DEF StopExpo
  <2> DEFINE s == StopExposure(cam)
             h == Aborted(cam.chip, TRUE)
             m == MaskState(s, h, starts)
  <2>2. Goes(cam, s)
    BY <1>1, StopExposureGoes
  <2>3. h \in Chip /\ ~h.tel /\ ~h.expose
    BY <1>1, ChipBits
  <2> HIDE DEF s, h
  <2>4. Goes(s, m)
    BY <2>2, <2>3, MaskStateGoes DEF Goes
  <2>5. Becomes(m)
    BY <2>1 DEF s, h
  <2> HIDE DEF m
  <2>6. Goes(cam, m)
    BY <2>2, <2>4, GoesOn
  <2> QED
    BY <2>5, <2>6, <1>2
<1>4. ASSUME NEW client \in Clients, EndScript(client)
      PROVE  Good
  <2>1. PICK starts \in Starts : Becomes(ScriptEnds(cam, starts))
    BY <1>4 DEF EndScript
  <2> QED
    BY <2>1, <1>1, <1>2, ScriptEndsGoes
<1>5. ASSUME NEW client \in Clients, Leave(client)
      PROVE  Good
  <2> DEFINE k == IF cam.conn = client THEN NoClient ELSE cam.conn
             w == cam.owed \ {client}
             v == [cam EXCEPT !.conn = k, !.owed = w]
  <2>1. Becomes(v) /\ cam.up
    BY <1>5 DEF Leave
  <2> HIDE DEF k, w
  <2>2. Alike(cam, v) /\ v.care = cam.care
    BY DEF Alike, Steady, Shaped
  <2> HIDE DEF v
  <2> QED
    BY <2>1, <2>2, <1>1, <1>2, AlikeSteady
<1>6. ASSUME ExposureEnds
      PROVE  Good
  <2>1. PICK starts \in Starts : Becomes(EndExposure(cam, starts))
    BY <1>6 DEF ExposureEnds
  <2> QED
    BY <2>1, <1>1, <1>2, EndExposureGoes
<1>7. ASSUME ExposureFails
      PROVE  Good
  <2>1. PICK starts \in Starts : Becomes(FailExposure(cam, starts))
    BY <1>7 DEF ExposureFails
  <2> QED
    BY <2>1, <1>1, <1>2, FailExposureGoes
<1>8. ASSUME ReadoutEnds \/ ReadoutFails
      PROVE  Good
  <2>1. PICK starts \in Starts, error \in BOOLEAN : Becomes(CheckReadouts(cam, error, starts))
    BY <1>8 DEF ReadoutEnds, ReadoutFails
  <2>2. starts \in BOOLEAN /\ cam.up
    BY <1>8 DEF Starts, ReadoutEnds, ReadoutFails
  <2> QED
    BY <2>1, <2>2, <1>1, <1>2, CheckReadoutsGoes
<1> QED
  BY <1>3, <1>4, <1>5, <1>6, <1>7, <1>8

LEMMA OpticsGood ==
  ASSUME IInv, FilterMoveEnds \/ FocuserMoveEnds
  PROVE  Good
<1>1. PICK starts \in Starts, part \in {"filter", "focuser"} :
        Becomes(CheckQueuedExposures([cam EXCEPT !.moving = @ \ {part}], starts))
  BY DEF FilterMoveEnds, FocuserMoveEnds
<1> DEFINE w == cam.moving \ {part}
           v == [cam EXCEPT !.moving = w]
           n == v.qexp - 1
           q == [v EXCEPT !.qexp = n]
           busy == v.chip.expose \/ v.chip.read
           x == CamExpose(q, q.conn, busy, FALSE, q.care, starts)
           u == CheckQueuedExposures(v, starts)
<1>2. cam' = Rest(u) /\ said' = said /\ cam.up /\ starts \in BOOLEAN
  BY <1>1 DEF Becomes, FilterMoveEnds, FocuserMoveEnds, Starts
<1> HIDE DEF w
<1>3. Alike(cam, v) /\ v.care = cam.care
  BY DEF Alike, IInv, Steady, Shaped
<1> HIDE DEF v
<1>4. Goes(cam, v)
  BY <1>2, <1>3, AlikeSteady DEF IInv
<1>5. q.conn = v.conn /\ q.care = v.care
  BY <1>4 DEF Goes, Steady, Shaped
<1>6. u = IF v.qexp = 0 THEN v ELSE x
  BY <1>5 DEF CheckQueuedExposures
<1> HIDE DEF n
<1>7. Alike(v, q)
  BY <1>4 DEF Goes, Alike, Steady, Shaped
<1>8. busy \in BOOLEAN /\ (~busy => ~v.chip.expose)
  BY <1>4, ChipBits DEF Goes
<1> HIDE DEF q, busy
<1>9. Goes(v, q)
  BY <1>2, <1>3, <1>4, <1>5, <1>7, AlikeSteady DEF Goes, Alike
<1>10. Goes(q, x)
  <2>1. Steady(q) /\ q.up /\ (~busy => ~q.chip.expose)
    BY <1>2, <1>3, <1>7, <1>8, <1>9 DEF Goes, Alike
  <2> QED
    BY <2>1, <1>2, <1>8, CamExposeGoes
<1> HIDE DEF x, u
<1>11. Goes(cam, u)
  BY <1>4, <1>6, <1>9, <1>10, GoesOn
<1> QED
  BY <1>2, <1>11, Handled DEF IInv


LEMMA BopStatusGood ==
  ASSUME IInv, NEW bop \in BOOLEAN, BopStatus(bop)
  PROVE  Good
<1>1. PICK starts \in Starts :
        cam' = Rest(SetFullBopState([cam EXCEPT !.masterBop = bop, !.asked = FALSE], starts))
  BY DEF BopStatus
<1> DEFINE v == [cam EXCEPT !.masterBop = bop, !.asked = FALSE]
           u == SetFullBopState(v, starts)
<1>2. cam' = Rest(u) /\ said' = bop /\ cam.up
  BY <1>1 DEF BopStatus
<1>3. /\ Shaped(v) /\ v.chip = cam.chip /\ v.up = cam.up /\ v.exposure = cam.exposure
      /\ v.took = cam.took /\ v.masterBop = bop
  BY DEF IInv, Steady, Shaped
<1> HIDE DEF v
<1>4. Goes(v, u)
  BY <1>2, <1>3, SetFullBopStateGoes DEF IInv, Steady, Over
<1> HIDE DEF u
<1> QED
  BY <1>2, <1>3, <1>4, Handled

LEMMA ExitGood ==
  ASSUME IInv, ExitSignal \/ PrepareExit \/ Exit
  PROVE  Good
<1>1. Steady(cam) /\ (cam.up => cam.masterBop = said)
  BY DEF IInv
<1>2. ASSUME NEW u, Goes(cam, u), cam' = Rest(u), said' = said
      PROVE  Good
  BY <1>1, <1>2, Handled
<1>3. Goes(cam, Gone)
  BY GoneSteady DEF Goes
<1>4. ASSUME ExitSignal
      PROVE  Good
  <2> DEFINE v == [cam EXCEPT !.exit = "pending"]
  <2>1. cam.up /\ (Becomes(v) \/ Becomes(Gone))
    BY <1>4 DEF ExitSignal
  <2>2. Alike(cam, v) /\ v.care = cam.care
    BY <1>1 DEF Alike, Steady, Shaped
  <2> HIDE DEF v
  <2>3. Goes(cam, v)
    BY <1>1, <2>1, <2>2, AlikeSteady
  <2> QED
    BY <1>2, <1>3, <2>1, <2>3 DEF Becomes
<1>5. ASSUME PrepareExit
      PROVE  Good
  <2>1. PICK starts \in Starts :
          LET q == [cam EXCEPT !.exit = "waiting", !.qexp = 0]
              k == IF q.chip.expose THEN KillAll(q, starts) ELSE q
          IN cam' = IF k.chip.read THEN Rest(k) ELSE Gone
    BY <1>5 DEF PrepareExit
  <2> DEFINE q == [cam EXCEPT !.exit = "waiting", !.qexp = 0]
             a == KillAll(q, starts)
             k == IF q.chip.expose THEN a ELSE q
  <2>2. cam.up /\ said' = said /\ (cam' = Rest(k) \/ cam' = Gone)
    BY <1>5, <2>1 DEF PrepareExit
  <2>3. Alike(cam, q) /\ q.care = cam.care
    BY <1>1 DEF Alike, Steady, Shaped
  <2> HIDE DEF q
  <2>4. Goes(cam, q) /\ q.up
    BY <1>1, <2>2, <2>3, AlikeSteady DEF Alike
  <2>5. Goes(q, a)
    BY <2>4, KillAllGoes DEF Goes
  <2> HIDE DEF a
  <2>6. Goes(cam, k)
    BY <2>4, <2>5, GoesOn
  <2> HIDE DEF k
  <2>7. ASSUME cam' = Gone
        PROVE  Good
    BY <1>3, <2>2, <2>7 DEF Good, IInv, Goes, Starting, Steady, Over
  <2> QED
    BY <1>2, <2>2, <2>6, <2>7
<1>6. ASSUME Exit
      PROVE  Good
  BY <1>2, <1>3, <1>6 DEF Exit, Becomes
<1> QED
  BY <1>4, <1>5, <1>6

LEMMA NextGood ==
  ASSUME IInv, [Next]_vars
  PROVE  IInv' /\ [Starting /\ cam'.care => ~said']_vars
<1>1. CASE UNCHANGED vars
  BY <1>1 DEF vars, IInv, Steady, Shaped, Over
<1>2. CASE Next
  <2>1. Good
    BY <1>2, ExposeGood, SetGood, KillGood, PlainGood, OpticsGood, BopStatusGood, ExitGood DEF Next
  <2> QED
    BY <2>1 DEF Good
<1> QED
  BY <1>1, <1>2

-----------------------------------------------------------------------------
(* The theorems.                                                           *)

LEMMA Inductive ==
  Spec => []IInv
<1>1. IInv /\ [Next]_vars => IInv'
  BY NextGood
<1> QED
  BY InitIInv, <1>1, PTL DEF Spec

(* The mount is held only by an exposure that runs, whatever ended the    *)
(* earlier ones and however often a start failed (BOP_TEL_MOVE and        *)
(* CAM_EXPOSING in Camera::camStartExposureWithoutCheck, endExposure,     *)
(* killAll).                                                              *)
THEOREM MountReleased ==
  Spec => []HoldsTheMount
<1>1. IInv => HoldsTheMount
  BY DEF IInv, Steady, HoldsTheMount
<1> QED
  BY Inductive, <1>1, PTL

(* The exposure time does not change under a running exposure, for a      *)
(* queue of any length (Daemon::setCondValue, Device::checkQueChanges).   *)
THEOREM ExposureTimeStands ==
  Spec => []SettingsHold
<1>1. IInv => SettingsHold
  BY DEF IInv, Steady, SettingsHold
<1> QED
  BY Inductive, <1>1, PTL

(* An exposure that cares for blocks starts only if centrald's last word  *)
(* allowed it, whichever handler starts it: the command, the end of a     *)
(* readout or of the optics, or a report of centrald itself.              *)
THEOREM BlocksRespected ==
  Spec => StartsUnblocked
<1>1. IInv /\ [Next]_vars => [Starting /\ cam'.care => ~said']_vars
  BY NextGood
<1> QED
  BY Inductive, <1>1, PTL DEF Spec, StartsUnblocked

-----------------------------------------------------------------------------
(* Value changes one after the other: what the exposure time comes to.     *)

LEMMA ChangeFields ==
  ASSUME NEW change \in Changes
  PROVE  change.value \in {"filter", "mode", "exposure"} /\ change.to \in {0, 1}
BY DEF Changes

LEMMA TimesEmpty ==
  ASSUME NEW t
  PROVE  SetTimes(t, <<>>) = t
BY DEF SetTimes

LEMMA TimesNone ==
  ASSUME NEW t, NEW s, \A i \in DOMAIN s : s[i].value = "filter"
  PROVE  SetTimes(t, s) = t
BY DEF SetTimes

\* The largest of some places in a queue.
LEMMA LastPlace ==
  ASSUME NEW n \in Nat, NEW T \in SUBSET (1 .. n), T # {}
  PROVE  Max(T) \in T /\ \A j \in T : j <= Max(T)
<1>1. \E x \in T : \A y \in T : y <= x
  BY Greatest
<1>2. \E x \in T : \A y \in T : x >= y
  BY <1>1
<1> QED
  BY <1>2 DEF Max

LEMMA LastPlaceIs ==
  ASSUME NEW n \in Nat, NEW T \in SUBSET (1 .. n), NEW k \in T, \A j \in T : j <= k
  PROVE  Max(T) = k
<1>1. Max(T) \in T /\ \A j \in T : j <= Max(T)
  BY LastPlace
<1> DEFINE m == Max(T)
<1>2. m \in T /\ k <= m
  BY <1>1
<1> HIDE DEF m
<1>3. m <= k /\ k \in Nat /\ m \in Nat
  BY <1>2
<1>4. m = k
  BY <1>2, <1>3
<1> QED
  BY <1>4 DEF m

LEMMA TimesTyped ==
  ASSUME NEW t \in {0, 1}, NEW s \in Seq(Changes)
  PROVE  SetTimes(t, s) \in {0, 1}
<1> DEFINE says == {i \in DOMAIN s : s[i].value # "filter"}
<1>1. CASE says = {}
  BY <1>1 DEF SetTimes
<1>2. CASE says # {}
  <2>1. Max(says) \in says
    <3>1. Len(s) \in Nat /\ says \in SUBSET (1 .. Len(s))
      OBVIOUS
    <3> HIDE DEF says
    <3> QED
      BY <1>2, <3>1, LastPlace
  <2>2. s[Max(says)] \in Changes /\ s[Max(says)].value # "filter"
    BY <2>1
  <2> QED
    BY <1>2, <2>2, ChangeFields DEF SetTimes, SetTime
<1> QED
  BY <1>1, <1>2

LEMMA TimesAppend ==
  ASSUME NEW t, NEW s \in Seq(Changes), NEW change \in Changes
  PROVE  SetTimes(t, Append(s, change)) = SetTime(SetTimes(t, s), change)
<1> DEFINE n == Len(s)
           q == Append(s, change)
           old == {i \in DOMAIN s : s[i].value # "filter"}
           new == {i \in DOMAIN q : q[i].value # "filter"}
<1>1. /\ DOMAIN s = 1 .. n /\ DOMAIN q = 1 .. (n + 1) /\ n \in Nat
      /\ q[n + 1] = change /\ \A i \in 1 .. n : q[i] = s[i]
  OBVIOUS
<1>2. /\ SetTimes(t, s) = IF old = {} THEN t ELSE SetTime(t, s[Max(old)])
      /\ SetTimes(t, q) = IF new = {} THEN t ELSE SetTime(t, q[Max(new)])
  BY DEF SetTimes
<1>3. CASE change.value = "filter"
  <2>1. new = old
    BY <1>1, <1>3
  <2>2. old # {} => Max(old) \in 1 .. n
    BY <1>1, LastPlace
  <2> HIDE DEF new, old, q
  <2>3. SetTimes(t, q) = SetTimes(t, s)
    BY <1>1, <1>2, <2>1, <2>2
  <2> QED
    BY <1>3, <2>3 DEF SetTime, q
<1>4. CASE change.value # "filter"
  <2>1. n + 1 \in new /\ new \in SUBSET (1 .. (n + 1))
    BY <1>1, <1>4
  <2>2. Max(new) = n + 1
    <3> HIDE DEF new
    <3>1. n + 1 \in Nat /\ \A j \in new : j <= n + 1
      BY <1>1, <2>1
    <3> QED
      BY <2>1, <3>1, LastPlaceIs
  <2> HIDE DEF new, old, q
  <2>3. SetTimes(t, q) = SetTime(t, change)
    BY <1>1, <1>2, <2>1, <2>2
  <2>4. change.value \in {"mode", "exposure"}
    BY <1>4, ChangeFields
  <2> QED
    BY <2>3, <2>4 DEF SetTime, q
<1> QED
  BY <1>3, <1>4

\* A selection that keeps every change of the time comes to the same time.
LEMMA TimesKept ==
  ASSUME NEW t, NEW s \in Seq(Changes), NEW keep,
         \A change \in Changes : change.value # "filter" => change \in keep
  PROVE  SetTimes(t, Selected(s, keep)) = SetTimes(t, s)
<1> DEFINE part(i) == SubSeq(s, 1, i)
           T == {p \in Seq(Changes) \X Nat : SetTimes(t, p[1]) = SetTimes(t, part(p[2]))}
<1>1. <<<<>>, 0>> \in T
  <2>1. part(0) = <<>> /\ <<>> \in Seq(Changes) /\ 0 \in Nat
    OBVIOUS
  <2> QED
    BY <2>1
<1>2. ASSUME NEW i \in 0 .. Len(s), NEW x \in Seq(Changes), i < Len(s), <<x, i>> \in T
      PROVE  <<IF s[i + 1] \in keep THEN Append(x, s[i + 1]) ELSE x, i + 1>> \in T
  <2> DEFINE e == s[i + 1]
             y == IF e \in keep THEN Append(x, e) ELSE x
  <2>1. e \in Changes /\ part(i) \in Seq(Changes) /\ i \in Nat /\ i + 1 \in Nat
    BY <1>2
  <2>2. part(i + 1) = Append(part(i), e)
    BY <1>2
  <2>3. SetTimes(t, x) = SetTimes(t, part(i))
    BY <1>2
  <2> HIDE DEF part, e
  <2>4. SetTimes(t, part(i + 1)) = SetTime(SetTimes(t, x), e)
    BY <2>1, <2>2, <2>3, TimesAppend
  <2>5. y \in Seq(Changes) /\ SetTimes(t, y) = SetTime(SetTimes(t, x), e)
    <3>1. CASE e \in keep
      BY <2>1, <3>1, TimesAppend
    <3>2. CASE e \notin keep
      <4>1. e.value = "filter"
        BY <2>1, <3>2
      <4> QED
        BY <3>2, <4>1 DEF SetTime
    <3> QED
      BY <3>1, <3>2
  <2> HIDE DEF y
  <2>6. <<y, i + 1>> \in T
    BY <2>1, <2>4, <2>5
  <2> QED
    BY <2>6 DEF y, e
<1>3. part(Len(s)) = s
  OBVIOUS
<1> HIDE DEF T
<1>4. <<Selected(s, keep), Len(s)>> \in T
  BY <1>1, <1>2, SelectedReaches
<1> QED
  BY <1>3, <1>4 DEF T

\* What a chip lets through and what it holds back come to what was queued.
LEMMA SplitTimes ==
  ASSUME NEW c, c.que \in Seq(Changes), NEW t \in {0, 1}
  PROVE  /\ Free(c) \in Seq(Changes) /\ Held(c) \in Seq(Changes)
         /\ SetTimes(SetTimes(t, Free(c)), Held(c)) = SetTimes(t, c.que)
         /\ (~c.chip.expose /\ ~c.chip.read) \/ c.que = <<>> => Held(c) = <<>>
<1> DEFINE keep == {change \in Changes : ~Blocked(change, c.chip)}
           hold == {change \in Changes : Blocked(change, c.chip)}
           q == c.que
<1>1. Free(c) = Selected(q, keep) /\ Held(c) = Selected(q, hold)
  BY DEF Free, Held
<1>2. Selected(q, keep) \in Seq(Range(q) \cap keep) /\ Selected(q, hold) \in Seq(Range(q) \cap hold)
  BY SelectedMeans
<1>3. Selected(q, keep) \in Seq(keep) /\ Selected(q, hold) \in Seq(hold)
  BY <1>2
<1>4. keep \subseteq Changes /\ hold \subseteq Changes
  OBVIOUS
<1>5. \A change \in Changes : change \in keep \/ change \in hold
  OBVIOUS
<1>6. Free(c) \in Seq(Changes) /\ Held(c) \in Seq(Changes)
  <2> HIDE DEF keep, hold
  <2> QED
    BY <1>1, <1>3, <1>4
<1>7. q = <<>> => Held(c) = <<>>
  <2> HIDE DEF hold
  <2>1. Range(<<>>) \cap hold = {}
    BY DEF Range
  <2> QED
    BY <1>1, <1>2, <2>1
<1>8. CASE c.chip.expose
  <2>1. keep = {} /\ hold = Changes
    BY <1>8 DEF Blocked
  <2> HIDE DEF keep, hold
  <2>2. Free(c) = <<>>
    BY <1>1, <1>3, <2>1
  <2>3. SetTimes(t, Held(c)) = SetTimes(t, q)
    BY <1>1, <2>1, TimesKept
  <2> QED
    BY <1>6, <1>7, <1>8, <2>2, <2>3, TimesEmpty
<1>9. CASE ~c.chip.expose /\ c.chip.read
  <2>1. /\ \A change \in keep : change.value = "filter"
        /\ \A change \in Changes : change.value # "filter" => change \in hold
    BY <1>9 DEF Blocked
  <2> HIDE DEF keep, hold
  <2>2. \A i \in DOMAIN Free(c) : Free(c)[i].value = "filter"
    BY <1>1, <1>3, <2>1
  <2>3. SetTimes(t, Free(c)) = t
    BY <2>2, TimesNone
  <2>4. SetTimes(t, Held(c)) = SetTimes(t, q)
    BY <1>1, <2>1, TimesKept
  <2> QED
    BY <1>6, <1>7, <1>9, <2>3, <2>4
<1>10. CASE ~c.chip.expose /\ ~c.chip.read
  <2>1. hold = {} /\ keep = Changes
    BY <1>10 DEF Blocked
  <2> HIDE DEF keep, hold
  <2>2. Held(c) = <<>>
    BY <1>1, <1>3, <2>1
  <2>3. SetTimes(t, Free(c)) = SetTimes(t, q)
    BY <1>1, <2>1, TimesKept
  <2> QED
    BY <1>6, <2>2, <2>3, TimesEmpty
<1> QED
  BY <1>8, <1>9, <1>10

-----------------------------------------------------------------------------
(* What the callbacks of a change of state do to the daemon's bookkeeping. *)

Idle(c) == ~c.chip.expose /\ ~c.chip.read

\* the exposure time once all that is queued is applied
Due(c) == SetTimes(c.exposure, c.que)

\* a chip that does nothing holds no change back
Cleared(c) == Idle(c) => c.que = <<>>

\* what blocks is centrald or a change held back
BopMeant(c) == c.bop => c.masterBop \/ c.que # <<>>

\* if an exposure waits somebody will look at it
Minded(c) ==
  c.exit = "no" /\ c.conn # NoClient /\ c.qexp > 0 /\ ~c.failed =>
    c.notBop /\ (c.moving # {} \/ c.asked \/ c.masterBop \/ c.que # <<>>)

\* On the way from c to u the order of the changes was kept, and what belongs to others.
Beside(c, u) ==
  /\ u \in Daemon /\ Due(u) = Due(c)
  /\ u.conn = c.conn /\ u.masterBop = c.masterBop /\ u.exit = c.exit /\ u.up = c.up
  /\ c.que = <<>> => u.que = <<>>
  /\ c.moving # {} => u.moving # {}

LEMMA FreeChangesBeside ==
  ASSUME NEW c \in Daemon
  PROVE  LET f == FreeChanges(c) IN
         /\ Beside(c, f) /\ f.chip = c.chip /\ f.qexp = c.qexp /\ f.notBop = c.notBop
         /\ f.emptyQue = c.emptyQue /\ f.asked = c.asked /\ f.failed = c.failed /\ f.bop = c.bop
         /\ Idle(c) => f.que = <<>>
<1> DEFINE q == Free(c)
           h == Held(c)
           x == SetTimes(c.exposure, q)
           m == IF \E i \in DOMAIN q : q[i].value = "filter" THEN {"filter", "focuser"} ELSE c.moving
           s == [c EXCEPT !.exposure = x, !.moving = m]
           u == [s EXCEPT !.que = h]
<1>1. FreeChanges(c) = u
  BY DEF FreeChanges, DoSetValues
<1>2. c.que \in Seq(Changes) /\ c.exposure \in {0, 1} /\ c.moving \in SUBSET {"filter", "focuser"}
  BY DEF Daemon
<1>3. /\ q \in Seq(Changes) /\ h \in Seq(Changes)
      /\ SetTimes(x, h) = Due(c)
      /\ Idle(c) \/ c.que = <<>> => h = <<>>
  BY <1>2, SplitTimes DEF Due, Idle
<1>4. x \in {0, 1}
  BY <1>2, <1>3, TimesTyped
<1>5. m \in SUBSET {"filter", "focuser"} /\ (c.moving # {} => m # {})
  BY <1>2
<1> HIDE DEF q, h, x, m
<1>6. /\ s \in Daemon /\ s.exposure = x /\ s.moving = m /\ s.que = c.que
      /\ s.chip = c.chip /\ s.qexp = c.qexp /\ s.notBop = c.notBop
      /\ s.emptyQue = c.emptyQue /\ s.asked = c.asked /\ s.failed = c.failed /\ s.bop = c.bop
      /\ s.conn = c.conn /\ s.care = c.care /\ s.masterBop = c.masterBop /\ s.took = c.took
      /\ s.exit = c.exit /\ s.up = c.up
  BY <1>4, <1>5 DEF Daemon
<1> HIDE DEF s
<1>7. /\ u \in Daemon /\ u.exposure = x /\ u.moving = m /\ u.que = h
      /\ u.chip = c.chip /\ u.qexp = c.qexp /\ u.notBop = c.notBop
      /\ u.emptyQue = c.emptyQue /\ u.asked = c.asked /\ u.failed = c.failed /\ u.bop = c.bop
      /\ u.conn = c.conn /\ u.care = c.care /\ u.masterBop = c.masterBop /\ u.took = c.took
      /\ u.exit = c.exit /\ u.up = c.up
  BY <1>3, <1>6 DEF Daemon
<1> HIDE DEF u
<1> QED
  BY <1>1, <1>3, <1>5, <1>7 DEF Beside, Due

LEMMA DeviceBopBeside ==
  ASSUME NEW c \in Daemon
  PROVE  LET d == DeviceBop(c) IN
         /\ Beside(c, d) /\ BopMeant(d) /\ d.chip = c.chip /\ d.qexp = c.qexp
         /\ d.notBop = c.notBop /\ d.emptyQue = c.emptyQue /\ d.asked = c.asked
         /\ d.failed = c.failed /\ d.que = c.que /\ d.moving = c.moving /\ d.nested = FALSE
<1> DEFINE b == c.masterBop \/ c.que # <<>>
           d == [c EXCEPT !.bop = b]
<1>1. DeviceBop(c) = d
  BY DEF DeviceBop
<1>2. b \in BOOLEAN /\ (b => c.masterBop \/ c.que # <<>>)
  BY DEF Daemon
<1> HIDE DEF b
<1>3. /\ d \in Daemon /\ d.bop = b /\ d.exposure = c.exposure /\ d.moving = c.moving /\ d.que = c.que
      /\ d.chip = c.chip /\ d.qexp = c.qexp /\ d.notBop = c.notBop
      /\ d.emptyQue = c.emptyQue /\ d.asked = c.asked /\ d.failed = c.failed
      /\ d.conn = c.conn /\ d.care = c.care /\ d.masterBop = c.masterBop /\ d.took = c.took
      /\ d.exit = c.exit /\ d.up = c.up /\ d.nested = FALSE
  BY <1>2 DEF Daemon
<1> HIDE DEF d
<1> QED
  BY <1>1, <1>2, <1>3 DEF Beside, Due, BopMeant

\* The end of the queue may count an exposure: then centrald is asked.
LEMMA EmptyQueBeside ==
  ASSUME NEW c \in Daemon
  PROVE  LET u == EmptyQue(c) IN
         /\ Beside(c, u) /\ u.chip = c.chip /\ u.que = c.que /\ u.moving = c.moving /\ u.bop = c.bop
         /\ u.notBop => c.notBop \/ u.que = <<>>
         /\ Minded(c) => Minded(u)
<1> DEFINE e == [c EXCEPT !.emptyQue = FALSE, !.okLater = TRUE]
           n == e.qexp + 1
           u == [e EXCEPT !.qexp = n, !.notBop = TRUE, !.asked = TRUE, !.failed = FALSE]
<1>1. EmptyQue(c) = IF c.que # <<>> \/ ~c.emptyQue THEN c ELSE IF e.conn = NoClient THEN e ELSE u
  BY DEF EmptyQue
<1>2. /\ e \in Daemon /\ e.exposure = c.exposure /\ e.moving = c.moving /\ e.que = c.que
      /\ e.chip = c.chip /\ e.qexp = c.qexp /\ e.notBop = c.notBop /\ e.bop = c.bop
      /\ e.asked = c.asked /\ e.failed = c.failed
      /\ e.conn = c.conn /\ e.care = c.care /\ e.masterBop = c.masterBop /\ e.took = c.took
      /\ e.exit = c.exit /\ e.up = c.up
  BY DEF Daemon
<1> HIDE DEF e
<1>3. n \in Nat
  BY <1>2 DEF Daemon
<1> HIDE DEF n
<1>4. /\ u \in Daemon /\ u.exposure = c.exposure /\ u.moving = c.moving /\ u.que = c.que
      /\ u.chip = c.chip /\ u.notBop = TRUE /\ u.bop = c.bop
      /\ u.asked = TRUE
      /\ u.conn = c.conn /\ u.care = c.care /\ u.masterBop = c.masterBop /\ u.took = c.took
      /\ u.exit = c.exit /\ u.up = c.up
  BY <1>2, <1>3 DEF Daemon
<1> HIDE DEF u
<1> QED
  BY <1>1, <1>2, <1>4 DEF Beside, Due, Minded

LEMMA BesideOn ==
  ASSUME NEW c, NEW u, NEW v, Beside(c, u), Beside(u, v)
  PROVE  Beside(c, v)
BY DEF Beside

\* The free changes are taken, as b, only when something is queued and the chip does not expose.
LEMMA CheckQueChangesTakes ==
  ASSUME NEW m \in Daemon, NEW b
  PROVE  \/ /\ CheckQueChanges(m, b) = m \/ CheckQueChanges(m, b) = EmptyQue(m)
            /\ Cleared(m)
         \/ m.que # <<>> /\ ~m.chip.expose /\ CheckQueChanges(m, b) = EmptyQue(b)
<1>1. m.que \in Seq(Changes)
  BY DEF Daemon
<1>2. (\A i \in DOMAIN m.que : Blocked(m.que[i], m.chip)) => Cleared(m)
  BY <1>1 DEF Blocked, Cleared, Idle
<1>3. (\A i \in DOMAIN m.que : Blocked(m.que[i], m.chip)) \/ (m.que # <<>> /\ ~m.chip.expose)
  BY <1>1 DEF Blocked
<1>4. m.qexp > 0 /\ (m.chip.expose \/ m.chip.read) => Cleared(m)
  BY DEF Cleared, Idle
<1> QED
  BY <1>2, <1>3, <1>4 DEF CheckQueChanges

\* No exposure starts inside the start of another: nothing is queued, or the chip is at work, or
\* the exposure that waits is the one that starts.
LEMMA MaskInStartBeside ==
  ASSUME NEW c \in Daemon, NEW chip \in Chip, BopMeant(c),
         c.que = <<>> \/ chip.read \/ chip.expose \/ ~c.notBop
  PROVE  LET u == MaskInStart(c, chip) IN
         /\ Beside(c, u) /\ u.chip = chip /\ BopMeant(u)
         /\ u.notBop => c.notBop \/ u.que = <<>>
         /\ c.failed \/ c.qexp = 0 => Minded(u)
<1> DEFINE m == [c EXCEPT !.chip = chip]
           f == FreeChanges(m)
           b == BopInStart(f)
           r == CheckQueChanges(m, b)
<1>1. MaskInStart(c, chip) = IF c.chip = chip THEN c ELSE r
  BY DEF MaskInStart
<1>2. Beside(c, c) /\ (c.failed \/ c.qexp = 0 => Minded(c))
  BY DEF Beside, Minded
<1>3. /\ Beside(c, m) /\ m.chip = chip /\ m.que = c.que /\ m.notBop = c.notBop /\ m.qexp = c.qexp
      /\ m.failed = c.failed /\ m.bop = c.bop /\ m.masterBop = c.masterBop
  BY DEF Beside, Due, Daemon
<1> HIDE DEF m
<1>4. BopMeant(m) /\ (c.failed \/ c.qexp = 0 => Minded(m))
  BY <1>3 DEF BopMeant, Minded
<1>5. /\ Beside(m, f) /\ f.chip = m.chip /\ f.qexp = m.qexp /\ f.notBop = m.notBop
      /\ f.failed = m.failed
  BY <1>3, FreeChangesBeside DEF Beside
<1> HIDE DEF f
<1>6. ASSUME m.que # <<>>
      PROVE  /\ Beside(m, b) /\ b.chip = m.chip /\ BopMeant(b) /\ b.notBop = m.notBop
             /\ c.failed \/ c.qexp = 0 => Minded(b)
  <2> DEFINE d == DeviceBop(f)
             n == d.nested \/ MayStart(f)
             v == [d EXCEPT !.nested = n]
  <2>1. b = v
    BY DEF BopInStart
  <2>2. /\ Beside(f, d) /\ BopMeant(d) /\ d.chip = f.chip /\ d.qexp = f.qexp
        /\ d.notBop = f.notBop /\ d.failed = f.failed /\ d.nested = FALSE
    BY <1>5, DeviceBopBeside DEF Beside
  <2>3. n = FALSE
    BY <1>3, <1>5, <1>6, <2>2 DEF MayStart
  <2> HIDE DEF d, n
  <2>4. v = d
    BY <2>2, <2>3 DEF Beside, Daemon
  <2>5. Beside(m, d)
    BY <1>5, <2>2, BesideOn
  <2> QED
    BY <1>3, <1>5, <2>1, <2>2, <2>4, <2>5 DEF Minded
<1> HIDE DEF b
<1>7. \/ r = m \/ r = EmptyQue(m)
      \/ m.que # <<>> /\ r = EmptyQue(b)
  BY <1>3, CheckQueChangesTakes DEF Beside
<1> HIDE DEF r
<1>8. ASSUME NEW x \in {m, b}, r = EmptyQue(x), Beside(m, x), x.chip = m.chip, BopMeant(x),
             x.notBop = m.notBop, c.failed \/ c.qexp = 0 => Minded(x)
      PROVE  /\ Beside(c, r) /\ r.chip = chip /\ BopMeant(r)
             /\ r.notBop => c.notBop \/ r.que = <<>>
             /\ c.failed \/ c.qexp = 0 => Minded(r)
  <2>1. /\ Beside(x, r) /\ r.chip = x.chip /\ r.que = x.que /\ r.bop = x.bop
        /\ r.notBop => x.notBop \/ r.que = <<>>
        /\ Minded(x) => Minded(r)
    BY <1>8, EmptyQueBeside DEF Beside
  <2>2. Beside(c, r)
    BY <1>3, <1>8, <2>1, BesideOn
  <2> QED
    BY <1>3, <1>8, <2>1, <2>2 DEF BopMeant, Beside
<1>9. Beside(m, m)
  BY <1>3 DEF Beside
<1> QED
  BY <1>1, <1>2, <1>3, <1>4, <1>6, <1>7, <1>8, <1>9

LEMMA BesideSelf ==
  ASSUME NEW c \in Daemon
  PROVE  Beside(c, c)
BY DEF Beside

-----------------------------------------------------------------------------
(* The start of an exposure leaves somebody to look at those that wait.    *)

LEMMA GoneTyped ==
  Gone \in Daemon /\ ~Gone.up
<1>1. Fresh \in Daemon
  BY DEF Fresh, Daemon, Chip, IdleChip
<1> QED
  BY <1>1 DEF Gone, Daemon

\* Only the answer that is owed is taken away.
LEMMA AnswerBeside ==
  ASSUME NEW c \in Daemon, NEW client, client # NoClient
  PROVE  LET u == Answer(c, client) IN
         /\ Beside(c, u) /\ u.chip = c.chip /\ u.que = c.que /\ u.bop = c.bop
         /\ Minded(c) => Minded(u)
<1> DEFINE w == c.owed \ {client}
           u == [c EXCEPT !.owed = w]
<1>1. Answer(c, client) = u
  BY DEF Answer
<1>2. w \in SUBSET Clients
  BY DEF Daemon
<1> HIDE DEF w
<1>3. /\ u \in Daemon /\ u.exposure = c.exposure /\ u.moving = c.moving /\ u.que = c.que
      /\ u.chip = c.chip /\ u.qexp = c.qexp /\ u.notBop = c.notBop /\ u.bop = c.bop
      /\ u.asked = c.asked /\ u.failed = c.failed
      /\ u.conn = c.conn /\ u.masterBop = c.masterBop
      /\ u.exit = c.exit /\ u.up = c.up
  BY <1>2 DEF Daemon
<1> HIDE DEF u
<1> QED
  BY <1>1, <1>3 DEF Beside, Due, Minded

LEMMA StartBeside ==
  ASSUME NEW c \in Daemon, NEW starts \in BOOLEAN, Cleared(c), BopMeant(c), ~c.chip.expose,
         c.que = <<>> \/ c.chip.read \/ ~c.notBop
  PROVE  LET u == Start(c, starts) IN
         /\ Beside(c, u) /\ Cleared(u) /\ BopMeant(u)
         /\ IF starts THEN u.chip.expose ELSE Minded(u)
<1> DEFINE h == [c.chip EXCEPT !.tel = c.care, !.error = FALSE]
           s == MaskInStart(c, h)
           t == [s EXCEPT !.took = s.exposure, !.failed = FALSE]
           g == [s.chip EXCEPT !.expose = TRUE, !.tel = c.care]
           e == MaskInStart(t, g)
           k == [s.chip EXCEPT !.tel = FALSE]
           b == s.qexp > 0
           f == [s EXCEPT !.failed = b]
           n == MaskInStart(f, k)
           a == Answer(e, e.conn)
           o == [a EXCEPT !.okLater = FALSE]
<1>1. Start(c, starts) = IF ~starts THEN n ELSE IF e.okLater /\ e.conn # NoClient THEN o ELSE e
  BY DEF Start
<1>2. h \in Chip /\ ~h.expose /\ h.read = c.chip.read
  BY DEF Daemon, Chip
<1> HIDE DEF h
<1>3. /\ Beside(c, s) /\ s.chip = h /\ BopMeant(s)
      /\ s.notBop => c.notBop \/ s.que = <<>>
  BY <1>2, MaskInStartBeside
<1> HIDE DEF s
<1>4. s.exposure \in {0, 1} /\ b \in BOOLEAN /\ (~b => s.qexp = 0)
  BY <1>3 DEF Beside, Daemon
<1> HIDE DEF b
<1>5. Beside(s, t) /\ BopMeant(t)
  <2>1. /\ t \in Daemon /\ t.exposure = s.exposure /\ t.moving = s.moving /\ t.que = s.que
        /\ t.conn = s.conn /\ t.masterBop = s.masterBop /\ t.exit = s.exit /\ t.up = s.up /\ t.bop = s.bop
    BY <1>3, <1>4 DEF Beside, Daemon
  <2> HIDE DEF t
  <2> QED
    BY <1>3, <2>1 DEF Beside, Due, BopMeant
<1> HIDE DEF t
<1>6. /\ Beside(s, f) /\ BopMeant(f) /\ (f.failed \/ f.qexp = 0) /\ f.que = s.que
      /\ f.notBop = s.notBop
  <2>1. /\ f \in Daemon /\ f.exposure = s.exposure /\ f.moving = s.moving /\ f.que = s.que
        /\ f.conn = s.conn /\ f.masterBop = s.masterBop /\ f.exit = s.exit /\ f.up = s.up /\ f.bop = s.bop
        /\ f.failed = b /\ f.qexp = s.qexp /\ f.notBop = s.notBop
    BY <1>3, <1>4 DEF Beside, Daemon
  <2> HIDE DEF f
  <2> QED
    BY <1>3, <1>4, <2>1 DEF Beside, Due, BopMeant
<1> HIDE DEF f
<1>7. g \in Chip /\ g.expose
  BY <1>2, <1>3 DEF Chip, Daemon
<1>8. k \in Chip /\ ~k.expose /\ k.read = c.chip.read
  BY <1>2, <1>3 DEF Chip
<1> HIDE DEF g, k
<1>9. Beside(t, e) /\ e.chip = g /\ BopMeant(e)
  BY <1>5, <1>7, MaskInStartBeside DEF Beside
<1>10. Beside(f, n) /\ n.chip = k /\ BopMeant(n) /\ Minded(n)
  <2>1. f.que = <<>> \/ k.read \/ ~f.notBop
    BY <1>3, <1>6, <1>8 DEF Beside
  <2> QED
    BY <1>6, <1>8, <2>1, MaskInStartBeside DEF Beside
<1> HIDE DEF e, n
<1>11. Beside(c, e) /\ Cleared(e) /\ BopMeant(e) /\ e.chip.expose
  BY <1>3, <1>5, <1>7, <1>9, BesideOn DEF Cleared, Idle
<1>12. Beside(c, n)
  BY <1>3, <1>6, <1>10, BesideOn
<1>13. Cleared(n)
  BY <1>8, <1>10, <1>12 DEF Cleared, Idle, Beside
<1>14. ASSUME e.conn # NoClient
       PROVE  Beside(c, o) /\ Cleared(o) /\ BopMeant(o) /\ o.chip.expose
  <2>1. Beside(e, a) /\ a.chip = e.chip /\ a.que = e.que /\ a.bop = e.bop
    BY <1>11, <1>14, AnswerBeside DEF Beside
  <2> HIDE DEF a
  <2>2. /\ o \in Daemon /\ o.exposure = a.exposure /\ o.moving = a.moving /\ o.que = a.que
        /\ o.conn = a.conn /\ o.masterBop = a.masterBop /\ o.exit = a.exit /\ o.up = a.up
        /\ o.chip = a.chip /\ o.bop = a.bop
    BY <2>1 DEF Beside, Daemon
  <2> HIDE DEF o
  <2>3. Beside(a, o)
    BY <2>1, <2>2 DEF Beside, Due
  <2>4. Beside(c, o)
    BY <1>11, <2>1, <2>3, BesideOn
  <2> QED
    BY <1>11, <2>1, <2>2, <2>4 DEF Cleared, Idle, BopMeant, Beside
<1> HIDE DEF o
<1> QED
  BY <1>1, <1>10, <1>11, <1>12, <1>13, <1>14

-----------------------------------------------------------------------------
(* Masking the state, and the report of centrald.                          *)

\* a chip that works looks at what waits when it ends
Looked(c) == Idle(c) => Minded(c)

\* An exposure that waits without block or optics starts here.
LEMMA SetFullBopStateBeside ==
  ASSUME NEW c \in Daemon, NEW starts \in BOOLEAN, Cleared(c)
  PROVE  LET u == SetFullBopState(c, starts) IN
         /\ Beside(c, u) /\ Cleared(u) /\ BopMeant(u)
         /\ c.qexp = 0 => u.chip = c.chip
         /\ (Idle(c) /\ c.exit = "no" /\ c.conn # NoClient /\ c.qexp > 0 /\ ~c.failed => c.notBop)
              => Looked(u)
<1> DEFINE d == DeviceBop(c)
           n == d.qexp - 1
           g == [d EXCEPT !.notBop = FALSE, !.qexp = n]
           s == Start(g, starts)
           u == SetFullBopState(c, starts)
<1>1. u = IF MayStart(c) THEN s ELSE d
  BY DEF SetFullBopState
<1>2. /\ Beside(c, d) /\ BopMeant(d) /\ d.chip = c.chip /\ d.qexp = c.qexp
      /\ d.notBop = c.notBop /\ d.asked = c.asked
      /\ d.failed = c.failed /\ d.que = c.que /\ d.moving = c.moving
  BY DeviceBopBeside
<1> HIDE DEF d
<1>3. CASE ~MayStart(c)
  <2>1. Cleared(d)
    BY <1>2 DEF Cleared, Idle
  <2>2. ASSUME Idle(c) /\ c.exit = "no" /\ c.conn # NoClient /\ c.qexp > 0 /\ ~c.failed => c.notBop
        PROVE  Looked(d)
    BY <1>2, <1>3, <2>2 DEF MayStart, Looked, Minded, Idle, Beside
  <2> QED
    BY <1>1, <1>2, <1>3, <2>1, <2>2 DEF Beside
<1>4. CASE MayStart(c)
  <2>1. n \in Nat
    BY <1>2, <1>4 DEF MayStart, Beside, Daemon
  <2> HIDE DEF n
  <2>2. /\ g \in Daemon /\ g.exposure = d.exposure /\ g.moving = d.moving /\ g.que = d.que
        /\ g.conn = d.conn /\ g.masterBop = d.masterBop /\ g.exit = d.exit /\ g.up = d.up
        /\ g.chip = d.chip /\ g.bop = d.bop /\ g.notBop = FALSE
    BY <1>2, <2>1 DEF Beside, Daemon
  <2> HIDE DEF g
  <2>3. Beside(d, g) /\ BopMeant(g) /\ Cleared(g)
    BY <1>2, <2>2 DEF Beside, Due, BopMeant, Cleared, Idle
  <2>4. ~g.chip.expose
    BY <1>2, <1>4, <2>2 DEF MayStart
  <2>5. /\ Beside(g, s) /\ Cleared(s) /\ BopMeant(s)
        /\ IF starts THEN s.chip.expose ELSE Minded(s)
    BY <2>2, <2>3, <2>4, StartBeside
  <2> HIDE DEF s
  <2>6. Beside(c, s)
    BY <1>2, <2>3, <2>5, BesideOn
  <2>7. Looked(s)
    BY <2>5 DEF Looked, Idle
  <2>8. c.qexp # 0
    BY <1>4 DEF MayStart
  <2> QED
    BY <1>1, <1>4, <2>5, <2>6, <2>7, <2>8 DEF Beside
<1> QED
  BY <1>3, <1>4

LEMMA MaskStateBeside ==
  ASSUME NEW c \in Daemon, NEW chip \in Chip, NEW starts \in BOOLEAN, Cleared(c), BopMeant(c)
  PROVE  LET u == MaskState(c, chip, starts) IN
         /\ Beside(c, u) /\ Cleared(u) /\ BopMeant(u)
         /\ c.qexp = 0 => u.chip = chip
         /\ (~chip.expose /\ ~chip.read => Minded(c)) => Looked(u)
<1> DEFINE m == [c EXCEPT !.chip = chip]
           f == FreeChanges(m)
           b == SetFullBopState(f, starts)
           r == CheckQueChanges(m, b)
           Wanted == ~chip.expose /\ ~chip.read => Minded(c)
<1>1. MaskState(c, chip, starts) = IF c.chip = chip THEN c ELSE r
  BY DEF MaskState
<1>2. CASE c.chip = chip
  BY <1>1, <1>2, BesideSelf DEF Looked, Idle
<1>3. /\ Beside(c, m) /\ m.chip = chip /\ m.que = c.que /\ m.notBop = c.notBop /\ m.qexp = c.qexp
      /\ m.failed = c.failed /\ m.bop = c.bop /\ m.masterBop = c.masterBop /\ m.asked = c.asked
      /\ m.moving = c.moving
  BY DEF Beside, Due, Daemon
<1> HIDE DEF m
<1>4. BopMeant(m) /\ (Wanted => Looked(m))
  BY <1>3 DEF BopMeant, Minded, Looked, Idle, Beside
<1>5. /\ Beside(m, f) /\ f.chip = m.chip /\ f.qexp = m.qexp /\ f.notBop = m.notBop
      /\ f.failed = m.failed /\ Cleared(f)
  BY <1>3, FreeChangesBeside DEF Beside, Cleared, Idle
<1> HIDE DEF f
<1>6. /\ Beside(m, b) /\ Cleared(b) /\ BopMeant(b) /\ (c.qexp = 0 => b.chip = chip)
      /\ Wanted => Looked(b)
  <2>1. /\ Beside(f, b) /\ Cleared(b) /\ BopMeant(b) /\ (f.qexp = 0 => b.chip = f.chip)
        /\ (Idle(f) /\ f.exit = "no" /\ f.conn # NoClient /\ f.qexp > 0 /\ ~f.failed => f.notBop)
             => Looked(b)
    BY <1>5, SetFullBopStateBeside DEF Beside
  <2> HIDE DEF b
  <2>2. Beside(m, b)
    BY <1>5, <2>1, BesideOn
  <2>3. Wanted => (Idle(f) /\ f.exit = "no" /\ f.conn # NoClient /\ f.qexp > 0 /\ ~f.failed => f.notBop)
    BY <1>3, <1>5 DEF Idle, Minded, Beside
  <2> QED
    BY <1>3, <1>5, <2>1, <2>2, <2>3
<1> HIDE DEF b
<1>7. \/ (r = m \/ r = EmptyQue(m)) /\ Cleared(m)
      \/ r = EmptyQue(b)
  BY <1>3, CheckQueChangesTakes DEF Beside
<1> HIDE DEF r, Wanted
<1>8. ASSUME NEW x, r = EmptyQue(x), Beside(m, x), Cleared(x), BopMeant(x), c.qexp = 0 => x.chip = chip,
             Wanted => Looked(x)
      PROVE  /\ Beside(c, r) /\ Cleared(r) /\ BopMeant(r) /\ (c.qexp = 0 => r.chip = chip)
             /\ Wanted => Looked(r)
  <2>1. /\ Beside(x, r) /\ r.chip = x.chip /\ r.que = x.que /\ r.bop = x.bop
        /\ Minded(x) => Minded(r)
    BY <1>8, EmptyQueBeside DEF Beside
  <2>2. Beside(c, r)
    BY <1>3, <1>8, <2>1, BesideOn
  <2> QED
    BY <1>8, <2>1, <2>2 DEF BopMeant, Beside, Cleared, Idle, Looked
<1>9. Beside(m, m)
  BY <1>3, BesideSelf DEF Beside
<1>10. /\ Beside(c, r) /\ Cleared(r) /\ BopMeant(r) /\ (c.qexp = 0 => r.chip = chip)
       /\ Wanted => Looked(r)
  BY <1>3, <1>4, <1>6, <1>7, <1>8, <1>9
<1> QED
  BY <1>1, <1>2, <1>10 DEF Wanted

-----------------------------------------------------------------------------
(* The handlers: the order is kept, and what waits is looked at.           *)

\* What a client asked for: the daemon still does what it queued, in its order.
Keeps(c, u) ==
  u \in Daemon /\ (u.up => c.up /\ Due(u) = Due(c) /\ Cleared(u) /\ BopMeant(u))

\* v differs from c in what neither the queue nor the chip knows of.
Like(c, v) ==
  /\ v \in Daemon /\ v.chip = c.chip /\ v.que = c.que /\ v.exposure = c.exposure
  /\ v.bop = c.bop /\ v.masterBop = c.masterBop /\ v.up = c.up

LEMMA LikeKeeps ==
  ASSUME NEW c, Cleared(c), BopMeant(c), NEW v, Like(c, v)
  PROVE  Keeps(c, v) /\ Cleared(v) /\ BopMeant(v) /\ Due(v) = Due(c)
BY DEF Like, Keeps, Cleared, Idle, BopMeant, Due

LEMMA BesideKeeps ==
  ASSUME NEW c, NEW u, Beside(c, u), Cleared(u), BopMeant(u)
  PROVE  Keeps(c, u)
BY DEF Beside, Keeps

LEMMA KeepsOn ==
  ASSUME NEW c, NEW u, NEW v, Keeps(c, u), Keeps(u, v)
  PROVE  Keeps(c, v)
BY DEF Keeps

LEMMA CamStartExposureKeeps ==
  ASSUME NEW c \in Daemon, NEW care, NEW starts \in BOOLEAN, Cleared(c), BopMeant(c),
         ~c.chip.expose, c.que = <<>> \/ c.chip.read \/ ~c.notBop
  PROVE  LET u == CamStartExposure(c, care, starts) IN
         /\ Keeps(c, u) /\ (c.conn # NoClient /\ c.up => u.up)
         /\ u.up => u.chip.expose \/ Minded(u)
<1> DEFINE n == c.qexp + 1
           w == [c EXCEPT !.qexp = n, !.notBop = TRUE, !.failed = FALSE]
           s == Start(c, starts)
           a == Answer(s, c.conn)
<1>1. CamStartExposure(c, care, starts) =
        IF care /\ (c.bop \/ c.moving # {}) THEN w ELSE IF starts THEN s ELSE a
  BY DEF CamStartExposure
<1>2. ASSUME care /\ (c.bop \/ c.moving # {})
      PROVE  Keeps(c, w) /\ w.up = c.up /\ Minded(w)
  <2>1. n \in Nat
    BY DEF Daemon
  <2> HIDE DEF n
  <2>2. Like(c, w) /\ w.notBop = TRUE /\ w.moving = c.moving
    BY <2>1 DEF Like, Daemon
  <2> HIDE DEF w
  <2>3. c.bop => w.masterBop \/ w.que # <<>>
    BY <2>2 DEF Like, BopMeant
  <2>4. Minded(w)
    BY <1>2, <2>2, <2>3 DEF Minded
  <2> QED
    BY <2>2, <2>4, LikeKeeps DEF Like
<1>3. /\ Beside(c, s) /\ Cleared(s) /\ BopMeant(s)
      /\ IF starts THEN s.chip.expose ELSE Minded(s)
  BY StartBeside
<1> HIDE DEF w, s
<1>4. Keeps(c, s) /\ s.up = c.up
  BY <1>3, BesideKeeps DEF Beside
<1>5. ASSUME ~starts
      PROVE  /\ Keeps(c, a) /\ (c.conn # NoClient /\ c.up => a.up)
             /\ a.up => Minded(a)
  <2>1. CASE c.conn = NoClient
    BY <2>1, GoneTyped DEF Answer, Keeps
  <2>2. CASE c.conn # NoClient
    <3>1. /\ Beside(s, a) /\ a.chip = s.chip /\ a.que = s.que /\ a.bop = s.bop
          /\ Minded(s) => Minded(a)
      BY <1>3, <2>2, AnswerBeside DEF Beside
    <3> HIDE DEF a
    <3>2. Cleared(a) /\ BopMeant(a)
      BY <1>3, <3>1 DEF Cleared, Idle, BopMeant, Beside
    <3>3. Keeps(c, a)
      BY <1>4, <3>1, <3>2, BesideKeeps, KeepsOn
    <3> QED
      BY <1>3, <1>4, <1>5, <3>1, <3>3 DEF Beside
  <2> QED
    BY <2>1, <2>2
<1> HIDE DEF a
<1> QED
  BY <1>1, <1>2, <1>3, <1>4, <1>5

LEMMA CamExposeKeeps ==
  ASSUME NEW c \in Daemon, NEW client \in Clients \cup {NoClient}, NEW busy, NEW fromQue \in BOOLEAN,
         NEW care \in BOOLEAN, NEW starts \in BOOLEAN, Cleared(c), BopMeant(c),
         IF fromQue THEN c.chip.read /\ busy = c.chip.expose
                    ELSE busy = (c.chip.expose \/ c.chip.read)
  PROVE  LET u == CamExpose(c, client, busy, fromQue, care, starts) IN
         /\ Keeps(c, u) /\ (client # NoClient /\ c.up => u.up)
         /\ u.up => u.chip.expose \/ Minded(u) \/ (~fromQue /\ ~Idle(u))
<1> DEFINE u == CamExpose(c, client, busy, fromQue, care, starts)
           d == Dec(c.qexp)
           n == c.qexp + 1
           s == [c EXCEPT !.qexp = d, !.conn = client]
           q == [c EXCEPT !.qexp = n]
           w == [c EXCEPT !.emptyQue = TRUE]
<1>1. d \in Nat /\ n \in Nat
  BY DEF Dec, Daemon
<1>2. Beside(c, c) /\ Keeps(c, c)
  BY BesideSelf, BesideKeeps
<1>3. CASE c.exit # "no"
  <2>1. u = IF client = NoClient THEN c ELSE Answer(c, client)
    BY <1>3 DEF CamExpose
  <2>2. Minded(c)
    BY <1>3 DEF Minded
  <2>3. CASE client = NoClient
    BY <1>2, <2>1, <2>2, <2>3
  <2>4. CASE client # NoClient
    <3>1. /\ Beside(c, u) /\ u.chip = c.chip /\ u.que = c.que /\ u.bop = c.bop
          /\ Minded(c) => Minded(u)
      BY <2>1, <2>4, AnswerBeside
    <3> HIDE DEF u
    <3>2. Cleared(u) /\ BopMeant(u)
      BY <3>1 DEF Cleared, Idle, BopMeant, Beside
    <3> QED
      BY <2>2, <3>1, <3>2, BesideKeeps DEF Beside, u
  <2> QED
    BY <2>3, <2>4
<1>4. CASE c.exit = "no" /\ ~busy /\ (fromQue \/ c.que = <<>>)
  <2>1. u = CamStartExposure(s, care, starts)
    BY <1>4 DEF CamExpose
  <2> HIDE DEF d
  <2>2. Like(c, s) /\ s.conn = client
    BY <1>1 DEF Like, Daemon
  <2> HIDE DEF s
  <2>3. Keeps(c, s) /\ Cleared(s) /\ BopMeant(s)
    BY <2>2, LikeKeeps
  <2>4. ~s.chip.expose /\ (s.que = <<>> \/ s.chip.read)
    BY <1>4, <2>2 DEF Like
  <2>5. s \in Daemon /\ s.up = c.up
    BY <2>2 DEF Like
  <2> HIDE DEF u
  <2>6. /\ Keeps(s, u) /\ (s.conn # NoClient /\ s.up => u.up)
        /\ u.up => u.chip.expose \/ Minded(u)
    BY <2>1, <2>3, <2>4, <2>5, CamStartExposureKeeps
  <2>7. Keeps(c, u)
    BY <2>3, <2>6, KeepsOn
  <2> QED
    BY <2>2, <2>5, <2>6, <2>7 DEF u
<1>5. CASE c.exit = "no" /\ busy /\ ~fromQue /\ c.que = <<>>
  <2>1. u = q
    BY <1>5 DEF CamExpose
  <2> HIDE DEF n
  <2>2. Like(c, q)
    BY <1>1 DEF Like, Daemon
  <2> HIDE DEF q, u
  <2>3. ~Idle(u)
    BY <1>5, <2>1, <2>2 DEF Idle, Like
  <2> QED
    BY <1>5, <2>1, <2>2, <2>3, LikeKeeps DEF Like, u
<1>6. CASE /\ ~(c.exit # "no")
           /\ ~(c.exit = "no" /\ ~busy /\ (fromQue \/ c.que = <<>>))
           /\ ~(c.exit = "no" /\ busy /\ ~fromQue /\ c.que = <<>>)
  <2>1. u = w
    BY <1>6 DEF CamExpose
  <2>2. Like(c, w)
    BY DEF Like, Daemon
  <2> HIDE DEF w, u
  <2>3. u.chip.expose \/ (~fromQue /\ ~Idle(u))
    BY <1>6, <2>1, <2>2 DEF Idle, Like, Cleared
  <2> QED
    BY <2>1, <2>2, <2>3, LikeKeeps DEF Like, u
<1> QED
  BY <1>3, <1>4, <1>5, <1>6

\* A handler that is done: whoever waits is looked at.
Leaves(c, u) == Keeps(c, u) /\ (u.up => Looked(u))

LEMMA StopExposureLike ==
  ASSUME NEW c \in Daemon
  PROVE  Like(c, StopExposure(c)) /\ StopExposure(c).qexp = 0
BY DEF StopExposure, Like, Daemon

\* A change of state when no exposure is counted.
LEMMA MaskStateLeaves ==
  ASSUME NEW c \in Daemon, NEW chip \in Chip, NEW starts \in BOOLEAN, Cleared(c), BopMeant(c),
         ~chip.expose /\ ~chip.read => c.qexp = 0 \/ Minded(c)
  PROVE  LET u == MaskState(c, chip, starts) IN
         /\ Leaves(c, u) /\ Beside(c, u) /\ Cleared(u) /\ BopMeant(u)
         /\ c.qexp = 0 => u.chip = chip
<1>1. c.qexp = 0 => Minded(c)
  BY DEF Minded
<1> QED
  BY <1>1, MaskStateBeside, BesideKeeps DEF Leaves

LEMMA ChipTyped ==
  ASSUME NEW c \in Daemon
  PROVE  /\ \A error \in BOOLEAN :
              /\ Aborted(c.chip, error) \in Chip
              /\ ~Aborted(c.chip, error).expose /\ ~Aborted(c.chip, error).read
              /\ [c.chip EXCEPT !.error = error] \in Chip
              /\ [c.chip EXCEPT !.error = error].expose = c.chip.expose
              /\ [c.chip EXCEPT !.error = error].read = c.chip.read
              /\ [c.chip EXCEPT !.read = FALSE, !.error = error] \in Chip
              /\ [c.chip EXCEPT !.read = FALSE, !.error = error].expose = c.chip.expose
         /\ c.chip.expose \in BOOLEAN /\ c.chip.read \in BOOLEAN /\ c.up \in BOOLEAN
         /\ c.care \in BOOLEAN /\ c.conn \in Clients \cup {NoClient} /\ c.qexp \in Nat
<1>1. c.chip \in Chip
  BY DEF Daemon
<1>2. c.chip.expose \in BOOLEAN /\ c.chip.read \in BOOLEAN
  BY <1>1 DEF Chip
<1>3. /\ c.up \in BOOLEAN /\ c.care \in BOOLEAN /\ c.conn \in Clients \cup {NoClient}
      /\ c.qexp \in Nat
  BY DEF Daemon
<1>4. ASSUME NEW error \in BOOLEAN
      PROVE  /\ Aborted(c.chip, error) \in Chip
             /\ ~Aborted(c.chip, error).expose /\ ~Aborted(c.chip, error).read
  BY <1>1 DEF Chip, Aborted
<1>5. ASSUME NEW error \in BOOLEAN
      PROVE  /\ [c.chip EXCEPT !.error = error] \in Chip
             /\ [c.chip EXCEPT !.error = error].expose = c.chip.expose
             /\ [c.chip EXCEPT !.error = error].read = c.chip.read
             /\ [c.chip EXCEPT !.read = FALSE, !.error = error] \in Chip
             /\ [c.chip EXCEPT !.read = FALSE, !.error = error].expose = c.chip.expose
  BY <1>1 DEF Chip
<1> QED
  BY <1>2, <1>3, <1>4, <1>5

LEMMA StopMaskLeaves ==
  ASSUME NEW c \in Daemon, NEW chip \in Chip, NEW starts \in BOOLEAN, Cleared(c), BopMeant(c)
  PROVE  Leaves(c, MaskState(StopExposure(c), chip, starts))
<1> DEFINE s == StopExposure(c)
           u == MaskState(s, chip, starts)
<1>1. Like(c, s) /\ s.qexp = 0
  BY StopExposureLike
<1> HIDE DEF s
<1>2. Keeps(c, s) /\ Cleared(s) /\ BopMeant(s)
  BY <1>1, LikeKeeps
<1>3. Leaves(s, u)
  BY <1>1, <1>2, MaskStateLeaves DEF Like
<1> HIDE DEF u
<1>4. Leaves(c, u)
  BY <1>2, <1>3, KeepsOn DEF Leaves
<1> QED
  BY <1>4 DEF u, s

LEMMA EndExposureLeaves ==
  ASSUME NEW c \in Daemon, NEW starts \in BOOLEAN, Cleared(c), BopMeant(c)
  PROVE  Leaves(c, EndExposure(c, starts))
<1> DEFINE e == [expose |-> FALSE, read |-> TRUE, tel |-> FALSE, error |-> FALSE]
<1>1. e \in Chip /\ e.read
  BY DEF Chip
<1>2. EndExposure(c, starts) = IF c.conn = NoClient
                               THEN MaskState(StopExposure(c), Aborted(c.chip, FALSE), starts)
                               ELSE MaskState(c, e, starts)
  BY DEF EndExposure
<1> HIDE DEF e
<1>3. Aborted(c.chip, FALSE) \in Chip
  BY ChipTyped
<1>4. Leaves(c, MaskState(StopExposure(c), Aborted(c.chip, FALSE), starts))
  BY <1>3, StopMaskLeaves
<1>5. Leaves(c, MaskState(c, e, starts))
  BY <1>1, MaskStateLeaves
<1> QED
  BY <1>2, <1>4, <1>5

\* The queue is emptied last, whatever the change of state counted or started.
LEMMA FailExposureLeaves ==
  ASSUME NEW c \in Daemon, NEW starts \in BOOLEAN, Cleared(c), BopMeant(c)
  PROVE  Leaves(c, FailExposure(c, starts))
<1> DEFINE m == MaskState(c, Aborted(c.chip, TRUE), starts)
<1>1. Beside(c, m) /\ Cleared(m) /\ BopMeant(m)
  BY ChipTyped, MaskStateBeside
<1>2. FailExposure(c, starts) = StopExposure(m)
  BY DEF FailExposure
<1> HIDE DEF m
<1>3. Keeps(c, m) /\ m \in Daemon
  BY <1>1, BesideKeeps DEF Beside
<1>4. Keeps(m, StopExposure(m)) /\ StopExposure(m).qexp = 0
  BY <1>1, <1>3, StopExposureLike, LikeKeeps
<1>5. Looked(StopExposure(m))
  BY <1>4 DEF Looked, Minded
<1> QED
  BY <1>2, <1>3, <1>4, <1>5, KeepsOn DEF Leaves

\* The next exposure starts, or waits for what will look at it, before the readout is over.
LEMMA CheckReadoutsLeaves ==
  ASSUME NEW c \in Daemon, NEW error \in BOOLEAN, NEW starts \in BOOLEAN, Cleared(c), BopMeant(c),
         c.up, c.chip.read
  PROVE  Leaves(c, CheckReadouts(c, error, starts))
<1> DEFINE x == CamExpose(c, c.conn, c.chip.expose, TRUE, c.care, starts)
           e == EndReadout(c, starts)
           h == [e.chip EXCEPT !.read = FALSE, !.error = error]
           u == MaskState(e, h, starts)
<1>1. CheckReadouts(c, error, starts) = u
  BY DEF CheckReadouts
<1>2. e = IF c.qexp > 0 /\ c.conn # NoClient THEN x ELSE c
  BY DEF EndReadout
<1>3. /\ Keeps(c, x) /\ (c.conn # NoClient /\ c.up => x.up)
      /\ x.up => x.chip.expose \/ Minded(x)
  BY ChipTyped, CamExposeKeeps
<1>4. Keeps(c, c)
  BY BesideSelf, BesideKeeps
<1>5. ~(c.qexp > 0 /\ c.conn # NoClient) => Minded(c)
  BY DEF Minded
<1> HIDE DEF x, e
<1>6. Keeps(c, e) /\ e.up /\ (e.chip.expose \/ Minded(e))
  BY <1>2, <1>3, <1>4, <1>5
<1>7. h \in Chip /\ h.expose = e.chip.expose
  BY <1>6, ChipTyped DEF Keeps
<1> HIDE DEF h
<1>8. Leaves(e, u)
  BY <1>6, <1>7, MaskStateLeaves DEF Keeps
<1> HIDE DEF u
<1> QED
  BY <1>1, <1>6, <1>8, KeepsOn DEF Leaves

\* killAll empties the queue of changes, which the idle chip has emptied before.
LEMMA KillAllLeaves ==
  ASSUME NEW c \in Daemon, NEW starts \in BOOLEAN, Cleared(c), BopMeant(c)
  PROVE  Leaves(c, KillAll(c, starts)) /\ (c.up => KillAll(c, starts).up)
<1> DEFINE w == c.moving \ {"filter"}
           v == [c EXCEPT !.notBop = FALSE, !.emptyQue = FALSE, !.moving = w]
           k == StopExposure(v)
           a == Aborted(k.chip, TRUE)
           m == MaskState(k, a, starts)
           u == [m EXCEPT !.que = <<>>]
<1>1. KillAll(c, starts) = u
  BY DEF KillAll
<1>2. w \in SUBSET {"filter", "focuser"}
  BY DEF Daemon
<1> HIDE DEF w
<1>3. Like(c, v)
  BY <1>2 DEF Like, Daemon
<1> HIDE DEF v
<1>4. Keeps(c, v) /\ Cleared(v) /\ BopMeant(v)
  BY <1>3, LikeKeeps
<1>5. Like(v, k) /\ k.qexp = 0
  BY <1>3, StopExposureLike DEF Like
<1> HIDE DEF k
<1>6. Keeps(v, k) /\ Cleared(k) /\ BopMeant(k)
  BY <1>4, <1>5, LikeKeeps
<1>7. a \in Chip /\ ~a.expose /\ ~a.read
  BY <1>5, ChipTyped DEF Like
<1> HIDE DEF a
<1>8. Leaves(k, m) /\ m.chip = a /\ Cleared(m) /\ m \in Daemon /\ (k.up => m.up)
  BY <1>5, <1>6, <1>7, MaskStateLeaves DEF Like, Beside
<1> HIDE DEF m
<1>9. m.que = <<>>
  BY <1>7, <1>8 DEF Cleared, Idle
<1>10. u = m
  BY <1>8, <1>9 DEF Daemon
<1> HIDE DEF u
<1>11. Keeps(c, m)
  BY <1>4, <1>6, <1>8, KeepsOn DEF Leaves
<1>12. c.up => m.up
  BY <1>3, <1>5, <1>8 DEF Like
<1> QED
  BY <1>1, <1>8, <1>10, <1>11, <1>12 DEF Leaves

LEMMA ScriptEndsLeaves ==
  ASSUME NEW c \in Daemon, NEW starts \in BOOLEAN, Cleared(c), BopMeant(c)
  PROVE  Leaves(c, ScriptEnds(c, starts)) /\ (c.up => ScriptEnds(c, starts).up)
<1> DEFINE h == [c.chip EXCEPT !.error = FALSE]
           s == StopExposure(c)
<1>1. h \in Chip
  BY ChipTyped
<1>2. ScriptEnds(c, starts) = MaskState(s, h, starts)
  BY DEF ScriptEnds
<1> HIDE DEF h
<1>3. Leaves(c, MaskState(s, h, starts))
  BY <1>1, StopMaskLeaves
<1>4. Like(c, s) /\ s.qexp = 0
  BY StopExposureLike
<1> HIDE DEF s
<1>5. Cleared(s) /\ BopMeant(s)
  BY <1>4, LikeKeeps
<1>6. c.up => MaskState(s, h, starts).up
  BY <1>1, <1>4, <1>5, MaskStateLeaves DEF Beside, Like
<1> QED
  BY <1>2, <1>3, <1>6

\* The end of the optics looks at the queue; c is the daemon after the move.
LEMMA CheckQueuedLeaves ==
  ASSUME NEW c \in Daemon, NEW starts \in BOOLEAN, Cleared(c), BopMeant(c), c.up
  PROVE  Leaves(c, CheckQueuedExposures(c, starts))
<1> DEFINE n == c.qexp - 1
           q == [c EXCEPT !.qexp = n]
           busy == q.chip.expose \/ q.chip.read
           x == CamExpose(q, q.conn, busy, FALSE, q.care, starts)
           u == CheckQueuedExposures(c, starts)
<1>1. q.conn = c.conn /\ q.care = c.care /\ q.chip = c.chip
  BY DEF Daemon
<1>2. u = IF c.qexp = 0 THEN c ELSE x
  BY <1>1 DEF CheckQueuedExposures
<1> HIDE DEF u
<1>3. CASE c.qexp = 0
  BY <1>2, <1>3, BesideSelf, BesideKeeps DEF Leaves, Looked, Minded, u
<1>4. CASE c.qexp # 0
  <2>1. n \in Nat
    <3>1. c.qexp \in Nat
      BY DEF Daemon
    <3> QED
      BY <1>4, <3>1
  <2> HIDE DEF n
  <2>2. Like(c, q)
    BY <2>1 DEF Like, Daemon
  <2> HIDE DEF q
  <2>3. Keeps(c, q) /\ Cleared(q) /\ BopMeant(q) /\ q \in Daemon
    BY <2>2, LikeKeeps DEF Like
  <2>4. Keeps(q, x) /\ (x.up => x.chip.expose \/ Minded(x) \/ ~Idle(x))
    <3>1. q.conn \in Clients \cup {NoClient} /\ q.care \in BOOLEAN
      BY <2>3, ChipTyped
    <3> QED
      BY <2>3, <3>1, CamExposeKeeps
  <2> HIDE DEF x
  <2>5. Leaves(c, x)
    BY <2>3, <2>4, KeepsOn DEF Leaves, Looked, Idle
  <2> QED
    BY <1>2, <1>4, <2>5 DEF u
<1> QED
  BY <1>3, <1>4

LEMMA RestLeaves ==
  ASSUME NEW c, NEW u, Leaves(c, u)
  PROVE  Leaves(c, Rest(u))
<1> DEFINE t == IF u.chip.expose THEN u.took ELSE 0
           f == u.failed /\ u.qexp > 0
           v == [u EXCEPT !.took = t, !.failed = f]
<1>1. Rest(u) = v
  BY DEF Rest
<1>2. t \in {0, 1} /\ f \in BOOLEAN /\ (f <=> u.failed /\ u.qexp > 0) /\ u \in Daemon
  BY DEF Leaves, Keeps, Daemon
<1> HIDE DEF t, f
<1>3. v \in Daemon
  BY <1>2 DEF Daemon
<1>4. v.chip = u.chip /\ v.que = u.que /\ v.exposure = u.exposure /\ v.bop = u.bop
      /\ v.masterBop = u.masterBop /\ v.up = u.up
  BY <1>2 DEF Daemon
<1>5. /\ Like(u, v) /\ v.failed = f /\ v.qexp = u.qexp /\ v.conn = u.conn /\ v.exit = u.exit
      /\ v.notBop = u.notBop /\ v.moving = u.moving /\ v.asked = u.asked
  BY <1>2, <1>3, <1>4 DEF Like, Daemon
<1> HIDE DEF v
<1>6. u.up => Keeps(u, v) /\ Looked(v)
  BY <1>2, <1>5, LikeKeeps DEF Leaves, Keeps, Looked, Minded, Idle, Like
<1>7. ~u.up => ~v.up /\ v \in Daemon
  BY <1>5 DEF Like
<1>8. CASE u.up
  BY <1>1, <1>6, <1>8, KeepsOn DEF Leaves
<1>9. CASE ~u.up
  BY <1>1, <1>7, <1>9 DEF Leaves, Keeps
<1> QED
  BY <1>8, <1>9

-----------------------------------------------------------------------------
(* The steps.                                                              *)

\* The second invariant: the types, the order of the value changes, and what waits.
Orderly ==
  /\ TypeOK
  /\ cam.up => /\ Cleared(cam) /\ BopMeant(cam) /\ Looked(cam)
               /\ Due(cam) \in want

LEMMA InitOrderly ==
  Init => Orderly
<1>1. Fresh \in Daemon /\ Fresh.que = <<>> /\ Fresh.bop = FALSE /\ Fresh.qexp = 0 /\ Fresh.exposure = 0
  BY DEF Fresh, Daemon, Chip, IdleChip
<1>2. Due(Fresh) = 0
  BY <1>1, TimesEmpty DEF Due
<1> QED
  <2> SUFFICES ASSUME Init
               PROVE  Orderly
    OBVIOUS
  <2>1. cam = Fresh /\ said = FALSE /\ want = {0}
    BY DEF Init
  <2>2. TypeOK /\ Due(cam) \in want
    BY <1>1, <1>2, <2>1 DEF TypeOK
  <2>3. Cleared(cam) /\ BopMeant(cam) /\ Looked(cam)
    BY <1>1, <2>1 DEF Cleared, BopMeant, Looked, Minded
  <2> QED
    BY <2>2, <2>3 DEF Orderly

LEMMA OrderlyMeans ==
  ASSUME Orderly
  PROVE  /\ cam \in Daemon /\ said \in BOOLEAN /\ want \in SUBSET {0, 1}
         /\ cam.up => Cleared(cam) /\ BopMeant(cam) /\ Looked(cam) /\ Due(cam) \in want
BY DEF Orderly, TypeOK

\* A step that hands c, in which the same changes are queued, to a handler.
LEMMA LeavesOrderly ==
  ASSUME Orderly, cam.up, NEW c, Due(c) = Due(cam), NEW u, Leaves(c, u), cam' = u \/ cam' = Rest(u),
         said' \in BOOLEAN, want' = want \/ want' = {0, 1}
  PROVE  Orderly'
<1>1. Leaves(c, cam')
  BY RestLeaves
<1>2. cam' \in Daemon /\ (cam'.up => Due(cam') = Due(cam))
  BY <1>1 DEF Leaves, Keeps
<1>3. cam'.up => Due(cam') \in {0, 1}
  <2>1. cam'.exposure \in {0, 1} /\ cam'.que \in Seq(Changes)
    BY <1>2 DEF Daemon
  <2> QED
    BY <2>1, TimesTyped DEF Due
<1>4. want' \in SUBSET {0, 1} /\ (cam'.up => Due(cam') \in want')
  BY <1>2, <1>3, OrderlyMeans
<1> QED
  BY <1>1, <1>4 DEF Orderly, TypeOK, Leaves, Keeps, Looked, Minded, Idle, Cleared, BopMeant, Due

\* The daemon as it is, handed to a handler.
LEMMA HandlerOrderly ==
  ASSUME Orderly, cam.up, NEW u, Leaves(cam, u), Becomes(u)
  PROVE  Orderly'
BY LeavesOrderly, OrderlyMeans DEF Becomes

LEMMA GoneLeaves ==
  ASSUME NEW c
  PROVE  Leaves(c, Gone)
BY GoneTyped DEF Leaves, Keeps

LEMMA ExposeOrderly ==
  ASSUME Orderly, NEW client \in Clients, NEW care \in BOOLEAN, Expose(client, care)
  PROVE  Orderly'
<1>1. PICK starts \in Starts :
        LET busy == cam.chip.expose \/ cam.chip.read
            c == CamExpose([cam EXCEPT !.care = care], client, busy, FALSE, care, starts)
            waits == cam.exit = "no" /\ cam.que # <<>>
        IN Becomes([c EXCEPT !.owed = IF waits THEN @ \cup {client} ELSE @ \ {client}])
  BY DEF Expose
<1> DEFINE v == [cam EXCEPT !.care = care]
           busy == cam.chip.expose \/ cam.chip.read
           c == CamExpose(v, client, busy, FALSE, care, starts)
           w == IF cam.exit = "no" /\ cam.que # <<>> THEN c.owed \cup {client} ELSE c.owed \ {client}
           u == [c EXCEPT !.owed = w]
<1>2. Becomes(u)
  BY <1>1
<1>3. cam.up /\ starts \in BOOLEAN
  BY DEF Expose, Starts
<1>4. Like(cam, v)
  BY OrderlyMeans DEF Like, Daemon
<1> HIDE DEF v
<1>5. c = CamExpose(v, client, v.chip.expose \/ v.chip.read, FALSE, care, starts)
  BY <1>4 DEF Like
<1> HIDE DEF c
<1>6. Keeps(cam, v) /\ Cleared(v) /\ BopMeant(v) /\ v \in Daemon
  BY <1>3, <1>4, OrderlyMeans, LikeKeeps DEF Like
<1>7. client # NoClient
  BY ClientsAssumption
<1>8. /\ Keeps(v, c) /\ (v.up => c.up)
      /\ c.up => c.chip.expose \/ Minded(c) \/ ~Idle(c)
  <2> DEFINE works == v.chip.expose \/ v.chip.read
             x == CamExpose(v, client, works, FALSE, care, starts)
  <2>1. client \in Clients \cup {NoClient} /\ starts \in BOOLEAN /\ FALSE \in BOOLEAN
    BY <1>3
  <2>2. v \in Daemon /\ Cleared(v) /\ BopMeant(v)
    BY <1>6
  <2>3. /\ Keeps(v, x) /\ (client # NoClient /\ v.up => x.up)
        /\ x.up => x.chip.expose \/ Minded(x) \/ ~Idle(x)
    BY <2>1, <2>2, CamExposeKeeps
  <2> QED
    BY <1>5, <1>7, <2>3
<1>9. w \in SUBSET Clients /\ c \in Daemon /\ c.up
  BY <1>3, <1>4, <1>8 DEF Keeps, Daemon, Like
<1> HIDE DEF w
<1>10. /\ Like(c, u) /\ u.exit = c.exit /\ u.conn = c.conn /\ u.qexp = c.qexp /\ u.failed = c.failed
       /\ u.notBop = c.notBop /\ u.moving = c.moving /\ u.asked = c.asked
  BY <1>9 DEF Like, Daemon
<1> HIDE DEF u
<1>11. Keeps(c, u)
  BY <1>8, <1>9, <1>10, LikeKeeps DEF Keeps
<1>12. Looked(u)
  BY <1>8, <1>9, <1>10 DEF Looked, Minded, Idle, Like
<1>13. Leaves(cam, u)
  BY <1>6, <1>8, <1>11, <1>12, KeepsOn DEF Leaves
<1> QED
  BY <1>2, <1>3, <1>13, HandlerOrderly

\* A change is queued behind the others, or there are none and it is applied at once.
LEMMA SetOrderly ==
  ASSUME Orderly, NEW client \in Clients, NEW change \in Changes, Set(client, change)
  PROVE  Orderly'
<1> DEFINE q == Append(cam.que, change)
           a == [cam EXCEPT !.que = q]
           x == SetTimes(cam.exposure, <<change>>)
           m == IF \E i \in DOMAIN <<change>> : <<change>>[i].value = "filter"
                THEN {"filter", "focuser"} ELSE cam.moving
           d == [cam EXCEPT !.exposure = x, !.moving = m]
<1>1. /\ cam \in Daemon /\ cam.up /\ said' = said /\ said \in BOOLEAN /\ want \in SUBSET {0, 1}
      /\ Cleared(cam) /\ BopMeant(cam) /\ Looked(cam) /\ Due(cam) \in want
  BY OrderlyMeans DEF Set
<1>2. /\ cam.que \in Seq(Changes) /\ cam.exposure \in {0, 1}
      /\ cam.moving \in SUBSET {"filter", "focuser"}
  BY <1>1 DEF Daemon
<1>3. x = SetTime(cam.exposure, change) /\ x \in {0, 1}
  <2>1. <<change>> = Append(<<>>, change) /\ <<>> \in Seq(Changes) /\ <<change>> \in Seq(Changes)
    OBVIOUS
  <2>2. SetTimes(cam.exposure, Append(<<>>, change)) = SetTime(SetTimes(cam.exposure, <<>>), change)
    BY <2>1, TimesAppend
  <2> QED
    BY <1>2, <2>1, <2>2, TimesEmpty, TimesTyped
<1>4. SetTimes(cam.exposure, q) = SetTime(Due(cam), change) /\ q \in Seq(Changes) /\ q # <<>>
  BY <1>2, TimesAppend DEF Due
<1>5. change.value \in {"filter", "mode", "exposure"} /\ change.to \in {0, 1}
  BY ChangeFields
<1>6. Due(cam) \in {0, 1}
  BY <1>1
<1>7. want' \in SUBSET {0, 1} /\ SetTime(Due(cam), change) \in want'
  <2>1. want' = CASE change.value = "exposure" -> {change.to}
                  [] change.value = "mode" -> {0, 1}
                  [] change.value = "filter" -> want
    BY DEF Set
  <2> QED
    BY <1>1, <1>5, <2>1 DEF SetTime
<1>8. m \in SUBSET {"filter", "focuser"} /\ (cam.moving # {} => m # {}) /\ (change.value = "filter" => m # {})
  BY <1>2
<1>9. \/ cam' = a /\ Blocked(change, cam.chip)
      \/ cam' = cam /\ Unchanged(cam, change) /\ (cam.que = <<>> \/ ~Blocked(change, cam.chip))
      \/ cam' = d /\ ~Blocked(change, cam.chip)
  BY DEF Set, SetCondValue, DoSetValues
<1> HIDE DEF q, x, m
<1>10. ASSUME cam' \in Daemon, Cleared(cam'), BopMeant(cam'), Looked(cam'), Due(cam') = SetTime(Due(cam), change)
       PROVE  Orderly'
  BY <1>1, <1>7, <1>10 DEF Orderly, TypeOK, Cleared, BopMeant, Looked, Minded, Idle, Due
<1>11. CASE cam' = a /\ Blocked(change, cam.chip)
  <2>1. /\ a \in Daemon /\ a.que = q /\ a.exposure = cam.exposure /\ a.chip = cam.chip
        /\ a.qexp = cam.qexp /\ a.conn = cam.conn /\ a.exit = cam.exit /\ a.failed = cam.failed
        /\ a.notBop = cam.notBop /\ a.moving = cam.moving /\ a.asked = cam.asked
    BY <1>1, <1>4 DEF Daemon
  <2> HIDE DEF a
  <2>2. ~Idle(a)
    BY <1>11, <2>1 DEF Idle, Blocked
  <2>3. Due(a) = SetTime(Due(cam), change)
    BY <1>4, <2>1 DEF Due
  <2>4. Cleared(a) /\ BopMeant(a) /\ Looked(a)
    BY <1>4, <2>1, <2>2 DEF Cleared, BopMeant, Looked
  <2> QED
    BY <1>10, <1>11, <2>1, <2>3, <2>4
<1>12. CASE cam' = cam /\ Unchanged(cam, change) /\ (cam.que = <<>> \/ ~Blocked(change, cam.chip))
  <2>1. change.value = "exposure" /\ cam.exposure = change.to
    BY <1>12 DEF Unchanged
  <2>2. cam.que = <<>>
    BY <1>1, <1>12, <2>1 DEF Blocked, Cleared, Idle
  <2>3. Due(cam) = change.to
    BY <2>1, <2>2, TimesEmpty DEF Due
  <2>4. SetTime(Due(cam), change) = Due(cam)
    BY <2>1, <2>3 DEF SetTime
  <2>5. want' \in SUBSET {0, 1} /\ Due(cam) \in want'
    BY <1>7, <2>4
  <2> QED
    BY <1>1, <1>12, <2>5 DEF Orderly, TypeOK, Cleared, BopMeant, Looked, Minded, Idle, Due
<1>13. CASE cam' = d /\ ~Blocked(change, cam.chip)
  <2>1. /\ d \in Daemon /\ d.que = cam.que /\ d.exposure = x /\ d.chip = cam.chip
        /\ d.qexp = cam.qexp /\ d.conn = cam.conn /\ d.exit = cam.exit /\ d.failed = cam.failed
        /\ d.notBop = cam.notBop /\ d.moving = m /\ d.asked = cam.asked
        /\ d.bop = cam.bop /\ d.masterBop = cam.masterBop
    BY <1>1, <1>3, <1>8 DEF Daemon
  <2> HIDE DEF d
  <2>2. Cleared(d) /\ BopMeant(d) /\ Looked(d)
    BY <1>1, <1>8, <2>1 DEF Cleared, Idle, BopMeant, Looked, Minded
  <2>3. CASE change.value = "filter"
    <3>1. x = cam.exposure
      BY <1>3, <2>3 DEF SetTime
    <3>2. Due(d) = SetTime(Due(cam), change)
      BY <2>1, <2>3, <3>1 DEF Due, SetTime
    <3> QED
      BY <1>10, <1>13, <2>1, <2>2, <3>2
  <2>4. CASE change.value # "filter"
    <3>1. cam.que = <<>>
      BY <1>1, <1>13, <2>4 DEF Blocked, Cleared, Idle
    <3>2. Due(d) = SetTime(Due(cam), change)
      BY <1>3, <2>1, <3>1, TimesEmpty DEF Due
    <3> QED
      BY <1>10, <1>13, <2>1, <2>2, <3>2
  <2> QED
    BY <2>3, <2>4
<1> QED
  BY <1>9, <1>11, <1>12, <1>13

LEMMA KillOrderly ==
  ASSUME Orderly, NEW client \in Clients, NEW callScriptEnds \in BOOLEAN, Kill(client, callScriptEnds)
  PROVE  Orderly'
<1>1. PICK starts \in Starts :
        LET k == KillAll(cam, starts)
        IN cam' = Rest(IF callScriptEnds
                       THEN MaskState(ScriptEnds(k, starts), [k.chip EXCEPT !.error = TRUE], starts)
                       ELSE k)
  BY DEF Kill
<1> DEFINE k == KillAll(cam, starts)
           s == ScriptEnds(k, starts)
           h == [k.chip EXCEPT !.error = TRUE]
           m == MaskState(s, h, starts)
           u == IF callScriptEnds THEN m ELSE k
<1>2. cam' = Rest(u) /\ cam.up /\ starts \in BOOLEAN
  BY <1>1 DEF Kill, Starts
<1>3. said' \in BOOLEAN /\ (want' = want \/ want' = {0, 1})
  BY OrderlyMeans DEF Kill, Dropped
<1>4. Leaves(cam, k) /\ k.up
  BY <1>2, OrderlyMeans, KillAllLeaves
<1> HIDE DEF k
<1>5. Leaves(k, s) /\ s.up
  BY <1>2, <1>4, ScriptEndsLeaves DEF Leaves, Keeps
<1>6. h \in Chip /\ h.expose = k.chip.expose /\ h.read = k.chip.read
  BY <1>4, ChipTyped DEF Leaves, Keeps
<1>7. s.qexp = 0 \/ Minded(s) \/ h.expose \/ h.read
  <2> DEFINE g == [k.chip EXCEPT !.error = FALSE]
             e == StopExposure(k)
  <2>1. g \in Chip /\ g.expose = k.chip.expose /\ g.read = k.chip.read
    BY <1>4, ChipTyped DEF Leaves, Keeps
  <2>2. s = MaskState(e, g, starts)
    BY DEF ScriptEnds
  <2>3. Like(k, e) /\ e.qexp = 0
    BY <1>4, StopExposureLike DEF Leaves, Keeps
  <2>4. Cleared(e) /\ BopMeant(e) /\ e \in Daemon
    BY <1>4, <2>3, LikeKeeps DEF Leaves, Keeps, Like
  <2> HIDE DEF g, e
  <2>5. s.chip = g
    BY <1>2, <2>1, <2>2, <2>3, <2>4, MaskStateLeaves
  <2> HIDE DEF s, h
  <2> QED
    BY <1>5, <1>6, <2>1, <2>5 DEF Leaves, Looked, Idle
<1> HIDE DEF s, h
<1>8. Leaves(s, m)
  BY <1>2, <1>5, <1>6, <1>7, MaskStateLeaves DEF Leaves, Keeps
<1> HIDE DEF m
<1>9. Leaves(cam, u)
  BY <1>4, <1>5, <1>8, KeepsOn DEF Leaves
<1> HIDE DEF u
<1> QED
  BY <1>2, <1>3, <1>9, LeavesOrderly

\* The handlers a client or the hardware sets off on the daemon as it is.
LEMMA PlainOrderly ==
  ASSUME Orderly,
         \/ \E client \in Clients : StopExpo(client) \/ EndScript(client)
         \/ ExposureEnds \/ ExposureFails \/ ReadoutEnds \/ ReadoutFails
  PROVE  Orderly'
<1>1. /\ cam.up /\ cam \in Daemon /\ Cleared(cam) /\ BopMeant(cam)
      /\ \A starts \in Starts : starts \in BOOLEAN
  BY OrderlyMeans DEF StopExpo, EndScript, ExposureEnds, ExposureFails, ReadoutEnds, ReadoutFails, Starts
<1>2. ASSUME NEW client \in Clients, StopExpo(client)
      PROVE  Orderly'
  <2>1. PICK starts \in Starts : Becomes(MaskState(StopExposure(cam), Aborted(cam.chip, TRUE), starts))
    BY <1>2 DEF StopExpo
  <2>2. Aborted(cam.chip, TRUE) \in Chip
    BY <1>1, ChipTyped
  <2>3. Leaves(cam, MaskState(StopExposure(cam), Aborted(cam.chip, TRUE), starts))
    BY <1>1, <2>2, StopMaskLeaves
  <2> QED
    BY <1>1, <2>1, <2>3, HandlerOrderly
<1>3. ASSUME NEW client \in Clients, EndScript(client)
      PROVE  Orderly'
  <2>1. PICK starts \in Starts : Becomes(ScriptEnds(cam, starts))
    BY <1>3 DEF EndScript
  <2> QED
    BY <1>1, <2>1, ScriptEndsLeaves, HandlerOrderly
<1>4. ASSUME ExposureEnds
      PROVE  Orderly'
  <2>1. PICK starts \in Starts : Becomes(EndExposure(cam, starts))
    BY <1>4 DEF ExposureEnds
  <2> QED
    BY <1>1, <2>1, EndExposureLeaves, HandlerOrderly
<1>5. ASSUME ExposureFails
      PROVE  Orderly'
  <2>1. PICK starts \in Starts : Becomes(FailExposure(cam, starts))
    BY <1>5 DEF ExposureFails
  <2> QED
    BY <1>1, <2>1, FailExposureLeaves, HandlerOrderly
<1>6. ASSUME ReadoutEnds \/ ReadoutFails
      PROVE  Orderly'
  <2>1. PICK starts \in Starts, error \in BOOLEAN : Becomes(CheckReadouts(cam, error, starts))
    BY <1>6 DEF ReadoutEnds, ReadoutFails
  <2>2. cam.chip.read
    BY <1>6 DEF ReadoutEnds, ReadoutFails
  <2> QED
    BY <1>1, <2>1, <2>2, CheckReadoutsLeaves, HandlerOrderly
<1> QED
  BY <1>2, <1>3, <1>4, <1>5, <1>6

\* Without its client nothing that waits is anybody's.
LEMMA LeaveOrderly ==
  ASSUME Orderly, NEW client \in Clients, Leave(client)
  PROVE  Orderly'
<1> DEFINE k == IF cam.conn = client THEN NoClient ELSE cam.conn
           w == cam.owed \ {client}
           v == [cam EXCEPT !.conn = k, !.owed = w]
<1>1. Becomes(v) /\ cam.up
  BY DEF Leave
<1>2. /\ cam \in Daemon /\ Cleared(cam) /\ BopMeant(cam) /\ Looked(cam)
  BY <1>1, OrderlyMeans
<1>3. k \in Clients \cup {NoClient} /\ w \in SUBSET Clients /\ (k # NoClient => k = cam.conn)
  BY <1>2 DEF Daemon
<1> HIDE DEF k, w
<1>4. /\ Like(cam, v) /\ v.conn = k /\ v.exit = cam.exit /\ v.qexp = cam.qexp /\ v.failed = cam.failed
      /\ v.notBop = cam.notBop /\ v.moving = cam.moving /\ v.asked = cam.asked
  BY <1>2, <1>3 DEF Like, Daemon
<1> HIDE DEF v
<1>5. Leaves(cam, v)
  BY <1>2, <1>3, <1>4, LikeKeeps DEF Leaves, Looked, Minded, Idle, Like
<1> QED
  BY <1>1, <1>5, HandlerOrderly

LEMMA OpticsOrderly ==
  ASSUME Orderly, FilterMoveEnds \/ FocuserMoveEnds
  PROVE  Orderly'
<1>1. PICK starts \in Starts, part \in {"filter", "focuser"} :
        Becomes(CheckQueuedExposures([cam EXCEPT !.moving = @ \ {part}], starts))
  BY DEF FilterMoveEnds, FocuserMoveEnds
<1> DEFINE w == cam.moving \ {part}
           v == [cam EXCEPT !.moving = w]
           u == CheckQueuedExposures(v, starts)
<1>2. Becomes(u) /\ cam.up /\ starts \in BOOLEAN
  BY <1>1 DEF FilterMoveEnds, FocuserMoveEnds, Starts
<1>3. cam \in Daemon /\ Cleared(cam) /\ BopMeant(cam)
  BY <1>2, OrderlyMeans
<1>4. w \in SUBSET {"filter", "focuser"}
  BY <1>3 DEF Daemon
<1> HIDE DEF w
<1>5. Like(cam, v)
  BY <1>3, <1>4 DEF Like, Daemon
<1> HIDE DEF v
<1>6. Keeps(cam, v) /\ Cleared(v) /\ BopMeant(v) /\ v \in Daemon /\ v.up
  BY <1>2, <1>3, <1>5, LikeKeeps DEF Like
<1>7. Leaves(v, u)
  BY <1>2, <1>6, CheckQueuedLeaves
<1> HIDE DEF u
<1>8. Leaves(cam, u)
  BY <1>6, <1>7, KeepsOn DEF Leaves
<1> QED
  BY <1>2, <1>8, HandlerOrderly

\* The answer of centrald: what waited for it starts, or is blocked by what it says.
LEMMA BopStatusOrderly ==
  ASSUME Orderly, NEW bop \in BOOLEAN, BopStatus(bop)
  PROVE  Orderly'
<1>1. PICK starts \in Starts :
        cam' = Rest(SetFullBopState([cam EXCEPT !.masterBop = bop, !.asked = FALSE], starts))
  BY DEF BopStatus
<1> DEFINE v == [cam EXCEPT !.masterBop = bop, !.asked = FALSE]
           u == SetFullBopState(v, starts)
<1>2. cam' = Rest(u) /\ said' = bop /\ want' = want /\ cam.up /\ starts \in BOOLEAN
  BY <1>1 DEF BopStatus, Starts
<1>3. /\ cam \in Daemon /\ Cleared(cam) /\ BopMeant(cam) /\ Looked(cam)
  BY <1>2, OrderlyMeans
<1>4. /\ v \in Daemon /\ v.que = cam.que /\ v.exposure = cam.exposure /\ v.chip = cam.chip /\ v.up = cam.up
      /\ v.exit = cam.exit /\ v.conn = cam.conn /\ v.qexp = cam.qexp /\ v.failed = cam.failed
      /\ v.notBop = cam.notBop
  BY <1>3 DEF Daemon
<1> HIDE DEF v
<1>5. Due(v) = Due(cam) /\ Cleared(v)
  BY <1>3, <1>4 DEF Due, Cleared, Idle
<1>6. Idle(v) /\ v.exit = "no" /\ v.conn # NoClient /\ v.qexp > 0 /\ ~v.failed => v.notBop
  BY <1>3, <1>4 DEF Looked, Minded, Idle
<1>7. Leaves(v, u)
  BY <1>2, <1>4, <1>5, <1>6, SetFullBopStateBeside, BesideKeeps DEF Leaves
<1> HIDE DEF u
<1> QED
  BY <1>2, <1>5, <1>7, LeavesOrderly

LEMMA ExitOrderly ==
  ASSUME Orderly, ExitSignal \/ PrepareExit \/ Exit
  PROVE  Orderly'
<1>1. cam.up /\ cam \in Daemon /\ Cleared(cam) /\ BopMeant(cam) /\ said \in BOOLEAN
  BY OrderlyMeans DEF ExitSignal, PrepareExit, Exit
<1>2. ASSUME ExitSignal
      PROVE  Orderly'
  <2> DEFINE v == [cam EXCEPT !.exit = "pending"]
  <2>1. Becomes(v) \/ Becomes(Gone)
    BY <1>2 DEF ExitSignal
  <2>2. Like(cam, v) /\ v.exit = "pending"
    BY <1>1 DEF Like, Daemon
  <2> HIDE DEF v
  <2>3. Leaves(cam, v)
    BY <1>1, <2>2, LikeKeeps DEF Leaves, Looked, Minded
  <2> QED
    BY <1>1, <2>1, <2>3, GoneLeaves, HandlerOrderly
<1>3. ASSUME PrepareExit
      PROVE  Orderly'
  <2>1. PICK starts \in Starts :
          LET q == [cam EXCEPT !.exit = "waiting", !.qexp = 0]
              k == IF q.chip.expose THEN KillAll(q, starts) ELSE q
          IN /\ cam' = IF k.chip.read THEN Rest(k) ELSE Gone
             /\ want' = IF q.chip.expose THEN Dropped ELSE want
    BY <1>3 DEF PrepareExit
  <2> DEFINE q == [cam EXCEPT !.exit = "waiting", !.qexp = 0]
             a == KillAll(q, starts)
             k == IF q.chip.expose THEN a ELSE q
  <2>2. cam' = Rest(k) \/ cam' = Gone
    BY <2>1
  <2>3. said' \in BOOLEAN /\ (want' = want \/ want' = {0, 1}) /\ starts \in BOOLEAN
    BY <1>1, <1>3, <2>1 DEF PrepareExit, Dropped, Starts
  <2>4. Like(cam, q) /\ q.qexp = 0
    BY <1>1 DEF Like, Daemon
  <2> HIDE DEF q
  <2>5. Keeps(cam, q) /\ Cleared(q) /\ BopMeant(q) /\ q \in Daemon
    BY <1>1, <2>4, LikeKeeps DEF Like
  <2>6. Leaves(cam, q)
    BY <2>4, <2>5 DEF Leaves, Looked, Minded
  <2>7. Leaves(q, a)
    BY <2>3, <2>5, KillAllLeaves
  <2> HIDE DEF a
  <2>8. Leaves(cam, k)
    BY <2>5, <2>6, <2>7, KeepsOn DEF Leaves
  <2> HIDE DEF k
  <2> QED
    BY <1>1, <2>2, <2>3, <2>8, GoneLeaves, LeavesOrderly
<1>4. ASSUME Exit
      PROVE  Orderly'
  BY <1>1, <1>4, GoneLeaves, HandlerOrderly DEF Exit
<1> QED
  BY <1>2, <1>3, <1>4

LEMMA NextOrderly ==
  ASSUME Orderly, [Next]_vars
  PROVE  Orderly'
<1>1. CASE UNCHANGED vars
  BY <1>1 DEF vars, Orderly, TypeOK, Cleared, BopMeant, Looked, Minded, Idle, Due
<1>2. CASE Next
  BY <1>2, ExposeOrderly, SetOrderly, KillOrderly, PlainOrderly, LeaveOrderly, OpticsOrderly,
     BopStatusOrderly, ExitOrderly DEF Next
<1> QED
  BY <1>1, <1>2

LEMMA InductiveOrder ==
  Spec => []Orderly
<1>1. Orderly /\ [Next]_vars => Orderly'
  BY NextOrderly
<1> QED
  BY InitOrderly, <1>1, PTL DEF Spec

(* The daemon's state keeps its types for any number of queued exposures  *)
(* and value changes; in particular no exposure starts inside the start   *)
(* of another, although the start masks the state, which looks at the     *)
(* queue of values and asks setFullBopState (nested).                     *)
THEOREM TypeCorrect ==
  Spec => []TypeOK
<1>1. Orderly => TypeOK
  BY DEF Orderly
<1> QED
  BY InductiveOrder, <1>1, PTL

(* Value changes are applied in the order they came, for a queue of any   *)
(* length: once nothing is queued the exposure time is what its last      *)
(* change asked for (Daemon::setCondValue, Device::checkQueChanges).      *)
THEOREM ChangesInOrder ==
  Spec => []InOrder
<1>1. Orderly => InOrder
  BY TimesEmpty DEF Orderly, Due, InOrder
<1> QED
  BY InductiveOrder, <1>1, PTL

(* An exposure that waits is never forgotten, however many wait: the      *)
(* chip, the optics, the answer of centrald or the end of a block will    *)
(* look at it again (checkQueuedExposures, endReadout, setFullBopState),  *)
(* unless the start of the one before it failed.                          *)
THEOREM ExposuresRemembered ==
  Spec => []NothingForgotten
<1>1. IInv /\ Orderly => NothingForgotten
  <2> SUFFICES ASSUME IInv, Orderly, cam.up, cam.exit = "no", cam.conn # NoClient, cam.qexp > 0,
                      Idle(cam), ~cam.failed
               PROVE  cam.moving # {} \/ cam.asked \/ said
    BY DEF NothingForgotten, Idle
  <2>1. cam.que = <<>> /\ Minded(cam)
    BY OrderlyMeans DEF Cleared, Looked
  <2> QED
    BY <2>1 DEF Minded, IInv
<1> QED
  BY Inductive, InductiveOrder, <1>1, PTL

==============================================================================
