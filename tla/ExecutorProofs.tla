--------------------------- MODULE ExecutorProofs ---------------------------
(***************************************************************************)
(* The executor's invariants, for any cameras, scripts and number of       *)
(* objects.  Between two events the process is settled: nobody is left     *)
(* waiting for a script (next), a script either waits for a move that is   *)
(* on its way or has its exposure behind everything that would kill it,    *)
(* and a target that nobody works for has no script at all.  One lemma per *)
(* operator says what it does to a process, and one per action that it     *)
(* leaves a settled process settled.  What the recursive functions compute *)
(* is proved by induction (SelectionProofs).                               *)
(***************************************************************************)
EXTENDS Executor, SelectionProofs, SequenceTheorems, TLAPS

-----------------------------------------------------------------------------
(* The invariant.                                                          *)

Pointers(p) == 0 .. Len(p.targets)

\* every pointer names an object that was created
Made(p) ==
  /\ Len(p.targets) <= MaxObjects
  /\ p.current \in Pointers(p) /\ p.tel.current \in Pointers(p)
  /\ \A e \in Range(p.queue) : e.target \in 1 .. Len(p.targets)
  /\ p.deleted \subseteq 1 .. Len(p.targets)

Alive(p) == ({p.current} \cup InQueue(p)) \cap p.deleted = {}

Moving(p) == p.tel.moves > 0 \/ p.tel.slewing

\* the telescope looks after the current target, and its move is done or on its way
Pointed(p) == p.current # NULL =>
  p.tel.current = p.current /\ (WasMoved(p, p.current) \/ Moving(p))

\* the exposure of a script is taken, or is sent after everything that would kill it
Exposes(s) ==
  \/ s.exposing /\ "killall" \notin Range(s.que)
  \/ \E i \in DOMAIN s.que : s.que[i] = "expose" /\ \A j \in DOMAIN s.que : j > i => s.que[j] # "killall"

\* between two events no target is left waiting for a script
Follows(s, current) ==
  /\ {s.current, s.kill} \subseteq {NULL, current} /\ s.next = NULL
  /\ s.todo => s.current # NULL
  /\ s.current # NULL /\ ~s.todo => Exposes(s)

Waits(p, c) == p.script[c].todo => ~WasMoved(p, p.script[c].current)

Steady(p) ==
  /\ p \in Process
  /\ Made(p) /\ Alive(p) /\ Pointed(p)
  /\ \A c \in Cameras : Follows(p.script[c], p.current)

Worked(p) == p.current = NULL \/ p.held \/ ~NoneRunning(p)

IInv == /\ Steady(exec) /\ (\A c \in Cameras : Waits(exec, c)) /\ Worked(exec)
        /\ sky \in SUBSET Targets /\ inputs \in 0 .. MaxInputs

\* With auto_loop on, an observation that is closed, or is the current target's, does not
\* become an open one of a target that the executor has given up.
Cared(p, o) == o = p.current \/ p.targets[o].obs # "open"

Closes(p, u) ==
  p.autoLoop => /\ u.autoLoop
                /\ \A o \in DOMAIN p.targets : o \in DOMAIN u.targets /\ (Cared(p, o) => Cared(u, o))

-----------------------------------------------------------------------------
(* The queue.                                                              *)

LEMMA RangeIn ==
  ASSUME NEW S, NEW s \in Seq(S)
  PROVE  Range(s) \subseteq S /\ s \in Seq(Range(s))
BY DEF Range

LEMMA PartIn ==
  ASSUME NEW S, NEW s \in Seq(S), NEW m \in 1 .. (Len(s) + 1), NEW n \in 0 .. Len(s)
  PROVE  SubSeq(s, m, n) \in Seq(Range(s))
<1>1. \A i \in m .. n : s[i] \in Range(s)
  BY DEF Range
<1>2. m \in Int /\ n \in Int
  OBVIOUS
<1> QED
  BY <1>1, <1>2, SubSeqProperties

LEMMA QueueIn ==
  ASSUME NEW p \in Process
  PROVE  InQueue(p) \subseteq Objects
<1>1. p.queue \in Seq(Entry)
  BY DEF Process
<1>2. Range(p.queue) \subseteq Entry
  BY <1>1, RangeIn
<1> QED
  BY <1>2 DEF InQueue, Entry

\* What a filter leaves: entries of the queue, and the rest of the process.
Tidies(p, u) ==
  /\ u \in Process
  /\ u.current = p.current /\ u.targets = p.targets /\ u.script = p.script /\ u.tel = p.tel
  /\ u.held = p.held /\ (p.autoLoop => u.autoLoop)
  /\ Range(u.queue) \subseteq Range(p.queue)
  /\ u.deleted \subseteq p.deleted \cup (InQueue(p) \ (InQueue(u) \cup {p.current}))

LEMMA TidiesHolds ==
  ASSUME NEW p \in Process, Made(p), Alive(p), NEW u, Tidies(p, u)
  PROVE  Made(u) /\ Alive(u) /\ (\A c \in Cameras : Waits(u, c) <=> Waits(p, c))
<1>1. InQueue(u) \subseteq InQueue(p)
  BY DEF Tidies, InQueue
<1>2. Made(u)
  BY DEF Tidies, Made, InQueue, Pointers
<1>3. Alive(u)
  BY <1>1 DEF Tidies, Alive
<1> QED
  BY <1>2, <1>3 DEF Tidies, Waits, WasMoved

LEMMA FilterExpiredTidies ==
  ASSUME NEW p \in Process, Made(p)
  PROVE  Tidies(p, FilterExpired(p))
<1> DEFINE due  == {i \in DOMAIN p.queue : p.queue[i].window \in {"now", "over"}}
           from == IF due = {} THEN 1 ELSE CHOOSE i \in due : \A j \in due : j <= i
           open == {e \in Range(p.queue) : e.window # "over" /\ ~p.targets[e.target].started}
           part == SubSeq(p.queue, from, Len(p.queue))
           kept == Selected(part, open)
           q == [p EXCEPT !.queue = kept]
           gone == p.deleted \cup (InQueue(p) \ (InQueue(q) \cup {p.current}))
           u == [q EXCEPT !.deleted = gone]
<1>1. p.queue \in Seq(Entry) /\ Len(p.queue) \in Nat /\ DOMAIN p.queue = 1 .. Len(p.queue)
  BY DEF Process
<1>2. from \in 1 .. (Len(p.queue) + 1)
  <2>1. CASE due = {}
    BY <1>1, <2>1
  <2>2. CASE due # {}
    <3>1. due \in SUBSET (1 .. Len(p.queue))
      BY <1>1
    <3>2. \E i \in due : \A j \in due : j <= i
      <4> HIDE DEF due
      <4> QED
        BY <1>1, <2>2, <3>1, Greatest
    <3>3. from \in due
      BY <2>2, <3>2
    <3> QED
      BY <1>1, <3>1, <3>3
  <2> QED
    BY <2>1, <2>2
<1>3. FilterExpired(p) = u
  BY DEF FilterExpired
<1>4. part \in Seq(Range(p.queue))
  <2> HIDE DEF from
  <2>1. Len(p.queue) \in 0 .. Len(p.queue)
    BY <1>1
  <2> QED
    BY <1>1, <1>2, <2>1, PartIn
<1>5. kept \in Seq(Range(p.queue))
  <2>1. kept \in Seq(Range(part) \cap open)
    <3> HIDE DEF part, open
    <3> QED
      BY <1>4, SelectedMeans
  <2>2. Range(part) \cap open \subseteq Range(p.queue)
    OBVIOUS
  <2> HIDE DEF kept, part, open
  <2> QED
    BY <2>1, <2>2, SeqMonotonic
<1> HIDE DEF kept, part, open, due, from
<1>6. kept \in Seq(Entry) /\ Range(kept) \subseteq Range(p.queue)
  BY <1>1, <1>5, RangeIn, SeqMonotonic
<1>7. q \in Process /\ q.queue = kept /\ q.current = p.current /\ q.targets = p.targets
      /\ q.script = p.script /\ q.tel = p.tel /\ q.held = p.held /\ q.autoLoop = p.autoLoop
      /\ q.deleted = p.deleted
  BY <1>6 DEF Process
<1> HIDE DEF q
<1>8. gone \in SUBSET Objects
  BY QueueIn DEF Process
<1> HIDE DEF gone
<1>9. u \in Process /\ u.queue = q.queue /\ u.current = q.current /\ u.targets = q.targets
      /\ u.script = q.script /\ u.tel = q.tel /\ u.held = q.held /\ u.autoLoop = q.autoLoop
      /\ u.deleted = gone
  BY <1>7, <1>8 DEF Process
<1> HIDE DEF u
<1>10. InQueue(u) = InQueue(q)
  BY <1>9 DEF InQueue
<1> QED
  BY <1>3, <1>6, <1>7, <1>9, <1>10 DEF Tidies, gone

LEMMA FilterTidies ==
  ASSUME NEW p \in Process, Made(p)
  PROVE  Tidies(p, Filter(p))
<1> DEFINE queue == p.queue
           ups     == {i \in DOMAIN queue : p.targets[queue[i].target].id \in sky}
           first   == IF ups = {} THEN Len(queue) + 1 ELSE CHOOSE i \in ups : \A j \in ups : i <= j
           skipped == SubSeq(queue, 1, first - 1)
           rest    == SubSeq(queue, first, Len(queue))
           swapped == <<Head(rest)>> \o skipped \o Tail(rest)
           new == FilterUnobservable(queue, sky, p.targets)
           u == [p EXCEPT !.queue = new]
           R == Range(queue)
<1>1. queue \in Seq(Entry) /\ Len(queue) \in Nat /\ DOMAIN queue = 1 .. Len(queue)
  BY DEF Process
<1>2. first \in 1 .. (Len(queue) + 1)
  <2>1. CASE ups = {}
    BY <1>1, <2>1
  <2>2. CASE ups # {}
    <3>1. ups \in SUBSET Nat /\ ups \subseteq 1 .. Len(queue)
      BY <1>1
    <3>2. \E i \in ups : \A j \in ups : i <= j
      <4> HIDE DEF ups
      <4> QED
        BY <2>2, <3>1, Least
    <3>3. first \in ups
      BY <2>2, <3>2
    <3> HIDE DEF first
    <3> QED
      BY <1>1, <3>1, <3>3
  <2> QED
    BY <2>1, <2>2
<1>3. new = IF rest # <<>> /\ Head(rest).window \in {"none", "now"} THEN swapped ELSE skipped \o rest
  BY DEF FilterUnobservable
<1>4. Filter(p) = u
  BY DEF Filter
<1> HIDE DEF ups, first
<1>5. skipped \in Seq(R) /\ rest \in Seq(R)
  <2>1. 1 \in 1 .. (Len(queue) + 1) /\ first - 1 \in 0 .. Len(queue) /\ Len(queue) \in 0 .. Len(queue)
    BY <1>1, <1>2
  <2> HIDE DEF queue
  <2> QED
    BY <1>1, <1>2, <2>1, PartIn
<1> HIDE DEF skipped, rest
<1>6. new \in Seq(R)
  <2>1. CASE rest = <<>>
    BY <1>3, <1>5, <2>1
  <2>2. CASE rest # <<>>
    <3>1. <<Head(rest)>> \in Seq(R) /\ Tail(rest) \in Seq(R)
      BY <1>5, <2>2
    <3>2. swapped \in Seq(R)
      BY <1>5, <3>1
    <3>3. skipped \o rest \in Seq(R)
      BY <1>5
    <3> QED
      BY <1>3, <3>2, <3>3
  <2> QED
    BY <2>1, <2>2
<1> HIDE DEF new
<1>7. new \in Seq(Entry) /\ Range(new) \subseteq R
  BY <1>1, <1>6, RangeIn, SeqMonotonic
<1>8. u \in Process /\ u.queue = new /\ u.current = p.current /\ u.targets = p.targets
      /\ u.script = p.script /\ u.tel = p.tel /\ u.held = p.held /\ u.autoLoop = p.autoLoop
      /\ u.deleted = p.deleted
  BY <1>7 DEF Process
<1> QED
  BY <1>4, <1>7, <1>8 DEF Tidies

LEMMA TidiesOn ==
  ASSUME NEW p \in Process, Made(p), NEW u, NEW v, Tidies(p, u), Tidies(u, v)
  PROVE  Tidies(p, v)
<1>1. InQueue(v) \subseteq InQueue(u) /\ InQueue(u) \subseteq InQueue(p)
  BY DEF Tidies, InQueue
<1> QED
  BY <1>1 DEF Tidies

LEMMA BeforeChangeTidies ==
  ASSUME NEW p \in Process, Made(p), Alive(p)
  PROVE  Tidies(p, BeforeChange(p))
<1> DEFINE u == FilterExpired(p)
<1>1. Tidies(p, u)
  BY FilterExpiredTidies
<1> HIDE DEF u
<1>2. u \in Process /\ Made(u)
  BY <1>1, TidiesHolds DEF Tidies
<1>3. Tidies(u, Filter(u))
  BY <1>2, FilterTidies
<1> QED
  BY <1>1, <1>3, TidiesOn DEF BeforeChange, u

LEMMA ClearNextTargetsTidies ==
  ASSUME NEW p \in Process
  PROVE  Tidies(p, ClearNextTargets(p))
<1> DEFINE gone == p.deleted \cup (InQueue(p) \ {p.current})
           none == <<>>
           u == [p EXCEPT !.queue = none, !.autoLoop = TRUE, !.deleted = gone]
<1>1. gone \in SUBSET Objects
  BY QueueIn DEF Process
<1>2. ClearNextTargets(p) = u
  BY DEF ClearNextTargets
<1>4. none \in Seq(Entry) /\ Range(none) = {}
  BY DEF Range
<1> HIDE DEF gone, none
<1>3. u \in Process /\ u.queue = none /\ u.current = p.current /\ u.targets = p.targets
      /\ u.script = p.script /\ u.tel = p.tel /\ u.held = p.held /\ u.autoLoop
      /\ u.deleted = gone
  BY <1>1, <1>4 DEF Process
<1> HIDE DEF u
<1>5. Range(u.queue) = {} /\ InQueue(u) = {}
  BY <1>3, <1>4 DEF InQueue
<1> QED
  BY <1>2, <1>3, <1>5 DEF Tidies, gone

-----------------------------------------------------------------------------
(* The scripts.                                                            *)

\* What differs from p in the scripts, or in the targets, or in the telescope's client only.
SameButScripts(p, u) ==
  /\ u \in Process
  /\ u.current = p.current /\ u.targets = p.targets /\ u.tel = p.tel /\ u.queue = p.queue
  /\ u.deleted = p.deleted /\ u.held = p.held /\ u.autoLoop = p.autoLoop

\* one script, but for whom it works
Ready(s) == (s.todo => s.current # NULL) /\ (s.current # NULL /\ ~s.todo => Exposes(s))

LEMMA ScriptsWritten ==
  ASSUME NEW p \in Process, NEW f \in [Cameras -> Script]
  PROVE  SameButScripts(p, [p EXCEPT !.script = f]) /\ [p EXCEPT !.script = f].script = f
BY DEF Process, SameButScripts

LEMMA NextCommandMeans ==
  ASSUME NEW p, NEW s \in Script, Ready(s)
  PROVE  /\ NextCommand(p, s) \in Script /\ Ready(NextCommand(p, s))
         /\ NextCommand(p, s).current = s.current /\ NextCommand(p, s).kill = s.kill
         /\ NextCommand(p, s).next = s.next
         /\ NextCommand(p, s).todo => ~WasMoved(p, s.current)
<1>1. CASE s.todo /\ WasMoved(p, s.current)
  <2> DEFINE q == Append(s.que, "expose")
             r == [s EXCEPT !.todo = FALSE, !.que = q]
  <2>1. NextCommand(p, s) = r
    BY <1>1 DEF NextCommand
  <2>2. s.que \in Seq({"expose", "killall"})
    BY DEF Script
  <2>3. q \in Seq({"expose", "killall"}) /\ Len(q) \in DOMAIN q /\ q[Len(q)] = "expose"
        /\ \A j \in DOMAIN q : ~(j > Len(q))
    BY <2>2
  <2> HIDE DEF q
  <2>4. r \in Script /\ r.que = q /\ ~r.todo
        /\ r.current = s.current /\ r.kill = s.kill /\ r.next = s.next
    BY <2>3 DEF Script
  <2> HIDE DEF r
  <2>5. Exposes(r)
    BY <2>3, <2>4 DEF Exposes
  <2> QED
    BY <2>1, <2>4, <2>5 DEF Ready
<1>2. CASE ~(s.todo /\ WasMoved(p, s.current))
  BY <1>2 DEF NextCommand
<1> QED
  BY <1>1, <1>2

LEMMA SetTargetMeans ==
  ASSUME NEW p \in Process, NEW c \in Cameras, NEW o \in Objects,
         p.script[c].current = NULL, ~p.script[c].todo
  PROVE  /\ SetTarget(p, c, o) \in Script /\ Ready(SetTarget(p, c, o))
         /\ SetTarget(p, c, o).current \in {NULL, o}
         /\ SetTarget(p, c, o).kill = p.script[c].kill /\ SetTarget(p, c, o).next = NULL
         /\ SetTarget(p, c, o).todo => ~WasMoved(p, SetTarget(p, c, o).current)
         /\ p.targets[o].id \in Scripts[c] => SetTarget(p, c, o).current = o
<1> DEFINE s == p.script[c]
           q == [p EXCEPT !.script[c].next = o]
           t == StartTarget(q, c)
<1>1. s \in Script /\ s.current = NULL /\ ~s.todo
  BY DEF Process
<1>2. q.script[c] = [s EXCEPT !.next = o] /\ q.targets = p.targets
  BY DEF Process
<1>3. q.script[c] \in Script /\ q.script[c].current = NULL /\ ~q.script[c].todo
      /\ q.script[c].next = o /\ q.script[c].kill = s.kill /\ o # NULL
  BY <1>1, <1>2 DEF Script, Pointer, Objects, NULL
<1>4. SetTarget(p, c, o) = NextCommand(q, t)
  BY <1>3 DEF SetTarget
<1> HIDE DEF q
<1>5. /\ t \in Script /\ t.kill = s.kill /\ t.next = NULL /\ Ready(t) /\ t.current \in {NULL, o}
      /\ p.targets[o].id \in Scripts[c] => t.current = o
  <2> DEFINE x == q.script[c]
  <2>1. CASE p.targets[o].id \in Scripts[c]
    <3>1. t = [x EXCEPT !.current = o, !.next = NULL, !.todo = TRUE]
      BY <1>2, <1>3, <2>1 DEF StartTarget
    <3> HIDE DEF x, t
    <3>2. x \in Script /\ x.kill = s.kill
      BY <1>3 DEF x
    <3>3. t \in Script /\ t.kill = s.kill /\ t.next = NULL /\ t.current = o /\ t.todo
      BY <3>1, <3>2 DEF Script, Pointer, NULL
    <3> QED
      BY <1>3, <3>3 DEF Ready
  <2>2. CASE p.targets[o].id \notin Scripts[c]
    <3>1. t = [x EXCEPT !.next = NULL]
      BY <1>2, <1>3, <2>2 DEF StartTarget
    <3> HIDE DEF x, t
    <3>2. x \in Script /\ x.kill = s.kill /\ x.current = NULL /\ ~x.todo
      BY <1>3 DEF x
    <3>3. t \in Script /\ t.kill = s.kill /\ t.next = NULL /\ t.current = NULL /\ ~t.todo
      BY <3>1, <3>2 DEF Script, Pointer, NULL
    <3> QED
      BY <2>2, <3>3 DEF Ready
  <2> QED
    BY <2>1, <2>2
<1> HIDE DEF t
<1>6. \A x : WasMoved(q, x) <=> WasMoved(p, x)
  BY <1>2 DEF WasMoved
<1> DEFINE r == NextCommand(q, t)
<1>7. /\ r \in Script /\ Ready(r)
      /\ r.current = t.current /\ r.kill = t.kill /\ r.next = t.next
      /\ r.todo => ~WasMoved(q, t.current)
  BY <1>5, NextCommandMeans
<1> HIDE DEF r
<1> QED
  BY <1>4, <1>5, <1>6, <1>7 DEF r

LEMMA KillAllMeans ==
  ASSUME NEW p \in Process
  PROVE  /\ SameButScripts(p, KillAll(p))
         /\ \A c \in Cameras : LET s == KillAll(p).script[c] IN
              /\ s.current = NULL /\ s.next = NULL /\ ~s.todo /\ s.kill = p.script[c].kill
<1> DEFINE Kill(s) == [s EXCEPT !.current = NULL, !.next = NULL, !.todo = FALSE,
                                !.que = Append(@, "killall")]
           f == [c \in Cameras |-> Kill(p.script[c])]
<1>1. \A c \in Cameras : p.script[c] \in Script
  BY DEF Process
<1>2. ASSUME NEW s \in Script
      PROVE  Kill(s) \in Script /\ Kill(s).current = NULL /\ Kill(s).next = NULL /\ ~Kill(s).todo
             /\ Kill(s).kill = s.kill
  <2> DEFINE q == Append(s.que, "killall")
             r == [s EXCEPT !.current = NULL, !.next = NULL, !.todo = FALSE, !.que = q]
  <2>1. Kill(s) = r
    OBVIOUS
  <2>2. q \in Seq({"expose", "killall"})
    BY DEF Script
  <2> HIDE DEF q, Kill
  <2>3. r \in Script /\ r.current = NULL /\ r.next = NULL /\ ~r.todo /\ r.kill = s.kill
    BY <2>2 DEF Script, Pointer, NULL
  <2> QED
    BY <2>1, <2>3
<1>3. KillAll(p) = [p EXCEPT !.script = f]
  BY DEF KillAll
<1> HIDE DEF Kill
<1>4. f \in [Cameras -> Script]
  BY <1>1, <1>2
<1>5. \A c \in Cameras : f[c] = Kill(p.script[c])
  OBVIOUS
<1> HIDE DEF f
<1>6. SameButScripts(p, KillAll(p)) /\ KillAll(p).script = f
  BY <1>3, <1>4, ScriptsWritten
<1> QED
  BY <1>1, <1>2, <1>5, <1>6

\* A camera without a script has no target that waits for it.
LEMMA StartWaitingSame ==
  ASSUME NEW p, Steady(p)
  PROVE  StartWaiting(p) = p
<1> DEFINE f == [c \in Cameras |-> IF p.script[c].current # NULL THEN p.script[c]
                                   ELSE NextCommand(p, StartTarget(p, c))]
<1>1. \A c \in Cameras : f[c] = p.script[c]
  BY DEF Steady, Follows, StartTarget, NextCommand
<1>2. f \in [Cameras -> Script] /\ p.script \in [Cameras -> Script]
  BY <1>1 DEF Steady, Process
<1>3. StartWaiting(p) = [p EXCEPT !.script = f]
  BY DEF StartWaiting
<1> HIDE DEF f
<1>4. f = p.script
  BY <1>1, <1>2
<1> QED
  BY <1>3, <1>4 DEF Steady, Process

-----------------------------------------------------------------------------
(* The targets, and a switch from one to the next.                         *)

SameButTargets(p, u) ==
  /\ u \in Process /\ Len(u.targets) = Len(p.targets)
  /\ u.current = p.current /\ u.script = p.script /\ u.tel = p.tel /\ u.queue = p.queue
  /\ u.deleted = p.deleted /\ u.held = p.held /\ u.autoLoop = p.autoLoop

LEMMA TargetWritten ==
  ASSUME NEW p \in Process, NEW o \in 1 .. Len(p.targets), NEW t \in Target,
         NEW u, u = [p EXCEPT !.targets[o] = t]
  PROVE  /\ SameButTargets(p, u) /\ u.targets[o] = t
         /\ \A x \in 1 .. Len(p.targets) : x # o => u.targets[x] = p.targets[x]
<1> DEFINE s == [p.targets EXCEPT ![o] = t]
<1>1. p.targets \in Seq(Target)
  BY DEF Process
<1>2. s \in Seq(Target) /\ Len(s) = Len(p.targets) /\ s[o] = t
      /\ \A x \in 1 .. Len(p.targets) : x # o => s[x] = p.targets[x]
  BY <1>1
<1>3. u = [p EXCEPT !.targets = s]
  OBVIOUS
<1> HIDE DEF s
<1>4. u \in Process /\ u.targets = s
      /\ u.current = p.current /\ u.script = p.script /\ u.tel = p.tel /\ u.queue = p.queue
      /\ u.deleted = p.deleted /\ u.held = p.held /\ u.autoLoop = p.autoLoop
  BY <1>2, <1>3 DEF Process
<1> QED
  BY <1>2, <1>4 DEF SameButTargets

\* Targets move on, and nothing else changes.
LEMMA SameTargetsSteady ==
  ASSUME NEW p, Steady(p), NEW u, SameButTargets(p, u),
         \A o \in 1 .. Len(p.targets) : WasMoved(p, o) => WasMoved(u, o)
  PROVE  Steady(u)
<1>1. Made(u) /\ Alive(u)
  BY DEF Steady, SameButTargets, Made, Alive, InQueue, Pointers
<1>2. Pointed(u)
  <2>1. p.current # NULL => p.current \in 1 .. Len(p.targets)
    BY DEF Steady, Made, Pointers, Process, NULL
  <2> QED
    BY <2>1 DEF Steady, SameButTargets, Pointed, Moving
<1> QED
  BY <1>1, <1>2 DEF Steady, SameButTargets

LEMMA ClosesOn ==
  ASSUME NEW p, NEW u, NEW v, Closes(p, u), Closes(u, v)
  PROVE  Closes(p, v)
BY DEF Closes

LEMMA EndObservationMeans ==
  ASSUME NEW p \in Process, p.current \in Pointers(p)
  PROVE  /\ SameButTargets(p, EndObservation(p))
         /\ \A o \in 1 .. Len(p.targets) :
              /\ EndObservation(p).targets[o].id = p.targets[o].id
              /\ WasMoved(EndObservation(p), o) <=> WasMoved(p, o)
              /\ Cared(p, o) => EndObservation(p).targets[o].obs # "open"
<1>1. CASE p.current = NULL
  <2>1. EndObservation(p) = p
    BY <1>1 DEF EndObservation
  <2> QED
    BY <1>1, <2>1 DEF SameButTargets, Cared, NULL
<1>2. CASE p.current # NULL
  <2> DEFINE o == p.current
             t == [p.targets[o] EXCEPT
                    !.started = FALSE,
                    !.obs = IF p.targets[o].obs = "open" THEN "closed" ELSE p.targets[o].obs]
             u == [p EXCEPT !.targets[o] = t]
  <2>1. o \in 1 .. Len(p.targets) /\ p.targets[o] \in Target
    BY <1>2 DEF Pointers, Process, NULL
  <2>2. t \in Target /\ t.id = p.targets[o].id /\ t.move = p.targets[o].move /\ t.obs # "open"
    BY <2>1 DEF Target
  <2>3. EndObservation(p) = u
    <3>1. EndObservation(p) = IF p.current = NULL THEN p ELSE u
      BY DEF EndObservation
    <3> QED
      BY <1>2, <3>1
  <2> HIDE DEF t
  <2>4. /\ SameButTargets(p, u) /\ u.targets[o] = t
        /\ \A x \in 1 .. Len(p.targets) : x # o => u.targets[x] = p.targets[x]
    BY <2>1, <2>2, TargetWritten
  <2> HIDE DEF u
  <2> QED
    BY <2>2, <2>3, <2>4 DEF WasMoved, Cared
<1> QED
  BY <1>1, <1>2

\* Nobody works for the executor.
Free(p) == /\ p \in Process /\ Made(p) /\ Alive(p)
           /\ \A c \in Cameras : LET s == p.script[c] IN
                s.current = NULL /\ s.kill = NULL /\ s.next = NULL /\ ~s.todo

Settled(u) == Steady(u) /\ (\A c \in Cameras : Waits(u, c)) /\ Worked(u)

LEMMA SteadyFree ==
  ASSUME NEW p, Steady(p), NoneRunning(p)
  PROVE  Free(p)
BY DEF Steady, NoneRunning, Running, Free, Follows

LEMMA FreeSettled ==
  ASSUME NEW p, Free(p), p.current = NULL
  PROVE  Settled(p)
BY DEF Free, Settled, Steady, Worked, Waits, Pointed, Follows

LEMMA ExecuteSettled ==
  ASSUME NEW p, Free(p)
  PROVE  Settled(Execute(p)) /\ Closes(p, Execute(p))
<1>1. CASE p.current = NULL
  BY <1>1, FreeSettled DEF Execute, Closes
<1>2. CASE p.current # NULL
  <2> DEFINE o == p.current
             f == [c \in Cameras |-> SetTarget(p, c, o)]
             q == SetTargetAll(p)
             b == IF q.targets[o].obs = "none" THEN "open" ELSE q.targets[o].obs
             t == [q.targets[o] EXCEPT !.move = "started", !.obs = b]
             n == IF q.tel.moves < MaxMoves THEN q.tel.moves + 1 ELSE q.tel.moves
             v == [q EXCEPT !.targets[o] = t]
             u == [v EXCEPT !.tel.moves = n]
  <2>1. o \in 1 .. Len(p.targets) /\ o \in Objects /\ p \in Process /\ p.targets[o] \in Target
    BY <1>2 DEF Free, Made, Pointers, Process, NULL, Objects, Pointer
  <2>2. ASSUME NEW c \in Cameras
        PROVE  /\ f[c] \in Script /\ Follows(f[c], o)
               /\ f[c].todo => ~WasMoved(p, f[c].current)
               /\ p.targets[o].id \in Scripts[c] => f[c].current = o
    <3>1. p.script[c].current = NULL /\ ~p.script[c].todo /\ p.script[c].kill = NULL
      BY DEF Free
    <3>2. /\ SetTarget(p, c, o) \in Script /\ Ready(SetTarget(p, c, o))
          /\ SetTarget(p, c, o).current \in {NULL, o}
          /\ SetTarget(p, c, o).kill = NULL /\ SetTarget(p, c, o).next = NULL
          /\ SetTarget(p, c, o).todo => ~WasMoved(p, SetTarget(p, c, o).current)
          /\ p.targets[o].id \in Scripts[c] => SetTarget(p, c, o).current = o
      BY <2>1, <3>1, SetTargetMeans
    <3>3. f[c] = SetTarget(p, c, o)
      OBVIOUS
    <3> HIDE DEF f
    <3> QED
      BY <3>2, <3>3 DEF Follows, Ready
  <2>3. f \in [Cameras -> Script]
    BY <2>2
  <2>4. q = [p EXCEPT !.script = f, !.tel.current = o]
    BY DEF SetTargetAll
  <2> HIDE DEF f
  <2>5. /\ q \in Process /\ q.script = f /\ q.tel.current = o /\ q.tel.moves = p.tel.moves
        /\ q.current = o /\ q.targets = p.targets /\ q.queue = p.queue
        /\ q.deleted = p.deleted /\ q.held = p.held /\ q.autoLoop = p.autoLoop
    <3> DEFINE tel == [p.tel EXCEPT !.current = o]
    <3>1. /\ p.tel \in [current : Pointer, moves : 0 .. MaxMoves, slewing : BOOLEAN]
          /\ o \in Pointer
      BY <2>1 DEF Process, Pointer
    <3>2. /\ tel \in [current : Pointer, moves : 0 .. MaxMoves, slewing : BOOLEAN]
          /\ tel.current = o /\ tel.moves = p.tel.moves
      BY <3>1
    <3>3. q = [p EXCEPT !.script = f, !.tel = tel]
      BY <2>4
    <3> HIDE DEF tel, q
    <3> QED
      BY <2>1, <2>3, <3>2, <3>3 DEF Process
  <2>6. Execute(p) = u
    <3>1. Execute(p) = Slew(q)
      BY <1>2 DEF Execute
    <3> HIDE DEF q
    <3>2. Slew(q) = u
      BY <2>5 DEF Slew
    <3> QED
      BY <3>1, <3>2
  <2> HIDE DEF q
  <2>7. t \in Target /\ t.move = "started" /\ t.id = p.targets[o].id
    <3>1. b \in {"none", "open", "closed"}
      BY <2>1, <2>5 DEF Target
    <3> HIDE DEF b
    <3> QED
      BY <2>1, <2>5, <3>1 DEF Target
  <2> HIDE DEF t
  <2>8. /\ SameButTargets(q, v) /\ v.targets[o] = t
        /\ \A x \in 1 .. Len(p.targets) : x # o => v.targets[x] = p.targets[x]
    BY <2>1, <2>5, <2>7, TargetWritten
  <2>9. n \in 0 .. MaxMoves /\ n > 0
    BY <2>5, BoundsAssumption DEF Process
  <2> HIDE DEF v, n
  <2>10. /\ u \in Process /\ u.script = f /\ u.tel.current = o /\ u.tel.moves = n
         /\ u.current = o /\ u.targets = v.targets /\ u.queue = p.queue
         /\ u.deleted = p.deleted /\ u.autoLoop = p.autoLoop
    BY <2>5, <2>8, <2>9 DEF SameButTargets, Process
  <2> HIDE DEF u
  <2>11. Len(u.targets) = Len(p.targets) /\ ~WasMoved(u, o) /\ Moving(u)
    BY <2>5, <2>7, <2>8, <2>9, <2>10 DEF SameButTargets, WasMoved, Moving
  <2>12. Made(u) /\ Alive(u) /\ Pointed(u)
    BY <2>1, <2>10, <2>11 DEF Free, Made, Alive, Pointed, Pointers, InQueue
  <2>13. \A c \in Cameras : Follows(u.script[c], u.current) /\ Waits(u, c)
    BY <2>2, <2>10, <2>11 DEF Waits, Follows
  <2>14. ~NoneRunning(u)
    <3>1. p.targets[o].id \in Targets
      BY <2>1 DEF Target
    <3>2. PICK c \in Cameras : p.targets[o].id \in Scripts[c]
      BY <3>1, ScriptsAssumption
    <3>3. u.script[c].current # NULL
      BY <1>2, <2>2, <2>10, <3>2
    <3> QED
      BY <3>3 DEF NoneRunning, Running
  <2>15. Closes(p, u)
    <3>1. DOMAIN u.targets = DOMAIN p.targets
      BY <2>1, <2>10, <2>11 DEF Process
    <3>2. \A x \in DOMAIN p.targets : x # o => u.targets[x] = p.targets[x]
      BY <2>1, <2>8, <2>10 DEF Process
    <3> QED
      BY <2>10, <3>1, <3>2 DEF Closes, Cared
  <2> QED
    BY <2>6, <2>10, <2>12, <2>13, <2>14, <2>15 DEF Settled, Steady, Worked
<1> QED
  BY <1>1, <1>2

LEMMA TidiesCloses ==
  ASSUME NEW p, NEW u, Tidies(p, u)
  PROVE  Closes(p, u)
BY DEF Tidies, Closes, Cared

LEMMA TidiesFree ==
  ASSUME NEW p, Free(p), NEW u, Tidies(p, u)
  PROVE  Free(u)
<1>1. Made(u) /\ Alive(u)
  BY TidiesHolds DEF Free
<1> QED
  BY <1>1 DEF Free, Tidies

LEMMA TidiesSteady ==
  ASSUME NEW p, Steady(p), NEW u, Tidies(p, u)
  PROVE  Steady(u) /\ (\A c \in Cameras : Waits(u, c) <=> Waits(p, c)) /\ (Worked(p) => Worked(u))
<1>1. Made(u) /\ Alive(u) /\ \A c \in Cameras : Waits(u, c) <=> Waits(p, c)
  BY TidiesHolds DEF Steady
<1>2. Pointed(u)
  BY DEF Steady, Tidies, Pointed, WasMoved, Moving
<1> QED
  BY <1>1, <1>2 DEF Steady, Tidies, Worked, NoneRunning

LEMMA EndObservationFree ==
  ASSUME NEW p, Free(p)
  PROVE  Free(EndObservation(p))
<1> DEFINE u == EndObservation(p)
<1>1. SameButTargets(p, u)
  BY EndObservationMeans DEF Free, Made
<1> HIDE DEF u
<1>2. Made(u) /\ Alive(u)
  BY <1>1 DEF Free, SameButTargets, Made, Alive, InQueue, Pointers
<1> QED
  BY <1>1, <1>2 DEF Free, SameButTargets, u

LEMMA DropSettled ==
  ASSUME NEW p, Free(p)
  PROVE  Settled(Drop(p)) /\ Closes(p, Drop(p))
<1> DEFINE e == EndObservation(p)
           d == [e EXCEPT !.current = NULL, !.held = FALSE]
           u == ClearNextTargets(d)
<1>1. /\ Free(e) /\ SameButTargets(p, e)
      /\ \A o \in 1 .. Len(p.targets) : Cared(p, o) => e.targets[o].obs # "open"
  BY EndObservationFree, EndObservationMeans DEF Free, Made
<1>2. Drop(p) = u
  BY DEF Drop
<1> HIDE DEF e
<1>3. /\ d \in Process /\ d.current = NULL /\ d.autoLoop = e.autoLoop
      /\ d.targets = e.targets /\ d.script = e.script /\ d.tel = e.tel /\ d.queue = e.queue
      /\ d.deleted = e.deleted
  BY <1>1 DEF Free, Process, Pointer
<1> HIDE DEF d
<1>4. Free(d)
  <2>1. NULL \in Pointers(d) /\ NULL \notin d.deleted
    BY <1>1, <1>3 DEF Free, Made, Pointers, NULL, Process
  <2> QED
    BY <1>1, <1>3, <2>1 DEF Free, Made, Alive, InQueue, Pointers
<1>5. Closes(p, d)
  <2>1. DOMAIN d.targets = 1 .. Len(p.targets) /\ DOMAIN p.targets = 1 .. Len(p.targets)
    BY <1>1, <1>3 DEF Free, SameButTargets, Process
  <2> QED
    BY <1>1, <1>3, <2>1 DEF Closes, Cared, SameButTargets
<1>6. Tidies(d, u)
  BY <1>3, ClearNextTargetsTidies
<1> HIDE DEF u
<1>7. Free(u) /\ u.current = NULL /\ Closes(d, u)
  BY <1>3, <1>4, <1>6, TidiesFree, TidiesCloses DEF Tidies
<1> QED
  BY <1>2, <1>5, <1>7, FreeSettled, ClosesOn

LEMMA KillAllFree ==
  ASSUME NEW p, Free(p)
  PROVE  Free(KillAll(p)) /\ Closes(p, KillAll(p))
<1> DEFINE u == KillAll(p)
<1>1. /\ SameButScripts(p, u)
      /\ \A c \in Cameras : LET s == u.script[c] IN
           s.current = NULL /\ s.next = NULL /\ ~s.todo /\ s.kill = p.script[c].kill
  BY KillAllMeans DEF Free
<1> HIDE DEF u
<1>2. Free(u)
  BY <1>1 DEF SameButScripts, Free, Made, Alive, InQueue, Pointers
<1>3. Closes(p, u)
  BY <1>1 DEF SameButScripts, Closes, Cared
<1> QED
  BY <1>2, <1>3 DEF u

LEMMA TakeFrontFree ==
  ASSUME NEW p, Free(p)
  PROVE  Free(TakeFront(p)) /\ Closes(p, TakeFront(p))
<1>1. CASE p.queue = <<>>
  BY <1>1 DEF TakeFront, Closes
<1>2. CASE p.queue # <<>>
  <2> DEFINE e == EndObservation(p)
             o == Head(p.queue).target
             u == [e EXCEPT !.current = o]
  <2>1. /\ Free(e) /\ SameButTargets(p, e)
        /\ \A x \in 1 .. Len(p.targets) : Cared(p, x) => e.targets[x].obs # "open"
    BY EndObservationFree, EndObservationMeans DEF Free, Made
  <2>2. TakeFront(p) = u
    BY <1>2 DEF TakeFront
  <2>3. Head(p.queue) \in Range(p.queue) /\ Head(p.queue) \in Entry
    BY <1>2 DEF Free, Process, Range
  <2>4. o \in 1 .. Len(p.targets) /\ o \in InQueue(p) /\ o \in Objects
    BY <2>3 DEF Free, Made, InQueue, Entry
  <2> HIDE DEF e, o
  <2>5. /\ u \in Process /\ u.current = o /\ u.autoLoop = e.autoLoop
        /\ u.targets = e.targets /\ u.script = e.script /\ u.tel = e.tel /\ u.queue = e.queue
        /\ u.deleted = e.deleted
    BY <2>1, <2>4 DEF Free, Process, Pointer
  <2> HIDE DEF u
  <2>6. Free(u)
    <3>1. InQueue(u) = InQueue(p) /\ u.deleted = p.deleted /\ Len(u.targets) = Len(p.targets)
      BY <2>1, <2>5 DEF SameButTargets, InQueue
    <3>2. o \notin u.deleted
      BY <2>4, <3>1 DEF Free, Alive
    <3>3. o \in Pointers(u)
      BY <2>4, <3>1 DEF Pointers
    <3> QED
      BY <2>1, <2>5, <3>1, <3>2, <3>3 DEF Free, Made, Alive, Pointers
  <2>7. Closes(p, u)
    <3>1. DOMAIN u.targets = 1 .. Len(p.targets) /\ DOMAIN p.targets = 1 .. Len(p.targets)
      BY <2>1, <2>5 DEF Free, SameButTargets, Process
    <3> QED
      BY <2>1, <2>5, <3>1 DEF Closes, Cared, SameButTargets
  <2> QED
    BY <2>2, <2>6, <2>7
<1> QED
  BY <1>1, <1>2

LEMMA DoSwitchSettled ==
  ASSUME NEW p, Free(p)
  PROVE  Settled(DoSwitch(p)) /\ Closes(p, DoSwitch(p))
<1> DEFINE b == BeforeChange(p)
           l == LeaveStarted(b)
           f == TakeFront(l)
           u == [f EXCEPT !.autoLoop = TRUE, !.held = FALSE]
<1>1. Free(b) /\ Closes(p, b)
  BY BeforeChangeTidies, TidiesFree, TidiesCloses DEF Free
<1> HIDE DEF b
<1>2. Free(l) /\ Closes(b, l)
  <2>1. CASE l = b
    BY <1>1, <2>1 DEF Closes
  <2>2. CASE l # b
    <3> DEFINE x == [b EXCEPT !.current = NULL]
    <3>1. ~b.autoLoop /\ l = x
      BY <2>2 DEF LeaveStarted
    <3>2. /\ x \in Process /\ x.current = NULL
          /\ x.targets = b.targets /\ x.script = b.script /\ x.tel = b.tel /\ x.queue = b.queue
          /\ x.deleted = b.deleted
      BY <1>1 DEF Free, Process, Pointer
    <3> HIDE DEF x
    <3>3. NULL \in Pointers(x) /\ NULL \notin x.deleted
      BY <1>1, <3>2 DEF Free, Made, Pointers, NULL, Process
    <3>4. Free(x)
      BY <1>1, <3>2, <3>3 DEF Free, Made, Alive, InQueue, Pointers
    <3> QED
      BY <3>1, <3>4 DEF Closes
  <2> QED
    BY <2>1, <2>2
<1> HIDE DEF l
<1>3. Free(f) /\ Closes(l, f)
  BY <1>2, TakeFrontFree
<1>4. DoSwitch(p) = Execute(u)
  BY DEF DoSwitch, b, l
<1> HIDE DEF f
<1>5. /\ u \in Process /\ u.current = f.current /\ u.autoLoop
      /\ u.targets = f.targets /\ u.script = f.script /\ u.tel = f.tel /\ u.queue = f.queue
      /\ u.deleted = f.deleted
  BY <1>3 DEF Free, Process
<1> HIDE DEF u
<1>6. Free(u) /\ Closes(f, u)
  BY <1>3, <1>5 DEF Free, Made, Alive, InQueue, Pointers, Closes, Cared
<1>7. Settled(Execute(u)) /\ Closes(u, Execute(u))
  BY <1>6, ExecuteSettled
<1>8. Closes(p, Execute(u))
  BY <1>1, <1>2, <1>3, <1>6, <1>7, ClosesOn
<1> QED
  BY <1>4, <1>7, <1>8

LEMMA HeldMeans ==
  ASSUME NEW p, Steady(p)
  PROVE  /\ Steady(Held(p)) /\ Worked(Held(p)) /\ Closes(p, Held(p))
         /\ \A c \in Cameras : Waits(Held(p), c) <=> Waits(p, c)
<1> DEFINE h == p.held \/ (p.current # NULL /\ NoneRunning(p))
           u == [p EXCEPT !.held = h]
<1>1. Held(p) = u
  BY DEF Held
<1>2. h \in BOOLEAN /\ p \in Process
  BY DEF Steady, Process
<1>3. /\ u \in Process /\ u.current = p.current /\ u.autoLoop = p.autoLoop
      /\ u.targets = p.targets /\ u.script = p.script /\ u.tel = p.tel /\ u.queue = p.queue
      /\ u.deleted = p.deleted
  <2> HIDE DEF h
  <2> QED
    BY <1>2 DEF Process
<1>4. u.held <=> h
  BY <1>2 DEF Process
<1> HIDE DEF u
<1>5. Made(u) /\ Alive(u) /\ Pointed(u)
  BY <1>3 DEF Steady, Made, Alive, Pointed, Pointers, InQueue, WasMoved, Moving
<1>6. Worked(u)
  BY <1>3, <1>4 DEF Worked, NoneRunning
<1> QED
  BY <1>1, <1>3, <1>5, <1>6 DEF Steady, Waits, WasMoved, Closes, Cared

LEMMA NoneWaits ==
  ASSUME NEW p, Steady(p), NoneRunning(p)
  PROVE  \A c \in Cameras : Waits(p, c)
BY SteadyFree DEF Free, Waits

LEMMA SwitchTargetSettled ==
  ASSUME NEW p, Steady(p), NoneRunning(p)
  PROVE  Settled(SwitchTarget(p)) /\ Closes(p, SwitchTarget(p))
<1>1. Free(p)
  BY SteadyFree
<1>2. CASE ~p.enabled
  <2> DEFINE u == ClearNextTargets(p)
  <2>1. Tidies(p, u)
    BY ClearNextTargetsTidies DEF Steady
  <2> HIDE DEF u
  <2>2. Steady(u) /\ Closes(p, u) /\ \A c \in Cameras : Waits(u, c)
    BY <2>1, TidiesSteady, TidiesCloses, NoneWaits
  <2>3. /\ Steady(Held(u)) /\ Worked(Held(u)) /\ Closes(u, Held(u))
        /\ \A c \in Cameras : Waits(Held(u), c)
    BY <2>2, HeldMeans
  <2>4. SwitchTarget(p) = Held(u)
    BY <1>2 DEF SwitchTarget, u
  <2> QED
    BY <2>2, <2>3, <2>4, ClosesOn DEF Settled
<1>3. CASE p.enabled /\ (p.end \/ (~p.autoLoop /\ p.queue = <<>>))
  <2> DEFINE k == IF p.autoLoop THEN KillAll(p) ELSE p
             u == [k EXCEPT !.end = FALSE]
  <2>1. Free(k) /\ Closes(p, k)
    BY <1>1, KillAllFree DEF Closes
  <2>2. SwitchTarget(p) = Drop(u)
    BY <1>3 DEF SwitchTarget
  <2> HIDE DEF k
  <2>3. /\ u \in Process /\ u.current = k.current /\ u.autoLoop = k.autoLoop
        /\ u.targets = k.targets /\ u.script = k.script /\ u.tel = k.tel /\ u.queue = k.queue
        /\ u.deleted = k.deleted
    BY <2>1 DEF Free, Process
  <2> HIDE DEF u
  <2>4. Free(u) /\ Closes(k, u)
    BY <2>1, <2>3 DEF Free, Made, Alive, InQueue, Pointers, Closes, Cared
  <2>5. Settled(Drop(u)) /\ Closes(u, Drop(u))
    BY <2>4, DropSettled
  <2> QED
    BY <2>1, <2>2, <2>4, <2>5, ClosesOn
<1>4. CASE p.enabled /\ ~(p.end \/ (~p.autoLoop /\ p.queue = <<>>)) /\ p.night = "night"
  <2>1. SwitchTarget(p) = DoSwitch(p)
    BY <1>4 DEF SwitchTarget
  <2> QED
    BY <1>1, <2>1, DoSwitchSettled
<1>5. CASE p.enabled /\ ~(p.end \/ (~p.autoLoop /\ p.queue = <<>>)) /\ p.night # "night"
  <2>1. SwitchTarget(p) = Drop(p)
    BY <1>5 DEF SwitchTarget
  <2> QED
    BY <1>1, <2>1, DropSettled
<1> QED
  BY <1>2, <1>3, <1>4, <1>5

\* started is set, which decides on nothing here
LEMMA StartObservationMeans ==
  ASSUME NEW p, Steady(p)
  PROVE  /\ Steady(StartObservation(p)) /\ Closes(p, StartObservation(p))
         /\ NoneRunning(StartObservation(p)) <=> NoneRunning(p)
         /\ Settled(p) => Settled(StartObservation(p))
<1>1. CASE p.current = NULL
  BY <1>1 DEF StartObservation, Closes
<1>2. CASE p.current # NULL
  <2> DEFINE o == p.current
             t == [p.targets[o] EXCEPT !.started = TRUE]
             u == [p EXCEPT !.targets[o] = t]
  <2>1. o \in 1 .. Len(p.targets) /\ p \in Process /\ p.targets[o] \in Target
    BY <1>2 DEF Steady, Made, Pointers, Process, NULL
  <2>2. t \in Target /\ t.move = p.targets[o].move /\ t.obs = p.targets[o].obs
    BY <2>1 DEF Target
  <2>3. StartObservation(p) = u
    BY <1>2 DEF StartObservation
  <2> HIDE DEF t
  <2>4. /\ SameButTargets(p, u) /\ u.targets[o] = t
        /\ \A x \in 1 .. Len(p.targets) : x # o => u.targets[x] = p.targets[x]
    BY <2>1, <2>2, TargetWritten
  <2> HIDE DEF u
  <2>5. \A x \in 1 .. Len(p.targets) : WasMoved(p, x) <=> WasMoved(u, x)
    BY <2>2, <2>4 DEF WasMoved
  <2>6. Steady(u)
    BY <2>4, <2>5, SameTargetsSteady
  <2>7. Closes(p, u)
    <3>1. DOMAIN u.targets = 1 .. Len(p.targets) /\ DOMAIN p.targets = 1 .. Len(p.targets)
      BY <2>1, <2>4 DEF SameButTargets, Process
    <3> QED
      BY <2>2, <2>4, <3>1 DEF Closes, Cared, SameButTargets
  <2>8. NoneRunning(u) <=> NoneRunning(p)
    BY <2>4 DEF SameButTargets, NoneRunning
  <2>9. ASSUME NEW c \in Cameras, Waits(p, c)
        PROVE  Waits(u, c)
    BY <2>1, <2>4, <2>5, <2>9 DEF SameButTargets, Waits, Steady, Follows, NULL
  <2> QED
    BY <2>3, <2>4, <2>6, <2>7, <2>8, <2>9 DEF SameButTargets, Settled, Worked
<1> QED
  BY <1>1, <1>2

\* What a handler may do on its way, but for the scripts it has still to look at.
Goes(p, u) == /\ Steady(u) /\ Closes(p, u)
              /\ \A d \in Cameras : Waits(p, d) => Waits(u, d)

LEMMA ScriptEndedGoes ==
  ASSUME NEW p, Steady(p)
  PROVE  /\ Goes(p, ScriptEnded(p))
         /\ (\A d \in Cameras : Waits(p, d)) => Settled(ScriptEnded(p))
<1>1. CASE NoneRunning(p)
  <2> DEFINE o == StartObservation(p)
             u == SwitchTarget(o)
  <2>1. Steady(o) /\ Closes(p, o) /\ NoneRunning(o)
    BY <1>1, StartObservationMeans
  <2> HIDE DEF o
  <2>2. Settled(u) /\ Closes(o, u)
    BY <2>1, SwitchTargetSettled
  <2> HIDE DEF u
  <2>3. ScriptEnded(p) = u
    BY <1>1, <2>2, StartWaitingSame DEF ScriptEnded, Settled, u, o
  <2> QED
    BY <2>1, <2>2, <2>3, ClosesOn DEF Goes, Settled
<1>2. CASE ~NoneRunning(p)
  BY <1>2, StartWaitingSame DEF ScriptEnded, Goes, Closes, Settled, Worked
<1> QED
  BY <1>1, <1>2

LEMMA DeleteScriptGoes ==
  ASSUME NEW p, Steady(p), NEW c \in Cameras
  PROVE  /\ Steady(DeleteScript(p, c)) /\ Closes(p, DeleteScript(p, c))
         /\ \A d \in Cameras : Waits(p, d) \/ d = c => Waits(DeleteScript(p, c), d)
<1>1. CASE p.script[c].current = NULL
  <2>1. DeleteScript(p, c) = p
    BY <1>1 DEF DeleteScript
  <2>2. Waits(p, c)
    BY <1>1 DEF Waits, Steady, Follows
  <2> QED
    BY <2>1, <2>2 DEF Closes
<1>2. CASE p.script[c].current # NULL
  <2> DEFINE s == [p.script[c] EXCEPT !.current = NULL, !.todo = FALSE]
             f == [p.script EXCEPT ![c] = s]
             u == [p EXCEPT !.script = f]
  <2>1. DeleteScript(p, c) = ScriptEnded(u)
    BY <1>2 DEF DeleteScript
  <2>2. p \in Process /\ p.script \in [Cameras -> Script] /\ p.script[c] \in Script
    BY DEF Steady, Process
  <2>3. s \in Script /\ s.current = NULL /\ ~s.todo /\ s.kill = p.script[c].kill
        /\ s.next = p.script[c].next
    BY <2>2 DEF Script, Pointer
  <2> HIDE DEF s
  <2>4. f \in [Cameras -> Script] /\ f[c] = s /\ \A d \in Cameras : d # c => f[d] = p.script[d]
    BY <2>2, <2>3
  <2> HIDE DEF f
  <2>5. SameButScripts(p, u) /\ u.script = f
    BY <2>2, <2>4, ScriptsWritten
  <2> HIDE DEF u
  <2>6. \A d \in Cameras : Follows(f[d], p.current)
    BY <2>3, <2>4 DEF Steady, Follows
  <2>7. Steady(u)
    BY <2>5, <2>6 DEF SameButScripts, Steady, Made, Alive, Pointed, Pointers, InQueue, WasMoved,
                      Moving
  <2>8. \A d \in Cameras : Waits(p, d) \/ d = c => Waits(u, d)
    BY <2>3, <2>4, <2>5 DEF SameButScripts, Waits, WasMoved
  <2>9. Closes(p, u)
    BY <2>5 DEF SameButScripts, Closes, Cared
  <2>10. Goes(u, ScriptEnded(u))
    BY <2>7, ScriptEndedGoes
  <2> QED
    BY <2>1, <2>8, <2>9, <2>10, ClosesOn DEF Goes
<1> QED
  BY <1>1, <1>2

\* Every script is ended in turn, also those that the end of another one started.
LEMMA StopObservationMeans ==
  ASSUME NEW p, Steady(p)
  PROVE  /\ Steady(StopObservation(p)) /\ Closes(p, StopObservation(p))
         /\ \A c \in Cameras : Waits(StopObservation(p), c)
<1> DEFINE n == Len(CameraOrder)
           S == {q \in Process : Steady(q)}
           Del(i, q) == DeleteScript(q, CameraOrder[i])
           Is(f) == f = [i \in 0 .. n |-> IF i = 0 THEN p ELSE Del(i, f[i - 1])]
           F == CHOOSE f : Is(f)
<1>1. n \in Nat /\ p \in S /\ \A i \in 1 .. n : CameraOrder[i] \in Cameras
  BY OrderAssumption DEF Cameras, Range, Steady
<1>2. ASSUME NEW i \in 1 .. n, NEW q \in S
      PROVE  /\ Del(i, q) \in S /\ Closes(q, Del(i, q))
             /\ \A d \in Cameras : Waits(q, d) \/ d = CameraOrder[i] => Waits(Del(i, q), d)
  BY <1>1, DeleteScriptGoes DEF Steady
<1>3. StopObservation(p) = F[n]
  BY DEF StopObservation
<1>4. \A d \in Cameras : \E i \in 1 .. n : CameraOrder[i] = d
  BY OrderAssumption DEF Cameras, Range
<1> HIDE DEF n, Del, S
<1>5. PICK f : Is(f)
  <2> DEFINE g == [i \in 1 .. n |-> [q \in S |-> Del(i, q)]]
  <2>1. g \in [1 .. n -> [S -> S]]
    BY <1>2
  <2>2. \A i \in 1 .. n, q \in S : g[i][q] = Del(i, q)
    OBVIOUS
  <2> HIDE DEF g
  <2>3. PICK f \in [0 .. n -> S] : Recurs(f, n, p, g)
    BY <1>1, <2>1, Recursion
  <2>4. \A i \in 0 .. n : i # 0 => i \in 1 .. n /\ i - 1 \in 0 .. n
    BY <1>1
  <2>5. \A i \in 0 .. n : i # 0 => g[i][f[i - 1]] = Del(i, f[i - 1])
    BY <2>2, <2>3, <2>4
  <2> QED
    BY <2>3, <2>5 DEF Recurs
<1>6. Is(F)
  BY <1>5
<1> HIDE DEF F
<1> DEFINE Good(i) == /\ F[i] \in S /\ Closes(p, F[i])
                      /\ \A j \in 1 .. i : Waits(F[i], CameraOrder[j])
           T == {i \in 0 .. n : Good(i)}
<1>7. 0 \in T
  <2>1. F[0] = p
    BY <1>1, <1>6
  <2> QED
    BY <1>1, <2>1 DEF Closes
<1>8. ASSUME NEW i \in 0 .. n, i \in T, i < n
      PROVE  i + 1 \in T
  <2>1. i + 1 \in 1 .. n /\ i + 1 \in 0 .. n /\ i + 1 # 0 /\ (i + 1) - 1 = i
    BY <1>1, <1>8
  <2>2. F[i + 1] = Del(i + 1, F[i])
    BY <1>6, <2>1
  <2>3. F[i + 1] \in S /\ Closes(p, F[i + 1])
    BY <1>2, <1>8, <2>1, <2>2, ClosesOn
  <2>4. \A j \in 1 .. (i + 1) : j = i + 1 \/ j \in 1 .. i
    BY <2>1
  <2>5. \A j \in 1 .. (i + 1) : j \in 1 .. n
    BY <1>1, <2>1
  <2>6. \A j \in 1 .. (i + 1) : Waits(F[i + 1], CameraOrder[j])
    BY <1>1, <1>2, <1>8, <2>1, <2>2, <2>4, <2>5
  <2> QED
    BY <2>1, <2>3, <2>6
<1>9. Good(n)
  <2>1. n \in 0 .. n
    BY <1>1
  <2>2. n \in T
    <3> HIDE DEF T
    <3> QED
      BY <1>1, <1>7, <1>8, <2>1, Reaches
  <2> QED
    BY <2>2
<1> QED
  BY <1>3, <1>4, <1>9 DEF S

LEMMA SwitchIfDoneSettled ==
  ASSUME NEW p, Steady(p), \A c \in Cameras : Waits(p, c)
  PROVE  Settled(SwitchIfDone(p)) /\ Closes(p, SwitchIfDone(p))
<1>1. CASE NoneRunning(p)
  BY <1>1, SwitchTargetSettled DEF SwitchIfDone
<1>2. CASE ~NoneRunning(p)
  BY <1>2 DEF SwitchIfDone, Settled, Worked, Closes
<1> QED
  BY <1>1, <1>2

LEMMA MoveFailedSettled ==
  ASSUME NEW p, Steady(p)
  PROVE  Settled(MoveFailed(p)) /\ Closes(p, MoveFailed(p))
<1> DEFINE u == StopObservation(p)
<1>1. Steady(u) /\ Closes(p, u) /\ \A c \in Cameras : Waits(u, c)
  BY StopObservationMeans
<1> HIDE DEF u
<1>2. Settled(SwitchIfDone(u)) /\ Closes(u, SwitchIfDone(u))
  BY <1>1, SwitchIfDoneSettled
<1> QED
  BY <1>1, <1>2, ClosesOn DEF MoveFailed, u

LEMMA KillAllSteady ==
  ASSUME NEW p, Steady(p)
  PROVE  Steady(KillAll(p)) /\ Closes(p, KillAll(p))
<1> DEFINE u == KillAll(p)
<1>1. /\ SameButScripts(p, u)
      /\ \A c \in Cameras : LET s == u.script[c] IN
           s.current = NULL /\ s.next = NULL /\ ~s.todo /\ s.kill = p.script[c].kill
  BY KillAllMeans DEF Steady
<1> HIDE DEF u
<1>2. \A c \in Cameras : Follows(u.script[c], u.current)
  BY <1>1 DEF Steady, SameButScripts, Follows
<1>3. Made(u) /\ Alive(u) /\ Pointed(u)
  BY <1>1 DEF SameButScripts, Steady, Made, Alive, Pointed, Pointers, InQueue, WasMoved, Moving
<1>4. Closes(p, u)
  BY <1>1 DEF SameButScripts, Closes, Cared
<1> QED
  BY <1>1, <1>2, <1>3, <1>4 DEF Steady, SameButScripts, u

LEMMA DoStopSettled ==
  ASSUME NEW p, Steady(p)
  PROVE  Settled(DoStop(p)) /\ Closes(p, DoStop(p))
<1> DEFINE q == ClearNextTargets(p)
           k == KillAll(q)
<1>1. Steady(q) /\ Closes(p, q)
  BY ClearNextTargetsTidies, TidiesSteady, TidiesCloses DEF Steady
<1> HIDE DEF q
<1>2. Steady(k) /\ Closes(q, k)
  BY <1>1, KillAllSteady
<1>3. DoStop(p) = MoveFailed(k)
  BY DEF DoStop, MoveFailed, k, q
<1> HIDE DEF k
<1>4. Settled(MoveFailed(k)) /\ Closes(k, MoveFailed(k))
  BY <1>2, MoveFailedSettled
<1> QED
  BY <1>1, <1>2, <1>3, <1>4, ClosesOn

\* What is queued, created or flagged beside the current target.
Beside(p, u) ==
  /\ u \in Process
  /\ u.current = p.current /\ u.script = p.script /\ u.tel = p.tel /\ u.held = p.held
  /\ Len(p.targets) <= Len(u.targets)
  /\ \A o \in 1 .. Len(p.targets) : u.targets[o] = p.targets[o]

LEMMA BesideSteady ==
  ASSUME NEW p, Steady(p), NEW u, Beside(p, u), Made(u), Alive(u)
  PROVE  /\ Steady(u) /\ (\A c \in Cameras : Waits(u, c) <=> Waits(p, c)) /\ (Worked(p) => Worked(u))
         /\ (p.autoLoop => u.autoLoop) => Closes(p, u)
<1>1. /\ p.current # NULL => p.current \in 1 .. Len(p.targets)
      /\ DOMAIN p.targets = 1 .. Len(p.targets) /\ DOMAIN u.targets = 1 .. Len(u.targets)
      /\ Len(p.targets) \in Nat /\ Len(u.targets) \in Nat
  BY DEF Steady, Made, Pointers, Process, NULL, Beside
<1>2. Pointed(u)
  BY <1>1 DEF Steady, Beside, Pointed, WasMoved, Moving
<1>3. Steady(u)
  <2>1. \A c \in Cameras : Follows(u.script[c], u.current)
    BY DEF Steady, Beside
  <2> QED
    BY <1>2, <2>1 DEF Steady, Beside
<1>4. \A c \in Cameras : Waits(u, c) <=> Waits(p, c)
  BY <1>1 DEF Steady, Beside, Waits, WasMoved, Follows
<1>5. (p.autoLoop => u.autoLoop) => Closes(p, u)
  BY <1>1 DEF Beside, Closes, Cared
<1>6. Worked(p) => Worked(u)
  BY DEF Beside, Worked, NoneRunning
<1> QED
  BY <1>3, <1>4, <1>5, <1>6

-----------------------------------------------------------------------------
(* New targets.                                                            *)

LEMMA CreateMeans ==
  ASSUME NEW p \in Process, Made(p), Len(p.targets) < MaxObjects, NEW t \in Targets
  PROVE  LET u == Create(p, t) IN
         /\ Beside(p, u) /\ Made(u) /\ (Alive(p) => Alive(u)) /\ u.autoLoop = p.autoLoop
         /\ Len(u.targets) = Len(p.targets) + 1 /\ u.queue = p.queue /\ u.deleted = p.deleted
         /\ u.targets[Len(u.targets)].id = t
<1> DEFINE n == [id |-> t, started |-> FALSE, obs |-> "none", move |-> "not"]
           s == Append(p.targets, n)
           u == [p EXCEPT !.targets = s]
<1>1. Create(p, t) = u
  BY DEF Create
<1>2. n \in Target /\ p.targets \in Seq(Target) /\ n.id = t
  BY DEF Target, Process
<1> HIDE DEF n
<1>3. /\ s \in Seq(Target) /\ Len(s) = Len(p.targets) + 1 /\ Len(p.targets) \in Nat
      /\ s[Len(s)] = n /\ \A o \in 1 .. Len(p.targets) : s[o] = p.targets[o]
  BY <1>2
<1> HIDE DEF s
<1>4. /\ u \in Process /\ u.targets = s
      /\ u.current = p.current /\ u.script = p.script /\ u.tel = p.tel /\ u.held = p.held
      /\ u.autoLoop = p.autoLoop /\ u.queue = p.queue /\ u.deleted = p.deleted
  BY <1>3 DEF Process
<1> HIDE DEF u
<1>5. Beside(p, u)
  BY <1>3, <1>4 DEF Beside
<1>6. MaxObjects \in Nat
  BY BoundsAssumption
<1>7. Made(u)
  BY <1>3, <1>4, <1>6 DEF Made, Pointers
<1>8. Alive(p) => Alive(u)
  BY <1>4 DEF Alive, InQueue
<1> QED
  BY <1>1, <1>2, <1>3, <1>4, <1>5, <1>7, <1>8

LEMMA AppendRange ==
  ASSUME NEW S, NEW s \in Seq(S), NEW e \in S
  PROVE  Append(s, e) \in Seq(S) /\ Range(Append(s, e)) = Range(s) \cup {e}
<1> DEFINE a == Append(s, e)
<1>1. /\ a \in Seq(S) /\ DOMAIN a = 1 .. (Len(s) + 1) /\ DOMAIN s = 1 .. Len(s) /\ Len(s) \in Nat
      /\ a[Len(s) + 1] = e /\ \A i \in 1 .. Len(s) : a[i] = s[i]
  OBVIOUS
<1> HIDE DEF a
<1>2. \A i \in DOMAIN a : i = Len(s) + 1 \/ i \in 1 .. Len(s)
  BY <1>1
<1>3. \A i \in 1 .. Len(s) : i \in DOMAIN a
  BY <1>1
<1>4. Len(s) + 1 \in DOMAIN a
  BY <1>1
<1>5. Range(a) \subseteq Range(s) \cup {e}
  BY <1>1, <1>2 DEF Range
<1>6. Range(s) \cup {e} \subseteq Range(a)
  BY <1>1, <1>3, <1>4 DEF Range
<1> QED
  BY <1>1, <1>5, <1>6 DEF a

LEMMA AddTargetMeans ==
  ASSUME NEW p, Steady(p), Len(p.targets) < MaxObjects, NEW t \in Targets,
         NEW w \in {"none", "later", "now", "over"}
  PROVE  LET u == AddTarget(p, t, w) IN
         /\ Steady(u) /\ (\A c \in Cameras : Waits(u, c) <=> Waits(p, c)) /\ (Worked(p) => Worked(u))
         /\ Closes(p, u) /\ u.current = p.current
<1> DEFINE q == Create(p, t)
           e == [target |-> Len(q.targets), window |-> w]
           s == Append(q.queue, e)
           u == [q EXCEPT !.queue = s]
<1>1. AddTarget(p, t, w) = u
  BY DEF AddTarget
<1>2. /\ Beside(p, q) /\ Made(q) /\ Alive(q) /\ q.autoLoop = p.autoLoop
      /\ Len(q.targets) = Len(p.targets) + 1 /\ q.queue = p.queue /\ q.deleted = p.deleted
  BY CreateMeans DEF Steady
<1> HIDE DEF q
<1>3. /\ Len(p.targets) \in Nat /\ q.queue \in Seq(Entry) /\ q \in Process
      /\ p.deleted \subseteq 1 .. Len(p.targets)
  BY <1>2 DEF Steady, Made, Process, Beside
<1>4. e \in Entry /\ e.target = Len(p.targets) + 1
  BY <1>2, <1>3, BoundsAssumption DEF Entry, Objects, Made
<1> HIDE DEF e
<1>5. s \in Seq(Entry) /\ Range(s) = Range(q.queue) \cup {e}
  BY <1>3, <1>4, AppendRange
<1> HIDE DEF s
<1>6. /\ u \in Process /\ u.queue = s /\ u.targets = q.targets
      /\ u.current = q.current /\ u.script = q.script /\ u.tel = q.tel /\ u.held = q.held
      /\ u.autoLoop = q.autoLoop /\ u.deleted = q.deleted
  BY <1>3, <1>5 DEF Process
<1> HIDE DEF u
<1>7. Beside(p, u) /\ (p.autoLoop => u.autoLoop) /\ u.current = p.current
  BY <1>2, <1>6 DEF Beside
<1>8. Made(u)
  BY <1>2, <1>3, <1>4, <1>5, <1>6 DEF Made, Pointers
<1>9. Alive(u)
  <2>1. InQueue(u) = InQueue(q) \cup {Len(p.targets) + 1}
    BY <1>4, <1>5, <1>6 DEF InQueue
  <2>2. Len(p.targets) + 1 \notin p.deleted
    BY <1>3
  <2> QED
    BY <1>2, <1>6, <2>1, <2>2 DEF Alive
<1> QED
  BY <1>1, <1>7, <1>8, <1>9, BesideSteady

LEMMA NobodyRuns ==
  ASSUME NEW p, Steady(p), p.current = NULL
  PROVE  NoneRunning(p)
BY DEF Steady, Follows, NoneRunning, Running, NULL

LEMMA QueueTargetSettled ==
  ASSUME NEW p, Settled(p), Len(p.targets) < MaxObjects, NEW t \in Targets,
         NEW w \in {"none", "later", "now", "over"}
  PROVE  Settled(QueueTarget(p, t, w)) /\ Closes(p, QueueTarget(p, t, w))
<1> DEFINE q == AddTarget(p, t, w)
<1>1. /\ Settled(q) /\ Closes(p, q) /\ q.current = p.current
  BY AddTargetMeans DEF Settled
<1>2. QueueTarget(p, t, w) = IF q.current = NULL THEN SwitchTarget(q) ELSE q
  BY DEF QueueTarget
<1> HIDE DEF q
<1>3. CASE q.current = NULL
  <2>1. Settled(SwitchTarget(q)) /\ Closes(q, SwitchTarget(q))
    BY <1>1, <1>3, NobodyRuns, SwitchTargetSettled DEF Settled
  <2> QED
    BY <1>1, <1>2, <1>3, <2>1, ClosesOn
<1>4. CASE q.current # NULL
  BY <1>1, <1>2, <1>4
<1> QED
  BY <1>3, <1>4

LEMMA ClearNextTargetsSettled ==
  ASSUME NEW p, Settled(p)
  PROVE  /\ Settled(ClearNextTargets(p)) /\ Closes(p, ClearNextTargets(p))
         /\ ClearNextTargets(p).targets = p.targets
<1>1. Tidies(p, ClearNextTargets(p))
  BY ClearNextTargetsTidies DEF Settled, Steady
<1> QED
  BY <1>1, TidiesSteady, TidiesCloses DEF Settled, Tidies

LEMMA SetNextSettled ==
  ASSUME NEW p, Settled(p), Len(p.targets) < MaxObjects, NEW t \in Targets
  PROVE  Settled(SetNext(p, t)) /\ Closes(p, SetNext(p, t))
<1> DEFINE q == IF p.queue # <<>> THEN ClearNextTargets(p) ELSE p
<1>1. Settled(q) /\ Closes(p, q) /\ q.targets = p.targets
  BY ClearNextTargetsSettled DEF Closes
<1>2. SetNext(p, t) = p \/ SetNext(p, t) = QueueTarget(q, t, "none")
  BY DEF SetNext
<1> HIDE DEF q
<1>3. Settled(QueueTarget(q, t, "none")) /\ Closes(q, QueueTarget(q, t, "none"))
  BY <1>1, QueueTargetSettled
<1>4. Closes(p, QueueTarget(q, t, "none"))
  BY <1>1, <1>3, ClosesOn
<1>5. Closes(p, p)
  BY DEF Closes
<1> QED
  BY <1>2, <1>3, <1>4, <1>5

\* The cameras are killed for a new target, and the telescope goes there.
LEMMA InterruptSettled ==
  ASSUME NEW p \in Process, Made(p), Alive(p), p.current # NULL, NEW sent
  PROVE  LET u == Slew(SetTargetKill(ClearAll(p, sent))) IN Settled(u) /\ Closes(p, u)
<1> DEFINE o == p.current
           One(s, c) == [s EXCEPT !.que = IF c \in sent /\ @ # <<>> THEN <<Head(@)>> ELSE <<>>]
           f == [c \in Cameras |-> One(p.script[c], c)]
           m == IF p.tel.moves > 0 THEN 1 ELSE 0
           a == [p EXCEPT !.script = f, !.tel.moves = m]
           k == KillAll(a)
           g == [c \in Cameras |-> [k.script[c] EXCEPT !.kill = o]]
           q == [k EXCEPT !.script = g, !.tel.current = o]
           b == IF q.targets[o].obs = "none" THEN "open" ELSE q.targets[o].obs
           t == [q.targets[o] EXCEPT !.move = "started", !.obs = b]
           n == IF q.tel.moves < MaxMoves THEN q.tel.moves + 1 ELSE q.tel.moves
           v == [q EXCEPT !.targets[o] = t]
           u == [v EXCEPT !.tel.moves = n]
<1>1. o \in 1 .. Len(p.targets) /\ o \in Objects /\ p.targets[o] \in Target
  BY DEF Made, Pointers, Process, NULL, Objects, Pointer
<1>2. f \in [Cameras -> Script]
  <2>1. ASSUME NEW s \in Script, NEW c
        PROVE  One(s, c) \in Script
    <3> DEFINE x == IF c \in sent /\ s.que # <<>> THEN <<Head(s.que)>> ELSE <<>>
    <3>1. x \in Seq({"expose", "killall"})
      <4>1. s.que \in Seq({"expose", "killall"})
        BY DEF Script
      <4>2. s.que # <<>> => Head(s.que) \in {"expose", "killall"}
        BY <4>1
      <4> QED
        BY <4>2
    <3>2. One(s, c) = [s EXCEPT !.que = x]
      OBVIOUS
    <3> HIDE DEF x
    <3> QED
      BY <3>1, <3>2 DEF Script
  <2>2. \A c \in Cameras : p.script[c] \in Script
    BY DEF Process
  <2> HIDE DEF One
  <2> QED
    BY <2>1, <2>2
<1>3. ClearAll(p, sent) = a
  BY DEF ClearAll
<1>4. m \in 0 .. MaxMoves
  BY BoundsAssumption
<1> HIDE DEF f, m
<1>5. /\ a \in Process /\ a.current = o /\ a.targets = p.targets /\ a.queue = p.queue
      /\ a.deleted = p.deleted /\ a.autoLoop = p.autoLoop
  BY <1>2, <1>4 DEF Process
<1>6. SetTargetKill(a) = q
  BY <1>5 DEF SetTargetKill
<1> HIDE DEF a
<1>7. /\ SameButScripts(a, k)
      /\ \A c \in Cameras : LET s == k.script[c] IN s.current = NULL /\ s.next = NULL /\ ~s.todo
  BY <1>5, KillAllMeans
<1> HIDE DEF k
<1>8. ASSUME NEW c \in Cameras
      PROVE  /\ g[c] \in Script /\ g[c].current = NULL /\ g[c].next = NULL /\ ~g[c].todo
             /\ g[c].kill = o
  <2> DEFINE s == k.script[c]
             x == [s EXCEPT !.kill = o]
  <2>1. s \in Script /\ s.current = NULL /\ s.next = NULL /\ ~s.todo
    BY <1>7 DEF SameButScripts, Process
  <2>2. g[c] = x
    OBVIOUS
  <2> HIDE DEF s, g
  <2> QED
    BY <1>1, <2>1, <2>2 DEF Script, Pointer
<1>9. g \in [Cameras -> Script]
  BY <1>8
<1> HIDE DEF g
<1>10. /\ q \in Process /\ q.script = g /\ q.tel.current = o
       /\ q.current = o /\ q.targets = p.targets /\ q.queue = p.queue
       /\ q.deleted = p.deleted /\ q.autoLoop = p.autoLoop
  BY <1>1, <1>5, <1>7, <1>9 DEF SameButScripts, Process, Pointer
<1> HIDE DEF q
<1>11. Slew(q) = u
  BY <1>10 DEF Slew
<1>12. t \in Target /\ t.move = "started" /\ t.id = p.targets[o].id
  <2>1. b \in {"none", "open", "closed"}
    BY <1>1, <1>10 DEF Target
  <2> HIDE DEF b
  <2> QED
    BY <1>1, <1>10, <2>1 DEF Target
<1> HIDE DEF t
<1>13. /\ SameButTargets(q, v) /\ v.targets[o] = t
       /\ \A x \in 1 .. Len(p.targets) : x # o => v.targets[x] = p.targets[x]
  BY <1>1, <1>10, <1>12, TargetWritten
<1>14. n \in 0 .. MaxMoves /\ n > 0
  BY <1>10, BoundsAssumption DEF Process
<1> HIDE DEF v, n
<1>15. /\ u \in Process /\ u.script = g /\ u.tel.current = o /\ u.tel.moves = n
       /\ u.current = o /\ u.targets = v.targets /\ u.queue = p.queue
       /\ u.deleted = p.deleted /\ u.autoLoop = p.autoLoop
  BY <1>10, <1>13, <1>14 DEF SameButTargets, Process
<1> HIDE DEF u
<1>16. Len(u.targets) = Len(p.targets) /\ ~WasMoved(u, o) /\ Moving(u)
  BY <1>10, <1>12, <1>13, <1>14, <1>15 DEF SameButTargets, WasMoved, Moving
<1>17. Made(u) /\ Alive(u) /\ Pointed(u)
  BY <1>1, <1>15, <1>16 DEF Made, Alive, Pointed, Pointers, InQueue
<1>18. \A c \in Cameras : Follows(u.script[c], u.current) /\ Waits(u, c)
  BY <1>8, <1>15 DEF Waits, Follows
<1>19. ~NoneRunning(u)
  <2>1. p.targets[o].id \in Targets
    BY <1>1 DEF Target
  <2>2. PICK c \in Cameras : TRUE
    BY <2>1, ScriptsAssumption
  <2> QED
    BY <1>8, <1>15 DEF NoneRunning, Running
<1>20. Closes(p, u)
  <2>1. DOMAIN u.targets = DOMAIN p.targets
    BY <1>1, <1>15, <1>16 DEF Process
  <2>2. DOMAIN p.targets = 1 .. Len(p.targets)
    BY DEF Process
  <2>3. \A x \in DOMAIN p.targets : x # o => u.targets[x] = p.targets[x]
    BY <1>13, <1>15, <2>2
  <2> QED
    BY <1>15, <2>1, <2>3 DEF Closes, Cared
<1> QED
  BY <1>3, <1>6, <1>11, <1>15, <1>17, <1>18, <1>19, <1>20 DEF Settled, Steady, Worked

LEMMA SetNowToSettled ==
  ASSUME NEW p, Settled(p), Len(p.targets) < MaxObjects, NEW t \in Targets, NEW sent
  PROVE  Settled(SetNowTo(p, t, sent)) /\ Closes(p, SetNowTo(p, t, sent))
<1> DEFINE e == EndObservation(p)
           n == Create(e, t)
           o == Len(n.targets)
           m == [n EXCEPT !.current = o, !.held = FALSE]
           q == ClearNextTargets(m)
           u == Slew(SetTargetKill(ClearAll(q, sent)))
<1>1. /\ SameButTargets(p, e)
      /\ \A x \in 1 .. Len(p.targets) : Cared(p, x) => e.targets[x].obs # "open"
  BY EndObservationMeans DEF Settled, Steady, Made
<1>2. SetNowTo(p, t, sent) = u
  BY DEF SetNowTo
<1> HIDE DEF e
<1>3. e \in Process /\ Made(e) /\ Len(e.targets) < MaxObjects /\ Alive(e)
  BY <1>1 DEF Settled, Steady, SameButTargets, Made, Alive, InQueue, Pointers
<1>4. /\ Beside(e, n) /\ Made(n) /\ Alive(n) /\ n.autoLoop = e.autoLoop
      /\ Len(n.targets) = Len(e.targets) + 1 /\ n.deleted = e.deleted
  BY <1>3, CreateMeans
<1> HIDE DEF n
<1>5. /\ n \in Process /\ Len(e.targets) \in Nat /\ e.deleted \subseteq 1 .. Len(e.targets)
      /\ o \in Objects /\ o \in 1 .. Len(n.targets) /\ o = Len(e.targets) + 1
  BY <1>3, <1>4, BoundsAssumption DEF Beside, Made, Process, Objects
<1> HIDE DEF o
<1>6. /\ m \in Process /\ m.current = o /\ m.autoLoop = n.autoLoop
      /\ m.targets = n.targets /\ m.script = n.script /\ m.tel = n.tel /\ m.queue = n.queue
      /\ m.deleted = n.deleted
  BY <1>5 DEF Process, Pointer
<1> HIDE DEF m
<1>7. Made(m)
  BY <1>4, <1>5, <1>6 DEF Made, Pointers
<1>8. Alive(m)
  <2>1. o \notin m.deleted
    BY <1>4, <1>5, <1>6
  <2> QED
    BY <1>4, <1>6, <2>1 DEF Alive, InQueue
<1>9. Closes(p, m)
  <2>1. /\ DOMAIN p.targets = 1 .. Len(p.targets) /\ DOMAIN m.targets = 1 .. Len(m.targets)
        /\ Len(m.targets) = Len(p.targets) + 1 /\ Len(p.targets) \in Nat
    BY <1>1, <1>4, <1>5, <1>6 DEF SameButTargets, Settled, Steady, Process
  <2>2. \A x \in 1 .. Len(p.targets) : m.targets[x] = e.targets[x]
    BY <1>1, <1>4, <1>6 DEF SameButTargets, Beside
  <2> QED
    BY <1>1, <1>4, <1>6, <2>1, <2>2 DEF SameButTargets, Closes, Cared
<1>10. Tidies(m, q)
  BY <1>6, ClearNextTargetsTidies
<1> HIDE DEF q
<1>11. q \in Process /\ Made(q) /\ Alive(q) /\ q.current = o /\ Closes(m, q)
  BY <1>6, <1>7, <1>8, <1>10, TidiesHolds, TidiesCloses DEF Tidies
<1>12. Settled(u) /\ Closes(q, u)
  BY <1>5, <1>11, InterruptSettled DEF Objects, NULL
<1> HIDE DEF u
<1> QED
  BY <1>2, <1>9, <1>11, <1>12, ClosesOn

-----------------------------------------------------------------------------
(* What the devices do.                                                    *)

LEMMA OneScript ==
  ASSUME NEW p, Steady(p), NEW c \in Cameras, NEW s \in Script, Follows(s, p.current),
         NEW u, u = [p EXCEPT !.script[c] = s]
  PROVE  /\ SameButScripts(p, u) /\ Steady(u) /\ Closes(p, u) /\ u.script[c] = s
         /\ \A d \in Cameras : d # c => (u.script[d] = p.script[d] /\ (Waits(p, d) => Waits(u, d)))
         /\ (s.todo => ~WasMoved(p, s.current)) => Waits(u, c)
         /\ Worked(p) /\ (Running(p.script[c]) => Running(s)) => Worked(u)
<1> DEFINE f == [p.script EXCEPT ![c] = s]
<1>1. p \in Process /\ p.script \in [Cameras -> Script]
  BY DEF Steady, Process
<1>2. f \in [Cameras -> Script] /\ f[c] = s /\ \A d \in Cameras : d # c => f[d] = p.script[d]
  BY <1>1
<1>3. u = [p EXCEPT !.script = f]
  OBVIOUS
<1> HIDE DEF f
<1>4. SameButScripts(p, u) /\ u.script = f
  BY <1>1, <1>2, <1>3, ScriptsWritten
<1>5. \A d \in Cameras : Follows(f[d], p.current)
  BY <1>2 DEF Steady
<1>6. Steady(u)
  BY <1>4, <1>5 DEF SameButScripts, Steady, Made, Alive, Pointed, Pointers, InQueue, WasMoved, Moving
<1>7. Closes(p, u)
  BY <1>4 DEF SameButScripts, Closes, Cared
<1>8. \A d \in Cameras : d # c => (u.script[d] = p.script[d] /\ (Waits(p, d) => Waits(u, d)))
  BY <1>2, <1>4 DEF SameButScripts, Waits, WasMoved
<1>9. (s.todo => ~WasMoved(p, s.current)) => Waits(u, c)
  BY <1>2, <1>4 DEF SameButScripts, Waits, WasMoved
<1>10. ASSUME Worked(p), Running(p.script[c]) => Running(s)
       PROVE  Worked(u)
  BY <1>2, <1>4, <1>10 DEF SameButScripts, Worked, NoneRunning
<1> QED
  BY <1>2, <1>4, <1>6, <1>7, <1>8, <1>9, <1>10

Kept(u) == Settled(u) /\ (Closes(exec, u) \/ u.current = exec.current)

LEMMA StepExposureStarts ==
  ASSUME Settled(exec), NEW c \in Cameras, ExposureStarts(c)
  PROVE  Kept(exec')
<1> DEFINE s == exec.script[c]
           q == Tail(s.que)
           r == [s EXCEPT !.que = q, !.exposing = TRUE]
           p == [exec EXCEPT !.script[c] = r]
<1>1. exec \in Process /\ s \in Script /\ Follows(s, exec.current) /\ Steady(exec)
  BY DEF Settled, Steady, Process
<1>2. ~s.exposing /\ s.que # <<>> /\ Head(s.que) = "expose"
  BY DEF ExposureStarts
<1>3. exec' = [exec EXCEPT !.script[c] = r,
                           !.targets = IF s.current = NULL THEN @
                                       ELSE [@ EXCEPT ![s.current].started = TRUE]]
  BY DEF ExposureStarts, Becomes
<1>4. s.que \in Seq({"expose", "killall"})
  BY <1>1 DEF Script
<1>5. /\ q \in Seq({"expose", "killall"}) /\ s.que[1] = "expose"
      /\ DOMAIN q = 1 .. Len(q) /\ DOMAIN s.que = 1 .. Len(s.que)
      /\ Len(q) \in Nat /\ Len(s.que) = Len(q) + 1
      /\ \A i \in 1 .. Len(q) : q[i] = s.que[i + 1]
  BY <1>2, <1>4
<1> HIDE DEF q
<1>6. /\ r \in Script /\ r.current = s.current /\ r.next = s.next /\ r.kill = s.kill
      /\ r.todo = s.todo /\ r.que = q /\ r.exposing
  BY <1>1, <1>5 DEF Script
<1> HIDE DEF r
<1>7. Exposes(s) => Exposes(r)
  <2>1. SUFFICES ASSUME NEW i \in DOMAIN s.que, s.que[i] = "expose",
                        \A j \in DOMAIN s.que : j > i => s.que[j] # "killall"
                 PROVE  Exposes(r)
    BY <1>2 DEF Exposes
  <2>2. CASE i = 1
    <3>1. \A k \in DOMAIN q : k + 1 \in DOMAIN s.que /\ k + 1 > i /\ q[k] = s.que[k + 1]
      BY <1>5, <2>2
    <3>2. \A k \in DOMAIN q : q[k] # "killall"
      BY <2>1, <3>1
    <3> QED
      BY <1>6, <3>2 DEF Exposes, Range
  <2>3. CASE i # 1
    <3>1. i - 1 \in DOMAIN q /\ q[i - 1] = "expose"
      BY <1>5, <2>1, <2>3
    <3>2. \A k \in DOMAIN q : /\ k + 1 \in DOMAIN s.que /\ q[k] = s.que[k + 1]
                               /\ k > i - 1 => k + 1 > i
      BY <1>5
    <3>3. ASSUME NEW k \in DOMAIN q, k > i - 1
          PROVE  q[k] # "killall"
      <4>1. k + 1 \in DOMAIN s.que /\ q[k] = s.que[k + 1] /\ k + 1 > i
        BY <1>5, <3>2, <3>3
      <4> QED
        BY <2>1, <4>1
    <3> QED
      BY <1>6, <3>1, <3>3 DEF Exposes
  <2> QED
    BY <2>2, <2>3
<1>8. Follows(r, exec.current)
  BY <1>1, <1>6, <1>7 DEF Follows
<1>9. Settled(p) /\ Closes(exec, p) /\ SameButScripts(exec, p)
  <2>1. r.todo => ~WasMoved(exec, r.current)
    BY <1>6 DEF Settled, Waits
  <2>2. Running(s) => Running(r)
    BY <1>6 DEF Running
  <2> QED
    BY <1>1, <1>6, <1>8, <2>1, <2>2, OneScript DEF Settled
<1>10. exec' = IF s.current = NULL THEN p ELSE StartObservation(p)
  <2>1. CASE s.current = NULL
    BY <1>1, <1>3, <2>1 DEF Process
  <2>2. CASE s.current # NULL
    <3>1. s.current = exec.current
      BY <1>1, <2>2 DEF Follows
    <3>2. p.current = s.current /\ p.targets = exec.targets
      BY <1>9, <3>1 DEF SameButScripts
    <3> QED
      BY <1>1, <1>3, <2>2, <3>2 DEF StartObservation, Process
  <2> QED
    BY <2>1, <2>2
<1> HIDE DEF p
<1>11. Settled(StartObservation(p)) /\ Closes(p, StartObservation(p))
  BY <1>9, StartObservationMeans DEF Settled
<1> QED
  BY <1>9, <1>10, <1>11, ClosesOn DEF Kept

LEMMA StepExposureEnds ==
  ASSUME Settled(exec), NEW c \in Cameras, ExposureEnds(c)
  PROVE  Kept(exec')
<1> DEFINE s == exec.script[c]
           r == [s EXCEPT !.exposing = FALSE, !.reading = TRUE]
           e == [r EXCEPT !.current = NULL, !.todo = FALSE]
           p == [exec EXCEPT !.script[c] = r]
           v == [exec EXCEPT !.script[c] = e]
<1>1. exec \in Process /\ s \in Script /\ Follows(s, exec.current) /\ Steady(exec)
  BY DEF Settled, Steady, Process
<1>2. /\ r \in Script /\ r.current = s.current /\ r.next = s.next /\ r.kill = s.kill
      /\ r.todo = s.todo /\ r.que = s.que
  BY <1>1 DEF Script
<1>3. /\ e \in Script /\ e.current = NULL /\ e.next = s.next /\ e.kill = s.kill /\ ~e.todo
  BY <1>1 DEF Script, Pointer
<1>4. p.script[c] = r /\ p.script \in [Cameras -> Script]
  BY <1>1, <1>2 DEF Process
<1>5. exec' = IF r.current # NULL /\ ~r.todo /\ "expose" \notin Range(r.que)
              THEN SwitchIfDone(DeleteScript(p, c)) ELSE p
  BY <1>4 DEF ExposureEnds, Becomes
<1>6. CASE r.current # NULL /\ ~r.todo /\ "expose" \notin Range(r.que)
  <2>1. DeleteScript(p, c) = ScriptEnded(v)
    <3>1. [p EXCEPT !.script[c] = e] = v
      BY <1>1 DEF Process
    <3> QED
      BY <1>4, <1>6, <3>1 DEF DeleteScript
  <2> HIDE DEF e
  <2>2. Follows(e, exec.current)
    BY <1>1, <1>3 DEF Follows
  <2>3. Steady(v) /\ Closes(exec, v) /\ \A d \in Cameras : Waits(v, d)
    BY <1>1, <1>3, <2>2, OneScript DEF Settled
  <2> HIDE DEF v
  <2>4. /\ Steady(ScriptEnded(v)) /\ Closes(v, ScriptEnded(v))
        /\ \A d \in Cameras : Waits(ScriptEnded(v), d)
    BY <2>3, ScriptEndedGoes DEF Goes
  <2>5. /\ Settled(SwitchIfDone(ScriptEnded(v)))
        /\ Closes(ScriptEnded(v), SwitchIfDone(ScriptEnded(v)))
    BY <2>4, SwitchIfDoneSettled
  <2> QED
    BY <1>5, <1>6, <2>1, <2>3, <2>4, <2>5, ClosesOn DEF Kept
<1>7. CASE ~(r.current # NULL /\ ~r.todo /\ "expose" \notin Range(r.que))
  <2> HIDE DEF r
  <2>1. Exposes(s) /\ "expose" \in Range(s.que) => Exposes(r)
    <3>1. SUFFICES ASSUME s.exposing, "killall" \notin Range(s.que), "expose" \in Range(s.que)
                   PROVE  Exposes(r)
      BY <1>2 DEF Exposes
    <3>2. PICK i \in DOMAIN s.que : s.que[i] = "expose"
      BY <3>1 DEF Range
    <3>3. \A j \in DOMAIN s.que : s.que[j] # "killall"
      BY <3>1 DEF Range
    <3> QED
      BY <1>2, <3>2, <3>3 DEF Exposes
  <2>2. Follows(r, exec.current)
    BY <1>1, <1>2, <1>7, <2>1 DEF Follows
  <2>3. r.todo => ~WasMoved(exec, r.current)
    BY <1>2 DEF Settled, Waits
  <2>4. Running(s) => Running(r)
    BY <1>2 DEF Running
  <2>5. Settled(p) /\ Closes(exec, p)
    BY <1>1, <1>2, <2>2, <2>3, <2>4, OneScript DEF Settled
  <2> QED
    BY <1>5, <1>7, <2>5 DEF Kept
<1> QED
  BY <1>6, <1>7

LEMMA StepReadoutEnds ==
  ASSUME Settled(exec), NEW c \in Cameras, ReadoutEnds(c)
  PROVE  Kept(exec')
<1> DEFINE s == exec.script[c]
           r == [s EXCEPT !.reading = FALSE]
           p == [exec EXCEPT !.script[c] = r]
<1>1. exec \in Process /\ s \in Script /\ Follows(s, exec.current) /\ Steady(exec)
  BY DEF Settled, Steady, Process
<1>2. /\ r \in Script /\ r.current = s.current /\ r.next = s.next /\ r.kill = s.kill
      /\ r.todo = s.todo /\ r.que = s.que /\ r.exposing = s.exposing
  BY <1>1 DEF Script
<1>3. exec' = IF p.script[c].current = NULL THEN ScriptEnded(p) ELSE p
  BY DEF ReadoutEnds, Becomes
<1> HIDE DEF r
<1>4. Follows(r, exec.current)
  BY <1>1, <1>2 DEF Follows, Exposes
<1>5. r.todo => ~WasMoved(exec, r.current)
  BY <1>2 DEF Settled, Waits
<1>6. Running(s) => Running(r)
  BY <1>2 DEF Running
<1>7. Settled(p) /\ Closes(exec, p)
  BY <1>1, <1>2, <1>4, <1>5, <1>6, OneScript DEF Settled
<1> HIDE DEF p
<1>8. Settled(ScriptEnded(p)) /\ Closes(p, ScriptEnded(p))
  BY <1>7, ScriptEndedGoes DEF Settled, Goes
<1> QED
  BY <1>3, <1>7, <1>8, ClosesOn DEF Kept

\* The camera has executed what would have killed the exposure.
LEMMA HeadKilled ==
  ASSUME NEW s \in Script, s.que # <<>>, Head(s.que) = "killall", Exposes(s)
  PROVE  \E i \in DOMAIN Tail(s.que) : Tail(s.que)[i] = "expose" /\
           \A j \in DOMAIN Tail(s.que) : j > i => Tail(s.que)[j] # "killall"
<1> DEFINE q == Tail(s.que)
<1>1. s.que \in Seq({"expose", "killall"})
  BY DEF Script
<1>2. /\ s.que[1] = "killall" /\ 1 \in DOMAIN s.que
      /\ DOMAIN q = 1 .. Len(q) /\ DOMAIN s.que = 1 .. Len(s.que)
      /\ Len(q) \in Nat /\ Len(s.que) = Len(q) + 1
      /\ \A i \in 1 .. Len(q) : q[i] = s.que[i + 1]
  BY <1>1
<1> HIDE DEF q
<1>3. "killall" \in Range(s.que)
  BY <1>2 DEF Range
<1>4. PICK i \in DOMAIN s.que :
        s.que[i] = "expose" /\ \A j \in DOMAIN s.que : j > i => s.que[j] # "killall"
  BY <1>3 DEF Exposes
<1>5. i - 1 \in DOMAIN q /\ q[i - 1] = "expose"
  BY <1>2, <1>4
<1>6. \A k \in DOMAIN q : /\ k + 1 \in DOMAIN s.que /\ q[k] = s.que[k + 1]
                          /\ k > i - 1 => k + 1 > i
  BY <1>2
<1>7. \A k \in DOMAIN q : k > i - 1 => q[k] # "killall"
  BY <1>4, <1>6
<1> QED
  BY <1>5, <1>7 DEF q

LEMMA StepKilled ==
  ASSUME Settled(exec), NEW c \in Cameras, Killed(c)
  PROVE  Kept(exec')
<1> DEFINE q == Tail(exec.script[c].que)
           s == [exec.script[c] EXCEPT !.que = q, !.exposing = FALSE, !.reading = FALSE]
           p == [exec EXCEPT !.script[c] = s]
           t == IF s.current = NULL /\ s.kill # NULL THEN SetTarget(p, c, s.kill) ELSE s
           r == [t EXCEPT !.kill = NULL]
           u == [exec EXCEPT !.script[c] = r]
<1>1. /\ exec \in Process /\ exec.script[c] \in Script /\ Follows(exec.script[c], exec.current)
      /\ Steady(exec)
  BY DEF Settled, Steady, Process
<1>2. exec.script[c].que # <<>> /\ Head(exec.script[c].que) = "killall"
  BY DEF Killed
<1>3. exec' = IF "killall" \in Range(s.que) THEN p ELSE Held([p EXCEPT !.script[c] = r])
  BY DEF Killed, Becomes
<1>4. [p EXCEPT !.script[c] = r] = u
  <2> HIDE DEF s, r, q, t
  <2> QED
    BY <1>1 DEF Process
<1>5. q \in Seq({"expose", "killall"})
  BY <1>1, <1>2 DEF Script
<1>6. Exposes(exec.script[c]) =>
        \E i \in DOMAIN q : q[i] = "expose" /\ \A j \in DOMAIN q : j > i => q[j] # "killall"
  BY <1>1, <1>2, HeadKilled
<1> HIDE DEF q
<1>7. /\ s \in Script /\ s.current = exec.script[c].current /\ s.next = exec.script[c].next
      /\ s.kill = exec.script[c].kill /\ s.todo = exec.script[c].todo /\ s.que = q
  BY <1>1, <1>5 DEF Script
<1> HIDE DEF s
<1>8. Exposes(exec.script[c]) => Exposes(s)
  BY <1>6, <1>7 DEF Exposes
<1>9. Follows(s, exec.current)
  BY <1>1, <1>7, <1>8 DEF Follows
<1>10. s.todo => ~WasMoved(exec, s.current)
  BY <1>7 DEF Settled, Waits
<1>11. Settled(p) /\ Closes(exec, p) /\ SameButScripts(exec, p) /\ p.script[c] = s
  <2>1. Running(exec.script[c]) => Running(s)
    BY <1>7 DEF Running
  <2> QED
    BY <1>1, <1>7, <1>9, <1>10, <2>1, OneScript DEF Settled
<1> HIDE DEF p
<1>12. /\ t \in Script /\ Ready(t) /\ t.current \in {NULL, exec.current} /\ t.next = NULL
       /\ t.todo => ~WasMoved(exec, t.current)
  <2>1. CASE s.current = NULL /\ s.kill # NULL
    <3>1. s.kill = exec.current /\ s.kill \in Objects /\ ~s.todo
      BY <1>7, <1>9, <2>1 DEF Follows, Script, Pointer
    <3>2. /\ SetTarget(p, c, s.kill) \in Script /\ Ready(SetTarget(p, c, s.kill))
          /\ SetTarget(p, c, s.kill).current \in {NULL, s.kill}
          /\ SetTarget(p, c, s.kill).next = NULL
          /\ SetTarget(p, c, s.kill).todo => ~WasMoved(p, SetTarget(p, c, s.kill).current)
      BY <1>11, <2>1, <3>1, SetTargetMeans DEF SameButScripts
    <3> QED
      BY <1>11, <2>1, <3>1, <3>2 DEF SameButScripts, WasMoved
  <2>2. CASE ~(s.current = NULL /\ s.kill # NULL)
    BY <1>7, <1>9, <1>10, <2>2 DEF Follows, Ready
  <2> QED
    BY <2>1, <2>2
<1> HIDE DEF t
<1>13. /\ r \in Script /\ r.current = t.current /\ r.next = t.next /\ r.kill = NULL
       /\ r.todo = t.todo /\ r.que = t.que /\ r.exposing = t.exposing
  BY <1>12 DEF Script, Pointer
<1> HIDE DEF r
<1>14. Follows(r, exec.current) /\ (r.todo => ~WasMoved(exec, r.current))
  BY <1>12, <1>13 DEF Follows, Ready, Exposes
<1>15. Steady(u) /\ Closes(exec, u) /\ \A d \in Cameras : Waits(u, d)
  BY <1>1, <1>13, <1>14, OneScript DEF Settled
<1> HIDE DEF u
<1>16. Settled(Held(u)) /\ Closes(u, Held(u))
  BY <1>15, HeldMeans DEF Settled
<1> QED
  BY <1>3, <1>4, <1>11, <1>15, <1>16, ClosesOn DEF Kept

\* The telescope's client changes, and the telescope looks after the current target.
LEMMA TelescopeWritten ==
  ASSUME NEW p, Steady(p),
         NEW tel \in [current : Pointer, moves : 0 .. MaxMoves, slewing : BOOLEAN],
         tel.current = p.tel.current, NEW u, u = [p EXCEPT !.tel = tel]
  PROVE  /\ u \in Process /\ u.tel = tel /\ u.current = p.current /\ u.targets = p.targets
         /\ u.script = p.script /\ u.queue = p.queue /\ u.held = p.held /\ u.autoLoop = p.autoLoop
         /\ Made(u) /\ Alive(u) /\ Closes(p, u) /\ (Worked(p) => Worked(u))
         /\ \A c \in Cameras : Follows(u.script[c], u.current) /\ (Waits(p, c) => Waits(u, c))
<1>1. /\ u \in Process /\ u.tel = tel /\ u.current = p.current /\ u.targets = p.targets
      /\ u.script = p.script /\ u.queue = p.queue /\ u.deleted = p.deleted /\ u.held = p.held
      /\ u.autoLoop = p.autoLoop
  BY DEF Steady, Process
<1> QED
  BY <1>1 DEF Steady, Made, Alive, Closes, Cared, Worked, NoneRunning, Waits, WasMoved, Pointers,
              InQueue

LEMMA StepMoveStarts ==
  ASSUME Settled(exec), MoveStarts
  PROVE  Kept(exec')
<1> DEFINE m == exec.tel.moves - 1
           tel == [exec.tel EXCEPT !.moves = m, !.slewing = TRUE]
           u == [exec EXCEPT !.tel = tel]
<1>1. exec.tel.moves > 0 /\ exec' = u
  BY DEF MoveStarts, Becomes
<1>2. m \in 0 .. MaxMoves
  BY <1>1, BoundsAssumption DEF Settled, Steady, Process
<1> HIDE DEF m
<1>3. /\ tel \in [current : Pointer, moves : 0 .. MaxMoves, slewing : BOOLEAN]
      /\ tel.current = exec.tel.current /\ tel.slewing
  BY <1>2 DEF Settled, Steady, Process
<1> HIDE DEF tel
<1>4. /\ u \in Process /\ u.tel = tel /\ u.current = exec.current
      /\ Made(u) /\ Alive(u) /\ Closes(exec, u) /\ (Worked(exec) => Worked(u))
      /\ \A c \in Cameras : Follows(u.script[c], u.current) /\ (Waits(exec, c) => Waits(u, c))
  BY <1>3, TelescopeWritten DEF Settled
<1> HIDE DEF u
<1>5. Pointed(u)
  BY <1>3, <1>4 DEF Settled, Steady, Pointed, Moving
<1> QED
  BY <1>1, <1>4, <1>5 DEF Kept, Settled, Steady

\* The end of a move is written to the target that the telescope's client has.
LEMMA MovedMeans ==
  ASSUME NEW p, Steady(p),
         NEW tel \in [current : Pointer, moves : 0 .. MaxMoves, slewing : BOOLEAN],
         tel.current = p.tel.current, NEW result \in {"ended", "failed"},
         NEW u, u = Moved([p EXCEPT !.tel = tel], result)
  PROVE  /\ Steady(u) /\ Closes(p, u) /\ u.current = p.current
         /\ Worked(p) => Worked(u)
<1> DEFINE w == [p EXCEPT !.tel = tel]
           o == tel.current
           t == [w.targets[o] EXCEPT !.move = result]
           v == [w EXCEPT !.targets[o] = t]
<1>1. /\ w \in Process /\ w.tel = tel /\ w.current = p.current /\ w.targets = p.targets
      /\ w.held = p.held /\ w.script = p.script
      /\ Made(w) /\ Alive(w) /\ Closes(p, w) /\ (Worked(p) => Worked(w))
      /\ \A c \in Cameras : Follows(w.script[c], w.current)
  BY TelescopeWritten
<1>2. u = IF o = NULL THEN w ELSE v
  <2> HIDE DEF w
  <2>1. u = Moved(w, result)
    BY DEF w
  <2> QED
    BY <1>1, <2>1 DEF Moved
<1> HIDE DEF w
<1>3. CASE o = NULL
  <2>1. w.current = NULL
    BY <1>1, <1>3 DEF Steady, Pointed
  <2> QED
    BY <1>1, <1>2, <1>3, <2>1 DEF Steady, Pointed
<1>4. CASE o # NULL
  <2>1. o \in 1 .. Len(w.targets) /\ w.targets[o] \in Target
    BY <1>1, <1>4 DEF Made, Pointers, Process, NULL
  <2>2. t \in Target /\ t.move = result /\ t.obs = w.targets[o].obs
    BY <2>1 DEF Target
  <2> HIDE DEF t
  <2>3. /\ SameButTargets(w, v) /\ v.targets[o] = t
        /\ \A x \in 1 .. Len(w.targets) : x # o => v.targets[x] = w.targets[x]
    BY <1>1, <2>1, <2>2, TargetWritten
  <2> HIDE DEF v
  <2>4. Made(v) /\ Alive(v)
    BY <1>1, <2>3 DEF SameButTargets, Made, Alive, InQueue, Pointers
  <2>5. Pointed(v)
    BY <1>1, <2>2, <2>3 DEF Steady, SameButTargets, Pointed, WasMoved
  <2>6. Closes(w, v)
    <3>1. DOMAIN v.targets = 1 .. Len(w.targets) /\ DOMAIN w.targets = 1 .. Len(w.targets)
      BY <1>1, <2>3 DEF SameButTargets, Process
    <3> QED
      BY <2>2, <2>3, <3>1 DEF Closes, Cared, SameButTargets
  <2>7. Steady(v)
    BY <1>1, <2>3, <2>4, <2>5 DEF Steady, SameButTargets
  <2>8. Worked(w) => Worked(v)
    BY <2>3 DEF SameButTargets, Worked, NoneRunning
  <2> QED
    BY <1>1, <1>2, <1>4, <2>3, <2>6, <2>7, <2>8, ClosesOn DEF SameButTargets
<1> QED
  BY <1>3, <1>4

LEMMA StepMoveRefused ==
  ASSUME Settled(exec), MoveRefused
  PROVE  Kept(exec')
<1> DEFINE m == exec.tel.moves - 1
           tel == [exec.tel EXCEPT !.moves = m]
           u == Moved([exec EXCEPT !.tel = tel], "failed")
<1>1. exec.tel.moves > 0 /\ exec' = MoveFailed(u)
  BY DEF MoveRefused, Becomes
<1>2. m \in 0 .. MaxMoves
  BY <1>1, BoundsAssumption DEF Settled, Steady, Process
<1> HIDE DEF m
<1>3. /\ tel \in [current : Pointer, moves : 0 .. MaxMoves, slewing : BOOLEAN]
      /\ tel.current = exec.tel.current
  BY <1>2 DEF Settled, Steady, Process
<1> HIDE DEF tel
<1>4. Steady(u) /\ Closes(exec, u)
  BY <1>3, MovedMeans DEF Settled
<1> HIDE DEF u
<1>5. Settled(MoveFailed(u)) /\ Closes(u, MoveFailed(u))
  BY <1>4, MoveFailedSettled
<1> QED
  BY <1>1, <1>4, <1>5, ClosesOn DEF Kept

LEMMA StepMoveBreaks ==
  ASSUME Settled(exec), MoveBreaks
  PROVE  Kept(exec')
<1> DEFINE tel == [exec.tel EXCEPT !.slewing = FALSE]
           u == Moved([exec EXCEPT !.tel = tel], "failed")
<1>1. exec' = MoveFailed(u)
  BY DEF MoveBreaks, Becomes
<1>2. /\ tel \in [current : Pointer, moves : 0 .. MaxMoves, slewing : BOOLEAN]
      /\ tel.current = exec.tel.current
  BY DEF Settled, Steady, Process
<1> HIDE DEF tel
<1>3. Steady(u) /\ Closes(exec, u)
  BY <1>2, MovedMeans DEF Settled
<1> HIDE DEF u
<1>4. Settled(MoveFailed(u)) /\ Closes(u, MoveFailed(u))
  BY <1>3, MoveFailedSettled
<1> QED
  BY <1>1, <1>3, <1>4, ClosesOn DEF Kept

\* At the OK of a move every script that waits for it sends its exposure.
LEMMA ObserveSettled ==
  ASSUME NEW p, Steady(p), Worked(p)
  PROVE  Settled(Observe(p)) /\ Closes(p, Observe(p))
<1> DEFINE f == [c \in Cameras |-> NextCommand(p, StartTarget(p, c))]
           u == Observe(p)
<1>1. p \in Process
  BY DEF Steady
<1>2. ASSUME NEW c \in Cameras
      PROVE  /\ f[c] \in Script /\ Follows(f[c], p.current)
             /\ f[c].todo => ~WasMoved(p, f[c].current)
             /\ Running(f[c]) <=> Running(p.script[c])
  <2> DEFINE s == p.script[c]
  <2>1. s \in Script /\ Ready(s) /\ Follows(s, p.current)
    BY <1>1 DEF Steady, Follows, Ready, Process
  <2>2. StartTarget(p, c) = s
    BY DEF Steady, Follows, StartTarget
  <2>3. f[c] = NextCommand(p, s)
    BY <2>2
  <2>4. /\ NextCommand(p, s) \in Script /\ Ready(NextCommand(p, s))
        /\ NextCommand(p, s).current = s.current /\ NextCommand(p, s).kill = s.kill
        /\ NextCommand(p, s).next = s.next
        /\ NextCommand(p, s).todo => ~WasMoved(p, s.current)
    BY <2>1, NextCommandMeans
  <2> HIDE DEF f, s
  <2>5. Running(f[c]) <=> Running(s)
    BY <2>3, <2>4 DEF Running
  <2> QED
    BY <2>1, <2>3, <2>4, <2>5 DEF Follows, Ready, s
<1>3. f \in [Cameras -> Script]
  BY <1>2
<1>4. u = [p EXCEPT !.script = f]
  BY DEF Observe
<1> HIDE DEF f
<1>5. SameButScripts(p, u) /\ u.script = f
  BY <1>1, <1>3, <1>4, ScriptsWritten
<1> HIDE DEF u
<1>6. Made(u) /\ Alive(u) /\ Pointed(u)
  BY <1>5 DEF SameButScripts, Steady, Made, Alive, Pointed, Pointers, InQueue, WasMoved, Moving
<1>7. \A c \in Cameras : Follows(u.script[c], u.current) /\ Waits(u, c)
  BY <1>2, <1>5 DEF SameButScripts, Waits, WasMoved
<1>8. Worked(u)
  BY <1>2, <1>5 DEF SameButScripts, Worked, NoneRunning
<1>9. Closes(p, u)
  BY <1>5 DEF SameButScripts, Closes, Cared
<1> QED
  BY <1>5, <1>6, <1>7, <1>8, <1>9 DEF Settled, Steady, SameButScripts, u

LEMMA StepMoveEnds ==
  ASSUME Settled(exec), MoveEnds
  PROVE  Kept(exec')
<1> DEFINE tel == [exec.tel EXCEPT !.slewing = FALSE]
           u == Moved([exec EXCEPT !.tel = tel], "ended")
<1>1. exec' = MoveOk(u)
  BY DEF MoveEnds, Becomes
<1>2. /\ tel \in [current : Pointer, moves : 0 .. MaxMoves, slewing : BOOLEAN]
      /\ tel.current = exec.tel.current
  BY DEF Settled, Steady, Process
<1> HIDE DEF tel
<1>3. Steady(u) /\ Closes(exec, u) /\ Worked(u)
  BY <1>2, MovedMeans DEF Settled
<1> HIDE DEF u
<1>4. Settled(MoveOk(u)) /\ Closes(u, MoveOk(u))
  <2>1. CASE u.current = NULL
    BY <1>3, <2>1, NobodyRuns, NoneWaits DEF MoveOk, Settled, Closes
  <2>2. CASE u.current # NULL
    BY <1>3, <2>2, ObserveSettled DEF MoveOk
  <2> QED
    BY <2>1, <2>2
<1> QED
  BY <1>1, <1>3, <1>4, ClosesOn DEF Kept

-----------------------------------------------------------------------------
(* What the executor is told.                                              *)

\* Flags, and the times of the queue.
Same(p, u) ==
  /\ u \in Process
  /\ u.current = p.current /\ u.targets = p.targets /\ u.script = p.script /\ u.tel = p.tel
  /\ u.held = p.held /\ u.deleted = p.deleted /\ InQueue(u) = InQueue(p)

LEMMA SameSteady ==
  ASSUME NEW p, Steady(p), NEW u, Same(p, u)
  PROVE  /\ Steady(u) /\ (Settled(p) => Settled(u))
         /\ (p.autoLoop => u.autoLoop) => Closes(p, u)
<1>1. p \in Process /\ Len(p.targets) \in Nat
  BY DEF Steady, Process
<1>2. Beside(p, u)
  BY <1>1 DEF Same, Beside
<1>3. Made(u)
  <2>1. \A e \in Range(p.queue) : e.target \in 1 .. Len(p.targets)
    BY DEF Steady, Made
  <2>2. \A o \in InQueue(p) : o \in 1 .. Len(p.targets)
    BY <2>1 DEF InQueue
  <2>3. \A e \in Range(u.queue) : e.target \in InQueue(u)
    BY DEF InQueue
  <2> QED
    BY <2>2, <2>3 DEF Steady, Made, Same, Pointers
<1>4. Alive(u)
  BY DEF Steady, Alive, Same
<1> QED
  BY <1>2, <1>3, <1>4, BesideSteady DEF Settled

LEMMA StepQueue ==
  ASSUME Settled(exec), Queue
  PROVE  Kept(exec')
<1>1. PICK t \in Targets, w \in {"none", "later", "now"} : exec' = QueueTarget(exec, t, w)
  BY DEF Queue, Told
<1> QED
  BY <1>1, QueueTargetSettled DEF Queue, CanCreate, Kept

LEMMA StepNextTarget ==
  ASSUME Settled(exec), NextTarget
  PROVE  Kept(exec')
<1>1. PICK t \in Targets : exec' = SetNext(exec, t)
  BY DEF NextTarget, Told
<1> QED
  BY <1>1, SetNextSettled DEF NextTarget, CanCreate, Kept

LEMMA SetNowSettled ==
  ASSUME NEW p, Settled(p), Len(p.targets) < MaxObjects, NEW t \in Targets, NEW sent
  PROVE  Settled(SetNow(p, t, sent)) /\ Closes(p, SetNow(p, t, sent))
<1>1. CASE p.current = NULL
  BY <1>1, SetNextSettled DEF SetNow
<1>2. CASE p.current # NULL
  BY <1>2, SetNowToSettled DEF SetNow
<1> QED
  BY <1>1, <1>2

LEMMA StepNow ==
  ASSUME Settled(exec), Now
  PROVE  Kept(exec')
<1>1. PICK t \in Targets, sent \in SUBSET Cameras : exec' = SetNow(exec, t, sent)
  BY DEF Now, Told
<1> QED
  BY <1>1, SetNowSettled DEF Now, CanCreate, Kept

LEMMA StepSkip ==
  ASSUME Settled(exec), Skip
  PROVE  Kept(exec')
<1> DEFINE t == exec.targets[Head(exec.queue).target].id
<1>1. PICK sent \in SUBSET Cameras : exec' = SetNow(exec, t, sent)
  BY DEF Skip, Told
<1>2. t \in Targets
  <2>1. exec.queue \in Seq(Entry) /\ exec.queue # <<>> /\ exec.targets \in Seq(Target)
    BY DEF Skip, Settled, Steady, Process
  <2>2. Head(exec.queue) \in Range(exec.queue)
    BY <2>1 DEF Range
  <2>3. Head(exec.queue).target \in 1 .. Len(exec.targets)
    BY <2>2 DEF Settled, Steady, Made
  <2>4. exec.targets[Head(exec.queue).target] \in Target
    BY <2>1, <2>3
  <2> QED
    BY <2>4 DEF Target
<1> HIDE DEF t
<1> QED
  BY <1>1, <1>2, SetNowSettled DEF Skip, CanCreate, Kept

LEMMA StepGrb ==
  ASSUME Settled(exec), Grb
  PROVE  Kept(exec')
<1>1. PICK t \in Targets :
        \/ \E sent \in SUBSET Cameras : Told(SetNowTo(exec, t, sent))
        \/ exec.current # NULL /\ Told(AddTarget(ClearNextTargets(exec), t, "none"))
  BY DEF Grb
<1>2. Len(exec.targets) < MaxObjects
  BY DEF Grb, CanCreate
<1>3. CASE \E sent \in SUBSET Cameras : Told(SetNowTo(exec, t, sent))
  BY <1>2, <1>3, SetNowToSettled DEF Told, Kept
<1>4. CASE exec.current # NULL /\ Told(AddTarget(ClearNextTargets(exec), t, "none"))
  <2> DEFINE q == ClearNextTargets(exec)
             u == AddTarget(q, t, "none")
  <2>1. Settled(q) /\ Closes(exec, q) /\ q.targets = exec.targets
    BY ClearNextTargetsSettled
  <2>2. exec' = u
    BY <1>4 DEF Told
  <2> HIDE DEF q
  <2>3. /\ Steady(u) /\ (\A c \in Cameras : Waits(u, c) <=> Waits(q, c))
        /\ (Worked(q) => Worked(u)) /\ Closes(q, u)
    BY <1>2, <2>1, AddTargetMeans DEF Settled
  <2> HIDE DEF u
  <2> QED
    BY <2>1, <2>2, <2>3, ClosesOn DEF Settled, Kept
<1> QED
  BY <1>1, <1>3, <1>4

LEMMA StepStop ==
  ASSUME Settled(exec), Stop
  PROVE  Kept(exec')
<1> DEFINE p == [exec EXCEPT !.end = TRUE]
<1>1. exec' = DoStop(p)
  BY DEF Stop, Told
<1>2. Same(exec, p) /\ p.autoLoop = exec.autoLoop
  BY DEF Settled, Steady, Process, Same, InQueue
<1> HIDE DEF p
<1>3. Steady(p) /\ Closes(exec, p)
  BY <1>2, SameSteady DEF Settled
<1> QED
  BY <1>1, <1>3, DoStopSettled, ClosesOn DEF Kept

LEMMA StepDisable ==
  ASSUME Settled(exec), Disable
  PROVE  Kept(exec')
<1> DEFINE p == DoStop(exec)
           u == [p EXCEPT !.enabled = FALSE]
<1>1. exec' = u
  BY DEF Disable, Told
<1>2. Settled(p) /\ Closes(exec, p)
  BY DoStopSettled DEF Settled
<1> HIDE DEF p
<1>3. Same(p, u) /\ p.autoLoop = u.autoLoop
  BY <1>2 DEF Settled, Steady, Process, Same, InQueue
<1> HIDE DEF u
<1>4. Settled(u) /\ Closes(p, u)
  BY <1>2, <1>3, SameSteady DEF Settled
<1> QED
  BY <1>1, <1>2, <1>4, ClosesOn DEF Kept

LEMMA StepFlags ==
  ASSUME Settled(exec), End \/ SetAutoLoop \/ Enable
  PROVE  Kept(exec')
<1>1. exec \in Process
  BY DEF Settled, Steady
<1>2. Same(exec, exec')
  <2>1. CASE End
    BY <1>1, <2>1 DEF End, Told, Process, Same, InQueue
  <2>2. CASE SetAutoLoop
    BY <1>1, <2>2 DEF SetAutoLoop, Told, Process, Same, InQueue
  <2>3. CASE Enable
    BY <1>1, <2>3 DEF Enable, Told, Process, Same, InQueue
  <2> QED
    BY <2>1, <2>2, <2>3
<1> QED
  BY <1>2, SameSteady DEF Settled, Same, Kept

LEMMA StepClear ==
  ASSUME Settled(exec), Clear
  PROVE  Kept(exec')
BY ClearNextTargetsSettled DEF Clear, Told, Kept

LEMMA StepChangeMasterState ==
  ASSUME Settled(exec), ChangeMasterState
  PROVE  Kept(exec')
<1>1. PICK n \in {"day", "morning", "night"} :
        LET p == [exec EXCEPT !.night = n]
            q == [p EXCEPT !.end = FALSE]
        IN exec' = (IF n = "day" THEN DoStop(p)
                    ELSE IF q.current = NULL /\ q.queue # <<>> THEN SwitchTarget(q) ELSE q)
  BY DEF ChangeMasterState, Told
<1> DEFINE p == [exec EXCEPT !.night = n]
           q == [p EXCEPT !.end = FALSE]
<1>2. exec' = IF n = "day" THEN DoStop(p)
              ELSE IF q.current = NULL /\ q.queue # <<>> THEN SwitchTarget(q) ELSE q
  BY <1>1
<1>3. Same(exec, p) /\ p.autoLoop = exec.autoLoop
  BY DEF Settled, Steady, Process, Same, InQueue
<1> HIDE DEF p
<1>4. Settled(p) /\ Closes(exec, p)
  BY <1>3, SameSteady DEF Settled
<1>5. Same(p, q) /\ q.autoLoop = p.autoLoop
  BY <1>4 DEF Settled, Steady, Process, Same, InQueue
<1> HIDE DEF q
<1>6. Settled(q) /\ Closes(exec, q)
  BY <1>4, <1>5, SameSteady, ClosesOn DEF Settled
<1>7. CASE n = "day"
  BY <1>2, <1>4, <1>7, DoStopSettled, ClosesOn DEF Settled, Kept
<1>8. CASE n # "day" /\ q.current = NULL /\ q.queue # <<>>
  <2>1. Settled(SwitchTarget(q)) /\ Closes(q, SwitchTarget(q))
    BY <1>6, <1>8, NobodyRuns, SwitchTargetSettled DEF Settled
  <2> QED
    BY <1>2, <1>6, <1>8, <2>1, ClosesOn DEF Kept
<1>9. CASE n # "day" /\ ~(q.current = NULL /\ q.queue # <<>>)
  BY <1>2, <1>6, <1>9 DEF Kept
<1> QED
  BY <1>7, <1>8, <1>9

LEMMA StepTimePasses ==
  ASSUME Settled(exec), TimePasses
  PROVE  Kept(exec')
<1>1. PICK i \in DOMAIN exec.queue :
        LET w == exec.queue[i].window IN
        /\ w \in {"later", "now"}
        /\ Told([exec EXCEPT !.queue[i].window = IF w = "later" THEN "now" ELSE "over"])
  BY DEF TimePasses
<1> DEFINE n == IF exec.queue[i].window = "later" THEN "now" ELSE "over"
           e == [exec.queue[i] EXCEPT !.window = n]
           s == [exec.queue EXCEPT ![i] = e]
           u == [exec EXCEPT !.queue = s]
<1>2. exec' = u
  BY <1>1 DEF Told
<1>3. exec.queue \in Seq(Entry) /\ exec.queue[i] \in Entry /\ n \in {"now", "over"}
  BY DEF Settled, Steady, Process
<1> HIDE DEF n
<1>4. e \in Entry /\ e.target = exec.queue[i].target
  BY <1>3 DEF Entry
<1> HIDE DEF e
<1>5. s \in Seq(Entry) /\ DOMAIN s = DOMAIN exec.queue /\ s[i] = e
      /\ \A j \in DOMAIN s : j # i => s[j] = exec.queue[j]
  BY <1>3, <1>4
<1> HIDE DEF s
<1>6. {s[j].target : j \in DOMAIN s} = {exec.queue[j].target : j \in DOMAIN exec.queue}
  <2>1. \A j \in DOMAIN s : s[j].target = exec.queue[j].target
    BY <1>4, <1>5
  <2> QED
    BY <1>5, <2>1
<1>7. /\ u \in Process /\ u.queue = s /\ u.autoLoop = exec.autoLoop
      /\ u.current = exec.current /\ u.targets = exec.targets /\ u.script = exec.script
      /\ u.tel = exec.tel /\ u.held = exec.held /\ u.deleted = exec.deleted
  BY <1>5 DEF Settled, Steady, Process
<1> HIDE DEF u
<1>8. \A p : InQueue(p) = {p.queue[j].target : j \in DOMAIN p.queue}
  BY DEF InQueue, Range
<1>9. Same(exec, u)
  BY <1>6, <1>7, <1>8 DEF Same
<1> QED
  BY <1>2, <1>7, <1>9, SameSteady DEF Settled, Kept

-----------------------------------------------------------------------------
(* The theorems.                                                           *)

LEMMA InitIInv == Init => IInv
<1> SUFFICES ASSUME Init
             PROVE  IInv
  OBVIOUS
<1>1. PICK night \in {"day", "night"} : exec =
            [current |-> NULL, queue |-> <<>>, autoLoop |-> TRUE, enabled |-> TRUE,
             end |-> FALSE, held |-> FALSE, night |-> night, targets |-> <<>>, deleted |-> {},
             script |-> [c \in Cameras |-> Idle],
             tel |-> [current |-> NULL, moves |-> 0, slewing |-> FALSE]]
  BY DEF Init
<1>2. Idle \in Script
  <2>1. <<>> \in Seq({"expose", "killall"})
    OBVIOUS
  <2> QED
    BY <2>1 DEF Idle, Script, Pointer
<1>3. exec \in Process
  <2>1. <<>> \in Seq(Entry) /\ <<>> \in Seq(Target) /\ 0 \in 0 .. MaxMoves /\ NULL \in Pointer
    BY BoundsAssumption DEF Pointer
  <2> HIDE DEF Script
  <2> QED
    BY <1>1, <1>2, <2>1 DEF Process
<1>4. exec.current = NULL /\ exec.tel.current = NULL /\ exec.queue = <<>> /\ exec.targets = <<>>
      /\ exec.deleted = {} /\ \A c \in Cameras : exec.script[c] = Idle
  BY <1>1
<1>5. Range(exec.queue) = {}
  BY <1>4 DEF Range
<1>6. Made(exec) /\ Alive(exec) /\ Pointed(exec) /\ Worked(exec)
  BY <1>4, <1>5, BoundsAssumption DEF Made, Alive, Pointed, Worked, Pointers, NULL
<1>7. \A c \in Cameras : Follows(exec.script[c], exec.current) /\ Waits(exec, c)
  BY <1>4 DEF Follows, Waits, Idle
<1>8. sky \in SUBSET Targets /\ inputs \in 0 .. MaxInputs
  BY BoundsAssumption DEF Init
<1> QED
  BY <1>3, <1>6, <1>7, <1>8 DEF IInv, Steady

LEMMA StepIInv ==
  ASSUME IInv, [Next]_vars
  PROVE  IInv' /\ (Closes(exec, exec') \/ exec'.current = exec.current)
<1>1. Settled(exec)
  BY DEF IInv, Settled
<1>2. Kept(exec')
  <2>1. CASE UNCHANGED vars
    BY <1>1, <2>1 DEF vars, Kept, Closes
  <2>2. CASE Operator
    BY <1>1, <2>2, StepQueue, StepNextTarget, StepNow, StepSkip, StepGrb, StepStop, StepClear,
       StepFlags, StepDisable DEF Operator
  <2>3. CASE ChangeMasterState
    BY <1>1, <2>3, StepChangeMasterState
  <2>4. CASE CameraSteps
    BY <1>1, <2>4, StepExposureStarts, StepExposureEnds, StepReadoutEnds, StepKilled DEF CameraSteps
  <2>5. CASE MoveStarts \/ MoveRefused \/ MoveEnds \/ MoveBreaks
    BY <1>1, <2>5, StepMoveStarts, StepMoveRefused, StepMoveEnds, StepMoveBreaks
  <2>6. CASE TimePasses
    BY <1>1, <2>6, StepTimePasses
  <2>7. CASE SkyTurns
    BY <1>1, <2>7 DEF SkyTurns, Kept
  <2> QED
    BY <2>1, <2>2, <2>3, <2>4, <2>5, <2>6, <2>7 DEF Next
<1>3. sky' \in SUBSET Targets /\ inputs' \in 0 .. MaxInputs
  <2>1. \/ sky' = sky \/ sky' \in SUBSET Targets
    BY DEF Next, Operator, CameraSteps, Queue, NextTarget, Now, Skip, Grb, End, Stop, Clear,
           SetAutoLoop, Disable, Enable, ChangeMasterState, ExposureStarts, ExposureEnds,
           ReadoutEnds, Killed, MoveStarts, MoveRefused, MoveEnds, MoveBreaks, TimePasses,
           SkyTurns, Told, Becomes, vars
  <2>2. inputs' = inputs \/ Input
    BY DEF Next, Operator, CameraSteps, Queue, NextTarget, Now, Skip, Grb, End, Stop, Clear,
           SetAutoLoop, Disable, Enable, ChangeMasterState, ExposureStarts, ExposureEnds,
           ReadoutEnds, Killed, MoveStarts, MoveRefused, MoveEnds, MoveBreaks, TimePasses,
           SkyTurns, Told, Becomes, vars
  <2> QED
    BY <2>1, <2>2, BoundsAssumption DEF IInv, Input
<1>4. IInv'
  <2>1. Steady(exec') /\ (\A c \in Cameras : Waits(exec', c)) /\ Worked(exec')
    BY <1>2 DEF Kept, Settled
  <2> QED
    BY <1>3, <2>1 DEF IInv
<1> QED
  BY <1>2, <1>4 DEF Kept

LEMMA Inductive == Spec => []IInv
<1>1. IInv /\ [Next]_vars => IInv'
  BY StepIInv
<1> QED
  BY InitIInv, <1>1, PTL DEF Spec

(* The process keeps its types, and the bounds hold: every pointer of the  *)
(* executor, of its queue and of the scripts is NULL or an object that was *)
(* created, whatever the filters of the queue (executorque.cpp) left and   *)
(* whatever events called each other in one handler.                       *)
THEOREM TypeCorrect == Spec => []TypeOK
<1>1. IInv => TypeOK
  BY DEF IInv, Steady, Made, TypeOK
<1> QED
  BY Inductive, <1>1, PTL

(* No camera works for another target than the executor's: SET_TARGET,     *)
(* SET_TARGET_KILL and the OK of a killall (scriptexec) write the          *)
(* current target only, and a script has ended everywhere before           *)
(* switchTarget replaces it.                                               *)
THEOREM FollowTarget == Spec => []ScriptsFollowTarget
<1>1. IInv => ScriptsFollowTarget
  BY DEF IInv, Steady, Follows, ScriptsFollowTarget
<1> QED
  BY Inductive, <1>1, PTL

(* What the queue deletes is held nowhere: clearNext and the filters keep  *)
(* the current target, and the scripts have no other.                      *)
THEOREM NoneDeleted == Spec => []TargetsAlive
<1>1. IInv => TargetsAlive
  <2> SUFFICES ASSUME IInv
               PROVE  TargetsAlive
    OBVIOUS
  <2>1. exec.deleted \subseteq 1 .. Len(exec.targets)
    BY DEF IInv, Steady, Made
  <2>2. NULL \notin exec.deleted
    BY <2>1 DEF NULL
  <2>3. \A c \in Cameras : {exec.script[c].current, exec.script[c].next, exec.script[c].kill}
                             \subseteq {NULL, exec.current}
    BY DEF IInv, Steady, Follows
  <2> QED
    BY <2>2, <2>3 DEF IInv, Steady, Alive, TargetsAlive
<1> QED
  BY Inductive, <1>1, PTL

(* A script that has not exposed waits for a move that is on its way, and  *)
(* one that has sent its exposure is waiting for it and for nothing that   *)
(* was killed: no order of moves, killalls and interruptions loses the     *)
(* event that a script waits for.                                          *)
THEOREM NoneForgotten == Spec => []NoScriptForgotten
<1>1. IInv => NoScriptForgotten
  <2> SUFFICES ASSUME IInv, NEW c \in Cameras, exec.script[c].current # NULL
               PROVE  LET s == exec.script[c] IN
                      \/ s.todo /\ exec.tel.current = s.current
                                /\ (exec.tel.moves > 0 \/ exec.tel.slewing)
                      \/ s.exposing \/ "expose" \in Range(s.que)
    BY DEF NoScriptForgotten
  <2> DEFINE s == exec.script[c]
  <2>1. Follows(s, exec.current) /\ Pointed(exec) /\ Waits(exec, c)
    BY DEF IInv, Steady
  <2>2. s.current = exec.current
    BY <2>1 DEF Follows
  <2>3. CASE s.todo
    BY <2>1, <2>2, <2>3 DEF Pointed, Waits, Moving
  <2>4. CASE ~s.todo
    <3>1. Exposes(s)
      BY <2>1, <2>4 DEF Follows
    <3> QED
      BY <3>1 DEF Exposes, Range
  <2> QED
    BY <2>3, <2>4
<1> QED
  BY Inductive, <1>1, PTL

(* A target has a script that will end it: every camera's is counted       *)
(* before the next target is taken, and a killTarget keeps the target of   *)
(* an interruption.  The exception (held) is an executor that was left     *)
(* with its target: disabled, or no camera took the killTarget.            *)
THEOREM WorkedOn == Spec => []TargetWorkedOn
<1>1. IInv => TargetWorkedOn
  BY DEF IInv, Worked, TargetWorkedOn
<1> QED
  BY Inductive, <1>1, PTL

(* A target that the executor gives up has no open observation: every      *)
(* handler that replaces the current target closes its observation first,  *)
(* also the handlers that switch several times in one event.               *)
THEOREM Closed == Spec => ObservationsClosed
<1>1. IInv /\ [Next]_vars =>
        [\A o \in DOMAIN exec.targets :
           exec.current = o /\ exec'.current # o /\ exec.autoLoop => exec'.targets[o].obs # "open"]_vars
  <2> SUFFICES ASSUME IInv, [Next]_vars, NEW o \in DOMAIN exec.targets,
                      exec.current = o, exec'.current # o, exec.autoLoop
               PROVE  exec'.targets[o].obs # "open"
    OBVIOUS
  <2>1. Closes(exec, exec')
    BY StepIInv
  <2> QED
    BY <2>1 DEF Closes, Cared
<1> QED
  BY Inductive, <1>1, PTL DEF Spec, ObservationsClosed

==============================================================================
