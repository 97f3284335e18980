--------------------------- MODULE InterlockExclusion ---------------------------
(***************************************************************************)
(* The theorem the interlock is for: no camera exposes while the mount     *)
(* moves, unless a device took an unrelated state for the answer to its    *)
(* question, for every number of cameras and of other devices.             *)
(*                                                                         *)
(* The argument: the client keeps the mount and the cameras apart while    *)
(* it queues, so a rival of a device with work to do may still work off    *)
(* what it has, but begins nothing.  What the device hears after its       *)
(* question is therefore a state that every rival still at work has        *)
(* reported, and everything centrald sends from there on says so, too,     *)
(* until the last rival is done.                                           *)
(***************************************************************************)
EXTENDS InterlockProofs

-----------------------------------------------------------------------------
(* The invariant.                                                          *)

\* d has something to do, or the client has for it
Engaged(d) == client[d].run # NoCommand \/ dev[d].waits > 0

\* the workers that block d and are blocked by it
Rivals(d) == {e \in Workers : Blocks(e, d)}

OneEngaged == \A d \in Workers : Engaged(d) => \A e \in Rivals(d) : ~Engaged(e)

Apart == \A d \in Workers : Raises(dev[d]) => \A e \in Rivals(d) : ~Raises(dev[e])

\* links: from the i-th message on every blocking state is a blocking one
AllOn(l, i) == \A j \in DOMAIN l : j >= i /\ l[j].type = "bop" => l[j].on

\* a blocking state comes before every answer (and, unless late, before every reply), for good
Turns(l, late) == \E i \in DOMAIN l :
  /\ l[i].type = "bop"
  /\ \A j \in DOMAIN l : j < i => l[j].type # "ok" /\ (l[j].reply => late)
  /\ AllOn(l, i)

\* a reply is followed by the answer
Replied(l) == \A i \in DOMAIN l : l[i].reply => \E j \in DOMAIN l : j > i /\ l[j].type = "ok"

Replies(s) == \A d \in Workers : Replied(s.out[d])

\* nobody is asked twice for the same question
AskedOnce(s) == \A e \in Devices : \A i \in DOMAIN s.ask[e] :
  /\ s.running[s.ask[e][i]] # 0
  /\ \A j \in DOMAIN s.ask[e] : s.ask[e][j] = s.ask[e][i] => j = i

\* centrald knows that w blocks, if it does, and w has not reported anything else
Known(w, word) == Raises(w) => word /\ None(w.toServer, "status")

\* the answer of w to centrald is younger than its last change of state
Answers(w) == \A i, j \in DOMAIN w.toServer :
  j > i /\ w.toServer[i].type = "ok" /\ w.toServer[j].type = "status" => ~Raises(w)

WillKnow(w, ask, d) == \E p \in DOMAIN ask : ask[p] = d /\ (p = 1 => Answers(w))

AllKnown(s, v, d) == \A e \in Rivals(d) : Known(v[e], s.word[e])

Coming(s, v, d) == \A e \in Rivals(d) : Known(v[e], s.word[e]) \/ WillKnow(v[e], s.ask[e], d)

\* what d hears from now on is that it is blocked
Told(s, v, d) == AllKnown(s, v, d) /\ AllOn(s.out[d], 1)

\* the answer to the question of d will tell it that it is blocked
Learns(s, v, d) ==
  /\ s.running[d] = 1 => Coming(s, v, d)
  /\ ~None(s.out[d], "ok") => AllKnown(s, v, d) /\ Turns(s.out[d], FALSE)

\* d, which a rival blocks, will not start, and has nothing on its way that starts it
Cautious(k, w, told, learns) ==
  /\ w.waits = 0
  /\ w.asking /\ w.infos = 1 => learns
  /\ k.run = DeviceStatus /\ k.out = <<>> /\ ~w.asking =>
       /\ told /\ w.bop
       /\ Turns(w.toClient, TRUE) \/ (AllOn(w.toClient, 1) /\ k.bop)
  /\ k.run.progress = "run" => told /\ w.bop /\ AllOn(w.toClient, 1) /\ k.bop
  /\ k.run.id > 0 /\ k.run.progress = "return" => k.out = <<>>

Free(v, d) == \A e \in Rivals(d) : ~Raises(v[e])

Fresh(d) == Free(dev, d) \/ Cautious(client[d], dev[d], Told(srv, dev, d), Learns(srv, dev, d))

EInv ==
  /\ OneEngaged
  /\ Replies(srv)
  /\ AskedOnce(srv)
  /\ ~seen.early => Apart /\ \A d \in Workers : Engaged(d) => Fresh(d)

-----------------------------------------------------------------------------
(* Lemmas on links.                                                        *)

LEMMA AllOnAppend ==
  ASSUME NEW l \in Seq(Messages), NEW m \in Messages, (m.type = "bop" => m.on), NEW i, AllOn(l, i)
  PROVE  AllOn(Append(l, m), i)
BY AppendMeans DEF AllOn

LEMMA AllOnTail ==
  ASSUME NEW l \in Seq(Messages), l # <<>>, AllOn(l, 1)
  PROVE  AllOn(Tail(l), 1) /\ (Head(l).type = "bop" => Head(l).on)
BY TailMeans DEF AllOn

LEMMA TurnsAppend ==
  ASSUME NEW l \in Seq(Messages), NEW m \in Messages, (m.type = "bop" => m.on), NEW late, Turns(l, late)
  PROVE  Turns(Append(l, m), late)
<1>1. PICK i \in DOMAIN l : /\ l[i].type = "bop"
                            /\ \A j \in DOMAIN l : j < i => l[j].type # "ok" /\ (l[j].reply => late)
                            /\ AllOn(l, i)
  BY DEF Turns
<1>2. AllOn(Append(l, m), i)
  BY <1>1, AllOnAppend
<1>3. i \in DOMAIN Append(l, m) /\ Append(l, m)[i] = l[i]
  BY <1>1, AppendMeans
<1>4. \A j \in DOMAIN Append(l, m) : j < i => /\ Append(l, m)[j].type # "ok"
                                              /\ Append(l, m)[j].reply => late
  BY <1>1, AppendMeans
<1> QED
  BY <1>1, <1>2, <1>3, <1>4 DEF Turns

\* The blocking state itself.
LEMMA TurnsNew ==
  ASSUME NEW l \in Seq(Messages), NEW m \in Messages, m.type = "bop", m.on, NEW late,
         None(l, "ok"), \A j \in DOMAIN l : l[j].reply => late
  PROVE  Turns(Append(l, m), late)
<1> DEFINE i == Len(l) + 1
           o == Append(l, m)
<1>1. /\ i \in DOMAIN o /\ o[i] = m
      /\ \A j \in DOMAIN o : j >= i => j = i
      /\ \A j \in DOMAIN o : j < i => j \in DOMAIN l /\ o[j] = l[j]
  BY AppendMeans
<1> HIDE DEF i, o
<1>2. AllOn(o, i)
  BY <1>1 DEF AllOn
<1>3. ASSUME NEW j \in DOMAIN o, j < i
      PROVE  o[j].type # "ok" /\ (o[j].reply => late)
  BY <1>1, <1>3 DEF None
<1>4. Turns(o, late)
  BY <1>1, <1>2, <1>3 DEF Turns
<1> QED
  BY <1>4 DEF o

LEMMA TurnsTail ==
  ASSUME NEW l \in Seq(Messages), l # <<>>, NEW late, Turns(l, late)
  PROVE  /\ Head(l).type # "ok"
         /\ \/ Head(l).type = "bop" /\ Head(l).on /\ AllOn(Tail(l), 1)
            \/ (Head(l).reply => late) /\ Turns(Tail(l), late)
<1>1. PICK i \in DOMAIN l : /\ l[i].type = "bop"
                            /\ \A j \in DOMAIN l : j < i => l[j].type # "ok" /\ (l[j].reply => late)
                            /\ AllOn(l, i)
  BY DEF Turns
<1>2. /\ DOMAIN l = 1 .. Len(l) /\ Len(l) \in Nat /\ Head(l) = l[1] /\ 1 \in DOMAIN l
      /\ DOMAIN Tail(l) = 1 .. (Len(l) - 1) /\ \A j \in DOMAIN Tail(l) : Tail(l)[j] = l[j + 1]
  BY TailMeans
<1>3. CASE i = 1
  <2>1. Head(l).type = "bop" /\ Head(l).on
    BY <1>1, <1>2, <1>3 DEF AllOn
  <2>2. AllOn(Tail(l), 1)
    BY <1>1, <1>2, <1>3 DEF AllOn
  <2> QED
    BY <2>1, <2>2
<1>4. CASE i # 1
  <2>1. i - 1 \in DOMAIN Tail(l) /\ Tail(l)[i - 1] = l[i] /\ i > 1
    BY <1>1, <1>2, <1>4
  <2>2. Head(l).type # "ok" /\ (Head(l).reply => late)
    BY <1>1, <1>2, <2>1
  <2>3. \A j \in DOMAIN Tail(l) : j < i - 1 => /\ Tail(l)[j].type # "ok"
                                                /\ Tail(l)[j].reply => late
    BY <1>1, <1>2, <2>1
  <2>4. AllOn(Tail(l), i - 1)
    BY <1>1, <1>2, <2>1 DEF AllOn
  <2> DEFINE t == Tail(l)
             n == i - 1
  <2>5. /\ n \in DOMAIN t /\ t[n].type = "bop" /\ AllOn(t, n)
        /\ \A j \in DOMAIN t : j < n => t[j].type # "ok" /\ (t[j].reply => late)
    BY <1>1, <2>1, <2>3, <2>4
  <2> HIDE DEF t, n
  <2>6. Turns(t, late)
    BY <2>5 DEF Turns
  <2> QED
    BY <2>2, <2>6 DEF t
<1> QED
  BY <1>3, <1>4

LEMMA RepliedAppend ==
  ASSUME NEW l \in Seq(Messages), NEW m \in Messages, Replied(l), ~m.reply
  PROVE  Replied(Append(l, m))
BY AppendMeans DEF Replied

\* The reply and the answer are sent together.
LEMMA RepliedTwo ==
  ASSUME NEW l \in Seq(Messages), NEW b \in Messages, NEW m \in Messages, Replied(l), m.type = "ok", ~m.reply
  PROVE  Replied(Append(Append(l, b), m))
<1> DEFINE k == Append(l, b)
           o == Append(k, m)
           n == Len(l)
<1>1. /\ k \in Seq(Messages) /\ Len(k) = n + 1 /\ n \in Nat /\ DOMAIN l = 1 .. n
      /\ \A i \in 1 .. n : k[i] = l[i]
  BY AppendMeans
<1> HIDE DEF k, n
<1>2. /\ DOMAIN o = 1 .. (n + 2) /\ o[n + 2] = m /\ \A i \in 1 .. (n + 1) : o[i] = k[i]
  BY <1>1, AppendMeans
<1> HIDE DEF o
<1>3. ASSUME NEW i \in DOMAIN o, o[i].reply
      PROVE  \E j \in DOMAIN o : j > i /\ o[j].type = "ok"
  <2>1. i # n + 2
    BY <1>2, <1>3
  <2>2. i < n + 2 /\ n + 2 \in DOMAIN o
    BY <1>1, <1>2, <2>1
  <2> QED
    BY <1>2, <2>2
<1>4. Replied(o)
  BY <1>3 DEF Replied
<1> QED
  BY <1>4 DEF o, k

LEMMA RepliedTail ==
  ASSUME NEW l \in Seq(Messages), l # <<>>, Replied(l)
  PROVE  Replied(Tail(l)) /\ (Head(l).reply => ~None(l, "ok"))
<1>1. /\ DOMAIN l = 1 .. Len(l) /\ Len(l) \in Nat /\ Head(l) = l[1] /\ 1 \in DOMAIN l
      /\ DOMAIN Tail(l) = 1 .. (Len(l) - 1) /\ \A j \in DOMAIN Tail(l) : Tail(l)[j] = l[j + 1]
  BY TailMeans
<1>2. Head(l).reply => ~None(l, "ok")
  BY <1>1 DEF Replied, None
<1>3. ASSUME NEW i \in DOMAIN Tail(l), Tail(l)[i].reply
      PROVE  \E j \in DOMAIN Tail(l) : j > i /\ Tail(l)[j].type = "ok"
  <2>1. i + 1 \in DOMAIN l /\ l[i + 1].reply
    BY <1>1, <1>3
  <2>2. PICK j \in DOMAIN l : j > i + 1 /\ l[j].type = "ok"
    BY <2>1 DEF Replied
  <2>3. j - 1 \in DOMAIN Tail(l) /\ j - 1 > i /\ Tail(l)[j - 1] = l[j]
    BY <1>1, <2>1, <2>2
  <2> QED
    BY <2>2, <2>3
<1> QED
  BY <1>2, <1>3 DEF Replied

\* Without an answer on its way there is no reply either.
LEMMA NoReply ==
  ASSUME NEW l \in Seq(Messages), Replied(l), None(l, "ok")
  PROVE  \A i \in DOMAIN l : ~l[i].reply
BY DEF Replied, None

-----------------------------------------------------------------------------
(* What centrald knows of a worker that begins nothing.                    *)

\* w reports nothing while it blocks, and does not begin to
Calms(w, v) ==
  Raises(v) => /\ Raises(w)
               /\ \/ v.toServer = w.toServer
                  \/ \E m \in Messages : m.type # "status" /\ v.toServer = Append(w.toServer, m)

LEMMA KnownStays ==
  ASSUME NEW w \in Workings, NEW v \in Workings, Calms(w, v)
  PROVE  /\ \A word : Known(w, word) => Known(v, word)
         /\ Answers(w) => Answers(v)
         /\ \A ask, d : WillKnow(w, ask, d) => WillKnow(v, ask, d)
<1>1. w.toServer \in Seq(Messages)
  BY WorkingsFields
<1>2. ASSUME NEW word, Known(w, word)
      PROVE  Known(v, word)
  <2>1. ASSUME Raises(v)
        PROVE  word /\ None(v.toServer, "status")
    <3>1. word /\ None(w.toServer, "status")
      BY <1>2, <2>1 DEF Known, Calms
    <3>2. CASE v.toServer = w.toServer
      BY <3>1, <3>2
    <3>3. CASE \E m \in Messages : m.type # "status" /\ v.toServer = Append(w.toServer, m)
      BY <1>1, <3>1, <3>3, NoneAppend
    <3> QED
      BY <2>1, <3>2, <3>3 DEF Calms
  <2> QED
    BY <2>1 DEF Known
<1>3. ASSUME Answers(w)
      PROVE  Answers(v)
  <2>1. ASSUME Raises(v), NEW i \in DOMAIN v.toServer, NEW j \in DOMAIN v.toServer,
               j > i, v.toServer[i].type = "ok", v.toServer[j].type = "status"
        PROVE  FALSE
    <3>1. CASE v.toServer = w.toServer
      BY <1>3, <2>1, <3>1 DEF Answers, Calms
    <3>2. CASE \E m \in Messages : m.type # "status" /\ v.toServer = Append(w.toServer, m)
      <4> DEFINE l == w.toServer
      <4>1. PICK m \in Messages : m.type # "status" /\ v.toServer = Append(l, m)
        BY <3>2
      <4>2. /\ DOMAIN v.toServer = 1 .. (Len(l) + 1) /\ DOMAIN l = 1 .. Len(l) /\ Len(l) \in Nat
            /\ \A n \in 1 .. Len(l) : v.toServer[n] = l[n]
            /\ v.toServer[Len(l) + 1] = m
        BY <1>1, <4>1, AppendMeans
      <4>3. j # Len(l) + 1
        BY <2>1, <4>1, <4>2
      <4>4. i \in DOMAIN l /\ j \in DOMAIN l /\ l[i].type = "ok" /\ l[j].type = "status"
        BY <2>1, <4>2, <4>3
      <4>5. Raises(w)
        BY <2>1 DEF Calms
      <4> QED
        BY <1>3, <2>1, <4>4, <4>5 DEF Answers
    <3> QED
      BY <2>1, <3>1, <3>2 DEF Calms
  <2> QED
    BY <2>1 DEF Answers
<1> QED
  BY <1>2, <1>3 DEF WillKnow

\* Centrald takes what w sent first.
LEMMA KnownTail ==
  ASSUME NEW w \in Workings, NEW v \in Workings, w.toServer # <<>>,
         v.toServer = Tail(w.toServer), v.work = w.work
  PROVE  LET m == Head(w.toServer)
         IN /\ Raises(v) = Raises(w)
            /\ \A word : Known(w, word) => Known(v, word) /\ (m.type = "status" => ~Raises(v))
            /\ Answers(w) => Answers(v)
            /\ \A ask, d : WillKnow(w, ask, d) => WillKnow(v, ask, d)
            /\ Answers(w) /\ m.type = "ok" /\ Raises(v) => None(v.toServer, "status")
<1> DEFINE l == w.toServer
           m == Head(l)
<1>1. l \in Seq(Messages) /\ l # <<>> /\ v.toServer = Tail(l)
  BY WorkingsFields
<1>2. Raises(v) = Raises(w)
  BY DEF Raises
<1>3. /\ DOMAIN l = 1 .. Len(l) /\ Len(l) \in Nat /\ m = l[1] /\ 1 \in DOMAIN l
      /\ DOMAIN v.toServer = 1 .. (Len(l) - 1)
      /\ \A j \in DOMAIN v.toServer : v.toServer[j] = l[j + 1] /\ j + 1 \in DOMAIN l /\ j + 1 > 1
  <2> HIDE DEF l
  <2>1. /\ DOMAIN l = 1 .. Len(l) /\ Len(l) \in Nat /\ Head(l) = l[1] /\ 1 \in DOMAIN l
        /\ DOMAIN Tail(l) = 1 .. (Len(l) - 1) /\ \A j \in DOMAIN Tail(l) : Tail(l)[j] = l[j + 1]
    BY <1>1, TailMeans
  <2>2. \A j \in DOMAIN Tail(l) : j + 1 \in DOMAIN l /\ j + 1 > 1
    BY <2>1
  <2> QED
    BY <1>1, <2>1, <2>2
<1>4. ASSUME NEW word, Known(w, word)
      PROVE  Known(v, word) /\ (m.type = "status" => ~Raises(v))
  <2>1. None(l, "status") => None(v.toServer, "status") /\ m.type # "status"
    <3> HIDE DEF l
    <3>1. None(l, "status") => None(Tail(l), "status") /\ Head(l).type # "status"
      BY <1>1, NoneTail
    <3> QED
      BY <1>1, <3>1
  <2> QED
    BY <1>2, <1>4, <2>1 DEF Known
<1>5. ASSUME Answers(w)
      PROVE  Answers(v)
  <2>1. ASSUME NEW i \in DOMAIN v.toServer, NEW j \in DOMAIN v.toServer,
               j > i, v.toServer[i].type = "ok", v.toServer[j].type = "status"
        PROVE  ~Raises(v)
    <3>1. /\ i + 1 \in DOMAIN l /\ j + 1 \in DOMAIN l /\ j + 1 > i + 1
          /\ l[i + 1].type = "ok" /\ l[j + 1].type = "status"
      BY <1>3, <2>1
    <3> QED
      BY <1>2, <1>5, <3>1 DEF Answers
  <2> QED
    BY <2>1 DEF Answers
<1>6. ASSUME Answers(w), m.type = "ok", Raises(v)
      PROVE  None(v.toServer, "status")
  BY <1>2, <1>3, <1>6 DEF Answers, None
<1> QED
  BY <1>2, <1>4, <1>5, <1>6 DEF WillKnow


-----------------------------------------------------------------------------
(* Steps of one worker or of its client.                                   *)

LEMMA RivalsMean ==
  /\ \A d \in Workers : Rivals(d) \subseteq Workers /\ d \notin Rivals(d)
  /\ \A d, e \in Workers : e \in Rivals(d) => d \in Rivals(e)
  /\ \A c \in Cameras : Mount \in Rivals(c) /\ c \in Workers
  /\ Mount \in Workers /\ Workers \subseteq Devices
BY DevicesAssumption DEF Rivals, Blocks, Workers, Devices

LEMMA CautiousOn ==
  ASSUME NEW k, NEW w, NEW told, NEW learns, NEW t, NEW l,
         Cautious(k, w, told, learns), told => t, learns => l
  PROVE  Cautious(k, w, t, l)
BY DEF Cautious

\* x and its client act; to the rivals of x it looks as if it begins nothing unless it may.
LEMMA OneActs ==
  ASSUME IInv, EInv, NEW x \in Workers, NEW k \in Connections, NEW w \in Workings,
         client' = [client EXCEPT ![x] = k], dev' = [dev EXCEPT ![x] = w],
         srv'.word = srv.word, srv'.ask = srv.ask, srv'.running = srv.running,
         \A e \in Devices : e # x => srv'.out[e] = srv.out[e],
         seen.early => seen'.early,
         k.run # NoCommand \/ w.waits > 0 => Engaged(x) \/ \A e \in Rivals(x) : ~Engaged(e),
         ~Engaged(x) => Calms(dev[x], w),
         Replied(srv'.out[x]),
         ~seen'.early /\ Raises(w) => Raises(dev[x]) \/ Free(dev, x),
         ~seen'.early /\ ~Free(dev, x) /\ (k.run # NoCommand \/ w.waits > 0) =>
           Cautious(k, w, Told(srv', dev, x), Learns(srv', dev, x))
  PROVE  EInv'
<1>1. /\ client' \in [Workers -> Connections] /\ dev' \in [Workers -> Workings]
      /\ client'[x] = k /\ dev'[x] = w
      /\ \A e \in Workers : e # x => client'[e] = client[e] /\ dev'[e] = dev[e]
  BY Histories
<1>2. /\ OneEngaged /\ Replies(srv) /\ AskedOnce(srv)
      /\ ~seen.early => Apart /\ \A d \in Workers : Engaged(d) => Fresh(d)
  BY DEF EInv
<1>3. /\ Engaged(x)' <=> (k.run # NoCommand \/ w.waits > 0)
      /\ \A e \in Workers : e # x => (Engaged(e)' <=> Engaged(e))
  BY <1>1 DEF Engaged
<1>4. /\ \A d \in Workers : Rivals(d) \subseteq Workers /\ d \notin Rivals(d)
      /\ \A d, e \in Workers : e \in Rivals(d) => d \in Rivals(e)
      /\ Workers \subseteq Devices
  BY RivalsMean
<1>5. OneEngaged'
  <2> SUFFICES ASSUME NEW d \in Workers, Engaged(d)', NEW e \in Rivals(d), Engaged(e)'
               PROVE  FALSE
    BY DEF OneEngaged
  <2>1. e \in Workers /\ e # d /\ d \in Rivals(e)
    BY <1>4
  <2>2. CASE d # x /\ e # x
    BY <1>2, <1>3, <2>1, <2>2 DEF OneEngaged
  <2>3. CASE d = x
    BY <1>2, <1>3, <2>1, <2>3 DEF OneEngaged
  <2>4. CASE e = x
    BY <1>2, <1>3, <2>1, <2>4 DEF OneEngaged
  <2> QED
    BY <2>2, <2>3, <2>4
<1>6. Replies(srv')
  BY <1>2, <1>4 DEF Replies
<1>7. AskedOnce(srv')
  BY <1>2 DEF AskedOnce
<1>8. ASSUME ~seen'.early
      PROVE  Apart'
  <2> SUFFICES ASSUME NEW d \in Workers, Raises(dev'[d]), NEW e \in Rivals(d), Raises(dev'[e])
               PROVE  FALSE
    BY DEF Apart
  <2>1. e \in Workers /\ e # d /\ d \in Rivals(e)
    BY <1>4
  <2>2. Apart
    BY <1>2, <1>8
  <2>3. CASE d # x /\ e # x
    BY <1>1, <2>1, <2>2, <2>3 DEF Apart
  <2>4. CASE d = x
    BY <1>1, <1>8, <2>1, <2>2, <2>4 DEF Apart, Free
  <2>5. CASE e = x
    BY <1>1, <1>8, <2>1, <2>2, <2>5 DEF Apart, Free
  <2> QED
    BY <2>3, <2>4, <2>5
<1>9. ASSUME ~seen'.early, NEW d \in Workers, Engaged(d)'
      PROVE  Fresh(d)'
  <2>1. \A e \in Rivals(d) : e \in Workers /\ e # d
    BY <1>4
  <2>2. CASE d = x
    <3>1. \A e \in Rivals(x) : dev'[e] = dev[e]
      BY <1>1, <2>1, <2>2
    <3>2. CASE Free(dev, x)
      BY <2>2, <3>1, <3>2 DEF Fresh, Free
    <3>3. CASE ~Free(dev, x)
      <4>1. Cautious(k, w, Told(srv', dev, x), Learns(srv', dev, x))
        BY <1>3, <1>9, <2>2, <3>3
      <4>2. /\ Told(srv', dev, x) => Told(srv', dev', x)
            /\ Learns(srv', dev, x) => Learns(srv', dev', x)
        BY <3>1 DEF Told, Learns, AllKnown, Coming
      <4>3. Cautious(k, w, Told(srv', dev', x), Learns(srv', dev', x))
        BY <4>1, <4>2, CautiousOn
      <4> QED
        BY <1>1, <2>2, <4>3 DEF Fresh
    <3> QED
      BY <3>2, <3>3
  <2>3. CASE d # x
    <3>1. /\ client'[d] = client[d] /\ dev'[d] = dev[d] /\ srv'.out[d] = srv.out[d]
          /\ Engaged(d) /\ Fresh(d)
      BY <1>1, <1>2, <1>3, <1>4, <1>9, <2>3
    <3>2. x \in Rivals(d) => Calms(dev[x], w)
      BY <1>2, <3>1 DEF OneEngaged
    <3>3. /\ \A e \in Rivals(d) : dev[e] \in Workings /\ dev'[e] \in Workings
          /\ \A e \in Rivals(d) : Calms(dev[e], dev'[e])
      <4>1. \A e \in Rivals(d) : dev[e] \in Workings /\ dev'[e] \in Workings
        BY <1>1, <2>1, Histories
      <4>2. ASSUME NEW e \in Rivals(d)
            PROVE  Calms(dev[e], dev'[e])
        <5>1. CASE e = x
          BY <1>1, <3>2, <5>1
        <5>2. CASE e # x
          BY <1>1, <2>1, <5>2 DEF Calms
        <5> QED
          BY <5>1, <5>2
      <4> QED
        BY <4>1, <4>2
    <3>4. /\ Told(srv, dev, d) => Told(srv', dev', d)
          /\ Learns(srv, dev, d) => Learns(srv', dev', d)
      <4>1. ASSUME NEW e \in Rivals(d)
            PROVE  /\ Known(dev[e], srv.word[e]) => Known(dev'[e], srv'.word[e])
                   /\ WillKnow(dev[e], srv.ask[e], d) => WillKnow(dev'[e], srv'.ask[e], d)
        BY <3>3, KnownStays
      <4>2. AllKnown(srv, dev, d) => AllKnown(srv', dev', d)
        BY <4>1 DEF AllKnown
      <4>3. Coming(srv, dev, d) => Coming(srv', dev', d)
        BY <4>1 DEF Coming
      <4> QED
        BY <3>1, <4>2, <4>3 DEF Told, Learns
    <3>5. CASE Free(dev, d)
      BY <3>3, <3>5 DEF Free, Fresh, Calms
    <3>6. CASE Cautious(client[d], dev[d], Told(srv, dev, d), Learns(srv, dev, d))
      <4>1. Cautious(client[d], dev[d], Told(srv', dev', d), Learns(srv', dev', d))
        BY <3>4, <3>6, CautiousOn
      <4> QED
        BY <3>1, <4>1 DEF Fresh
    <3> QED
      BY <3>1, <3>5, <3>6 DEF Fresh
  <2> QED
    BY <2>2, <2>3
<1> QED
  BY <1>5, <1>6, <1>7, <1>8, <1>9 DEF EInv


\* What the invariants say of a worker that is blocked by one at work.
LEMMA Wary ==
  ASSUME EInv, NEW x \in Workers, ~seen.early, Engaged(x), ~Free(dev, x)
  PROVE  Cautious(client[x], dev[x], Told(srv, dev, x), Learns(srv, dev, x)) /\ dev[x].waits = 0
<1>1. Fresh(x)
  BY DEF EInv
<1>2. Cautious(client[x], dev[x], Told(srv, dev, x), Learns(srv, dev, x))
  BY <1>1 DEF Fresh
<1> QED
  BY <1>2 DEF Cautious

LEMMA NotEngaged ==
  ASSUME IInv, NEW x \in Workers, client[x].run = NoCommand
  PROVE  client[x].que = <<>> /\ Unsent(client[x], dev[x])
<1>1. /\ Serves(client[x], dev[x], seen.queued[x], seen.executed[x], seen.answered[x])
      /\ seen.answered[x] \in Nat
  BY Holds, Typed
<1>2. NothingSent(client[x], dev[x], seen.queued[x], seen.executed[x], seen.answered[x])
  BY <1>1, ServesRuns DEF Serves
<1> QED
  BY <1>2 DEF NothingSent

LEMMA IssueExcludes ==
  ASSUME IInv, EInv, NEW x \in Workers, Issue(x)
  PROVE  EInv'
<1> DEFINE k == client[x]
           w == dev[x]
           n == seen.queued[x] + 1
           c == [id |-> n, progress |-> "not_called"]
           u == QueCommand(k, n)
<1>1. /\ k \in Connections /\ w \in Workings /\ seen.queued[x] \in Nat /\ n \in Nat
      /\ client' = [client EXCEPT ![x] = u] /\ dev' = [dev EXCEPT ![x] = w]
      /\ srv' = srv
  BY Typed, Histories DEF Issue
<1>2. seen'.early = seen.early
  BY Histories DEF Issue
<1>3. u \in Connections
  BY <1>1, Holds, Typed, ServesQueue
<1>4. \A e \in Rivals(x) : ~Engaged(e)
  <2>1. \A e \in Workers : Blocks(e, x) => client[e].run = NoCommand /\ dev[e].waits = 0
    BY DEF Issue
  <2> QED
    BY <2>1 DEF Rivals, Engaged
<1>5. Calms(w, w)
  BY DEF Calms
<1>6. Replied(srv.out[x])
  BY DEF EInv, Replies
<1>7. ASSUME ~seen.early, ~Free(dev, x)
      PROVE  Cautious(u, w, Told(srv, dev, x), Learns(srv, dev, x))
  <2> DEFINE told == Told(srv, dev, x)
             learns == Learns(srv, dev, x)
  <2>1. Engaged(x) => Cautious(k, w, told, learns) /\ w.waits = 0
    BY <1>7, Wary
  <2>2. w.waits = 0
    <3>1. w.waits \in Nat
      BY <1>1, WorkingsFields
    <3> QED
      BY <2>1, <3>1 DEF Engaged
  <2> HIDE DEF told, learns
  <2>3. CASE k.run # NoCommand
    <3>1. u = [k EXCEPT !.que = Append(@, c)]
      BY <2>3 DEF QueCommand
    <3>2. u.run = k.run /\ u.out = k.out /\ u.bop = k.bop
      BY <1>1, <3>1 DEF Connections
    <3>3. Cautious(k, w, told, learns)
      BY <2>1, <2>3 DEF Engaged
    <3> HIDE DEF u, k, w
    <3>4. Cautious(u, w, told, learns)
      BY <3>2, <3>3 DEF Cautious
    <3> QED
      BY <3>4 DEF told, learns, u, k, w
  <2>4. CASE k.run = NoCommand
    <3> DEFINE h == [k EXCEPT !.run = c]
    <3>1. k.out = <<>> /\ ~w.asking
      BY <2>4, NotEngaged DEF Unsent
    <3>2. c \in Commands /\ c.progress = "not_called"
      BY <1>1 DEF Commands
    <3>3. h \in Connections /\ h.run = c /\ h.out = <<>>
      <4> HIDE DEF c
      <4> QED
        BY <1>1, <3>1, <3>2 DEF Connections
    <3>4. u = SendCommand(h)
      BY <2>4 DEF QueCommand
    <3> HIDE DEF h
    <3>5. u.run = DeviceStatus /\ u.out = <<0>>
      BY <3>2, <3>3, <3>4, SendCommandResult
    <3> HIDE DEF u, w
    <3>6. Cautious(u, w, told, learns)
      BY <2>2, <3>1, <3>5 DEF Cautious, DeviceStatus
    <3> QED
      BY <3>6 DEF told, learns, u, w
  <2> QED
    BY <2>3, <2>4
<1> HIDE DEF u, w
<1>8. /\ IInv /\ EInv /\ x \in Workers /\ u \in Connections /\ w \in Workings
      /\ client' = [client EXCEPT ![x] = u] /\ dev' = [dev EXCEPT ![x] = w]
      /\ srv'.word = srv.word /\ srv'.ask = srv.ask /\ srv'.running = srv.running
      /\ \A e \in Devices : e # x => srv'.out[e] = srv.out[e]
  BY <1>1, <1>3
<1>9. /\ seen.early => seen'.early
      /\ u.run # NoCommand \/ w.waits > 0 => Engaged(x) \/ \A e \in Rivals(x) : ~Engaged(e)
      /\ ~Engaged(x) => Calms(dev[x], w)
      /\ Replied(srv'.out[x])
      /\ ~seen'.early /\ Raises(w) => Raises(dev[x]) \/ Free(dev, x)
  BY <1>1, <1>2, <1>4, <1>5, <1>6 DEF w
<1>10. ~seen'.early /\ ~Free(dev, x) /\ (u.run # NoCommand \/ w.waits > 0) =>
         Cautious(u, w, Told(srv', dev, x), Learns(srv', dev, x))
  BY <1>1, <1>2, <1>7
<1> QED
  BY <1>8, <1>9, <1>10, OneActs


LEMMA NumberedProgress ==
  ASSUME NEW que, NEW n, Numbered(que, 1, n), 1 \in DOMAIN que
  PROVE  que[1].progress = "not_called"
<1> DEFINE x == n + 1
<1>1. que[1] = [id |-> x, progress |-> "not_called"]
  BY DEF Numbered
<1> HIDE DEF x
<1> QED
  BY <1>1

\* The client hears an answer: a command that waits for it does not go out while it is blocked.
LEMMA CautiousAnswer ==
  ASSUME NEW k \in Connections, NEW w, NEW v, NEW q \in Nat, NEW e \in Nat, NEW a \in Nat, Serves(k, w, q, e, a),
         w.toClient \in Seq(Messages), w.toClient # <<>>, Head(w.toClient).type = "ok",
         v.toClient = Tail(w.toClient), v.asking = w.asking, v.waits = w.waits, v.infos = w.infos,
         v.bop = w.bop
  PROVE  /\ k.run # NoCommand
         /\ \A told, learns : Cautious(k, w, told, learns) => Cautious(SendNextCommand(k), v, told, learns)
<1> DEFINE h == Head(k.que)
           x == Tail(k.que)
           t == [k EXCEPT !.run = h, !.que = x]
           n == [k EXCEPT !.run = NoCommand]
           s == SendCommand(t)
           r == SendNextCommand(k)
<1>1. r = IF k.que = <<>> THEN n ELSE s
  BY DEF SendNextCommand
<1>2. /\ k.que \in Seq(Commands) /\ k.out \in Seq(Nat) /\ Len(k.que) \in Nat /\ k.bop \in BOOLEAN
  BY DEF Connections
<1>3. Acknowledged(k, w) /\ (StatusSent(k, w, q, e, a) \/ CommandSent(k, w, q, e, a))
  BY NoneTail DEF Serves, NothingSent, StatusSent, Blocked, CommandSent, Unsent, Sent, Asking
<1>4. k.out = <<>> /\ ~w.asking
  BY <1>3 DEF Acknowledged
<1>5. ASSUME k.que # <<>>
      PROVE  /\ h \in Commands /\ h = k.que[1]
             /\ t \in Connections /\ t.run = h /\ t.que = x /\ t.out = <<>> /\ t.bop = k.bop
  <2>1. h \in Commands /\ h = k.que[1] /\ x \in Seq(Commands)
    BY <1>2, <1>5, TailMeans
  <2> HIDE DEF h, x
  <2> QED
    BY <1>4, <2>1 DEF Connections
<1> HIDE DEF h, x, t
<1>6. k.run # NoCommand
  BY <1>3, ServesRuns
<1> SUFFICES ASSUME NEW told, NEW learns, Cautious(k, w, told, learns)
             PROVE  Cautious(r, v, told, learns)
  BY <1>6
<1>7. v.waits = 0 /\ ~v.asking
  BY <1>4 DEF Cautious
<1>8. CASE StatusSent(k, w, q, e, a)
  <2>1. k.que # <<>> /\ k.que[1] = [id |-> a + 1, progress |-> "wait"] /\ k.run = DeviceStatus
    BY <1>8, ServesRuns DEF StatusSent
  <2>2. told /\ w.bop /\ AllOn(w.toClient, 1) /\ k.bop
    <3>1. ~Turns(w.toClient, TRUE)
      BY TurnsTail
    <3> QED
      BY <1>4, <2>1, <3>1 DEF Cautious
  <2>3. AllOn(v.toClient, 1)
    BY <2>2, AllOnTail
  <2>4. t.run.progress = "wait" /\ t.bop
    <3>1. h.progress = "wait"
      BY <1>5, <2>1
    <3> QED
      BY <1>5, <2>1, <2>2, <3>1
  <2>5. s.run = [id |-> t.run.id, progress |-> "run"] /\ s.bop /\ s.out = <<>>
    <3>1. t.bop \in BOOLEAN /\ t.run.progress \in {"wait", "run"}
      BY <1>2, <1>5, <2>1, <2>4
    <3> QED
      BY <1>5, <2>1, <2>4, <3>1, SendCommandResult
  <2>6. r = s
    BY <1>1, <2>1
  <2>7. r.run.progress = "run" /\ r.run # DeviceStatus /\ r.bop /\ r.out = <<>>
    BY <2>5, <2>6 DEF DeviceStatus
  <2> HIDE DEF r
  <2> QED
    BY <1>7, <2>2, <2>3, <2>7 DEF Cautious
<1>9. CASE CommandSent(k, w, q, e, a)
  <2>1. CASE k.que = <<>>
    <3>1. r.run = NoCommand /\ r.out = <<>>
      BY <1>1, <1>4, <2>1 DEF Connections
    <3> HIDE DEF r
    <3>2. r.run.id = 0 /\ r.run.progress = "none" /\ r.run # DeviceStatus
      BY <3>1 DEF NoCommand, DeviceStatus
    <3> QED
      BY <1>7, <3>2 DEF Cautious
  <2>2. CASE k.que # <<>>
    <3>1. k.que[1].progress = "not_called"
      <4>1. 1 \in DOMAIN k.que
        BY <1>2, <2>2
      <4>2. Numbered(k.que, 1, a + 1)
        BY <1>9 DEF CommandSent
      <4> QED
        BY <4>1, <4>2, NumberedProgress
    <3>2. t.run.progress = "not_called"
      BY <1>5, <2>2, <3>1
    <3>3. r.run = DeviceStatus /\ r.out = <<0>>
      BY <1>1, <1>5, <2>2, <3>2, SendCommandResult, ZenonT(60)
    <3> HIDE DEF r
    <3> QED
      BY <1>7, <3>3 DEF Cautious, DeviceStatus
  <2> QED
    BY <2>1, <2>2
<1> QED
  BY <1>3, <1>8, <1>9

\* The client hears a blocking state.
LEMMA CautiousBop ==
  ASSUME NEW k \in Connections, NEW w, NEW v, NEW q \in Nat, NEW e \in Nat, NEW a \in Nat, Serves(k, w, q, e, a),
         w.toClient \in Seq(Messages), w.toClient # <<>>, Head(w.toClient).type = "bop",
         v.toClient = Tail(w.toClient), v.asking = w.asking, v.waits = w.waits, v.infos = w.infos,
         v.bop = w.bop
  PROVE  LET r == SetBopState(k, Head(w.toClient).on)
         IN /\ r.run # NoCommand => k.run # NoCommand
            /\ \A told, learns : Cautious(k, w, told, learns) => Cautious(r, v, told, learns)
<1> DEFINE on == Head(w.toClient).on
           b == [k EXCEPT !.bop = on]
           r == SetBopState(k, on)
<1>1. on \in BOOLEAN
  <2>1. Head(w.toClient) \in Messages
    BY TailMeans
  <2> QED
    BY <2>1 DEF Messages
<1>2. /\ b \in Connections /\ b.run = k.run /\ b.que = k.que /\ b.out = k.out /\ b.bop = on
  <2> HIDE DEF on
  <2> QED
    BY <1>1 DEF Connections
<1>3. r = IF k.run.progress = "run" THEN SendCommand(b) ELSE b
  BY DEF SetBopState
<1> HIDE DEF b, r
<1>4. k.run.progress = "run" => k.out = <<>> /\ k.run.id > 0 /\ k.run # NoCommand /\ k.run # DeviceStatus
  <2>1. ASSUME k.run.progress = "run"
        PROVE  Blocked(k, w, q, e, a)
    BY <2>1, ServesRuns DEF Serves
  <2> QED
    BY <2>1, ServesRuns DEF Blocked, Unsent
<1>5. r.run # NoCommand => k.run # NoCommand
  BY <1>2, <1>3, <1>4
<1>6. ASSUME NEW told, NEW learns, Cautious(k, w, told, learns)
      PROVE  Cautious(r, v, told, learns)
  <2>1. AllOn(w.toClient, 1) => AllOn(v.toClient, 1) /\ on
    BY AllOnTail
  <2>2. Turns(w.toClient, TRUE) => Turns(v.toClient, TRUE) \/ (AllOn(v.toClient, 1) /\ on)
    BY TurnsTail
  <2>3. CASE k.run.progress = "run"
    <3>1. told /\ v.bop /\ AllOn(v.toClient, 1) /\ on
      BY <1>6, <2>1, <2>3 DEF Cautious
    <3>2. r.run = [id |-> k.run.id, progress |-> "run"] /\ r.bop /\ r.out = <<>>
      <4>1. b.bop \in BOOLEAN /\ b.bop /\ b.run.progress \in {"wait", "run"} /\ b.out = <<>>
        BY <1>1, <1>2, <1>4, <2>3, <3>1
      <4>2. /\ SendCommand(b).run = [id |-> b.run.id, progress |-> "run"] /\ SendCommand(b).bop = b.bop
            /\ SendCommand(b).out = <<>>
        BY <1>2, <4>1, SendCommandResult
      <4> QED
        BY <1>2, <1>3, <2>3, <4>1, <4>2
    <3> QED
      BY <1>6, <3>1, <3>2 DEF Cautious, DeviceStatus
  <2>4. CASE k.run.progress # "run"
    <3>1. r.run = k.run /\ r.out = k.out /\ r.bop = on
      BY <1>2, <1>3, <2>4
    <3> HIDE DEF on
    <3> QED
      BY <1>6, <2>1, <2>2, <2>4, <3>1 DEF Cautious
  <2> QED
    BY <2>3, <2>4
<1> QED
  BY <1>5, <1>6 DEF r

LEMMA ClientReceivesExcludes ==
  ASSUME IInv, EInv, NEW x \in Workers, ClientReceives(x)
  PROVE  EInv'
<1> DEFINE k == client[x]
           w == dev[x]
           m == Head(w.toClient)
           t == Tail(w.toClient)
           v == [w EXCEPT !.toClient = t]
           c == IF m.type = "ok" THEN SendNextCommand(k) ELSE SetBopState(k, m.on)
           q == seen.queued[x]
           e == seen.executed[x]
           a == seen.answered[x]
<1>1. /\ w.toClient # <<>> /\ client' = [client EXCEPT ![x] = c]
      /\ dev' = [dev EXCEPT ![x] = v] /\ srv' = srv
  BY DEF ClientReceives
<1>2. seen'.early = seen.early
  BY Histories DEF ClientReceives
<1>3. /\ k \in Connections /\ w \in Workings /\ q \in Nat /\ e \in Nat /\ a \in Nat
      /\ Serves(k, w, q, e, a)
  BY Typed, Holds
<1>4. w.toClient \in Seq(Messages) /\ m \in Messages /\ t \in Seq(Messages)
  BY <1>1, <1>3, WorkingsFields, TailMeans
<1>5. m.on \in BOOLEAN /\ m.type \in {"ok", "bop"}
  <2>1. \A type \in {"status", "status_info"} : None(w.toClient, type)
    BY Holds
  <2>2. m.type # "status" /\ m.type # "status_info"
    BY <1>1, <1>4, <2>1, NoneTail
  <2> QED
    BY <1>4, <2>2 DEF Messages
<1> HIDE DEF t
<1>6. /\ v \in Workings /\ v.toClient = t /\ v.asking = w.asking /\ v.toServer = w.toServer
      /\ v.infos = w.infos /\ v.bop = w.bop /\ v.work = w.work /\ v.waits = w.waits
  BY <1>3, <1>4 DEF Workings
<1> HIDE DEF v
<1>7. v.toClient = Tail(w.toClient)
  BY <1>6 DEF t
<1>8. /\ c \in Connections
      /\ c.run # NoCommand => k.run # NoCommand
      /\ \A told, learns : Cautious(k, w, told, learns) => Cautious(c, v, told, learns)
  <2> HIDE DEF k, w, q, e, a
  <2>1. CASE m.type = "ok"
    BY <1>1, <1>3, <1>4, <1>6, <1>7, <2>1, ServesAnswer, CautiousAnswer
  <2>2. CASE m.type = "bop"
    BY <1>1, <1>3, <1>4, <1>5, <1>6, <1>7, <2>2, ServesBop, CautiousBop
  <2> QED
    BY <1>5, <2>1, <2>2
<1> HIDE DEF c
<1>9. c.run # NoCommand \/ v.waits > 0 => Engaged(x)
  BY <1>6, <1>8 DEF Engaged
<1>10. Raises(v) = Raises(w) /\ Calms(w, v)
  BY <1>6 DEF Raises, Calms
<1>11. /\ seen.early => seen'.early
       /\ c.run # NoCommand \/ v.waits > 0 => Engaged(x) \/ \A f \in Rivals(x) : ~Engaged(f)
       /\ ~Engaged(x) => Calms(dev[x], v)
       /\ Replied(srv'.out[x])
       /\ ~seen'.early /\ Raises(v) => Raises(dev[x]) \/ Free(dev, x)
  BY <1>1, <1>2, <1>9, <1>10 DEF EInv, Replies
<1>12. ~seen'.early /\ ~Free(dev, x) /\ (c.run # NoCommand \/ v.waits > 0) =>
         Cautious(c, v, Told(srv', dev, x), Learns(srv', dev, x))
  BY <1>1, <1>2, <1>8, <1>9, Wary
<1>13. /\ client' = [client EXCEPT ![x] = c] /\ dev' = [dev EXCEPT ![x] = v]
       /\ srv'.word = srv.word /\ srv'.ask = srv.ask /\ srv'.running = srv.running
       /\ \A f \in Devices : f # x => srv'.out[f] = srv.out[f]
  BY <1>1
<1> QED
  BY <1>6, <1>8, <1>11, <1>12, <1>13, OneActs


LEMMA DeviceReceivesCommandExcludes ==
  ASSUME IInv, EInv, NEW x \in Workers, DeviceReceivesCommand(x)
  PROVE  EInv'
<1> DEFINE k == client[x]
           w == dev[x]
           id == Head(k.out)
           u == [k EXCEPT !.out = Tail(@)]
           r == IF x = Mount THEN Becomes(w, "moving") ELSE Expose(w)
           v == IF id = 0 THEN QueDeviceStatusCommand(w) ELSE ToClient(r, <<Plain("ok")>>)
           q == seen.queued[x]
           e == seen.executed[x]
           a == seen.answered[x]
<1>1. /\ k.out # <<>> /\ client' = [client EXCEPT ![x] = u] /\ dev' = [dev EXCEPT ![x] = v]
      /\ srv' = srv
  BY DEF DeviceReceivesCommand
<1>2. seen'.early = seen.early
  BY Histories DEF DeviceReceivesCommand
<1>3. /\ k \in Connections /\ w \in Workings /\ q \in Nat /\ e \in Nat /\ a \in Nat
      /\ Serves(k, w, q, e, a)
      /\ Informed(w.infos, w.toServer, srv.running[x], srv.out[x])
  BY Typed, Holds
<1>4. u \in Connections /\ u.run = k.run /\ id \in Nat
  <2>1. w.toClient \in Seq(Messages)
    BY <1>3, WorkingsFields
  <2> HIDE DEF k, w, q, e, a
  <2> QED
    BY <1>1, <1>3, <2>1, ServesCommand
<1>5. /\ k.run # NoCommand
      /\ id > 0 => k.run.id > 0 /\ k.run.progress = "return"
      /\ id = 0 => k.run = DeviceStatus
  <2>1. CASE StatusSent(k, w, q, e, a)
    <3>1. k.out = <<0>>
      BY <1>1, <2>1 DEF StatusSent, Sent, Asking, Acknowledged
    <3>2. id = 0
      BY <3>1
    <3> QED
      BY <1>3, <2>1, <3>2, ServesRuns
  <2>2. CASE CommandSent(k, w, q, e, a)
    <3>1. k.out = <<a + 1>>
      BY <1>1, <2>2 DEF CommandSent, Sent, Acknowledged
    <3>2. id # 0
      BY <1>3, <3>1
    <3> QED
      BY <1>3, <2>2, <3>2, ServesRuns
  <2> QED
    BY <1>1, <1>3, <2>1, <2>2 DEF Serves, NothingSent, Blocked, Unsent
<1>6. Engaged(x)
  BY <1>5 DEF Engaged
<1>7. v \in Workings
  <2>1. QueDeviceStatusCommand(w) \in Workings
    BY <1>3, QueDeviceStatusResult
  <2>2. r \in Workings
    BY <1>3, BecomesQuietly, ExposeQuietly DEF Quietly
  <2> HIDE DEF r
  <2>3. ToClient(r, <<Plain("ok")>>) \in Workings
    BY <2>2, ToClientResult, MessagesMade
  <2> QED
    BY <2>1, <2>3
<1> HIDE DEF r, id
<1>8. ASSUME ~seen.early, ~Free(dev, x)
      PROVE  id = 0
  <2>1. Cautious(k, w, Told(srv, dev, x), Learns(srv, dev, x))
    BY <1>6, <1>8, Wary
  <2> QED
    BY <1>1, <1>4, <1>5, <2>1 DEF Cautious
<1>9. ASSUME id = 0
      PROVE  /\ v.asking /\ v.infos = w.infos + 1 /\ v.work = w.work /\ v.waits = w.waits
  <2>1. v = QueDeviceStatusCommand(w)
    BY <1>9
  <2> HIDE DEF v
  <2> QED
    BY <1>3, <2>1, QueDeviceStatusResult
<1> HIDE DEF v
<1>10. ASSUME ~seen.early, ~Free(dev, x)
       PROVE  Cautious(u, v, Told(srv, dev, x), Learns(srv, dev, x))
  <2>1. w.waits = 0
    BY <1>6, <1>10, Wary
  <2>2. id = 0
    BY <1>8, <1>10
  <2>3. v.infos = 1 => Learns(srv, dev, x)
    <3>1. w.infos \in Nat
      BY <1>3, WorkingsFields
    <3>2. v.infos = 1 => w.infos = 0
      BY <1>9, <2>2, <3>1
    <3>3. w.infos = 0 => srv.running[x] = 0 /\ None(srv.out[x], "ok")
      BY <1>3 DEF Informed
    <3>4. w.infos = 0 => srv.running[x] # 1 /\ None(srv.out[x], "ok")
      BY <3>3
    <3> HIDE DEF w
    <3> QED
      BY <3>2, <3>4 DEF Learns
  <2>4. u.run.id = 0 /\ u.run.progress = "return"
    BY <1>4, <1>5, <2>2 DEF DeviceStatus
  <2> HIDE DEF u
  <2>5. v.waits = 0 /\ v.asking
    BY <1>9, <2>1, <2>2
  <2> QED
    BY <2>3, <2>4, <2>5 DEF Cautious
<1>11. ~seen.early /\ Raises(v) => Raises(dev[x]) \/ Free(dev, x)
  BY <1>8, <1>9 DEF Raises
<1> HIDE DEF u
<1>12. /\ seen.early => seen'.early
       /\ u.run # NoCommand \/ v.waits > 0 => Engaged(x) \/ \A f \in Rivals(x) : ~Engaged(f)
       /\ ~Engaged(x) => Calms(dev[x], v)
       /\ Replied(srv'.out[x])
       /\ ~seen'.early /\ Raises(v) => Raises(dev[x]) \/ Free(dev, x)
  BY <1>1, <1>2, <1>6, <1>11 DEF EInv, Replies
<1>13. ~seen'.early /\ ~Free(dev, x) /\ (u.run # NoCommand \/ v.waits > 0) =>
         Cautious(u, v, Told(srv', dev, x), Learns(srv', dev, x))
  BY <1>1, <1>2, <1>10
<1>14. /\ client' = [client EXCEPT ![x] = u] /\ dev' = [dev EXCEPT ![x] = v]
       /\ srv'.word = srv.word /\ srv'.ask = srv.ask /\ srv'.running = srv.running
       /\ \A f \in Devices : f # x => srv'.out[f] = srv.out[f]
  BY <1>1
<1> QED
  BY <1>4, <1>7, <1>12, <1>13, <1>14, OneActs

\* Nothing starts where no exposure waits.
LEMMA StartsWaiting ==
  ASSUME NEW w \in Workings
  PROVE  LET r == StartWaiting(w)
         IN /\ r \in Workings /\ r.asking = w.asking /\ r.infos = w.infos /\ r.bop = w.bop
            /\ r.toClient = w.toClient
            /\ w.waits = 0 => r = w
            /\ Raises(r) => Raises(w) \/ w.waits > 0
<1> DEFINE r == StartWaiting(w)
<1>1. /\ Quietly(w, r)
      /\ w.waits = 0 => r = w
      /\ r # w => w.waits > 0
  BY StartWaitingQuietly
<1> HIDE DEF r
<1>2. Raises(r) => Raises(w) \/ w.waits > 0
  BY <1>1
<1> QED
  BY <1>1, <1>2 DEF Quietly, r

LEMMA WorkEndsExcludes ==
  ASSUME IInv, EInv, NEW x \in Workers, WorkEnds(x)
  PROVE  EInv'
<1> DEFINE k == client[x]
           w == dev[x]
           i == Becomes(w, "idle")
           b == Becomes(w, "reading")
           s == StartWaiting(i)
           v == CASE w.work = "moving" -> i
                  [] w.work = "exposing" -> b
                  [] w.work = "reading" -> s
<1>1. /\ w.work # "idle" /\ dev' = [dev EXCEPT ![x] = v] /\ client' = [client EXCEPT ![x] = k]
      /\ srv' = srv /\ seen' = seen
  BY Histories DEF WorkEnds
<1>2. k \in Connections /\ w \in Workings
  BY Typed
<1>3. w.work \in {"moving", "exposing", "reading"} /\ w.waits \in Nat
  BY <1>1, <1>2, WorkingsFields
<1>4. /\ i \in Workings /\ i.work = "idle" /\ i.waits = w.waits /\ i.asking = w.asking /\ i.infos = w.infos
      /\ i.bop = w.bop /\ i.toClient = w.toClient
      /\ b \in Workings /\ b.work = "reading" /\ b.waits = w.waits /\ b.asking = w.asking /\ b.infos = w.infos
      /\ b.bop = w.bop /\ b.toClient = w.toClient
  BY <1>2, BecomesQuietly DEF Quietly
<1> HIDE DEF i, b
<1>5. ~Raises(i) /\ ~Raises(b)
  BY <1>4 DEF Raises
<1>6. /\ s \in Workings /\ s.asking = i.asking /\ s.infos = i.infos /\ s.bop = i.bop
      /\ s.toClient = i.toClient
      /\ i.waits = 0 => s = i
      /\ Raises(s) => Raises(i) \/ i.waits > 0
  BY <1>4, StartsWaiting
<1> HIDE DEF s
<1>7. /\ v \in Workings /\ v.asking = w.asking /\ v.infos = w.infos
      /\ v.bop = w.bop /\ v.toClient = w.toClient
      /\ w.waits = 0 => v.waits = 0
      /\ Raises(v) => w.waits > 0
  BY <1>3, <1>4, <1>5, <1>6
<1> HIDE DEF v
<1>8. v.waits > 0 => w.waits > 0
  BY <1>3, <1>7
<1>9. k.run # NoCommand \/ v.waits > 0 => Engaged(x)
  BY <1>8 DEF Engaged
<1>10. Raises(v) => Engaged(x)
  BY <1>7 DEF Engaged
<1>11. ~Engaged(x) => Calms(w, v)
  BY <1>10 DEF Calms
<1>12. ASSUME ~seen.early, Raises(v)
       PROVE  Free(dev, x)
  <2>1. Engaged(x) /\ w.waits > 0
    BY <1>7, <1>10, <1>12
  <2> QED
    BY <1>12, <2>1, Wary
<1>13. ASSUME ~seen.early, ~Free(dev, x), Engaged(x)
       PROVE  Cautious(k, v, Told(srv, dev, x), Learns(srv, dev, x))
  <2>1. Cautious(k, w, Told(srv, dev, x), Learns(srv, dev, x)) /\ w.waits = 0
    BY <1>13, Wary
  <2> HIDE DEF k, w
  <2> QED
    BY <1>7, <2>1 DEF Cautious
<1>14. /\ seen.early => seen'.early
       /\ k.run # NoCommand \/ v.waits > 0 => Engaged(x) \/ \A f \in Rivals(x) : ~Engaged(f)
       /\ ~Engaged(x) => Calms(dev[x], v)
       /\ Replied(srv'.out[x])
       /\ ~seen'.early /\ Raises(v) => Raises(dev[x]) \/ Free(dev, x)
  BY <1>1, <1>9, <1>11, <1>12 DEF EInv, Replies
<1>15. ~seen'.early /\ ~Free(dev, x) /\ (k.run # NoCommand \/ v.waits > 0) =>
         Cautious(k, v, Told(srv', dev, x), Learns(srv', dev, x))
  BY <1>1, <1>9, <1>13
<1>16. /\ client' = [client EXCEPT ![x] = k] /\ dev' = [dev EXCEPT ![x] = v]
       /\ srv'.word = srv.word /\ srv'.ask = srv.ask /\ srv'.running = srv.running
       /\ \A f \in Devices : f # x => srv'.out[f] = srv.out[f]
  BY <1>1
<1> QED
  BY <1>2, <1>7, <1>14, <1>15, <1>16, OneActs


LEMMA SetFullBopStateWaits ==
  ASSUME NEW w \in Workings, NEW on \in BOOLEAN
  PROVE  LET r == SetFullBopState(w, on)
         IN /\ w.waits = 0 => r.work = w.work /\ r.waits = 0 /\ r.toServer = w.toServer
            /\ Raises(r) => Raises(w) \/ w.waits > 0
<1> DEFINE t == ToClient(w, <<Bop(on, FALSE)>>)
           e == EndDeviceStatusCommand(t)
           u == [e EXCEPT !.bop = on]
           r == StartWaiting(u)
<1>1. SetFullBopState(w, on) = r
  BY DEF SetFullBopState
<1>2. t \in Workings /\ t.work = w.work /\ t.waits = w.waits /\ t.toServer = w.toServer
  BY ToClientResult, MessagesMade
<1> HIDE DEF t
<1>3. e \in Workings /\ e.work = w.work /\ e.waits = w.waits /\ e.toServer = w.toServer
  BY <1>2, EndDeviceStatusResult
<1> HIDE DEF e
<1>4. u \in Workings /\ u.work = w.work /\ u.waits = w.waits /\ u.toServer = w.toServer
  BY <1>3 DEF Workings
<1> HIDE DEF u
<1>5. /\ u.waits = 0 => r = u
      /\ Raises(r) => Raises(u) \/ u.waits > 0
  BY <1>4, StartsWaiting
<1>6. Raises(u) = Raises(w)
  BY <1>4 DEF Raises
<1> HIDE DEF r
<1> QED
  BY <1>1, <1>4, <1>5, <1>6

LEMMA DeviceReceivesExcludes ==
  ASSUME IInv, EInv, NEW x \in Workers, DeviceReceives(x)
  PROVE  EInv'
<1> DEFINE w == dev[x]
           k == client[x]
           l == srv.out[x]
           m == Head(l)
           t == Tail(l)
           v == CASE m.type = "status_info" -> StatusInfo(w)
                  [] m.type = "bop" -> SetFullBopState(w, m.on)
                  [] m.type = "ok" -> StatusInfoReturns(w)
           early == seen.early \/ Early(w, m)
           n == [seen EXCEPT !.early = early]
<1>1. /\ l # <<>> /\ srv' = [srv EXCEPT !.out[x] = t] /\ client' = [client EXCEPT ![x] = k]
      /\ m.type \in {"status_info", "bop", "ok"} /\ dev' = [dev EXCEPT ![x] = v]
      /\ m.type = "status_info" => seen' = seen
      /\ m.type # "status_info" => seen' = n
  BY Histories DEF DeviceReceives
<1>2. /\ w \in Workings /\ k \in Connections /\ srv \in Servers /\ l \in Seq(Messages) /\ x \in Devices
      /\ Serves(k, w, seen.queued[x], seen.executed[x], seen.answered[x])
      /\ Informed(w.infos, w.toServer, srv.running[x], l)
      /\ Replied(l)
  BY Typed, Holds DEF EInv, Replies
<1>3. /\ w.toClient \in Seq(Messages) /\ w.toServer \in Seq(Messages) /\ w.infos \in Nat
      /\ w.asking \in BOOLEAN /\ w.waits \in Nat
  BY <1>2, WorkingsFields
<1>4. t \in Seq(Messages) /\ m \in Messages /\ m.on \in BOOLEAN
  <2> HIDE DEF l
  <2>1. t \in Seq(Messages) /\ m \in Messages
    BY <1>1, <1>2, TailMeans
  <2> QED
    BY <2>1 DEF Messages
<1>5. /\ Replied(t)
      /\ m.reply => ~None(l, "ok")
      /\ None(l, "ok") => None(t, "ok") /\ m.type # "ok"
      /\ AllOn(l, 1) => AllOn(t, 1) /\ (m.type = "bop" => m.on)
      /\ Turns(l, FALSE) => /\ m.type # "ok"
                            /\ \/ m.type = "bop" /\ m.on /\ AllOn(t, 1)
                               \/ ~m.reply /\ Turns(t, FALSE)
  <2> HIDE DEF l
  <2> QED
    BY <1>1, <1>2, RepliedTail, NoneTail, AllOnTail, TurnsTail
<1>6. /\ seen.early => seen'.early
      /\ m.type # "status_info" /\ ~seen'.early => ~Early(w, m)
  <2>1. early \in BOOLEAN
    OBVIOUS
  <2> HIDE DEF early
  <2>2. n.early = early
    BY <2>1, Histories
  <2> HIDE DEF n
  <2> QED
    BY <1>1, <2>2 DEF early
<1> HIDE DEF t, m
<1>7. /\ srv'.word = srv.word /\ srv'.ask = srv.ask /\ srv'.running = srv.running
      /\ srv'.out[x] = t
      /\ \A e \in Devices : e # x => srv'.out[e] = srv.out[e]
  <2> DEFINE o == [srv.out EXCEPT ![x] = t]
  <2>1. o[x] = t /\ \A e \in Devices : e # x => o[e] = srv.out[e]
    BY <1>2, <1>4, ServersFields
  <2>2. srv' = [srv EXCEPT !.out = o]
    BY <1>1
  <2> HIDE DEF o
  <2> QED
    BY <1>2, <2>1, <2>2 DEF Servers
<1> HIDE DEF n, early
<1>8. ASSUME m.type = "status_info"
      PROVE  /\ v \in Workings /\ v.work = w.work /\ v.waits = w.waits /\ v.asking = w.asking
             /\ v.infos = w.infos /\ v.bop = w.bop /\ v.toClient = w.toClient
             /\ v.toServer = Append(w.toServer, Plain("ok"))
  <2>1. v = ToServer(w, <<Plain("ok")>>)
    BY <1>8 DEF StatusInfo
  <2> HIDE DEF v
  <2> QED
    BY <1>2, <2>1, ToServerResult, MessagesMade
<1>9. ASSUME m.type = "bop"
      PROVE  /\ v \in Workings /\ v.bop = m.on /\ ~v.asking /\ v.infos = w.infos
             /\ v.toClient = IF w.asking THEN Append(Append(w.toClient, Bop(m.on, FALSE)), Plain("ok"))
                             ELSE Append(w.toClient, Bop(m.on, FALSE))
             /\ w.waits = 0 => v.work = w.work /\ v.waits = 0 /\ v.toServer = w.toServer
             /\ Raises(v) => Raises(w) \/ w.waits > 0
  <2>1. v = SetFullBopState(w, m.on)
    BY <1>9
  <2> HIDE DEF v
  <2> QED
    BY <1>2, <1>4, <2>1, SetFullBopStateResult, SetFullBopStateWaits
<1>10. ASSUME m.type = "ok"
       PROVE  /\ v \in Workings /\ v.work = w.work /\ v.waits = w.waits /\ v.bop = w.bop
              /\ ~v.asking /\ w.infos > 0
              /\ ~w.asking => v.toClient = w.toClient
              /\ v.toServer = w.toServer \/ v.toServer = Append(w.toServer, Plain("status_info"))
  <2>1. w.infos > 0
    BY <1>2, <1>5, <1>10 DEF Informed
  <2>2. v = StatusInfoReturns(w)
    BY <1>10
  <2> HIDE DEF v
  <2> QED
    BY <1>2, <2>1, <2>2, StatusInfoReturnsResult
<1> HIDE DEF v
<1>11. /\ v \in Workings
       /\ w.waits = 0 => v.waits = 0 /\ v.work = w.work
       /\ Raises(v) => Raises(w) \/ w.waits > 0
  BY <1>1, <1>8, <1>9, <1>10 DEF Raises
<1>12. k.run # NoCommand \/ v.waits > 0 => Engaged(x)
  BY <1>3, <1>11 DEF Engaged
<1>13. ASSUME ~Engaged(x)
       PROVE  Calms(w, v)
  <2>1. w.waits = 0
    BY <1>3, <1>13 DEF Engaged
  <2>2. Raises(v) = Raises(w)
    BY <1>11, <2>1 DEF Raises
  <2>3. \/ v.toServer = w.toServer
        \/ v.toServer = Append(w.toServer, Plain("ok"))
        \/ v.toServer = Append(w.toServer, Plain("status_info"))
    BY <1>1, <1>8, <1>9, <1>10, <2>1
  <2> QED
    BY <2>2, <2>3, MessagesMade DEF Calms
<1>14. ASSUME ~seen.early, Raises(v), ~Raises(w)
       PROVE  Free(dev, x)
  <2>1. w.waits > 0
    BY <1>11, <1>14
  <2>2. Engaged(x)
    BY <2>1 DEF Engaged
  <2> QED
    BY <1>14, <2>1, <2>2, Wary
<1>15. ASSUME ~seen'.early, ~Free(dev, x), Engaged(x)
       PROVE  Cautious(k, v, Told(srv', dev, x), Learns(srv', dev, x))
  <2> DEFINE told == Told(srv, dev, x)
             learns == Learns(srv, dev, x)
             known == AllKnown(srv, dev, x)
  <2>1. Cautious(k, w, told, learns) /\ w.waits = 0
    BY <1>6, <1>15, Wary
  <2>2. /\ told => known /\ AllOn(l, 1)
        /\ known /\ AllOn(t, 1) => Told(srv', dev, x)
    BY <1>7 DEF Told, AllKnown
  <2>3. /\ learns => (srv.running[x] = 1 => Coming(srv, dev, x))
        /\ learns /\ ~None(l, "ok") => known /\ Turns(l, FALSE)
        /\ (srv.running[x] = 1 => Coming(srv, dev, x)) /\ (~None(t, "ok") => known /\ Turns(t, FALSE))
             => Learns(srv', dev, x)
    BY <1>7 DEF Learns, AllKnown, Coming
  <2>4. told => Told(srv', dev, x)
    BY <1>5, <2>2
  <2> HIDE DEF told, learns, known, k, w, l
  <2>5. CASE m.type = "status_info"
    <3>1. learns => Learns(srv', dev, x)
      BY <1>5, <2>3, <2>5
    <3> QED
      BY <1>8, <2>1, <2>4, <2>5, <3>1 DEF Cautious
  <2>6. CASE m.type = "bop" /\ ~w.asking
    <3> DEFINE b == Bop(m.on, FALSE)
               o == Append(w.toClient, b)
    <3>1. b \in Messages /\ b.on = m.on
      BY <1>4, MessagesMade
    <3> HIDE DEF b
    <3>2. /\ m.on /\ Turns(w.toClient, TRUE) => Turns(o, TRUE)
          /\ m.on /\ AllOn(w.toClient, 1) => AllOn(o, 1)
      BY <1>3, <3>1, TurnsAppend, AllOnAppend
    <3>3. told => m.on
      BY <1>5, <2>2, <2>6
    <3>4. v.toClient = o
      BY <1>9, <2>6 DEF b
    <3> HIDE DEF o
    <3> QED
      BY <1>9, <2>1, <2>4, <2>6, <3>2, <3>3, <3>4 DEF Cautious
  <2>7. CASE m.type = "bop" /\ w.asking
    <3> DEFINE b == Bop(m.on, FALSE)
               o == Append(w.toClient, b)
               p == Plain("ok")
    <3>1. k.run = DeviceStatus /\ k.out = <<>> /\ None(w.toClient, "ok")
      BY <1>2, <2>7, ServesRuns
      DEF Serves, NothingSent, StatusSent, Blocked, CommandSent, Unsent, Sent, Asking, Acknowledged
    <3>2. w.infos = 1 /\ m.reply
      BY <1>6, <1>15, <2>7 DEF Early
    <3>3. known /\ m.on /\ AllOn(t, 1)
      BY <1>5, <2>1, <2>3, <2>7, <3>2 DEF Cautious
    <3>4. Told(srv', dev, x)
      BY <2>2, <3>3
    <3>5. b \in Messages /\ b.type = "bop" /\ b.on /\ p \in Messages /\ p.type = "ok"
      BY <1>4, <3>3, MessagesMade
    <3>6. v.toClient = Append(o, p) /\ v.bop /\ ~v.asking /\ v.waits = 0
      BY <1>9, <2>1, <2>7, <3>3
    <3> HIDE DEF b, p
    <3>7. o \in Seq(Messages) /\ Turns(o, TRUE)
      BY <1>3, <3>1, <3>5, AppendMeans, TurnsNew
    <3> HIDE DEF o
    <3>8. Turns(v.toClient, TRUE)
      BY <3>5, <3>6, <3>7, TurnsAppend
    <3>9. k.run.id = 0 /\ k.run.progress = "return"
      BY <3>1 DEF DeviceStatus
    <3> DEFINE new == Told(srv', dev, x)
               later == Learns(srv', dev, x)
    <3>10. new
      BY <3>4
    <3> HIDE DEF new, later
    <3>11. ~(k.run.id > 0) /\ k.run.progress # "run"
      BY <3>9
    <3>12. Cautious(k, v, new, later)
      BY <3>6, <3>8, <3>10, <3>11 DEF Cautious
    <3> QED
      BY <3>12 DEF new, later
  <2>8. CASE m.type = "ok"
    <3>1. ~w.asking
      <4> SUFFICES ASSUME w.asking
                   PROVE  FALSE
        OBVIOUS
      <4>1. w.infos = 1
        BY <1>6, <1>15, <2>8 DEF Early
      <4>2. ~None(l, "ok")
        BY <1>5, <2>8
      <4>3. Turns(l, FALSE)
        BY <2>1, <2>3, <4>1, <4>2 DEF Cautious
      <4> QED
        BY <1>5, <2>8, <4>3
    <3> QED
      BY <1>10, <2>1, <2>4, <2>8, <3>1 DEF Cautious
  <2> QED
    BY <1>1, <2>5, <2>6, <2>7, <2>8
<1>16. /\ k.run # NoCommand \/ v.waits > 0 => Engaged(x) \/ \A f \in Rivals(x) : ~Engaged(f)
       /\ ~Engaged(x) => Calms(dev[x], v)
       /\ Replied(srv'.out[x])
       /\ ~seen'.early /\ Raises(v) => Raises(dev[x]) \/ Free(dev, x)
  BY <1>5, <1>6, <1>7, <1>12, <1>13, <1>14
<1>17. ~seen'.early /\ ~Free(dev, x) /\ (k.run # NoCommand \/ v.waits > 0) =>
         Cautious(k, v, Told(srv', dev, x), Learns(srv', dev, x))
  BY <1>12, <1>15
<1>18. client' = [client EXCEPT ![x] = k] /\ dev' = [dev EXCEPT ![x] = v]
  BY <1>1
<1> HIDE DEF k, l
<1> QED
  BY <1>2, <1>6, <1>7, <1>11, <1>16, <1>17, <1>18, OneActs


-----------------------------------------------------------------------------
(* Steps of centrald.                                                      *)

NobodyAsked(s, d) == \A e \in Devices : d \notin ToSet(s.ask[e])

\* what d is sent in a step: nothing, a question or a state, or the reply when all have answered
SaysNothing(s, r, d) == r.running[d] = s.running[d] /\ r.out[d] = s.out[d]

SaysOne(s, r, d) ==
  /\ r.running[d] = s.running[d]
  /\ \E m \in Messages : /\ m.type # "ok" /\ ~m.reply
                         /\ m.type = "bop" => m.on = GetStateForConnection(r, d)
                         /\ r.out[d] = Append(s.out[d], m)

SaysReply(s, r, d) ==
  /\ s.running[d] = 1 /\ None(s.out[d], "ok") /\ NobodyAsked(r, d)
  /\ r.running[d] = 0
  /\ r.out[d] = Append(Append(s.out[d], Bop(GetStateForConnection(r, d), TRUE)), Plain("ok"))

Says(s, r, d) == SaysNothing(s, r, d) \/ SaysOne(s, r, d) \/ SaysReply(s, r, d)

\* what d hears and will hear when a rival blocks it
Informs(s, u, r, v, d) ==
  /\ Told(s, u, d) => Told(r, v, d)
  /\ Learns(s, u, d) => Learns(r, v, d)

LEMMA SaysReplied ==
  ASSUME NEW s \in Servers, NEW r \in Servers, NEW d \in Workers, Says(s, r, d), Replied(s.out[d])
  PROVE  Replied(r.out[d])
<1> DEFINE l == s.out[d]
           b == Bop(GetStateForConnection(r, d), TRUE)
           m == Plain("ok")
<1>1. l \in Seq(Messages) /\ b \in Messages /\ m \in Messages /\ m.type = "ok" /\ ~m.reply
  BY ServersFields, MessagesMade
<1>2. Replied(l)
  OBVIOUS
<1>3. CASE SaysNothing(s, r, d)
  BY <1>3 DEF SaysNothing
<1>4. CASE SaysOne(s, r, d)
  <2>1. PICK n \in Messages : ~n.reply /\ r.out[d] = Append(l, n)
    BY <1>4 DEF SaysOne
  <2> HIDE DEF l
  <2> QED
    BY <1>1, <1>2, <2>1, RepliedAppend
<1>5. CASE SaysReply(s, r, d)
  <2>1. r.out[d] = Append(Append(l, b), m)
    BY <1>5 DEF SaysReply
  <2> HIDE DEF l, b, m
  <2> QED
    BY <1>1, <1>2, <2>1, RepliedTwo
<1> QED
  BY <1>3, <1>4, <1>5 DEF Says

\* Centrald goes on knowing of every rival what it knew, and hears of the others.
LEMMA SaysInforms ==
  ASSUME NEW s \in Servers, NEW r \in Servers, NEW u, NEW v, NEW d \in Workers,
         Says(s, r, d), Replied(s.out[d]), ~Free(v, d),
         \A e \in Rivals(d) :
           /\ Known(u[e], s.word[e]) => Known(v[e], r.word[e])
           /\ WillKnow(u[e], s.ask[e], d) => Known(v[e], r.word[e]) \/ WillKnow(v[e], r.ask[e], d)
  PROVE  Informs(s, u, r, v, d)
<1> DEFINE on == GetStateForConnection(r, d)
           l == s.out[d]
           o == r.out[d]
           b == Bop(on, TRUE)
           m == Plain("ok")
<1>1. /\ l \in Seq(Messages) /\ b \in Messages /\ b.type = "bop" /\ b.on = on
      /\ m \in Messages /\ m.type = "ok"
      /\ Replied(l)
  BY ServersFields, MessagesMade
<1>2. AllKnown(s, u, d) => AllKnown(r, v, d)
  BY DEF AllKnown
<1>3. Coming(s, u, d) => Coming(r, v, d)
  BY DEF Coming
<1>4. AllKnown(r, v, d) => on
  <2>1. PICK e \in Rivals(d) : Raises(v[e])
    BY DEF Free
  <2>2. e \in Devices /\ Blocks(e, d)
    BY <2>1, RivalsMean DEF Rivals
  <2>3. Known(v[e], r.word[e]) => r.word[e]
    BY <2>1 DEF Known
  <2> QED
    BY <2>1, <2>2, <2>3 DEF AllKnown, GetStateForConnection
<1>5. CASE SaysNothing(s, r, d)
  BY <1>2, <1>3, <1>5 DEF SaysNothing, Informs, Told, Learns
<1>6. CASE SaysOne(s, r, d)
  <2>1. PICK n \in Messages : /\ n.type # "ok" /\ (n.type = "bop" => n.on = on)
                              /\ o = Append(l, n)
    BY <1>6 DEF SaysOne
  <2>2. r.running[d] = s.running[d]
    BY <1>6 DEF SaysOne
  <2> HIDE DEF on
  <2>3. /\ None(l, "ok") => None(o, "ok")
        /\ on /\ AllOn(l, 1) => AllOn(o, 1)
        /\ on /\ Turns(l, FALSE) => Turns(o, FALSE)
    <3> HIDE DEF l, o
    <3>1. None(l, "ok") => None(o, "ok")
      BY <1>1, <2>1, NoneAppend
    <3>2. ASSUME on, AllOn(l, 1)
          PROVE  AllOn(o, 1)
      BY <1>1, <2>1, <3>2, AllOnAppend
    <3>3. ASSUME on, Turns(l, FALSE)
          PROVE  Turns(o, FALSE)
      BY <1>1, <2>1, <3>3, TurnsAppend
    <3> QED
      BY <3>1, <3>2, <3>3
  <2>4. ASSUME Told(s, u, d)
        PROVE  Told(r, v, d)
    BY <1>2, <1>4, <2>3, <2>4 DEF Told
  <2>5. ASSUME Learns(s, u, d)
        PROVE  Learns(r, v, d)
    BY <1>2, <1>3, <1>4, <2>2, <2>3, <2>5 DEF Learns
  <2> QED
    BY <2>4, <2>5 DEF Informs
<1>7. CASE SaysReply(s, r, d)
  <2>1. s.running[d] = 1 /\ None(l, "ok") /\ NobodyAsked(r, d) /\ r.running[d] = 0
        /\ o = Append(Append(l, b), m)
    BY <1>7 DEF SaysReply
  <2>2. \A e \in Rivals(d) : ~WillKnow(v[e], r.ask[e], d)
    <3> SUFFICES ASSUME NEW e \in Rivals(d), WillKnow(v[e], r.ask[e], d)
                 PROVE  FALSE
      OBVIOUS
    <3>1. PICK p \in DOMAIN r.ask[e] : r.ask[e][p] = d
      BY DEF WillKnow
    <3>2. e \in Devices
      BY RivalsMean
    <3> QED
      BY <2>1, <3>1, <3>2 DEF NobodyAsked, ToSet
  <2>3. Coming(s, u, d) => AllKnown(r, v, d)
    BY <1>3, <2>2 DEF Coming, AllKnown
  <2> HIDE DEF on, b, m
  <2>4. /\ on /\ AllOn(l, 1) => AllOn(o, 1)
        /\ on => Turns(o, FALSE)
    <3> HIDE DEF l, o
    <3> DEFINE i == Append(l, b)
    <3>1. i \in Seq(Messages)
      BY <1>1, AppendMeans
    <3>2. ASSUME on, AllOn(l, 1)
          PROVE  AllOn(o, 1)
      <4>1. AllOn(i, 1)
        BY <1>1, <3>2, AllOnAppend
      <4> HIDE DEF i
      <4>2. AllOn(Append(i, m), 1)
        BY <1>1, <3>1, <4>1, AllOnAppend
      <4> QED
        BY <2>1, <4>2 DEF i
    <3>3. ASSUME on
          PROVE  Turns(o, FALSE)
      <4>1. \A j \in DOMAIN l : l[j].reply => FALSE
        BY <1>1, <2>1, NoReply
      <4>2. Turns(i, FALSE)
        BY <1>1, <2>1, <3>3, <4>1, TurnsNew
      <4> HIDE DEF i
      <4>3. Turns(Append(i, m), FALSE)
        BY <1>1, <3>1, <4>2, TurnsAppend
      <4> QED
        BY <2>1, <4>3 DEF i
    <3> QED
      BY <3>2, <3>3
  <2>5. ASSUME Told(s, u, d)
        PROVE  Told(r, v, d)
    BY <1>2, <1>4, <2>4, <2>5 DEF Told
  <2>6. ASSUME Learns(s, u, d)
        PROVE  Learns(r, v, d)
    <3>1. AllKnown(r, v, d)
      BY <2>1, <2>3, <2>6 DEF Learns
    <3>2. Turns(o, FALSE)
      BY <1>4, <2>4, <3>1
    <3>3. r.running[d] # 1
      BY <2>1
    <3> QED
      BY <3>1, <3>2, <3>3 DEF Learns
  <2> QED
    BY <2>5, <2>6 DEF Informs
<1> QED
  BY <1>5, <1>6, <1>7 DEF Says

LEMMA InformsOn ==
  ASSUME NEW s, NEW u, NEW n, NEW t, NEW r, NEW v, NEW d, Informs(s, u, n, t, d), Informs(n, t, r, v, d)
  PROVE  Informs(s, u, r, v, d)
BY DEF Informs

\* A step of centrald: workers only lose what they sent.
LEMMA ServerActs ==
  ASSUME EInv, UNCHANGED <<client, seen>>,
         \A e \in Workers : /\ dev'[e].work = dev[e].work /\ dev'[e].waits = dev[e].waits
                            /\ dev'[e].bop = dev[e].bop /\ dev'[e].asking = dev[e].asking
                            /\ dev'[e].infos = dev[e].infos /\ dev'[e].toClient = dev[e].toClient,
         Replies(srv'), AskedOnce(srv'),
         \A d \in Workers : ~Free(dev', d) => Informs(srv, dev, srv', dev', d)
  PROVE  EInv'
<1>1. /\ OneEngaged
      /\ ~seen.early => Apart /\ \A d \in Workers : Engaged(d) => Fresh(d)
  BY DEF EInv
<1>2. \A d \in Workers : Rivals(d) \subseteq Workers
  BY RivalsMean
<1>3. \A e \in Workers : (Engaged(e)' <=> Engaged(e)) /\ (Raises(dev'[e]) <=> Raises(dev[e]))
  BY DEF Engaged, Raises
<1>4. OneEngaged'
  <2> SUFFICES ASSUME NEW d \in Workers, Engaged(d)', NEW e \in Rivals(d), Engaged(e)'
               PROVE  FALSE
    BY DEF OneEngaged
  <2>1. Engaged(d) /\ Engaged(e)
    BY <1>2, <1>3
  <2> QED
    BY <1>1, <2>1 DEF OneEngaged
<1>5. Apart => Apart'
  BY <1>2, <1>3 DEF Apart
<1>6. ASSUME NEW d \in Workers, Fresh(d)
      PROVE  Fresh(d)'
  <2>1. Free(dev, d) <=> Free(dev', d)
    BY <1>2, <1>3 DEF Free
  <2>2. CASE Free(dev, d)
    BY <2>1, <2>2 DEF Fresh
  <2>3. CASE ~Free(dev, d)
    <3>1. Cautious(client[d], dev[d], Told(srv, dev, d), Learns(srv, dev, d))
      BY <1>6, <2>3 DEF Fresh
    <3>2. Cautious(client[d], dev[d], Told(srv', dev', d), Learns(srv', dev', d))
      <4>1. /\ Told(srv, dev, d) => Told(srv', dev', d)
            /\ Learns(srv, dev, d) => Learns(srv', dev', d)
        BY <2>1, <2>3 DEF Informs
      <4> QED
        BY <3>1, <4>1, CautiousOn
    <3> DEFINE told == Told(srv', dev', d)
               learns == Learns(srv', dev', d)
    <3>3. Cautious(client[d], dev'[d], told, learns)
      <4>1. Cautious(client[d], dev[d], told, learns)
        BY <3>2
      <4> HIDE DEF told, learns
      <4> QED
        BY <4>1 DEF Cautious
    <3> QED
      BY <3>3 DEF Fresh
  <2> QED
    BY <2>2, <2>3
<1> QED
  BY <1>1, <1>3, <1>4, <1>5, <1>6 DEF EInv


LEMMA SetStateSays ==
  ASSUME NEW s \in Servers, NEW x \in Devices, NEW on \in BOOLEAN
  PROVE  LET r == SetState(s, x, on)
         IN /\ r \in Servers /\ r.ask = s.ask /\ r.running = s.running
            /\ \A d \in Workers : Says(s, r, d)
<1> DEFINE u == [s EXCEPT !.word[x] = on]
           t == BopMaskChanged(u)
           r == SetState(s, x, on)
<1>1. r = IF s.word[x] = on THEN s ELSE t
  BY DEF SetState
<1>2. u \in Servers /\ u.ask = s.ask /\ u.running = s.running /\ u.out = s.out
  BY SetWordResult
<1> HIDE DEF u
<1>3. /\ t \in Servers /\ t.word = u.word /\ t.ask = u.ask /\ t.running = u.running
      /\ \A d \in Workers : t.out[d] = Append(u.out[d], Bop(GetStateForConnection(u, d), FALSE))
  BY <1>2, BopMaskChangedResult
<1> HIDE DEF t
<1>4. ASSUME NEW d \in Workers
      PROVE  Says(s, t, d)
  <2> DEFINE m == Bop(GetStateForConnection(u, d), FALSE)
  <2>1. m \in Messages /\ m.type = "bop" /\ ~m.reply /\ m.on = GetStateForConnection(t, d)
    <3>1. GetStateForConnection(t, d) = GetStateForConnection(u, d)
      BY <1>3, SameWord
    <3>2. GetStateForConnection(u, d) \in BOOLEAN
      BY <1>2, ServersFields
    <3> QED
      BY <3>1, <3>2, MessagesMade
  <2>2. t.out[d] = Append(s.out[d], m) /\ t.running[d] = s.running[d]
    BY <1>2, <1>3
  <2> HIDE DEF m
  <2>3. SaysOne(s, t, d)
    BY <2>1, <2>2 DEF SaysOne
  <2> QED
    BY <2>3 DEF Says
<1>5. \A d \in Workers : Says(s, s, d)
  BY DEF Says, SaysNothing
<1> HIDE DEF r
<1> QED
  BY <1>1, <1>2, <1>3, <1>4, <1>5 DEF r

\* A list from which a worker that nobody else asks for is taken away.
LEMMA AskedOnceOn ==
  ASSUME NEW s \in Servers, NEW r \in Servers, AskedOnce(s),
         \A e \in Devices : r.ask[e] = s.ask[e] \/ (s.ask[e] # <<>> /\ r.ask[e] = Tail(s.ask[e])) \/ r.ask[e] = <<>>,
         \A d \in Workers : r.running[d] = s.running[d] \/ NobodyAsked(r, d)
  PROVE  AskedOnce(r)
<1> SUFFICES ASSUME NEW e \in Devices, NEW i \in DOMAIN r.ask[e]
             PROVE  /\ r.running[r.ask[e][i]] # 0
                    /\ \A j \in DOMAIN r.ask[e] : r.ask[e][j] = r.ask[e][i] => j = i
  BY DEF AskedOnce
<1> DEFINE a == s.ask[e]
           b == r.ask[e]
<1>1. a \in Seq(Workers) /\ b \in Seq(Workers)
  BY ServersFields
<1>2. \A k \in DOMAIN a : s.running[a[k]] # 0 /\ \A j \in DOMAIN a : a[j] = a[k] => j = k
  BY DEF AskedOnce
<1>3. b = a \/ (a # <<>> /\ b = Tail(a)) \/ b = <<>>
  OBVIOUS
<1>4. i \in DOMAIN b
  OBVIOUS
<1>5. s.running[b[i]] # 0 /\ \A j \in DOMAIN b : b[j] = b[i] => j = i
  <2> HIDE DEF a, b
  <2>1. CASE b = a
    BY <1>2, <1>4, <2>1
  <2>2. CASE a # <<>> /\ b = Tail(a)
    <3>1. /\ DOMAIN a = 1 .. Len(a) /\ Len(a) \in Nat /\ DOMAIN b = 1 .. (Len(a) - 1)
          /\ \A j \in DOMAIN b : b[j] = a[j + 1]
      BY <1>1, <2>2, TailMeans
    <3>2. \A j \in DOMAIN b : j + 1 \in DOMAIN a
      BY <3>1
    <3>3. s.running[b[i]] # 0
      BY <1>2, <1>4, <3>1, <3>2
    <3>4. ASSUME NEW j \in DOMAIN b, b[j] = b[i]
          PROVE  j = i
      <4>1. j + 1 = i + 1
        BY <1>2, <1>4, <3>1, <3>2, <3>4
      <4> QED
        BY <1>4, <3>1, <4>1
    <3> QED
      BY <3>3, <3>4
  <2>3. CASE b = <<>>
    BY <1>4, <2>3
  <2> QED
    BY <1>3, <2>1, <2>2, <2>3
<1>6. b[i] \in Workers /\ b[i] \in ToSet(b)
  <2>1. b[i] \in ToSet(b)
    BY <1>4 DEF ToSet
  <2> HIDE DEF b
  <2> QED
    BY <1>1, <1>4, <2>1
<1>7. r.running[b[i]] = s.running[b[i]]
  BY <1>6 DEF NobodyAsked
<1> QED
  BY <1>5, <1>7

\* r is what updateStatusWait () makes of s
Updates(s, r, d, x) ==
  /\ r \in Servers /\ r.word = s.word /\ r.ask = s.ask
  /\ s.running[d] = 0 \/ Pending(s, d, x) => r = s
  /\ ~(s.running[d] = 0 \/ Pending(s, d, x)) =>
       /\ r.running[d] = s.running[d] - 1
       /\ r.out[d] = Append(Append(s.out[d], Bop(GetStateForConnection(s, d), TRUE)), Plain("ok"))
  /\ \A e \in Workers : e # d => r.running[e] = s.running[e]
  /\ \A e \in Devices : e # d => r.out[e] = s.out[e]

LEMMA Updated ==
  ASSUME NEW s \in Servers, NEW d \in Workers, NEW x
  PROVE  Updates(s, UpdateStatusWait(s, d, x), d, x)
<1>1. LET g == UpdateStatusWait(s, d, x)
          on == GetStateForConnection(s, d)
      IN /\ g \in Servers /\ g.word = s.word /\ g.ask = s.ask /\ g.in = s.in
         /\ s.running[d] = 0 \/ Pending(s, d, x) => g = s
         /\ ~(s.running[d] = 0 \/ Pending(s, d, x)) =>
              /\ g.running[d] = s.running[d] - 1
              /\ g.out[d] = Append(Append(s.out[d], Bop(on, TRUE)), Plain("ok"))
         /\ \A e \in Workers : e # d => g.running[e] = s.running[e]
         /\ \A e \in Devices : e # d => g.out[e] = s.out[e]
  BY UpdateStatusWaitResult, ZenonT(60)
<1> QED
  BY <1>1 DEF Updates

\* one question of a worker is open at most, and no answer is on its way meanwhile
OneOpen(s) == \A d \in Workers : s.running[d] \in {0, 1} /\ (s.running[d] = 1 => None(s.out[d], "ok"))

LEMMA AnsweredSays ==
  ASSUME NEW s \in Servers, NEW x \in Devices, s.ask[x] # <<>>, AskedOnce(s), OneOpen(s)
  PROVE  LET r == StatusInfoAnswered(s, x)
         IN \E n \in Servers :
              /\ r \in Servers /\ r.word = s.word /\ n.word = s.word /\ n.ask = r.ask
              /\ AskedOnce(r) /\ r.ask[x] = Tail(s.ask[x])
              /\ \A e \in Devices : e # x => r.ask[e] = s.ask[e]
              /\ \A d \in Workers : Says(s, n, d) /\ Says(n, r, d)
<1> DEFINE h == Head(s.ask[x])
           u == UpdateStatusWait(s, h, {x})
           y == Tail(u.ask[x])
           a == [u.ask EXCEPT ![x] = y]
           n == [u EXCEPT !.ask = a]
           m == Plain("status_info")
           z == <<m>>
           t == Send(n, x, z)
           r == StatusInfoAnswered(s, x)
<1>1. r = IF n.ask[x] = <<>> THEN n ELSE t
  BY DEF StatusInfoAnswered
<1>2. h \in Workers
  BY TailMeans, ServersFields
<1>3. /\ u \in Servers /\ u.word = s.word /\ u.ask = s.ask
      /\ s.running[h] = 0 \/ Pending(s, h, {x}) => u = s
      /\ ~(s.running[h] = 0 \/ Pending(s, h, {x})) =>
           /\ u.running[h] = s.running[h] - 1
           /\ u.out[h] = Append(Append(s.out[h], Bop(GetStateForConnection(s, h), TRUE)), Plain("ok"))
      /\ \A d \in Workers : d # h => u.running[d] = s.running[d]
      /\ \A d \in Devices : d # h => u.out[d] = s.out[d]
  <2>1. Updates(s, u, h, {x})
    BY <1>2, Updated
  <2> HIDE DEF u, h
  <2> QED
    BY <2>1 DEF Updates
<1> HIDE DEF u
<1>4. y \in Seq(Workers) /\ y = Tail(s.ask[x])
  BY <1>3, TailMeans, ServersFields
<1>5. \A i \in DOMAIN y : y[i] # h
  <2> DEFINE b == s.ask[x]
  <2>1. /\ b \in Seq(Workers) /\ b # <<>> /\ h = Head(b) /\ y = Tail(b)
        /\ \A i, j \in DOMAIN b : b[j] = b[i] => j = i
    BY <1>4, ServersFields DEF AskedOnce
  <2> HIDE DEF b, y, h
  <2>2. /\ DOMAIN b = 1 .. Len(b) /\ Len(b) \in Nat /\ DOMAIN y = 1 .. (Len(b) - 1)
        /\ \A i \in DOMAIN y : y[i] = b[i + 1]
        /\ h = b[1] /\ 1 \in DOMAIN b
    BY <2>1, TailMeans
  <2>3. \A i \in DOMAIN y : i + 1 \in DOMAIN b /\ i + 1 # 1
    BY <2>2
  <2> QED
    BY <2>1, <2>2, <2>3
<1> HIDE DEF y, h
<1>6. a \in [Devices -> Seq(Workers)] /\ a[x] = y /\ \A d \in Devices : d # x => a[d] = s.ask[d]
  BY <1>3, <1>4, ServersFields
<1> HIDE DEF a
<1>7. n \in Servers /\ n.word = u.word /\ n.ask = a /\ n.running = u.running /\ n.out = u.out
  BY <1>3, <1>6 DEF Servers
<1> HIDE DEF n
<1>8. m \in Messages /\ m.type = "status_info" /\ ~m.reply
  BY MessagesMade
<1> HIDE DEF m
<1>9. n.out[x] \o z \in Seq(Messages) /\ n.out[x] \o z = Append(n.out[x], m)
  <2> DEFINE l == n.out[x]
  <2>1. l \in Seq(Messages)
    BY <1>7, ServersFields
  <2> HIDE DEF l
  <2>2. l \o <<m>> = Append(l, m) /\ l \o <<m>> \in Seq(Messages)
    BY <1>8, <2>1, ConcatIsAppend, AppendMeans
  <2> QED
    BY <2>2 DEF l
<1> HIDE DEF z
<1>10. /\ t \in Servers /\ t.word = n.word /\ t.ask = n.ask /\ t.running = n.running
       /\ t.out[x] = Append(n.out[x], m)
       /\ \A d \in Devices : d # x => t.out[d] = n.out[d]
  <2>1. n \in Servers /\ x \in Devices /\ n.out[x] \o z \in Seq(Messages)
    BY <1>7, <1>9
  <2>2. LET q == Send(n, x, z)
        IN /\ q \in Servers /\ q.word = n.word /\ q.ask = n.ask /\ q.running = n.running /\ q.in = n.in
           /\ q.out[x] = n.out[x] \o z
           /\ \A e \in Devices : e # x => q.out[e] = n.out[e]
    BY <2>1, SendResult
  <2> QED
    BY <1>9, <2>2
<1> HIDE DEF t
<1>11. ASSUME ~(s.running[h] = 0 \/ Pending(s, h, {x}))
       PROVE  NobodyAsked(n, h)
  <2> SUFFICES ASSUME NEW e \in Devices
               PROVE  h \notin ToSet(n.ask[e])
    BY DEF NobodyAsked
  <2>1. CASE e = x
    BY <1>5, <1>6, <1>7, <2>1 DEF ToSet
  <2>2. CASE e # x
    BY <1>6, <1>7, <1>11, <2>2 DEF Pending
  <2> QED
    BY <2>1, <2>2
<1>12. ASSUME NEW d \in Workers
       PROVE  Says(s, n, d)
  <2>1. d \in Devices
    BY DEF Devices
  <2>2. CASE d # h \/ u = s
    BY <1>3, <1>7, <2>1, <2>2 DEF Says, SaysNothing
  <2>3. CASE d = h /\ ~(s.running[h] = 0 \/ Pending(s, h, {x}))
    <3>1. s.running[d] = 1 /\ None(s.out[d], "ok") /\ u.running[d] = 0
      BY <1>3, <2>3 DEF OneOpen
    <3>2. GetStateForConnection(n, d) = GetStateForConnection(s, d)
      BY <1>3, <1>7, SameWord
    <3>3. SaysReply(s, n, d)
      BY <1>3, <1>7, <1>11, <2>3, <3>1, <3>2 DEF SaysReply
    <3> QED
      BY <3>3 DEF Says
  <2> QED
    BY <1>3, <2>2, <2>3
<1>13. AskedOnce(n)
  <2>1. \A e \in Devices : \/ n.ask[e] = s.ask[e]
                           \/ s.ask[e] # <<>> /\ n.ask[e] = Tail(s.ask[e])
                           \/ n.ask[e] = <<>>
    BY <1>4, <1>6, <1>7
  <2>2. \A d \in Workers : n.running[d] = s.running[d] \/ NobodyAsked(n, d)
    BY <1>3, <1>7, <1>11
  <2> QED
    BY <1>7, <2>1, <2>2, AskedOnceOn
<1>14. \A d \in Workers : Says(n, n, d)
  BY DEF Says, SaysNothing
<1>15. ASSUME NEW d \in Workers
       PROVE  Says(n, t, d)
  <2>1. d \in Devices
    BY DEF Devices
  <2>2. CASE d # x
    BY <1>10, <2>1, <2>2 DEF Says, SaysNothing
  <2>3. CASE d = x
    <3>1. t.running[d] = n.running[d] /\ t.out[d] = Append(n.out[d], m)
      BY <1>10, <2>3
    <3>2. SaysOne(n, t, d)
      BY <1>8, <3>1 DEF SaysOne
    <3> QED
      BY <3>2 DEF Says
  <2> QED
    BY <2>2, <2>3
<1>16. AskedOnce(t)
  BY <1>10, <1>13 DEF AskedOnce
<1> HIDE DEF r
<1>17. /\ r \in Servers /\ r.word = s.word /\ n.word = s.word /\ n.ask = r.ask
       /\ AskedOnce(r) /\ r.ask[x] = Tail(s.ask[x])
       /\ \A e \in Devices : e # x => r.ask[e] = s.ask[e]
       /\ \A d \in Workers : Says(s, n, d) /\ Says(n, r, d)
  BY <1>1, <1>3, <1>4, <1>6, <1>7, <1>10, <1>12, <1>13, <1>14, <1>15, <1>16
<1> QED
  BY <1>7, <1>17 DEF r


LEMMA StatusInfoSays ==
  ASSUME NEW s \in Servers, NEW x \in Workers, NEW listed, Workers \subseteq listed,
         s.running[x] = 0, AskedOnce(s)
  PROVE  LET r == CentraldStatusInfo(s, x, listed)
         IN /\ r \in Servers /\ r.word = s.word /\ AskedOnce(r)
            /\ \A d \in Workers : Replied(s.out[d]) => Replied(r.out[d])
            /\ Workers # {x} =>
                 /\ r.out[x] = s.out[x]
                 /\ \A d \in Workers : d # x =>
                      Says(s, r, d) /\ r.ask[d] = Append(s.ask[d], x)
            /\ \A e \in Devices : r.ask[e] = s.ask[e] \/ r.ask[e] = Append(s.ask[e], x)
<1> DEFINE asked == listed \ {x}
           m == Plain("ok")
           z == <<m>>
           t == Send(s, x, z)
           i == Plain("status_info")
           n == s.running[x] + 1
           g == [s.running EXCEPT ![x] = n]
           f(e) == IF e \in asked THEN Append(s.ask[e], x) ELSE s.ask[e]
           a == [e \in Devices |-> f(e)]
           y(e) == IF e \in asked /\ s.ask[e] = <<>> THEN Append(s.out[e], i) ELSE s.out[e]
           o == [e \in Devices |-> y(e)]
           u == [s EXCEPT !.running = g, !.ask = a, !.out = o]
           r == CentraldStatusInfo(s, x, listed)
<1>1. r = IF asked = {} THEN t ELSE u
  BY DEF CentraldStatusInfo
<1>2. /\ m \in Messages /\ m.type = "ok" /\ ~m.reply
      /\ i \in Messages /\ i.type = "status_info" /\ ~i.reply
      /\ x \in Devices /\ Workers \subseteq Devices
      /\ \A e \in Devices : s.out[e] \in Seq(Messages) /\ s.ask[e] \in Seq(Workers)
      /\ s.running \in [Workers -> Nat]
  BY MessagesMade, ServersFields
<1> HIDE DEF m, i
<1>3. s.out[x] \o z \in Seq(Messages) /\ s.out[x] \o z = Append(s.out[x], m)
  <2> DEFINE l == s.out[x]
  <2>1. l \in Seq(Messages)
    BY <1>2
  <2> HIDE DEF l
  <2>2. l \o <<m>> = Append(l, m) /\ l \o <<m>> \in Seq(Messages)
    BY <1>2, <2>1, ConcatIsAppend, AppendMeans
  <2> QED
    BY <2>2 DEF l
<1> HIDE DEF z
<1>4. CASE asked = {}
  <2>1. /\ t \in Servers /\ t.word = s.word /\ t.ask = s.ask /\ t.running = s.running
        /\ t.out[x] = Append(s.out[x], m)
        /\ \A e \in Devices : e # x => t.out[e] = s.out[e]
    <3>1. x \in Devices /\ s.out[x] \o z \in Seq(Messages)
      BY <1>2, <1>3
    <3> HIDE DEF asked, n, g, f, a, y, o, u, r
    <3>2. LET q == Send(s, x, z)
          IN /\ q \in Servers /\ q.word = s.word /\ q.ask = s.ask /\ q.running = s.running /\ q.in = s.in
             /\ q.out[x] = s.out[x] \o z
             /\ \A e \in Devices : e # x => q.out[e] = s.out[e]
      BY <3>1, SendResult
    <3> QED
      BY <1>3, <3>2
  <2> HIDE DEF t
  <2>2. Workers = {x}
    BY <1>4
  <2>3. Replied(s.out[x]) => Replied(t.out[x])
    <3> DEFINE l == s.out[x]
    <3>1. l \in Seq(Messages) /\ t.out[x] = Append(l, m)
      BY <1>2, <2>1
    <3> HIDE DEF l
    <3>2. Replied(l) => Replied(Append(l, m))
      BY <1>2, <3>1, RepliedAppend
    <3> QED
      BY <3>1, <3>2 DEF l
  <2>4. \A d \in Workers : Replied(s.out[d]) => Replied(t.out[d])
    BY <2>2, <2>3
  <2>5. AskedOnce(t)
    BY <2>1 DEF AskedOnce
  <2>6. r = t
    BY <1>1, <1>4
  <2> HIDE DEF r
  <2> QED
    BY <2>1, <2>2, <2>4, <2>5, <2>6 DEF r
<1> HIDE DEF t
<1>5. CASE asked # {}
  <2>1. n \in Nat /\ n = 1
    OBVIOUS
  <2> HIDE DEF n
  <2>2. g \in [Workers -> Nat] /\ g[x] = 1 /\ \A e \in Workers : e # x => g[e] = s.running[e]
    BY <1>2, <2>1
  <2> HIDE DEF g
  <2>3. ASSUME NEW e \in Devices
        PROVE  /\ f(e) \in Seq(Workers) /\ y(e) \in Seq(Messages)
               /\ f(e) = s.ask[e] \/ f(e) = Append(s.ask[e], x)
               /\ y(e) = s.out[e] \/ y(e) = Append(s.out[e], i)
               /\ e \in asked => f(e) = Append(s.ask[e], x)
               /\ e \notin asked => y(e) = s.out[e]
    <3> DEFINE l == s.out[e]
               b == s.ask[e]
    <3>1. l \in Seq(Messages) /\ b \in Seq(Workers)
      BY <1>2
    <3> HIDE DEF l, b
    <3>2. Append(l, i) \in Seq(Messages) /\ Append(b, x) \in Seq(Workers)
      BY <1>2, <3>1, AppendMeans
    <3> QED
      BY <3>1, <3>2 DEF l, b
  <2>4. \A e \in Devices : a[e] = f(e) /\ o[e] = y(e)
    OBVIOUS
  <2> HIDE DEF f, y
  <2>5. a \in [Devices -> Seq(Workers)] /\ o \in [Devices -> Seq(Messages)]
    BY <2>3
  <2> HIDE DEF a, o
  <2>6. u \in Servers /\ u.word = s.word /\ u.ask = a /\ u.running = g /\ u.out = o
    BY <2>2, <2>5 DEF Servers
  <2>7. r = u
    BY <1>1, <1>5
  <2> HIDE DEF u, r
  <2>8. \A d \in Workers : d \in Devices /\ (d # x => d \in asked) /\ x \notin asked
    BY <1>2
  <2> HIDE DEF asked
  <2>9. ASSUME NEW d \in Workers
        PROVE  Says(s, u, d) \/ d = x
    <3>1. CASE d # x /\ y(d) = s.out[d]
      BY <2>2, <2>4, <2>6, <2>8, <3>1 DEF Says, SaysNothing
    <3>2. CASE d # x /\ y(d) = Append(s.out[d], i)
      <4>1. u.running[d] = s.running[d] /\ u.out[d] = Append(s.out[d], i)
        BY <2>2, <2>4, <2>6, <2>8, <3>2
      <4>2. SaysOne(s, u, d)
        BY <1>2, <4>1 DEF SaysOne
      <4> QED
        BY <4>2 DEF Says
    <3> QED
      BY <2>3, <2>8, <3>1, <3>2
  <2>10. u.out[x] = s.out[x]
    BY <1>2, <2>3, <2>4, <2>6, <2>8
  <2>11. ASSUME NEW d \in Workers, Replied(s.out[d])
         PROVE  Replied(u.out[d])
    BY <2>6, <2>9, <2>10, <2>11, SaysReplied
  <2>12. AskedOnce(u)
    <3> SUFFICES ASSUME NEW e \in Devices
                 PROVE  \A k \in DOMAIN u.ask[e] :
                          /\ u.running[u.ask[e][k]] # 0
                          /\ \A j \in DOMAIN u.ask[e] : u.ask[e][j] = u.ask[e][k] => j = k
      BY DEF AskedOnce
    <3> DEFINE b == s.ask[e]
               c == u.ask[e]
    <3>1. b \in Seq(Workers) /\ (c = b \/ c = Append(b, x))
      BY <1>2, <2>3, <2>4, <2>6
    <3>2. \A k \in DOMAIN b : s.running[b[k]] # 0 /\ \A j \in DOMAIN b : b[j] = b[k] => j = k
      BY DEF AskedOnce
    <3> HIDE DEF b, c
    <3>3. \A k \in DOMAIN b : b[k] \in Workers /\ b[k] # x /\ u.running[b[k]] # 0
      <4>1. \A k \in DOMAIN b : b[k] \in Workers
        BY <3>1
      <4> QED
        BY <2>2, <2>6, <3>2, <4>1
    <3>4. u.running[x] # 0
      BY <2>2, <2>6
    <3>5. CASE c = b
      BY <3>2, <3>3, <3>5 DEF c
    <3>6. CASE c = Append(b, x)
      <4>1. /\ DOMAIN c = 1 .. (Len(b) + 1) /\ DOMAIN b = 1 .. Len(b) /\ Len(b) \in Nat
            /\ \A k \in 1 .. Len(b) : c[k] = b[k]
            /\ c[Len(b) + 1] = x
        BY <3>1, <3>6, AppendMeans
      <4> DEFINE last == Len(b) + 1
      <4>2. /\ last \in DOMAIN c /\ c[last] = x
            /\ \A k \in DOMAIN c : k # last => k \in DOMAIN b /\ c[k] = b[k]
        BY <4>1
      <4> HIDE DEF last
      <4>3. \A k \in DOMAIN c : /\ u.running[c[k]] # 0
                                /\ \A j \in DOMAIN c : c[j] = c[k] => j = k
        BY <3>2, <3>3, <3>4, <4>2
      <4> QED
        BY <4>3 DEF c
    <3> QED
      BY <3>1, <3>5, <3>6
  <2>13. \A e \in Devices : u.ask[e] = s.ask[e] \/ u.ask[e] = Append(s.ask[e], x)
    BY <2>3, <2>4, <2>6
  <2>14. \A d \in Workers : d # x => u.ask[d] = Append(s.ask[d], x)
    BY <2>3, <2>4, <2>6, <2>8
  <2> QED
    BY <2>6, <2>7, <2>9, <2>10, <2>11, <2>12, <2>13, <2>14 DEF r
<1> QED
  BY <1>4, <1>5

\* A lost connection: everybody hears the state without it, and whoever waited for it its reply.
LEMMA RemovedSays ==
  ASSUME NEW s \in Servers, NEW x \in Others, AskedOnce(s), OneOpen(s)
  PROVE  LET r == ConnectionRemoved(s, x)
         IN \E n \in Servers :
              /\ r \in Servers /\ n.word = r.word /\ n.ask = r.ask
              /\ AskedOnce(r)
              /\ \A e \in Workers : r.word[e] = s.word[e] /\ r.ask[e] = s.ask[e]
              /\ \A d \in Workers : Says(s, n, d) /\ Says(n, r, d)
<1> DEFINE t == Forgotten(s, x)
           n == BopMaskChanged(t)
           r == UpdateStatusWaits(n)
<1>1. ConnectionRemoved(s, x) = r
  BY DEF ConnectionRemoved
<1>2. /\ t \in Servers /\ t.running = s.running
      /\ t.word = [s.word EXCEPT ![x] = FALSE]
      /\ t.ask[x] = <<>>
      /\ \A e \in Devices : e # x => t.ask[e] = s.ask[e] /\ t.out[e] = s.out[e]
  BY ForgottenResult
<1> HIDE DEF t
<1>3. /\ n \in Servers /\ n.word = t.word /\ n.ask = t.ask /\ n.running = t.running
      /\ \A d \in Workers : n.out[d] = Append(t.out[d], Bop(GetStateForConnection(t, d), FALSE))
  BY <1>2, BopMaskChangedResult
<1> HIDE DEF n
<1>4. /\ r \in Servers /\ r.word = n.word /\ r.ask = n.ask
      /\ \A d \in Workers : /\ r.running[d] = UpdateStatusWait(n, d, {}).running[d]
                            /\ r.out[d] = UpdateStatusWait(n, d, {}).out[d]
  BY <1>3, UpdateStatusWaitsResult
<1> HIDE DEF r
<1>5. x \in Devices /\ \A d \in Workers : d \in Devices /\ d # x
  BY DevicesAssumption DEF Workers, Devices
<1>6. ASSUME NEW d \in Workers
      PROVE  /\ SaysOne(s, n, d)
             /\ None(s.out[d], "ok") => None(n.out[d], "ok")
  <2> DEFINE m == Bop(GetStateForConnection(t, d), FALSE)
             l == s.out[d]
  <2>1. m \in Messages /\ m.type = "bop" /\ ~m.reply /\ m.on = GetStateForConnection(n, d)
    <3>1. GetStateForConnection(n, d) = GetStateForConnection(t, d)
      BY <1>3, SameWord
    <3>2. GetStateForConnection(t, d) \in BOOLEAN
      BY <1>2, ServersFields
    <3> QED
      BY <3>1, <3>2, MessagesMade
  <2>2. n.out[d] = Append(l, m) /\ n.running[d] = s.running[d] /\ l \in Seq(Messages)
    BY <1>2, <1>3, <1>5, ServersFields
  <2> HIDE DEF m
  <2>3. SaysOne(s, n, d)
    BY <2>1, <2>2 DEF SaysOne
  <2> HIDE DEF l
  <2>4. None(l, "ok") => None(Append(l, m), "ok")
    BY <2>1, <2>2, NoneAppend
  <2> QED
    BY <2>2, <2>3, <2>4 DEF l
<1>7. ASSUME NEW d \in Workers
      PROVE  Says(n, r, d) /\ (r.running[d] = n.running[d] \/ NobodyAsked(r, d))
  <2> DEFINE u == UpdateStatusWait(n, d, {})
  <2>1. Updates(n, u, d, {})
    BY <1>3, Updated
  <2> HIDE DEF u
  <2>2. r.running[d] = u.running[d] /\ r.out[d] = u.out[d]
    BY <1>4 DEF u
  <2>3. CASE n.running[d] = 0 \/ Pending(n, d, {})
    <3>1. u = n
      BY <2>1, <2>3 DEF Updates
    <3> QED
      BY <2>2, <3>1 DEF Says, SaysNothing
  <2>4. CASE ~(n.running[d] = 0 \/ Pending(n, d, {}))
    <3>1. /\ u.running[d] = n.running[d] - 1
          /\ u.out[d] = Append(Append(n.out[d], Bop(GetStateForConnection(n, d), TRUE)), Plain("ok"))
      BY <2>1, <2>4 DEF Updates
    <3>2. n.running[d] = 1 /\ None(n.out[d], "ok") /\ u.running[d] = 0
      BY <1>2, <1>3, <1>6, <2>4, <3>1 DEF OneOpen
    <3>3. NobodyAsked(r, d)
      BY <1>4, <2>4 DEF NobodyAsked, Pending
    <3>4. GetStateForConnection(r, d) = GetStateForConnection(n, d)
      BY <1>4, SameWord
    <3>5. SaysReply(n, r, d)
      BY <2>2, <3>1, <3>2, <3>3, <3>4 DEF SaysReply
    <3> QED
      BY <3>3, <3>5 DEF Says
  <2> QED
    BY <2>3, <2>4
<1>8. AskedOnce(r)
  <2>1. \A e \in Devices : \/ r.ask[e] = s.ask[e]
                           \/ s.ask[e] # <<>> /\ r.ask[e] = Tail(s.ask[e])
                           \/ r.ask[e] = <<>>
    BY <1>2, <1>3, <1>4
  <2>2. \A d \in Workers : r.running[d] = s.running[d] \/ NobodyAsked(r, d)
    BY <1>2, <1>3, <1>7
  <2> QED
    BY <1>4, <2>1, <2>2, AskedOnceOn
<1>9. \A e \in Workers : r.word[e] = s.word[e] /\ r.ask[e] = s.ask[e]
  <2>1. s.word \in [Devices -> BOOLEAN]
    BY ServersFields
  <2>2. \A e \in Workers : t.word[e] = s.word[e]
    BY <1>2, <1>5, <2>1
  <2>3. r.word = t.word /\ r.ask = t.ask
    BY <1>3, <1>4
  <2> QED
    BY <1>2, <1>5, <2>2, <2>3
<1>10. \A d \in Workers : Says(s, n, d)
  BY <1>6 DEF Says
<1> QED
  BY <1>1, <1>3, <1>4, <1>7, <1>8, <1>9, <1>10


\* What the invariants say of centrald.
LEMMA ServerHolds ==
  ASSUME IInv, EInv
  PROVE  /\ srv \in Servers /\ OneOpen(srv) /\ AskedOnce(srv)
         /\ \A d \in Workers : Replied(srv.out[d])
<1>1. ASSUME NEW d \in Workers
      PROVE  srv.running[d] \in {0, 1} /\ (srv.running[d] = 1 => None(srv.out[d], "ok"))
  <2>1. Informed(dev[d].infos, dev[d].toServer, srv.running[d], srv.out[d])
    BY Holds
  <2> QED
    BY <2>1 DEF Informed
<1>2. srv \in Servers
  BY Typed
<1> QED
  BY <1>1, <1>2 DEF OneOpen, EInv, Replies

\* Two steps that say something, and the rivals of d stay known or will be.
LEMMA SaysBoth ==
  ASSUME NEW s \in Servers, NEW n \in Servers, NEW r \in Servers, NEW u, NEW v, NEW d \in Workers,
         Says(s, n, d), Says(n, r, d), n.word = r.word, n.ask = r.ask, Replied(s.out[d]),
         ~Free(v, d) =>
           \A e \in Rivals(d) :
             /\ Known(u[e], s.word[e]) => Known(v[e], r.word[e])
             /\ WillKnow(u[e], s.ask[e], d) => Known(v[e], r.word[e]) \/ WillKnow(v[e], r.ask[e], d)
  PROVE  /\ Replied(r.out[d])
         /\ ~Free(v, d) => Informs(s, u, r, v, d)
<1>1. Replied(n.out[d])
  BY SaysReplied
<1>2. Replied(r.out[d])
  BY <1>1, SaysReplied
<1>3. ASSUME ~Free(v, d)
      PROVE  Informs(s, u, r, v, d)
  <2>1. \A e \in Rivals(d) :
          /\ Known(u[e], s.word[e]) => Known(v[e], n.word[e])
          /\ WillKnow(u[e], s.ask[e], d) => Known(v[e], n.word[e]) \/ WillKnow(v[e], n.ask[e], d)
    BY <1>3
  <2>2. Informs(s, u, n, v, d)
    BY <1>3, <2>1, SaysInforms
  <2>3. \A e \in Rivals(d) :
          /\ Known(v[e], n.word[e]) => Known(v[e], r.word[e])
          /\ WillKnow(v[e], n.ask[e], d) => Known(v[e], r.word[e]) \/ WillKnow(v[e], r.ask[e], d)
    OBVIOUS
  <2>4. Informs(n, v, r, v, d)
    BY <1>1, <1>3, <2>3, SaysInforms
  <2> QED
    BY <2>2, <2>4, InformsOn
<1> QED
  BY <1>2, <1>3

\* x answers first: who waits for it knows it, or will from somebody else's question.
LEMMA AnswerKnown ==
  ASSUME NEW w \in Workings, NEW v \in Workings, w.toServer # <<>>,
         v.toServer = Tail(w.toServer), v.work = w.work, Head(w.toServer).type = "ok",
         NEW ask \in Seq(Workers), ask # <<>>, NEW word, NEW d,
         None(v.toServer, "ok"), Ends(v.toServer, "status", word, Raises(v)), WillKnow(w, ask, d)
  PROVE  Known(v, word) \/ WillKnow(v, Tail(ask), d)
<1>1. /\ Raises(v) = Raises(w)
      /\ Answers(w) /\ Raises(v) => None(v.toServer, "status")
  BY KnownTail
<1>2. PICK p \in DOMAIN ask : ask[p] = d /\ (p = 1 => Answers(w))
  BY DEF WillKnow
<1>3. /\ DOMAIN ask = 1 .. Len(ask) /\ Len(ask) \in Nat /\ DOMAIN Tail(ask) = 1 .. (Len(ask) - 1)
      /\ \A j \in 1 .. (Len(ask) - 1) : Tail(ask)[j] = ask[j + 1]
  BY TailMeans
<1>4. CASE p = 1
  <2>1. ASSUME Raises(v)
        PROVE  word /\ None(v.toServer, "status")
    <3>1. None(v.toServer, "status")
      BY <1>1, <1>2, <1>4, <2>1
    <3>2. word = Raises(v)
      BY <3>1 DEF Ends, None
    <3> QED
      BY <2>1, <3>1, <3>2
  <2> QED
    BY <2>1 DEF Known
<1>5. CASE p # 1
  <2>1. p - 1 \in DOMAIN Tail(ask) /\ Tail(ask)[p - 1] = d
    BY <1>2, <1>3, <1>5
  <2>2. Answers(v)
    BY DEF Answers, None
  <2> QED
    BY <2>1, <2>2 DEF WillKnow
<1> QED
  BY <1>4, <1>5


LEMMA CentraldReceivesExcludes ==
  ASSUME IInv, EInv, NEW x \in Workers, CentraldReceives(x)
  PROVE  EInv'
<1> DEFINE w == dev[x]
           l == w.toServer
           m == Head(l)
           t == Tail(l)
           v == [w EXCEPT !.toServer = t]
           r == Handled(srv, m, x)
<1>1. /\ l # <<>> /\ srv' = r /\ dev' = [dev EXCEPT ![x] = v]
      /\ UNCHANGED <<client, other, budget, seen>>
  BY DEF CentraldReceives
<1>2. /\ w \in Workings /\ l \in Seq(Messages) /\ x \in Devices /\ Workers \subseteq Devices
      /\ srv.ask[x] \in Seq(Workers) /\ srv.word[x] \in BOOLEAN
      /\ Asked(srv.ask[x], srv.out[x], l)
      /\ Informed(w.infos, l, srv.running[x], srv.out[x])
      /\ None(l, "bop")
  BY Typed, WorkingsFields, Holds
<1>3. /\ srv \in Servers /\ OneOpen(srv) /\ AskedOnce(srv)
      /\ \A d \in Workers : Replied(srv.out[d])
  BY ServerHolds
<1>4. /\ t \in Seq(Messages) /\ m \in Messages /\ m.on \in BOOLEAN
      /\ m.type = "ok" => srv.ask[x] # <<>> /\ None(t, "ok")
      /\ m.type = "status_info" => srv.running[x] = 0 /\ None(srv.out[x], "ok")
      /\ m.type # "bop"
  <2> HIDE DEF l
  <2>1. t \in Seq(Messages) /\ m \in Messages
    BY <1>1, <1>2, TailMeans
  <2>2. /\ m.type = "ok" => srv.ask[x] # <<>> /\ None(t, "ok")
        /\ m.type = "status_info" => srv.running[x] = 0 /\ None(srv.out[x], "ok")
        /\ m.type # "bop"
    BY <1>1, <1>2, AskedTail, InformedTail, NoneTail
  <2> QED
    BY <2>1, <2>2 DEF Messages
<1>5. m.type \in {"status", "status_info", "ok"}
  BY <1>4 DEF Messages
<1> HIDE DEF t, m, r
<1>6. /\ v \in Workings /\ v.toServer = t /\ v.work = w.work
      /\ v.waits = w.waits /\ v.bop = w.bop /\ v.asking = w.asking /\ v.infos = w.infos
      /\ v.toClient = w.toClient
  BY <1>2, <1>4 DEF Workings
<1> HIDE DEF v
<1>7. dev' \in [Workers -> Workings] /\ dev'[x] = v /\ \A e \in Workers : e # x => dev'[e] = dev[e]
  BY <1>1, <1>6, Histories
<1>8. /\ \A word : Known(w, word) => Known(v, word) /\ (m.type = "status" => ~Raises(v))
      /\ Answers(w) => Answers(v)
      /\ \A ask, d : WillKnow(w, ask, d) => WillKnow(v, ask, d)
  <2>1. w.toServer # <<>> /\ v.toServer = Tail(w.toServer) /\ m = Head(w.toServer)
    BY <1>1, <1>6 DEF t, m
  <2> HIDE DEF w, l
  <2> QED
    BY <1>2, <1>6, <2>1, KnownTail DEF w
<1>9. \A d \in Workers : Rivals(d) \subseteq Workers /\ d \notin Rivals(d)
  BY RivalsMean
<1>10. CASE m.type = "status"
  <2>1. r = SetState(srv, x, m.on)
    BY <1>10, HandledMeans DEF r
  <2>2. /\ r \in Servers /\ r.ask = srv.ask /\ r.running = srv.running
        /\ \A d \in Workers : Says(srv, r, d)
    BY <1>2, <1>3, <1>4, <2>1, SetStateSays
  <2>3. \A e \in Devices : e # x => r.word[e] = srv.word[e]
    BY <1>2, <1>3, <1>4, <2>1, SetStateResult
  <2>4. AskedOnce(r)
    BY <1>3, <2>2 DEF AskedOnce
  <2>5. ASSUME NEW d \in Workers
        PROVE  /\ Replied(r.out[d])
               /\ ~Free(dev', d) => Informs(srv, dev, r, dev', d)
    <3>1. ASSUME NEW e \in Rivals(d)
          PROVE  /\ Known(dev[e], srv.word[e]) => Known(dev'[e], r.word[e])
                 /\ WillKnow(dev[e], srv.ask[e], d) => WillKnow(dev'[e], r.ask[e], d)
      <4>1. CASE e = x
        <5>1. Known(w, srv.word[x]) => Known(v, r.word[x])
          BY <1>8, <1>10 DEF Known
        <5>2. WillKnow(w, srv.ask[x], d) => WillKnow(v, r.ask[x], d)
          BY <1>8, <2>2
        <5> QED
          BY <1>7, <4>1, <5>1, <5>2
      <4>2. CASE e # x
        BY <1>2, <1>7, <1>9, <2>2, <2>3, <4>2
      <4> QED
        BY <4>1, <4>2
    <3>2. Replied(r.out[d])
      BY <1>3, <2>2, SaysReplied
    <3>3. ASSUME ~Free(dev', d)
          PROVE  Informs(srv, dev, r, dev', d)
      BY <1>3, <2>2, <3>1, <3>3, SaysInforms
    <3> QED
      BY <3>2, <3>3
  <2> QED
    BY <1>1, <1>6, <1>7, <2>4, <2>5, ServerActs DEF Replies
<1>11. CASE m.type = "ok"
  <2>1. r = StatusInfoAnswered(srv, x)
    BY <1>11, HandledMeans DEF r
  <2>2. srv.ask[x] # <<>> /\ None(v.toServer, "ok")
    BY <1>4, <1>6, <1>11
  <2>3. PICK n \in Servers : /\ r \in Servers /\ r.word = srv.word /\ n.word = srv.word /\ n.ask = r.ask
                             /\ AskedOnce(r) /\ r.ask[x] = Tail(srv.ask[x])
                             /\ \A e \in Devices : e # x => r.ask[e] = srv.ask[e]
                             /\ \A d \in Workers : Says(srv, n, d) /\ Says(n, r, d)
    BY <1>2, <1>3, <2>1, <2>2, AnsweredSays
  <2>4. Ends(v.toServer, "status", r.word[x], Raises(v))
    <3>1. IInv'
      BY CentraldReceivesHolds
    <3>2. Ends(dev'[x].toServer, "status", srv'.word[x], Raises(dev'[x]))
      BY <3>1 DEF IInv, WorkerHolds, Views
    <3> QED
      BY <1>1, <1>7, <3>2
  <2>5. ASSUME NEW d, WillKnow(w, srv.ask[x], d)
        PROVE  Known(v, r.word[x]) \/ WillKnow(v, r.ask[x], d)
    <3>1. /\ w.toServer # <<>> /\ v.toServer = Tail(w.toServer) /\ v.work = w.work
          /\ Head(w.toServer).type = "ok"
      BY <1>1, <1>6, <1>11 DEF t, m
    <3> HIDE DEF w, l
    <3>2. Known(v, r.word[x]) \/ WillKnow(v, Tail(srv.ask[x]), d)
      BY <1>2, <1>6, <2>2, <2>4, <2>5, <3>1, AnswerKnown
    <3> QED
      BY <2>3, <3>2
  <2>6. ASSUME NEW d \in Workers
        PROVE  /\ Replied(r.out[d])
               /\ ~Free(dev', d) => Informs(srv, dev, r, dev', d)
    <3>1. ASSUME NEW e \in Rivals(d)
          PROVE  /\ Known(dev[e], srv.word[e]) => Known(dev'[e], r.word[e])
                 /\ WillKnow(dev[e], srv.ask[e], d) =>
                      Known(dev'[e], r.word[e]) \/ WillKnow(dev'[e], r.ask[e], d)
      <4>1. CASE e = x
        BY <1>7, <1>8, <2>3, <2>5, <4>1
      <4>2. CASE e # x
        BY <1>2, <1>7, <1>9, <2>3, <4>2
      <4> QED
        BY <4>1, <4>2
    <3> QED
      BY <1>3, <2>3, <3>1, SaysBoth
  <2> QED
    BY <1>1, <1>6, <1>7, <2>3, <2>6, ServerActs DEF Replies
<1>12. CASE m.type = "status_info"
  <2> DEFINE listed == {e \in Devices : e \in Others => other[e] # "gone"}
  <2>1. r = CentraldStatusInfo(srv, x, listed)
    BY <1>12, HandledMeans DEF r
  <2>2. Workers \subseteq listed
    BY <1>2, Typed
  <2> HIDE DEF listed
  <2>3. srv.running[x] = 0 /\ None(srv.out[x], "ok")
    BY <1>4, <1>12
  <2>4. /\ r \in Servers /\ r.word = srv.word /\ AskedOnce(r)
        /\ \A d \in Workers : Replied(srv.out[d]) => Replied(r.out[d])
        /\ Workers # {x} =>
             /\ r.out[x] = srv.out[x]
             /\ \A d \in Workers : d # x =>
                  Says(srv, r, d) /\ r.ask[d] = Append(srv.ask[d], x)
        /\ \A e \in Devices : r.ask[e] = srv.ask[e] \/ r.ask[e] = Append(srv.ask[e], x)
    BY <1>3, <2>1, <2>2, <2>3, StatusInfoSays
  <2>5. \A d \in Workers : Replied(r.out[d])
    BY <1>3, <2>4
  <2>6. ASSUME NEW d, NEW e \in Devices, NEW z, WillKnow(z, srv.ask[e], d)
        PROVE  WillKnow(z, r.ask[e], d)
    <3> DEFINE a == srv.ask[e]
               b == r.ask[e]
    <3>1. a \in Seq(Workers) /\ (b = a \/ b = Append(a, x))
      BY <2>4, Typed
    <3>2. PICK p \in DOMAIN a : a[p] = d /\ (p = 1 => Answers(z))
      BY <2>6 DEF WillKnow
    <3> HIDE DEF a, b
    <3>3. p \in DOMAIN b /\ b[p] = a[p]
      BY <3>1, <3>2, AppendMeans
    <3>4. WillKnow(z, b, d)
      BY <3>2, <3>3 DEF WillKnow
    <3> QED
      BY <3>4 DEF b
  <2>7. ASSUME NEW d \in Workers, NEW e \in Rivals(d)
        PROVE  /\ Known(dev[e], srv.word[e]) => Known(dev'[e], r.word[e])
               /\ WillKnow(dev[e], srv.ask[e], d) => WillKnow(dev'[e], r.ask[e], d)
    <3>1. e \in Devices /\ e \in Workers
      BY <1>2, <1>9
    <3>2. CASE e = x
      BY <1>7, <1>8, <2>4, <2>6, <3>1, <3>2
    <3>3. CASE e # x
      BY <1>7, <2>4, <2>6, <3>1, <3>3
    <3> QED
      BY <3>2, <3>3
  <2>8. ASSUME NEW d \in Workers, ~Free(dev', d)
        PROVE  Informs(srv, dev, r, dev', d)
    <3>1. PICK e \in Rivals(d) : e \in Workers /\ e # d
      BY <1>9, <2>8 DEF Free
    <3>2. Workers # {x}
      BY <3>1
    <3>3. CASE d # x
      <4>1. Says(srv, r, d) /\ Replied(srv.out[d])
        BY <1>3, <2>4, <3>2, <3>3
      <4> QED
        BY <1>3, <2>4, <2>7, <2>8, <4>1, SaysInforms
    <3>4. CASE d = x
      <4>1. r.out[x] = srv.out[x]
        BY <2>4, <3>2
      <4>2. AllKnown(srv, dev, x) => AllKnown(r, dev', x)
        BY <2>7 DEF AllKnown
      <4>3. Coming(r, dev', x)
        <5> SUFFICES ASSUME NEW f \in Rivals(x)
                     PROVE  WillKnow(dev'[f], r.ask[f], x)
          BY DEF Coming
        <5> DEFINE a == srv.ask[f]
                   b == r.ask[f]
                   p == Len(a) + 1
        <5>1. f \in Workers /\ f # x /\ f \in Devices
          BY <1>2, <1>9
        <5>2. dev'[f] = dev[f] /\ b = Append(a, x) /\ a \in Seq(Workers)
          BY <1>7, <2>4, <3>2, <5>1, Typed
        <5>3. Asked(a, srv.out[f], dev[f].toServer)
          BY <5>1, Holds
        <5> HIDE DEF a, b
        <5>4. p \in DOMAIN b /\ b[p] = x /\ (p = 1 => a = <<>>)
          BY <5>2, AppendMeans
        <5>5. p = 1 => None(dev[f].toServer, "ok")
          BY <5>3, <5>4 DEF Asked
        <5> HIDE DEF p
        <5>6. p = 1 => Answers(dev[f])
          BY <5>5 DEF Answers, None
        <5>7. WillKnow(dev[f], b, x)
          BY <5>4, <5>6 DEF WillKnow
        <5> QED
          BY <5>2, <5>7 DEF b
      <4>4. Told(srv, dev, x) => Told(r, dev', x)
        BY <4>1, <4>2 DEF Told
      <4>5. Learns(r, dev', x)
        BY <2>3, <4>1, <4>3 DEF Learns
      <4> QED
        BY <3>4, <4>4, <4>5 DEF Informs
    <3> QED
      BY <3>3, <3>4
  <2> QED
    BY <1>1, <1>6, <1>7, <2>4, <2>5, <2>8, ServerActs DEF Replies
<1> QED
  BY <1>5, <1>10, <1>11, <1>12


LEMMA CentraldReceivesOtherExcludes ==
  ASSUME IInv, EInv, NEW x \in Others, CentraldReceivesOther(x)
  PROVE  EInv'
<1> DEFINE l == srv.in[x]
           m == Head(l)
           t == Tail(l)
           s == [srv EXCEPT !.in[x] = t]
           r == Handled(s, m, x)
<1>1. l # <<>> /\ srv' = r /\ UNCHANGED <<client, dev, other, budget, seen>>
  BY DEF CentraldReceivesOther
<1>2. /\ srv \in Servers /\ l \in Seq(Messages) /\ x \in Devices /\ Workers \subseteq Devices
      /\ \A e \in Workers : e # x
      /\ Asked(srv.ask[x], srv.out[x], l)
      /\ \A type \in {"bop", "status_info"} : None(l, type)
  BY Typed, OtherMeans
<1>3. /\ OneOpen(srv) /\ AskedOnce(srv)
      /\ \A d \in Workers : Replied(srv.out[d])
  BY ServerHolds
<1> HIDE DEF l, r
<1>4. /\ t \in Seq(Messages) /\ m \in Messages /\ m.on \in BOOLEAN
      /\ m.type = "ok" => srv.ask[x] # <<>>
      /\ m.type \notin {"bop", "status_info"}
  <2>1. t \in Seq(Messages) /\ m \in Messages
    BY <1>1, <1>2, TailMeans
  <2>2. /\ m.type = "ok" => srv.ask[x] # <<>>
        /\ m.type # "bop" /\ m.type # "status_info"
    BY <1>1, <1>2, AskedTail, NoneTail
  <2> QED
    BY <2>1, <2>2 DEF Messages
<1>5. m.type \in {"status", "ok"}
  BY <1>4 DEF Messages
<1> HIDE DEF t, m
<1>6. s \in Servers /\ s.word = srv.word /\ s.ask = srv.ask /\ s.running = srv.running /\ s.out = srv.out
  BY <1>2, <1>4, SetInResult
<1> HIDE DEF s
<1>7. /\ OneOpen(s) /\ AskedOnce(s)
      /\ \A d \in Workers : Replied(s.out[d])
  BY <1>3, <1>6 DEF OneOpen, AskedOnce
<1>8. PICK n \in Servers : /\ r \in Servers /\ n.word = r.word /\ n.ask = r.ask /\ AskedOnce(r)
                           /\ \A e \in Workers : r.word[e] = s.word[e] /\ r.ask[e] = s.ask[e]
                           /\ \A d \in Workers : Says(s, n, d) /\ Says(n, r, d)
  <2>1. CASE m.type = "status"
    <3>1. r = SetState(s, x, m.on)
      BY <2>1, HandledMeans DEF r
    <3>2. /\ r \in Servers /\ r.ask = s.ask /\ r.running = s.running
          /\ \A d \in Workers : Says(s, r, d)
      BY <1>2, <1>4, <1>6, <3>1, SetStateSays
    <3>3. \A e \in Devices : e # x => r.word[e] = s.word[e]
      BY <1>2, <1>4, <1>6, <3>1, SetStateResult
    <3>4. AskedOnce(r)
      BY <1>7, <3>2 DEF AskedOnce
    <3>5. \A d \in Workers : Says(r, r, d)
      BY DEF Says, SaysNothing
    <3> QED
      BY <1>2, <3>2, <3>3, <3>4, <3>5
  <2>2. CASE m.type = "ok"
    <3>1. r = StatusInfoAnswered(s, x)
      BY <2>2, HandledMeans DEF r
    <3>2. s.ask[x] # <<>>
      BY <1>4, <1>6, <2>2
    <3>3. PICK n \in Servers : /\ r \in Servers /\ r.word = s.word /\ n.word = s.word /\ n.ask = r.ask
                               /\ AskedOnce(r) /\ r.ask[x] = Tail(s.ask[x])
                               /\ \A e \in Devices : e # x => r.ask[e] = s.ask[e]
                               /\ \A d \in Workers : Says(s, n, d) /\ Says(n, r, d)
      BY <1>2, <1>6, <1>7, <3>1, <3>2, AnsweredSays
    <3> QED
      BY <1>2, <3>3
  <2> QED
    BY <1>5, <2>1, <2>2
<1>9. ASSUME NEW d \in Workers
      PROVE  /\ Replied(r.out[d])
             /\ ~Free(dev, d) => Informs(srv, dev, r, dev, d)
  <2>1. \A e \in Rivals(d) :
          /\ Known(dev[e], s.word[e]) => Known(dev[e], r.word[e])
          /\ WillKnow(dev[e], s.ask[e], d) => Known(dev[e], r.word[e]) \/ WillKnow(dev[e], r.ask[e], d)
    BY <1>8, RivalsMean
  <2>2. /\ Replied(r.out[d])
        /\ ~Free(dev, d) => Informs(s, dev, r, dev, d)
    BY <1>6, <1>7, <1>8, <2>1, SaysBoth
  <2>3. Told(srv, dev, d) => Told(s, dev, d)
    BY <1>6 DEF Told, AllKnown
  <2>4. Learns(srv, dev, d) => Learns(s, dev, d)
    BY <1>6 DEF Learns, AllKnown, Coming
  <2> QED
    BY <2>2, <2>3, <2>4 DEF Informs
<1> QED
  BY <1>1, <1>8, <1>9, ServerActs DEF Replies

LEMMA ErasedExcludes ==
  ASSUME IInv, EInv, NEW x \in Others, Erased(x)
  PROVE  EInv'
<1> DEFINE r == ConnectionRemoved(srv, x)
<1>1. srv' = r /\ UNCHANGED <<client, dev, seen>>
  BY DEF Erased
<1>2. /\ srv \in Servers /\ OneOpen(srv) /\ AskedOnce(srv)
      /\ \A d \in Workers : Replied(srv.out[d])
  BY ServerHolds
<1>3. PICK n \in Servers : /\ r \in Servers /\ n.word = r.word /\ n.ask = r.ask
                           /\ AskedOnce(r)
                           /\ \A e \in Workers : r.word[e] = srv.word[e] /\ r.ask[e] = srv.ask[e]
                           /\ \A d \in Workers : Says(srv, n, d) /\ Says(n, r, d)
  BY <1>2, RemovedSays
<1> HIDE DEF r
<1>4. ASSUME NEW d \in Workers
      PROVE  /\ Replied(r.out[d])
             /\ ~Free(dev, d) => Informs(srv, dev, r, dev, d)
  <2>1. \A e \in Rivals(d) :
          /\ Known(dev[e], srv.word[e]) => Known(dev[e], r.word[e])
          /\ WillKnow(dev[e], srv.ask[e], d) => Known(dev[e], r.word[e]) \/ WillKnow(dev[e], r.ask[e], d)
    BY <1>3, RivalsMean
  <2> QED
    BY <1>2, <1>3, <2>1, SaysBoth
<1> QED
  BY <1>1, <1>3, <1>4, ServerActs DEF Replies

\* Another device reports, answers or breaks: only its own links change.
LEMMA OthersAct ==
  ASSUME EInv, UNCHANGED <<client, dev, seen>>,
         srv'.word = srv.word, srv'.ask = srv.ask, srv'.running = srv.running,
         \A d \in Workers : srv'.out[d] = srv.out[d]
  PROVE  EInv'
<1>1. /\ AskedOnce(srv)
      /\ \A d \in Workers : Replied(srv.out[d])
  BY DEF EInv, Replies
<1>2. AskedOnce(srv') /\ Replies(srv')
  BY <1>1 DEF AskedOnce, Replies
<1>3. ASSUME NEW d \in Workers
      PROVE  Informs(srv, dev, srv', dev', d)
  <2>1. Told(srv, dev, d) => Told(srv', dev', d)
    BY DEF Told, AllKnown
  <2>2. Learns(srv, dev, d) => Learns(srv', dev', d)
    BY DEF Learns, AllKnown, Coming
  <2> QED
    BY <2>1, <2>2 DEF Informs
<1> QED
  BY <1>2, <1>3, ServerActs


LEMMA OtherReportsExcludes ==
  ASSUME IInv, EInv, NEW x \in Others, NEW m \in Messages,
         UNCHANGED <<client, dev, seen>>, srv' = [srv EXCEPT !.in[x] = Append(@, m)]
  PROVE  EInv'
<1> DEFINE t == Append(srv.in[x], m)
<1>1. srv \in Servers /\ srv.in[x] \in Seq(Messages)
  BY Typed
<1>2. t \in Seq(Messages) /\ srv' = [srv EXCEPT !.in[x] = t]
  BY <1>1, AppendMeans
<1> HIDE DEF t
<1>3. srv'.word = srv.word /\ srv'.ask = srv.ask /\ srv'.running = srv.running /\ srv'.out = srv.out
  BY <1>1, <1>2, SetInResult
<1> QED
  BY <1>3, OthersAct

LEMMA OtherAnswersExcludes ==
  ASSUME IInv, EInv, NEW x \in Others, OtherAnswers(x)
  PROVE  EInv'
<1> DEFINE t == Tail(srv.out[x])
           n == Append(srv.in[x], Plain("ok"))
<1>1. /\ srv' = [srv EXCEPT !.out[x] = t, !.in[x] = n]
      /\ UNCHANGED <<client, dev, seen>>
  BY DEF OtherAnswers
<1> HIDE DEF t, n
<1> DEFINE o == [srv.out EXCEPT ![x] = t]
           i == [srv.in EXCEPT ![x] = n]
<1>2. srv \in Servers /\ \A d \in Workers : d # x /\ d \in Devices
  BY Typed
<1>3. srv' = [srv EXCEPT !.out = o, !.in = i]
  BY <1>1
<1>4. \A d \in Workers : o[d] = srv.out[d]
  BY <1>2, ServersFields
<1> HIDE DEF o, i
<1>5. srv'.word = srv.word /\ srv'.ask = srv.ask /\ srv'.running = srv.running /\ srv'.out = o
  BY <1>2, <1>3 DEF Servers
<1> QED
  BY <1>1, <1>4, <1>5, OthersAct

-----------------------------------------------------------------------------
(* The theorem.                                                            *)

LEMMA ExclusionBegins ==
  ASSUME Init
  PROVE  EInv
<1>1. \A d \in Workers : client[d].run = NoCommand /\ dev[d].waits = 0 /\ dev[d].work = "idle"
  BY DEF Init
<1>2. \A d \in Devices : srv.out[d] = <<>> /\ srv.ask[d] = <<>>
  BY DEF Init
<1>3. \A d \in Workers : ~Engaged(d) /\ ~Raises(dev[d]) /\ d \in Devices
  BY <1>1 DEF Engaged, Raises, Devices
<1>4. OneEngaged /\ Apart
  BY <1>3 DEF OneEngaged, Apart
<1>5. Replies(srv)
  BY <1>2, <1>3 DEF Replies, Replied
<1>6. AskedOnce(srv)
  BY <1>2 DEF AskedOnce
<1> QED
  BY <1>3, <1>4, <1>5, <1>6 DEF EInv

LEMMA ExclusionStep ==
  ASSUME IInv, EInv, [Next]_vars
  PROVE  EInv'
<1>1. CASE UNCHANGED vars
  BY <1>1, OthersAct DEF vars
<1>2. ASSUME NEW d \in Workers, Issue(d)
      PROVE  EInv'
  BY <1>2, IssueExcludes
<1>3. ASSUME NEW d \in Workers, ClientReceives(d)
      PROVE  EInv'
  BY <1>3, ClientReceivesExcludes
<1>4. ASSUME NEW d \in Workers, DeviceReceivesCommand(d)
      PROVE  EInv'
  BY <1>4, DeviceReceivesCommandExcludes
<1>5. ASSUME NEW d \in Workers, DeviceReceives(d)
      PROVE  EInv'
  BY <1>5, DeviceReceivesExcludes
<1>6. ASSUME NEW d \in Workers, WorkEnds(d)
      PROVE  EInv'
  BY <1>6, WorkEndsExcludes
<1>7. ASSUME NEW d \in Workers, CentraldReceives(d)
      PROVE  EInv'
  BY <1>7, CentraldReceivesExcludes
<1>8. ASSUME NEW d \in Others, CentraldReceivesOther(d)
      PROVE  EInv'
  BY <1>8, CentraldReceivesOtherExcludes
<1>9. ASSUME NEW d \in Others, OtherAnswers(d)
      PROVE  EInv'
  BY <1>9, OtherAnswersExcludes
<1>10. ASSUME NEW d \in Others, OtherStarts(d)
       PROVE  EInv'
  <2>1. /\ UNCHANGED <<client, dev, seen>> /\ srv' = [srv EXCEPT !.in[d] = Append(@, Status(TRUE))]
        /\ Status(TRUE) \in Messages
    BY <1>10, MessagesMade DEF OtherStarts
  <2> QED
    BY <2>1, OtherReportsExcludes
<1>11. ASSUME NEW d \in Others, OtherStops(d)
       PROVE  EInv'
  <2>1. /\ UNCHANGED <<client, dev, seen>> /\ srv' = [srv EXCEPT !.in[d] = Append(@, Status(FALSE))]
        /\ Status(FALSE) \in Messages
    BY <1>11, MessagesMade DEF OtherStops
  <2> QED
    BY <2>1, OtherReportsExcludes
<1>12. ASSUME NEW d \in Others, OtherBreaks(d)
       PROVE  EInv'
  BY <1>12, OthersAct DEF OtherBreaks
<1>13. ASSUME NEW d \in Others, Erased(d)
       PROVE  EInv'
  BY <1>13, ErasedExcludes
<1> QED
  BY <1>1, <1>2, <1>3, <1>4, <1>5, <1>6, <1>7, <1>8, <1>9, <1>10, <1>11, <1>12, <1>13 DEF Next, System

(* No camera exposes while the mount moves, for every number of cameras    *)
(* and other devices, of commands and lost connections, as long as no      *)
(* device took an unrelated blocking state for the answer to its           *)
(* device_status (BOP_EXPOSURE and BOP_TEL_MOVE of Connection::sendCommand,*)
(* Device::setFullBopState, Centrald::statusInfo).                         *)
THEOREM ExclusionKept == Spec => []ExclusionUnlessEarly
<1>1. Init => EInv
  BY ExclusionBegins
<1>2. IInv /\ EInv /\ [Next]_vars => EInv'
  BY ExclusionStep
<1>3. EInv => ExclusionUnlessEarly
  <2> SUFFICES ASSUME EInv, ~seen.early, dev[Mount].work = "moving", NEW c \in Cameras
               PROVE  dev[c].work # "exposing"
    BY DEF ExclusionUnlessEarly, Exclusion
  <2>1. c \in Workers /\ Mount \in Rivals(c) /\ Raises(dev[Mount])
    BY RivalsMean DEF Raises
  <2>2. ~Raises(dev[c])
    BY <2>1 DEF EInv, Apart
  <2> QED
    BY <2>2 DEF Raises
<1> QED
  BY <1>1, <1>2, <1>3, Inductive, PTL DEF Spec

==============================================================================
