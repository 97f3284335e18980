---------------------------- MODULE InterlockProofs ----------------------------
(***************************************************************************)
(* Theorems of Interlock for every number of cameras, of other devices, of *)
(* commands and of lost connections: the types, that the command queue     *)
(* refines CommandOrder, and that with nothing on its way everyone knows   *)
(* who blocks whom.                                                        *)
(*                                                                         *)
(* The invariant counts nothing: a question and its answers are one token, *)
(* which is in exactly one place at a time (a link, a list of centrald, a  *)
(* flag), and what somebody knows about another is either what the last    *)
(* message on the link says or, when there is none, what is true.          *)
(***************************************************************************)
EXTENDS Interlock, TLAPS

-----------------------------------------------------------------------------
(* Messages of one type in a link.                                         *)

None(s, type) == \A i \in DOMAIN s : s[i].type # type

One(s, type) == \E i \in DOMAIN s : s[i].type = type /\ \A j \in DOMAIN s : s[j].type = type => j = i

\* The last message of the type says v; without one, default is v.
Ends(s, type, default, v) ==
  \/ \E i \in DOMAIN s : /\ s[i].type = type /\ s[i].on = v
                         /\ \A j \in DOMAIN s : j > i => s[j].type # type
  \/ None(s, type) /\ default = v

-----------------------------------------------------------------------------
(* The invariant.                                                          *)

\* device_status, and then the command, is at one place: on its way, at the device, or answered
Unsent(k, w) == k.out = <<>> /\ ~w.asking /\ None(w.toClient, "ok")
Sent(k, w, id) == k.out = <<id>> /\ ~w.asking /\ None(w.toClient, "ok")
Asking(k, w) == k.out = <<>> /\ w.asking /\ None(w.toClient, "ok")
Acknowledged(k, w) == k.out = <<>> /\ ~w.asking /\ One(w.toClient, "ok")

\* the commands from the i-th in the queue on have the numbers from n + i on
Numbered(que, i, n) ==
  \A j \in DOMAIN que : j >= i => que[j] = [id |-> n + j, progress |-> "not_called"]

\* the client's connection to one worker: q commands queued, e executed, a answered
NothingSent(k, w, q, e, a) ==
  /\ k.run = NoCommand /\ k.que = <<>>
  /\ e = a /\ q = a
  /\ Unsent(k, w)

StatusSent(k, w, q, e, a) ==
  /\ k.run = DeviceStatus
  /\ k.que # <<>> /\ k.que[1] = [id |-> a + 1, progress |-> "wait"] /\ Numbered(k.que, 2, a)
  /\ e = a /\ q = a + Len(k.que)
  /\ Sent(k, w, 0) \/ Asking(k, w) \/ Acknowledged(k, w)

Blocked(k, w, q, e, a) ==
  /\ k.run = [id |-> a + 1, progress |-> "run"]
  /\ Numbered(k.que, 1, a + 1)
  /\ e = a /\ q = a + 1 + Len(k.que)
  /\ Unsent(k, w)

CommandSent(k, w, q, e, a) ==
  /\ k.run = [id |-> a + 1, progress |-> "return"]
  /\ Numbered(k.que, 1, a + 1)
  /\ q = a + 1 + Len(k.que)
  /\ \/ e = a /\ Sent(k, w, a + 1)
     \/ e = a + 1 /\ Acknowledged(k, w)

Serves(k, w, q, e, a) ==
  \/ NothingSent(k, w, q, e, a)
  \/ StatusSent(k, w, q, e, a)
  \/ Blocked(k, w, q, e, a)
  \/ CommandSent(k, w, q, e, a)

\* a status_info to e: centrald waits for its answer as long as it has somebody to tell
Asked(ask, out, in) ==
  \/ ask = <<>> /\ None(out, "status_info") /\ None(in, "ok")
  \/ ask # <<>> /\ One(out, "status_info") /\ None(in, "ok")
  \/ ask # <<>> /\ None(out, "status_info") /\ One(in, "ok")

\* the status_info of a worker: on its way, pending at centrald, or answered
Informed(infos, toServer, running, out) ==
  \/ infos = 0 /\ None(toServer, "status_info") /\ running = 0 /\ None(out, "ok")
  \/ infos > 0 /\ One(toServer, "status_info") /\ running = 0 /\ None(out, "ok")
  \/ infos > 0 /\ None(toServer, "status_info") /\ running = 1 /\ None(out, "ok")
  \/ infos > 0 /\ None(toServer, "status_info") /\ running = 0 /\ One(out, "ok")

Served(d) == Serves(client[d], dev[d], seen.queued[d], seen.executed[d], seen.answered[d])

Tokens(d) ==
  /\ Asked(srv.ask[d], srv.out[d], dev[d].toServer)
  /\ Informed(dev[d].infos, dev[d].toServer, srv.running[d], srv.out[d])

\* what is sent where
Links(d) ==
  /\ None(dev[d].toServer, "bop")
  /\ \A type \in {"status", "status_info"} : None(dev[d].toClient, type)

\* what centrald, the device and the client know or will know from what is on its way
Views(d) ==
  /\ Ends(dev[d].toServer, "status", srv.word[d], Raises(dev[d]))
  /\ Ends(srv.out[d], "bop", dev[d].bop, GetStateForConnection(srv, d))
  /\ Ends(dev[d].toClient, "bop", client[d].bop, dev[d].bop)

WorkerHolds(d) == Served(d) /\ Tokens(d) /\ Links(d) /\ Views(d)

\* the same of a device that takes no commands
OtherHolds(d) ==
  /\ Asked(srv.ask[d], srv.out[d], srv.in[d])
  /\ \A type \in {"status", "bop", "ok"} : None(srv.out[d], type)
  /\ \A type \in {"bop", "status_info"} : None(srv.in[d], type)
  /\ other[d] \in {"idle", "working"} => Ends(srv.in[d], "status", srv.word[d], other[d] = "working")
  /\ other[d] = "gone" => ~srv.word[d] /\ srv.in[d] = <<>>

IInv == TypeOK /\ (\A d \in Workers : WorkerHolds(d)) /\ \A d \in Others : OtherHolds(d)

-----------------------------------------------------------------------------
(* Lemmas on links.                                                        *)

LEMMA AppendMeans ==
  ASSUME NEW S, NEW s \in Seq(S), NEW m \in S
  PROVE  /\ Append(s, m) \in Seq(S) /\ Len(Append(s, m)) = Len(s) + 1
         /\ DOMAIN Append(s, m) = 1 .. (Len(s) + 1) /\ DOMAIN s = 1 .. Len(s)
         /\ \A i \in 1 .. Len(s) : Append(s, m)[i] = s[i]
         /\ Append(s, m)[Len(s) + 1] = m /\ Len(s) \in Nat
         /\ Append(s, m) # <<>>
OBVIOUS

LEMMA TailMeans ==
  ASSUME NEW S, NEW s \in Seq(S), s # <<>>
  PROVE  /\ Tail(s) \in Seq(S) /\ Len(Tail(s)) = Len(s) - 1 /\ Len(s) \in Nat /\ Len(s) > 0
         /\ DOMAIN Tail(s) = 1 .. (Len(s) - 1) /\ DOMAIN s = 1 .. Len(s)
         /\ \A i \in 1 .. (Len(s) - 1) : Tail(s)[i] = s[i + 1]
         /\ Head(s) = s[1] /\ Head(s) \in S
OBVIOUS

LEMMA ConcatIsAppend ==
  ASSUME NEW S, NEW s \in Seq(S)
  PROVE  /\ \A a \in S : s \o <<a>> = Append(s, a)
         /\ \A a, b \in S : s \o <<a, b>> = Append(Append(s, a), b)
OBVIOUS

LEMMA NoneAppend ==
  ASSUME NEW s \in Seq(Messages), NEW m \in Messages, NEW type
  PROVE  /\ None(s, type) /\ m.type # type => None(Append(s, m), type)
         /\ None(s, type) /\ m.type = type => One(Append(s, m), type)
         /\ One(s, type) /\ m.type # type => One(Append(s, m), type)
<1>1. ASSUME None(s, type), m.type # type
      PROVE  None(Append(s, m), type)
  BY <1>1, AppendMeans DEF None
<1>2. ASSUME None(s, type), m.type = type
      PROVE  One(Append(s, m), type)
  BY <1>2, AppendMeans DEF None, One
<1>3. ASSUME One(s, type), m.type # type
      PROVE  One(Append(s, m), type)
  BY <1>3, AppendMeans DEF One
<1> QED
  BY <1>1, <1>2, <1>3

LEMMA NoneTail ==
  ASSUME NEW s \in Seq(Messages), s # <<>>, NEW type
  PROVE  /\ None(s, type) => None(Tail(s), type) /\ Head(s).type # type
         /\ One(s, type) /\ Head(s).type = type => None(Tail(s), type)
         /\ One(s, type) /\ Head(s).type # type => One(Tail(s), type)
<1>1. ASSUME None(s, type)
      PROVE  None(Tail(s), type) /\ Head(s).type # type
  BY <1>1, TailMeans DEF None
<1>2. ASSUME One(s, type), Head(s).type = type
      PROVE  None(Tail(s), type)
  BY <1>2, TailMeans DEF None, One
<1>3. ASSUME One(s, type), Head(s).type # type
      PROVE  One(Tail(s), type)
  <2>1. PICK i \in DOMAIN s : s[i].type = type /\ \A j \in DOMAIN s : s[j].type = type => j = i
    BY <1>3 DEF One
  <2>2. i # 1 /\ i - 1 \in DOMAIN Tail(s) /\ Tail(s)[i - 1] = s[i]
    BY <1>3, <2>1, TailMeans
  <2>3. \A j \in DOMAIN Tail(s) : Tail(s)[j].type = type => j = i - 1
    BY <2>1, <2>2, TailMeans
  <2> QED
    BY <2>1, <2>2, <2>3 DEF One
<1> QED
  BY <1>1, <1>2, <1>3

LEMMA NotBoth ==
  ASSUME NEW s, NEW type, One(s, type)
  PROVE  ~None(s, type) /\ s # <<>>
BY DEF One, None

LEMMA EndsAppend ==
  ASSUME NEW s \in Seq(Messages), NEW m \in Messages, NEW type, NEW default, NEW v
  PROVE  /\ m.type = type => Ends(Append(s, m), type, default, m.on)
         /\ m.type # type /\ Ends(s, type, default, v) => Ends(Append(s, m), type, default, v)
<1>1. ASSUME m.type = type
      PROVE  Ends(Append(s, m), type, default, m.on)
  BY <1>1, AppendMeans DEF Ends
<1>2. ASSUME m.type # type, Ends(s, type, default, v)
      PROVE  Ends(Append(s, m), type, default, v)
  <2>1. CASE None(s, type)
    BY <1>2, <2>1, NoneAppend DEF Ends, None
  <2>2. CASE \E i \in DOMAIN s : /\ s[i].type = type /\ s[i].on = v
                                 /\ \A j \in DOMAIN s : j > i => s[j].type # type
    BY <1>2, <2>2, AppendMeans DEF Ends
  <2> QED
    BY <1>2, <2>1, <2>2 DEF Ends
<1> QED
  BY <1>1, <1>2

LEMMA EndsTail ==
  ASSUME NEW s \in Seq(Messages), s # <<>>, NEW type, NEW default, NEW v, Ends(s, type, default, v)
  PROVE  /\ Head(s).type = type => Ends(Tail(s), type, Head(s).on, v)
         /\ Head(s).type # type => Ends(Tail(s), type, default, v)
<1>1. CASE None(s, type)
  BY <1>1, NoneTail DEF Ends, None
<1>2. CASE \E i \in DOMAIN s : /\ s[i].type = type /\ s[i].on = v
                               /\ \A j \in DOMAIN s : j > i => s[j].type # type
  <2>1. PICK i \in DOMAIN s : /\ s[i].type = type /\ s[i].on = v
                              /\ \A j \in DOMAIN s : j > i => s[j].type # type
    BY <1>2
  <2>2. CASE i = 1
    BY <2>1, <2>2, TailMeans DEF Ends, None
  <2>3. CASE i # 1
    <3>1. i - 1 \in DOMAIN Tail(s) /\ Tail(s)[i - 1] = s[i]
      BY <2>3, TailMeans
    <3>2. \A j \in DOMAIN Tail(s) : j > i - 1 => Tail(s)[j].type # type
      BY <2>1, TailMeans
    <3> QED
      BY <2>1, <3>1, <3>2 DEF Ends
  <2> QED
    BY <2>2, <2>3
<1> QED
  BY <1>1, <1>2 DEF Ends

LEMMA EndsEmpty ==
  ASSUME NEW type, NEW default, NEW v
  PROVE  Ends(<<>>, type, default, v) <=> default = v
BY DEF Ends, None


-----------------------------------------------------------------------------
(* The client's queue.                                                     *)

LEMMA SendCommandResult ==
  ASSUME NEW k \in Connections, k.out = <<>>
  PROVE  /\ SendCommand(k) \in Connections /\ SendCommand(k).bop = k.bop
         /\ k.run.progress = "not_called" =>
              /\ SendCommand(k).que = <<[id |-> k.run.id, progress |-> "wait"]>> \o k.que
              /\ SendCommand(k).run = DeviceStatus /\ SendCommand(k).out = <<0>>
         /\ k.run.progress \in {"wait", "run"} /\ k.bop =>
              /\ SendCommand(k).run = [id |-> k.run.id, progress |-> "run"]
              /\ SendCommand(k).que = k.que /\ SendCommand(k).out = <<>>
         /\ k.run.progress \in {"wait", "run"} /\ ~k.bop =>
              /\ SendCommand(k).run = [id |-> k.run.id, progress |-> "return"]
              /\ SendCommand(k).que = k.que /\ SendCommand(k).out = <<k.run.id>>
<1> DEFINE c == [k.run EXCEPT !.progress = "wait"]
           x == <<c>> \o k.que
           r == [k.run EXCEPT !.progress = "run"]
           t == [k.run EXCEPT !.progress = "return"]
           i == k.run.id
           p == k.run.progress
           o0 == Append(k.out, 0)
           oi == Append(k.out, i)
           u == [k EXCEPT !.que = x, !.run = DeviceStatus, !.out = o0]
           v == [k EXCEPT !.run = r]
           y == [k EXCEPT !.run = t, !.out = oi]
<1>1. SendCommand(k) = CASE p = "not_called" -> u
                         [] p \in {"wait", "run"} /\ k.bop -> v
                         [] p \in {"wait", "run"} /\ ~k.bop -> y
                         [] OTHER -> k
  BY DEF SendCommand
<1>2. /\ k.run \in Commands /\ i \in Nat
      /\ c = [id |-> i, progress |-> "wait"] /\ c \in Commands
      /\ r = [id |-> i, progress |-> "run"] /\ r \in Commands
      /\ t = [id |-> i, progress |-> "return"] /\ t \in Commands
      /\ DeviceStatus \in Commands
  BY DEF Connections, Commands, DeviceStatus
<1>3. k.que \in Seq(Commands) /\ k.bop \in BOOLEAN /\ k.out \in Seq(Nat)
  BY DEF Connections
<1>4. x = <<[id |-> i, progress |-> "wait"]>> \o k.que
  BY <1>2
<1> HIDE DEF c, r, t, i
<1>5. o0 = <<0>> /\ o0 \in Seq(Nat) /\ oi = <<i>> /\ oi \in Seq(Nat)
  BY <1>2
<1>6. x \in Seq(Commands)
  BY <1>2, <1>3
<1> HIDE DEF x, o0, oi
<1>7. u \in Connections /\ u.que = x /\ u.run = DeviceStatus /\ u.out = o0 /\ u.bop = k.bop
  BY <1>2, <1>5, <1>6 DEF Connections
<1>8. v \in Connections /\ v.que = k.que /\ v.run = r /\ v.out = k.out /\ v.bop = k.bop
  BY <1>2 DEF Connections
<1>9. y \in Connections /\ y.que = k.que /\ y.run = t /\ y.out = oi /\ y.bop = k.bop
  BY <1>2, <1>5 DEF Connections
<1> HIDE DEF u, v, y
<1>10. CASE p = "not_called"
  BY <1>1, <1>4, <1>5, <1>7, <1>10 DEF i
<1>11. CASE p \in {"wait", "run"} /\ k.bop
  <2>1. SendCommand(k) = v /\ p # "not_called"
    BY <1>1, <1>11
  <2> QED
    BY <1>2, <1>8, <1>11, <2>1 DEF i
<1>12. CASE p \in {"wait", "run"} /\ ~k.bop
  <2>1. SendCommand(k) = y /\ p # "not_called"
    BY <1>1, <1>12
  <2> QED
    BY <1>2, <1>5, <1>9, <1>12, <2>1 DEF i
<1>13. CASE p # "not_called" /\ p \notin {"wait", "run"}
  <2>1. SendCommand(k) = k
    BY <1>1, <1>13
  <2> QED
    BY <1>13, <2>1
<1> QED
  BY <1>3, <1>10, <1>11, <1>12, <1>13

\* A command in front of numbered ones, and the first of numbered ones taken away.
LEMMA NumberedCons ==
  ASSUME NEW que \in Seq(Commands), NEW n \in Nat, Numbered(que, 1, n + 1), NEW c \in Commands
  PROVE  /\ <<c>> \o que \in Seq(Commands) /\ Numbered(<<c>> \o que, 2, n)
         /\ <<c>> \o que # <<>> /\ (<<c>> \o que)[1] = c /\ Len(<<c>> \o que) = 1 + Len(que)
<1> DEFINE x == <<c>> \o que
<1>1. /\ x \in Seq(Commands) /\ x # <<>> /\ x[1] = c /\ Len(x) = 1 + Len(que)
      /\ \A j \in 2 .. (1 + Len(que)) : x[j] = que[j - 1]
      /\ DOMAIN x = 1 .. (1 + Len(que)) /\ DOMAIN que = 1 .. Len(que) /\ Len(que) \in Nat
  OBVIOUS
<1> HIDE DEF x
<1>2. ASSUME NEW j \in DOMAIN x, j >= 2
      PROVE  x[j] = [id |-> n + j, progress |-> "not_called"]
  <2>1. j - 1 \in DOMAIN que /\ j - 1 >= 1 /\ x[j] = que[j - 1]
    BY <1>1, <1>2
  <2>2. que[j - 1] = [id |-> (n + 1) + (j - 1), progress |-> "not_called"]
    BY <2>1 DEF Numbered
  <2>3. (n + 1) + (j - 1) = n + j
    BY <1>1, <1>2
  <2> QED
    BY <2>1, <2>2, <2>3
<1>3. Numbered(x, 2, n)
  BY <1>2 DEF Numbered
<1> QED
  BY <1>1, <1>3 DEF x

LEMMA NumberedTail ==
  ASSUME NEW que \in Seq(Commands), que # <<>>, NEW n \in Nat, NEW i \in {1, 2}, Numbered(que, i, n)
  PROVE  Numbered(Tail(que), 1, n + 1)
BY TailMeans DEF Numbered

LEMMA NumberedAppend ==
  ASSUME NEW que \in Seq(Commands), NEW n \in Nat, NEW i \in {1, 2}, Numbered(que, i, n)
  PROVE  Numbered(Append(que, [id |-> n + Len(que) + 1, progress |-> "not_called"]), i, n)
<1> DEFINE c == [id |-> n + Len(que) + 1, progress |-> "not_called"]
           m == Len(que) + 1
<1>1. Len(que) \in Nat
  OBVIOUS
<1>2. c \in Commands /\ c = [id |-> n + m, progress |-> "not_called"]
  BY <1>1 DEF Commands
<1> HIDE DEF c
<1>3. /\ DOMAIN Append(que, c) = 1 .. m /\ DOMAIN que = 1 .. Len(que)
      /\ \A j \in 1 .. Len(que) : Append(que, c)[j] = que[j]
      /\ Append(que, c)[m] = c
  BY <1>2, AppendMeans
<1>4. ASSUME NEW j \in DOMAIN Append(que, c), j >= i
      PROVE  Append(que, c)[j] = [id |-> n + j, progress |-> "not_called"]
  <2>1. CASE j = m
    BY <1>2, <1>3, <2>1
  <2>2. CASE j # m
    BY <1>1, <1>3, <1>4, <2>2 DEF Numbered
  <2> QED
    BY <2>1, <2>2
<1>5. Numbered(Append(que, c), i, n)
  BY <1>4 DEF Numbered
<1> QED
  BY <1>5 DEF c


\* What runs tells the four apart.
LEMMA ServesRuns ==
  ASSUME NEW k, NEW w, NEW q, NEW e, NEW a \in Nat
  PROVE  /\ NothingSent(k, w, q, e, a) => /\ k.run.id = 0 /\ k.run.progress = "none"
                                          /\ k.run = NoCommand /\ k.run # DeviceStatus
         /\ StatusSent(k, w, q, e, a) => /\ k.run.id = 0 /\ k.run.progress = "return"
                                         /\ k.run # NoCommand /\ k.run = DeviceStatus
         /\ Blocked(k, w, q, e, a) => /\ k.run.id = a + 1 /\ k.run.progress = "run" /\ k.run.id > 0
                                      /\ k.run # NoCommand /\ k.run # DeviceStatus
         /\ CommandSent(k, w, q, e, a) => /\ k.run.id = a + 1 /\ k.run.progress = "return" /\ k.run.id > 0
                                          /\ k.run # NoCommand /\ k.run # DeviceStatus
<1>1. /\ NoCommand.id = 0 /\ NoCommand.progress = "none"
      /\ DeviceStatus.id = 0 /\ DeviceStatus.progress = "return"
      /\ [id |-> a + 1, progress |-> "run"].id = a + 1
      /\ [id |-> a + 1, progress |-> "run"].progress = "run"
      /\ [id |-> a + 1, progress |-> "return"].id = a + 1
      /\ [id |-> a + 1, progress |-> "return"].progress = "return"
      /\ a + 1 > 0 /\ a + 1 # 0
  BY DEF NoCommand, DeviceStatus
<1> QED
  BY <1>1 DEF NothingSent, StatusSent, Blocked, CommandSent

\* The client queues one more command.
LEMMA ServesQueue ==
  ASSUME NEW k \in Connections, NEW w, NEW q \in Nat, NEW e \in Nat, NEW a \in Nat, Serves(k, w, q, e, a)
  PROVE  /\ QueCommand(k, q + 1) \in Connections /\ QueCommand(k, q + 1).bop = k.bop
         /\ Serves(QueCommand(k, q + 1), w, q + 1, e, a)
<1> DEFINE c == [id |-> q + 1, progress |-> "not_called"]
           x == Append(k.que, c)
           l == [k EXCEPT !.que = x]
           t == [k EXCEPT !.run = c]
           r == QueCommand(k, q + 1)
<1>1. r = IF k.run # NoCommand THEN l ELSE SendCommand(t)
  BY DEF QueCommand
<1>2. c \in Commands /\ c.id = q + 1 /\ c.progress = "not_called"
  BY DEF Commands
<1>3. /\ k.que \in Seq(Commands) /\ k.out \in Seq(Nat) /\ Len(k.que) \in Nat
  BY DEF Connections
<1>5. CASE k.run = NoCommand
  <2>1. k.que = <<>> /\ e = a /\ q = a /\ Unsent(k, w)
    BY <1>5, ServesRuns DEF Serves, NothingSent
  <2> HIDE DEF c
  <2>2. t \in Connections /\ t.run = c /\ t.que = k.que /\ t.out = k.out /\ t.bop = k.bop
    BY <1>2 DEF Connections
  <2> HIDE DEF t
  <2>3. k.out = <<>>
    BY <2>1 DEF Unsent
  <2> DEFINE v == [id |-> q + 1, progress |-> "wait"]
             u == <<v>> \o k.que
             s == SendCommand(t)
  <2>4. /\ s \in Connections /\ s.bop = k.bop /\ s.que = u
        /\ s.run = DeviceStatus /\ s.out = <<0>>
    BY <1>2, <2>2, <2>3, SendCommandResult
  <2>5. Numbered(k.que, 1, a + 1) /\ Len(k.que) = 0
    BY <2>1 DEF Numbered
  <2>6. v \in Commands
    BY DEF Commands
  <2>7. Numbered(u, 2, a) /\ u # <<>> /\ u[1] = v /\ Len(u) = 1 + Len(k.que)
    BY <1>3, <2>5, <2>6, NumberedCons
  <2> HIDE DEF s, u
  <2>8. Serves(s, w, q + 1, e, a)
    BY <2>1, <2>4, <2>5, <2>7 DEF Serves, StatusSent, Unsent, Sent
  <2> QED
    BY <1>1, <1>5, <2>4, <2>8 DEF s
<1>6. CASE k.run # NoCommand
  <2> HIDE DEF c
  <2>1. x \in Seq(Commands) /\ Len(x) = Len(k.que) + 1 /\ x # <<>>
    BY <1>2, <1>3, AppendMeans
  <2>5. ASSUME k.que # <<>>
        PROVE  x[1] = k.que[1]
    <3>1. 1 \in 1 .. Len(k.que)
      BY <1>3, <2>5
    <3> QED
      BY <1>2, <1>3, <3>1, AppendMeans
  <2> HIDE DEF x
  <2>2. l \in Connections /\ l.run = k.run /\ l.que = x /\ l.out = k.out /\ l.bop = k.bop
    BY <2>1 DEF Connections
  <2> HIDE DEF l
  <2>3. ASSUME NEW i \in {1, 2}, NEW n \in Nat, q = n + Len(k.que), Numbered(k.que, i, n)
        PROVE  Numbered(x, i, n)
    BY <1>3, <2>3, NumberedAppend DEF x, c
  <2>4. Serves(l, w, q + 1, e, a)
    <3>1. CASE k.run = DeviceStatus
      <4>1. /\ k.que # <<>> /\ k.que[1] = [id |-> a + 1, progress |-> "wait"] /\ Numbered(k.que, 2, a)
            /\ e = a /\ q = a + Len(k.que)
            /\ Sent(k, w, 0) \/ Asking(k, w) \/ Acknowledged(k, w)
        BY <3>1, ServesRuns DEF Serves, StatusSent
      <4>2. Numbered(x, 2, a)
        BY <4>1, <2>3
      <4>3. q + 1 = a + Len(x)
        BY <1>3, <2>1, <4>1
      <4> QED
        BY <2>1, <2>2, <2>5, <3>1, <4>1, <4>2, <4>3 DEF Serves, StatusSent, Sent, Asking, Acknowledged
    <3>2. CASE k.run # DeviceStatus
      <4> DEFINE n == a + 1
      <4>1. Blocked(k, w, q, e, a) \/ CommandSent(k, w, q, e, a)
        BY <1>6, <3>2, ServesRuns DEF Serves
      <4>4. n \in Nat /\ Numbered(k.que, 1, n) /\ q = n + Len(k.que)
        <5>1. n \in Nat
          OBVIOUS
        <5>2. Numbered(k.que, 1, n)
          BY <4>1 DEF Blocked, CommandSent
        <5>3. q = n + Len(k.que)
          BY <4>1 DEF Blocked, CommandSent
        <5> QED
          BY <5>1, <5>2, <5>3
      <4> HIDE DEF n
      <4>2. Numbered(x, 1, n)
        BY <4>4, <2>3
      <4>3. q + 1 = n + Len(x)
        BY <1>3, <2>1, <4>4
      <4> QED
        BY <2>2, <4>1, <4>2, <4>3 DEF n, Serves, Blocked, CommandSent, Unsent, Sent, Acknowledged
    <3> QED
      BY <3>1, <3>2
  <2> QED
    BY <1>1, <1>6, <2>2, <2>4
<1> QED
  BY <1>5, <1>6

\* The client reads the answer to the command it sent last.
LEMMA ServesAnswer ==
  ASSUME NEW k \in Connections, NEW w, NEW v, NEW q \in Nat, NEW e \in Nat, NEW a \in Nat, Serves(k, w, q, e, a),
         w.toClient \in Seq(Messages), w.toClient # <<>>, Head(w.toClient).type = "ok",
         v.toClient = Tail(w.toClient), v.asking = w.asking
  PROVE  /\ SendNextCommand(k) \in Connections /\ SendNextCommand(k).bop = k.bop
         /\ k.run.id > 0 => a < e /\ k.run.id = a + 1
         /\ Serves(SendNextCommand(k), v, q, e, IF k.run.id > 0 THEN a + 1 ELSE a)
<1> DEFINE h == Head(k.que)
           x == Tail(k.que)
           t == [k EXCEPT !.run = h, !.que = x]
           n == [k EXCEPT !.run = NoCommand]
           s == SendCommand(t)
           r == SendNextCommand(k)
<1>1. r = IF k.que = <<>> THEN n ELSE s
  BY DEF SendNextCommand
<1>2. /\ k.que \in Seq(Commands) /\ k.out \in Seq(Nat) /\ Len(k.que) \in Nat /\ k.bop \in BOOLEAN
  BY DEF Connections
<1>3. Acknowledged(k, w) /\ (StatusSent(k, w, q, e, a) \/ CommandSent(k, w, q, e, a))
  BY NoneTail DEF Serves, NothingSent, StatusSent, Blocked, CommandSent, Unsent, Sent, Asking
<1>4. k.out = <<>> /\ ~v.asking /\ None(v.toClient, "ok")
  BY <1>3, NoneTail DEF Acknowledged
<1>5. ASSUME k.que # <<>>
      PROVE  /\ h \in Commands /\ h = k.que[1] /\ x \in Seq(Commands) /\ Len(x) = Len(k.que) - 1
             /\ t \in Connections /\ t.run = h /\ t.que = x /\ t.out = <<>> /\ t.bop = k.bop
  <2>1. h \in Commands /\ h = k.que[1] /\ x \in Seq(Commands) /\ Len(x) = Len(k.que) - 1
    BY <1>2, <1>5, TailMeans
  <2> HIDE DEF h, x
  <2> QED
    BY <1>4, <2>1 DEF Connections
<1> HIDE DEF h, x, t
<1>6. CASE StatusSent(k, w, q, e, a)
  <2>1. /\ k.que # <<>> /\ k.que[1] = [id |-> a + 1, progress |-> "wait"] /\ Numbered(k.que, 2, a)
        /\ e = a /\ q = a + Len(k.que)
    BY <1>6 DEF StatusSent
  <2>2. k.run.id = 0 /\ ~(k.run.id > 0)
    BY <1>6, ServesRuns
  <2>3. h.id = a + 1 /\ h.progress = "wait"
    BY <1>5, <2>1
  <2>4. /\ s \in Connections /\ s.bop = k.bop /\ s.que = x
        /\ \/ s.run = [id |-> a + 1, progress |-> "run"] /\ s.out = <<>>
           \/ s.run = [id |-> a + 1, progress |-> "return"] /\ s.out = <<a + 1>>
    <3>1. /\ t \in Connections /\ t.out = <<>> /\ t.que = x /\ t.bop = k.bop
          /\ t.run.id = a + 1 /\ t.run.progress = "wait"
      BY <1>5, <2>1, <2>3
    <3>2. t.bop \in BOOLEAN /\ t.run.progress \in {"wait", "run"} /\ t.run.progress # "not_called"
      BY <1>2, <3>1
    <3>3. /\ s \in Connections /\ s.bop = t.bop /\ s.que = t.que
          /\ \/ s.run = [id |-> t.run.id, progress |-> "run"] /\ s.out = <<>>
             \/ s.run = [id |-> t.run.id, progress |-> "return"] /\ s.out = <<t.run.id>>
      BY <3>1, <3>2, SendCommandResult
    <3> QED
      BY <3>1, <3>3
  <2> HIDE DEF s
  <2>5. Numbered(x, 1, a + 1)
    BY <1>2, <2>1, NumberedTail DEF x
  <2>6. q = a + 1 + Len(x)
    <3> DEFINE m == Len(k.que)
               l == Len(x)
    <3>1. l = m - 1 /\ m \in Nat
      BY <1>2, <1>5, <2>1
    <3>2. q = a + m
      BY <2>1
    <3> HIDE DEF m, l
    <3>3. q = a + 1 + l
      BY <3>1, <3>2
    <3> QED
      BY <3>3 DEF l
  <2>7. Serves(s, v, q, e, a)
    BY <1>4, <2>1, <2>4, <2>5, <2>6 DEF Serves, Blocked, CommandSent, Unsent, Sent
  <2> QED
    BY <1>1, <2>1, <2>2, <2>4, <2>7
<1>7. CASE CommandSent(k, w, q, e, a)
  <2>1. /\ Numbered(k.que, 1, a + 1) /\ q = a + 1 + Len(k.que)
        /\ e = a + 1
    BY <1>4, <1>7 DEF CommandSent, Sent
  <2>2. k.run.id = a + 1 /\ k.run.id > 0 /\ a < e
    <3>1. k.run.id = a + 1 /\ k.run.id > 0
      BY <1>7, ServesRuns
    <3>2. a < e
      BY <2>1
    <3> QED
      BY <3>1, <3>2
  <2>3. CASE k.que = <<>>
    <3>1. n \in Connections /\ n.run = NoCommand /\ n.que = <<>> /\ n.out = <<>> /\ n.bop = k.bop
      BY <1>4, <2>3 DEF Connections, NoCommand, Commands
    <3> HIDE DEF n
    <3>2. Serves(n, v, q, e, a + 1)
      BY <1>4, <2>1, <2>3, <3>1 DEF Serves, NothingSent, Unsent
    <3> QED
      BY <1>1, <2>2, <2>3, <3>1, <3>2
  <2>4. CASE k.que # <<>>
    <3> DEFINE c == [id |-> h.id, progress |-> "wait"]
               u == <<c>> \o x
    <3>1. h = [id |-> (a + 1) + 1, progress |-> "not_called"]
      <4>1. h = k.que[1]
        BY <1>5, <2>4
      <4>2. 1 \in DOMAIN k.que
        BY <1>2, <2>4
      <4>3. k.que[1] = [id |-> (a + 1) + 1, progress |-> "not_called"]
        <5> DEFINE m == a + 1
        <5>1. Numbered(k.que, 1, m)
          BY <2>1
        <5> HIDE DEF m
        <5>2. k.que[1] = [id |-> m + 1, progress |-> "not_called"]
          BY <4>2, <5>1 DEF Numbered
        <5> QED
          BY <5>2 DEF m
      <4> QED
        BY <4>1, <4>3
    <3>2. /\ s \in Connections /\ s.bop = k.bop /\ s.que = u
          /\ s.run = DeviceStatus /\ s.out = <<0>>
      <4>1. /\ t \in Connections /\ t.out = <<>> /\ t.que = x /\ t.bop = k.bop
            /\ t.run.id = h.id /\ t.run.progress = "not_called"
        BY <1>5, <2>4, <3>1
      <4> QED
        BY <4>1, SendCommandResult
    <3> HIDE DEF s
    <3>3. Numbered(x, 1, (a + 1) + 1)
      BY <1>2, <2>1, <2>4, NumberedTail DEF x
    <3>4. c \in Commands /\ c = [id |-> (a + 1) + 1, progress |-> "wait"]
      BY <3>1 DEF Commands
    <3>5. Numbered(u, 2, a + 1) /\ u # <<>> /\ u[1] = c /\ Len(u) = 1 + Len(x)
      BY <1>5, <2>4, <3>3, <3>4, NumberedCons
    <3> HIDE DEF u
    <3>6. q = (a + 1) + Len(u)
      BY <1>2, <1>5, <2>1, <2>4, <3>5
    <3>7. Serves(s, v, q, e, a + 1)
      BY <1>4, <2>1, <3>2, <3>4, <3>5, <3>6 DEF Serves, StatusSent, Sent
    <3> QED
      BY <1>1, <2>2, <2>4, <3>2, <3>7
  <2> QED
    BY <2>3, <2>4
<1> QED
  BY <1>3, <1>6, <1>7

\* The client reads a blocking state.
LEMMA ServesBop ==
  ASSUME NEW k \in Connections, NEW w, NEW v, NEW q \in Nat, NEW e \in Nat, NEW a \in Nat, Serves(k, w, q, e, a),
         w.toClient \in Seq(Messages), w.toClient # <<>>, Head(w.toClient).type # "ok",
         v.toClient = Tail(w.toClient), v.asking = w.asking, NEW on \in BOOLEAN
  PROVE  /\ SetBopState(k, on) \in Connections /\ SetBopState(k, on).bop = on
         /\ Serves(SetBopState(k, on), v, q, e, a)
<1> DEFINE b == [k EXCEPT !.bop = on]
           s == SendCommand(b)
<1>1. SetBopState(k, on) = IF k.run.progress = "run" THEN s ELSE b
  BY DEF SetBopState
<1>2. b \in Connections /\ b.run = k.run /\ b.que = k.que /\ b.out = k.out /\ b.bop = on
  BY DEF Connections
<1> HIDE DEF b
<1>3. /\ None(w.toClient, "ok") => None(v.toClient, "ok")
      /\ One(w.toClient, "ok") => One(v.toClient, "ok")
  BY NoneTail
<1>4. Serves(b, v, q, e, a)
  BY <1>2, <1>3
  DEF Serves, NothingSent, StatusSent, Blocked, CommandSent, Unsent, Sent, Asking, Acknowledged
<1>5. CASE k.run.progress = "run"
  <2>1. /\ k.run = [id |-> a + 1, progress |-> "run"] /\ Numbered(k.que, 1, a + 1)
        /\ e = a /\ q = a + 1 + Len(k.que) /\ Unsent(b, v)
    BY <1>2, <1>4, <1>5, ServesRuns DEF Serves, Blocked
  <2>2. /\ s \in Connections /\ s.bop = on /\ s.que = k.que
        /\ \/ s.run = [id |-> a + 1, progress |-> "run"] /\ s.out = <<>>
           \/ s.run = [id |-> a + 1, progress |-> "return"] /\ s.out = <<a + 1>>
    <3>1. /\ b \in Connections /\ b.out = <<>> /\ b.que = k.que /\ b.bop = on
          /\ b.run.id = a + 1 /\ b.run.progress = "run"
      BY <1>2, <1>5, <2>1 DEF Unsent
    <3>2. b.run.progress \in {"wait", "run"} /\ b.run.progress # "not_called"
      BY <3>1
    <3> QED
      BY <3>1, <3>2, SendCommandResult
  <2> HIDE DEF s
  <2>3. Serves(s, v, q, e, a)
    BY <2>1, <2>2 DEF Serves, Blocked, CommandSent, Unsent, Sent
  <2> QED
    BY <1>1, <1>5, <2>2, <2>3
<1>6. CASE k.run.progress # "run"
  BY <1>1, <1>2, <1>4, <1>6
<1> QED
  BY <1>5, <1>6

\* The device reads device_status, or a command it executes and answers.
LEMMA ServesCommand ==
  ASSUME NEW k \in Connections, NEW w, NEW v, NEW q \in Nat, NEW e \in Nat, NEW a \in Nat, Serves(k, w, q, e, a),
         w.toClient \in Seq(Messages), k.out # <<>>
  PROVE  LET id == Head(k.out)
             u == [k EXCEPT !.out = Tail(@)]
         IN /\ u \in Connections /\ u.run = k.run /\ u.bop = k.bop
            /\ id \in Nat
            /\ id = 0 /\ v.asking /\ v.toClient = w.toClient => Serves(u, v, q, e, a)
            /\ id > 0 => a = e /\ e < q /\ id = e + 1
            /\ id > 0 /\ v.asking = w.asking /\ v.toClient = Append(w.toClient, Plain("ok")) =>
                 Serves(u, v, q, id, a)
<1> DEFINE id == Head(k.out)
           o == Tail(k.out)
           u == [k EXCEPT !.out = o]
<1>1. k.out \in Seq(Nat) /\ k.que \in Seq(Commands) /\ Len(k.que) \in Nat
  BY DEF Connections
<1>2. o \in Seq(Nat) /\ id \in Nat
  BY <1>1, TailMeans
<1>10. \A n : k.out = <<n>> => id = n /\ o = <<>>
  OBVIOUS
<1>11. id = 0 => ~(id > 0)
  OBVIOUS
<1> HIDE DEF id, o
<1>3. \/ StatusSent(k, w, q, e, a) /\ Sent(k, w, 0) /\ id = 0
      \/ /\ CommandSent(k, w, q, e, a)
         /\ e = a /\ Sent(k, w, a + 1) /\ id = a + 1
         /\ q = a + 1 + Len(k.que)
  <2>1. ~Unsent(k, w) /\ ~Asking(k, w) /\ ~Acknowledged(k, w)
    BY DEF Unsent, Asking, Acknowledged
  <2>2. CASE StatusSent(k, w, q, e, a)
    BY <1>10, <2>1, <2>2 DEF StatusSent, Sent
  <2>3. CASE CommandSent(k, w, q, e, a)
    BY <1>10, <2>1, <2>3 DEF CommandSent, Sent
  <2> QED
    BY <2>1, <2>2, <2>3 DEF Serves, NothingSent, Blocked
<1>4. o = <<>> /\ ~w.asking /\ None(w.toClient, "ok")
  BY <1>3, <1>10 DEF Sent
<1>5. u \in Connections /\ u.run = k.run /\ u.bop = k.bop /\ u.que = k.que /\ u.out = <<>>
  BY <1>2, <1>4 DEF Connections
<1> HIDE DEF u
<1>6. ASSUME id = 0, v.asking, v.toClient = w.toClient
      PROVE  Serves(u, v, q, e, a)
  <2>1. StatusSent(k, w, q, e, a)
    BY <1>3, <1>6
  <2>2. Asking(u, v)
    BY <1>4, <1>5, <1>6 DEF Asking
  <2>3. StatusSent(u, v, q, e, a)
    BY <1>5, <2>1, <2>2 DEF StatusSent
  <2> QED
    BY <2>3 DEF Serves
<1>7. Plain("ok") \in Messages /\ Plain("ok").type = "ok"
  BY DEF Plain, Messages
<1>8. ASSUME id > 0, v.asking = w.asking, v.toClient = Append(w.toClient, Plain("ok"))
      PROVE  Serves(u, v, q, id, a)
  <2>1. One(v.toClient, "ok")
    BY <1>4, <1>7, <1>8, NoneAppend
  <2> QED
    <3>1. CommandSent(k, w, q, e, a) /\ id = a + 1
      BY <1>3, <1>8
    <3>2. Acknowledged(u, v)
      BY <1>4, <1>5, <1>8, <2>1 DEF Acknowledged
    <3>3. CommandSent(u, v, q, id, a)
      BY <1>5, <3>1, <3>2 DEF CommandSent
    <3> QED
      BY <3>3 DEF Serves
<1>9. ASSUME id > 0
      PROVE  a = e /\ e < q /\ id = e + 1
  <2>1. id # 0
    BY <1>9
  <2>2. e = a /\ id = a + 1 /\ q = a + 1 + Len(k.que)
    BY <1>3, <2>1, Zenon
  <2>3. Len(k.que) \in Nat
    BY <1>1
  <2>4. \A n \in Nat : q = a + 1 + n => a < q
    OBVIOUS
  <2> QED
    BY <2>2, <2>3, <2>4, Zenon
<1> QED
  BY <1>2, <1>5, <1>6, <1>8, <1>9 DEF id, o, u

\* The device sends something else to the client, or the answer to device_status.
LEMMA ServesDevice ==
  ASSUME NEW k, NEW w, NEW v, NEW q, NEW e, NEW a, Serves(k, w, q, e, a),
         \/ /\ v.asking = w.asking
            /\ None(w.toClient, "ok") => None(v.toClient, "ok")
            /\ One(w.toClient, "ok") => One(v.toClient, "ok")
         \/ /\ w.asking /\ ~v.asking
            /\ None(w.toClient, "ok") => One(v.toClient, "ok")
  PROVE  Serves(k, v, q, e, a)
BY DEF Serves, NothingSent, StatusSent, Blocked, CommandSent, Unsent, Sent, Asking, Acknowledged


-----------------------------------------------------------------------------
(* The device.                                                             *)

LEMMA MessagesMade ==
  /\ \A type \in {"status_info", "ok"} : /\ Plain(type) \in Messages /\ Plain(type).type = type
                                         /\ Plain(type).reply = FALSE
  /\ \A on \in BOOLEAN : /\ Status(on) \in Messages /\ Status(on).type = "status" /\ Status(on).on = on
                         /\ Status(on).reply = FALSE
  /\ \A on, reply \in BOOLEAN : /\ Bop(on, reply) \in Messages /\ Bop(on, reply).type = "bop"
                                /\ Bop(on, reply).on = on /\ Bop(on, reply).reply = reply
BY DEF Plain, Status, Bop, Messages

LEMMA WorkingsFields ==
  ASSUME NEW w \in Workings
  PROVE  /\ w.work \in {"idle", "moving", "exposing", "reading"} /\ w.waits \in Nat
         /\ w.bop \in BOOLEAN /\ w.asking \in BOOLEAN /\ w.infos \in Nat
         /\ w.toClient \in Seq(Messages) /\ w.toServer \in Seq(Messages)
         /\ Raises(w) \in BOOLEAN
BY DEF Workings, Raises

\* what w sends to centrald says what it raises, and nothing else
Reports(w, r) ==
  /\ \A type \in {"ok", "status_info", "bop"} : /\ None(w.toServer, type) => None(r.toServer, type)
                                                /\ One(w.toServer, type) => One(r.toServer, type)
  /\ \A word : Ends(w.toServer, "status", word, Raises(w)) => Ends(r.toServer, "status", word, Raises(r))

\* otherwise w is as it was
Quietly(w, r) ==
  /\ r \in Workings
  /\ r.bop = w.bop /\ r.asking = w.asking /\ r.infos = w.infos /\ r.toClient = w.toClient
  /\ Reports(w, r)

LEMMA QuietlyOn ==
  ASSUME NEW u, NEW w, NEW r, Quietly(u, w), Quietly(w, r)
  PROVE  Quietly(u, r)
BY DEF Quietly, Reports

LEMMA WaitsQuietly ==
  ASSUME NEW w \in Workings, NEW n \in Nat
  PROVE  LET r == [w EXCEPT !.waits = n]
         IN Quietly(w, r) /\ r.work = w.work /\ r.waits = n /\ r.toServer = w.toServer
<1> DEFINE r == [w EXCEPT !.waits = n]
<1>1. /\ r \in Workings /\ r.work = w.work /\ r.waits = n /\ r.toServer = w.toServer
      /\ r.bop = w.bop /\ r.asking = w.asking /\ r.infos = w.infos /\ r.toClient = w.toClient
  BY DEF Workings
<1> HIDE DEF r
<1>2. Quietly(w, r)
  BY <1>1 DEF Quietly, Reports, Raises
<1> QED
  BY <1>1, <1>2 DEF r

LEMMA BecomesQuietly ==
  ASSUME NEW w \in Workings, NEW work \in {"idle", "moving", "exposing", "reading"}
  PROVE  /\ Quietly(w, Becomes(w, work))
         /\ Becomes(w, work).work = work /\ Becomes(w, work).waits = w.waits
         /\ Becomes(w, work).toServer = IF Raises(Becomes(w, work)) = Raises(w) THEN w.toServer
                                        ELSE Append(w.toServer, Status(Raises(Becomes(w, work))))
<1> DEFINE b == [w EXCEPT !.work = work]
           m == Status(Raises(b))
           x == b.toServer \o <<m>>
           r == [b EXCEPT !.toServer = x]
<1>1. Becomes(w, work) = IF Raises(b) = Raises(w) THEN b ELSE r
  BY DEF Becomes, ToServer
<1>2. /\ b \in Workings /\ b.work = work /\ b.waits = w.waits /\ b.toServer = w.toServer
      /\ b.bop = w.bop /\ b.asking = w.asking /\ b.infos = w.infos /\ b.toClient = w.toClient
  BY DEF Workings
<1> HIDE DEF b
<1>3. b.toServer \in Seq(Messages) /\ Raises(b) \in BOOLEAN
  BY <1>2, WorkingsFields
<1>4. m \in Messages /\ m.type = "status" /\ m.on = Raises(b)
  BY <1>3, MessagesMade
<1>5. x = Append(w.toServer, m) /\ x \in Seq(Messages)
  BY <1>2, <1>3, <1>4, ConcatIsAppend, AppendMeans
<1> HIDE DEF x
<1>6. /\ r \in Workings /\ r.work = work /\ r.waits = w.waits /\ r.toServer = x
      /\ r.bop = w.bop /\ r.asking = w.asking /\ r.infos = w.infos /\ r.toClient = w.toClient
  BY <1>2, <1>5 DEF Workings
<1> HIDE DEF r
<1>7. Raises(r) = Raises(b)
  BY <1>2, <1>6 DEF Raises
<1>8. Raises(b) = Raises(w) => Quietly(w, b)
  BY <1>2 DEF Quietly, Reports
<1>9. Quietly(w, r)
  <2>1. \A type \in {"ok", "status_info", "bop"} : /\ None(w.toServer, type) => None(r.toServer, type)
                                                   /\ One(w.toServer, type) => One(r.toServer, type)
    BY <1>2, <1>3, <1>4, <1>5, <1>6, NoneAppend
  <2>2. \A word : Ends(r.toServer, "status", word, Raises(r))
    BY <1>2, <1>3, <1>4, <1>5, <1>6, <1>7, EndsAppend
  <2> QED
    BY <1>6, <2>1, <2>2 DEF Quietly, Reports
<1> QED
  BY <1>1, <1>2, <1>5, <1>6, <1>7, <1>8, <1>9

LEMMA DecNat ==
  ASSUME NEW n \in Nat
  PROVE  Dec(n) \in Nat
BY DEF Dec

LEMMA StartWaitingQuietly ==
  ASSUME NEW w \in Workings
  PROVE  /\ Quietly(w, StartWaiting(w))
         /\ w.waits = 0 => StartWaiting(w) = w
         /\ StartWaiting(w) # w => w.waits > 0 /\ ~w.bop /\ w.work = "idle" /\ StartWaiting(w).work = "exposing"
<1> DEFINE n == w.waits - 1
           u == [w EXCEPT !.waits = n]
           r == Becomes(u, "exposing")
<1>1. StartWaiting(w) = IF w.waits > 0 /\ ~w.bop /\ w.work = "idle" THEN r ELSE w
  BY DEF StartWaiting
<1>2. w.waits \in Nat
  BY WorkingsFields
<1>3. Quietly(w, w)
  BY DEF Quietly, Reports
<1>4. ASSUME w.waits > 0
      PROVE  Quietly(w, r) /\ r.work = "exposing"
  <2>1. n \in Nat
    BY <1>2, <1>4
  <2> HIDE DEF n
  <2>2. Quietly(w, u)
    BY <2>1, WaitsQuietly
  <2> HIDE DEF u
  <2>3. Quietly(u, r) /\ r.work = "exposing"
    BY <2>2, BecomesQuietly DEF Quietly
  <2> QED
    BY <2>2, <2>3, QuietlyOn
<1> HIDE DEF r
<1> QED
  BY <1>1, <1>2, <1>3, <1>4

LEMMA ExposeQuietly ==
  ASSUME NEW w \in Workings
  PROVE  /\ Quietly(w, Expose(w))
         /\ w.work = "idle" /\ ~w.bop => Expose(w).work = "exposing"
         /\ ~(w.work = "idle" /\ ~w.bop) => Expose(w).work = w.work /\ Expose(w).toServer = w.toServer
<1> DEFINE n == w.waits + 1
           m == Dec(w.waits) + 1
           d == Dec(w.waits)
           u == [w EXCEPT !.waits = n]
           v == [w EXCEPT !.waits = m]
           x == [w EXCEPT !.waits = d]
           r == Becomes(x, "exposing")
<1>1. n \in Nat /\ m \in Nat /\ d \in Nat
  <2>1. n \in Nat /\ d \in Nat
    BY WorkingsFields, DecNat, SMTT(30)
  <2> HIDE DEF d
  <2>2. m = d + 1
    BY DEF d
  <2> QED
    BY <2>1, <2>2
<1>2. /\ w.work # "idle" => Expose(w) = u
      /\ w.work = "idle" /\ w.bop => Expose(w) = v
      /\ w.work = "idle" /\ ~w.bop => Expose(w) = r
  BY DEF Expose
<1> HIDE DEF n, m, d
<1>3. /\ Quietly(w, u) /\ u.work = w.work /\ u.toServer = w.toServer
      /\ Quietly(w, v) /\ v.work = w.work /\ v.toServer = w.toServer
      /\ Quietly(w, x)
  BY <1>1, WaitsQuietly
<1> HIDE DEF u, v, x
<1>4. Quietly(x, r) /\ r.work = "exposing"
  BY <1>3, BecomesQuietly DEF Quietly
<1> HIDE DEF r
<1>5. Quietly(w, r)
  BY <1>3, <1>4, QuietlyOn
<1> QED
  BY <1>2, <1>3, <1>4, <1>5

LEMMA ToClientResult ==
  ASSUME NEW w \in Workings, NEW m \in Messages
  PROVE  LET r == ToClient(w, <<m>>)
         IN /\ r \in Workings /\ r.toClient = Append(w.toClient, m)
            /\ r.work = w.work /\ r.waits = w.waits /\ r.bop = w.bop /\ r.asking = w.asking
            /\ r.infos = w.infos /\ r.toServer = w.toServer
<1> DEFINE x == w.toClient \o <<m>>
           r == [w EXCEPT !.toClient = x]
<1>1. x = Append(w.toClient, m) /\ x \in Seq(Messages)
  BY WorkingsFields, ConcatIsAppend, AppendMeans
<1> HIDE DEF x
<1>2. /\ r \in Workings /\ r.toClient = x
      /\ r.work = w.work /\ r.waits = w.waits /\ r.bop = w.bop /\ r.asking = w.asking
      /\ r.infos = w.infos /\ r.toServer = w.toServer
  BY <1>1 DEF Workings
<1>3. r = ToClient(w, <<m>>)
  BY DEF ToClient, x
<1> HIDE DEF r
<1> QED
  BY <1>1, <1>2, <1>3

LEMMA ToServerResult ==
  ASSUME NEW w \in Workings, NEW m \in Messages
  PROVE  LET r == ToServer(w, <<m>>)
         IN /\ r \in Workings /\ r.toServer = Append(w.toServer, m)
            /\ r.work = w.work /\ r.waits = w.waits /\ r.bop = w.bop /\ r.asking = w.asking
            /\ r.infos = w.infos /\ r.toClient = w.toClient
<1> DEFINE x == w.toServer \o <<m>>
           r == [w EXCEPT !.toServer = x]
<1>1. x = Append(w.toServer, m) /\ x \in Seq(Messages)
  BY WorkingsFields, ConcatIsAppend, AppendMeans
<1> HIDE DEF x
<1>2. /\ r \in Workings /\ r.toServer = x
      /\ r.work = w.work /\ r.waits = w.waits /\ r.bop = w.bop /\ r.asking = w.asking
      /\ r.infos = w.infos /\ r.toClient = w.toClient
  BY <1>1 DEF Workings
<1>3. r = ToServer(w, <<m>>)
  BY DEF ToServer, x
<1> HIDE DEF r
<1> QED
  BY <1>1, <1>2, <1>3

LEMMA EndDeviceStatusResult ==
  ASSUME NEW w \in Workings
  PROVE  LET r == EndDeviceStatusCommand(w)
         IN /\ r \in Workings /\ ~r.asking
            /\ r.toClient = IF w.asking THEN Append(w.toClient, Plain("ok")) ELSE w.toClient
            /\ r.work = w.work /\ r.waits = w.waits /\ r.bop = w.bop
            /\ r.infos = w.infos /\ r.toServer = w.toServer
<1> DEFINE t == ToClient(w, <<Plain("ok")>>)
           u == [t EXCEPT !.asking = FALSE]
<1>1. /\ t \in Workings /\ t.toClient = Append(w.toClient, Plain("ok"))
      /\ t.work = w.work /\ t.waits = w.waits /\ t.bop = w.bop
      /\ t.infos = w.infos /\ t.toServer = w.toServer
  BY ToClientResult, MessagesMade
<1> HIDE DEF t
<1>2. /\ u \in Workings /\ ~u.asking /\ u.toClient = t.toClient
      /\ u.work = t.work /\ u.waits = t.waits /\ u.bop = t.bop
      /\ u.infos = t.infos /\ u.toServer = t.toServer
  BY <1>1 DEF Workings
<1>3. EndDeviceStatusCommand(w) = IF w.asking THEN u ELSE w
  BY DEF EndDeviceStatusCommand, t
<1> HIDE DEF u
<1> QED
  BY <1>1, <1>2, <1>3


LEMMA SetFullBopStateResult ==
  ASSUME NEW w \in Workings, NEW on \in BOOLEAN
  PROVE  LET r == SetFullBopState(w, on)
             x == Append(w.toClient, Bop(on, FALSE))
         IN /\ r \in Workings /\ r.bop = on /\ ~r.asking /\ r.infos = w.infos
            /\ r.toClient = IF w.asking THEN Append(x, Plain("ok")) ELSE x
            /\ Reports(w, r)
<1> DEFINE t == ToClient(w, <<Bop(on, FALSE)>>)
           e == EndDeviceStatusCommand(t)
           u == [e EXCEPT !.bop = on]
           r == StartWaiting(u)
<1>1. SetFullBopState(w, on) = r
  BY DEF SetFullBopState
<1>2. /\ t \in Workings /\ t.toClient = Append(w.toClient, Bop(on, FALSE)) /\ t.asking = w.asking
      /\ t.work = w.work /\ t.infos = w.infos /\ t.toServer = w.toServer
  BY ToClientResult, MessagesMade
<1> HIDE DEF t
<1>3. /\ e \in Workings /\ ~e.asking
      /\ e.toClient = IF w.asking THEN Append(t.toClient, Plain("ok")) ELSE t.toClient
      /\ e.work = w.work /\ e.infos = w.infos /\ e.toServer = w.toServer
  BY <1>2, EndDeviceStatusResult
<1> HIDE DEF e
<1>4. /\ u \in Workings /\ ~u.asking /\ u.bop = on /\ u.toClient = e.toClient
      /\ u.work = w.work /\ u.infos = w.infos /\ u.toServer = w.toServer
  BY <1>3 DEF Workings
<1> HIDE DEF u
<1>5. Reports(w, u)
  BY <1>4 DEF Reports, Raises
<1>6. Quietly(u, r)
  BY <1>4, StartWaitingQuietly
<1> HIDE DEF r
<1>7. Reports(w, r)
  BY <1>5, <1>6 DEF Quietly, Reports
<1> QED
  BY <1>1, <1>2, <1>3, <1>4, <1>6, <1>7 DEF Quietly

LEMMA QueDeviceStatusResult ==
  ASSUME NEW w \in Workings
  PROVE  LET r == QueDeviceStatusCommand(w)
         IN /\ r \in Workings /\ r.asking /\ r.infos = w.infos + 1
            /\ r.work = w.work /\ r.waits = w.waits /\ r.bop = w.bop /\ r.toClient = w.toClient
            /\ r.toServer = IF w.infos = 0 THEN Append(w.toServer, Plain("status_info")) ELSE w.toServer
<1> DEFINE t == ToServer(w, <<Plain("status_info")>>)
           s == IF w.infos = 0 THEN t ELSE w
           n == s.infos + 1
           r == [s EXCEPT !.asking = TRUE, !.infos = n]
<1>1. QueDeviceStatusCommand(w) = r
  BY DEF QueDeviceStatusCommand
<1>2. /\ t \in Workings /\ t.toServer = Append(w.toServer, Plain("status_info"))
      /\ t.work = w.work /\ t.waits = w.waits /\ t.bop = w.bop /\ t.infos = w.infos
      /\ t.toClient = w.toClient
  BY ToServerResult, MessagesMade
<1> HIDE DEF t
<1>3. /\ s \in Workings /\ s.infos = w.infos
      /\ s.work = w.work /\ s.waits = w.waits /\ s.bop = w.bop /\ s.toClient = w.toClient
      /\ s.toServer = IF w.infos = 0 THEN Append(w.toServer, Plain("status_info")) ELSE w.toServer
  BY <1>2
<1> HIDE DEF s
<1>4. n \in Nat /\ n = w.infos + 1
  BY <1>3, WorkingsFields
<1> HIDE DEF n
<1>5. /\ r \in Workings /\ r.asking /\ r.infos = n
      /\ r.work = s.work /\ r.waits = s.waits /\ r.bop = s.bop /\ r.toClient = s.toClient
      /\ r.toServer = s.toServer
  BY <1>3, <1>4 DEF Workings
<1> HIDE DEF r
<1> QED
  BY <1>1, <1>3, <1>4, <1>5

LEMMA StatusInfoReturnsResult ==
  ASSUME NEW w \in Workings, w.infos > 0
  PROVE  LET r == StatusInfoReturns(w)
         IN /\ r \in Workings /\ ~r.asking /\ r.infos = w.infos - 1
            /\ r.work = w.work /\ r.waits = w.waits /\ r.bop = w.bop
            /\ r.toClient = IF w.asking THEN Append(w.toClient, Plain("ok")) ELSE w.toClient
            /\ r.toServer = IF r.infos > 0 THEN Append(w.toServer, Plain("status_info")) ELSE w.toServer
<1> DEFINE t == EndDeviceStatusCommand(w)
           n == t.infos - 1
           e == [t EXCEPT !.infos = n]
           r == ToServer(e, <<Plain("status_info")>>)
<1>1. StatusInfoReturns(w) = IF e.infos > 0 THEN r ELSE e
  BY DEF StatusInfoReturns
<1>2. /\ t \in Workings /\ ~t.asking
      /\ t.toClient = IF w.asking THEN Append(w.toClient, Plain("ok")) ELSE w.toClient
      /\ t.work = w.work /\ t.waits = w.waits /\ t.bop = w.bop
      /\ t.infos = w.infos /\ t.toServer = w.toServer
  BY EndDeviceStatusResult
<1> HIDE DEF t
<1>3. n \in Nat /\ n = w.infos - 1
  BY <1>2, WorkingsFields
<1> HIDE DEF n
<1>4. /\ e \in Workings /\ ~e.asking /\ e.infos = n /\ e.toClient = t.toClient
      /\ e.work = t.work /\ e.waits = t.waits /\ e.bop = t.bop /\ e.toServer = t.toServer
  BY <1>2, <1>3 DEF Workings
<1> HIDE DEF e
<1>5. /\ r \in Workings /\ ~r.asking /\ r.infos = n /\ r.toClient = e.toClient
      /\ r.work = e.work /\ r.waits = e.waits /\ r.bop = e.bop
      /\ r.toServer = Append(e.toServer, Plain("status_info"))
  BY <1>4, ToServerResult, MessagesMade
<1> HIDE DEF r
<1> QED
  BY <1>1, <1>2, <1>3, <1>4, <1>5


-----------------------------------------------------------------------------
(* Centrald.                                                               *)

LEMMA ServersFields ==
  ASSUME NEW s \in Servers
  PROVE  /\ s.word \in [Devices -> BOOLEAN] /\ s.ask \in [Devices -> Seq(Workers)]
         /\ s.running \in [Workers -> Nat] /\ s.out \in [Devices -> Seq(Messages)]
         /\ s.in \in [Others -> Seq(Messages)]
         /\ \A d : GetStateForConnection(s, d) \in BOOLEAN
         /\ \A d, x : Pending(s, d, x) \in BOOLEAN
         /\ Workers \subseteq Devices /\ Others \subseteq Devices
BY DEF Servers, GetStateForConnection, Pending, Devices

LEMMA SameWord ==
  ASSUME NEW s, NEW r, r.word = s.word, NEW d
  PROVE  GetStateForConnection(r, d) = GetStateForConnection(s, d)
BY DEF GetStateForConnection

LEMMA SendResult ==
  ASSUME NEW s \in Servers, NEW d \in Devices, NEW x, s.out[d] \o x \in Seq(Messages)
  PROVE  LET r == Send(s, d, x)
         IN /\ r \in Servers /\ r.word = s.word /\ r.ask = s.ask /\ r.running = s.running /\ r.in = s.in
            /\ r.out[d] = s.out[d] \o x
            /\ \A e \in Devices : e # d => r.out[e] = s.out[e]
<1> DEFINE y == s.out[d] \o x
           o == [s.out EXCEPT ![d] = y]
           r == [s EXCEPT !.out = o]
<1>1. Send(s, d, x) = r
  BY DEF Send
<1> HIDE DEF y
<1>2. o \in [Devices -> Seq(Messages)] /\ o[d] = y /\ \A e \in Devices : e # d => o[e] = s.out[e]
  BY ServersFields DEF y
<1> HIDE DEF o
<1>3. r \in Servers /\ r.word = s.word /\ r.ask = s.ask /\ r.running = s.running /\ r.in = s.in /\ r.out = o
  BY <1>2 DEF Servers
<1> HIDE DEF r
<1> QED
  BY <1>1, <1>2, <1>3 DEF y

LEMMA BopMaskChangedResult ==
  ASSUME NEW s \in Servers
  PROVE  LET r == BopMaskChanged(s)
         IN /\ r \in Servers /\ r.word = s.word /\ r.ask = s.ask /\ r.running = s.running /\ r.in = s.in
            /\ \A d \in Workers : r.out[d] = Append(s.out[d], Bop(GetStateForConnection(s, d), FALSE))
            /\ \A d \in Devices : d \notin Workers => r.out[d] = s.out[d]
<1> DEFINE y(d) == IF d \in Workers THEN Append(s.out[d], Bop(GetStateForConnection(s, d), FALSE))
                   ELSE s.out[d]
           o == [d \in Devices |-> y(d)]
           r == [s EXCEPT !.out = o]
<1>1. BopMaskChanged(s) = r
  BY DEF BopMaskChanged
<1>2. ASSUME NEW d \in Devices
      PROVE  y(d) \in Seq(Messages)
  <2>1. Bop(GetStateForConnection(s, d), FALSE) \in Messages
    BY ServersFields, MessagesMade
  <2>2. s.out[d] \in Seq(Messages)
    BY ServersFields
  <2> QED
    BY <2>1, <2>2, AppendMeans
<1>3. \A d \in Devices : o[d] = y(d)
  OBVIOUS
<1>4. /\ \A d \in Workers : y(d) = Append(s.out[d], Bop(GetStateForConnection(s, d), FALSE))
      /\ \A d \in Devices : d \notin Workers => y(d) = s.out[d]
  OBVIOUS
<1> HIDE DEF y
<1>5. o \in [Devices -> Seq(Messages)]
  BY <1>2
<1> HIDE DEF o
<1>6. r \in Servers /\ r.word = s.word /\ r.ask = s.ask /\ r.running = s.running /\ r.in = s.in /\ r.out = o
  BY <1>5 DEF Servers
<1> HIDE DEF r
<1> QED
  BY <1>1, <1>3, <1>4, <1>6, ServersFields

LEMMA SetWordResult ==
  ASSUME NEW s \in Servers, NEW d \in Devices, NEW on \in BOOLEAN
  PROVE  LET r == [s EXCEPT !.word[d] = on]
         IN /\ r \in Servers /\ r.word = [s.word EXCEPT ![d] = on]
            /\ r.ask = s.ask /\ r.running = s.running /\ r.in = s.in /\ r.out = s.out
<1> DEFINE o == [s.word EXCEPT ![d] = on]
           r == [s EXCEPT !.word = o]
<1>1. o \in [Devices -> BOOLEAN]
  BY ServersFields
<1> HIDE DEF o
<1>2. /\ r \in Servers /\ r.word = o
      /\ r.ask = s.ask /\ r.running = s.running /\ r.in = s.in /\ r.out = s.out
  BY <1>1 DEF Servers
<1> QED
  BY <1>2 DEF o

LEMMA UpdateStatusWaitResult ==
  ASSUME NEW s \in Servers, NEW d \in Workers, NEW x
  PROVE  LET r == UpdateStatusWait(s, d, x)
             on == GetStateForConnection(s, d)
         IN /\ r \in Servers /\ r.word = s.word /\ r.ask = s.ask /\ r.in = s.in
            /\ s.running[d] = 0 \/ Pending(s, d, x) => r = s
            /\ ~(s.running[d] = 0 \/ Pending(s, d, x)) =>
                 /\ r.running[d] = s.running[d] - 1
                 /\ r.out[d] = Append(Append(s.out[d], Bop(on, TRUE)), Plain("ok"))
            /\ \A e \in Workers : e # d => r.running[e] = s.running[e]
            /\ \A e \in Devices : e # d => r.out[e] = s.out[e]
<1> DEFINE b == Bop(GetStateForConnection(s, d), TRUE)
           m == Plain("ok")
           l == s.out[d]
           t == Send(s, d, <<b, m>>)
           n == t.running[d] - 1
           o == [t.running EXCEPT ![d] = n]
           u == [t EXCEPT !.running = o]
<1>1. UpdateStatusWait(s, d, x) = IF s.running[d] = 0 \/ Pending(s, d, x) THEN s ELSE u
  BY DEF UpdateStatusWait
<1>2. /\ d \in Devices /\ b \in Messages /\ m \in Messages /\ l \in Seq(Messages)
      /\ s.running \in [Workers -> Nat] /\ s.running[d] \in Nat
  BY ServersFields, MessagesMade
<1> HIDE DEF b, m
<1>3. l \o <<b, m>> = Append(Append(l, b), m) /\ l \o <<b, m>> \in Seq(Messages)
  <2> HIDE DEF l
  <2>1. Append(l, b) \in Seq(Messages)
    BY <1>2, AppendMeans
  <2>2. Append(Append(l, b), m) \in Seq(Messages)
    BY <1>2, <2>1, AppendMeans
  <2>3. l \o <<b, m>> = Append(Append(l, b), m)
    BY <1>2, ConcatIsAppend
  <2> QED
    BY <2>2, <2>3
<1>4. /\ t \in Servers /\ t.word = s.word /\ t.ask = s.ask /\ t.running = s.running /\ t.in = s.in
      /\ t.out[d] = Append(Append(l, b), m)
      /\ \A e \in Devices : e # d => t.out[e] = s.out[e]
  <2> DEFINE y == <<b, m>>
  <2>1. s.out[d] \o y \in Seq(Messages) /\ s.out[d] \o y = Append(Append(l, b), m)
    BY <1>3
  <2>2. t = Send(s, d, y)
    OBVIOUS
  <2> HIDE DEF y, l, t, n, o, u
  <2>3. d \in Devices /\ s.out[d] \o y \in Seq(Messages)
    BY <1>2, <2>1
  <2>4. LET r == Send(s, d, y)
        IN /\ r \in Servers /\ r.word = s.word /\ r.ask = s.ask /\ r.running = s.running /\ r.in = s.in
           /\ r.out[d] = s.out[d] \o y
           /\ \A e \in Devices : e # d => r.out[e] = s.out[e]
    BY <2>3, SendResult
  <2> QED
    BY <2>1, <2>2, <2>4
<1> HIDE DEF t
<1>5. ASSUME s.running[d] # 0
      PROVE  /\ u \in Servers /\ u.word = s.word /\ u.ask = s.ask /\ u.in = s.in /\ u.out = t.out
             /\ u.running[d] = s.running[d] - 1
             /\ \A e \in Workers : e # d => u.running[e] = s.running[e]
  <2>1. n \in Nat /\ n = s.running[d] - 1
    BY <1>2, <1>4, <1>5
  <2> HIDE DEF n
  <2>2. /\ o \in [Workers -> Nat] /\ o[d] = n /\ \A e \in Workers : e # d => o[e] = s.running[e]
    BY <1>2, <1>4, <2>1
  <2> HIDE DEF o
  <2>3. /\ u \in Servers /\ u.word = t.word /\ u.ask = t.ask /\ u.in = t.in /\ u.out = t.out
        /\ u.running = o
    BY <1>4, <2>2 DEF Servers
  <2> QED
    BY <1>4, <2>1, <2>2, <2>3
<1> HIDE DEF u
<1>6. CASE s.running[d] = 0 \/ Pending(s, d, x)
  BY <1>1, <1>6
<1>7. CASE ~(s.running[d] = 0 \/ Pending(s, d, x))
  <2>1. UpdateStatusWait(s, d, x) = u
    BY <1>1, <1>7
  <2> QED
    BY <1>4, <1>5, <1>7, <2>1 DEF b, m, l
<1> QED
  BY <1>6, <1>7

LEMMA UpdateStatusWaitsResult ==
  ASSUME NEW s \in Servers
  PROVE  LET r == UpdateStatusWaits(s)
         IN /\ r \in Servers /\ r.word = s.word /\ r.ask = s.ask /\ r.in = s.in
            /\ \A d \in Workers : /\ r.running[d] = UpdateStatusWait(s, d, {}).running[d]
                                  /\ r.out[d] = UpdateStatusWait(s, d, {}).out[d]
            /\ \A d \in Devices : d \notin Workers => r.out[d] = s.out[d]
<1> DEFINE n == [d \in Workers |-> UpdateStatusWait(s, d, {}).running[d]]
           y(d) == IF d \in Workers THEN UpdateStatusWait(s, d, {}).out[d] ELSE s.out[d]
           o == [d \in Devices |-> y(d)]
           r == [s EXCEPT !.running = n, !.out = o]
<1>1. UpdateStatusWaits(s) = r
  BY DEF UpdateStatusWaits
<1>2. \A d \in Workers : UpdateStatusWait(s, d, {}) \in Servers
  BY UpdateStatusWaitResult
<1>3. n \in [Workers -> Nat] /\ \A d \in Workers : n[d] = UpdateStatusWait(s, d, {}).running[d]
  BY <1>2, ServersFields
<1>4. \A d \in Devices : y(d) \in Seq(Messages)
  BY <1>2, ServersFields
<1>5. /\ \A d \in Workers : y(d) = UpdateStatusWait(s, d, {}).out[d]
      /\ \A d \in Devices : d \notin Workers => y(d) = s.out[d]
  OBVIOUS
<1> HIDE DEF n, y
<1>6. o \in [Devices -> Seq(Messages)] /\ \A d \in Devices : o[d] = y(d)
  BY <1>4
<1> HIDE DEF o
<1>7. r \in Servers /\ r.word = s.word /\ r.ask = s.ask /\ r.running = n /\ r.in = s.in /\ r.out = o
  BY <1>3, <1>6 DEF Servers
<1> HIDE DEF r
<1> QED
  BY <1>1, <1>3, <1>5, <1>6, <1>7, ServersFields

LEMMA ForgottenResult ==
  ASSUME NEW s \in Servers, NEW d \in Others
  PROVE  LET r == Forgotten(s, d)
         IN /\ r \in Servers /\ r.running = s.running
            /\ r.word = [s.word EXCEPT ![d] = FALSE]
            /\ r.ask[d] = <<>> /\ r.out[d] = <<>> /\ r.in[d] = <<>>
            /\ \A e \in Devices : e # d => r.ask[e] = s.ask[e] /\ r.out[e] = s.out[e]
            /\ \A e \in Others : e # d => r.in[e] = s.in[e]
<1> DEFINE w == [s.word EXCEPT ![d] = FALSE]
           a == [s.ask EXCEPT ![d] = <<>>]
           o == [s.out EXCEPT ![d] = <<>>]
           i == [s.in EXCEPT ![d] = <<>>]
           r == [s EXCEPT !.word = w, !.ask = a, !.out = o, !.in = i]
<1>1. Forgotten(s, d) = r
  BY DEF Forgotten
<1>2. /\ w \in [Devices -> BOOLEAN]
      /\ a \in [Devices -> Seq(Workers)] /\ a[d] = <<>> /\ \A e \in Devices : e # d => a[e] = s.ask[e]
      /\ o \in [Devices -> Seq(Messages)] /\ o[d] = <<>> /\ \A e \in Devices : e # d => o[e] = s.out[e]
      /\ i \in [Others -> Seq(Messages)] /\ i[d] = <<>> /\ \A e \in Others : e # d => i[e] = s.in[e]
  BY ServersFields
<1> HIDE DEF w, a, o, i
<1>3. r \in Servers /\ r.word = w /\ r.ask = a /\ r.running = s.running /\ r.in = i /\ r.out = o
  BY <1>2 DEF Servers
<1> HIDE DEF r
<1> QED
  BY <1>1, <1>2, <1>3 DEF w



\* what centrald owes to the workers, and what they will know, are carried over
Keeps(s, r) ==
  /\ r \in Servers
  /\ \A d \in Workers :
       /\ \A in : Asked(s.ask[d], s.out[d], in) => Asked(r.ask[d], r.out[d], in)
       /\ \A infos, toServer : Informed(infos, toServer, s.running[d], s.out[d]) =>
                               Informed(infos, toServer, r.running[d], r.out[d])
       /\ \A bop : Ends(s.out[d], "bop", bop, GetStateForConnection(s, d)) =>
                   Ends(r.out[d], "bop", bop, GetStateForConnection(r, d))

LEMMA KeepsOn ==
  ASSUME NEW s, NEW t, NEW r, Keeps(s, t), Keeps(t, r)
  PROVE  Keeps(s, r)
BY DEF Keeps

LEMMA BopMaskChangedKeeps ==
  ASSUME NEW s \in Servers
  PROVE  /\ Keeps(s, BopMaskChanged(s))
         /\ \A d \in Workers : \A bop :
              Ends(BopMaskChanged(s).out[d], "bop", bop, GetStateForConnection(BopMaskChanged(s), d))
<1> DEFINE r == BopMaskChanged(s)
<1>1. /\ r \in Servers /\ r.word = s.word /\ r.ask = s.ask /\ r.running = s.running
      /\ \A d \in Workers : r.out[d] = Append(s.out[d], Bop(GetStateForConnection(s, d), FALSE))
  BY BopMaskChangedResult
<1> HIDE DEF r
<1>2. ASSUME NEW d \in Workers
      PROVE  /\ \A in : Asked(s.ask[d], s.out[d], in) => Asked(r.ask[d], r.out[d], in)
             /\ \A infos, toServer : Informed(infos, toServer, s.running[d], s.out[d]) =>
                                     Informed(infos, toServer, r.running[d], r.out[d])
             /\ \A bop : Ends(r.out[d], "bop", bop, GetStateForConnection(r, d))
  <2> DEFINE m == Bop(GetStateForConnection(s, d), FALSE)
             l == s.out[d]
  <2>1. m \in Messages /\ m.type = "bop" /\ m.on = GetStateForConnection(s, d) /\ l \in Seq(Messages)
    BY ServersFields, MessagesMade
  <2>2. r.out[d] = Append(l, m)
    BY <1>1
  <2>3. GetStateForConnection(r, d) = m.on
    BY <1>1, <2>1, SameWord
  <2> HIDE DEF m
  <2>4. \A type \in {"ok", "status_info"} : /\ None(l, type) => None(Append(l, m), type)
                                            /\ One(l, type) => One(Append(l, m), type)
    <3> HIDE DEF l
    <3> QED
      BY <2>1, NoneAppend
  <2>5. \A bop : Ends(Append(l, m), "bop", bop, m.on)
    <3> HIDE DEF l
    <3> QED
      BY <2>1, EndsAppend
  <2>6. r.ask[d] = s.ask[d] /\ r.running[d] = s.running[d]
    BY <1>1
  <2>7. \A in : Asked(s.ask[d], s.out[d], in) => Asked(r.ask[d], r.out[d], in)
    BY <2>2, <2>4, <2>6 DEF Asked
  <2>8. \A infos, toServer : Informed(infos, toServer, s.running[d], s.out[d]) =>
                             Informed(infos, toServer, r.running[d], r.out[d])
    BY <2>2, <2>4, <2>6 DEF Informed
  <2> QED
    BY <2>2, <2>3, <2>5, <2>7, <2>8
<1> QED
  BY <1>1, <1>2 DEF Keeps, r

LEMMA SetStateResult ==
  ASSUME NEW s \in Servers, NEW d \in Devices, NEW on \in BOOLEAN
  PROVE  LET r == SetState(s, d, on)
         IN /\ Keeps(s, r)
            /\ r.word[d] = on /\ \A e \in Devices : e # d => r.word[e] = s.word[e]
            /\ r.in = s.in /\ r.ask = s.ask
            /\ \A e \in Devices : e \notin Workers => r.out[e] = s.out[e]
<1> DEFINE u == [s EXCEPT !.word[d] = on]
           t == BopMaskChanged(u)
           r == SetState(s, d, on)
<1>1. r = IF s.word[d] = on THEN s ELSE t
  BY DEF SetState
<1>2. /\ u \in Servers /\ u.word = [s.word EXCEPT ![d] = on]
      /\ u.ask = s.ask /\ u.running = s.running /\ u.in = s.in /\ u.out = s.out
  BY SetWordResult
<1> HIDE DEF u
<1>3. /\ t \in Servers /\ t.word = u.word /\ t.ask = u.ask /\ t.running = u.running /\ t.in = u.in
      /\ \A e \in Devices : e \notin Workers => t.out[e] = u.out[e]
      /\ Keeps(u, t)
      /\ \A e \in Workers : \A bop : Ends(t.out[e], "bop", bop, GetStateForConnection(t, e))
  BY <1>2, BopMaskChangedResult, BopMaskChangedKeeps
<1> HIDE DEF t
<1>4. Keeps(s, t)
  BY <1>2, <1>3 DEF Keeps
<1>5. Keeps(s, s)
  BY DEF Keeps
<1> HIDE DEF r
<1> QED
  BY <1>1, <1>2, <1>3, <1>4, <1>5, ServersFields DEF r

LEMMA InformedRunning ==
  ASSUME NEW infos, NEW toServer, NEW running, NEW out, Informed(infos, toServer, running, out)
  PROVE  running \in {0, 1}
BY DEF Informed

\* one worker hears the answer to its status_info, or nothing changes
LEMMA UpdateStatusWaitMeans ==
  ASSUME NEW s \in Servers, NEW d \in Workers, NEW x
  PROVE  LET r == UpdateStatusWait(s, d, x)
         IN /\ Keeps(s, r)
            /\ r.word = s.word /\ r.ask = s.ask /\ r.in = s.in
            /\ \A e \in Devices : e # d => r.out[e] = s.out[e]
            /\ None(s.out[d], "status_info") => None(r.out[d], "status_info")
<1> DEFINE on == GetStateForConnection(s, d)
           b == Bop(on, TRUE)
           m == Plain("ok")
           l == s.out[d]
           r == UpdateStatusWait(s, d, x)
<1>1. /\ r \in Servers /\ r.word = s.word /\ r.ask = s.ask /\ r.in = s.in
      /\ s.running[d] = 0 \/ Pending(s, d, x) => r = s
      /\ ~(s.running[d] = 0 \/ Pending(s, d, x)) =>
           /\ r.running[d] = s.running[d] - 1
           /\ r.out[d] = Append(Append(l, b), m)
      /\ \A e \in Workers : e # d => r.running[e] = s.running[e]
      /\ \A e \in Devices : e # d => r.out[e] = s.out[e]
  BY UpdateStatusWaitResult, ZenonT(60)
<1>2. /\ b \in Messages /\ b.type = "bop" /\ b.on = on /\ m \in Messages /\ m.type = "ok"
      /\ l \in Seq(Messages) /\ d \in Devices /\ Workers \subseteq Devices
  BY ServersFields, MessagesMade
<1> HIDE DEF r, b, m
<1>3. Keeps(s, s)
  BY DEF Keeps
<1>4. CASE s.running[d] = 0 \/ Pending(s, d, x)
  BY <1>1, <1>3, <1>4 DEF r
<1>5. CASE ~(s.running[d] = 0 \/ Pending(s, d, x))
  <2> DEFINE k == Append(l, b)
             o == Append(k, m)
  <2>1. k \in Seq(Messages) /\ o \in Seq(Messages)
    <3> HIDE DEF l
    <3>1. k \in Seq(Messages)
      BY <1>2, AppendMeans
    <3> HIDE DEF k
    <3> QED
      BY <1>2, <3>1, AppendMeans
  <2>2. /\ None(l, "status_info") => None(o, "status_info")
        /\ One(l, "status_info") => One(o, "status_info")
        /\ None(l, "ok") => One(o, "ok")
    <3> HIDE DEF l
    <3>1. /\ None(l, "status_info") => None(k, "status_info")
          /\ One(l, "status_info") => One(k, "status_info")
          /\ None(l, "ok") => None(k, "ok")
      BY <1>2, NoneAppend
    <3> HIDE DEF k
    <3> QED
      BY <1>2, <2>1, <3>1, NoneAppend
  <2>3. \A bop : Ends(o, "bop", bop, on)
    <3> HIDE DEF l, on
    <3>1. \A bop : Ends(k, "bop", bop, on)
      BY <1>2, EndsAppend
    <3> HIDE DEF k
    <3> QED
      BY <1>2, <2>1, <3>1, EndsAppend
  <2>4. r.out[d] = o /\ r.running[d] = s.running[d] - 1 /\ s.running[d] # 0
    BY <1>1, <1>5
  <2>5. GetStateForConnection(r, d) = on
    BY <1>1, SameWord
  <2>6. \A e : GetStateForConnection(r, e) = GetStateForConnection(s, e)
    BY <1>1, SameWord
  <2> HIDE DEF o, on, k
  <2>7. ASSUME NEW e \in Workers
        PROVE  /\ \A in : Asked(s.ask[e], s.out[e], in) => Asked(r.ask[e], r.out[e], in)
               /\ \A infos, toServer : Informed(infos, toServer, s.running[e], s.out[e]) =>
                                       Informed(infos, toServer, r.running[e], r.out[e])
               /\ \A bop : Ends(s.out[e], "bop", bop, GetStateForConnection(s, e)) =>
                           Ends(r.out[e], "bop", bop, GetStateForConnection(r, e))
    <3>1. CASE e = d
      <4>1. \A in : Asked(s.ask[d], l, in) => Asked(r.ask[d], o, in)
        BY <1>1, <2>2 DEF Asked
      <4>2. ASSUME NEW infos, NEW toServer, Informed(infos, toServer, s.running[d], l)
            PROVE  Informed(infos, toServer, r.running[d], o)
        <5>1. s.running[d] = 1 /\ r.running[d] = 0
          BY <2>4, <4>2, InformedRunning
        <5>2. infos > 0 /\ None(toServer, "status_info") /\ None(l, "ok")
          BY <4>2, <5>1 DEF Informed
        <5> QED
          BY <2>2, <5>1, <5>2 DEF Informed
      <4> QED
        BY <2>3, <2>4, <2>5, <3>1, <4>1, <4>2
    <3>2. CASE e # d
      BY <1>1, <1>2, <2>6, <3>2
    <3> QED
      BY <3>1, <3>2
  <2>8. Keeps(s, r)
    BY <1>1, <2>7 DEF Keeps
  <2> QED
    BY <1>1, <2>2, <2>4, <2>8 DEF r
<1> QED
  BY <1>4, <1>5

LEMMA UpdateStatusWaitsKeeps ==
  ASSUME NEW s \in Servers
  PROVE  Keeps(s, UpdateStatusWaits(s))
<1> DEFINE r == UpdateStatusWaits(s)
<1>1. /\ r \in Servers /\ r.word = s.word /\ r.ask = s.ask /\ r.in = s.in
      /\ \A d \in Workers : /\ r.running[d] = UpdateStatusWait(s, d, {}).running[d]
                            /\ r.out[d] = UpdateStatusWait(s, d, {}).out[d]
  BY UpdateStatusWaitsResult
<1>2. ASSUME NEW d \in Workers
      PROVE  /\ \A in : Asked(s.ask[d], s.out[d], in) => Asked(r.ask[d], r.out[d], in)
             /\ \A infos, toServer : Informed(infos, toServer, s.running[d], s.out[d]) =>
                                     Informed(infos, toServer, r.running[d], r.out[d])
             /\ \A bop : Ends(s.out[d], "bop", bop, GetStateForConnection(s, d)) =>
                         Ends(r.out[d], "bop", bop, GetStateForConnection(r, d))
  <2> DEFINE u == UpdateStatusWait(s, d, {})
  <2>1. Keeps(s, u) /\ u.word = s.word /\ u.ask = s.ask
    BY UpdateStatusWaitMeans
  <2>2. r.running[d] = u.running[d] /\ r.out[d] = u.out[d] /\ r.ask[d] = u.ask[d]
    BY <1>1, <2>1
  <2>3. GetStateForConnection(r, d) = GetStateForConnection(u, d)
    BY <1>1, <2>1, SameWord
  <2> HIDE DEF u, r
  <2> QED
    BY <2>1, <2>2, <2>3 DEF Keeps
<1> HIDE DEF r
<1>3. Keeps(s, r)
  BY <1>1, <1>2 DEF Keeps
<1> QED
  BY <1>3 DEF r

LEMMA ConnectionRemovedResult ==
  ASSUME NEW s \in Servers, NEW d \in Others
  PROVE  LET r == ConnectionRemoved(s, d)
         IN /\ Keeps(s, r)
            /\ ~r.word[d] /\ \A e \in Devices : e # d => r.word[e] = s.word[e]
            /\ r.ask[d] = <<>> /\ r.out[d] = <<>> /\ r.in[d] = <<>>
            /\ \A e \in Others : e # d => r.ask[e] = s.ask[e] /\ r.out[e] = s.out[e] /\ r.in[e] = s.in[e]
<1> DEFINE t == Forgotten(s, d)
           u == BopMaskChanged(t)
           r == UpdateStatusWaits(u)
<1>1. ConnectionRemoved(s, d) = r
  BY DEF ConnectionRemoved
<1>2. /\ t \in Servers /\ t.running = s.running
      /\ t.word = [s.word EXCEPT ![d] = FALSE]
      /\ t.ask[d] = <<>> /\ t.out[d] = <<>> /\ t.in[d] = <<>>
      /\ \A e \in Devices : e # d => t.ask[e] = s.ask[e] /\ t.out[e] = s.out[e]
      /\ \A e \in Others : e # d => t.in[e] = s.in[e]
  BY ForgottenResult
<1> HIDE DEF t
<1>3. /\ u \in Servers /\ u.word = t.word /\ u.ask = t.ask /\ u.in = t.in
      /\ \A e \in Devices : e \notin Workers => u.out[e] = t.out[e]
      /\ Keeps(t, u)
      /\ \A e \in Workers : \A bop : Ends(u.out[e], "bop", bop, GetStateForConnection(u, e))
  BY <1>2, BopMaskChangedResult, BopMaskChangedKeeps
<1> HIDE DEF u
<1>4. /\ r \in Servers /\ r.word = u.word /\ r.ask = u.ask /\ r.in = u.in
      /\ \A e \in Devices : e \notin Workers => r.out[e] = u.out[e]
      /\ Keeps(u, r)
  BY <1>3, UpdateStatusWaitsResult, UpdateStatusWaitsKeeps
<1> HIDE DEF r
<1>5. d \notin Workers /\ d \in Devices /\ \A e \in Others : e \notin Workers /\ e \in Devices
  BY DevicesAssumption DEF Workers, Devices
<1>6. Workers \subseteq Devices
  BY DEF Devices
<1>7. Keeps(s, u)
  <2>1. \A e \in Workers : e # d /\ t.ask[e] = s.ask[e] /\ t.out[e] = s.out[e] /\ t.running[e] = s.running[e]
    BY <1>2, <1>5, <1>6
  <2> QED
    BY <1>3, <2>1 DEF Keeps
<1>8. Keeps(s, r)
  BY <1>4, <1>7, KeepsOn
<1>9. ~r.word[d] /\ \A e \in Devices : e # d => r.word[e] = s.word[e]
  BY <1>2, <1>3, <1>4, <1>5, ServersFields
<1> QED
  BY <1>1, <1>2, <1>3, <1>4, <1>5, <1>8, <1>9


LEMMA StatusInfoAnsweredResult ==
  ASSUME NEW s \in Servers, NEW e \in Devices, s.ask[e] # <<>>, None(s.out[e], "status_info")
  PROVE  LET r == StatusInfoAnswered(s, e)
         IN /\ r \in Servers /\ r.word = s.word /\ r.in = s.in
            /\ \A d \in Workers :
                 /\ \A infos, toServer : Informed(infos, toServer, s.running[d], s.out[d]) =>
                                         Informed(infos, toServer, r.running[d], r.out[d])
                 /\ \A bop : Ends(s.out[d], "bop", bop, GetStateForConnection(s, d)) =>
                             Ends(r.out[d], "bop", bop, GetStateForConnection(r, d))
                 /\ d # e => \A in : Asked(s.ask[d], s.out[d], in) => Asked(r.ask[d], r.out[d], in)
            /\ \A in : None(in, "ok") => Asked(r.ask[e], r.out[e], in)
            /\ \A d \in Others : d # e => r.ask[d] = s.ask[d] /\ r.out[d] = s.out[d]
            /\ e \in Others => \A type \in {"status", "bop", "ok"} : None(s.out[e], type) => None(r.out[e], type)
<1> DEFINE h == Head(s.ask[e])
           u == UpdateStatusWait(s, h, {e})
           y == Tail(u.ask[e])
           a == [u.ask EXCEPT ![e] = y]
           n == [u EXCEPT !.ask = a]
           m == Plain("status_info")
           t == Send(n, e, <<m>>)
           r == StatusInfoAnswered(s, e)
<1>1. r = IF n.ask[e] = <<>> THEN n ELSE t
  BY DEF StatusInfoAnswered
<1>2. h \in Workers
  BY TailMeans, ServersFields
<1>3. /\ Keeps(s, u) /\ u \in Servers /\ u.word = s.word /\ u.ask = s.ask /\ u.in = s.in
      /\ \A d \in Devices : d # h => u.out[d] = s.out[d]
      /\ None(u.out[e], "status_info")
  <2>1. /\ Keeps(s, u) /\ u.word = s.word /\ u.ask = s.ask /\ u.in = s.in
        /\ \A d \in Devices : d # h => u.out[d] = s.out[d]
        /\ None(s.out[h], "status_info") => None(u.out[h], "status_info")
    BY <1>2, UpdateStatusWaitMeans
  <2> HIDE DEF u, h
  <2>2. u \in Servers
    BY <2>1 DEF Keeps
  <2>3. None(u.out[e], "status_info")
    BY <2>1
  <2> QED
    BY <2>1, <2>2, <2>3
<1>10. /\ \A d \in Others : d \in Devices /\ d \notin Workers /\ d # h
       /\ \A d \in Workers : d \in Devices
  BY <1>2, DevicesAssumption DEF Workers, Devices
<1> HIDE DEF u, h, r
<1>4. y \in Seq(Workers)
  BY <1>3, TailMeans, ServersFields
<1> HIDE DEF y
<1>5. a \in [Devices -> Seq(Workers)] /\ a[e] = y /\ \A d \in Devices : d # e => a[d] = u.ask[d]
  BY <1>3, <1>4, ServersFields
<1> HIDE DEF a
<1>6. n \in Servers /\ n.word = u.word /\ n.ask = a /\ n.running = u.running /\ n.out = u.out /\ n.in = u.in
  BY <1>3, <1>5 DEF Servers
<1> HIDE DEF n
<1>7. m \in Messages /\ m.type = "status_info" /\ n.out[e] \in Seq(Messages)
  BY <1>6, MessagesMade, ServersFields
<1> HIDE DEF m
<1>8. n.out[e] \o <<m>> = Append(n.out[e], m) /\ n.out[e] \o <<m>> \in Seq(Messages)
  <2> DEFINE l == n.out[e]
  <2>1. l \in Seq(Messages)
    BY <1>7
  <2> HIDE DEF l
  <2>2. l \o <<m>> = Append(l, m) /\ l \o <<m>> \in Seq(Messages)
    BY <1>7, <2>1, ConcatIsAppend, AppendMeans
  <2> QED
    BY <2>2 DEF l
<1>9. /\ t \in Servers /\ t.word = n.word /\ t.ask = n.ask /\ t.running = n.running /\ t.in = n.in
      /\ t.out[e] = Append(n.out[e], m)
      /\ \A d \in Devices : d # e => t.out[d] = n.out[d]
  <2> DEFINE x == <<m>>
  <2>1. n.out[e] \o x \in Seq(Messages) /\ n.out[e] \o x = Append(n.out[e], m)
    BY <1>8
  <2>2. t = Send(n, e, x)
    OBVIOUS
  <2> HIDE DEF x, t
  <2>3. LET z == Send(n, e, x)
        IN /\ z \in Servers /\ z.word = n.word /\ z.ask = n.ask /\ z.running = n.running /\ z.in = n.in
           /\ z.out[e] = n.out[e] \o x
           /\ \A d \in Devices : d # e => z.out[d] = n.out[d]
    <3>1. n \in Servers /\ e \in Devices /\ n.out[e] \o x \in Seq(Messages)
      BY <1>6, <2>1
    <3> QED
      BY <3>1, SendResult
  <2> QED
    BY <2>1, <2>2, <2>3
<1> HIDE DEF t
<1>11. /\ \A type \in {"status", "bop", "ok"} : /\ None(n.out[e], type) => None(t.out[e], type)
                                                /\ One(n.out[e], type) => One(t.out[e], type)
       /\ None(n.out[e], "status_info") => One(t.out[e], "status_info")
       /\ \A bop, v : Ends(n.out[e], "bop", bop, v) => Ends(t.out[e], "bop", bop, v)
  <2> DEFINE l == n.out[e]
  <2>1. l \in Seq(Messages) /\ t.out[e] = Append(l, m)
    BY <1>7, <1>9
  <2> HIDE DEF l
  <2>2. /\ \A type \in {"status", "bop", "ok"} : /\ None(l, type) => None(Append(l, m), type)
                                                 /\ One(l, type) => One(Append(l, m), type)
        /\ None(l, "status_info") => One(Append(l, m), "status_info")
        /\ \A bop, v : Ends(l, "bop", bop, v) => Ends(Append(l, m), "bop", bop, v)
    BY <1>7, <2>1, NoneAppend, EndsAppend
  <2> QED
    BY <2>1, <2>2 DEF l
<1>12. /\ r \in Servers /\ r.word = s.word /\ r.in = s.in /\ r.running = u.running
       /\ r.ask = a /\ r.ask[e] = y
       /\ \A d \in Devices : d # e => r.out[d] = u.out[d] /\ r.ask[d] = s.ask[d]
       /\ \A type \in {"status", "bop", "ok"} : /\ None(u.out[e], type) => None(r.out[e], type)
                                                /\ One(u.out[e], type) => One(r.out[e], type)
       /\ \A bop, v : Ends(u.out[e], "bop", bop, v) => Ends(r.out[e], "bop", bop, v)
       /\ y = <<>> => None(r.out[e], "status_info")
       /\ y # <<>> => One(r.out[e], "status_info")
  BY <1>1, <1>3, <1>5, <1>6, <1>9, <1>11
<1>13. \A d : GetStateForConnection(r, d) = GetStateForConnection(u, d)
  BY <1>3, <1>12, SameWord
<1>14. ASSUME NEW d \in Workers
       PROVE  /\ \A infos, toServer : Informed(infos, toServer, s.running[d], s.out[d]) =>
                                      Informed(infos, toServer, r.running[d], r.out[d])
              /\ \A bop : Ends(s.out[d], "bop", bop, GetStateForConnection(s, d)) =>
                          Ends(r.out[d], "bop", bop, GetStateForConnection(r, d))
              /\ d # e => \A in : Asked(s.ask[d], s.out[d], in) => Asked(r.ask[d], r.out[d], in)
  <2>1. /\ \A in : Asked(s.ask[d], s.out[d], in) => Asked(u.ask[d], u.out[d], in)
        /\ \A infos, toServer : Informed(infos, toServer, s.running[d], s.out[d]) =>
                                Informed(infos, toServer, u.running[d], u.out[d])
        /\ \A bop : Ends(s.out[d], "bop", bop, GetStateForConnection(s, d)) =>
                    Ends(u.out[d], "bop", bop, GetStateForConnection(u, d))
    BY <1>3 DEF Keeps
  <2>2. CASE d # e
    BY <1>3, <1>10, <1>12, <1>13, <2>1, <2>2
  <2>3. CASE d = e
    <3>1. \A infos, toServer : Informed(infos, toServer, u.running[d], u.out[d]) =>
                               Informed(infos, toServer, r.running[d], r.out[d])
      BY <1>12, <2>3 DEF Informed
    <3> QED
      BY <1>12, <1>13, <2>1, <2>3, <3>1
  <2> QED
    BY <2>2, <2>3
<1>15. \A in : None(in, "ok") => Asked(r.ask[e], r.out[e], in)
  BY <1>12 DEF Asked
<1>16. \A d \in Others : d # e => r.ask[d] = s.ask[d] /\ r.out[d] = s.out[d]
  BY <1>3, <1>10, <1>12
<1>17. e \in Others => \A type \in {"status", "bop", "ok"} : None(s.out[e], type) => None(r.out[e], type)
  BY <1>3, <1>10, <1>12
<1> QED
  BY <1>12, <1>14, <1>15, <1>16, <1>17 DEF r

LEMMA CentraldStatusInfoResult ==
  ASSUME NEW s \in Servers, NEW d \in Workers, NEW listed, s.running[d] = 0, None(s.out[d], "ok")
  PROVE  LET r == CentraldStatusInfo(s, d, listed)
         IN /\ r \in Servers /\ r.word = s.word /\ r.in = s.in
            /\ \A infos, toServer : infos > 0 /\ None(toServer, "status_info") =>
                                    Informed(infos, toServer, r.running[d], r.out[d])
            /\ \A e \in Workers : e # d =>
                 \A infos, toServer : Informed(infos, toServer, s.running[e], s.out[e]) =>
                                      Informed(infos, toServer, r.running[e], r.out[e])
            /\ \A e \in Workers : \A bop : Ends(s.out[e], "bop", bop, GetStateForConnection(s, e)) =>
                                           Ends(r.out[e], "bop", bop, GetStateForConnection(r, e))
            /\ \A e \in Devices : \A in : Asked(s.ask[e], s.out[e], in) => Asked(r.ask[e], r.out[e], in)
            /\ \A e \in Devices : e \notin listed => r.ask[e] = s.ask[e] /\ (e # d => r.out[e] = s.out[e])
            /\ \A e \in Others : \A type \in {"status", "bop", "ok"} :
                                   None(s.out[e], type) => None(r.out[e], type)
<1> DEFINE asked == listed \ {d}
           m == Plain("ok")
           t == Send(s, d, <<m>>)
           i == Plain("status_info")
           n == s.running[d] + 1
           g == [s.running EXCEPT ![d] = n]
           x(e) == IF e \in asked THEN Append(s.ask[e], d) ELSE s.ask[e]
           a == [e \in Devices |-> x(e)]
           y(e) == IF e \in asked /\ s.ask[e] = <<>> THEN Append(s.out[e], i) ELSE s.out[e]
           o == [e \in Devices |-> y(e)]
           u == [s EXCEPT !.running = g, !.ask = a, !.out = o]
           r == CentraldStatusInfo(s, d, listed)
<1>1. r = IF asked = {} THEN t ELSE u
  BY DEF CentraldStatusInfo
<1>2. /\ m \in Messages /\ m.type = "ok" /\ i \in Messages /\ i.type = "status_info"
      /\ d \in Devices /\ Workers \subseteq Devices /\ Others \subseteq Devices
      /\ \A e \in Devices : s.out[e] \in Seq(Messages) /\ s.ask[e] \in Seq(Workers)
      /\ s.running \in [Workers -> Nat]
  BY MessagesMade, ServersFields
<1>3. \A e \in Others : e # d
  BY DevicesAssumption DEF Workers
<1> HIDE DEF m, i
<1>4. CASE asked = {}
  <2> DEFINE l == s.out[d]
             z == <<m>>
  <2>1. l \in Seq(Messages)
    BY <1>2
  <2>2. l \o z = Append(l, m) /\ l \o z \in Seq(Messages)
    <3> HIDE DEF l
    <3> QED
      BY <1>2, <2>1, ConcatIsAppend, AppendMeans
  <2>3. /\ t \in Servers /\ t.word = s.word /\ t.ask = s.ask /\ t.running = s.running /\ t.in = s.in
        /\ t.out[d] = Append(l, m)
        /\ \A e \in Devices : e # d => t.out[e] = s.out[e]
    <3>1. s.out[d] \o z \in Seq(Messages) /\ s.out[d] \o z = Append(l, m) /\ t = Send(s, d, z)
      BY <2>2
    <3> HIDE DEF z, t, l
    <3>2. LET q == Send(s, d, z)
          IN /\ q \in Servers /\ q.word = s.word /\ q.ask = s.ask /\ q.running = s.running /\ q.in = s.in
             /\ q.out[d] = s.out[d] \o z
             /\ \A e \in Devices : e # d => q.out[e] = s.out[e]
      <4>1. d \in Devices /\ s.out[d] \o z \in Seq(Messages)
        BY <1>2, <3>1
      <4> QED
        BY <4>1, SendResult
    <3> QED
      BY <3>1, <3>2
  <2>4. /\ One(t.out[d], "ok")
        /\ None(l, "status_info") => None(t.out[d], "status_info")
        /\ One(l, "status_info") => One(t.out[d], "status_info")
        /\ \A bop, v : Ends(l, "bop", bop, v) => Ends(t.out[d], "bop", bop, v)
    <3> HIDE DEF l, t
    <3>1. /\ None(l, "ok") => One(Append(l, m), "ok")
          /\ None(l, "status_info") => None(Append(l, m), "status_info")
          /\ One(l, "status_info") => One(Append(l, m), "status_info")
          /\ \A bop, v : Ends(l, "bop", bop, v) => Ends(Append(l, m), "bop", bop, v)
      BY <1>2, <2>1, NoneAppend, EndsAppend
    <3>2. None(l, "ok")
      BY DEF l
    <3> QED
      BY <2>3, <3>1, <3>2
  <2>5. r = t
    BY <1>1, <1>4
  <2> HIDE DEF t, r
  <2>6. \A e : GetStateForConnection(r, e) = GetStateForConnection(s, e)
    BY <2>3, <2>5, SameWord
  <2>7. \A infos, toServer : infos > 0 /\ None(toServer, "status_info") =>
                             Informed(infos, toServer, r.running[d], r.out[d])
    BY <2>3, <2>4, <2>5 DEF Informed
  <2>8. \A in : Asked(s.ask[d], s.out[d], in) => Asked(r.ask[d], r.out[d], in)
    BY <2>3, <2>4, <2>5 DEF Asked
  <2>9. \A e \in Devices : \A in : Asked(s.ask[e], s.out[e], in) => Asked(r.ask[e], r.out[e], in)
    BY <2>3, <2>5, <2>8
  <2>10. \A e \in Workers : \A bop : Ends(s.out[e], "bop", bop, GetStateForConnection(s, e)) =>
                                     Ends(r.out[e], "bop", bop, GetStateForConnection(r, e))
    BY <1>2, <2>3, <2>4, <2>5, <2>6
  <2> QED
    BY <1>2, <1>3, <2>3, <2>5, <2>7, <2>9, <2>10 DEF r
<1>5. CASE asked # {}
  <2>1. n \in Nat /\ n = 1
    OBVIOUS
  <2> HIDE DEF n
  <2>2. g \in [Workers -> Nat] /\ g[d] = 1 /\ \A e \in Workers : e # d => g[e] = s.running[e]
    BY <1>2, <2>1
  <2> HIDE DEF g
  <2>3. ASSUME NEW e \in Devices
        PROVE  /\ x(e) \in Seq(Workers) /\ y(e) \in Seq(Messages)
               /\ s.ask[e] # <<>> => x(e) # <<>> /\ y(e) = s.out[e]
               /\ s.ask[e] = <<>> /\ e \in asked => x(e) # <<>> /\ y(e) = Append(s.out[e], i)
               /\ e \notin asked => x(e) = s.ask[e] /\ y(e) = s.out[e]
    <3> DEFINE l == s.out[e]
               b == s.ask[e]
    <3>1. l \in Seq(Messages) /\ b \in Seq(Workers)
      BY <1>2
    <3> HIDE DEF l, b
    <3>2. Append(l, i) \in Seq(Messages) /\ Append(b, d) \in Seq(Workers) /\ Append(b, d) # <<>>
      BY <1>2, <3>1, AppendMeans
    <3> QED
      BY <3>1, <3>2 DEF l, b
  <2>4. \A e \in Devices : a[e] = x(e) /\ o[e] = y(e)
    OBVIOUS
  <2> HIDE DEF x, y
  <2>5. a \in [Devices -> Seq(Workers)] /\ o \in [Devices -> Seq(Messages)]
    BY <2>3
  <2> HIDE DEF a, o
  <2>6. u \in Servers /\ u.word = s.word /\ u.ask = a /\ u.running = g /\ u.in = s.in /\ u.out = o
    BY <2>2, <2>5 DEF Servers
  <2>7. r = u
    BY <1>1, <1>5
  <2> HIDE DEF u, r
  <2>8. ASSUME NEW e \in Devices
        PROVE  /\ \A type \in {"status", "bop", "ok"} : /\ None(s.out[e], type) => None(r.out[e], type)
                                                        /\ One(s.out[e], type) => One(r.out[e], type)
               /\ \A bop, v : Ends(s.out[e], "bop", bop, v) => Ends(r.out[e], "bop", bop, v)
               /\ \A in : Asked(s.ask[e], s.out[e], in) => Asked(r.ask[e], r.out[e], in)
    <3> DEFINE l == s.out[e]
    <3>1. l \in Seq(Messages)
      BY <1>2
    <3>2. /\ \A type \in {"status", "bop", "ok"} : /\ None(l, type) => None(Append(l, i), type)
                                                   /\ One(l, type) => One(Append(l, i), type)
          /\ None(l, "status_info") => One(Append(l, i), "status_info")
          /\ \A bop, v : Ends(l, "bop", bop, v) => Ends(Append(l, i), "bop", bop, v)
      <4> HIDE DEF l
      <4> QED
        BY <1>2, <3>1, NoneAppend, EndsAppend
    <3>3. r.out[e] = y(e) /\ r.ask[e] = x(e)
      BY <2>4, <2>6, <2>7
    <3>4. CASE s.ask[e] # <<>>
      BY <2>3, <3>3, <3>4 DEF Asked
    <3>5. CASE s.ask[e] = <<>> /\ e \in asked
      BY <2>3, <3>2, <3>3, <3>5 DEF Asked
    <3>6. CASE e \notin asked
      BY <2>3, <3>3, <3>6
    <3> QED
      BY <3>4, <3>5, <3>6
  <2>9. \A e : GetStateForConnection(r, e) = GetStateForConnection(s, e)
    BY <2>6, <2>7, SameWord
  <2>10. None(r.out[d], "ok") /\ r.running[d] = 1
    BY <1>2, <2>2, <2>6, <2>7, <2>8
  <2>11. \A infos, toServer : infos > 0 /\ None(toServer, "status_info") =>
                              Informed(infos, toServer, r.running[d], r.out[d])
    BY <2>10 DEF Informed
  <2>12. \A e \in Workers : e # d =>
            \A infos, toServer : Informed(infos, toServer, s.running[e], s.out[e]) =>
                                 Informed(infos, toServer, r.running[e], r.out[e])
    BY <1>2, <2>2, <2>6, <2>7, <2>8 DEF Informed
  <2>13. \A e \in Devices : e \notin listed => r.ask[e] = s.ask[e] /\ (e # d => r.out[e] = s.out[e])
    BY <2>3, <2>4, <2>6, <2>7
  <2>14. \A e \in Workers : \A bop : Ends(s.out[e], "bop", bop, GetStateForConnection(s, e)) =>
                                     Ends(r.out[e], "bop", bop, GetStateForConnection(r, e))
    BY <1>2, <2>8, <2>9
  <2>15. \A e \in Others : \A type \in {"status", "bop", "ok"} : None(s.out[e], type) => None(r.out[e], type)
    BY <1>2, <2>8
  <2> QED
    BY <2>6, <2>7, <2>8, <2>11, <2>12, <2>13, <2>14, <2>15 DEF r
<1> QED
  BY <1>4, <1>5


-----------------------------------------------------------------------------
(* The steps.                                                              *)

LEMMA Typed ==
  ASSUME IInv
  PROVE  /\ \A d \in Workers : /\ client[d] \in Connections /\ dev[d] \in Workings
                               /\ seen.queued[d] \in Nat /\ seen.executed[d] \in Nat /\ seen.answered[d] \in Nat
                               /\ srv.running[d] \in Nat
         /\ srv \in Servers
         /\ \A d \in Devices : /\ srv.word[d] \in BOOLEAN /\ srv.ask[d] \in Seq(Workers)
                               /\ srv.out[d] \in Seq(Messages)
         /\ \A d \in Others : srv.in[d] \in Seq(Messages) /\ other[d] \in {"idle", "working", "broken", "gone"}
         /\ Workers \subseteq Devices /\ Others \subseteq Devices /\ Workers \cap Others = {}
<1>1. TypeOK
  BY DEF IInv
<1>2. /\ srv.word \in [Devices -> BOOLEAN] /\ srv.ask \in [Devices -> Seq(Workers)]
      /\ srv.running \in [Workers -> Nat] /\ srv.out \in [Devices -> Seq(Messages)]
      /\ srv.in \in [Others -> Seq(Messages)]
  BY <1>1, ServersFields DEF TypeOK
<1>3. Workers \subseteq Devices /\ Others \subseteq Devices /\ Workers \cap Others = {}
  BY DevicesAssumption DEF Workers, Devices
<1>4. /\ client \in [Workers -> Connections] /\ dev \in [Workers -> Workings] /\ srv \in Servers
      /\ other \in [Others -> {"idle", "working", "broken", "gone"}]
      /\ seen \in [queued : [Workers -> Nat], executed : [Workers -> Nat],
                   answered : [Workers -> Nat], early : BOOLEAN]
  BY <1>1 DEF TypeOK
<1> QED
  BY <1>2, <1>3, <1>4

LEMMA InitHolds ==
  ASSUME Init
  PROVE  IInv
<1> DEFINE k == [que |-> <<>>, run |-> NoCommand, bop |-> FALSE, out |-> <<>>]
           w == [work |-> "idle", waits |-> 0, bop |-> FALSE, asking |-> FALSE,
                 infos |-> 0, toClient |-> <<>>, toServer |-> <<>>]
<1>1. /\ k \in Connections /\ k.que = <<>> /\ k.run = NoCommand /\ k.bop = FALSE /\ k.out = <<>>
  BY DEF Connections, NoCommand, Commands
<1>2. /\ w \in Workings /\ Raises(w) = FALSE /\ w.bop = FALSE /\ w.asking = FALSE /\ w.infos = 0
      /\ w.toClient = <<>> /\ w.toServer = <<>>
  BY DEF Workings, Raises
<1> HIDE DEF k, w
<1>3. /\ client = [d \in Workers |-> k] /\ dev = [d \in Workers |-> w]
      /\ other = [d \in Others |-> "idle"]
  BY DEF Init, k, w
<1>4. /\ srv.word = [d \in Devices |-> FALSE] /\ srv.ask = [d \in Devices |-> <<>>]
      /\ srv.running = [d \in Workers |-> 0] /\ srv.out = [d \in Devices |-> <<>>]
      /\ srv.in = [d \in Others |-> <<>>]
  BY DEF Init
<1>5. srv \in Servers
  BY DEF Init, Servers
<1>6. budget \in [commands : Nat, others : Nat, lost : Nat]
  BY BoundsAssumption DEF Init
<1>7. /\ seen.queued = [d \in Workers |-> 0] /\ seen.executed = [d \in Workers |-> 0]
      /\ seen.answered = [d \in Workers |-> 0]
      /\ seen \in [queued : [Workers -> Nat], executed : [Workers -> Nat],
                   answered : [Workers -> Nat], early : BOOLEAN]
  BY DEF Init
<1>8. TypeOK
  BY <1>1, <1>2, <1>3, <1>5, <1>6, <1>7 DEF TypeOK
<1>9. Workers \subseteq Devices /\ Others \subseteq Devices
  BY DEF Devices
<1>10. \A type : None(<<>>, type)
  BY DEF None
<1>11. \A d \in Devices : GetStateForConnection(srv, d) = FALSE
  BY <1>4 DEF GetStateForConnection
<1>12. ASSUME NEW d \in Workers
       PROVE  WorkerHolds(d)
  <2>1. /\ client[d] = k /\ dev[d] = w /\ srv.word[d] = FALSE /\ srv.ask[d] = <<>>
        /\ srv.running[d] = 0 /\ srv.out[d] = <<>> /\ GetStateForConnection(srv, d) = FALSE
        /\ seen.queued[d] = 0 /\ seen.executed[d] = 0 /\ seen.answered[d] = 0
    BY <1>3, <1>4, <1>7, <1>9, <1>11
  <2>2. Served(d)
    BY <1>1, <1>2, <1>10, <2>1 DEF Served, Serves, NothingSent, Unsent
  <2>3. Tokens(d) /\ Links(d)
    BY <1>2, <1>10, <2>1 DEF Tokens, Links, Asked, Informed
  <2>4. Views(d)
    BY <1>1, <1>2, <2>1, EndsEmpty DEF Views
  <2> QED
    BY <2>2, <2>3, <2>4 DEF WorkerHolds
<1>13. ASSUME NEW d \in Others
       PROVE  OtherHolds(d)
  <2>1. /\ srv.word[d] = FALSE /\ srv.ask[d] = <<>> /\ srv.out[d] = <<>> /\ srv.in[d] = <<>>
        /\ other[d] = "idle"
    BY <1>3, <1>4, <1>9
  <2>2. Asked(srv.ask[d], srv.out[d], srv.in[d])
    BY <1>10, <2>1 DEF Asked
  <2>3. Ends(<<>>, "status", FALSE, FALSE)
    BY EndsEmpty
  <2>4. (other[d] = "working") = FALSE
    BY <2>1
  <2>5. Ends(srv.in[d], "status", srv.word[d], other[d] = "working")
    BY <2>1, <2>3, <2>4
  <2>6. other[d] # "gone"
    BY <2>1
  <2> QED
    BY <1>10, <2>1, <2>2, <2>5, <2>6 DEF OtherHolds
<1> QED
  BY <1>8, <1>12, <1>13 DEF IInv

LEMMA IssueHolds ==
  ASSUME IInv, NEW d \in Workers, Issue(d)
  PROVE  IInv'
<1> DEFINE k == client[d]
           q == seen.queued[d]
           r == QueCommand(k, q + 1)
<1>1. /\ client' = [client EXCEPT ![d] = r] /\ UNCHANGED <<dev, other, srv>>
      /\ seen' = [seen EXCEPT !.queued[d] = @ + 1]
      /\ budget.commands > 0 /\ budget' = [budget EXCEPT !.commands = @ - 1]
  BY DEF Issue
<1>2. /\ TypeOK /\ \A e \in Workers : WorkerHolds(e)
  BY DEF IInv
<1>3. r \in Connections /\ r.bop = k.bop /\ Serves(r, dev[d], q + 1, seen.executed[d], seen.answered[d])
  BY <1>2, Typed, ServesQueue DEF WorkerHolds, Served
<1> HIDE DEF r
<1>4. /\ client' \in [Workers -> Connections] /\ client'[d] = r
      /\ \A e \in Workers : e # d => client'[e] = client[e]
  BY <1>1, <1>2, <1>3 DEF TypeOK
<1>5. /\ seen' \in [queued : [Workers -> Nat], executed : [Workers -> Nat],
                    answered : [Workers -> Nat], early : BOOLEAN]
      /\ seen'.queued[d] = q + 1 /\ \A e \in Workers : e # d => seen'.queued[e] = seen.queued[e]
      /\ seen'.executed = seen.executed /\ seen'.answered = seen.answered
  <2> DEFINE n == q + 1
             o == [seen.queued EXCEPT ![d] = n]
  <2>1. n \in Nat
    BY Typed
  <2>2. seen' = [seen EXCEPT !.queued = o]
    BY <1>1
  <2>3. /\ seen \in [queued : [Workers -> Nat], executed : [Workers -> Nat],
                     answered : [Workers -> Nat], early : BOOLEAN]
    BY <1>2 DEF TypeOK
  <2> HIDE DEF n
  <2>4. o \in [Workers -> Nat] /\ o[d] = n /\ \A e \in Workers : e # d => o[e] = seen.queued[e]
    BY <2>1, <2>3
  <2> HIDE DEF o
  <2>5. /\ seen' \in [queued : [Workers -> Nat], executed : [Workers -> Nat],
                      answered : [Workers -> Nat], early : BOOLEAN]
        /\ seen'.queued = o /\ seen'.executed = seen.executed /\ seen'.answered = seen.answered
    BY <2>2, <2>3, <2>4
  <2> QED
    BY <2>4, <2>5 DEF n
<1>6. budget' \in [commands : Nat, others : Nat, lost : Nat]
  BY <1>1, <1>2 DEF TypeOK
<1>7. TypeOK'
  BY <1>1, <1>2, <1>4, <1>5, <1>6 DEF TypeOK
<1>8. ASSUME NEW e \in Workers
      PROVE  WorkerHolds(e)'
  <2>1. WorkerHolds(e) /\ srv' = srv /\ dev' = dev /\ client'[e].bop = client[e].bop
    BY <1>1, <1>2, <1>3, <1>4
  <2>2. Served(e)'
    <3>1. CASE e = d
      BY <1>1, <1>3, <1>4, <1>5, <3>1 DEF Served
    <3>2. CASE e # d
      BY <1>1, <1>4, <1>5, <2>1, <3>2 DEF Served, WorkerHolds
    <3> QED
      BY <3>1, <3>2
  <2> QED
    BY <2>1, <2>2 DEF WorkerHolds, Tokens, Links, Views
<1>9. \A e \in Others : OtherHolds(e)'
  BY <1>1 DEF IInv, OtherHolds
<1> QED
  BY <1>7, <1>8, <1>9 DEF IInv


\* A step of one worker and the client's connection to it, which may take from its link.
LEMMA OneWorker ==
  ASSUME IInv, NEW d \in Workers, NEW k \in Connections, NEW w \in Workings,
         client' = [client EXCEPT ![d] = k], dev' = [dev EXCEPT ![d] = w],
         UNCHANGED <<other, budget>>,
         srv' \in Servers, srv'.word = srv.word, srv'.ask = srv.ask, srv'.running = srv.running,
         srv'.in = srv.in, \A e \in Devices : e # d => srv'.out[e] = srv.out[e],
         seen' \in [queued : [Workers -> Nat], executed : [Workers -> Nat],
                    answered : [Workers -> Nat], early : BOOLEAN],
         \A e \in Workers : e # d => /\ seen'.queued[e] = seen.queued[e]
                                     /\ seen'.executed[e] = seen.executed[e]
                                     /\ seen'.answered[e] = seen.answered[e],
         Serves(k, w, seen'.queued[d], seen'.executed[d], seen'.answered[d]),
         Asked(srv.ask[d], srv'.out[d], w.toServer),
         Informed(w.infos, w.toServer, srv.running[d], srv'.out[d]),
         None(w.toServer, "bop"),
         \A type \in {"status", "status_info"} : None(w.toClient, type),
         Ends(w.toServer, "status", srv.word[d], Raises(w)),
         Ends(srv'.out[d], "bop", w.bop, GetStateForConnection(srv, d)),
         Ends(w.toClient, "bop", k.bop, w.bop)
  PROVE  IInv'
<1>1. TypeOK /\ (\A e \in Workers : WorkerHolds(e)) /\ (\A e \in Others : OtherHolds(e))
  BY DEF IInv
<1>2. /\ client \in [Workers -> Connections] /\ dev \in [Workers -> Workings]
  BY <1>1 DEF TypeOK
<1>3. /\ client' \in [Workers -> Connections] /\ client'[d] = k
      /\ \A e \in Workers : e # d => client'[e] = client[e]
  BY <1>2
<1>4. /\ dev' \in [Workers -> Workings] /\ dev'[d] = w
      /\ \A e \in Workers : e # d => dev'[e] = dev[e]
  BY <1>2
<1>5. TypeOK'
  BY <1>1, <1>3, <1>4 DEF TypeOK
<1>6. \A e : GetStateForConnection(srv', e) = GetStateForConnection(srv, e)
  BY SameWord
<1>7. Workers \subseteq Devices /\ \A e \in Others : e \in Devices /\ e # d
  BY Typed
<1>8. ASSUME NEW e \in Workers
      PROVE  WorkerHolds(e)'
  <2>1. CASE e = d
    <3>1. Served(d)' /\ Links(d)'
      BY <1>3, <1>4 DEF Served, Links
    <3>2. Tokens(d)'
      BY <1>4 DEF Tokens
    <3>3. Views(d)'
      BY <1>3, <1>4, <1>6 DEF Views
    <3> QED
      BY <2>1, <3>1, <3>2, <3>3 DEF WorkerHolds
  <2>2. CASE e # d
    <3>1. /\ client'[e] = client[e] /\ dev'[e] = dev[e] /\ srv'.out[e] = srv.out[e]
      BY <1>3, <1>4, <1>7, <2>2
    <3>2. Served(e) /\ Tokens(e) /\ Links(e) /\ Views(e)
      BY <1>1 DEF WorkerHolds
    <3>3. Served(e)' /\ Links(e)'
      BY <2>2, <3>1, <3>2 DEF Served, Links
    <3>4. Tokens(e)'
      BY <3>1, <3>2 DEF Tokens
    <3>5. Views(e)'
      BY <1>6, <3>1, <3>2 DEF Views
    <3> QED
      BY <3>3, <3>4, <3>5 DEF WorkerHolds
  <2> QED
    BY <2>1, <2>2
<1>9. ASSUME NEW e \in Others
      PROVE  OtherHolds(e)'
  <2>1. srv'.out[e] = srv.out[e] /\ OtherHolds(e)
    BY <1>1, <1>7
  <2> QED
    BY <2>1 DEF OtherHolds
<1> QED
  BY <1>5, <1>8, <1>9 DEF IInv

\* What the invariant says of one worker.
LEMMA Holds ==
  ASSUME IInv, NEW d \in Workers
  PROVE  /\ Serves(client[d], dev[d], seen.queued[d], seen.executed[d], seen.answered[d])
         /\ Asked(srv.ask[d], srv.out[d], dev[d].toServer)
         /\ Informed(dev[d].infos, dev[d].toServer, srv.running[d], srv.out[d])
         /\ None(dev[d].toServer, "bop")
         /\ \A type \in {"status", "status_info"} : None(dev[d].toClient, type)
         /\ Ends(dev[d].toServer, "status", srv.word[d], Raises(dev[d]))
         /\ Ends(srv.out[d], "bop", dev[d].bop, GetStateForConnection(srv, d))
         /\ Ends(dev[d].toClient, "bop", client[d].bop, dev[d].bop)
BY DEF IInv, WorkerHolds, Served, Tokens, Links, Views

LEMMA Histories ==
  ASSUME IInv
  PROVE  /\ seen \in [queued : [Workers -> Nat], executed : [Workers -> Nat],
                      answered : [Workers -> Nat], early : BOOLEAN]
         /\ client \in [Workers -> Connections] /\ dev \in [Workers -> Workings]
         /\ \A d \in Workers : client = [client EXCEPT ![d] = client[d]]
BY DEF IInv, TypeOK

LEMMA ClientReceivesHolds ==
  ASSUME IInv, NEW d \in Workers, ClientReceives(d)
  PROVE  IInv'
<1> DEFINE k == client[d]
           w == dev[d]
           m == Head(w.toClient)
           x == Tail(w.toClient)
           v == [w EXCEPT !.toClient = x]
           c == IF m.type = "ok" THEN SendNextCommand(k) ELSE SetBopState(k, m.on)
           i == k.run.id
           n == IF m.type = "ok" /\ i > 0 THEN [seen EXCEPT !.answered[d] = i] ELSE seen
           q == seen.queued[d]
           e == seen.executed[d]
           a == seen.answered[d]
<1>1. /\ w.toClient # <<>> /\ client' = [client EXCEPT ![d] = c] /\ seen' = n
      /\ dev' = [dev EXCEPT ![d] = v] /\ UNCHANGED <<other, srv, budget>>
  BY DEF ClientReceives
<1>2. /\ k \in Connections /\ w \in Workings /\ q \in Nat /\ e \in Nat /\ a \in Nat
      /\ srv \in Servers
  BY Typed
<1>3. w.toClient \in Seq(Messages) /\ m \in Messages /\ x \in Seq(Messages)
  BY <1>1, <1>2, WorkingsFields, TailMeans
<1>4. m.on \in BOOLEAN
  BY <1>3 DEF Messages
<1>5. /\ Serves(k, w, q, e, a)
      /\ \A type \in {"status", "status_info"} : None(w.toClient, type)
      /\ Ends(w.toClient, "bop", k.bop, w.bop)
  BY Holds
<1>6. m.type \in {"ok", "bop"}
  <2>1. m.type # "status" /\ m.type # "status_info"
    BY <1>1, <1>3, <1>5, NoneTail
  <2> QED
    BY <1>3, <2>1 DEF Messages
<1>7. /\ \A type \in {"status", "status_info"} : None(x, type)
      /\ m.type = "bop" => Ends(x, "bop", m.on, w.bop)
      /\ m.type # "bop" => Ends(x, "bop", k.bop, w.bop)
  BY <1>1, <1>3, <1>5, NoneTail, EndsTail
<1> HIDE DEF x
<1>8. /\ v \in Workings /\ v.toClient = x /\ v.asking = w.asking /\ v.toServer = w.toServer
      /\ v.infos = w.infos /\ v.bop = w.bop /\ v.work = w.work
  BY <1>2, <1>3 DEF Workings
<1> HIDE DEF v, m
<1>9. /\ Asked(srv.ask[d], srv.out[d], v.toServer)
      /\ Informed(v.infos, v.toServer, srv.running[d], srv.out[d])
      /\ None(v.toServer, "bop")
      /\ Ends(v.toServer, "status", srv.word[d], Raises(v))
      /\ Ends(srv.out[d], "bop", v.bop, GetStateForConnection(srv, d))
  BY <1>8, Holds DEF Raises
<1>10. /\ n \in [queued : [Workers -> Nat], executed : [Workers -> Nat],
                 answered : [Workers -> Nat], early : BOOLEAN]
       /\ n.queued = seen.queued /\ n.executed = seen.executed
       /\ \A f \in Workers : f # d => n.answered[f] = seen.answered[f]
       /\ n.answered[d] = IF m.type = "ok" /\ i > 0 THEN i ELSE a
       /\ n.early = seen.early
  <2>1. i \in Nat
    BY <1>2 DEF Connections, Commands
  <2> HIDE DEF i
  <2> DEFINE o == [seen.answered EXCEPT ![d] = i]
             p == [seen EXCEPT !.answered = o]
  <2>2. o \in [Workers -> Nat] /\ o[d] = i /\ \A f \in Workers : f # d => o[f] = seen.answered[f]
    BY <2>1, Histories
  <2> HIDE DEF o
  <2>3. /\ p \in [queued : [Workers -> Nat], executed : [Workers -> Nat],
                  answered : [Workers -> Nat], early : BOOLEAN]
        /\ p.queued = seen.queued /\ p.executed = seen.executed /\ p.answered = o /\ p.early = seen.early
    BY <2>2, Histories
  <2>4. n = IF m.type = "ok" /\ i > 0 THEN p ELSE seen
    BY DEF o
  <2> HIDE DEF p, n
  <2> QED
    BY <2>2, <2>3, <2>4, Histories
<1> HIDE DEF n
<1>11. /\ c \in Connections /\ Ends(v.toClient, "bop", c.bop, v.bop)
       /\ Serves(c, v, q, e, n.answered[d])
  <2>1. CASE m.type = "ok"
    <3>1. /\ SendNextCommand(k) \in Connections /\ SendNextCommand(k).bop = k.bop
          /\ i > 0 => i = a + 1
          /\ Serves(SendNextCommand(k), v, q, e, IF i > 0 THEN a + 1 ELSE a)
      <4>1. Head(w.toClient).type = "ok" /\ v.toClient = Tail(w.toClient)
        BY <1>8, <2>1 DEF m, x
      <4>2. /\ k \in Connections /\ q \in Nat /\ e \in Nat /\ a \in Nat /\ Serves(k, w, q, e, a)
            /\ w.toClient \in Seq(Messages) /\ w.toClient # <<>> /\ v.asking = w.asking
        BY <1>1, <1>2, <1>3, <1>5, <1>8
      <4> HIDE DEF k, w, q, e, a
      <4> QED
        BY <4>1, <4>2, ServesAnswer
    <3>2. n.answered[d] = IF i > 0 THEN a + 1 ELSE a
      BY <1>10, <2>1, <3>1
    <3> QED
      BY <1>7, <1>8, <2>1, <3>1, <3>2
  <2>2. CASE m.type # "ok"
    <3>1. /\ SetBopState(k, m.on) \in Connections /\ SetBopState(k, m.on).bop = m.on
          /\ Serves(SetBopState(k, m.on), v, q, e, a)
      <4>1. Head(w.toClient).type # "ok" /\ v.toClient = Tail(w.toClient)
        BY <1>8, <2>2 DEF m, x
      <4>2. /\ k \in Connections /\ q \in Nat /\ e \in Nat /\ a \in Nat /\ Serves(k, w, q, e, a)
            /\ w.toClient \in Seq(Messages) /\ w.toClient # <<>> /\ v.asking = w.asking
        BY <1>1, <1>2, <1>3, <1>5, <1>8
      <4> HIDE DEF k, w, q, e, a
      <4> QED
        BY <1>4, <4>1, <4>2, ServesBop
    <3>2. m.type = "bop" /\ n.answered[d] = a
      BY <1>6, <1>10, <2>2
    <3> QED
      BY <1>7, <1>8, <2>2, <3>1, <3>2
  <2> QED
    BY <2>1, <2>2
<1> HIDE DEF c, k, w, q, e, a
<1>12. Serves(c, v, seen'.queued[d], seen'.executed[d], seen'.answered[d])
  BY <1>1, <1>10, <1>11 DEF q, e
<1> QED
  <2>1. /\ srv' \in Servers /\ srv'.word = srv.word /\ srv'.ask = srv.ask /\ srv'.running = srv.running
        /\ srv'.in = srv.in /\ srv'.out = srv.out /\ UNCHANGED <<other, budget>>
    BY <1>1, <1>2
  <2>2. \A f \in Workers : f # d => /\ seen'.queued[f] = seen.queued[f]
                                    /\ seen'.executed[f] = seen.executed[f]
                                    /\ seen'.answered[f] = seen.answered[f]
    BY <1>1, <1>10
  <2>3. /\ Asked(srv.ask[d], srv'.out[d], v.toServer)
        /\ Informed(v.infos, v.toServer, srv.running[d], srv'.out[d])
        /\ Ends(srv'.out[d], "bop", v.bop, GetStateForConnection(srv, d))
    BY <1>9, <2>1
  <2>4. \A type \in {"status", "status_info"} : None(v.toClient, type)
    BY <1>7, <1>8
  <2> QED
    BY <1>1, <1>8, <1>9, <1>10, <1>11, <1>12, <2>1, <2>2, <2>3, <2>4, OneWorker


\* A device that only reports what it raises leaves centrald's questions as they are.
LEMMA ReportsHold ==
  ASSUME NEW w, NEW r, Reports(w, r), r.infos = w.infos, NEW ask, NEW out, NEW running, NEW word,
         Asked(ask, out, w.toServer), Informed(w.infos, w.toServer, running, out),
         None(w.toServer, "bop"), Ends(w.toServer, "status", word, Raises(w))
  PROVE  /\ Asked(ask, out, r.toServer) /\ Informed(r.infos, r.toServer, running, out)
         /\ None(r.toServer, "bop") /\ Ends(r.toServer, "status", word, Raises(r))
BY DEF Reports, Asked, Informed

LEMMA DeviceReceivesCommandHolds ==
  ASSUME IInv, NEW d \in Workers, DeviceReceivesCommand(d)
  PROVE  IInv'
<1> DEFINE k == client[d]
           w == dev[d]
           id == Head(k.out)
           u == [k EXCEPT !.out = Tail(@)]
           q == seen.queued[d]
           e == seen.executed[d]
           a == seen.answered[d]
<1>1. /\ k.out # <<>> /\ client' = [client EXCEPT ![d] = u] /\ UNCHANGED <<other, srv, budget>>
      /\ id = 0 => dev' = [dev EXCEPT ![d] = QueDeviceStatusCommand(w)] /\ UNCHANGED seen
      /\ id # 0 => /\ dev' = [dev EXCEPT ![d] =
                        ToClient(IF d = Mount THEN Becomes(w, "moving") ELSE Expose(w), <<Plain("ok")>>)]
                   /\ seen' = [seen EXCEPT !.executed[d] = id]
  BY DEF DeviceReceivesCommand
<1>2. /\ k \in Connections /\ w \in Workings /\ q \in Nat /\ e \in Nat /\ a \in Nat /\ srv \in Servers
  BY Typed
<1>3. w.toClient \in Seq(Messages) /\ w.toServer \in Seq(Messages) /\ w.infos \in Nat
  BY <1>2, WorkingsFields
<1>4. /\ Serves(k, w, q, e, a)
      /\ Asked(srv.ask[d], srv.out[d], w.toServer)
      /\ Informed(w.infos, w.toServer, srv.running[d], srv.out[d])
      /\ None(w.toServer, "bop")
      /\ \A type \in {"status", "status_info"} : None(w.toClient, type)
      /\ Ends(w.toServer, "status", srv.word[d], Raises(w))
      /\ Ends(srv.out[d], "bop", w.bop, GetStateForConnection(srv, d))
      /\ Ends(w.toClient, "bop", k.bop, w.bop)
  BY Holds
<1>5. ASSUME NEW v
      PROVE  /\ u \in Connections /\ u.bop = k.bop /\ id \in Nat
             /\ id = 0 /\ v.asking /\ v.toClient = w.toClient => Serves(u, v, q, e, a)
             /\ id > 0 /\ v.asking = w.asking /\ v.toClient = Append(w.toClient, Plain("ok")) =>
                  Serves(u, v, q, id, a)
  <2> HIDE DEF k, w, q, e, a
  <2>1. /\ k \in Connections /\ q \in Nat /\ e \in Nat /\ a \in Nat /\ Serves(k, w, q, e, a)
        /\ w.toClient \in Seq(Messages) /\ k.out # <<>>
    BY <1>1, <1>2, <1>3, <1>4
  <2> QED
    BY <2>1, ServesCommand
<1>6. u \in Connections /\ u.bop = k.bop /\ id \in Nat
  BY <1>5
<1>7. /\ srv' \in Servers /\ srv'.word = srv.word /\ srv'.ask = srv.ask /\ srv'.running = srv.running
      /\ srv'.in = srv.in /\ srv'.out = srv.out /\ UNCHANGED <<other, budget>>
  BY <1>1, <1>2
<1> HIDE DEF u, id
<1>8. CASE id = 0
  <2> DEFINE v == QueDeviceStatusCommand(w)
             m == Plain("status_info")
  <2>1. /\ v \in Workings /\ v.asking /\ v.infos = w.infos + 1
        /\ v.work = w.work /\ v.bop = w.bop /\ v.toClient = w.toClient
        /\ v.toServer = IF w.infos = 0 THEN Append(w.toServer, m) ELSE w.toServer
    BY <1>2, QueDeviceStatusResult
  <2>2. dev' = [dev EXCEPT ![d] = v] /\ UNCHANGED seen
    BY <1>1, <1>8
  <2> HIDE DEF v
  <2>3. Serves(u, v, q, e, a)
    BY <1>5, <1>8, <2>1
  <2>4. /\ v.infos > 0
        /\ None(w.toServer, "status_info") /\ w.infos = 0 => One(v.toServer, "status_info")
        /\ w.infos # 0 => v.toServer = w.toServer
        /\ None(v.toServer, "bop")
        /\ None(w.toServer, "ok") => None(v.toServer, "ok")
        /\ One(w.toServer, "ok") => One(v.toServer, "ok")
        /\ Ends(v.toServer, "status", srv.word[d], Raises(w))
    <3> DEFINE l == w.toServer
    <3>1. m \in Messages /\ m.type = "status_info" /\ l \in Seq(Messages)
      BY <1>3, MessagesMade
    <3>2. v.infos > 0
      BY <1>3, <2>1
    <3> HIDE DEF m, l
    <3>3. /\ None(l, "status_info") => One(Append(l, m), "status_info")
          /\ None(l, "bop") => None(Append(l, m), "bop")
          /\ None(l, "ok") => None(Append(l, m), "ok")
          /\ One(l, "ok") => One(Append(l, m), "ok")
          /\ \A x, y : Ends(l, "status", x, y) => Ends(Append(l, m), "status", x, y)
      BY <3>1, NoneAppend, EndsAppend
    <3> QED
      BY <1>4, <2>1, <3>2, <3>3 DEF l
  <2>5. Raises(v) = Raises(w)
    BY <2>1 DEF Raises
  <2>6. Asked(srv.ask[d], srv.out[d], v.toServer)
    BY <1>4, <2>4 DEF Asked
  <2>7. Informed(v.infos, v.toServer, srv.running[d], srv.out[d])
    <3>1. CASE w.infos = 0
      BY <1>4, <2>4, <3>1 DEF Informed
    <3>2. CASE w.infos # 0
      BY <1>4, <2>4, <3>2 DEF Informed
    <3> QED
      BY <3>1, <3>2
  <2>8. /\ Asked(srv.ask[d], srv'.out[d], v.toServer)
        /\ Informed(v.infos, v.toServer, srv.running[d], srv'.out[d])
        /\ Ends(srv'.out[d], "bop", v.bop, GetStateForConnection(srv, d))
    BY <1>4, <1>7, <2>1, <2>6, <2>7
  <2>9. /\ Serves(u, v, seen'.queued[d], seen'.executed[d], seen'.answered[d])
        /\ seen' \in [queued : [Workers -> Nat], executed : [Workers -> Nat],
                      answered : [Workers -> Nat], early : BOOLEAN]
        /\ \A f \in Workers : f # d => /\ seen'.queued[f] = seen.queued[f]
                                       /\ seen'.executed[f] = seen.executed[f]
                                       /\ seen'.answered[f] = seen.answered[f]
    BY <2>2, <2>3, Histories
  <2>10. /\ None(v.toServer, "bop") /\ \A type \in {"status", "status_info"} : None(v.toClient, type)
         /\ Ends(v.toServer, "status", srv.word[d], Raises(v))
         /\ Ends(v.toClient, "bop", u.bop, v.bop)
    BY <1>4, <1>6, <2>1, <2>4, <2>5
  <2> HIDE DEF k, w, q, e, a
  <2> QED
    BY <1>1, <1>6, <1>7, <2>1, <2>2, <2>8, <2>9, <2>10, OneWorker
<1>9. CASE id # 0
  <2> DEFINE r == IF d = Mount THEN Becomes(w, "moving") ELSE Expose(w)
             m == Plain("ok")
             v == ToClient(r, <<m>>)
             n == [seen EXCEPT !.executed[d] = id]
  <2>1. Quietly(w, r)
    BY <1>2, BecomesQuietly, ExposeQuietly
  <2>2. dev' = [dev EXCEPT ![d] = v] /\ seen' = n
    BY <1>1, <1>9
  <2> HIDE DEF r
  <2>3. m \in Messages /\ m.type = "ok"
    BY MessagesMade
  <2>4. /\ r \in Workings /\ r.bop = w.bop /\ r.asking = w.asking /\ r.infos = w.infos
        /\ r.toClient = w.toClient /\ Reports(w, r)
    BY <2>1 DEF Quietly
  <2>5. /\ v \in Workings /\ v.toClient = Append(r.toClient, m)
        /\ v.work = r.work /\ v.bop = r.bop /\ v.asking = r.asking
        /\ v.infos = r.infos /\ v.toServer = r.toServer
    BY <2>3, <2>4, ToClientResult
  <2> HIDE DEF v
  <2>6. Serves(u, v, q, id, a)
    BY <1>5, <1>6, <1>9, <2>4, <2>5
  <2>7. /\ Asked(srv.ask[d], srv.out[d], v.toServer)
        /\ Informed(v.infos, v.toServer, srv.running[d], srv.out[d])
        /\ None(v.toServer, "bop")
        /\ Ends(v.toServer, "status", srv.word[d], Raises(v))
    <3>1. Raises(v) = Raises(r)
      BY <2>5 DEF Raises
    <3> HIDE DEF w
    <3>2. /\ Asked(srv.ask[d], srv.out[d], r.toServer)
          /\ Informed(r.infos, r.toServer, srv.running[d], srv.out[d])
          /\ None(r.toServer, "bop")
          /\ Ends(r.toServer, "status", srv.word[d], Raises(r))
      BY <1>4, <2>4, ReportsHold
    <3> QED
      BY <2>5, <3>1, <3>2
  <2>8. /\ \A type \in {"status", "status_info"} : None(v.toClient, type)
        /\ Ends(v.toClient, "bop", u.bop, v.bop)
    <3> DEFINE l == w.toClient
    <3>1. l \in Seq(Messages) /\ v.toClient = Append(l, m) /\ v.bop = w.bop
      BY <1>3, <2>4, <2>5
    <3> HIDE DEF l, m
    <3>2. /\ \A type \in {"status", "status_info"} : None(l, type) => None(Append(l, m), type)
          /\ \A x, y : Ends(l, "bop", x, y) => Ends(Append(l, m), "bop", x, y)
      BY <2>3, <3>1, NoneAppend, EndsAppend
    <3> QED
      BY <1>4, <1>6, <3>1, <3>2 DEF l
  <2>9. /\ n \in [queued : [Workers -> Nat], executed : [Workers -> Nat],
                  answered : [Workers -> Nat], early : BOOLEAN]
        /\ n.queued = seen.queued /\ n.answered = seen.answered
        /\ \A f \in Workers : f # d => n.executed[f] = seen.executed[f]
        /\ n.executed[d] = id
    <3> DEFINE o == [seen.executed EXCEPT ![d] = id]
    <3>1. o \in [Workers -> Nat] /\ o[d] = id /\ \A f \in Workers : f # d => o[f] = seen.executed[f]
      BY <1>6, Histories
    <3>2. n = [seen EXCEPT !.executed = o]
      OBVIOUS
    <3> HIDE DEF o, n
    <3>3. /\ n \in [queued : [Workers -> Nat], executed : [Workers -> Nat],
                    answered : [Workers -> Nat], early : BOOLEAN]
          /\ n.queued = seen.queued /\ n.answered = seen.answered /\ n.executed = o
      BY <3>1, <3>2, Histories
    <3> QED
      BY <3>1, <3>3
  <2> HIDE DEF n
  <2>10. /\ Asked(srv.ask[d], srv'.out[d], v.toServer)
         /\ Informed(v.infos, v.toServer, srv.running[d], srv'.out[d])
         /\ Ends(srv'.out[d], "bop", v.bop, GetStateForConnection(srv, d))
    BY <1>4, <1>7, <2>4, <2>5, <2>7
  <2>11. /\ Serves(u, v, seen'.queued[d], seen'.executed[d], seen'.answered[d])
         /\ seen' \in [queued : [Workers -> Nat], executed : [Workers -> Nat],
                       answered : [Workers -> Nat], early : BOOLEAN]
         /\ \A f \in Workers : f # d => /\ seen'.queued[f] = seen.queued[f]
                                        /\ seen'.executed[f] = seen.executed[f]
                                        /\ seen'.answered[f] = seen.answered[f]
    BY <2>2, <2>6, <2>9
  <2> HIDE DEF k, w, q, e, a
  <2> QED
    BY <1>1, <1>6, <1>7, <2>2, <2>5, <2>7, <2>8, <2>10, <2>11, OneWorker
<1> QED
  BY <1>8, <1>9

LEMMA WorkEndsHolds ==
  ASSUME IInv, NEW d \in Workers, WorkEnds(d)
  PROVE  IInv'
<1> DEFINE w == dev[d]
           k == client[d]
           i == Becomes(w, "idle")
           v == CASE w.work = "moving" -> i
                  [] w.work = "exposing" -> Becomes(w, "reading")
                  [] w.work = "reading" -> StartWaiting(i)
<1>1. w.work # "idle" /\ dev' = [dev EXCEPT ![d] = v] /\ UNCHANGED <<client, other, srv, budget, seen>>
  BY DEF WorkEnds
<1>2. w \in Workings /\ k \in Connections /\ srv \in Servers
  BY Typed
<1>3. Quietly(w, v)
  <2>1. w.work \in {"moving", "exposing", "reading"}
    BY <1>1, <1>2, WorkingsFields
  <2>2. Quietly(w, i) /\ Quietly(w, Becomes(w, "reading"))
    BY <1>2, BecomesQuietly
  <2>3. Quietly(w, StartWaiting(i))
    <3> HIDE DEF i
    <3>1. i \in Workings
      BY <2>2 DEF Quietly
    <3>2. Quietly(i, StartWaiting(i))
      BY <3>1, StartWaitingQuietly
    <3> QED
      BY <2>2, <3>2, QuietlyOn
  <2> HIDE DEF i
  <2> QED
    BY <2>1, <2>2, <2>3
<1> HIDE DEF v
<1>4. /\ v \in Workings /\ v.bop = w.bop /\ v.asking = w.asking /\ v.infos = w.infos
      /\ v.toClient = w.toClient /\ Reports(w, v)
  BY <1>3 DEF Quietly
<1>5. /\ Serves(k, w, seen.queued[d], seen.executed[d], seen.answered[d])
      /\ Asked(srv.ask[d], srv.out[d], w.toServer)
      /\ Informed(w.infos, w.toServer, srv.running[d], srv.out[d])
      /\ None(w.toServer, "bop")
      /\ \A type \in {"status", "status_info"} : None(w.toClient, type)
      /\ Ends(w.toServer, "status", srv.word[d], Raises(w))
      /\ Ends(srv.out[d], "bop", w.bop, GetStateForConnection(srv, d))
      /\ Ends(w.toClient, "bop", k.bop, w.bop)
  BY Holds
<1> HIDE DEF w
<1>6. Serves(k, v, seen.queued[d], seen.executed[d], seen.answered[d])
  BY <1>4, <1>5, ServesDevice
<1>7. /\ Asked(srv.ask[d], srv.out[d], v.toServer)
      /\ Informed(v.infos, v.toServer, srv.running[d], srv.out[d])
      /\ None(v.toServer, "bop")
      /\ Ends(v.toServer, "status", srv.word[d], Raises(v))
  BY <1>4, <1>5, ReportsHold
<1>8. /\ srv' = srv /\ seen' = seen /\ client' = [client EXCEPT ![d] = k]
      /\ seen' \in [queued : [Workers -> Nat], executed : [Workers -> Nat],
                    answered : [Workers -> Nat], early : BOOLEAN]
      /\ UNCHANGED <<other, budget>>
  BY <1>1, Histories
<1> HIDE DEF k
<1>9. /\ \A type \in {"status", "status_info"} : None(v.toClient, type)
      /\ Ends(srv.out[d], "bop", v.bop, GetStateForConnection(srv, d))
      /\ Ends(v.toClient, "bop", k.bop, v.bop)
  BY <1>4, <1>5
<1> QED
  BY <1>1, <1>2, <1>4, <1>6, <1>7, <1>8, <1>9, OneWorker


LEMMA DeviceReceivesHolds ==
  ASSUME IInv, NEW d \in Workers, DeviceReceives(d)
  PROVE  IInv'
<1> DEFINE w == dev[d]
           k == client[d]
           l == srv.out[d]
           m == Head(l)
           x == Tail(l)
           blocked == GetStateForConnection(srv, d)
           n == [seen EXCEPT !.early = @ \/ Early(w, m)]
<1>1. /\ l # <<>> /\ srv' = [srv EXCEPT !.out[d] = x] /\ UNCHANGED <<client, other, budget>>
      /\ \/ m.type = "status_info" /\ dev' = [dev EXCEPT ![d] = StatusInfo(w)] /\ seen' = seen
         \/ m.type = "bop" /\ dev' = [dev EXCEPT ![d] = SetFullBopState(w, m.on)] /\ seen' = n
         \/ m.type = "ok" /\ dev' = [dev EXCEPT ![d] = StatusInfoReturns(w)] /\ seen' = n
  BY DEF DeviceReceives
<1>2. w \in Workings /\ k \in Connections /\ srv \in Servers /\ l \in Seq(Messages) /\ d \in Devices
  BY Typed
<1>3. w.toClient \in Seq(Messages) /\ w.toServer \in Seq(Messages) /\ w.infos \in Nat /\ w.asking \in BOOLEAN
  BY <1>2, WorkingsFields
<1>4. /\ Serves(k, w, seen.queued[d], seen.executed[d], seen.answered[d])
      /\ Asked(srv.ask[d], l, w.toServer)
      /\ Informed(w.infos, w.toServer, srv.running[d], l)
      /\ None(w.toServer, "bop")
      /\ \A type \in {"status", "status_info"} : None(w.toClient, type)
      /\ Ends(w.toServer, "status", srv.word[d], Raises(w))
      /\ Ends(l, "bop", w.bop, blocked)
      /\ Ends(w.toClient, "bop", k.bop, w.bop)
  BY Holds
<1>5. x \in Seq(Messages) /\ m \in Messages /\ m.on \in BOOLEAN
  <2> HIDE DEF l
  <2>1. x \in Seq(Messages) /\ m \in Messages
    BY <1>1, <1>2, TailMeans
  <2> QED
    BY <2>1 DEF Messages
<1> HIDE DEF blocked
<1>6. /\ \A type : /\ None(l, type) => None(x, type) /\ m.type # type
                   /\ One(l, type) /\ m.type = type => None(x, type)
                   /\ One(l, type) /\ m.type # type => One(x, type)
      /\ m.type = "bop" => Ends(x, "bop", m.on, blocked)
      /\ m.type # "bop" => Ends(x, "bop", w.bop, blocked)
  <2> HIDE DEF l, w
  <2> QED
    BY <1>1, <1>2, <1>4, NoneTail, EndsTail
<1> HIDE DEF x, m
<1>7. /\ srv' \in Servers /\ srv'.word = srv.word /\ srv'.ask = srv.ask /\ srv'.running = srv.running
      /\ srv'.in = srv.in /\ srv'.out[d] = x
      /\ \A e \in Devices : e # d => srv'.out[e] = srv.out[e]
  <2> DEFINE o == [srv.out EXCEPT ![d] = x]
  <2>1. o \in [Devices -> Seq(Messages)] /\ o[d] = x /\ \A e \in Devices : e # d => o[e] = srv.out[e]
    BY <1>2, <1>5, ServersFields
  <2>2. srv' = [srv EXCEPT !.out = o]
    BY <1>1
  <2> HIDE DEF o
  <2>3. /\ srv' \in Servers /\ srv'.word = srv.word /\ srv'.ask = srv.ask /\ srv'.running = srv.running
        /\ srv'.in = srv.in /\ srv'.out = o
    BY <1>2, <2>1, <2>2 DEF Servers
  <2> QED
    BY <2>1, <2>3
<1>8. /\ seen' \in [queued : [Workers -> Nat], executed : [Workers -> Nat],
                    answered : [Workers -> Nat], early : BOOLEAN]
      /\ seen'.queued = seen.queued /\ seen'.executed = seen.executed /\ seen'.answered = seen.answered
  <2> DEFINE b == seen.early \/ Early(w, m)
  <2>1. b \in BOOLEAN
    OBVIOUS
  <2>2. n = [seen EXCEPT !.early = b]
    OBVIOUS
  <2> HIDE DEF b, n
  <2>3. /\ n \in [queued : [Workers -> Nat], executed : [Workers -> Nat],
                  answered : [Workers -> Nat], early : BOOLEAN]
        /\ n.queued = seen.queued /\ n.executed = seen.executed /\ n.answered = seen.answered
    BY <2>1, <2>2, Histories
  <2> QED
    BY <1>1, <2>3, Histories
<1> HIDE DEF n, w, k, l
<1>9. CASE m.type = "status_info"
  <2> DEFINE v == StatusInfo(w)
             p == Plain("ok")
             s == w.toServer
  <2>1. dev' = [dev EXCEPT ![d] = v]
    BY <1>1, <1>9
  <2>2. p \in Messages /\ p.type = "ok"
    BY MessagesMade
  <2>3. /\ v \in Workings /\ v.toServer = Append(s, p)
        /\ v.work = w.work /\ v.bop = w.bop /\ v.asking = w.asking
        /\ v.infos = w.infos /\ v.toClient = w.toClient
    <3>1. v = ToServer(w, <<p>>)
      BY DEF StatusInfo
    <3> HIDE DEF v, p
    <3> QED
      BY <1>2, <2>2, <3>1, ToServerResult
  <2> HIDE DEF v, p
  <2>4. /\ None(s, "ok") => One(v.toServer, "ok")
        /\ None(s, "status_info") => None(v.toServer, "status_info")
        /\ One(s, "status_info") => One(v.toServer, "status_info")
        /\ None(s, "bop") => None(v.toServer, "bop")
        /\ \A y, z : Ends(s, "status", y, z) => Ends(v.toServer, "status", y, z)
    <3>1. s \in Seq(Messages)
      BY <1>3
    <3> HIDE DEF s
    <3> QED
      BY <2>2, <2>3, <3>1, NoneAppend, EndsAppend
  <2>5. Raises(v) = Raises(w)
    BY <2>3 DEF Raises
  <2>6. Asked(srv.ask[d], x, v.toServer)
    <3>1. ~None(l, "status_info")
      BY <1>6, <1>9
    <3>2. srv.ask[d] # <<>> /\ One(l, "status_info") /\ None(s, "ok")
      BY <1>4, <3>1 DEF Asked
    <3> QED
      BY <1>6, <1>9, <2>4, <3>2 DEF Asked
  <2>7. Informed(v.infos, v.toServer, srv.running[d], x)
    <3>1. /\ None(l, "ok") => None(x, "ok")
          /\ One(l, "ok") => One(x, "ok")
      BY <1>6, <1>9
    <3> QED
      BY <1>4, <2>3, <2>4, <3>1 DEF Informed
  <2>8. Serves(k, v, seen'.queued[d], seen'.executed[d], seen'.answered[d])
    BY <1>4, <1>8, <2>3, ServesDevice
  <2>9. /\ None(v.toServer, "bop") /\ \A type \in {"status", "status_info"} : None(v.toClient, type)
        /\ Ends(v.toServer, "status", srv.word[d], Raises(v))
        /\ Ends(x, "bop", v.bop, blocked)
        /\ Ends(v.toClient, "bop", k.bop, v.bop)
    BY <1>4, <1>6, <1>9, <2>3, <2>4, <2>5
  <2>10. /\ Asked(srv.ask[d], srv'.out[d], v.toServer)
         /\ Informed(v.infos, v.toServer, srv.running[d], srv'.out[d])
         /\ Ends(srv'.out[d], "bop", v.bop, GetStateForConnection(srv, d))
         /\ client' = [client EXCEPT ![d] = k] /\ UNCHANGED <<other, budget>>
    BY <1>1, <1>7, <2>6, <2>7, <2>9, Histories DEF blocked, k
  <2>11. \A f \in Workers : f # d => /\ seen'.queued[f] = seen.queued[f]
                                     /\ seen'.executed[f] = seen.executed[f]
                                     /\ seen'.answered[f] = seen.answered[f]
    BY <1>8
  <2> QED
    BY <1>2, <1>7, <1>8, <2>1, <2>3, <2>8, <2>9, <2>10, <2>11, OneWorker
<1>10. CASE m.type = "bop"
  <2> DEFINE v == SetFullBopState(w, m.on)
             b == Bop(m.on, FALSE)
             p == Plain("ok")
             s == w.toClient
             t == Append(s, b)
  <2>1. dev' = [dev EXCEPT ![d] = v]
    BY <1>1, <1>10
  <2>2. p \in Messages /\ p.type = "ok" /\ b \in Messages /\ b.type = "bop" /\ b.on = m.on
    BY <1>5, MessagesMade
  <2>3. /\ v \in Workings /\ v.bop = m.on /\ ~v.asking /\ v.infos = w.infos
        /\ v.toClient = IF w.asking THEN Append(t, p) ELSE t
        /\ Reports(w, v)
    BY <1>2, <1>5, SetFullBopStateResult
  <2> HIDE DEF v, p, b
  <2>4. /\ t \in Seq(Messages)
        /\ \A type \in {"ok", "status", "status_info"} : /\ None(s, type) => None(t, type)
                                                         /\ One(s, type) => One(t, type)
        /\ \A y : Ends(t, "bop", y, m.on)
    <3>1. s \in Seq(Messages)
      BY <1>3
    <3> HIDE DEF s
    <3> QED
      BY <2>2, <3>1, AppendMeans, NoneAppend, EndsAppend
  <2> HIDE DEF t
  <2>5. /\ None(t, "ok") => One(Append(t, p), "ok")
        /\ \A type \in {"status", "status_info"} : None(t, type) => None(Append(t, p), type)
        /\ \A y : Ends(Append(t, p), "bop", y, m.on)
    BY <2>2, <2>4, NoneAppend, EndsAppend
  <2>6. Serves(k, v, seen'.queued[d], seen'.executed[d], seen'.answered[d])
    <3>1. \/ /\ v.asking = w.asking
             /\ None(w.toClient, "ok") => None(v.toClient, "ok")
             /\ One(w.toClient, "ok") => One(v.toClient, "ok")
          \/ /\ w.asking /\ ~v.asking
             /\ None(w.toClient, "ok") => One(v.toClient, "ok")
      <4>1. CASE w.asking
        BY <2>3, <2>4, <2>5, <4>1
      <4>2. CASE ~w.asking
        <5>1. v.asking = w.asking
          BY <1>3, <2>3, <4>2, WorkingsFields
        <5> QED
          BY <2>3, <2>4, <4>2, <5>1
      <4> QED
        BY <4>1, <4>2
    <3> QED
      BY <1>4, <1>8, <3>1, ServesDevice
  <2>7. /\ \A type \in {"status", "status_info"} : None(v.toClient, type)
        /\ Ends(v.toClient, "bop", k.bop, v.bop)
    BY <1>4, <2>3, <2>4, <2>5
  <2>8. Asked(srv.ask[d], x, w.toServer) /\ Informed(w.infos, w.toServer, srv.running[d], x)
    <3>1. \A type \in {"status_info", "ok"} : /\ None(l, type) => None(x, type)
                                              /\ One(l, type) => One(x, type)
      BY <1>6, <1>10
    <3> QED
      BY <1>4, <3>1 DEF Asked, Informed
  <2>9. /\ Asked(srv.ask[d], x, v.toServer)
        /\ Informed(v.infos, v.toServer, srv.running[d], x)
        /\ None(v.toServer, "bop")
        /\ Ends(v.toServer, "status", srv.word[d], Raises(v))
    BY <1>4, <2>3, <2>8, ReportsHold
  <2>10. /\ Asked(srv.ask[d], srv'.out[d], v.toServer)
         /\ Informed(v.infos, v.toServer, srv.running[d], srv'.out[d])
         /\ Ends(srv'.out[d], "bop", v.bop, GetStateForConnection(srv, d))
         /\ client' = [client EXCEPT ![d] = k] /\ UNCHANGED <<other, budget>>
    BY <1>1, <1>6, <1>7, <1>10, <2>3, <2>9, Histories DEF blocked, k
  <2>11. \A f \in Workers : f # d => /\ seen'.queued[f] = seen.queued[f]
                                     /\ seen'.executed[f] = seen.executed[f]
                                     /\ seen'.answered[f] = seen.answered[f]
    BY <1>8
  <2> QED
    BY <1>2, <1>7, <1>8, <2>1, <2>3, <2>6, <2>7, <2>9, <2>10, <2>11, OneWorker
<1>11. CASE m.type = "ok"
  <2> DEFINE v == StatusInfoReturns(w)
             i == Plain("status_info")
             p == Plain("ok")
             s == w.toClient
             o == w.toServer
  <2>1. dev' = [dev EXCEPT ![d] = v]
    BY <1>1, <1>11
  <2>2. i \in Messages /\ i.type = "status_info" /\ p \in Messages /\ p.type = "ok"
    BY MessagesMade
  <2>3. /\ w.infos > 0 /\ None(o, "status_info") /\ srv.running[d] = 0 /\ None(x, "ok")
    <3>1. ~None(l, "ok")
      BY <1>6, <1>11
    <3>2. w.infos > 0 /\ None(o, "status_info") /\ srv.running[d] = 0 /\ One(l, "ok")
      BY <1>4, <3>1 DEF Informed
    <3> QED
      BY <1>6, <1>11, <3>2
  <2>4. /\ v \in Workings /\ ~v.asking /\ v.infos = w.infos - 1
        /\ v.work = w.work /\ v.bop = w.bop
        /\ v.toClient = IF w.asking THEN Append(s, p) ELSE s
        /\ v.toServer = IF v.infos > 0 THEN Append(o, i) ELSE o
    BY <1>2, <2>3, StatusInfoReturnsResult
  <2> HIDE DEF v, p, i
  <2>5. /\ None(s, "ok") => One(Append(s, p), "ok")
        /\ \A type \in {"status", "status_info"} : None(s, type) => None(Append(s, p), type)
        /\ \A y, z : Ends(s, "bop", y, z) => Ends(Append(s, p), "bop", y, z)
    <3>1. s \in Seq(Messages)
      BY <1>3
    <3> HIDE DEF s
    <3> QED
      BY <2>2, <3>1, NoneAppend, EndsAppend
  <2>6. /\ None(o, "status_info") => One(Append(o, i), "status_info")
        /\ None(o, "bop") => None(Append(o, i), "bop")
        /\ None(o, "ok") => None(Append(o, i), "ok")
        /\ One(o, "ok") => One(Append(o, i), "ok")
        /\ \A y, z : Ends(o, "status", y, z) => Ends(Append(o, i), "status", y, z)
    <3>1. o \in Seq(Messages)
      BY <1>3
    <3> HIDE DEF o
    <3> QED
      BY <2>2, <3>1, NoneAppend, EndsAppend
  <2>7. Raises(v) = Raises(w)
    BY <2>4 DEF Raises
  <2>8. Serves(k, v, seen'.queued[d], seen'.executed[d], seen'.answered[d])
    <3>1. \/ /\ v.asking = w.asking
             /\ None(w.toClient, "ok") => None(v.toClient, "ok")
             /\ One(w.toClient, "ok") => One(v.toClient, "ok")
          \/ /\ w.asking /\ ~v.asking
             /\ None(w.toClient, "ok") => One(v.toClient, "ok")
      <4>1. CASE w.asking
        BY <2>4, <2>5, <4>1
      <4>2. CASE ~w.asking
        <5>1. v.asking = w.asking
          BY <1>3, <2>4, <4>2, WorkingsFields
        <5> QED
          BY <2>4, <4>2, <5>1
      <4> QED
        BY <4>1, <4>2
    <3> QED
      BY <1>4, <1>8, <3>1, ServesDevice
  <2>9. Asked(srv.ask[d], x, v.toServer)
    <3>1. /\ None(l, "status_info") => None(x, "status_info")
          /\ One(l, "status_info") => One(x, "status_info")
          /\ None(o, "ok") => None(v.toServer, "ok")
          /\ One(o, "ok") => One(v.toServer, "ok")
      BY <1>6, <1>11, <2>4, <2>6
    <3> QED
      BY <1>4, <3>1 DEF Asked
  <2>10. Informed(v.infos, v.toServer, srv.running[d], x)
    <3>1. v.infos = 0 \/ v.infos > 0
      BY <1>3, <2>3, <2>4
    <3>2. CASE v.infos = 0
      <4>1. v.toServer = o
        BY <2>4, <3>2
      <4> QED
        BY <2>3, <3>2, <4>1 DEF Informed
    <3>3. CASE v.infos > 0
      BY <2>3, <2>4, <2>6, <3>3 DEF Informed
    <3> QED
      BY <3>1, <3>2, <3>3
  <2>11. /\ None(v.toServer, "bop") /\ \A type \in {"status", "status_info"} : None(v.toClient, type)
         /\ Ends(v.toServer, "status", srv.word[d], Raises(v))
         /\ Ends(x, "bop", v.bop, blocked)
         /\ Ends(v.toClient, "bop", k.bop, v.bop)
    BY <1>4, <1>6, <1>11, <2>4, <2>5, <2>6, <2>7
  <2>12. /\ Asked(srv.ask[d], srv'.out[d], v.toServer)
         /\ Informed(v.infos, v.toServer, srv.running[d], srv'.out[d])
         /\ Ends(srv'.out[d], "bop", v.bop, GetStateForConnection(srv, d))
         /\ client' = [client EXCEPT ![d] = k] /\ UNCHANGED <<other, budget>>
    BY <1>1, <1>7, <2>9, <2>10, <2>11, Histories DEF blocked, k
  <2>13. \A f \in Workers : f # d => /\ seen'.queued[f] = seen.queued[f]
                                     /\ seen'.executed[f] = seen.executed[f]
                                     /\ seen'.answered[f] = seen.answered[f]
    BY <1>8
  <2> QED
    BY <1>2, <1>7, <1>8, <2>1, <2>4, <2>8, <2>11, <2>12, <2>13, OneWorker
<1> QED
  BY <1>1, <1>9, <1>10, <1>11


\* A step of centrald or of another device: workers only lose what they sent.
LEMMA ServerStep ==
  ASSUME IInv, UNCHANGED <<client, seen>>,
         budget' \in [commands : Nat, others : Nat, lost : Nat],
         other' \in [Others -> {"idle", "working", "broken", "gone"}],
         dev' \in [Workers -> Workings], srv' \in Servers,
         \A e \in Workers :
           /\ dev'[e].toClient = dev[e].toClient /\ dev'[e].asking = dev[e].asking
           /\ dev'[e].bop = dev[e].bop
           /\ None(dev'[e].toServer, "bop")
           /\ Asked(srv'.ask[e], srv'.out[e], dev'[e].toServer)
           /\ Informed(dev'[e].infos, dev'[e].toServer, srv'.running[e], srv'.out[e])
           /\ Ends(dev'[e].toServer, "status", srv'.word[e], Raises(dev'[e]))
           /\ Ends(srv'.out[e], "bop", dev[e].bop, GetStateForConnection(srv', e)),
         \A e \in Others : OtherHolds(e)'
  PROVE  IInv'
<1>1. TypeOK'
  BY DEF IInv, TypeOK
<1>2. ASSUME NEW e \in Workers
      PROVE  WorkerHolds(e)'
  <2>1. Serves(client[e], dev[e], seen.queued[e], seen.executed[e], seen.answered[e])
    BY Holds
  <2>2. Serves(client[e], dev'[e], seen.queued[e], seen.executed[e], seen.answered[e])
    BY <2>1, ServesDevice
  <2>3. Served(e)' /\ Links(e)'
    BY <2>2, Holds DEF Served, Links
  <2>4. Tokens(e)'
    BY DEF Tokens
  <2>5. Ends(dev[e].toClient, "bop", client[e].bop, dev[e].bop)
    BY Holds
  <2>6. Views(e)'
    BY <2>5 DEF Views
  <2> QED
    BY <2>3, <2>4, <2>6 DEF WorkerHolds
<1> QED
  BY <1>1, <1>2 DEF IInv

LEMMA HandledMeans ==
  ASSUME NEW s, NEW m, NEW d
  PROVE  /\ m.type = "status" => Handled(s, m, d) = SetState(s, d, m.on)
         /\ m.type = "status_info" => Handled(s, m, d) =
              CentraldStatusInfo(s, d, {e \in Devices : e \in Others => other[e] # "gone"})
         /\ m.type = "ok" => Handled(s, m, d) = StatusInfoAnswered(s, d)
BY DEF Handled

\* What the invariant says of one other device.
LEMMA OtherMeans ==
  ASSUME IInv, NEW d \in Others
  PROVE  /\ Asked(srv.ask[d], srv.out[d], srv.in[d])
         /\ \A type \in {"status", "bop", "ok"} : None(srv.out[d], type)
         /\ \A type \in {"bop", "status_info"} : None(srv.in[d], type)
         /\ other[d] \in {"idle", "working"} => Ends(srv.in[d], "status", srv.word[d], other[d] = "working")
         /\ other[d] = "gone" => ~srv.word[d] /\ srv.in[d] = <<>>
BY DEF IInv, OtherHolds

\* The head of the link to centrald is taken away.
LEMMA AskedTail ==
  ASSUME NEW ask, NEW out, NEW in \in Seq(Messages), in # <<>>, Asked(ask, out, in)
  PROVE  /\ Head(in).type # "ok" => Asked(ask, out, Tail(in))
         /\ Head(in).type = "ok" => ask # <<>> /\ None(out, "status_info") /\ None(Tail(in), "ok")
BY NoneTail DEF Asked

LEMMA InformedTail ==
  ASSUME NEW infos, NEW running, NEW out, NEW in \in Seq(Messages), in # <<>>,
         Informed(infos, in, running, out)
  PROVE  /\ Head(in).type # "status_info" => Informed(infos, Tail(in), running, out)
         /\ Head(in).type = "status_info" => /\ infos > 0 /\ running = 0 /\ None(out, "ok")
                                             /\ None(Tail(in), "status_info")
BY NoneTail DEF Informed

LEMMA CentraldReceivesHolds ==
  ASSUME IInv, NEW d \in Workers, CentraldReceives(d)
  PROVE  IInv'
<1> DEFINE w == dev[d]
           l == w.toServer
           m == Head(l)
           x == Tail(l)
           v == [w EXCEPT !.toServer = x]
           r == Handled(srv, m, d)
<1>1. /\ l # <<>> /\ srv' = r /\ dev' = [dev EXCEPT ![d] = v]
      /\ UNCHANGED <<client, other, budget, seen>>
  BY DEF CentraldReceives
<1>2. w \in Workings /\ srv \in Servers /\ l \in Seq(Messages) /\ d \in Devices
  BY Typed, WorkingsFields
<1>3. /\ Asked(srv.ask[d], srv.out[d], l)
      /\ Informed(w.infos, l, srv.running[d], srv.out[d])
      /\ None(l, "bop")
      /\ Ends(l, "status", srv.word[d], Raises(w))
  BY Holds
<1>4. x \in Seq(Messages) /\ m \in Messages /\ m.on \in BOOLEAN
  <2> HIDE DEF l
  <2>1. x \in Seq(Messages) /\ m \in Messages
    BY <1>1, <1>2, TailMeans
  <2> QED
    BY <2>1 DEF Messages
<1> HIDE DEF r
<1>5. /\ m.type # "ok" => Asked(srv.ask[d], srv.out[d], x)
      /\ m.type = "ok" => srv.ask[d] # <<>> /\ None(srv.out[d], "status_info") /\ None(x, "ok")
      /\ m.type # "status_info" => Informed(w.infos, x, srv.running[d], srv.out[d])
      /\ m.type = "status_info" => /\ w.infos > 0 /\ srv.running[d] = 0 /\ None(srv.out[d], "ok")
                                   /\ None(x, "status_info")
      /\ None(x, "bop") /\ m.type # "bop"
      /\ m.type = "status" => Ends(x, "status", m.on, Raises(w))
      /\ m.type # "status" => Ends(x, "status", srv.word[d], Raises(w))
  <2>1. l \in Seq(Messages) /\ l # <<>>
    BY <1>1, <1>2
  <2> HIDE DEF l, w
  <2> QED
    BY <1>3, <2>1, AskedTail, InformedTail, NoneTail, EndsTail
<1>6. m.type \in {"status", "status_info", "ok"}
  BY <1>4, <1>5 DEF Messages
<1> HIDE DEF x, m
<1>7. /\ v \in Workings /\ v.toServer = x /\ v.toClient = w.toClient /\ v.asking = w.asking
      /\ v.bop = w.bop /\ v.infos = w.infos /\ v.work = w.work
  BY <1>2, <1>4 DEF Workings
<1> HIDE DEF v
<1>8. Raises(v) = Raises(w)
  BY <1>7 DEF Raises
<1>9. /\ dev' \in [Workers -> Workings] /\ dev'[d] = v
      /\ \A e \in Workers : e # d => dev'[e] = dev[e]
  BY <1>1, <1>7, Histories
<1>10. /\ budget' \in [commands : Nat, others : Nat, lost : Nat]
       /\ other' \in [Others -> {"idle", "working", "broken", "gone"}] /\ other' = other
       /\ UNCHANGED <<client, seen>>
  BY <1>1 DEF IInv, TypeOK
<1>11. /\ r \in Servers
       /\ Asked(r.ask[d], r.out[d], x)
       /\ Informed(w.infos, x, r.running[d], r.out[d])
       /\ Ends(x, "status", r.word[d], Raises(w))
       /\ \A e \in Workers : e # d =>
            /\ \A in : Asked(srv.ask[e], srv.out[e], in) => Asked(r.ask[e], r.out[e], in)
            /\ \A infos, in : Informed(infos, in, srv.running[e], srv.out[e]) =>
                              Informed(infos, in, r.running[e], r.out[e])
            /\ r.word[e] = srv.word[e]
       /\ \A e \in Workers : \A bop : Ends(srv.out[e], "bop", bop, GetStateForConnection(srv, e)) =>
                                      Ends(r.out[e], "bop", bop, GetStateForConnection(r, e))
       /\ \A e \in Others : /\ \A in : Asked(srv.ask[e], srv.out[e], in) => Asked(r.ask[e], r.out[e], in)
                            /\ \A type \in {"status", "bop", "ok"} :
                                 None(srv.out[e], type) => None(r.out[e], type)
                            /\ r.word[e] = srv.word[e] /\ r.in[e] = srv.in[e]
  <2>1. \A e \in Others : e \in Devices /\ e # d /\ e \notin Workers
    BY Typed
  <2>2. Workers \subseteq Devices
    BY Typed
  <2>3. CASE m.type = "status"
    <3>1. r = SetState(srv, d, m.on)
      BY <2>3, HandledMeans DEF r
    <3>2. /\ Keeps(srv, r)
          /\ r.word[d] = m.on /\ \A e \in Devices : e # d => r.word[e] = srv.word[e]
          /\ r.in = srv.in /\ r.ask = srv.ask
          /\ \A e \in Devices : e \notin Workers => r.out[e] = srv.out[e]
      BY <1>2, <1>4, <3>1, SetStateResult
    <3>3. /\ Asked(srv.ask[d], srv.out[d], x)
          /\ Informed(w.infos, x, srv.running[d], srv.out[d])
          /\ Ends(x, "status", m.on, Raises(w))
      BY <1>5, <2>3
    <3> HIDE DEF w
    <3> QED
      BY <2>1, <2>2, <3>2, <3>3 DEF Keeps
  <2>4. CASE m.type = "status_info"
    <3> DEFINE listed == {e \in Devices : e \in Others => other[e] # "gone"}
    <3>1. r = CentraldStatusInfo(srv, d, listed)
      BY <2>4, HandledMeans DEF r
    <3> HIDE DEF listed
    <3>2. srv.running[d] = 0 /\ None(srv.out[d], "ok") /\ w.infos > 0 /\ None(x, "status_info")
      BY <1>5, <2>4
    <3>3. /\ r \in Servers /\ r.word = srv.word /\ r.in = srv.in
          /\ \A infos, toServer : infos > 0 /\ None(toServer, "status_info") =>
                                  Informed(infos, toServer, r.running[d], r.out[d])
          /\ \A e \in Workers : e # d =>
               \A infos, toServer : Informed(infos, toServer, srv.running[e], srv.out[e]) =>
                                    Informed(infos, toServer, r.running[e], r.out[e])
          /\ \A e \in Workers : \A bop : Ends(srv.out[e], "bop", bop, GetStateForConnection(srv, e)) =>
                                         Ends(r.out[e], "bop", bop, GetStateForConnection(r, e))
          /\ \A e \in Devices : \A in : Asked(srv.ask[e], srv.out[e], in) => Asked(r.ask[e], r.out[e], in)
          /\ \A e \in Others : \A type \in {"status", "bop", "ok"} :
                                 None(srv.out[e], type) => None(r.out[e], type)
      BY <1>2, <3>1, <3>2, CentraldStatusInfoResult, ZenonT(60)
    <3>4. Asked(srv.ask[d], srv.out[d], x) /\ Ends(x, "status", srv.word[d], Raises(w))
      BY <1>5, <2>4
    <3>5. Informed(w.infos, x, r.running[d], r.out[d])
      BY <3>2, <3>3
    <3> HIDE DEF w
    <3> QED
      BY <1>2, <2>1, <2>2, <3>3, <3>4, <3>5
  <2>5. CASE m.type = "ok"
    <3>1. r = StatusInfoAnswered(srv, d)
      BY <2>5, HandledMeans DEF r
    <3>2. srv.ask[d] # <<>> /\ None(srv.out[d], "status_info") /\ None(x, "ok")
      BY <1>5, <2>5
    <3>3. /\ r \in Servers /\ r.word = srv.word /\ r.in = srv.in
          /\ \A e \in Workers :
               /\ \A infos, toServer : Informed(infos, toServer, srv.running[e], srv.out[e]) =>
                                       Informed(infos, toServer, r.running[e], r.out[e])
               /\ \A bop : Ends(srv.out[e], "bop", bop, GetStateForConnection(srv, e)) =>
                           Ends(r.out[e], "bop", bop, GetStateForConnection(r, e))
               /\ e # d => \A in : Asked(srv.ask[e], srv.out[e], in) => Asked(r.ask[e], r.out[e], in)
          /\ \A in : None(in, "ok") => Asked(r.ask[d], r.out[d], in)
          /\ \A e \in Others : e # d => r.ask[e] = srv.ask[e] /\ r.out[e] = srv.out[e]
      BY <1>2, <3>1, <3>2, StatusInfoAnsweredResult
    <3>4. Informed(w.infos, x, srv.running[d], srv.out[d]) /\ Ends(x, "status", srv.word[d], Raises(w))
      BY <1>5, <2>5
    <3> HIDE DEF w
    <3> QED
      BY <2>1, <3>2, <3>3, <3>4
  <2> QED
    BY <1>6, <2>3, <2>4, <2>5
<1>12. ASSUME NEW e \in Workers
       PROVE  /\ dev'[e].toClient = dev[e].toClient /\ dev'[e].asking = dev[e].asking
              /\ dev'[e].bop = dev[e].bop
              /\ None(dev'[e].toServer, "bop")
              /\ Asked(srv'.ask[e], srv'.out[e], dev'[e].toServer)
              /\ Informed(dev'[e].infos, dev'[e].toServer, srv'.running[e], srv'.out[e])
              /\ Ends(dev'[e].toServer, "status", srv'.word[e], Raises(dev'[e]))
              /\ Ends(srv'.out[e], "bop", dev[e].bop, GetStateForConnection(srv', e))
  <2>1. /\ Asked(srv.ask[e], srv.out[e], dev[e].toServer)
        /\ Informed(dev[e].infos, dev[e].toServer, srv.running[e], srv.out[e])
        /\ None(dev[e].toServer, "bop")
        /\ Ends(dev[e].toServer, "status", srv.word[e], Raises(dev[e]))
        /\ Ends(srv.out[e], "bop", dev[e].bop, GetStateForConnection(srv, e))
    BY Holds
  <2>2. CASE e = d
    BY <1>1, <1>5, <1>7, <1>8, <1>9, <1>11, <2>1, <2>2
  <2>3. CASE e # d
    BY <1>1, <1>9, <1>11, <2>1, <2>3
  <2> QED
    BY <2>2, <2>3
<1>13. ASSUME NEW e \in Others
       PROVE  OtherHolds(e)'
  <2>1. /\ Asked(srv'.ask[e], srv'.out[e], srv'.in[e])
        /\ \A type \in {"status", "bop", "ok"} : None(srv'.out[e], type)
        /\ srv'.word[e] = srv.word[e] /\ srv'.in[e] = srv.in[e]
    BY <1>1, <1>11, OtherMeans
  <2> QED
    BY <1>10, <2>1, OtherMeans DEF OtherHolds
<1> HIDE DEF w, l
<1> QED
  BY <1>1, <1>9, <1>10, <1>11, <1>12, <1>13, ServerStep


\* A step of centrald or of another device that leaves the workers alone.
LEMMA OtherStep ==
  ASSUME IInv, UNCHANGED <<client, dev, seen>>,
         budget' \in [commands : Nat, others : Nat, lost : Nat],
         other' \in [Others -> {"idle", "working", "broken", "gone"}], srv' \in Servers,
         \A e \in Workers :
           /\ srv'.word[e] = srv.word[e]
           /\ \A in : Asked(srv.ask[e], srv.out[e], in) => Asked(srv'.ask[e], srv'.out[e], in)
           /\ \A infos, in : Informed(infos, in, srv.running[e], srv.out[e]) =>
                             Informed(infos, in, srv'.running[e], srv'.out[e])
           /\ \A bop : Ends(srv.out[e], "bop", bop, GetStateForConnection(srv, e)) =>
                       Ends(srv'.out[e], "bop", bop, GetStateForConnection(srv', e)),
         \A e \in Others : OtherHolds(e)'
  PROVE  IInv'
<1>1. dev' \in [Workers -> Workings]
  BY Histories
<1>2. ASSUME NEW e \in Workers
      PROVE  /\ dev'[e].toClient = dev[e].toClient /\ dev'[e].asking = dev[e].asking
             /\ dev'[e].bop = dev[e].bop
             /\ None(dev'[e].toServer, "bop")
             /\ Asked(srv'.ask[e], srv'.out[e], dev'[e].toServer)
             /\ Informed(dev'[e].infos, dev'[e].toServer, srv'.running[e], srv'.out[e])
             /\ Ends(dev'[e].toServer, "status", srv'.word[e], Raises(dev'[e]))
             /\ Ends(srv'.out[e], "bop", dev[e].bop, GetStateForConnection(srv', e))
  <2>1. /\ Asked(srv.ask[e], srv.out[e], dev[e].toServer)
        /\ Informed(dev[e].infos, dev[e].toServer, srv.running[e], srv.out[e])
        /\ None(dev[e].toServer, "bop")
        /\ Ends(dev[e].toServer, "status", srv.word[e], Raises(dev[e]))
        /\ Ends(srv.out[e], "bop", dev[e].bop, GetStateForConnection(srv, e))
    BY Holds
  <2> QED
    BY <2>1
<1> QED
  BY <1>1, <1>2, ServerStep

\* Only the link of one other device to centrald changes.
LEMMA SetInResult ==
  ASSUME NEW s \in Servers, NEW d \in Others, NEW x \in Seq(Messages)
  PROVE  LET r == [s EXCEPT !.in[d] = x]
         IN /\ r \in Servers /\ r.word = s.word /\ r.ask = s.ask /\ r.running = s.running /\ r.out = s.out
            /\ r.in[d] = x /\ \A e \in Others : e # d => r.in[e] = s.in[e]
<1> DEFINE o == [s.in EXCEPT ![d] = x]
           r == [s EXCEPT !.in = o]
<1>1. o \in [Others -> Seq(Messages)] /\ o[d] = x /\ \A e \in Others : e # d => o[e] = s.in[e]
  BY ServersFields
<1> HIDE DEF o
<1>2. r \in Servers /\ r.word = s.word /\ r.ask = s.ask /\ r.running = s.running /\ r.out = s.out /\ r.in = o
  BY <1>1 DEF Servers
<1> HIDE DEF r
<1>3. /\ r \in Servers /\ r.word = s.word /\ r.ask = s.ask /\ r.running = s.running /\ r.out = s.out
      /\ r.in[d] = x /\ \A e \in Others : e # d => r.in[e] = s.in[e]
  BY <1>1, <1>2
<1>4. r = [s EXCEPT !.in[d] = x]
  BY DEF r, o
<1> QED
  BY <1>3, <1>4

LEMMA CentraldReceivesOtherHolds ==
  ASSUME IInv, NEW d \in Others, CentraldReceivesOther(d)
  PROVE  IInv'
<1> DEFINE l == srv.in[d]
           m == Head(l)
           x == Tail(l)
           s == [srv EXCEPT !.in[d] = x]
           r == Handled(s, m, d)
<1>1. l # <<>> /\ srv' = r /\ UNCHANGED <<client, dev, other, budget, seen>>
  BY DEF CentraldReceivesOther
<1>2. /\ srv \in Servers /\ l \in Seq(Messages) /\ d \in Devices
      /\ Workers \subseteq Devices
      /\ \A e \in Others : e \in Devices /\ e \notin Workers
      /\ \A e \in Workers : e # d
  BY Typed
<1>3. /\ Asked(srv.ask[d], srv.out[d], l)
      /\ \A type \in {"bop", "status_info"} : None(l, type)
      /\ other[d] \in {"idle", "working"} => Ends(l, "status", srv.word[d], other[d] = "working")
      /\ other[d] # "gone"
  BY <1>1, OtherMeans
<1> HIDE DEF l, r
<1>4. x \in Seq(Messages) /\ m \in Messages /\ m.on \in BOOLEAN
  <2>1. x \in Seq(Messages) /\ m \in Messages
    BY <1>1, <1>2, TailMeans
  <2> QED
    BY <2>1 DEF Messages
<1>5. /\ m.type # "ok" => Asked(srv.ask[d], srv.out[d], x)
      /\ m.type = "ok" => srv.ask[d] # <<>> /\ None(srv.out[d], "status_info") /\ None(x, "ok")
      /\ m.type \notin {"bop", "status_info"} /\ \A type \in {"bop", "status_info"} : None(x, type)
      /\ other[d] \in {"idle", "working"} =>
           /\ m.type = "status" => Ends(x, "status", m.on, other[d] = "working")
           /\ m.type # "status" => Ends(x, "status", srv.word[d], other[d] = "working")
  <2>1. \A type \in {"bop", "status_info"} : m.type # type /\ None(x, type)
    BY <1>1, <1>2, <1>3, NoneTail
  <2>2. /\ m.type # "ok" => Asked(srv.ask[d], srv.out[d], x)
        /\ m.type = "ok" => srv.ask[d] # <<>> /\ None(srv.out[d], "status_info") /\ None(x, "ok")
    BY <1>1, <1>2, <1>3, AskedTail
  <2>3. ASSUME other[d] \in {"idle", "working"}
        PROVE  /\ m.type = "status" => Ends(x, "status", m.on, other[d] = "working")
               /\ m.type # "status" => Ends(x, "status", srv.word[d], other[d] = "working")
    BY <1>1, <1>2, <1>3, <2>3, EndsTail
  <2> QED
    BY <2>1, <2>2, <2>3
<1>6. m.type \in {"status", "ok"}
  BY <1>4, <1>5 DEF Messages
<1> HIDE DEF x, m
<1>7. /\ s \in Servers /\ s.word = srv.word /\ s.ask = srv.ask /\ s.running = srv.running /\ s.out = srv.out
      /\ s.in[d] = x /\ \A e \in Others : e # d => s.in[e] = srv.in[e]
  BY <1>2, <1>4, SetInResult
<1> HIDE DEF s
<1>8. \A e : GetStateForConnection(s, e) = GetStateForConnection(srv, e)
  BY <1>7, SameWord
<1>9. /\ r \in Servers
      /\ \A e \in Workers :
           /\ r.word[e] = srv.word[e]
           /\ \A in : Asked(srv.ask[e], srv.out[e], in) => Asked(r.ask[e], r.out[e], in)
           /\ \A infos, in : Informed(infos, in, srv.running[e], srv.out[e]) =>
                             Informed(infos, in, r.running[e], r.out[e])
           /\ \A bop : Ends(srv.out[e], "bop", bop, GetStateForConnection(srv, e)) =>
                       Ends(r.out[e], "bop", bop, GetStateForConnection(r, e))
      /\ \A e \in Others : e # d => /\ r.ask[e] = srv.ask[e] /\ r.out[e] = srv.out[e]
                                    /\ r.word[e] = srv.word[e] /\ r.in[e] = srv.in[e]
      /\ Asked(r.ask[d], r.out[d], x) /\ r.in[d] = x
      /\ \A type \in {"status", "bop", "ok"} : None(srv.out[d], type) => None(r.out[d], type)
      /\ r.word[d] = IF m.type = "status" THEN m.on ELSE srv.word[d]
  <2>1. CASE m.type = "status"
    <3>1. r = SetState(s, d, m.on)
      BY <2>1, HandledMeans DEF r
    <3>2. /\ Keeps(s, r)
          /\ r.word[d] = m.on /\ \A e \in Devices : e # d => r.word[e] = s.word[e]
          /\ r.in = s.in /\ r.ask = s.ask
          /\ \A e \in Devices : e \notin Workers => r.out[e] = s.out[e]
      BY <1>2, <1>4, <1>7, <3>1, SetStateResult
    <3>3. Asked(srv.ask[d], srv.out[d], x)
      BY <1>5, <2>1
    <3>4. ASSUME NEW e \in Workers
          PROVE  /\ r.word[e] = srv.word[e]
                 /\ \A in : Asked(srv.ask[e], srv.out[e], in) => Asked(r.ask[e], r.out[e], in)
                 /\ \A infos, in : Informed(infos, in, srv.running[e], srv.out[e]) =>
                                   Informed(infos, in, r.running[e], r.out[e])
                 /\ \A bop : Ends(srv.out[e], "bop", bop, GetStateForConnection(srv, e)) =>
                             Ends(r.out[e], "bop", bop, GetStateForConnection(r, e))
      BY <1>2, <1>7, <1>8, <3>2 DEF Keeps
    <3>5. r \in Servers
      BY <3>2 DEF Keeps
    <3> QED
      BY <1>2, <1>7, <2>1, <3>2, <3>3, <3>4, <3>5
  <2>2. CASE m.type = "ok"
    <3>1. r = StatusInfoAnswered(s, d)
      BY <2>2, HandledMeans DEF r
    <3>2. s.ask[d] # <<>> /\ None(s.out[d], "status_info") /\ None(x, "ok")
      BY <1>5, <1>7, <2>2
    <3>3. /\ r \in Servers /\ r.word = s.word /\ r.in = s.in
          /\ \A e \in Workers :
               /\ \A infos, toServer : Informed(infos, toServer, s.running[e], s.out[e]) =>
                                       Informed(infos, toServer, r.running[e], r.out[e])
               /\ \A bop : Ends(s.out[e], "bop", bop, GetStateForConnection(s, e)) =>
                           Ends(r.out[e], "bop", bop, GetStateForConnection(r, e))
               /\ e # d => \A in : Asked(s.ask[e], s.out[e], in) => Asked(r.ask[e], r.out[e], in)
          /\ \A in : None(in, "ok") => Asked(r.ask[d], r.out[d], in)
          /\ \A e \in Others : e # d => r.ask[e] = s.ask[e] /\ r.out[e] = s.out[e]
          /\ \A type \in {"status", "bop", "ok"} : None(s.out[d], type) => None(r.out[d], type)
      BY <1>2, <1>7, <3>1, <3>2, StatusInfoAnsweredResult
    <3>4. m.type # "status"
      BY <2>2
    <3> QED
      BY <1>2, <1>7, <1>8, <3>2, <3>3, <3>4
  <2> QED
    BY <1>6, <2>1, <2>2
<1>10. /\ budget' \in [commands : Nat, others : Nat, lost : Nat]
       /\ other' \in [Others -> {"idle", "working", "broken", "gone"}] /\ other' = other
       /\ UNCHANGED <<client, dev, seen>>
  BY <1>1 DEF IInv, TypeOK
<1>11. ASSUME NEW e \in Others
       PROVE  OtherHolds(e)'
  <2>1. CASE e = d
    <3>1. /\ Asked(srv'.ask[d], srv'.out[d], srv'.in[d])
          /\ \A type \in {"status", "bop", "ok"} : None(srv'.out[d], type)
          /\ \A type \in {"bop", "status_info"} : None(srv'.in[d], type)
      BY <1>1, <1>5, <1>9, OtherMeans
    <3>2. other[d] \in {"idle", "working"} => Ends(srv'.in[d], "status", srv'.word[d], other[d] = "working")
      BY <1>1, <1>5, <1>9
    <3> QED
      BY <1>3, <1>10, <2>1, <3>1, <3>2 DEF OtherHolds
  <2>2. CASE e # d
    BY <1>1, <1>9, <1>10, <2>2, OtherMeans DEF OtherHolds
  <2> QED
    BY <2>1, <2>2
<1> QED
  BY <1>1, <1>9, <1>10, <1>11, OtherStep

\* Another device starts or stops to block and says so.
LEMMA OtherReports ==
  ASSUME IInv, NEW d \in Others, other[d] \in {"idle", "working"}, NEW on \in BOOLEAN,
         other' = [other EXCEPT ![d] = IF on THEN "working" ELSE "idle"],
         srv' = [srv EXCEPT !.in[d] = Append(@, Status(on))],
         budget' \in [commands : Nat, others : Nat, lost : Nat],
         UNCHANGED <<client, dev, seen>>
  PROVE  IInv'
<1> DEFINE l == srv.in[d]
           m == Status(on)
           x == Append(l, m)
<1>1. l \in Seq(Messages) /\ m \in Messages /\ m.type = "status" /\ m.on = on /\ srv \in Servers
  BY Typed, MessagesMade
<1>2. srv' = [srv EXCEPT !.in[d] = x]
  OBVIOUS
<1> HIDE DEF l, m
<1>3. /\ x \in Seq(Messages)
      /\ \A type \in {"ok", "bop", "status_info"} : /\ None(l, type) => None(x, type)
                                                    /\ One(l, type) => One(x, type)
      /\ \A y : Ends(x, "status", y, on)
  BY <1>1, AppendMeans, NoneAppend, EndsAppend
<1> HIDE DEF x
<1>4. /\ srv' \in Servers /\ srv'.word = srv.word /\ srv'.ask = srv.ask /\ srv'.running = srv.running
      /\ srv'.out = srv.out /\ srv'.in[d] = x /\ \A e \in Others : e # d => srv'.in[e] = srv.in[e]
  <2> DEFINE z == [srv EXCEPT !.in[d] = x]
  <2>1. /\ z \in Servers /\ z.word = srv.word /\ z.ask = srv.ask /\ z.running = srv.running
        /\ z.out = srv.out /\ z.in[d] = x /\ \A e \in Others : e # d => z.in[e] = srv.in[e]
    <3>1. srv \in Servers /\ x \in Seq(Messages)
      BY <1>1, <1>3
    <3>2. LET r == [srv EXCEPT !.in[d] = x]
          IN /\ r \in Servers /\ r.word = srv.word /\ r.ask = srv.ask /\ r.running = srv.running
             /\ r.out = srv.out /\ r.in[d] = x /\ \A e \in Others : e # d => r.in[e] = srv.in[e]
      BY <3>1, SetInResult
    <3>3. z = [srv EXCEPT !.in[d] = x]
      OBVIOUS
    <3> HIDE DEF z
    <3> QED
      BY <3>2, <3>3
  <2>2. srv' = z
    BY <1>2
  <2> HIDE DEF z
  <2> QED
    BY <2>1, <2>2
<1>5. \A e : GetStateForConnection(srv', e) = GetStateForConnection(srv, e)
  BY <1>4, SameWord, ZenonT(60)
<1>6. /\ other' \in [Others -> {"idle", "working", "broken", "gone"}]
      /\ other'[d] = (IF on THEN "working" ELSE "idle")
      /\ \A e \in Others : e # d => other'[e] = other[e]
  BY DEF IInv, TypeOK
<1>7. ASSUME NEW e \in Others
      PROVE  OtherHolds(e)'
  <2>1. CASE e = d
    <3>1. Asked(srv.ask[d], srv.out[d], x)
      BY <1>3, OtherMeans DEF Asked, l
    <3>2. \A type \in {"bop", "status_info"} : None(x, type)
      BY <1>3, OtherMeans DEF l
    <3>3. other'[d] # "gone" /\ (other'[d] = "working") = on
      BY <1>6
    <3> QED
      BY <1>3, <1>4, <2>1, <3>1, <3>2, <3>3, OtherMeans DEF OtherHolds
  <2>2. CASE e # d
    BY <1>4, <1>6, <2>2, OtherMeans DEF OtherHolds
  <2> QED
    BY <2>1, <2>2
<1> QED
  BY <1>4, <1>5, <1>6, <1>7, OtherStep

LEMMA OtherAnswersHolds ==
  ASSUME IInv, NEW d \in Others, OtherAnswers(d)
  PROVE  IInv'
<1> DEFINE l == srv.in[d]
           o == srv.out[d]
           m == Plain("ok")
           x == Append(l, m)
           y == Tail(o)
           s == [srv EXCEPT !.in[d] = x]
<1>1. /\ other[d] \in {"idle", "working"} /\ o # <<>>
      /\ srv' = [srv EXCEPT !.out[d] = y, !.in[d] = x]
      /\ UNCHANGED <<client, dev, other, budget, seen>>
  BY DEF OtherAnswers
<1>2. /\ l \in Seq(Messages) /\ o \in Seq(Messages) /\ m \in Messages /\ m.type = "ok" /\ srv \in Servers
      /\ d \in Devices /\ \A e \in Workers : e # d /\ e \in Devices
      /\ \A e \in Others : e \in Devices
  BY Typed, MessagesMade
<1>3. /\ Asked(srv.ask[d], o, l)
      /\ \A type \in {"status", "bop", "ok"} : None(o, type)
      /\ \A type \in {"bop", "status_info"} : None(l, type)
      /\ Ends(l, "status", srv.word[d], other[d] = "working")
      /\ other[d] # "gone"
  BY <1>1, OtherMeans
<1> HIDE DEF l, m, o
<1>4. /\ y \in Seq(Messages)
      /\ \A type \in {"status", "bop", "ok"} : None(y, type) /\ Head(o).type # type
      /\ One(o, "status_info") /\ Head(o).type = "status_info" => None(y, "status_info")
      /\ Head(o) \in Messages
      /\ None(o, "status_info") => Head(o).type # "status_info"
  BY <1>1, <1>2, <1>3, NoneTail, TailMeans
<1>5. /\ Head(o).type = "status_info"
  BY <1>4 DEF Messages
<1>6. srv.ask[d] # <<>> /\ None(y, "status_info") /\ None(l, "ok")
  BY <1>3, <1>4, <1>5 DEF Asked
<1>7. /\ x \in Seq(Messages) /\ One(x, "ok")
      /\ \A type \in {"bop", "status_info"} : None(x, type)
      /\ Ends(x, "status", srv.word[d], other[d] = "working")
  BY <1>2, <1>3, <1>6, AppendMeans, NoneAppend, EndsAppend
<1> HIDE DEF x, y
<1>8. /\ srv' \in Servers /\ srv'.word = srv.word /\ srv'.ask = srv.ask /\ srv'.running = srv.running
      /\ srv'.in[d] = x /\ \A e \in Others : e # d => srv'.in[e] = srv.in[e]
      /\ srv'.out[d] = y /\ \A e \in Devices : e # d => srv'.out[e] = srv.out[e]
  <2> DEFINE i == [srv.in EXCEPT ![d] = x]
             u == [srv.out EXCEPT ![d] = y]
  <2>1. srv' = [srv EXCEPT !.out = u, !.in = i]
    BY <1>1
  <2>2. /\ i \in [Others -> Seq(Messages)] /\ i[d] = x /\ \A e \in Others : e # d => i[e] = srv.in[e]
        /\ u \in [Devices -> Seq(Messages)] /\ u[d] = y /\ \A e \in Devices : e # d => u[e] = srv.out[e]
    BY <1>2, <1>4, <1>7, ServersFields
  <2> HIDE DEF i, u
  <2>3. /\ srv' \in Servers /\ srv'.word = srv.word /\ srv'.ask = srv.ask /\ srv'.running = srv.running
        /\ srv'.in = i /\ srv'.out = u
    BY <1>2, <2>1, <2>2 DEF Servers
  <2> QED
    BY <2>2, <2>3
<1>9. \A e : GetStateForConnection(srv', e) = GetStateForConnection(srv, e)
  BY <1>8, SameWord
<1>10. /\ other' \in [Others -> {"idle", "working", "broken", "gone"}]
       /\ budget' \in [commands : Nat, others : Nat, lost : Nat] /\ other' = other
       /\ UNCHANGED <<client, dev, seen>>
  BY <1>1 DEF IInv, TypeOK
<1>11. ASSUME NEW e \in Others
       PROVE  OtherHolds(e)'
  <2>1. CASE e = d
    <3>1. Asked(srv.ask[d], y, x)
      BY <1>6, <1>7 DEF Asked
    <3> QED
      BY <1>3, <1>4, <1>7, <1>8, <1>10, <2>1, <3>1 DEF OtherHolds
  <2>2. CASE e # d
    BY <1>2, <1>8, <1>10, <2>2, OtherMeans DEF OtherHolds
  <2> QED
    BY <2>1, <2>2
<1> QED
  BY <1>2, <1>8, <1>9, <1>10, <1>11, OtherStep

LEMMA OtherBreaksHolds ==
  ASSUME IInv, NEW d \in Others, OtherBreaks(d)
  PROVE  IInv'
<1>1. /\ other' = [other EXCEPT ![d] = "broken"] /\ budget.lost > 0
      /\ budget' = [budget EXCEPT !.lost = @ - 1] /\ UNCHANGED <<client, dev, srv, seen>>
  BY DEF OtherBreaks
<1>2. budget' \in [commands : Nat, others : Nat, lost : Nat]
  BY <1>1 DEF IInv, TypeOK
<1>3. /\ other' \in [Others -> {"idle", "working", "broken", "gone"}] /\ other'[d] = "broken"
      /\ \A e \in Others : e # d => other'[e] = other[e]
  BY <1>1 DEF IInv, TypeOK
<1>4. \A e \in Others : OtherHolds(e)'
  BY <1>1, <1>3, OtherMeans DEF OtherHolds
<1>5. srv' = srv /\ srv \in Servers
  BY <1>1, Typed
<1> QED
  BY <1>1, <1>2, <1>3, <1>4, <1>5, OtherStep

LEMMA ErasedHolds ==
  ASSUME IInv, NEW d \in Others, Erased(d)
  PROVE  IInv'
<1>1. /\ other' = [other EXCEPT ![d] = "gone"] /\ srv' = ConnectionRemoved(srv, d)
      /\ UNCHANGED <<client, dev, budget, seen>>
  BY DEF Erased
<1>2. /\ Keeps(srv, srv')
      /\ ~srv'.word[d] /\ \A e \in Devices : e # d => srv'.word[e] = srv.word[e]
      /\ srv'.ask[d] = <<>> /\ srv'.out[d] = <<>> /\ srv'.in[d] = <<>>
      /\ \A e \in Others : e # d => /\ srv'.ask[e] = srv.ask[e] /\ srv'.out[e] = srv.out[e]
                                    /\ srv'.in[e] = srv.in[e]
  BY <1>1, Typed, ConnectionRemovedResult
<1>3. /\ Workers \subseteq Devices /\ \A e \in Workers : e # d
      /\ \A e \in Others : e \in Devices
  BY Typed
<1>4. /\ other' \in [Others -> {"idle", "working", "broken", "gone"}] /\ other'[d] = "gone"
      /\ \A e \in Others : e # d => other'[e] = other[e]
      /\ budget' \in [commands : Nat, others : Nat, lost : Nat]
  BY <1>1 DEF IInv, TypeOK
<1>5. \A type : None(<<>>, type)
  BY DEF None
<1>6. ASSUME NEW e \in Others
      PROVE  OtherHolds(e)'
  <2>1. CASE e = d
    BY <1>2, <1>4, <1>5, <2>1 DEF OtherHolds, Asked
  <2>2. CASE e # d
    BY <1>2, <1>3, <1>4, <2>2, OtherMeans DEF OtherHolds
  <2> QED
    BY <2>1, <2>2
<1> QED
  BY <1>1, <1>2, <1>3, <1>4, <1>6, OtherStep DEF Keeps

LEMMA StepHolds ==
  ASSUME IInv, [Next]_vars
  PROVE  IInv'
<1>1. CASE UNCHANGED vars
  BY <1>1 DEF vars, IInv, TypeOK, WorkerHolds, Served, Tokens, Links, Views, OtherHolds
<1>2. ASSUME NEW d \in Workers, Issue(d)
      PROVE  IInv'
  BY <1>2, IssueHolds
<1>3. ASSUME NEW d \in Workers, ClientReceives(d)
      PROVE  IInv'
  BY <1>3, ClientReceivesHolds
<1>4. ASSUME NEW d \in Workers, DeviceReceivesCommand(d)
      PROVE  IInv'
  BY <1>4, DeviceReceivesCommandHolds
<1>5. ASSUME NEW d \in Workers, DeviceReceives(d)
      PROVE  IInv'
  BY <1>5, DeviceReceivesHolds
<1>6. ASSUME NEW d \in Workers, WorkEnds(d)
      PROVE  IInv'
  BY <1>6, WorkEndsHolds
<1>7. ASSUME NEW d \in Workers, CentraldReceives(d)
      PROVE  IInv'
  BY <1>7, CentraldReceivesHolds
<1>8. ASSUME NEW d \in Others, CentraldReceivesOther(d)
      PROVE  IInv'
  BY <1>8, CentraldReceivesOtherHolds
<1>9. ASSUME NEW d \in Others, OtherAnswers(d)
      PROVE  IInv'
  BY <1>9, OtherAnswersHolds
<1>10. ASSUME NEW d \in Others, OtherStarts(d)
       PROVE  IInv'
  <2>1. budget' \in [commands : Nat, others : Nat, lost : Nat]
    <3> DEFINE n == budget.others - 1
    <3>1. /\ budget \in [commands : Nat, others : Nat, lost : Nat] /\ budget.others > 0
          /\ budget' = [budget EXCEPT !.others = n]
      BY <1>10 DEF OtherStarts, IInv, TypeOK
    <3>2. n \in Nat
      BY <3>1
    <3> HIDE DEF n
    <3> QED
      BY <3>1, <3>2
  <2>2. /\ other[d] \in {"idle", "working"} /\ UNCHANGED <<client, dev, seen>>
        /\ other' = [other EXCEPT ![d] = IF TRUE THEN "working" ELSE "idle"]
        /\ srv' = [srv EXCEPT !.in[d] = Append(@, Status(TRUE))]
    BY <1>10 DEF OtherStarts
  <2> QED
    BY <2>1, <2>2, OtherReports
<1>11. ASSUME NEW d \in Others, OtherStops(d)
       PROVE  IInv'
  <2>1. budget' \in [commands : Nat, others : Nat, lost : Nat]
    BY <1>11 DEF OtherStops, IInv, TypeOK
  <2>2. /\ other[d] \in {"idle", "working"} /\ UNCHANGED <<client, dev, seen>>
        /\ other' = [other EXCEPT ![d] = IF FALSE THEN "working" ELSE "idle"]
        /\ srv' = [srv EXCEPT !.in[d] = Append(@, Status(FALSE))]
    BY <1>11 DEF OtherStops
  <2> QED
    BY <2>1, <2>2, OtherReports
<1>12. ASSUME NEW d \in Others, OtherBreaks(d)
       PROVE  IInv'
  BY <1>12, OtherBreaksHolds
<1>13. ASSUME NEW d \in Others, Erased(d)
       PROVE  IInv'
  BY <1>13, ErasedHolds
<1> QED
  BY <1>1, <1>2, <1>3, <1>4, <1>5, <1>6, <1>7, <1>8, <1>9, <1>10, <1>11, <1>12, <1>13 DEF Next, System

LEMMA Inductive == Spec => []IInv
<1>1. Init => IInv
  BY InitHolds
<1>2. IInv /\ [Next]_vars => IInv'
  BY StepHolds
<1> QED
  BY <1>1, <1>2, PTL DEF Spec


-----------------------------------------------------------------------------
(* The command queue refines CommandOrder.                                 *)

LEMMA OrderStep ==
  ASSUME IInv, [Next]_vars
  PROVE  [Order!Next]_Order!vars
<1> DEFINE Same == seen'.queued = seen.queued /\ seen'.executed = seen.executed
                   /\ seen'.answered = seen.answered
<1>1. Same => UNCHANGED Order!vars
  BY DEF Order!vars
<1>2. CASE UNCHANGED vars
  BY <1>1, <1>2 DEF vars
<1>3. ASSUME NEW d \in Workers, Issue(d)
      PROVE  Order!Next
  <2>1. seen' = [seen EXCEPT !.queued[d] = @ + 1]
    BY <1>3 DEF Issue
  <2>2. /\ seen'.queued = [seen.queued EXCEPT ![d] = @ + 1]
        /\ seen'.executed = seen.executed /\ seen'.answered = seen.answered
    BY <2>1, Histories
  <2>3. Order!Queue(d)
    BY <2>2 DEF Order!Queue
  <2> QED
    BY <2>3 DEF Order!Next
<1>4. ASSUME NEW d \in Workers, ClientReceives(d)
      PROVE  [Order!Next]_Order!vars
  <2> DEFINE k == client[d]
             w == dev[d]
             a == seen.answered[d]
             e == seen.executed[d]
             q == seen.queued[d]
             i == k.run.id
             t == Head(w.toClient).type
             v == [w EXCEPT !.toClient = Tail(w.toClient)]
  <2>1. /\ w.toClient # <<>>
        /\ seen' = IF t = "ok" /\ i > 0 THEN [seen EXCEPT !.answered[d] = i] ELSE seen
    BY <1>4 DEF ClientReceives
  <2>2. /\ k \in Connections /\ w \in Workings /\ w.toClient \in Seq(Messages)
        /\ q \in Nat /\ e \in Nat /\ a \in Nat /\ Serves(k, w, q, e, a)
    BY Typed, WorkingsFields, Holds
  <2>3. v.toClient = Tail(w.toClient) /\ v.asking = w.asking
    BY <2>2 DEF Workings
  <2>4. CASE t = "ok" /\ i > 0
    <3>1. a < e /\ i = a + 1
      <4>1. Head(w.toClient).type = "ok"
        BY <2>4
      <4> HIDE DEF k, w, q, e, a, v
      <4> QED
        BY <2>1, <2>2, <2>3, <2>4, <4>1, ServesAnswer
    <3>2. seen' = [seen EXCEPT !.answered[d] = i]
      BY <2>1, <2>4
    <3>3. /\ seen'.answered = [seen.answered EXCEPT ![d] = i]
          /\ seen'.queued = seen.queued /\ seen'.executed = seen.executed
      BY <3>2, Histories
    <3>4. seen'.answered = [seen.answered EXCEPT ![d] = @ + 1]
      BY <3>1, <3>3
    <3>5. Order!Answer(d)
      BY <3>1, <3>3, <3>4 DEF Order!Answer
    <3> QED
      BY <3>5 DEF Order!Next
  <2>5. CASE ~(t = "ok" /\ i > 0)
    <3>1. seen' = seen
      BY <2>1, <2>5
    <3> QED
      BY <1>1, <3>1
  <2> QED
    BY <2>4, <2>5
<1>5. ASSUME NEW d \in Workers, DeviceReceivesCommand(d)
      PROVE  [Order!Next]_Order!vars
  <2> DEFINE k == client[d]
             w == dev[d]
             a == seen.answered[d]
             e == seen.executed[d]
             q == seen.queued[d]
             id == Head(k.out)
  <2>1. /\ k.out # <<>>
        /\ id = 0 => seen' = seen
        /\ id # 0 => seen' = [seen EXCEPT !.executed[d] = id]
    BY <1>5 DEF DeviceReceivesCommand
  <2>2. /\ k \in Connections /\ w \in Workings /\ w.toClient \in Seq(Messages)
        /\ q \in Nat /\ e \in Nat /\ a \in Nat /\ Serves(k, w, q, e, a)
    BY Typed, WorkingsFields, Holds
  <2>3. id \in Nat /\ (id > 0 => a = e /\ e < q /\ id = e + 1)
    <3> HIDE DEF k, w, q, e, a
    <3> QED
      BY <2>1, <2>2, ServesCommand
  <2>4. CASE id = 0
    BY <1>1, <2>1, <2>4
  <2>5. CASE id # 0
    <3>1. a = e /\ e < q /\ id = e + 1
      BY <2>3, <2>5
    <3>2. /\ seen'.executed = [seen.executed EXCEPT ![d] = id]
          /\ seen'.queued = seen.queued /\ seen'.answered = seen.answered
      BY <2>1, <2>5, Histories
    <3>3. seen'.executed = [seen.executed EXCEPT ![d] = @ + 1]
      BY <3>1, <3>2
    <3>4. Order!Execute(d)
      BY <3>1, <3>2, <3>3 DEF Order!Execute
    <3> QED
      BY <3>4 DEF Order!Next
  <2> QED
    BY <2>4, <2>5
<1>6. ASSUME NEW d \in Workers, DeviceReceives(d)
      PROVE  Same
  <2>1. \/ seen' = seen
        \/ seen' = [seen EXCEPT !.early = @ \/ Early(dev[d], Head(srv.out[d]))]
    BY <1>6 DEF DeviceReceives
  <2> QED
    BY <2>1, Histories
<1>7. ASSUME NEW d \in Workers, WorkEnds(d) \/ CentraldReceives(d)
      PROVE  Same
  BY <1>7 DEF WorkEnds, CentraldReceives
<1>8. ASSUME NEW d \in Others,
             CentraldReceivesOther(d) \/ OtherAnswers(d) \/ OtherStarts(d) \/ OtherStops(d)
             \/ OtherBreaks(d) \/ Erased(d)
      PROVE  Same
  BY <1>8 DEF CentraldReceivesOther, OtherAnswers, OtherStarts, OtherStops, OtherBreaks, Erased
<1> HIDE DEF Same
<1> QED
  BY <1>1, <1>2, <1>3, <1>4, <1>5, <1>6, <1>7, <1>8 DEF Next, System

-----------------------------------------------------------------------------
(* Theorems.                                                               *)

(* Whatever the order of the links, every queue, list and message is what  *)
(* the handlers expect: no head or tail is taken of an empty queue         *)
(* (Connection::sendNextCommand, Block::statusInfo), and no command is in  *)
(* a state of progress without a meaning.                                  *)
THEOREM TypeCorrect == Spec => []TypeOK
<1>1. IInv => TypeOK
  BY DEF IInv
<1> QED
  BY <1>1, Inductive, PTL

(* With a helper command put in front of every command that waits, with    *)
(* blocks that come and go and devices that vanish, a device still         *)
(* executes the commands one at a time, in the order they were queued, and *)
(* every one is answered once before the next (Connection::queCommand,     *)
(* sendCommand, sendNextCommand).                                          *)
THEOREM QueueRefinesOrder == Spec => QueueKeepsOrder
<1>1. Init => Order!Init
  BY DEF Init, Order!Init
<1>2. IInv /\ [Next]_vars => [Order!Next]_Order!vars
  BY OrderStep
<1> QED
  BY <1>1, <1>2, Inductive, PTL DEF Spec, QueueKeepsOrder, Order!Spec

(* When the links are empty everyone knows who blocks whom, also after a   *)
(* device that blocked has vanished (Centrald::bopMaskChanged,             *)
(* connectionRemoved, Device::setFullBopState).                            *)
THEOREM BlocksKnown == Spec => []ViewsSettle
<1>1. IInv => ViewsSettle
  <2> SUFFICES ASSUME IInv, Quiet, NEW d \in Workers
               PROVE  /\ dev[d].bop = \E e \in Devices : Blocks(e, d) /\ Working(e)
                      /\ client[d].bop = \E e \in Devices : Blocks(e, d) /\ Working(e)
    BY DEF ViewsSettle
  <2> DEFINE blocked == GetStateForConnection(srv, d)
  <2>1. \A e \in Workers : /\ dev[e].toClient = <<>> /\ dev[e].toServer = <<>>
                           /\ srv.out[e] = <<>>
    BY Typed DEF Quiet
  <2>2. Ends(<<>>, "bop", dev[d].bop, blocked) /\ Ends(<<>>, "bop", client[d].bop, dev[d].bop)
    BY <2>1, Holds
  <2>3. dev[d].bop = blocked /\ client[d].bop = blocked
    BY <2>2, EndsEmpty
  <2>4. ASSUME NEW e \in Devices
        PROVE  srv.word[e] = Working(e)
    <3>1. CASE e \in Workers
      <4>1. Ends(<<>>, "status", srv.word[e], Raises(dev[e]))
        BY <2>1, <3>1, Holds
      <4>2. e \notin Others
        BY <3>1, Typed
      <4> QED
        BY <4>1, <4>2, EndsEmpty DEF Working
    <3>2. CASE e \in Others
      <4>1. srv.in[e] = <<>> /\ other[e] \in {"idle", "working", "gone"}
        BY <3>2, Typed DEF Quiet
      <4>2. CASE other[e] = "gone"
        <5>1. srv.word[e] = FALSE
          BY <3>2, <4>2, OtherMeans, Typed
        <5>2. Working(e) = FALSE
          BY <3>2, <4>2 DEF Working
        <5> QED
          BY <5>1, <5>2
      <4>3. CASE other[e] \in {"idle", "working"}
        <5>1. Ends(<<>>, "status", srv.word[e], other[e] = "working")
          BY <3>2, <4>1, <4>3, OtherMeans
        <5>2. srv.word[e] = (other[e] = "working")
          BY <5>1, EndsEmpty
        <5> QED
          BY <3>2, <5>2 DEF Working
      <4> QED
        BY <4>1, <4>2, <4>3
    <3> QED
      BY <3>1, <3>2 DEF Devices
  <2>5. blocked = \E e \in Devices : Blocks(e, d) /\ Working(e)
    BY <2>4 DEF GetStateForConnection
  <2> QED
    BY <2>3, <2>5
<1> QED
  BY <1>1, Inductive, PTL

==============================================================================
