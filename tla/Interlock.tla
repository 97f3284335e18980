------------------------------- MODULE Interlock -------------------------------
(***************************************************************************)
(* The interlock of the observatory: a client sends exposures to cameras   *)
(* and moves to the mount, each held back by a blocking mask.  Before such *)
(* a command goes out the client asks the device for its state             *)
(* (device_status); the device asks centrald (status_info), centrald asks  *)
(* every other device, and the answers come back the same way.  Links are  *)
(* FIFO in each direction, and nothing orders one link with another.       *)
(***************************************************************************)
EXTENDS Integers, Sequences, SequencesExt

CONSTANTS
  Mount,           \* raises BOP_EXPOSURE while it moves; a move waits for BOP_TEL_MOVE
  Cameras,         \* raise BOP_TEL_MOVE while they expose; expose waits for BOP_EXPOSURE
  Others,          \* devices that raise both and take no commands here (a roof)
  MaxCommands,     \* bound on the commands the client queues
  MaxOther,        \* bound on the changes of state of the others
  MaxLost          \* bound on the connections lost

ASSUME DevicesAssumption ==
  Mount \notin Cameras /\ Mount \notin Others /\ Cameras \cap Others = {}
ASSUME BoundsAssumption == MaxCommands \in Nat /\ MaxOther \in Nat /\ MaxLost \in Nat

Workers == {Mount} \cup Cameras
Devices == Workers \cup Others

VARIABLES
  client,    \* the client's connection to every worker
  dev,       \* the workers
  other,     \* the others
  srv,       \* centrald
  budget,    \* what is left of the bounds
  seen       \* history: commands executed and answered, an answer that came too early

vars == <<client, dev, other, srv, budget, seen>>

\* id 0 is device_status; progress is getStatusCallProgress ()
Commands == [id : Nat, progress : {"none", "not_called", "wait", "run", "return"}]
NoCommand == [id |-> 0, progress |-> "none"]
DeviceStatus == [id |-> 0, progress |-> "return"]

\* reply: history, a blocking state that centrald sends as the answer to status_info
Messages == [type : {"status", "status_info", "bop", "ok"}, on : BOOLEAN, reply : BOOLEAN]
Plain(type) == [type |-> type, on |-> FALSE, reply |-> FALSE]
Status(on) == [type |-> "status", on |-> on, reply |-> FALSE]
Bop(on, reply) == [type |-> "bop", on |-> on, reply |-> reply]

Connections == [que : Seq(Commands), run : Commands, bop : BOOLEAN,
                out : Seq(Nat)]              \* commands on their way to the device

Workings == [work : {"idle", "moving", "exposing", "reading"},
             waits : Nat,                    \* que_exp_num
             bop : BOOLEAN,                  \* fullBopState has the bit of the mask
             asking : BOOLEAN,               \* deviceStatusCommand
             infos : Nat,                    \* status_info without an answer of centrald
             toClient : Seq(Messages), toServer : Seq(Messages)]

Servers == [word : [Devices -> BOOLEAN],      \* the status word has a blocking bit
            ask : [Devices -> Seq(Workers)],  \* status_info queued, by originator
            running : [Workers -> Nat],       \* statusCommandRunning
            out : [Devices -> Seq(Messages)],
            in : [Others -> Seq(Messages)]]   \* what the others have sent

TypeOK ==
  /\ client \in [Workers -> Connections]
  /\ dev \in [Workers -> Workings]
  /\ other \in [Others -> {"idle", "working", "broken", "gone"}]
  /\ srv \in Servers
  /\ budget \in [commands : Nat, others : Nat, lost : Nat]
  /\ seen \in [queued : [Workers -> Nat], executed : [Workers -> Nat],
               answered : [Workers -> Nat], early : BOOLEAN]

-----------------------------------------------------------------------------
(* The client: the command queue of one connection.                        *)

SendCommand(k) ==
  CASE k.run.progress = "not_called" ->
         [k EXCEPT !.que = <<[k.run EXCEPT !.progress = "wait"]>> \o @,
                   !.run = DeviceStatus, !.out = Append(@, 0)]
    [] k.run.progress \in {"wait", "run"} /\ k.bop -> [k EXCEPT !.run.progress = "run"]
    [] k.run.progress \in {"wait", "run"} /\ ~k.bop ->
         [k EXCEPT !.run.progress = "return", !.out = Append(@, k.run.id)]
    [] OTHER -> k

SendNextCommand(k) ==
  IF k.que = <<>> THEN [k EXCEPT !.run = NoCommand]
  ELSE SendCommand([k EXCEPT !.run = Head(k.que), !.que = Tail(@)])

\* mutant: a new command goes in front of the others, as queSend () puts it
QueCommandFirst(k, id) ==
  LET command == [id |-> id, progress |-> "not_called"]
  IN IF k.run # NoCommand THEN [k EXCEPT !.que = <<command>> \o @]
     ELSE SendCommand([k EXCEPT !.run = command])

QueCommand(k, id) ==
  LET command == [id |-> id, progress |-> "not_called"]
  IN IF k.run # NoCommand THEN [k EXCEPT !.que = Append(@, command)]
     ELSE SendCommand([k EXCEPT !.run = command])

\* mutant: the command that waits is not looked at again
SetBopStateStores(k, on) == [k EXCEPT !.bop = on]

SetBopState(k, on) ==
  IF k.run.progress = "run" THEN SendCommand([k EXCEPT !.bop = on]) ELSE [k EXCEPT !.bop = on]

-----------------------------------------------------------------------------
(* A worker: Device and what Camera and Telescope add.                     *)

Raises(w) == w.work \in {"moving", "exposing"}

ToClient(w, messages) == [w EXCEPT !.toClient = @ \o messages]
ToServer(w, messages) == [w EXCEPT !.toServer = @ \o messages]

\* maskState (); centrald looks at the blocking bits of the word only
Becomes(w, work) ==
  LET b == [w EXCEPT !.work = work]
  IN IF Raises(b) = Raises(w) THEN b ELSE ToServer(b, <<Status(Raises(b))>>)

\* the exposure that waits starts when nothing blocks it
StartWaiting(w) ==
  IF w.waits > 0 /\ ~w.bop /\ w.work = "idle"
  THEN Becomes([w EXCEPT !.waits = @ - 1], "exposing")
  ELSE w

\* mutant: the count is not tested
DecUnchecked(n) == n - 1

Dec(n) == IF n > 0 THEN n - 1 ELSE 0

\* expose: a blocked exposure replaces the one that waits already
Expose(w) ==
  CASE w.work # "idle" -> [w EXCEPT !.waits = @ + 1]
    [] w.work = "idle" /\ w.bop -> [w EXCEPT !.waits = Dec(@) + 1]
    [] w.work = "idle" /\ ~w.bop -> Becomes([w EXCEPT !.waits = Dec(@)], "exposing")

QueDeviceStatusCommand(w) ==
  [(IF w.infos = 0 THEN ToServer(w, <<Plain("status_info")>>) ELSE w)
   EXCEPT !.asking = TRUE, !.infos = @ + 1]

EndDeviceStatusCommand(w) ==
  IF w.asking THEN [ToClient(w, <<Plain("ok")>>) EXCEPT !.asking = FALSE] ELSE w

SetFullBopState(w, on) ==
  StartWaiting([EndDeviceStatusCommand(ToClient(w, <<Bop(on, FALSE)>>)) EXCEPT !.bop = on])

\* the answer of centrald to status_info, and the next one that waits for it
StatusInfoReturns(w) ==
  LET e == [EndDeviceStatusCommand(w) EXCEPT !.infos = @ - 1]
  IN IF e.infos > 0 THEN ToServer(e, <<Plain("status_info")>>) ELSE e

\* the status in the answer is the one centrald has: every change was sent when it came
StatusInfo(w) == ToServer(w, <<Plain("ok")>>)

-----------------------------------------------------------------------------
(* Centrald.  A device is blocked by the bits of all others (block_by is   *)
(* empty); a mount does not block a mount nor a camera a camera.           *)

Blocks(e, d) == e \in Others \/ (e = Mount /\ d \in Cameras) \/ (e \in Cameras /\ d = Mount)

GetStateForConnection(s, d) == \E e \in Devices : Blocks(e, d) /\ s.word[e]

Send(s, d, messages) == [s EXCEPT !.out[d] = @ \o messages]

BopMaskChanged(s) ==
  [s EXCEPT !.out = [d \in Devices |->
     IF d \in Workers THEN Append(@[d], Bop(GetStateForConnection(s, d), FALSE)) ELSE @[d]]]

SetState(s, d, on) ==
  IF s.word[d] = on THEN s ELSE BopMaskChanged([s EXCEPT !.word[d] = on])

\* status_info of d goes to every device whose connection is in the list
CentraldStatusInfo(s, d, listed) ==
  LET asked == listed \ {d}
  IN IF asked = {} THEN Send(s, d, <<Plain("ok")>>)
     ELSE [s EXCEPT !.running[d] = @ + 1,
                    !.ask = [e \in Devices |-> IF e \in asked THEN Append(@[e], d) ELSE @[e]],
                    !.out = [e \in Devices |->
                       IF e \in asked /\ s.ask[e] = <<>> THEN Append(@[e], Plain("status_info"))
                       ELSE @[e]]]

Pending(s, d, exclude) == \E e \in Devices \ exclude : d \in ToSet(s.ask[e])

\* mutant: the first device that answers is enough
UpdateStatusFirst(s, d, exclude) ==
  IF s.running[d] = 0 THEN s
  ELSE [Send(s, d, <<Bop(GetStateForConnection(s, d), TRUE), Plain("ok")>>)
        EXCEPT !.running[d] = @ - 1]

UpdateStatusWait(s, d, exclude) ==
  IF s.running[d] = 0 \/ Pending(s, d, exclude) THEN s
  ELSE [Send(s, d, <<Bop(GetStateForConnection(s, d), TRUE), Plain("ok")>>)
        EXCEPT !.running[d] = @ - 1]

\* the answer of e to status_info, and the next one that waits for it
StatusInfoAnswered(s, e) ==
  LET u == UpdateStatusWait(s, Head(s.ask[e]), {e})
      n == [u EXCEPT !.ask[e] = Tail(@)]
  IN IF n.ask[e] = <<>> THEN n ELSE Send(n, e, <<Plain("status_info")>>)

\* every worker is looked at on its own: running[w] and out[w] depend on w only
UpdateStatusWaits(s) ==
  [s EXCEPT !.running = [w \in Workers |-> UpdateStatusWait(s, w, {}).running[w]],
            !.out = [e \in Devices |-> IF e \in Workers THEN UpdateStatusWait(s, e, {}).out[e]
                                                        ELSE @[e]]]

Forgotten(s, d) ==
  [s EXCEPT !.word[d] = FALSE, !.ask[d] = <<>>, !.out[d] = <<>>, !.in[d] = <<>>]

\* mutant: the blocks of the lost device stand until another one changes
ConnectionRemovedKeeps(s, d) == UpdateStatusWaits(Forgotten(s, d))

ConnectionRemoved(s, d) == UpdateStatusWaits(BopMaskChanged(Forgotten(s, d)))

-----------------------------------------------------------------------------
(* Steps.  Every process handles one message at a time.                    *)

Init ==
  /\ client = [d \in Workers |-> [que |-> <<>>, run |-> NoCommand, bop |-> FALSE, out |-> <<>>]]
  /\ dev = [d \in Workers |-> [work |-> "idle", waits |-> 0, bop |-> FALSE, asking |-> FALSE,
                               infos |-> 0, toClient |-> <<>>, toServer |-> <<>>]]
  /\ other = [d \in Others |-> "idle"]
  /\ srv = [word |-> [d \in Devices |-> FALSE], ask |-> [d \in Devices |-> <<>>],
            running |-> [d \in Workers |-> 0], out |-> [d \in Devices |-> <<>>],
            in |-> [d \in Others |-> <<>>]]
  /\ budget = [commands |-> MaxCommands, others |-> MaxOther, lost |-> MaxLost]
  /\ seen = [queued |-> [d \in Workers |-> 0], executed |-> [d \in Workers |-> 0],
             answered |-> [d \in Workers |-> 0], early |-> FALSE]

\* The client queues a command when none it has to keep apart is pending (wasMoved (),
\* queEmptyForOriginator ()) and no exposure waits in a camera (que_exp_num; what the
\* client knows of it is never less than what the camera has).
Issue(d) ==
  /\ budget.commands > 0
  /\ \A e \in Workers : Blocks(e, d) => client[e].run = NoCommand /\ dev[e].waits = 0
  /\ budget' = [budget EXCEPT !.commands = @ - 1]
  /\ seen' = [seen EXCEPT !.queued[d] = @ + 1]
  /\ client' = [client EXCEPT ![d] = QueCommand(@, seen.queued[d] + 1)]
  /\ UNCHANGED <<dev, other, srv>>

ClientReceives(d) ==
  /\ dev[d].toClient # <<>>
  /\ LET m == Head(dev[d].toClient)
         k == client[d]
     IN /\ client' = [client EXCEPT ![d] = IF m.type = "ok" THEN SendNextCommand(k)
                                           ELSE SetBopState(k, m.on)]
        /\ seen' = IF m.type = "ok" /\ k.run.id > 0 THEN [seen EXCEPT !.answered[d] = k.run.id]
                   ELSE seen
  /\ dev' = [dev EXCEPT ![d].toClient = Tail(@)]
  /\ UNCHANGED <<other, srv, budget>>

DeviceReceivesCommand(d) ==
  /\ client[d].out # <<>>
  /\ LET id == Head(client[d].out)
         w == dev[d]
     IN IF id = 0
        THEN dev' = [dev EXCEPT ![d] = QueDeviceStatusCommand(w)] /\ UNCHANGED seen
        ELSE /\ dev' = [dev EXCEPT ![d] =
                  ToClient(IF d = Mount THEN Becomes(w, "moving") ELSE Expose(w), <<Plain("ok")>>)]
             /\ seen' = [seen EXCEPT !.executed[d] = id]
  /\ client' = [client EXCEPT ![d].out = Tail(@)]
  /\ UNCHANGED <<other, srv, budget>>

\* an answer to device_status that is not the answer of centrald to the same question
Early(w, m) == w.asking /\ ~(w.infos = 1 /\ (m.reply \/ m.type = "ok"))

DeviceReceives(d) ==
  /\ srv.out[d] # <<>>
  /\ LET m == Head(srv.out[d])
         w == dev[d]
     IN \/ /\ m.type = "status_info"
           /\ dev' = [dev EXCEPT ![d] = StatusInfo(w)]
           /\ UNCHANGED seen
        \/ /\ m.type = "bop"
           /\ dev' = [dev EXCEPT ![d] = SetFullBopState(w, m.on)]
           /\ seen' = [seen EXCEPT !.early = @ \/ Early(w, m)]
        \/ /\ m.type = "ok"
           /\ dev' = [dev EXCEPT ![d] = StatusInfoReturns(w)]
           /\ seen' = [seen EXCEPT !.early = @ \/ Early(w, m)]
  /\ srv' = [srv EXCEPT !.out[d] = Tail(@)]
  /\ UNCHANGED <<client, other, budget>>

\* the end of a move, of an exposure, of a readout
WorkEnds(d) ==
  /\ dev[d].work # "idle"
  /\ LET w == dev[d]
     IN dev' = [dev EXCEPT ![d] = CASE w.work = "moving" -> Becomes(w, "idle")
                                    [] w.work = "exposing" -> Becomes(w, "reading")
                                    [] w.work = "reading" -> StartWaiting(Becomes(w, "idle"))]
  /\ UNCHANGED <<client, other, srv, budget, seen>>

Handled(s, m, d) ==
  CASE m.type = "status" -> SetState(s, d, m.on)
    [] m.type = "status_info" -> CentraldStatusInfo(s, d, {e \in Devices : e \in Others => other[e] # "gone"})
    [] m.type = "ok" -> StatusInfoAnswered(s, d)

CentraldReceives(d) ==
  /\ dev[d].toServer # <<>>
  /\ srv' = Handled(srv, Head(dev[d].toServer), d)
  /\ dev' = [dev EXCEPT ![d].toServer = Tail(@)]
  /\ UNCHANGED <<client, other, budget, seen>>

CentraldReceivesOther(d) ==
  /\ srv.in[d] # <<>>
  /\ srv' = Handled([srv EXCEPT !.in[d] = Tail(@)], Head(srv.in[d]), d)
  /\ UNCHANGED <<client, dev, other, budget, seen>>

OtherStarts(d) ==
  /\ other[d] = "idle" /\ budget.others > 0
  /\ other' = [other EXCEPT ![d] = "working"]
  /\ srv' = [srv EXCEPT !.in[d] = Append(@, Status(TRUE))]
  /\ budget' = [budget EXCEPT !.others = @ - 1]
  /\ UNCHANGED <<client, dev, seen>>

OtherStops(d) ==
  /\ other[d] = "working"
  /\ other' = [other EXCEPT ![d] = "idle"]
  /\ srv' = [srv EXCEPT !.in[d] = Append(@, Status(FALSE))]
  /\ UNCHANGED <<client, dev, budget, seen>>

OtherAnswers(d) ==
  /\ other[d] \in {"idle", "working"} /\ srv.out[d] # <<>>
  /\ srv' = [srv EXCEPT !.out[d] = Tail(@), !.in[d] = Append(@, Plain("ok"))]
  /\ UNCHANGED <<client, dev, other, budget, seen>>

\* what the device sent before still arrives
OtherBreaks(d) ==
  /\ other[d] \in {"idle", "working"} /\ budget.lost > 0
  /\ other' = [other EXCEPT ![d] = "broken"]
  /\ budget' = [budget EXCEPT !.lost = @ - 1]
  /\ UNCHANGED <<client, dev, srv, seen>>

Erased(d) ==
  /\ other[d] = "broken" /\ srv.in[d] = <<>>
  /\ other' = [other EXCEPT ![d] = "gone"]
  /\ srv' = ConnectionRemoved(srv, d)
  /\ UNCHANGED <<client, dev, budget, seen>>

System ==
  \/ \E d \in Workers : \/ ClientReceives(d) \/ DeviceReceivesCommand(d) \/ DeviceReceives(d)
                        \/ WorkEnds(d) \/ CentraldReceives(d)
  \/ \E d \in Others : CentraldReceivesOther(d) \/ OtherAnswers(d) \/ OtherStops(d) \/ Erased(d)

Next ==
  \/ System
  \/ \E d \in Workers : Issue(d)
  \/ \E d \in Others : OtherStarts(d) \/ OtherBreaks(d)

Spec == Init /\ [][Next]_vars

(* Every program goes on reading its sockets, moves and exposures end, and *)
(* an other device that blocks does not do so for ever.                    *)
FairSpec == Spec /\ WF_vars(System)

-----------------------------------------------------------------------------
(* Properties.                                                             *)

(* No exposure while the mount moves: what the blocking masks and          *)
(* device_status are for (BOP_EXPOSURE, BOP_TEL_MOVE).                     *)
Exclusion == dev[Mount].work = "moving" => \A c \in Cameras : dev[c].work # "exposing"

(* The same, as long as no device took an unrelated state that centrald    *)
(* sent for the answer to its question (Device::setFullBopState ends       *)
(* deviceStatusCommand): nothing else breaks the interlock, whatever the   *)
(* order of the links, the others' blocks and lost connections.            *)
ExclusionUnlessEarly == seen.early \/ Exclusion

Quiet ==
  /\ \A d \in Workers : client[d].out = <<>> /\ dev[d].toClient = <<>> /\ dev[d].toServer = <<>>
  /\ \A d \in Devices : srv.out[d] = <<>>
  /\ \A d \in Others : srv.in[d] = <<>> /\ other[d] # "broken"

Working(d) == IF d \in Others THEN other[d] = "working" ELSE Raises(dev[d])

(* With nothing on its way every device and the client know whether the    *)
(* others block it, also after one that blocked has vanished               *)
(* (Centrald::bopMaskChanged, Device::setFullBopState).                    *)
ViewsSettle ==
  Quiet => \A d \in Workers :
    LET blocked == \E e \in Devices : Blocks(e, d) /\ Working(e)
    IN dev[d].bop = blocked /\ client[d].bop = blocked

(* Every command the client queued is answered (Connection::sendCommand,   *)
(* device_status, status_info), although devices vanish while they are     *)
(* asked and blocks come and go.                                           *)
AllAnswered == \A d \in Workers : (client[d].run # NoCommand) ~> (client[d].run = NoCommand)

(* The queue of a connection, with a helper command in front of every      *)
(* command that waits, keeps what a client may rely on.                    *)
Order == INSTANCE CommandOrder WITH
  Devices <- Workers,
  queued <- seen.queued,
  executed <- seen.executed,
  answered <- seen.answered

QueueKeepsOrder == Order!Spec
=============================================================================
