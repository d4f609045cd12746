------------------------------ MODULE CanTxPath ------------------------------
(***************************************************************************)
(* The way of a CAN frame from a client process to the bus: the tx role of *)
(* process_client.py, the server and the handler threads of                *)
(* can_daemon/main.py, the bounded queue and the tx thread of              *)
(* hal/can_bus/daemon.py.                                                  *)
(*                                                                         *)
(* A client has one request under way at a time.  Its handler answers ok   *)
(* as soon as the frame is queued; the tx thread sends it later.  On       *)
(* SIGTERM the daemon stops in several steps while handlers go on.         *)
(*                                                                         *)
(* can_daemon/main.py hides the imported CANDaemon behind a class of the   *)
(* same name; here _start_can constructs the imported one.                 *)
(***************************************************************************)
EXTENDS Naturals, Sequences, Functions

CONSTANTS
  Clients,
  QueueSize,  \* max_tx_queue_size
  MaxFrames   \* bound: per client, the frames it sends

ASSUME CanTxAssumption ==
  QueueSize \in Nat \ {0} /\ MaxFrames \in [Clients -> Nat]

\* The n-th frame of a client.
CanFrames == UNION {{c} \X (1 .. MaxFrames[c]) : c \in Clients}

VARIABLES
  client,    \* per client: where connect and send are
  asked,     \* per client: frames it has asked for
  reply,     \* per client: the answer waiting in its socket
  verdict,   \* per frame: what its client was told
  handler,   \* per client: its handler thread in the daemon
  queue,     \* _tx_queue
  held,      \* the frame the tx thread has taken and not sent, if any
  bus,       \* the frames put on the bus, in order
  failed,    \* frames whose send raised
  tx,        \* the tx thread
  main,      \* the main thread of the daemon
  stopEvent, \* _stop_event of the subprocess, set by SIGTERM
  halStop,   \* _stop_event of the HAL daemon
  halRef,    \* _can_daemon is not None
  busOpen    \* the CAN socket is open

clientVars == <<client, asked, verdict>>
txVars == <<queue, held, bus, failed, tx>>
mainVars == <<main, stopEvent, halStop, halRef, busOpen>>
vars == <<clientVars, reply, handler, txVars, mainVars>>

TypeOK ==
  /\ client \in [Clients -> {"off", "greeting", "ready", "waiting", "lost"}]
  /\ asked \in [Clients -> Nat]
  /\ reply \in [Clients -> {"none", "accepted", "refused"}]
  /\ verdict \in [CanFrames -> {"none", "accepted", "refused"}]
  /\ handler \in [Clients -> {"none", "head", "read", "closed"}]
  /\ queue \in Seq(CanFrames) /\ Len(queue) <= QueueSize
  /\ held \in Seq(CanFrames) /\ Len(held) <= 1
  /\ bus \in Seq(CanFrames)
  /\ failed \subseteq CanFrames
  /\ tx \in {"head", "get", "send", "ended"}
  /\ main \in {"starting", "serving", "closing", "joined", "done", "exited", "killed"}
  /\ stopEvent \in BOOLEAN /\ halStop \in BOOLEAN
  /\ halRef \in BOOLEAN /\ busOpen \in BOOLEAN

Init ==
  /\ client = [c \in Clients |-> "off"]
  /\ asked = [c \in Clients |-> 0]
  /\ reply = [c \in Clients |-> "none"]
  /\ verdict = [f \in CanFrames |-> "none"]
  /\ handler = [c \in Clients |-> "none"]
  /\ queue = <<>> /\ held = <<>> /\ bus = <<>> /\ failed = {}
  /\ tx = "head"
  /\ main = "starting"
  /\ stopEvent = FALSE /\ halStop = FALSE /\ halRef = FALSE /\ busOpen = FALSE
-----------------------------------------------------------------------------
(***************************************************************************)
(* The client.                                                             *)
(***************************************************************************)

\* connect retries until the daemon listens, or gives up at its deadline.
Connect(c) ==
  /\ client[c] = "off" /\ main = "serving"
  /\ client' = [client EXCEPT ![c] = "greeting"]
  /\ UNCHANGED <<asked, verdict, reply, handler, txVars, mainVars>>

ConnectFails(c) ==
  /\ client[c] = "off" /\ main # "serving"
  /\ client' = [client EXCEPT ![c] = "lost"]
  /\ UNCHANGED <<asked, verdict, reply, handler, txVars, mainVars>>

Send(c) ==
  /\ client[c] = "ready" /\ asked[c] < MaxFrames[c]
  /\ asked' = [asked EXCEPT ![c] = @ + 1]
  /\ client' = [client EXCEPT ![c] = "waiting"]
  /\ UNCHANGED <<verdict, reply, handler, txVars, mainVars>>

\* The answer, true or an exception that names it refused.
ReadReply(c) ==
  /\ client[c] = "waiting" /\ reply[c] # "none"
  /\ verdict' = [verdict EXCEPT ![<<c, asked[c]>>] = reply[c]]
  /\ reply' = [reply EXCEPT ![c] = "none"]
  /\ client' = [client EXCEPT ![c] = "ready"]
  /\ UNCHANGED <<asked, handler, txVars, mainVars>>

\* The socket is closed: an OSError, and no word about the frame.
ReadEndOfFile(c) ==
  /\ client[c] = "waiting" /\ reply[c] = "none" /\ handler[c] = "closed"
  /\ client' = [client EXCEPT ![c] = "lost"]
  /\ UNCHANGED <<asked, verdict, reply, handler, txVars, mainVars>>
-----------------------------------------------------------------------------
(***************************************************************************)
(* Server and handler threads.                                             *)
(***************************************************************************)

\* The connection is accepted and the handler acknowledges the hello.
Accept(c) ==
  /\ main = "serving" /\ client[c] = "greeting"
  /\ handler' = [handler EXCEPT ![c] = "head"]
  /\ client' = [client EXCEPT ![c] = "ready"]
  /\ UNCHANGED <<asked, verdict, reply, txVars, mainVars>>

\* The loop head looks at the stop event, readline then blocks.
HandlerHead(c) ==
  /\ handler[c] = "head"
  /\ handler' = [handler EXCEPT ![c] = IF stopEvent THEN "closed" ELSE "read"]
  /\ UNCHANGED <<clientVars, reply, txVars, mainVars>>

Requested(c) ==
  handler[c] = "read" /\ client[c] = "waiting" /\ reply[c] = "none"

Answer(c, word) ==
  /\ reply' = [reply EXCEPT ![c] = word]
  /\ handler' = [handler EXCEPT ![c] = "head"]

HandlerPut_NoLimit(c) ==
  /\ Requested(c)
  /\ IF halRef
     THEN queue' = Append(queue, <<c, asked[c]>>) /\ Answer(c, "accepted")
     ELSE UNCHANGED queue /\ Answer(c, "refused")
  /\ UNCHANGED <<clientVars, held, bus, failed, tx, mainVars>>

HandlerPut_DropOldest(c) ==
  /\ Requested(c)
  /\ IF halRef
     THEN /\ queue' = Append(IF Len(queue) < QueueSize THEN queue ELSE Tail(queue),
                             <<c, asked[c]>>)
          /\ Answer(c, "accepted")
     ELSE UNCHANGED queue /\ Answer(c, "refused")
  /\ UNCHANGED <<clientVars, held, bus, failed, tx, mainVars>>

HandlerPut_FullNotAnswered(c) ==
  /\ Requested(c)
  /\ IF Len(queue) < QueueSize
     THEN IF halRef
          THEN queue' = Append(queue, <<c, asked[c]>>) /\ Answer(c, "accepted")
          ELSE UNCHANGED queue /\ Answer(c, "refused")
     ELSE /\ handler' = [handler EXCEPT ![c] = "none"]
          /\ UNCHANGED <<queue, reply>>
  /\ UNCHANGED <<clientVars, held, bus, failed, tx, mainVars>>

\* put without blocking: a full queue, like a daemon already released by
\* shutdown, is answered with ok: false.
HandlerPut(c) ==
  /\ Requested(c)
  /\ IF halRef /\ Len(queue) < QueueSize
     THEN queue' = Append(queue, <<c, asked[c]>>) /\ Answer(c, "accepted")
     ELSE UNCHANGED queue /\ Answer(c, "refused")
  /\ UNCHANGED <<clientVars, held, bus, failed, tx, mainVars>>
-----------------------------------------------------------------------------
(***************************************************************************)
(* The tx thread.                                                          *)
(***************************************************************************)
TxHead ==
  /\ main # "starting" /\ tx = "head"
  /\ tx' = IF halStop THEN "ended" ELSE "get"
  /\ UNCHANGED <<clientVars, reply, handler, queue, held, bus, failed, mainVars>>

\* A frame, or nothing within tx_timeout.
TxGet ==
  /\ tx = "get"
  /\ IF queue # <<>>
     THEN /\ held' = <<Head(queue)>> /\ queue' = Tail(queue)
          /\ tx' = "send"
     ELSE tx' = "head" /\ UNCHANGED <<held, queue>>
  /\ UNCHANGED <<clientVars, reply, handler, bus, failed, mainVars>>

TxSend ==
  /\ tx = "send" /\ busOpen
  /\ bus' = bus \o held
  /\ held' = <<>> /\ tx' = "head"
  /\ UNCHANGED <<clientVars, reply, handler, queue, failed, mainVars>>

TxFails_Requeue ==
  /\ tx = "send"
  /\ failed' = failed \cup Range(held)
  /\ queue' = queue \o held
  /\ held' = <<>> /\ tx' = "head"
  /\ UNCHANGED <<clientVars, reply, handler, bus, mainVars>>

TxFails_ThreadDies ==
  /\ tx = "send"
  /\ failed' = failed \cup Range(held)
  /\ held' = <<>> /\ tx' = "ended"
  /\ UNCHANGED <<clientVars, reply, handler, queue, bus, mainVars>>

\* The socket refuses (buffer full, interface down, closed): logged, no retry.
TxFails ==
  /\ tx = "send"
  /\ failed' = failed \cup Range(held)
  /\ held' = <<>> /\ tx' = "head"
  /\ UNCHANGED <<clientVars, reply, handler, queue, bus, mainVars>>
-----------------------------------------------------------------------------
(***************************************************************************)
(* The main thread of the daemon.                                          *)
(***************************************************************************)
StartServing ==
  /\ main = "starting"
  /\ main' = "serving"
  /\ halRef' = TRUE /\ busOpen' = TRUE
  /\ UNCHANGED <<clientVars, reply, handler, txVars, stopEvent, halStop>>

Terminate ==
  /\ main \in {"starting", "serving"} /\ ~stopEvent
  /\ stopEvent' = TRUE
  /\ UNCHANGED <<clientVars, reply, handler, txVars, main, halStop, halRef,
                 busOpen>>

\* Connections that were not accepted yet are reset: their clients try again.
Reset == [c \in Clients |-> IF client[c] = "greeting" THEN "off" ELSE client[c]]

\* shutdown closes the server socket and tells the HAL daemon to stop ...
StopServing ==
  /\ main = "serving" /\ stopEvent
  /\ main' = "closing"
  /\ halStop' = TRUE
  /\ client' = Reset
  /\ UNCHANGED <<asked, verdict, reply, handler, txVars, stopEvent, halRef,
                 busOpen>>

\* ... joins its threads, for join_timeout at most, and drops it ...
Join ==
  /\ main = "closing"
  /\ main' = "joined"
  /\ halRef' = FALSE
  /\ UNCHANGED <<clientVars, reply, handler, txVars, stopEvent, halStop, busOpen>>

CloseBus ==
  /\ main = "joined"
  /\ main' = "done"
  /\ busOpen' = FALSE
  /\ UNCHANGED <<clientVars, reply, handler, txVars, stopEvent, halStop, halRef>>

Closed == [c \in Clients |-> IF handler[c] = "none" THEN "none" ELSE "closed"]

\* ... and the process ends with its tx thread, taking the handlers along.
Exit ==
  /\ main = "done" /\ tx = "ended"
  /\ main' = "exited"
  /\ handler' = Closed
  /\ UNCHANGED <<clientVars, reply, txVars, stopEvent, halStop, halRef, busOpen>>

Gone == main \in {"exited", "killed"}

\* SIGKILL, as the process supervisor sends after its timeout, or a crash.
Kill ==
  /\ ~Gone
  /\ main' = "killed"
  /\ handler' = Closed
  /\ client' = Reset
  /\ tx' = "ended"
  /\ UNCHANGED <<asked, verdict, reply, queue, held, bus, failed, stopEvent,
                 halStop, halRef, busOpen>>

Handler(c) == HandlerHead(c) \/ HandlerPut(c)
TxThread == TxHead \/ TxGet \/ TxSend \/ TxFails
MainThread ==
  StartServing \/ StopServing \/ Join \/ CloseBus \/ Exit
    \/ \E c \in Clients : Accept(c)
Reader(c) == ReadReply(c) \/ ReadEndOfFile(c)

Next ==
  \/ \E c \in Clients :
       Connect(c) \/ ConnectFails(c) \/ Send(c) \/ Reader(c) \/ Handler(c)
  \/ TxThread
  \/ MainThread
  \/ Terminate \/ Kill

\* Every thread that can take a step takes one; signals and crashes may never
\* come.
Fairness ==
  /\ \A c \in Clients : WF_vars(Handler(c)) /\ WF_vars(Reader(c))
  /\ WF_vars(TxThread)
  /\ WF_vars(MainThread)

Spec == Init /\ [][Next]_vars
FairSpec == Spec /\ Fairness
-----------------------------------------------------------------------------
Verdict(word) == {f \in CanFrames : verdict[f] = word}

\* The bus sees the frames of a client in the order they were asked for, none
\* of them twice, and none its client was told was refused: a control tick
\* that fails in the middle has commanded the actuators before the failing one
\* and no others.
BusFollowsRequests ==
  /\ \A i, j \in 1 .. Len(bus) :
       i < j /\ bus[i][1] = bus[j][1] => bus[i][2] < bus[j][2]
  /\ Range(bus) \cap Verdict("refused") = {}

\* A frame acknowledged with ok: true is on the bus, on its way there, or its
\* send raised; what is still queued when the process ends is lost with it.
AcceptedAccounted ==
  Verdict("accepted") \subseteq Range(bus \o held \o queue) \cup failed

\* No client waits forever, though its sockets have no timeout: send returns
\* or raises whatever the daemon does.
RequestsAnswered ==
  \A c \in Clients :
    client[c] \in {"greeting", "waiting"} ~> client[c] \in {"ready", "off", "lost"}

Sent(f) == f \in Range(bus) \cup failed

\* A running daemon sends what it acknowledged, whatever frames failed before.
\* (One that is asked to stop leaves what is queued, and goes on acknowledging.)
AcceptedSentWhileServing ==
  \A f \in CanFrames :
    verdict[f] = "accepted" ~> (Sent(f) \/ stopEvent \/ main = "killed")
=============================================================================
