------------------------------- MODULE Feedback -------------------------------
(***************************************************************************)
(* The way of a motor's and the IMU's answers to the state that the        *)
(* control loop publishes: CAN daemon, rx thread of process_client.py,     *)
(* dispatcher, echo filter of process_transport.py, the drivers with their *)
(* communication managers, and _build_robot_state_c.                       *)
(*                                                                         *)
(* One motor and the channels of the IMU.  The control loop sends frames   *)
(* and builds states; the rx thread merges what comes back.  Which answers *)
(* come, and when, is left open: MotorFirmware has the firmware's side.    *)
(* The firmware answers on the CAN id of the request and acknowledges some *)
(* requests with their own bytes; the daemon's socket does not see the     *)
(* frames the daemon sends itself, so there is no real echo.               *)
(*                                                                         *)
(* A measured position is a number, counted up in the order of the         *)
(* answers; 0 stands for none, which is published as 0.0.                  *)
(***************************************************************************)
EXTENDS Naturals, Sequences

CONSTANTS
  Imu,        \* the channels of the IMU: quat and gyro
  Acked,      \* the requests that are acknowledged with their own bytes
  Timeout,    \* feedback_timeout_s, in ticks of the clock
  Window,     \* TX_ECHO_REJECT_WINDOW_S, in ticks of the clock
  MaxSamples, \* bound: positions the motor reports
  MaxReplies  \* bound: answers under way

ASSUME FeedbackAssumption ==
  /\ (Imu \cup Acked) \cap {"motor", "status", "other"} = {} /\ Imu \cap Acked = {}
  /\ Timeout \in Nat /\ Window \in Nat /\ MaxSamples \in Nat /\ MaxReplies \in Nat

Channel == {"motor"} \cup Imu

VARIABLES
  samples,  \* positions the motor has reported so far
  replies,  \* answers on their way to the rx thread
  rx,       \* the rx thread
  frame,    \* the frame it dispatches, if any
  recent,   \* per request in Acked: time since it was last remembered
            \* (Window + 1: never, or longer)
  position, \* the driver's merged state
  age,      \* per channel: time since its last frame (likewise)
  online,   \* per channel: is_online, the opposite of is_stale
  ctl,      \* the control loop
  command,  \* the frame it is sending
  built,    \* the state _build_robot_state_c is filling in
  asOfNow,  \* per channel: age of its last frame at `now`, the time at which the
            \* build began (0: it came later); the published ages are these
  elapsed,  \* time since then, up to Timeout + 1
  raced,    \* channels of which a frame came between the calls that take their
            \* state and their flags
  published \* the last state published; the ages are published with it

vars == <<samples, replies, rx, frame, recent, position, age, online, ctl, command,
          built, asOfNow, elapsed, raced, published>>

Reply(kind, n) == [kind |-> kind, n |-> n]
Replies == {Reply("status", n) : n \in 1 .. MaxSamples}
             \cup {Reply(k, 0) : k \in Acked \cup Imu}
ChannelOf(reply) == IF reply.kind \in Imu THEN reply.kind ELSE "motor"

Later(t, limit) == IF t <= limit THEN t + 1 ELSE t

Flags == [Channel -> BOOLEAN]
Ages == [Channel -> 0 .. Timeout + 1]

TypeOK ==
  /\ samples \in 0 .. MaxSamples
  /\ replies \in Seq(Replies) /\ Len(replies) <= MaxReplies
  /\ rx \in {"read", "filter", "disturbed", "merge", "dead"}
  /\ frame \in Seq(Replies)
  /\ Len(frame) = IF rx \in {"filter", "disturbed", "merge"} THEN 1 ELSE 0
  /\ recent \in [Acked -> 0 .. Window + 1]
  /\ position \in 0 .. samples
  /\ age \in Ages /\ online \in Flags
  /\ ctl \in {"send", "remember", "build", "imu flags", "imu state", "imu comm",
              "motor state", "motor comm"}
  /\ command \in Acked \cup {"other"}
  /\ built \in [position : 0 .. samples, age : Ages, online : Flags]
  /\ asOfNow \in Ages /\ elapsed \in 0 .. Timeout + 1
  /\ raced \subseteq Channel
  /\ published \in [position : 0 .. samples, online : Flags]

NoState == [position |-> 0, age |-> [c \in Channel |-> Timeout + 1],
            online |-> [c \in Channel |-> FALSE]]

Init ==
  /\ samples = 0 /\ replies = <<>>
  /\ rx = "read" /\ frame = <<>>
  /\ recent = [k \in Acked |-> Window + 1]
  /\ position = 0
  /\ age = NoState.age /\ online = NoState.online
  /\ ctl = "send" /\ command = "other"
  /\ built = NoState /\ raced = {}
  /\ asOfNow = NoState.age /\ elapsed = 0
  /\ published = [position |-> 0, online |-> NoState.online]
-----------------------------------------------------------------------------
(***************************************************************************)
(* The devices and the way back.                                           *)
(***************************************************************************)

\* The motor reports a position or acknowledges a request, the IMU answers.
Answer ==
  /\ Len(replies) < MaxReplies
  /\ \/ /\ samples < MaxSamples
        /\ samples' = samples + 1
        /\ replies' = Append(replies, Reply("status", samples + 1))
     \/ /\ \E k \in Acked \cup Imu : replies' = Append(replies, Reply(k, 0))
        /\ UNCHANGED samples
  /\ UNCHANGED <<rx, frame, recent, position, age, online, ctl, command, built,
                 asOfNow, elapsed, raced, published>>

\* A frame is lost before the rx thread reads it.
Lose ==
  /\ replies # <<>>
  /\ replies' = Tail(replies)
  /\ UNCHANGED <<samples, rx, frame, recent, position, age, online, ctl, command, built,
                 asOfNow, elapsed, raced, published>>
-----------------------------------------------------------------------------
(***************************************************************************)
(* The rx thread of the controller.                                        *)
(***************************************************************************)
Receive ==
  /\ rx = "read" /\ replies # <<>>
  /\ frame' = <<Head(replies)>> /\ replies' = Tail(replies)
  /\ rx' = IF ChannelOf(Head(replies)) = "motor" THEN "filter" ELSE "merge"
  /\ UNCHANGED <<samples, recent, position, age, online, ctl, command, built,
                 asOfNow, elapsed, raced, published>>

Done == rx' = "read" /\ frame' = <<>>

\* A frame with the bytes of one sent within the window is taken for an echo,
\* an acknowledgement as well.
IsRecentTxEcho(f) == f.kind \in Acked /\ recent[f.kind] <= Window

Filter ==
  /\ rx \in {"filter", "disturbed"}
  /\ IF IsRecentTxEcho(Head(frame)) THEN Done ELSE rx' = "merge" /\ UNCHANGED frame
  /\ UNCHANGED <<samples, replies, recent, position, age, online, ctl, command, built,
                 asOfNow, elapsed, raced, published>>

\* The deque has grown during the iteration: RuntimeError, which the dispatcher
\* catches and logs.
FilterRaises ==
  /\ rx = "disturbed"
  /\ Done
  /\ UNCHANGED <<samples, replies, recent, position, age, online, ctl, command, built,
                 asOfNow, elapsed, raced, published>>

MergePosition_FromAnyFrame(f) == f.n
MergePosition_Accumulated(f) == position + f.n

\* Only the parts a frame has replace those of the merged state.
MergePosition(f) == IF f.kind = "status" THEN f.n ELSE position

\* `now` has been read, and the state is not published yet.
InBuild == ctl \notin {"send", "remember", "build"}

\* The channels of which the state has been taken, and the flags have not.
Building ==
  CASE ctl = "imu comm" -> Imu
    [] ctl = "motor comm" -> {"motor"}
    [] OTHER -> {}

\* on_frame and mark_rx: any frame that is decoded makes its channel fresh.
Merge ==
  /\ rx = "merge"
  /\ LET f == Head(frame) IN
     /\ position' = MergePosition(f)
     /\ age' = [age EXCEPT ![ChannelOf(f)] = 0]
     /\ asOfNow' = IF InBuild THEN [asOfNow EXCEPT ![ChannelOf(f)] = 0] ELSE asOfNow
     /\ online' = [online EXCEPT ![ChannelOf(f)] = TRUE]
     /\ raced' = raced \cup (Building \cap {ChannelOf(f)})
  /\ Done
  /\ UNCHANGED <<samples, replies, recent, ctl, command, built, elapsed, published>>

\* The daemon has ended, or has dropped this subscriber because its socket was
\* full for 0.2 s: the thread ends and nobody starts it again.
RxDies ==
  /\ rx = "read"
  /\ rx' = "dead"
  /\ UNCHANGED <<samples, replies, frame, recent, position, age, online, ctl, command,
                 built, asOfNow, elapsed, raced, published>>
-----------------------------------------------------------------------------
(***************************************************************************)
(* The control loop.                                                       *)
(***************************************************************************)

\* send_frame: the daemon has taken the frame, and it may be answered before ...
SendFrame ==
  /\ ctl = "send"
  /\ \E k \in Acked \cup {"other"} : command' = k
  /\ ctl' = "remember"
  /\ UNCHANGED <<samples, replies, rx, frame, recent, position, age, online, built,
                 asOfNow, elapsed, raced, published>>

\* ... it is remembered.
RememberTxFrame ==
  /\ ctl = "remember"
  /\ recent' = [k \in Acked |-> IF k = command THEN 0 ELSE recent[k]]
  /\ rx' = IF rx = "filter" THEN "disturbed" ELSE rx
  /\ ctl' = "build" /\ command' = "other"
  /\ UNCHANGED <<samples, replies, frame, position, age, online, built,
                 asOfNow, elapsed, raced, published>>

UpdateFaultFlags_Strict(c) == age[c] < Timeout

\* update_fault_flags: online, and not stale.
UpdateFaultFlags(c) == age[c] <= Timeout

\* _build_robot_state_c reads the clock once, for all the ages ...
BuildNow ==
  /\ ctl = "build"
  /\ asOfNow' = age
  /\ ctl' = "imu flags"
  /\ UNCHANGED <<samples, replies, rx, frame, recent, position, age, online, command,
                 built, elapsed, raced, published>>

\* ... updates the flags of the IMU, as old as its frames are by then ...
BuildImuFlags ==
  /\ ctl = "imu flags"
  /\ online' = [c \in Channel |-> IF c \in Imu THEN UpdateFaultFlags(c) ELSE online[c]]
  /\ ctl' = "imu state"
  /\ UNCHANGED <<samples, replies, rx, frame, recent, position, age, command, built,
                 asOfNow, elapsed, raced, published>>

\* ... takes its state, and the flags as they are by then ...
BuildImuState ==
  /\ ctl = "imu state"
  /\ built' = [built EXCEPT !.age = [asOfNow EXCEPT !["motor"] = Timeout + 1]]
  /\ ctl' = "imu comm"
  /\ UNCHANGED <<samples, replies, rx, frame, recent, position, age, online, command,
                 asOfNow, elapsed, raced, published>>

BuildImuComm ==
  /\ ctl = "imu comm"
  /\ built' = [built EXCEPT !.online = [online EXCEPT !["motor"] = FALSE]]
  /\ ctl' = "motor state"
  /\ UNCHANGED <<samples, replies, rx, frame, recent, position, age, online, command,
                 asOfNow, elapsed, raced, published>>

\* ... the state of the motor, whose age is what `now` says it is ...
BuildMotorState ==
  /\ ctl = "motor state"
  /\ built' = [built EXCEPT !.position = position, !.age["motor"] = asOfNow["motor"]]
  /\ ctl' = "motor comm"
  /\ UNCHANGED <<samples, replies, rx, frame, recent, position, age, online, command,
                 asOfNow, elapsed, raced, published>>

\* ... and its flags, with which the state is complete and published.
Publish(motorOnline) ==
  /\ ctl = "motor comm"
  /\ online' = [online EXCEPT !["motor"] = motorOnline]
  /\ published' = [position |-> built.position,
                   online |-> [built.online EXCEPT !["motor"] = motorOnline]]
  /\ ctl' = "send"
  /\ built' = NoState /\ raced' = {}
  /\ asOfNow' = NoState.age /\ elapsed' = 0
  /\ UNCHANGED <<samples, replies, rx, frame, recent, position, age, command>>

BuildMotorComm_NotUpdated == Publish(online["motor"])

BuildMotorComm == Publish(UpdateFaultFlags("motor"))

Tick ==
  /\ age' = [c \in Channel |-> Later(age[c], Timeout)]
  /\ recent' = [k \in Acked |-> Later(recent[k], Window)]
  /\ elapsed' = IF InBuild THEN Later(elapsed, Timeout) ELSE elapsed
  /\ UNCHANGED <<samples, replies, rx, frame, position, online, ctl, command, built,
                 asOfNow, raced, published>>

RxThread == Receive \/ Filter \/ FilterRaises \/ Merge
ControlLoop ==
  \/ SendFrame \/ RememberTxFrame
  \/ BuildNow \/ BuildImuFlags \/ BuildImuState \/ BuildImuComm
  \/ BuildMotorState \/ BuildMotorComm

Next == Answer \/ Lose \/ RxThread \/ RxDies \/ ControlLoop \/ Tick

\* The control loop runs and time passes; no answer has to come.
Fairness == WF_vars(ControlLoop) /\ WF_vars(Tick)

Spec == Init /\ [][Next]_vars
FairSpec == Spec /\ Fairness
-----------------------------------------------------------------------------
\* The flags and the ages of one published state, read under different locks and
\* clocks, agree but for what came in between.  Online with an age over the
\* timeout: only if a frame came after the state was taken.  Offline with an age
\* within the timeout: only if the time the build has taken makes up the
\* difference.  "Online" says that a frame of any kind came, not that a position
\* was measured.
OnlineMatchesAge ==
  [][\A c \in Channel :
       ctl = "motor comm" /\ ctl' = "send" =>
         /\ published'.online[c] => built.age[c] <= Timeout \/ c \in raced
         /\ ~published'.online[c] => built.age[c] + elapsed > Timeout]_vars

\* A published position is one the motor has reported, and never goes back to an
\* earlier one or to none, whatever frames are lost, dropped as echoes, merged or
\* answered meanwhile.
FeedbackInOrder ==
  [][/\ published'.position >= published.position
     /\ published'.position <= samples']_vars

\* When the rx thread has ended, every channel is soon published as offline, and
\* stays so.
SilenceShown ==
  rx = "dead" ~> [](\A c \in Channel : ~published.online[c])
=============================================================================
