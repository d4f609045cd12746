--------------------------- MODULE RobotController ---------------------------
(***************************************************************************)
(* The control loop of controller.py, from the end of start() to STOPPED,  *)
(* with the operator mailbox it reads and the clients around it.           *)
(*                                                                         *)
(* The operator command is one slot of shared memory that the dashboard    *)
(* overwrites and the loop reads, without any lock, once per tick.  A tick *)
(* consumes the command, updates the mode, sends one frame per actuator    *)
(* (the CAN daemon may refuse any of them: the loop then ends) and         *)
(* publishes the robot state.                                              *)
(***************************************************************************)
EXTENDS ControlModeFsm, Integers

CONSTANTS
  Actuators,    \* CAN ids of the robot's actuators
  Capacity,     \* zero_targets slots of an operator command
  Commands,     \* what the dashboard publishes (the body of a command)
  PolicyCommands, \* the sets of CAN ids a policy command can name
  Chunks,       \* the parts of a command a concurrent reader sees whole
  MaxCommands   \* bound: operator commands published in a behaviour

Fields == {"ts", "code", "count", "magic", "targets"}

Slots == 1 .. Capacity

\* CAN id 0 marks an unused slot.
Body == [code: CommandWord, count: Nat, magic: BOOLEAN, targets: [Slots -> Nat]]

ASSUME ControllerAssumption ==
  /\ Actuators \subseteq Nat \ {0}
  /\ Capacity \in Nat
  /\ Commands \subseteq Body
  /\ Chunks \subseteq SUBSET Fields
  /\ UNION Chunks = Fields
  /\ MaxCommands \in Nat

VARIABLES
  mailbox,      \* the operator command segment as a reader sees it
  writing,      \* the last command the dashboard began to copy into it
  left,         \* the chunks of it that are not copied yet
  lastConsumed, \* _last_consumed_operator_timestamp_ns
  op,           \* the command word this tick acts upon
  mode, age,    \* ControlModeFsm
  pc, todo,     \* where the controller is; actuators still to be told
  running,      \* _running
  source,       \* _last_output_source
  published,    \* mode and output source last written to control_state
  told,         \* the last frame of each actuator the CAN daemon accepted
  warned        \* shutdown could not disable every actuator

operatorVars == <<mailbox, writing, left>>
fsmVars == <<lastConsumed, op, mode, age>>
outputVars == <<pc, todo, source, told, warned>>
vars == <<operatorVars, fsmVars, outputVars, running, published>>
-----------------------------------------------------------------------------
Frames == {"NONE", "DISABLE", "ENABLE", "ZERO_SET", "DAMPING", "POLICY"}

FrameFor(m) ==
  IF m = "ENABLING" THEN "ENABLE"
  ELSE IF m = "ZERO_SETTING" THEN "ZERO_SET"
  ELSE IF m = "DAMPING" THEN "DAMPING"
  ELSE IF m = "NORMAL" THEN "POLICY"
  ELSE "DISABLE"

\* No timestamp consumed yet: below every timestamp, and equal to none.  A read
\* of the segment before its first timestamp arrives has timestamp 0.
None == -1

ControlPoint == {"idle", "send", "exit", "shutdown", "stopped"}

Command == [ts: Nat, code: CommandWord, count: Nat, magic: BOOLEAN,
            targets: [Slots -> Nat]]

\* A zeroed command; with a timestamp, the released one of a repeated command.
Released(ts) == [ts |-> ts, code |-> "NONE", count |-> 0, magic |-> FALSE,
                 targets |-> [i \in Slots |-> 0]]

TypeOK ==
  /\ mailbox \in Command /\ writing \in Command
  /\ left \subseteq Chunks
  /\ lastConsumed \in Nat \cup {None} /\ op \in CommandWord
  /\ mode \in ControllerMode /\ age \in 0 .. EnableDuration
  /\ pc \in ControlPoint /\ todo \subseteq Actuators
  /\ running \in BOOLEAN /\ warned \in BOOLEAN
  /\ source \in Frames
  /\ published \in [mode: ControllerMode, source: Frames]
  /\ told \in [Actuators -> Frames]

\* start() has cleared the segments, found every process up and published.
Init ==
  /\ mailbox = Released(0) /\ writing = Released(0) /\ left = {}
  /\ lastConsumed = None /\ op = "NONE"
  /\ mode = "DISABLED" /\ age = 0
  /\ pc = "idle" /\ todo = {}
  /\ running = TRUE /\ warned = FALSE
  /\ source = "NONE"
  /\ published = [mode |-> "DISABLED", source |-> "NONE"]
  /\ told = [a \in Actuators |-> "NONE"]
-----------------------------------------------------------------------------
(***************************************************************************)
(* The dashboard: one event loop, so one command is copied at a time.  Its *)
(* timestamps are modelled by the number of the command.                   *)
(***************************************************************************)
Publish(body) ==
  /\ pc # "stopped"
  /\ left = {}
  /\ writing.ts < MaxCommands
  /\ writing' = [ts |-> writing.ts + 1, code |-> body.code,
                 count |-> body.count, magic |-> body.magic,
                 targets |-> body.targets]
  /\ left' = Chunks
  /\ UNCHANGED <<mailbox, fsmVars, outputVars, running, published>>

\* The unprotected copy of PlainBuffer.write: chunks arrive in any order.
Copied(chunk) ==
  [ts      |-> IF "ts" \in chunk THEN writing.ts ELSE mailbox.ts,
   code    |-> IF "code" \in chunk THEN writing.code ELSE mailbox.code,
   count   |-> IF "count" \in chunk THEN writing.count ELSE mailbox.count,
   magic   |-> IF "magic" \in chunk THEN writing.magic ELSE mailbox.magic,
   targets |-> IF "targets" \in chunk THEN writing.targets
               ELSE mailbox.targets]

StoreChunk(chunk) ==
  /\ pc # "stopped"
  /\ chunk \in left
  /\ mailbox' = Copied(chunk)
  /\ left' = left \ {chunk}
  /\ UNCHANGED <<writing, fsmVars, outputVars, running, published>>
-----------------------------------------------------------------------------
\* _consume_operator_command: a command that asks for something is acted upon
\* once; a repeated one is replaced by a released (NONE) command.
AsksForSomething(cmd) == cmd.code \in OperatorCommandCode \ {"NONE"}

Fresh_Once(cmd) == AsksForSomething(cmd) /\ lastConsumed = None

Fresh(cmd) == AsksForSomething(cmd) /\ cmd.ts # lastConsumed

Consumed_NotReleased(cmd) == cmd

Consumed(cmd) ==
  IF AsksForSomething(cmd) /\ ~Fresh(cmd) THEN Released(cmd.ts) ELSE cmd

\* _zero_set_offsets_by_can_id: the CAN ids named by the first count slots.
Malformed(cmd) == cmd.count > 0 /\ (~cmd.magic \/ cmd.count > Capacity)

NamedIds(cmd) == {cmd.targets[i] : i \in 1 .. cmd.count} \ {0}

\* _send_zero_set_all: no id named means every actuator; unknown ids are
\* skipped.
ZeroSetTargets(cmd) ==
  IF NamedIds(cmd) = {} THEN Actuators ELSE NamedIds(cmd) \cap Actuators

\* The actuators a tick tells something, policyIds being those the policy
\* command names when the loop reads it.
Recipients_EstopNamedOnly(m, cmd, policyIds) ==
  IF m = "ZERO_SETTING" THEN ZeroSetTargets(cmd)
  ELSE IF m \in {"NORMAL", "ESTOP"} THEN policyIds \cap Actuators
  ELSE Actuators

Recipients(m, cmd, policyIds) ==
  IF m = "ZERO_SETTING" THEN ZeroSetTargets(cmd)
  ELSE IF m = "NORMAL" THEN policyIds \cap Actuators
  ELSE Actuators

\* loop(), up to its first frame.  A malformed zero-set raises before any
\* output is recorded; a policy output is recorded after its frames.
BeginTick ==
  /\ pc = "idle" /\ running
  /\ LET cmd  == Consumed(mailbox)
         next == FsmUpdate(mode, cmd.code, age)
     IN  /\ op' = cmd.code
         /\ lastConsumed' = IF Fresh(mailbox) THEN mailbox.ts ELSE lastConsumed
         /\ mode' = next
         /\ age' = AgeAfter(mode, next, age)
         /\ \/ /\ next = "ZERO_SETTING" /\ Malformed(cmd)
               /\ pc' = "exit"
               /\ UNCHANGED <<todo, source>>
            \/ /\ ~(next = "ZERO_SETTING" /\ Malformed(cmd))
               /\ pc' = "send"
               /\ \E ids \in PolicyCommands : todo' = Recipients(next, cmd, ids)
               /\ source' = IF next = "NORMAL" THEN source ELSE FrameFor(next)
  /\ UNCHANGED <<operatorVars, told, warned, running, published>>

SendFrame(a) ==
  /\ pc = "send" /\ a \in todo
  /\ told' = [told EXCEPT ![a] = FrameFor(mode)]
  /\ todo' = todo \ {a}
  /\ UNCHANGED <<operatorVars, fsmVars, pc, source, warned, running, published>>

\* The daemon answers ok: false, or not at all: send_frame raises, and the
\* exception leaves loop() and run().
SendFails ==
  /\ pc = "send" /\ todo # {}
  /\ pc' = "exit"
  /\ todo' = {}
  /\ UNCHANGED <<operatorVars, fsmVars, source, told, warned, running, published>>

\* _publish_state closes the tick; it writes control_state only when its
\* period has elapsed.
EndTick_PolicyNotRecorded ==
  /\ pc = "send" /\ todo = {}
  /\ published' \in {published, [mode |-> mode, source |-> source]}
  /\ op' = "NONE"
  /\ pc' = "idle"
  /\ UNCHANGED <<operatorVars, lastConsumed, mode, age, todo, source, told,
                 warned, running>>

EndTick ==
  /\ pc = "send" /\ todo = {}
  /\ source' = FrameFor(mode)
  /\ published' \in {published, [mode |-> mode, source |-> source']}
  /\ op' = "NONE"
  /\ pc' = "idle"
  /\ UNCHANGED <<operatorVars, lastConsumed, mode, age, todo, told, warned,
                 running>>

\* The IMU request that opens a tick, when configured, is a send like any other.
ImuRequestFails ==
  /\ pc = "idle" /\ running
  /\ pc' = "exit"
  /\ UNCHANGED <<operatorVars, fsmVars, todo, source, told, warned, running,
                 published>>
-----------------------------------------------------------------------------
\* SIGINT or SIGTERM.
RequestStop ==
  /\ running
  /\ running' = FALSE
  /\ UNCHANGED <<operatorVars, fsmVars, outputVars, published>>

\* shutdown(), reached from the end of run() or from an exception.
BeginShutdown_ErrorOnly ==
  /\ pc = "exit"
  /\ running' = FALSE
  /\ source' = "DISABLE"
  /\ todo' = Actuators
  /\ pc' = "shutdown"
  /\ UNCHANGED <<operatorVars, fsmVars, told, warned, published>>

BeginShutdown_AfterErrorNoDisable ==
  /\ pc = "exit" \/ (pc = "idle" /\ ~running)
  /\ running' = FALSE
  /\ source' = "DISABLE"
  /\ todo' = IF pc = "exit" THEN {} ELSE Actuators
  /\ pc' = "shutdown"
  /\ UNCHANGED <<operatorVars, fsmVars, told, warned, published>>

BeginShutdown ==
  /\ pc = "exit" \/ (pc = "idle" /\ ~running)
  /\ running' = FALSE
  /\ source' = "DISABLE"
  /\ todo' = Actuators
  /\ pc' = "shutdown"
  /\ UNCHANGED <<operatorVars, fsmVars, told, warned, published>>

ShutdownSend(a) ==
  /\ pc = "shutdown" /\ a \in todo
  /\ told' = [told EXCEPT ![a] = "DISABLE"]
  /\ todo' = todo \ {a}
  /\ UNCHANGED <<operatorVars, fsmVars, pc, source, warned, running, published>>

\* The first refused frame is logged and the remaining ones are not tried.
ShutdownSendFails ==
  /\ pc = "shutdown" /\ todo # {}
  /\ todo' = {}
  /\ warned' = TRUE
  /\ UNCHANGED <<operatorVars, fsmVars, pc, source, told, running, published>>

\* The children are stopped, the last state is published, memory is released.
FinishShutdown ==
  /\ pc = "shutdown" /\ todo = {}
  /\ pc' = "stopped"
  /\ published' = [mode |-> mode, source |-> source]
  /\ UNCHANGED <<operatorVars, fsmVars, todo, source, told, warned, running>>

ClockTick ==
  /\ pc # "stopped"
  /\ age < EnableDuration
  /\ age' = age + 1
  /\ UNCHANGED <<operatorVars, lastConsumed, op, mode, outputVars, running,
                 published>>

Stopped == pc = "stopped" /\ UNCHANGED vars

Controller ==
  \/ BeginTick
  \/ \E a \in Actuators : SendFrame(a) \/ ShutdownSend(a)
  \/ EndTick
  \/ BeginShutdown
  \/ FinishShutdown

Next ==
  \/ Controller
  \/ SendFails \/ ShutdownSendFails \/ ImuRequestFails
  \/ \E body \in Commands : Publish(body)
  \/ \E chunk \in Chunks : StoreChunk(chunk)
  \/ RequestStop
  \/ ClockTick
  \/ Stopped

\* The loop and the clock go on, and a copy once begun is finished.
Fairness ==
  /\ WF_vars(Controller)
  /\ WF_vars(\E chunk \in Chunks : StoreChunk(chunk))
  /\ WF_vars(ClockTick)

Spec == Init /\ [][Next]_vars
FairSpec == Spec /\ Fairness
-----------------------------------------------------------------------------
AllTold(frame) == \A a \in Actuators : told[a] = frame

FramesAtRest(m) ==
  IF m = "DISABLED" THEN {"NONE", "DISABLE"}
  ELSE IF m = "NORMAL" THEN {"DAMPING", "POLICY"}
  ELSE IF m = "ZERO_SETTING" THEN Frames
  ELSE {FrameFor(m)}

\* Between two ticks no actuator is left with a frame of another mode, whatever
\* was refused, skipped or read before (loop: exactly one output path per tick,
\* completed or ended by an exception).  Under NORMAL an actuator the policy
\* does not name still holds; a zero-set may leave the unnamed ones alone.
FramesFollowMode ==
  pc = "idle" => \A a \in Actuators : told[a] \in FramesAtRest(mode)

\* ESTOP is left for DISABLED alone, and only by a RESET_FAULT acted upon in
\* that very step: no earlier, repeated or released command unlatches it.
EstopLatch ==
  [][mode = "ESTOP" /\ mode' # "ESTOP"
       => mode' = "DISABLED" /\ op' = "RESET_FAULT"
          /\ lastConsumed' > lastConsumed]_vars

\* A timestamp is acted upon once: but for the two automatic transitions, the
\* mode changes only in a tick that consumes the timestamp in the mailbox, newer
\* than all consumed before.  So a command that was consumed and could not be
\* obeyed never takes effect later, and one standing in the mailbox takes effect
\* once.  (Read torn, word before timestamp, a command can take effect under a
\* timestamp that asked for nothing or was never read, then again under its own.)
TimestampActedUponOnce ==
  [][mode' # mode
       => \/ lastConsumed' = mailbox.ts /\ mailbox.ts > lastConsumed
          \/ <<mode, mode'>> \in {<<"ENABLING", "DAMPING">>,
                                  <<"ZERO_SETTING", "DISABLED">>}]_vars

SourcesUnder(m) == {FrameFor(m)} \cup (IF m = "DISABLED" THEN {"NONE"} ELSE {})

\* What the dashboard reads while the loop runs is one tick's mode with that
\* tick's output; only the last write of shutdown() may pair a mode with the
\* disable output of the shutdown.
PublishedCoherent ==
  pc # "stopped" => published.source \in SourcesUnder(published.mode)

\* A controller that stopped, after a signal, a refused frame in mid-tick or a
\* malformed zero-set, has told every actuator to disable, or has logged that
\* it could not.
StoppedMeansDisabled == pc = "stopped" => AllTold("DISABLE") \/ warned

\* The inductive invariant behind the four invariants above: timestamps only
\* grow along the path from the dashboard to the loop, and what holds at the
\* end of a tick, or of a shutdown, already holds of the actuators served.
TimestampsOrdered ==
  lastConsumed <= mailbox.ts /\ mailbox.ts <= writing.ts

ServedFollowMode ==
  pc = "send" => \A a \in Actuators \ todo : told[a] \in FramesAtRest(mode)

ServedAreDisabled ==
  pc \in {"shutdown", "stopped"} =>
    warned \/ \A a \in Actuators \ todo : told[a] = "DISABLE"

NothingLeftWhenStopped == pc = "stopped" => todo = {}

ControllerInv ==
  /\ TypeOK
  /\ TimestampsOrdered
  /\ FramesFollowMode /\ ServedFollowMode
  /\ ServedAreDisabled /\ NothingLeftWhenStopped
  /\ PublishedCoherent

\* As long as the mailbox holds a completely written ESTOP, every tick ends in
\* mode ESTOP (ControlModeFsm: "ESTOP must override every other command").
EstopObeyed ==
  [][pc = "idle" /\ pc' = "send" /\ left = {} /\ mailbox.code = "ESTOP"
       => mode' = "ESTOP"]_vars

\* ZERO_SET is one-shot: zero frames are being sent only by the tick that
\* acts upon a ZERO_SET command.
ZeroSetIsOneShot ==
  pc = "send" /\ mode = "ZERO_SETTING" => op = "ZERO_SET"

\* The last command published is eventually acted upon or superseded.
LastCommandConsumed ==
  \A n \in 1 .. MaxCommands :
    (writing.ts = n /\ AsksForSomething(writing))
      ~> (lastConsumed = n \/ writing.ts > n \/ pc = "stopped")

\* ENABLING is always left: the motors are not kept enabled without damping.
ArmingEnds == mode = "ENABLING" ~> (mode # "ENABLING" \/ pc = "stopped")

\* A stop signal is obeyed from any point of a tick.
StopHonoured == ~running ~> pc = "stopped"

\* An ESTOP that was consumed reaches every actuator, through the loop or,
\* when frames are refused, through the shutdown, unless that fails too.
EstopReachesMotors == mode = "ESTOP" ~> (AllTold("DISABLE") \/ warned)
-----------------------------------------------------------------------------
AuthorityOf(m) ==
  IF m = "DISABLED" THEN "off"
  ELSE IF m = "ENABLING" THEN "arm"
  ELSE IF m = "ZERO_SETTING" THEN "zero"
  ELSE IF m = "DAMPING" THEN "hold"
  ELSE IF m = "NORMAL" THEN "drive"
  ELSE "latched"

Authority == INSTANCE MotorAuthority
  WITH authority <- AuthorityOf(mode), told <- told,
       halted <- pc \in {"shutdown", "stopped"}

\* The loop implements the authority it promises over the motors.
ImplementsAuthority == Authority!Spec
=============================================================================
