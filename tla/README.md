# TLA+ verification of the QHRR0 robot controller

QHRR0-control drives the CAN actuators of a legged robot from Python: a control loop (500 Hz) with
a mode state machine, a CAN daemon that owns the bus, a web dashboard, a neural-network task
controller and a supervisor that starts and stops them. The processes share memory segments and
Unix sockets. Nothing in it is large; what makes it hard is that eight processes and some twenty
threads meet in a handful of unlocked slots, queues and pid files, and that a mistake moves a motor.

This directory holds the TLA+ models of that program, the TLC configurations that check them on
small instances, and the proofs that TLAPS checks. `PROJECT.json` lists the runs, the mutants (one
plausible bug per property, which TLC finds), the source lines each definition stands for, the
findings and the hazards.

To check a run: `tlc -config RobotController_torn.cfg MCRobotController.tla`.
To check a proof: `tlapm MotorSystemProofs.tla`.

Paths below are relative to `src/qhrr0/app/` unless they start with `src/`.

The repository is in the middle of a move at this commit: some modules it imports are not in it
(`robot_controller/config`, `qhrr0_hw`, `shm/types/consts`, `shm/types/aux_command.py`,
`shm/types/control_command.py`, `subprocesses/aux_buttons`), and the keys of the shipped policy yaml
are not all those that `policy_runner.py` reads. The code that is there is modelled as it reads; the
fields of an absent type are those its users name.

## 1. The system

| component | state | operations | talks to | module |
|---|---|---|---|---|
| **Mode state machine** `robot_controller/state_machine.py` | mode, mode_enter_time | `update` through safety, operator and automatic layer | called by the control loop | `ControlModeFsm` |
| **Control loop** `robot_controller/controller.py` | last consumed timestamp, output source, fault flags, `_running` | `loop`, one send path per mode, `_build_robot_state_c`, `_publish_state`, `request_stop`, `shutdown` | mailbox, policy command, sensor and state segments; CAN daemon; supervisor | `RobotController`, `Feedback` |
| **Operator mailbox** `shm/types/commands.py`, `dashboard/backend/operator_commands.py` | one command in a `PlainBuffer` | publish (the copy stores the fields in no promised order), read | dashboard writes, loop reads, no lock | `RobotController` |
| **Shared buffers** `shm/helper/buffer.py` | payload, sequence counters, active index | `write`, `read_consistent`, `read_relaxed`, `clear` | every process | `SeqLockBuffer`, `DoubleBuffer` |
| **CAN daemon, transmit** `can_daemon/main.py`, `hal/can_bus/daemon.py`, `process_client.py` | sockets, handler threads, bounded queue, tx thread, stop events | connect, send, queue, transmit, stop | control loop and tools | `CanTxPath` |
| **CAN daemon, receive** same, with `dispatcher.py`, `process_transport.py` | subscriber lists, rx threads, echo window | read bus, broadcast, dispatch by id, drop own echoes | drivers | `Feedback` (partly) |
| **Drivers and managers** `hal/hardware/can/...` | actuator/IMU states, pending transaction | decode, merge, fault flags, request/answer | control loop (other thread) | `Feedback` (partly) |
| **Protocols** `hal/driver/...` | none | fixed-point packing of MIT commands, decoding | drivers | `SpgProtocol` |
| **Process supervisor** `process_supervisor/` | terminals, pid files | `start`, `stop`, `is_alive`, `start_all`, `stop_all` | owned by the controller, and a second one by the dashboard | `ProcessSupervisor` |
| **Controller start-up** `robot_controller/main.py`, `shm/manager.py` | phase of start, signal handlers, segments | start, run, shutdown on exception or signal, crash and restart | everything | `ControllerLifecycle` |
| **Dashboard backend** `subprocesses/dashboard/backend/` | snapshots, monitor rows, process view | command endpoints with gates, process endpoints | mailbox, state segments, CAN bus, supervisor | `Dashboard`, `MonitorDecoders` |
| **CAN monitor** `src/tools/can_monitor.py` | rows and counters | decode, count, poll the IMU | CAN bus | `MonitorDecoders` |
| **Task controller** `subprocesses/task_controller/` | button edge, last actions | read sensors, infer, publish policy command | sensor and policy segments | `TaskController` |
| **Joystick reader** `subprocesses/aux_reader/` | axes and buttons | one writer of one slot | task controller | `TaskController` |
| **Simulated firmware** `src/third_party/mujoco/simulate/mujoco_can/` | per motor: enabled, latched command, zero-set hold | `on_can_frame`, apply the latched command in each simulation step, `reset_model` | CAN bus | `MotorFirmware`, `MotorSystem` |
| Frontend, configuration, simulated IMU, vendored MuJoCo and ONNX | | | | section 8 |

What is hard in each, and what would make it correct:

- *Control loop.* Reads of the mailbox race with the dashboard's copy; any of a tick's sends can
  raise; a signal can come anywhere. Correct: the motors never mix the frames of two modes between
  ticks, are driven by the policy only after a complete damping tick, an emergency stop is latched,
  no old command takes effect later, and however the loop ends every motor is told to disable or
  the failure is reported.
- *Shared buffers.* Copies are not atomic, writers crash in mid-write and are restarted, readers
  retry. Correct: a consistent read returns one whole snapshot that was current during the read; a
  successor of a dead writer makes the buffer readable again.
- *CAN daemon.* One handler thread per client, one tx thread, a bounded queue and a shutdown in
  several steps. Correct: frames of a client keep their order, an acknowledged frame is not lost
  while the daemon serves, no client hangs whatever dies.
- *Receive path and drivers.* Two locks where one is needed, an echo filter that matches by bytes,
  a deque iterated while it grows, an rx thread nobody restarts. Correct: published flags belong to
  the published ages, positions never go back, and silence is shown as silence.
- *Protocols and monitors.* The same frames are packed or decoded by the driver, the dashboard, the
  terminal monitor and the firmware, each with code of its own. Correct: what arrives is what was
  commanded within a rounding that is known, and all watchers read a frame alike.
- *Firmware.* A latched command has no timeout, and a zero-set discards commands for a while.
  Correct: a disabled motor stays off whatever was under way, the policy takes over only from holding.
- *Supervisor.* Two owners, pid files written by a shell some time after the launch, terminals that
  die before their child. Correct: what runs is known to somebody, unless a race that can be named
  hid it; a stop achieves what its caller may expect.
- *Start-up.* An exception or a signal in any phase, processes of a crashed run with segments that
  have lost their names. Correct: a process of this run uses this run's segments; a stop ends.
- *Dashboard.* It keeps the segments it found when it was imported, whoever writes them now.
  Correct: what it shows as online was on the bus recently, a dead controller is not shown as alive.

`PROJECT.json` "hazards" lists these one by one, at the line where they bite, with the properties
that cover them; a note says why where none does.

## 2. Modules

```
ControlModeFsm  <-- RobotController                        (MCRobotController: instances)
                      |  +-- INSTANCE MotorAuthority       what the loop promises the motors
                      |
MotorFirmware <-- MotorSystem <-- MotorSystemProofs        (MCMotorSystem)
                                  both modules' theorems

SequenceCounter <-- SeqLockBuffer <-- SeqLockBufferProofs  (MCSeqLockBuffer)
               \<-- DoubleBuffer  <-- DoubleBufferProofs   (MCDoubleBuffer)
                      +-- both INSTANCE SnapshotRegister   what a consistent read promises

CanTxPath <-- CanTxPathProofs                              (MCCanTxPath)
Feedback  <-- FeedbackProofs                               (MCFeedback, also extends ProtocolChecks)

ProcessSupervisor <-- ControllerLifecycle <-- ControllerLifecycleProofs  (MCControllerLifecycle)
Dashboard <-- DashboardProofs                              (MCDashboard)

SpgProtocol <-- MonitorDecoders <-- ProtocolProofs
           \<-- TaskController  <--/
ProtocolChecks    INSTANCEs MonitorDecoders and TaskController
```

A definition named `Name_Variant` (`InitShm_KeepsStale`, `MergePosition_Accumulated`) is the
definition `Name` with a plausible bug. No specification uses it; mutation runs put it in `Name`'s
place to see that the property notices.

### ControlModeFsm, RobotController, MotorAuthority

`ControlModeFsm` has the three layers of `state_machine.py` as operators, in the order the code
tries them; `FsmUpdate` is `update`, `AgeAfter` is `_enter`. Time is the age of the current mode.

`RobotController` is `controller.py` from the end of `start()`:

| model | code |
|---|---|
| `mailbox`, `writing`, `left` | the operator command segment and a copy in progress |
| `Publish`, `StoreChunk` | `publish_operator_command`, then `PlainBuffer.write` in pieces |
| `BeginTick` | `loop` up to the first frame: read, `_consume_operator_command`, `update`, choice of the output path; also the exception for a malformed zero-set |
| `SendFrame`, `SendFails`, `ImuRequestFails` | the for-loops over the actuators, and `send_frame` raising in them |
| `EndTick` | the record of the output source and `_publish_state` (throttled: it may write or not) |
| `RequestStop`, `BeginShutdown` ... `FinishShutdown` | signal, `shutdown` with its try blocks |
| `told` | the last frame of each actuator that the CAN daemon accepted |

The constant `Chunks` says which parts of a command a reader sees whole: `{{"ts"}, {"code"}, ...}`
is the deployed `PlainBuffer`; `{Fields}` is a buffer with consistent reads. Within a tick the model
sends to the actuators in any order, of which the dictionary order of the code is one. A frame
whose send raised counts as not accepted.

`MotorAuthority` is the promise, without mailbox, clock or loop: drive only after every motor was
told to hold; the emergency stop is cleared only once every motor was told to switch off; after the
halt, only switch off. `ImplementsAuthority` is the refinement, with `authority <- AuthorityOf(mode)`.

### MotorFirmware, MotorSystem

`MotorFirmware` is what one simulated motor does with a frame: `OnCanFrame` is `on_can_frame` of
`src/third_party/mujoco/simulate/mujoco_can/spg_firmware.cc` with its handlers, `latched` the command
the bridge keeps for the actuator, `AppliesTorque` the condition under which
`apply_commands_to_mujoco` computes a torque. Positions and gains are left out; clear-error frames
are never sent by the controller and `fault_` is never set. `hold` is where the simulated time is
with respect to `ignore_control_until_time_`: a hold is running, over, or there never was one
(`Discards` says when it makes a motor ignore a control frame). Simulated time stands still while the
simulator is paused, though frames are handled, runs slower when it is slowed down, and is set back by
Reset, by a key frame and by the history; so nothing relates the end of a hold to the controller's
clock (`RunSimulation`), and one that was over can be there again (`SetTimeBack`).

`MotorSystem` is `RobotController` with the bus and the motors. Its `Loop` is every step of the
control loop, where a frame the CAN daemon accepts is put on the `bus`; `Deliver` gives the oldest
frame to its motor, `Lose` is a send that raises in the tx thread, `FinishAndDrop` the end of the
daemon by `stop_all`, which drops what is queued; `ResetSimulator` is the load of a model. Two
histories: `lost` remembers the motors a frame of which did not arrive, `deaf` those whose last frame a
hold discarded. The controller's clock advances whatever is under way. The state is published in every
tick here, a reduction that no property of this module sees (`RobotController` leaves the throttling
open).

### SnapshotRegister, SeqLockBuffer, DoubleBuffer

`SnapshotRegister` says what a reader may get: one whole snapshot, current (or completely written
and about to be) at some moment of its read. `SeqLockBuffer` and `DoubleBuffer` have one action per
memory access of `write`, `read_consistent` and `read_relaxed`: counter stores, one store per cell
of the payload, loads, the second look at the counter and, in `DoubleBuffer`, the index. `CrashWriter`
kills the writer at any point; the next `BeginWrite` is that of its successor, which finds whatever
counter is there. `Cells` are the parts of a payload that are copied indivisibly. Memory is
sequentially consistent (the target is x86; the code has no fences) and counters do not wrap.

### CanTxPath

The way of a frame from a client to the bus: `CANBusProcessClient` in the tx role, the handler
thread per connection, the bounded queue, the tx thread, and the daemon's main thread with its
shutdown. One action per blocking call or store that another thread can see. A client has one
request under way at a time, as `send` waits for its answer under a lock. `Kill` takes everything
away at any point.

In `can_daemon/main.py` the local class `CANDaemon` hides the imported class of the same name, so
that `_start_can` (line 106), read literally, calls its own constructor with the wrong arguments.
The model constructs the imported one, which is what the rest of the file expects.

### Feedback

The way back: answers of a motor and of the IMU to the state that the loop publishes, with two
threads.

| model | code |
|---|---|
| `Answer`, `Lose` | any device answers; a frame is dropped before the rx thread reads it |
| `Receive`, `Filter`, `FilterRaises`, `Merge` | the rx thread: dispatch by CAN id, the echo filter of `process_transport.py` (and its `RuntimeError` when the deque grew meanwhile, caught by the dispatcher), `on_frame` with `mark_rx` |
| `RxDies` | the end of the rx thread: daemon ended, or subscriber dropped after 0.2 s |
| `SendFrame`, `RememberTxFrame` | the send and, after it, the entry in `recent_tx_frames` |
| `BuildImuFlags` ... `BuildMotorComm` | `_build_robot_state_c`, one action per lock it takes, then the publication |
| `Tick` | time, to the timeout and the echo window |

The published ages are those at the one `now` that `_build_robot_state_c` reads when it begins
(`BuildNow`, `asOfNow`), the flags those at the moment each lock is taken; `elapsed` is the time in
between, and `raced` the channels a frame of which came between the two locked reads that fill
them in. Flag and age may disagree by these two, and by nothing else. A position is the number of its
report, so that order can be stated. The deque's length (512) is not a bound here: entries older
than the window do not match.

### ProcessSupervisor, ControllerLifecycle

`ProcessSupervisor` has `start`, `stop` and `is_alive` of `process_supervisor.py` as steps of a
thread (`op` is where it is), and the life of a launch: the terminal client, the shell that writes
the pid file some time later, the child, their ends. Supervisors do not know of each other; they
share the pid files and nothing else. No lock protects a supervisor either: `stop` keeps the process
it took from `self.process` (`own`), also when a start in another thread replaces it meanwhile. The run
has one thread per supervisor; the theorems hold for threads that share them as they like. `contested` remembers the launches that wrote their pid file in a
race: another shell of the same name was about to write, or an operation on the name was under way.

`ControllerLifecycle` calls it: the phases of `start()` (`INIT_SHM` to `RUNNING`), an exception in
each (a segment that cannot be created, a `Popen` that raises, a bus that does not answer),
`main.py`'s signal handler, `shutdown` with `stop_all`, a crash at any point and the next run,
which finds segments and pid files of the last; and the process endpoints of a dashboard, one call
at a time from a worker. One segment stands for each of the five, as they are handled alike:
`segment` is the run that created the one which has the name, `attached` the one each child opened.
Python's resource tracker unlinks what a process has opened when the process ends (`TrackerActs`,
unless it is killed with it), so that the name may go while the run goes on; a child that finds
none ends (`FindsNone`).

### Dashboard

`robot_state_shm.py` and `state.py` compute a snapshot on each request, so snapshots are operators
of the state: channel status, controller state by name, the motor's row from the segment or, as
long as there is no state, from the dashboard's own monitor. Actions are the publication of a state in two
parts (head, motors), crash, stop and restart of the controller, attach and end of a dashboard, its
own socket, the zero-set gate and the publication after it, and time.

### SpgProtocol, MonitorDecoders, TaskController, ProtocolChecks

Pure operators, one per function, of the frames (`dongilc_protocol.py`, `e2box_protocol.py` and the
unpacking in `spg_firmware.cc`), of the two monitors that decode them again (`can_decode.py`,
`state.py`, `bus_load.py`, `command_api.py`; `can_monitor.py`, whose operators are called `Tool...`)
and of the two processes before the policy command (`aux_reader`, `task_controller` with
`policy_runner.py`). Quantities are integers in small units and decoded values ratios `<<n, d>>`:
floating point is taken as exact, and nothing is rounded that the code does not round. `Error` is
an exception, `None` a missing field. Inference is an argument.

`ProtocolChecks` states what they compute as assumptions over bounded inputs, which TLC evaluates in
the `feedback` run, before it explores states: the code of a value is the nearest one, the window of
the bus load keeps the young events, both monitors show the same except for error frames, the gates
of the motor commands, a round of the task controller with a torn first state.

## 3. Runs

| run | asks | distinct states |
|---|---|---|
| `controller_torn` | the loop over the deployed mailbox, torn reads included: types, `FramesFollowMode`, `PublishedCoherent`, `StoppedMeansDisabled`, `EstopLatch`, `TimestampActedUponOnce`, refinement of `MotorAuthority` | 3 418 840 |
| `controller_whole` | the same with consistent reads, under fairness: `EstopObeyed`, `LastCommandConsumed`, `ArmingEnds`, `StopHonoured`, `EstopReachesMotors` | 137 727 |
| `seqlock` | `ImplementsRegister`, `SuccessorUnblocksReaders`, with crashes of the writer | 825 679 |
| `doublebuffer` | `ImplementsRegister`, `RetriesNeedWrites`, `RelaxedWholeUnlessReused` | 88 029 |
| `can_tx` | `BusFollowsRequests`, `AcceptedAccounted`, and, under fairness, `RequestsAnswered`, `AcceptedSentWhileServing` | 57 075 |
| `feedback` | `OnlineMatchesAge`, `FeedbackInOrder`, and, under fairness, `SilenceShown`; and the assumptions of `ProtocolChecks` | 491 392 |
| `motor_system` | `DisabledMotorsAreOff`, `PolicyTakesOverFromDamping`, and, under fairness, `EstopStopsMotors`, with frames delayed and lost, models loaded, and simulated time that stands still or is set back | 609 334 |
| `lifecycle` | `Tracked`, `StopOutcome`, `ChildrenSeeSegments`, and, under fairness, `StopHonoured`, over crash, restart, failing starts, unlinked segments and a dashboard that interferes | 1 167 708 |
| `dashboard` | `ShownOnlineIsRecent`, and, as time passes, `DeadControllerShown` | 264 390 |
| `zero_set_one_shot`, `torn_estop`, `zero_set_gate` | a statement of the code's own documentation or tests each, violated (section 6) | |

What they show:

- Whatever is torn, refused or interrupted, the loop keeps its promise to the motors. What
  matters is which properties need whole reads and which do not: `FramesFollowMode`, `EstopLatch`, `TimestampActedUponOnce`
  and the refinement survive them, `EstopObeyed` does not (`torn_estop`). A timestamp is acted upon
  once, with whatever word is read beside it; a word that is read beside the wrong timestamp can be
  lost, or be carried out twice (see the observations).
- `controller_whole` is the same loop with the only repair the mailbox needs. Both the promise that
  an ESTOP standing in the mailbox rules every tick and the liveness of the last command hold there.
- A writer's crash blocks the readers of a `SeqLockBuffer` until its successor has written once, and
  never blocks those of a `DoubleBuffer`: each retry of a read there needs one more completed write.
- `read_relaxed` tears only when the writer has flipped away from the slot it reads and stores into it
  again; a writer that merely fills the other slot, or crashes in it, tears nothing. The comment in
  the code ("slot reuse") says as much.
- The bus shows each client's frames in order and never one that was refused. An acknowledged frame
  is sent as long as the daemon runs, whatever sends fail.
- A motor that was told to disable and has been reached applies no torque, though frames are late,
  a hold discards some and a load of a model clears others. The policy takes over from a motor that
  holds, unless a hold made that motor ignore the damping frames (`deaf`). The code sends them for the
  whole of `enable_duration_s` (0.5 s), much longer than the hold (0.02 s), but the two are measured
  on different clocks: with the simulator paused, slowed down or set back, ZERO_SET, ENABLE and RUN are
  enough for a limp takeover, and the run gets there. DAMPING is also accepted straight from
  DISABLED, so that the loop may reach NORMAL with motors that never were enabled; those ignore
  the policy's frames.
- A channel is published as online with an age over the timeout only if a frame came between the
  two locks, and as offline with an age within it only by the time the build itself took, since its ages
  are as of its beginning; a position never goes back. When the rx thread
  has ended, every channel goes offline and stays so: silence is never shown as feedback.
- With two supervisors over the same pid files, a running process that its pid file does not name
  wrote that file in a race of a few milliseconds; no other sequence of starts, stops, crashes and
  restarts gets there. A stop ends whatever the processes do, and what it leaves alive is known: a
  process that it has told to end, but behind a terminal of its own that needed no waiting for.
- A process that this run launched opens this run's segments, or finds none because a tracker has
  unlinked them; never those of a run that crashed while its processes go on. What outlives the
  crash stays on its own.
- A page that shows a motor online on a live channel vouches for a frame within the sum of two
  timeouts, and a controller that has ended stops being shown as online for good.

### Bounds

- *RobotController*: two actuators (partial ticks, and a zero-set that names one of them), one slot
  of zero-set targets with a count of 0 or 1, three published commands with torn
  reads (zero-set, enable and run, or an ESTOP that replaces a command that replaced another) and two
  with all nine command words and whole reads; the words of the torn run are those that move the mode
  or race (ENABLE, RUN, ESTOP, RESET_FAULT, ZERO_SET). An enable period of one or two clock ticks
  (before, at and after its end).
  `MaxCommands` is the only bound on a counter.
- *SeqLockBuffer*: two readers, two cells (a torn copy needs two), three writes (one crashed, one by
  the successor, one more), two tries. *DoubleBuffer*: one reader (readers write nothing), four
  writes, because the writer comes round to a slot after two, three tries. Symmetry over readers and
  cells; these runs check safety only.
- *CanTxPath*: two clients with two frames and one, a queue of one frame, so that it is full, empty
  and contended. `MaxFrames` bounds the frames per client.
- *Feedback*: the motor and one channel of the IMU (`gyro`; all are handled alike), one request that
  is acknowledged with its own bytes, a timeout of no tick and an echo window of one (ages within and
  over it; a build may take longer than the timeout), two
  positions (an order needs two), one answer under way beside the one being dispatched.
- *MotorSystem*: one motor - motors share nothing but the bus, whose order between two of them no
  property uses, and ticks that serve one of two motors are RobotController's - three commands
  (zero-set, enable, damping, run and ESTOP, any three), an enable period of one clock tick, two
  frames under way; a hold is running, over or back again without a bound. The run reaches the limp takeover
  that `deaf` excepts; for any number of commands the property is a theorem.
- *ControllerLifecycle*: three processes - the two protected ones and `task_controller`, the one
  whose launch may fail, or that may end of itself (`Fragile`), and the one that opens the segment
  (`Openers`: `task_controller`, for `mit_command`) - four launches (`MaxLaunches`: a start, one of a
  dashboard, two of a second run), two runs, of which the last does not crash (a third would repeat the
  second), one call of one dashboard worker, which races with the controller's own.
- *Dashboard*: one motor, the modes 2 and 3, which the gate has to tell apart, all timeouts one
  tick, two runs of the controller. The state is read whole but for the write in two parts.

`CHECK_DEADLOCK FALSE` appears in `can_tx`, where the daemon may have been killed and the
clients may have sent all they wanted, and in `lifecycle`, where everything may have been stopped
for good and launches run out. The control loop has an explicit `Stopped` step instead; the
others have no final state.

### Simplifications

Where the model has fewer behaviours than the system, it is one of these:

- *Processes*: a terminal closes at once when its child ends; the system does not give a pid twice; a
  stop does not raise, and SIGKILL is obeyed at once; a call of a dashboard's worker that ends with the
  dashboard counts as under way until the next dashboard starts, so that `Tracked` exempts a race with
  it for longer than the code has it; no exception or signal interrupts `shutdown` between two of its
  steps.
- *Segments*: the five are created and removed together, and one stands for each; a child opens it when
  its shell writes the pid file (both precede its work); a resource tracker acts when its process
  ends or never. (One that is late, past the next `InitShm`, leaves the new run without a name as the
  tracker of an ending child does.)
- *Memory and numbers*: memory is sequentially consistent; sequence counters do not wrap; floating
  point is exact, and a quantity is a number: NaN, which passes the range checks of the encoders
  (`x < lo or x > hi`) and raises where the value is rounded, is left out.
- *Others*: the row of a motor (`NoMotor`) has the fields that decoding changes; the echo deque has no
  length; the state is published in every tick of `MotorSystem`.

### Fairness

Safety is checked under `Spec`. `FairSpec` of RobotController gives weak fairness to the loop (an
OS process that is always runnable), to a copy that was begun (a `memcpy`) and to the clock. It
does *not* promise that a command is published, that a signal comes, nor that a send succeeds. In
CanTxPath each thread is weakly fair separately, as the OS schedules threads; `Terminate`, `Kill`,
`Connect` and `Send` are never required, and whether a send on the bus succeeds is left open:
`TxThread` fairness is met by `TxFails`. MotorSystem asks for weak fairness of the loop and, per motor,
strong fairness of `Deliver`: single frames may be lost, but not all of the frames that the loop
repeats in every tick. Neither the clock nor a command is promised there. Feedback promises the
loop and the clock, and no answer. ControllerLifecycle promises that the controller's main thread goes on (`MainThread`): its phases,
its shutdown once `_running` is false, and the steps of its calls, whose waits have deadlines; no
process has to end, no signal to come. Dashboard promises the clock only.

## 4. Proofs

Eight modules, each for every value of its constants.

**`MotorSystemProofs`, the control loop** - every set of actuators and of commands, every chunking of them, every
number of commands and every enable duration:

- `ControllerInvariant`: `Spec => []ControllerInv`, and from it `TypesHold`, `FramesHold`,
  `PublishedHolds`, `StopHolds`;
- `EstopLatched`, `TimestampsNotReused`: the two action properties;
- `AuthorityImplemented`: `Spec => ImplementsAuthority`;
- `WholeEstopObeyed`: `EstopObeyed`, if commands are read whole (`Chunks = {Fields}`). Torn reads
  violate it (section 6), so the hypothesis is what has to be repaired, not a convenience.

`FramesFollowMode` speaks of the moments between ticks and is not inductive. `ControllerInv` adds
what holds in the middle of one: the actuators *already served* in this tick have a frame of the
new mode (`ServedFollowMode`), those already served in the shutdown are disabled or the failure is
logged (`ServedAreDisabled`), and timestamps only decrease from the dashboard's copy to the mailbox
to the last consumed one (`TimestampsOrdered`, which is why a timestamp that is consumed is a newer
one even when the command is torn; `None`, before the first, is less than the 0 of the empty mailbox). The proof has one lemma per group of actions. The refinement reduces to one
fact: the mode changes only in `BeginTick`, at `pc = "idle"`, where `FramesFollowMode` says what
every motor was told; so a grant of `drive` finds all of them holding.
`EstopObeyed` needs to know in its invariant (`WholeInv`) that a consumed ESTOP which is still in the
mailbox was executed, and that what is being copied over it is newer.

**`SeqLockBufferProofs`** - `SeqLockInvariant`, `SeqLockTypes`, `SuccessorUnblocks`,
`SeqLockImplementsRegister` (`Spec => ImplementsRegister`, refinement and all). `SeqLockInv` says
that an even counter means a whole payload (`EvenMeansStable`), that a write in progress has an odd
one (`WriteInProgress`) - also for a successor that found it odd - and that a reader whose first
counter value is still current copied cells of that very write (`CopiedSinceEven`).

**`DoubleBufferProofs`** - `DoubleBufferInvariant`, `DoubleBufferTypes`, `RetriesAreFlips`,
`RelaxedWhole` (`RelaxedWholeUnlessReused`), `DoubleBufferImplementsRegister`. The writer never waits here, so the invariant has
to say what a slow reader knows of a slot that is being filled again: a slot whose counter is the
one the reader saw holds the snapshot it saw (`SlotSeen`), and what was copied of it is of that
snapshot (`CopyTrue`, `CopyWhole`). Retries are counted by `Flipped`: each turn of the retry loop but the last was
ended by one more write that became current, so that tries are fewer than the writes a read has seen.

**`CanTxPathProofs`** - any clients, frames and size of the queue: `TxInvariant`, `TxTypesHold`,
`BusFollows`, `AcceptedAreAccounted`. Order on the bus is not inductive; `InOrder` is order
within bus and queue and from the bus to the frame in the tx thread's hands to the queue.
`Accounts` is what makes verdicts true although the handler answers after it has queued: a client
waits for its last request only (`OneRequest`), what is under way was asked for (`UnderwayAsked`), and a
verdict is about an earlier frame than the one that is waited for (`VerdictsArePast`).

**`FeedbackProofs`** - any channels, requests, timeouts and numbers of answers: `FeedbackInvariant`,
`FeedbackTypes`, `OnlineIsFresh`, `PositionsInOrder`, and `SilenceStays`, the half of
`SilenceShown` that needs no fairness. What is under way is ahead of what is merged,
in order (`UnderwayInOrder`); the state under construction lies between the published and the
merged one (`PositionsFollow`); an age as of the beginning of the build and the present one
differ by the time elapsed at most, and by nothing but a new frame (`Lag`); flags follow the ages
at their update, and the state under construction follows both (`ImuMatches`, `MotorMatches`), as
far as the channel has not raced.

**`MotorSystemProofs`, loop, bus and motors** - any motors and frames under way, any holds:

- `SystemInvariant` and from it `SystemTypesHold` and `DisabledMotorsStayOff`. `SystemInv` adds to
  `ControllerInv` that the newest frame under way to a motor is the last one it was told
  (`LastIsTold`): when its last frame has been delivered, what the motor latched is what it was
  told, and an exit frame latches "off" whatever the hold. The types are left to the proof; the run
  does not repeat them.
- `SystemRunsController`: `SystemSpec => Spec`, so that the theorems about the loop hold of the system.
- `PolicyFindsHoldingMotors`: `PolicyTakesOverFromDamping`. `PolicyInOrder` follows the frames
  through the bus: the frame before a policy frame is a damping or policy frame, and after one of
  those a motor is not limp and listening (enabled, without a command to hold or drive, not deaf:
  `Limp`); `HeldInNormal` ties the bus to the loop. Nothing is assumed of the durations.

**`ControllerLifecycleProofs`** - any processes, runs, launches and calls, any number of threads that
share any supervisors: `LifecycleInvariant`, `LifecycleTypes`, `ProcessesAreTracked` (`Tracked`),
`StopAchieves` (`StopOutcome`), `SegmentsAreShared` (`ChildrenSeeSegments`).

The properties speak of processes and of finished stops; in between, two threads may have looked at the same
pid file. The invariant says what each of them may still rely on: past its look, a start
relies on there being no *quiet* process of the name (running, not told to end, not come up in a
race), a stop on there being none but the one it has read (`Informed`). That stays true because a
shell that writes its pid meanwhile does so in a race, which is what `contested` is for. With it,
`PidfileTracks` (a quiet process is the one its file names) and `ShellsAlone` (while a shell has not
written yet, its name has no quiet process) are inductive. `StopOutcome` speaks of the process
that the stop has captured (`own`): of `self.process` at the end of the stop it would be false, as another
thread of the supervisor may have replaced it. It says of the process the pid file named no more
than the code gives: told to end, and gone only if the supervisor had no `Popen` under that name, for a
`Popen` of a launch that ended long ago makes the wait return at once. Segments: from the end of
`INIT_SHM` on the name is that of the run's segment or gone (`SegmentOfRun`), and nothing of the
run was launched before (`RunsInOrder`).

**`DashboardProofs`** - any timeouts and runs: `DashboardTypes`, `OnlineIsRecent`
(`ShownOnlineIsRecent`), and `EndedStaysSilent`: a controller that has ended and is not shown as
online never is again, which is the half of `DeadControllerShown` that needs no fairness.
`DashboardInv` has the ages in a row: the last frame on the bus is as young as the one merged and
the one the monitor saw (`MergedFollowsBus`, `MonitorFollowsBus`), and behind a row that says online
there is, as long as its state is fresh, a frame within the feedback timeout and the age of the
state together (`RowsFollowBus`), in a half-written state as well.

**`ProtocolProofs`, frames** - every value, range and width:

- what is commanded arrives: `FieldsSurviveTheFrame`, `CommandArrives`, `CommandWithinHalfStep`,
  `CommandKeepsOrder`, `ClampNeverActs` (the clamp in `float_to_uint` is never needed) and
  `ZeroIsNotOnTheWire` (zero torque and zero position have no code: with the shipped limits a
  commanded zero torque arrives as `tau_max`/255, about 0.13 Nm);
- the encoder's zero: `ZeroOffsetSurvives`, `OffsetMakesThePosition`, `ShortestDeltaLeadsThere`;
- the IMU: `GravityKeepsItsLength`;
- versions of the same code: `EncodersAreNeighbours`, `DashboardLearnsWhatTheDriverLearns`,
  `MonitorsAgree`, `DashboardSeesTheSamePose`.

**`ProtocolProofs`, policy and joystick** - `TargetWithinReach` and, from it, `EncodableExactlyWithinRange`: the
encoder accepts every answer of the network exactly if the whole reach of the policy (clip times scale
around each default angle) lies within the range of the motors. Nothing in the code compares the
two, and the shipped numbers (a reach of 15 rad, a range of 12.5) are on the wrong side: there is an
answer that makes the encoder raise in the control loop. `ActionReachesItsJoint`,
`HistoryOfActions`, `TargetsWithinOne`, and `PolicyGravityIsUncorrected`, about two versions of the
projected gravity that exchange x and y.

Assumptions are those of the modules, each evaluated by TLC: finite constants of the right types,
natural bounds, `SeqModulus > 2 * MaxWrites` (the 64-bit counter does not wrap); and the hypothesis of
`WholeEstopObeyed`, met by the run that checks the property.

Model-checked only: liveness (TLAPS 1.4 has no `ENABLED`), which is `LastCommandConsumed`,
`ArmingEnds`, `StopHonoured`, `EstopReachesMotors`, `RequestsAnswered`, `AcceptedSentWhileServing`,
`EstopStopsMotors` and the other halves of `SilenceShown` and `DeadControllerShown`. The mask of the
buttons and the window of the bus load are checked over bounded inputs in `ProtocolChecks`: both are
sums over data, and induction over data is out of this prover's reach.

## 5. What the properties are for

`PROJECT.json` "mutants" has, for each property, a bug it catches: a latch that lets go, a zero-set
that goes on, a disable frame sent to the named actuators only, a parity check without the
comparison of counters, a queue that drops its oldest frame, a tx thread that dies of one failed
send, a position merged from a frame that has none, segments of a dead run that are not replaced, a
channel that is never stale, and so on.

## 6. Findings

1. **A RUN right after a ZERO_SET zeroes every actuator again** (`zero_set_one_shot`,
   `ZeroSetIsOneShot`). The comment at `state_machine.py:130` calls ZERO_SET one-shot. The mode is
   left only for some command words; RUN is not one of them, so the tick that reads it stays in
   ZERO_SETTING, and since that command names no target, the zero frame goes to all of them.
2. **A torn read loses an ESTOP for good** (`torn_estop`, `EstopObeyed`). A tick that reads the new
   timestamp with the old word records the timestamp as consumed; when the ESTOP word arrives it is
   taken for a repetition and released. The timestamp and the command word are separate fields of
   the struct, so the window is a few stores wide; the dashboard's next press of the button repairs it.
3. **The dashboard's zero-set gate opens in ENABLING and not in NORMAL** (`zero_set_gate`,
   `ZeroSetNeedsNormal`). `_mode_name` counts the modes from DISABLED = 0, the controller publishes
   `ControllerMode`, which has UNKNOWN = 0 before it: ENABLING is shown as NORMAL and opens the gate,
   NORMAL is shown as DAMPING and keeps it closed, ESTOP is shown as MODE_6.

### Observations

Behaviour met while modelling that no document contradicts, so that no run claims a violation:

- *Stopping.* A daemon asked to stop leaves frames it has acknowledged in its queue. A process of
  a supervisor's own that ignores SIGTERM survives the stop, its pid file removed, as only the
  terminal is waited for. A signal handled before the last statement of `start()` is overwritten. A
  dashboard that survives a controller's crash stays on the old segments: its commands are answered
  with ok and reach a mailbox that nobody reads. `command_loss_action` is read by no code.
- *Torn commands.* Before the first command the loop has consumed `None`, so that a first command whose
  word is read beside the timestamp 0 of the empty mailbox is carried out, and again with its own
  timestamp. Later, the new word read beside an old timestamp is taken for a repetition and
  released until the timestamp follows.
- *Zero-set hold.* The hold is in simulated time. Paused, slowed down or set back by Reset (which
  does not call `reset_model`: the 20 ms of the comment become as long as the simulation had run
  before), it outlasts ENABLING, and ZERO_SET, ENABLE, RUN make the policy take over a motor that
  ignored the damping frames and applies no torque. With the simulator at full speed, a DAMPING
  within the hold, which ends ENABLING at once, and a RUN after it do the same.
- *Stale Popen, unlinked names.* A stop by a supervisor whose own launch of that name has ended does not
  wait: the process of the other supervisor is told to end, may go on, and has no pid file. When a
  child ends, Python's resource tracker unlinks the segments it had opened, for the rest of the run: a
  child that is started again finds none and ends.
- *Feedback.* An acknowledgement that repeats its request is taken for an echo, while the daemon's
  socket never sees its own frames: `is_enabled` is hardly ever learnt. Any decoded frame makes a
  channel online, also when no position has come yet (published as 0.0) or no orientation (published
  as upright). The rows of a stale channel keep "online"; only the channel is marked.
- *Policy.* `policy_runner.py` computes gravity from the quaternion without the exchange of x and y
  that the IMU driver applies. The observations `actions` and `last_actions` are the same. A target
  beyond the range of the motors raises in the control loop, and the shipped numbers (a clip of 100,
  a scale of 0.15) allow one. A first state that is read torn lacks a joint and ends the task
  controller, whose last command the loop then repeats.
- *Versions.* The driver rejects frames shorter than eight bytes, the monitors read short
  acknowledgements; the tool cuts an excessive length where the dashboard raises, and drops error
  frames that the dashboard counts. Without a state provider the dashboard's enable gate is open and
  its zero-set gate closed. The endpoints for raw frames and for polls answer 410.

## 7. Plan

What is left, in this order:

1. The daemon's side of an rx client: connect, the list of subscribers, and the order of the
   acknowledgement and the entry in the list.
2. `MotorSystem` with `Feedback`, so that the loop's flags follow from what the motors do.
3. A stop that raises in the middle of `stop_all`.

## 8. Not modelled

- *An rx client's connection* to the CAN daemon and the daemon's list of subscribers: `Feedback` has their
  effect, the end of the rx thread. *`TransactionManager`*: nothing in the repository uses it.
- *The captured zero position and the torque law* of the simulated firmware, and *neural-network
  inference*, are numerical. `RobotController` sees only which CAN ids a policy command names, any
  of them at any tick.
- *The simulated IMU* answers requests and keeps no state; `Feedback` leaves open which answers come.
- *The frontend* keeps no state another component reads; *configuration* is read once before
  anything runs; HTTP, web sockets, plotting and the terminal interface only carry what is modelled.
- *Vendored code*: MuJoCo and the ONNX runtime.
