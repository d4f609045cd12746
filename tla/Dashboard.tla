------------------------------ MODULE Dashboard ------------------------------
(***************************************************************************)
(* What the dashboard shows and permits: robot_state_shm.py and the        *)
(* monitor state of state.py, from which app.py builds every snapshot, and *)
(* the gate of the zero-set buttons.                                       *)
(*                                                                         *)
(* A dashboard maps the segments that have the names when it is imported   *)
(* and keeps them; a controller that is started again after a crash makes  *)
(* new ones.  Snapshots are computed on request, so they are operators of  *)
(* the state.  One motor; the mode the controller publishes is arbitrary   *)
(* here (RobotController has the state machine).                           *)
(*                                                                         *)
(* Ages count ticks of the clock and stay at a limit + 1: longer, or never.*)
(***************************************************************************)
EXTENDS Naturals

CONSTANTS
  Modes,           \* the numbers of ControllerMode that are published
  FeedbackTimeout, \* feedback_timeout_s of the controller
  StaleTimeout,    \* stale_timeout_s
  NodeTimeout,     \* node_timeout_s
  MaxRuns          \* bound: runs of the controller

ASSUME DashboardAssumption ==
  /\ Modes \subseteq 1 .. 6
  /\ FeedbackTimeout \in Nat /\ StaleTimeout \in Nat /\ NodeTimeout \in Nat
  /\ MaxRuns \in Nat \ {0}

VARIABLES
  run,      \* the current or last run of the controller
  up,       \* it is running
  linked,   \* its segments still have their names
  segment,  \* per run: the control state segment
  bus,      \* time since the motor's last frame on the bus
  merged,   \* time since the last one the running controller merged
  attached, \* the run whose segments the dashboard has mapped; 0: no dashboard
  socket,   \* the dashboard's CAN socket is open
  monitor,  \* time since the last frame the dashboard saw itself
  request   \* a zero-set request that has passed the gate is "open"

controllerVars == <<run, up, linked, segment, merged>>
dashboardVars == <<attached, socket, monitor, request>>
vars == <<controllerVars, bus, dashboardVars>>

Longest == FeedbackTimeout + StaleTimeout + NodeTimeout
Later(t, limit) == IF t <= limit THEN t + 1 ELSE t
Row == {"online", "offline"}

\* mode 0 is a segment without a state; row is the motor's, and next the row
\* that a write in progress has yet to store.
Segment == [mode : {0} \cup Modes, stamp : 0 .. StaleTimeout + 1, row : Row,
            next : Row \cup {"none"}]

TypeOK ==
  /\ run \in 1 .. MaxRuns /\ up \in BOOLEAN /\ linked \in BOOLEAN
  /\ segment \in [1 .. MaxRuns -> Segment]
  /\ bus \in 0 .. Longest + 1
  /\ merged \in 0 .. FeedbackTimeout + 1 /\ monitor \in 0 .. NodeTimeout + 1
  /\ attached \in 0 .. run /\ socket \in BOOLEAN /\ request \in {"idle", "open"}
  /\ attached = 0 => request = "idle" /\ ~socket
  /\ up => linked

Cleared == [mode |-> 0, stamp |-> StaleTimeout + 1, row |-> "offline", next |-> "none"]

Init ==
  /\ run = 1 /\ up = TRUE /\ linked = TRUE
  /\ segment = [r \in 1 .. MaxRuns |-> Cleared]
  /\ bus = Longest + 1 /\ merged = FeedbackTimeout + 1
  /\ attached = 0 /\ socket = FALSE
  /\ monitor = NodeTimeout + 1 /\ request = "idle"
-----------------------------------------------------------------------------
(***************************************************************************)
(* The snapshot.                                                           *)
(***************************************************************************)
\* An open mapping can always be read, whether or not it still has a name.
ReadChannel_NeverStale ==
  IF segment[attached].mode = 0 THEN "waiting" ELSE "online"

ReadChannel ==
  IF segment[attached].mode = 0 THEN "waiting"
  ELSE IF segment[attached].stamp > StaleTimeout THEN "stale" ELSE "online"

\* _mode_name counts from DISABLED; ControllerMode has UNKNOWN before it.
ModeName(n) ==
  CASE n = 0 -> "DISABLED" [] n = 1 -> "ENABLING" [] n = 2 -> "NORMAL"
    [] n = 3 -> "DAMPING" [] n = 4 -> "ZERO_SETTING" [] n = 5 -> "ESTOP"
    [] OTHER -> "MODE_6"

\* The fields of a state that the snapshot uses.
RobotStateToDict(state) == [controller_state |-> ModeName(state.mode), motor |-> state.row]

MonitorRow == IF monitor <= NodeTimeout THEN "online" ELSE "offline"

\* The rows of the monitor are replaced by those of any state, stale or not.
MotorRow == IF ReadChannel = "waiting" THEN MonitorRow
            ELSE RobotStateToDict(segment[attached]).motor

\* There is no safety_state of its own: the controller's state stands for it.
ControllerSnapshot ==
  [status |-> ReadChannel,
   safety_state |-> IF ReadChannel = "waiting" THEN "None"
                    ELSE RobotStateToDict(segment[attached]).controller_state]

\* current_controller_safety_state: None unless the channel is online.
SafetyState ==
  IF ControllerSnapshot.status = "online" THEN ControllerSnapshot.safety_state ELSE "None"

RequireControllerState(allowed) == SafetyState \in allowed
-----------------------------------------------------------------------------
(***************************************************************************)
(* The bus and the controller.                                             *)
(***************************************************************************)
\* A frame of the motor; the controller and the dashboard may each miss it.
Frame ==
  /\ bus' = 0
  /\ merged' = merged \/ (up /\ merged' = 0)
  /\ monitor' = monitor \/ (socket /\ monitor' = 0)
  /\ UNCHANGED <<run, up, linked, segment, attached, socket, request>>

ControllerRow == IF merged <= FeedbackTimeout THEN "online" ELSE "offline"

\* The loop builds a state and writes it without a lock: the stamps and the
\* mode first ...
PublishHead ==
  /\ up /\ segment[run].next = "none"
  /\ \E m \in Modes :
       segment' = [segment EXCEPT ![run] =
         [mode |-> m, stamp |-> 0, row |-> segment[run].row, next |-> ControllerRow]]
  /\ UNCHANGED <<run, up, linked, merged, bus, dashboardVars>>

\* ... then the motors.
PublishMotors ==
  /\ up /\ segment[run].next # "none"
  /\ segment' = [segment EXCEPT ![run].row = segment[run].next, ![run].next = "none"]
  /\ UNCHANGED <<run, up, linked, merged, bus, dashboardVars>>

\* A crash leaves the segments behind, a shutdown removes them.
ControllerEnds ==
  /\ up /\ up' = FALSE
  /\ linked' \in BOOLEAN
  /\ UNCHANGED <<run, segment, merged, bus, dashboardVars>>

\* cleanup_stale and create_all: new segments, which no dashboard has mapped.
Restart ==
  /\ ~up /\ run < MaxRuns
  /\ run' = run + 1 /\ up' = TRUE /\ linked' = TRUE
  /\ merged' = FeedbackTimeout + 1
  /\ UNCHANGED <<segment, bus, dashboardVars>>
-----------------------------------------------------------------------------
(***************************************************************************)
(* The dashboard.                                                          *)
(***************************************************************************)
\* Without the segments the import raises and no dashboard starts.
DashboardStarts ==
  /\ attached = 0 /\ linked
  /\ attached' = run
  /\ monitor' = NodeTimeout + 1
  /\ UNCHANGED <<controllerVars, bus, socket, request>>

DashboardEnds_Detached ==
  /\ attached # 0
  /\ attached' = 0 /\ socket' = FALSE
  /\ UNCHANGED <<controllerVars, bus, monitor, request>>

DashboardEnds ==
  /\ attached # 0
  /\ attached' = 0 /\ socket' = FALSE /\ request' = "idle"
  /\ UNCHANGED <<controllerVars, bus, monitor>>

\* socketcan_loop opens its socket, and closes it after an error.
Reconnect ==
  /\ attached # 0
  /\ socket' = ~socket
  /\ UNCHANGED <<controllerVars, bus, attached, monitor, request>>

\* publish_operator_zero_set: the gate; a request that does not pass is refused.
ZeroSetGate ==
  /\ attached # 0 /\ request = "idle"
  /\ RequireControllerState({"NORMAL"})
  /\ request' = "open"
  /\ UNCHANGED <<controllerVars, bus, attached, socket, monitor>>

\* The command goes to the mailbox of the run the dashboard is attached to.
ZeroSetPublish ==
  /\ request = "open"
  /\ request' = "idle"
  /\ UNCHANGED <<controllerVars, bus, attached, socket, monitor>>

Tick ==
  /\ segment' = [r \in 1 .. MaxRuns |->
       [segment[r] EXCEPT !.stamp = Later(segment[r].stamp, StaleTimeout)]]
  /\ bus' = Later(bus, Longest)
  /\ merged' = Later(merged, FeedbackTimeout)
  /\ monitor' = Later(monitor, NodeTimeout)
  /\ UNCHANGED <<run, up, linked, attached, socket, request>>

Next ==
  \/ Frame \/ PublishHead \/ PublishMotors \/ ControllerEnds \/ Restart
  \/ DashboardStarts \/ DashboardEnds \/ Reconnect
  \/ ZeroSetGate \/ ZeroSetPublish \/ Tick

\* Time passes; nothing else has to happen.
Spec == Init /\ [][Next]_vars /\ WF_vars(Tick)
-----------------------------------------------------------------------------
\* A motor shown as online on a channel that is not stale has been on the bus
\* within the timeouts that lie between it and the page, even if the controller
\* has crashed or been restarted and whether the row is the controller's or the
\* dashboard's own, unless the state is torn by a write that is not complete.
\* (The rows of a stale channel are not marked, only the channel is.)
ShownOnlineIsRecent ==
  attached # 0 /\ MotorRow = "online" /\ segment[attached].next = "none" =>
    /\ ReadChannel = "online" => bus <= FeedbackTimeout + StaleTimeout
    /\ ReadChannel = "waiting" => bus <= NodeTimeout

Ended(r) == r < run \/ (r = run /\ ~up)

\* A dashboard that is attached to the segments of a controller that has ended
\* soon stops showing it as online, for good: also when another controller runs.
DeadControllerShown ==
  \A r \in 1 .. MaxRuns : Ended(r) ~> [](attached = r => ReadChannel # "online")

\* The dashboard lets a zero-set pass only in NORMAL (3 in ControllerMode), as
\* the tests of its command API have it.
ZeroSetNeedsNormal ==
  [][request = "idle" /\ request' = "open" => segment[attached].mode = 3]_vars
=============================================================================
