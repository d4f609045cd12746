-------------------------- MODULE ControllerLifecycle --------------------------
(***************************************************************************)
(* RobotController.start, run and shutdown with main.py: the phases of the *)
(* runtime, the shared-memory segments (shm/manager.py) and the child      *)
(* processes, under signals, failures, a crash of the controller and its   *)
(* restart.  The control loop itself is RobotController's; here it only    *)
(* runs, or raises.                                                        *)
(*                                                                         *)
(* A running dashboard starts and stops processes with a supervisor of its *)
(* own, in worker threads.                                                 *)
(*                                                                         *)
(* One shared-memory segment stands for each of them.  SharedMemory tracks *)
(* what a process opens: when the process ends without having unlinked it, *)
(* its resource tracker unlinks the name, whosever segment has it by then, *)
(* unless the tracker is killed too.                                       *)
(***************************************************************************)
EXTENDS ProcessSupervisor

CONSTANTS
  can_daemon, dashboard, \* the protected names
  Main,                  \* the controller's thread; the others are workers
  StartOrder, StopOrder, \* the names, sorted by start_order and stop_order
  MaxRuns,               \* bound: runs of the controller; the last does not crash
  Openers,               \* the processes that open the segment
  MaxCalls               \* bound: calls of the dashboard's workers

ASSUME LifecycleAssumption ==
  /\ {can_daemon, dashboard} \subseteq Names /\ Main \in Threads
  /\ StartOrder \in Seq(Names) /\ StopOrder \in Seq(Names)
  /\ MaxRuns \in Nat /\ MaxCalls \in Nat
  /\ Openers \subseteq Names

VARIABLES
  phase,    \* runtime_phase; "off" when no controller runs
  running,  \* _running
  todo,     \* the names start_all or stop_all has not come to yet
  runs,     \* runs of the controller so far
  calls,    \* calls of the workers so far
  segment,  \* the run that created the segment that has the name; 0 is none
  attached  \* per launch: the segment it has opened

lifeVars == <<phase, running, todo, runs>>
shmVars == <<segment, attached>>
vars == <<supVars, lifeVars, calls, shmVars>>

Starting == {"INIT_SHM", "START_CAN_DAEMON", "BRINGUP_IMU", "START_CHILD_PROCESSES"}

TypeOK ==
  /\ SupTypeOK
  /\ phase \in Starting \cup {"off", "RUNNING", "ERROR", "SHUTTING_DOWN", "STOPPED"}
  /\ running \in BOOLEAN
  /\ todo \in Seq(Names)
  /\ runs \in 0 .. MaxRuns
  /\ segment \in 0 .. runs /\ calls \in 0 .. MaxCalls
  /\ attached \in [Launches -> 0 .. runs]
  /\ phase \in {"off", "STOPPED"} => op[Main] = "idle"

Init ==
  /\ SupInit
  /\ phase = "off" /\ running = FALSE /\ todo = <<>>
  /\ runs = 0 /\ calls = 0
  /\ segment = 0 /\ attached = [l \in Launches |-> 0]
-----------------------------------------------------------------------------
(***************************************************************************)
(* main and start.                                                         *)
(***************************************************************************)
Up == phase \notin {"off", "STOPPED"}
Idle == op[Main] = "idle"

\* A new controller knows none of the processes that may still run.
Launch ==
  /\ ~Up /\ runs < MaxRuns
  /\ runs' = runs + 1
  /\ phase' = "INIT_SHM" /\ running' = FALSE /\ todo' = <<>>
  /\ process' = [process EXCEPT ![SupervisorOf[Main]] = [n \in Names |-> 0]]
  /\ UNCHANGED <<launches, terminal, child, pidfile, op, target, seen, own,
                 contested, calls, shmVars>>

InitShm_KeepsStale ==
  /\ phase = "INIT_SHM"
  /\ segment' = IF segment = 0 THEN runs ELSE segment
  /\ phase' = "START_CAN_DAEMON"
  /\ CallStart(Main, can_daemon)
  /\ UNCHANGED <<running, todo, runs, calls, attached>>

\* cleanup_stale, create_all and the first start_by_name.
InitShm ==
  /\ phase = "INIT_SHM"
  /\ segment' = runs
  /\ phase' = "START_CAN_DAEMON"
  /\ CallStart(Main, can_daemon)
  /\ UNCHANGED <<running, todo, runs, calls, attached>>

\* A name cannot be created, or a tracker unlinks it before it is opened again.
InitShmFails ==
  /\ phase = "INIT_SHM"
  /\ segment' \in {segment, 0, runs}
  /\ phase' = "ERROR"
  /\ UNCHANGED <<supVars, running, todo, runs, calls, attached>>

Reachable == \E l \in LaunchesOf(can_daemon) : l \in Live

\* can.connect succeeds once a daemon listens, and raises at its deadline.
Connect ==
  /\ phase = "START_CAN_DAEMON" /\ Idle
  /\ Reachable
  /\ phase' = "BRINGUP_IMU"
  /\ UNCHANGED <<supVars, running, todo, runs, calls, shmVars>>

\* The IMU requests are sent and the processes are started in order.
BringupImu ==
  /\ phase = "BRINGUP_IMU"
  /\ phase' = "START_CHILD_PROCESSES"
  /\ todo' = StartOrder
  /\ UNCHANGED <<supVars, running, runs, calls, shmVars>>

StartNext ==
  /\ phase = "START_CHILD_PROCESSES" /\ Idle
  /\ todo # <<>>
  /\ CallStart(Main, Head(todo))
  /\ todo' = Tail(todo)
  /\ UNCHANGED <<phase, running, runs, calls, shmVars>>

\* The last statements of start; a stop request from before is overwritten.
StartDone ==
  /\ phase = "START_CHILD_PROCESSES" /\ Idle
  /\ todo = <<>>
  /\ phase' = "RUNNING" /\ running' = TRUE
  /\ UNCHANGED <<supVars, todo, runs, calls, shmVars>>

\* connect at its deadline, a refused IMU frame, or an exception of start.
StartFails ==
  /\ \/ phase \in {"START_CAN_DAEMON", "BRINGUP_IMU"} /\ Idle
     \/ phase \in Starting /\ op[Main] = "raised"
  /\ phase' = "ERROR"
  /\ Goto(Main, "idle")
  /\ UNCHANGED <<launches, terminal, child, pidfile, process, target, seen, own,
                 contested, running, todo, runs, calls, shmVars>>
-----------------------------------------------------------------------------
(***************************************************************************)
(* run, signals and shutdown.                                              *)
(***************************************************************************)
\* The handler; before StartDone it changes nothing.
Signal ==
  /\ Up /\ running
  /\ running' = FALSE
  /\ UNCHANGED <<supVars, phase, todo, runs, calls, shmVars>>

\* After an exception of start, when run returns, or when the loop raises: the
\* disable frames are sent and the processes are stopped in order.
Shutdown ==
  /\ phase \in {"ERROR", "RUNNING"}
  /\ phase' = "SHUTTING_DOWN" /\ running' = FALSE
  /\ todo' = StopOrder
  /\ UNCHANGED <<supVars, runs, calls, shmVars>>

StopNext ==
  /\ phase = "SHUTTING_DOWN" /\ Idle /\ todo # <<>>
  /\ CallStop(Main, Head(todo))
  /\ todo' = Tail(todo)
  /\ UNCHANGED <<phase, running, runs, calls, shmVars>>

Stopped_NotWaiting ==
  /\ phase = "SHUTTING_DOWN" /\ todo = <<>>
  /\ segment' = 0
  /\ phase' = "STOPPED"
  /\ UNCHANGED <<supVars, running, todo, runs, calls, attached>>

\* The last state is published and the segment is removed.
Stopped ==
  /\ phase = "SHUTTING_DOWN" /\ Idle /\ todo = <<>>
  /\ segment' = 0
  /\ phase' = "STOPPED"
  /\ UNCHANGED <<supVars, running, todo, runs, calls, attached>>

\* The tracker of a process that has ended: it unlinks the name, or was killed.
TrackerActs == segment' \in {segment, 0}

\* SIGKILL or a power failure of the controller alone.
Crash ==
  /\ Up /\ runs < MaxRuns
  /\ phase' = "off" /\ running' = FALSE /\ todo' = <<>>
  /\ op' = [op EXCEPT ![Main] = "idle"]
  /\ seen' = [seen EXCEPT ![Main] = 0] /\ own' = [own EXCEPT ![Main] = 0]
  /\ TrackerActs
  /\ UNCHANGED <<launches, terminal, child, pidfile, process, target,
                 contested, runs, calls, attached>>
-----------------------------------------------------------------------------
(***************************************************************************)
(* The other actors.                                                       *)
(***************************************************************************)
DashboardUp == \E l \in LaunchesOf(dashboard) : l \in Live

Worker(t) == t # Main /\ DashboardUp

\* The endpoints refuse the protected names.
DashboardCalls(t) ==
  /\ Worker(t) /\ calls < MaxCalls
  /\ \E n \in Names \ {can_daemon, dashboard} : CallStart(t, n) \/ CallStop(t, n)
  /\ calls' = calls + 1
  /\ UNCHANGED <<lifeVars, shmVars>>

\* The endpoint answers with status 400.
DashboardReports(t) ==
  /\ Worker(t) /\ op[t] = "raised"
  /\ Goto(t, "idle")
  /\ UNCHANGED <<launches, terminal, child, pidfile, process, target, seen, own,
                 contested, lifeVars, calls, shmVars>>

Detach ==
  /\ attached' = [l \in Launches |-> IF child'[l] = "gone" THEN 0 ELSE attached[l]]
  /\ IF attached' = attached THEN UNCHANGED segment ELSE TrackerActs

Step(t) ==
  /\ t = Main \/ Worker(t)
  /\ ThreadStep(t) \/ StartLaunch(t, IF t = Main THEN runs ELSE 0)
  /\ Detach
  /\ UNCHANGED <<lifeVars, calls>>

\* A child opens the segment, if there is one, when it starts.  A dashboard starts with a
\* supervisor that has launched nothing and no call under way.
ChildRuns(l) ==
  /\ ShellWritesPid(l)
  /\ attached' = [attached EXCEPT ![l] =
                    IF launches[l].name \in Openers THEN segment ELSE 0]
  /\ IF launches[l].name = dashboard /\ ~DashboardUp
     THEN /\ op' = [t \in Threads |-> IF t = Main THEN op[t] ELSE "idle"]
          /\ seen' = [t \in Threads |-> IF t = Main THEN seen[t] ELSE 0]
          /\ own' = [t \in Threads |-> IF t = Main THEN own[t] ELSE 0]
          /\ process' = [s \in Supervisors |->
               IF s = SupervisorOf[Main] THEN process[s] ELSE [n \in Names |-> 0]]
     ELSE UNCHANGED <<op, seen, own, process>>
  /\ UNCHANGED <<target, lifeVars, calls, segment>>

LaunchSteps(l) ==
  \/ ChildRuns(l)
  \/ TerminalExits(l) /\ UNCHANGED <<lifeVars, calls, shmVars>>

\* No segment to open: FileNotFoundError ends the child.
FindsNone(l) ==
  child[l] = "running" /\ launches[l].name \in Openers /\ attached[l] = 0

Exits(l) ==
  /\ ChildExits(l)
  /\ child[l] = "told" \/ launches[l].name \in Fragile \/ FindsNone(l)
  /\ Detach
  /\ UNCHANGED <<lifeVars, calls>>

Lifecycle ==
  \/ InitShm \/ Connect \/ BringupImu \/ StartNext \/ StartDone \/ StartFails
  \/ StopNext \/ Stopped

Next ==
  \/ Launch \/ Lifecycle \/ Shutdown \/ Signal \/ Crash \/ InitShmFails
  \/ \E t \in Threads : Step(t) \/ DashboardCalls(t) \/ DashboardReports(t)
  \/ \E l \in Launches : LaunchSteps(l) \/ Exits(l)

\* The controller goes on; a loop that was told to stop leaves at its next tick.
MainThread == Lifecycle \/ (Shutdown /\ ~running) \/ Step(Main)

\* No signal, crash or restart has to come, and no other process has to obey.
Fairness == WF_vars(MainThread)

Spec == Init /\ [][Next]_vars
FairSpec == Spec /\ Fairness
-----------------------------------------------------------------------------
\* A process this run has launched looks at the segment this run has created, and
\* at none only if a tracker has unlinked it: never at one of another run, whatever
\* a crash has left behind.
ChildrenSeeSegments ==
  \A l \in Known :
    /\ phase \in Starting \cup {"RUNNING"}
    /\ launches[l].run = runs /\ launches[l].name \in Openers /\ child[l] = "running"
    => attached[l] \in {runs, segment} /\ segment \in {runs, 0}

StopUnderWay ==
  phase \in {"ERROR", "SHUTTING_DOWN"} \/ (phase = "RUNNING" /\ ~running)

\* A stop request that reaches the loop, and a start that fails, end in STOPPED
\* (or in a crash) whatever the processes do: each wait of stop_all has a deadline,
\* and a stop, once under way, is over only then.  (A request that is handled before
\* the last statement of start is lost.)
StopHonoured == []<>~StopUnderWay
=============================================================================
