--------------------------- MODULE ProcessSupervisor ---------------------------
(***************************************************************************)
(* process_supervisor.py: how one supervisor launches and stops named      *)
(* processes, when other supervisors (the controller's, the dashboard's)   *)
(* do the same with the same pid files.                                    *)
(*                                                                         *)
(* A launch is a terminal (gnome-terminal --wait, a client that ends with  *)
(* the child or by a SIGTERM) and a child: a shell that writes its pid     *)
(* file and then becomes the command.  The child belongs to the terminal   *)
(* server: the end of the client does not end it.  Launches are numbered;  *)
(* 0 is none.  A pid is not used again by the system.                      *)
(*                                                                         *)
(* The module has the operations of a thread and the life of a launch.     *)
(* ControllerLifecycle says who calls them.                                *)
(***************************************************************************)
EXTENDS Naturals, Sequences

CONSTANTS
  Names,        \* the processes of processes.yaml
  Threads,      \* the threads that call a supervisor
  Supervisors,
  SupervisorOf, \* per thread: its supervisor
  MaxLaunches,  \* bound: launches in all
  Fragile       \* bound: processes whose launch may fail, or that end untold

ASSUME SupervisorAssumption ==
  /\ SupervisorOf \in [Threads -> Supervisors]
  /\ MaxLaunches \in Nat /\ Fragile \subseteq Names

VARIABLES
  launches, \* the launches so far: name, and run of the controller (0: dashboard)
  terminal, \* per launch: the process of Popen
  child,    \* per launch: the managed process
  pidfile,  \* per name: the launch whose pid the file holds
  process,  \* per supervisor and name: ManagedProcess.process
  op,       \* per thread: where start or stop is
  target,   \* per thread: the name it works on
  seen,     \* per thread: managed_pid of the stop under way
  own,      \* per thread: process of the stop under way
  contested \* history: launches that wrote their pid file in a race

opVars == <<op, target, seen, own>>
supVars == <<launches, terminal, child, pidfile, process, opVars, contested>>

Launches == 1 .. MaxLaunches
Known == 1 .. Len(launches)
LaunchesOf(n) == {l \in Known : launches[l].name = n}
Live == {l \in Known : child[l] \in {"running", "told"}}

SupTypeOK ==
  /\ \A l \in Known : launches[l].name \in Names /\ launches[l].run \in Nat
  /\ Len(launches) <= MaxLaunches
  /\ terminal \in [Launches -> {"none", "open", "told", "closed"}]
  /\ child \in [Launches -> {"none", "shell", "running", "told", "gone"}]
  /\ \A l \in Launches : (terminal[l] = "none") = (l \notin Known)
                         /\ (child[l] = "none") = (l \notin Known)
  /\ \A n \in Names : pidfile[n] \in {0} \cup LaunchesOf(n)
  /\ \A s \in Supervisors, n \in Names :
       process[s][n] \in {0} \cup LaunchesOf(n)
  /\ op \in [Threads -> {"idle", "start", "exists", "unlink", "launch",
                         "raised", "stop", "take", "signal", "wait", "cleanup"}]
  /\ target \in [Threads -> Names]
  /\ seen \in [Threads -> {0} \cup Known] /\ own \in [Threads -> {0} \cup Known]
  /\ contested \subseteq Known

SupInit ==
  /\ launches = <<>>
  /\ terminal = [l \in Launches |-> "none"]
  /\ child = [l \in Launches |-> "none"]
  /\ pidfile = [n \in Names |-> 0]
  /\ process = [s \in Supervisors |-> [n \in Names |-> 0]]
  /\ op = [t \in Threads |-> "idle"]
  /\ target \in [Threads -> {CHOOSE n \in Names : TRUE}]
  /\ seen = [t \in Threads |-> 0] /\ own = [t \in Threads |-> 0]
  /\ contested = {}
-----------------------------------------------------------------------------
(***************************************************************************)
(* Calls.                                                                  *)
(***************************************************************************)
Call(t, first, n) ==
  /\ op[t] = "idle"
  /\ op' = [op EXCEPT ![t] = first]
  /\ target' = [target EXCEPT ![t] = n]
  /\ UNCHANGED <<launches, terminal, child, pidfile, process, seen, own, contested>>

CallStart(t, n) == Call(t, "start", n)
CallStop(t, n) == Call(t, "stop", n)

Goto(t, next) == op' = [op EXCEPT ![t] = next]
Own(t) == process[SupervisorOf[t]][target[t]]
PidIsRunning(l) == l # 0 /\ l \in Live
-----------------------------------------------------------------------------
(***************************************************************************)
(* ManagedProcess.start.                                                   *)
(***************************************************************************)
IsAlive_PopenOnly(t) == Own(t) # 0 /\ terminal[Own(t)] # "closed"

IsAlive(t) ==
  \/ Own(t) # 0 /\ terminal[Own(t)] # "closed"
  \/ PidIsRunning(pidfile[target[t]])

StartCheck(t) ==
  /\ op[t] = "start"
  /\ Goto(t, IF IsAlive(t) THEN "idle" ELSE "exists")
  /\ UNCHANGED <<launches, terminal, child, pidfile, process, target, seen, own,
                 contested>>

StartExists(t) ==
  /\ op[t] = "exists"
  /\ Goto(t, IF pidfile[target[t]] # 0 THEN "unlink" ELSE "launch")
  /\ UNCHANGED <<launches, terminal, child, pidfile, process, target, seen, own,
                 contested>>

\* The file may have gone since exists(): FileNotFoundError leaves start.
StartUnlink(t) ==
  /\ op[t] = "unlink"
  /\ IF pidfile[target[t]] = 0
     THEN Goto(t, "raised") /\ UNCHANGED pidfile
     ELSE Goto(t, "launch") /\ pidfile' = [pidfile EXCEPT ![target[t]] = 0]
  /\ UNCHANGED <<launches, terminal, child, process, target, seen, own, contested>>

StartLaunch(t, run) ==
  LET new == Len(launches) + 1 IN
  /\ op[t] = "launch" /\ new <= MaxLaunches
  /\ launches' = Append(launches, [name |-> target[t], run |-> run])
  /\ terminal' = [terminal EXCEPT ![new] = "open"]
  /\ child' = [child EXCEPT ![new] = "shell"]
  /\ process' = [process EXCEPT ![SupervisorOf[t]][target[t]] = new]
  /\ Goto(t, "idle")
  /\ UNCHANGED <<pidfile, target, seen, own, contested>>

\* The log file cannot be opened, or Popen raises: no process, no new Popen.
StartLaunchFails(t) ==
  /\ op[t] = "launch" /\ target[t] \in Fragile
  /\ Goto(t, "raised")
  /\ UNCHANGED <<launches, terminal, child, pidfile, process, target, seen, own,
                 contested>>
-----------------------------------------------------------------------------
(***************************************************************************)
(* ManagedProcess.stop.                                                    *)
(***************************************************************************)
StopRead(t) ==
  /\ op[t] = "stop"
  /\ seen' = [seen EXCEPT ![t] = pidfile[target[t]]]
  /\ Goto(t, "take")
  /\ UNCHANGED <<launches, terminal, child, pidfile, process, target, own, contested>>

\* process = self.process, which another thread of the supervisor may replace.
StopTake(t) ==
  /\ op[t] = "take"
  /\ own' = [own EXCEPT ![t] = Own(t)]
  /\ Goto(t, IF Own(t) = 0 /\ seen[t] = 0 THEN "cleanup" ELSE "signal")
  /\ UNCHANGED <<launches, terminal, child, pidfile, process, target, seen, contested>>

\* SIGTERM to the managed pid and to the group of the terminal.
StopSignal(t) ==
  /\ op[t] = "signal"
  /\ child' = [l \in Launches |->
       IF l = seen[t] /\ child[l] = "running" THEN "told" ELSE child[l]]
  /\ terminal' = [l \in Launches |->
       IF l = own[t] /\ terminal[l] = "open" THEN "told" ELSE terminal[l]]
  /\ Goto(t, "wait")
  /\ UNCHANGED <<launches, pidfile, process, target, seen, own, contested>>

\* SIGKILL to the managed pid, and to the group of the terminal if there is one.
KillSeen(t) ==
  /\ child' = [l \in Launches |->
       IF l = seen[t] /\ l \in Live THEN "gone" ELSE child[l]]
  /\ terminal' = [l \in Launches |->
       IF l \in {own[t], seen[t]} \ {0} THEN "closed" ELSE terminal[l]]
  /\ contested' = contested \ {seen[t]}

StopWait_NoEscalation(t) ==
  /\ op[t] = "wait"
  /\ IF own[t] # 0 /\ terminal[own[t]] # "closed"
     THEN KillSeen(t)
     ELSE UNCHANGED <<child, terminal, contested>>
  /\ Goto(t, "cleanup")
  /\ UNCHANGED <<launches, pidfile, process, target, seen, own>>

StopWait_NoDeadline(t) ==
  /\ op[t] = "wait" /\ ~PidIsRunning(seen[t])
  /\ own[t] # 0 => terminal[own[t]] = "closed"
  /\ Goto(t, "cleanup")
  /\ UNCHANGED <<launches, terminal, child, pidfile, process, target, seen, own,
                 contested>>

\* The waits end when what they wait for has ended, or at the deadline.  It is
\* the wait for the terminal that decides about SIGKILL, if this supervisor has
\* launched one, and the managed pid otherwise.
StopWait(t) ==
  /\ op[t] = "wait"
  /\ IF own[t] # 0 /\ terminal[own[t]] = "closed"
     THEN UNCHANGED <<child, terminal, contested>>
     ELSE KillSeen(t)
  /\ Goto(t, "cleanup")
  /\ UNCHANGED <<launches, pidfile, process, target, seen, own>>

\* finally: the pid file goes, whatever it holds by now.
StopCleanup(t) ==
  /\ op[t] = "cleanup"
  /\ pidfile' = [pidfile EXCEPT ![target[t]] = 0]
  /\ seen' = [seen EXCEPT ![t] = 0] /\ own' = [own EXCEPT ![t] = 0]
  /\ Goto(t, "idle")
  /\ UNCHANGED <<launches, terminal, child, process, target, contested>>
-----------------------------------------------------------------------------
(***************************************************************************)
(* The life of a launch.                                                   *)
(***************************************************************************)

\* Another launch of the name is about to write the pid file, or an operation
\* on the name is between its first look at the file and its end.
Contest(l) ==
  \/ \E k \in LaunchesOf(launches[l].name) \ {l} : child[k] = "shell"
  \/ \E t \in Threads : /\ target[t] = launches[l].name
                        /\ op[t] \notin {"idle", "start", "stop"}

\* printf $$ > pidfile && exec command.
ShellWritesPid(l) ==
  /\ l \in Known /\ child[l] = "shell"
  /\ child' = [child EXCEPT ![l] = "running"]
  /\ pidfile' = [pidfile EXCEPT ![launches[l].name] = l]
  /\ contested' = IF Contest(l) THEN contested \cup {l} ELSE contested
  /\ UNCHANGED <<launches, terminal>>

\* The command ends: told to, by an error of its own, or with its window.
ChildExits(l) ==
  /\ l \in Known /\ child[l] \in {"shell", "running", "told"}
  /\ child' = [child EXCEPT ![l] = "gone"]
  /\ terminal' = [terminal EXCEPT ![l] = "closed"]
  /\ contested' = contested \ {l}
  /\ UNCHANGED <<launches, pidfile, process, opVars>>

TerminalExits(l) ==
  /\ l \in Known /\ terminal[l] = "told"
  /\ terminal' = [terminal EXCEPT ![l] = "closed"]
  /\ UNCHANGED <<launches, child, pidfile, process, opVars, contested>>

ThreadStep(t) ==
  \/ StartCheck(t) \/ StartExists(t) \/ StartUnlink(t) \/ StartLaunchFails(t)
  \/ StopRead(t) \/ StopTake(t) \/ StopSignal(t) \/ StopWait(t) \/ StopCleanup(t)
-----------------------------------------------------------------------------
\* A process that runs and was not told to end is the one its pid file names,
\* so that every supervisor finds it, unless it wrote the file in a race: the
\* is_alive test keeps each supervisor from launching over the process of
\* another, except in the time a shell takes to write its pid.
Tracked ==
  \A l \in Known :
    child[l] = "running" /\ pidfile[launches[l].name] # l => l \in contested

\* What stop has achieved when it removes the pid file.  The terminal of this
\* supervisor is closed.  The process the file named was told to end; it can have
\* survived that only behind a Popen: the terminal obeyed, or had ended long ago
\* with the launch it belongs to, and its end is all the stop waited for.  Then even
\* a process of another supervisor lives on, without its pid file.  A supervisor
\* that has launched nothing under this name leaves nothing alive.
StopOutcome ==
  \A t \in Threads :
    op[t] = "cleanup" =>
      /\ own[t] # 0 => terminal[own[t]] = "closed"
      /\ seen[t] # 0 => child[seen[t]] \in {"told", "gone"}
      /\ seen[t] # 0 /\ child[seen[t]] = "told" => own[t] # 0
=============================================================================
