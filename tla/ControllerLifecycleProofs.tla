----------------------- MODULE ControllerLifecycleProofs -----------------------
(***************************************************************************)
(* Who runs, who knows it, and which segment it uses: for any processes,   *)
(* any threads that share any supervisors, and any number of runs, calls   *)
(* and launches.                                                           *)
(***************************************************************************)
EXTENDS ControllerLifecycle, SequenceTheorems, TLAPS

\* The processes of a name that run, were not told to end, and wrote their pid
\* file in no race.
Quiet(n) == {l \in LaunchesOf(n) : child[l] = "running" /\ l \notin contested}
Written(l) == child[l] \in {"running", "told", "gone"}

\* What a thread has found out about its name stays so: a process that comes up
\* meanwhile comes up in a race.
Informed(t) ==
  /\ op[t] \in {"exists", "unlink", "launch", "wait", "cleanup"} => Quiet(target[t]) = {}
  /\ op[t] \in {"take", "signal"} => Quiet(target[t]) \subseteq {seen[t]}
  /\ seen[t] # 0 => Written(seen[t])
  /\ op[t] \in {"wait", "cleanup"} /\ seen[t] # 0 => child[seen[t]] \in {"told", "gone"}
  /\ op[t] = "cleanup" =>
       /\ own[t] # 0 => terminal[own[t]] = "closed"
       /\ seen[t] # 0 /\ child[seen[t]] = "told" => own[t] # 0

PidfileTracks == \A n \in Names : Quiet(n) \subseteq {pidfile[n]}
PidsWritten == \A n \in Names : pidfile[n] # 0 => Written(pidfile[n])
ShellsAlone == \A l \in Known : child[l] = "shell" => Quiet(launches[l].name) = {}
AllInformed == \A t \in Threads : Informed(t)

LaunchTypes ==
  /\ launches \in Seq([name : Names, run : Nat])
  /\ Len(launches) <= MaxLaunches
  /\ terminal \in [Launches -> {"none", "open", "told", "closed"}]
  /\ child \in [Launches -> {"none", "shell", "running", "told", "gone"}]
  /\ \A l \in Launches : (terminal[l] = "none" <=> l \notin Known)
                         /\ (child[l] = "none" <=> l \notin Known)
  /\ contested \subseteq Known
FileTypes ==
  /\ pidfile \in [Names -> Nat]
  /\ \A n \in Names : pidfile[n] \in {0} \cup LaunchesOf(n)
  /\ process \in [Supervisors -> [Names -> Nat]]
  /\ \A s \in Supervisors, n \in Names : process[s][n] \in {0} \cup LaunchesOf(n)
ThreadTypes ==
  /\ op \in [Threads -> {"idle", "start", "exists", "unlink", "launch", "raised",
                         "stop", "take", "signal", "wait", "cleanup"}]
  /\ target \in [Threads -> Names]
  /\ seen \in [Threads -> {0} \cup Known] /\ own \in [Threads -> {0} \cup Known]
SupTypes == LaunchTypes /\ FileTypes /\ ThreadTypes

SupInv ==
  SupTypes /\ PidfileTracks /\ PidsWritten /\ ShellsAlone /\ AllInformed
-----------------------------------------------------------------------------
(***************************************************************************)
(* Launches.                                                               *)
(***************************************************************************)
LEMMA KnownLaunches ==
  ASSUME LaunchTypes
  PROVE  /\ Len(launches) \in Nat /\ MaxLaunches \in Nat
         /\ Known \subseteq Launches /\ 0 \notin Launches
         /\ \A l \in Known : launches[l].name \in Names /\ launches[l].run \in Nat
  <1>1. Len(launches) \in Nat /\ MaxLaunches \in Nat
    BY LenProperties, SupervisorAssumption DEF LaunchTypes
  <1>2. Known \subseteq Launches /\ 0 \notin Launches
    BY <1>1 DEF LaunchTypes, Known, Launches
  <1>3. \A l \in Known : launches[l] \in [name : Names, run : Nat]
    BY ElementOfSeq DEF LaunchTypes, Known
  <1>4. QED BY <1>1, <1>2, <1>3

\* The types of the proof are those of the runs, and more.
LEMMA TypesMean ==
  ASSUME SupTypes
  PROVE  SupTypeOK
  <1>1. \A l \in Known : launches[l].name \in Names /\ launches[l].run \in Nat
    BY KnownLaunches DEF SupTypes
  <1>2. \A l \in Launches : (terminal[l] = "none") = (l \notin Known)
                            /\ (child[l] = "none") = (l \notin Known)
    BY DEF SupTypes, LaunchTypes
  <1>3. QED BY <1>1, <1>2 DEF SupTypes, LaunchTypes, FileTypes, ThreadTypes, SupTypeOK

\* No launch goes back: from the shell to the command, to its end.
Ages ==
  \A l \in Known :
    /\ Written(l) => Written(l)'
    /\ child[l] \in {"told", "gone"} => child'[l] \in {"told", "gone"}
    /\ child[l] = "gone" => child'[l] = "gone"
    /\ child'[l] = "shell" => child[l] = "shell"
    /\ terminal[l] = "closed" => terminal'[l] = "closed"

\* A thread that does nothing meanwhile is right about its name, unless its name
\* has got a process in no race.
LEMMA StaysInformed ==
  ASSUME ThreadTypes, Ages, NEW t \in Threads, Informed(t),
         op'[t] = op[t], target'[t] = target[t], seen'[t] = seen[t], own'[t] = own[t],
         op[t] \notin {"idle", "start", "stop"} =>
           \A n \in Names : n = target[t] => Quiet(n)' \subseteq Quiet(n)
  PROVE  Informed(t)'
  <1>1. seen[t] \in {0} \cup Known /\ own[t] \in {0} \cup Known
    BY DEF ThreadTypes
  <1> DEFINE Before == Quiet(target[t])
             After == Quiet(target[t])'
  <1>2. ASSUME NEW n \in Names, n = target[t] PROVE After = Quiet(n)' /\ Before = Quiet(n)
    BY <1>2 DEF Quiet, LaunchesOf
  <1>3. op[t] \in {"exists", "unlink", "launch", "wait", "cleanup", "take", "signal"} =>
          After \subseteq Before
    BY <1>2 DEF ThreadTypes
  <1>4. /\ op[t] \in {"exists", "unlink", "launch", "wait", "cleanup"} => Before = {}
        /\ op[t] \in {"take", "signal"} => Before \subseteq {seen[t]}
    BY DEF Informed
  <1>7. After = Quiet(target[t])'
    OBVIOUS
  <1> HIDE DEF Before, After
  <1>5. /\ op'[t] \in {"exists", "unlink", "launch", "wait", "cleanup"} => After = {}
        /\ op'[t] \in {"take", "signal"} => After \subseteq {seen'[t]}
    BY <1>3, <1>4
  <1>6. /\ seen'[t] # 0 => child'[seen'[t]] \in {"running", "told", "gone"}
        /\ op'[t] \in {"wait", "cleanup"} /\ seen'[t] # 0 =>
             child'[seen'[t]] \in {"told", "gone"}
        /\ op'[t] = "cleanup" =>
             /\ own'[t] # 0 => terminal'[own'[t]] = "closed"
             /\ seen'[t] # 0 /\ child'[seen'[t]] = "told" => own'[t] # 0
    BY <1>1 DEF Informed, Ages, Written
  <1>8. QED BY <1>5, <1>6, <1>7 DEF Informed, Written

\* A thread that has ended its operation, or is about to begin one, has found out
\* nothing.
LEMMA NothingFound ==
  ASSUME ThreadTypes, Ages, NEW t \in Threads, Informed(t),
         op'[t] \in {"idle", "start", "stop", "raised"},
         seen'[t] \in {0, seen[t]}
  PROVE  Informed(t)'
  BY DEF Informed, Ages, Written, ThreadTypes

LEMMA QuietStays ==
  ASSUME \A l \in Known' : child'[l] = "running" /\ l \notin contested' =>
           /\ l \in Known /\ child[l] = "running" /\ l \notin contested
           /\ launches'[l].name = launches[l].name
  PROVE  \A n \in Names : Quiet(n)' \subseteq Quiet(n)
  BY DEF Quiet, LaunchesOf, Known

\* A step in which no process comes up and a pid file goes only when no process
\* needs it.
LEMMA CalmStep ==
  ASSUME SupInv, Ages, launches' = launches,
         \A l \in Known : child'[l] = "running" /\ l \notin contested' =>
           child[l] = "running" /\ l \notin contested,
         \A n \in Names : pidfile'[n] = pidfile[n] \/ (pidfile'[n] = 0 /\ Quiet(n) = {})
  PROVE  /\ PidfileTracks' /\ PidsWritten' /\ ShellsAlone'
         /\ \A n \in Names : Quiet(n)' \subseteq Quiet(n)
  <1>1. \A n \in Names : Quiet(n)' \subseteq Quiet(n)
    BY QuietStays DEF Known
  <1>2. PidfileTracks'
    BY <1>1 DEF SupInv, PidfileTracks
  <1>3. PidsWritten'
    <2> SUFFICES ASSUME NEW n \in Names, pidfile'[n] # 0
                 PROVE  Written(pidfile[n])' /\ pidfile'[n] = pidfile[n]
      BY DEF PidsWritten, Written
    <2>1. pidfile'[n] = pidfile[n]
      OBVIOUS
    <2>2. pidfile[n] \in Known
      BY <2>1 DEF SupInv, SupTypes, FileTypes, LaunchesOf
    <2>3. Written(pidfile[n])
      BY <2>1 DEF SupInv, PidsWritten
    <2>4. QED BY <2>1, <2>2, <2>3 DEF Ages, Written
  <1>4. ShellsAlone'
    <2> SUFFICES ASSUME NEW l \in Known, child'[l] = "shell"
                 PROVE  Quiet(launches[l].name)' = {}
      BY DEF ShellsAlone, Known, Quiet
    <2>1. child[l] = "shell"
      BY DEF Ages
    <2>2. Quiet(launches[l].name) = {}
      BY <2>1 DEF SupInv, ShellsAlone
    <2>3. \A m \in Known : child'[m] = "running" /\ m \notin contested' =>
            child[m] = "running" /\ m \notin contested
      OBVIOUS
    <2>4. QED BY <2>2, <2>3 DEF Quiet, LaunchesOf, Known
  <1>5. QED BY <1>1, <1>2, <1>3, <1>4

\* A calm step of one thread.
LEMMA OneThread ==
  ASSUME SupInv, Ages, NEW t \in Threads, Informed(t)',
         \A n \in Names : Quiet(n)' \subseteq Quiet(n),
         \A u \in Threads \ {t} : /\ op'[u] = op[u] /\ target'[u] = target[u]
                                  /\ seen'[u] = seen[u] /\ own'[u] = own[u]
  PROVE  AllInformed'
  <1>1. ASSUME NEW u \in Threads \ {t} PROVE Informed(u)'
    BY StaysInformed DEF SupInv, SupTypes, AllInformed
  <1>2. QED BY <1>1 DEF AllInformed

LEMMA SameLaunches ==
  ASSUME LaunchTypes, launches' = launches, terminal' = terminal, child' = child,
         contested' = contested
  PROVE  LaunchTypes' /\ Ages
  BY DEF LaunchTypes, Known, Ages, Written

LEMMA SameFiles ==
  ASSUME FileTypes, launches' = launches, pidfile' = pidfile, process' = process
  PROVE  FileTypes'
  BY DEF FileTypes, LaunchesOf, Known

LEMMA SameThreads ==
  ASSUME ThreadTypes, launches' = launches, opVars' = opVars
  PROVE  ThreadTypes'
  BY DEF ThreadTypes, Known, opVars

\* Only the threads have changed, and one of them.
LEMMA ThreadOnly ==
  ASSUME SupInv, NEW t \in Threads, Informed(t)', ThreadTypes',
         UNCHANGED <<launches, terminal, child, pidfile, process, contested>>,
         \A u \in Threads \ {t} : /\ op'[u] = op[u] /\ target'[u] = target[u]
                                  /\ seen'[u] = seen[u] /\ own'[u] = own[u]
  PROVE  SupInv'
  <1>1. LaunchTypes' /\ Ages /\ FileTypes'
    BY SameLaunches, SameFiles DEF SupInv, SupTypes
  <1>2. /\ PidfileTracks' /\ PidsWritten' /\ ShellsAlone'
        /\ \A n \in Names : Quiet(n)' \subseteq Quiet(n)
    BY <1>1, CalmStep
  <1>3. AllInformed'
    BY <1>1, <1>2, OneThread
  <1>4. QED BY <1>1, <1>2, <1>3 DEF SupInv, SupTypes

\* Threads have begun an operation, ended it, or forgotten it, or a supervisor
\* has forgotten its processes.
LEMMA OnlyCalls ==
  ASSUME SupInv, UNCHANGED <<launches, terminal, child, pidfile, contested>>,
         FileTypes', ThreadTypes',
         \A t \in Threads :
           \/ op'[t] = op[t] /\ target'[t] = target[t] /\ seen'[t] = seen[t] /\ own'[t] = own[t]
           \/ op'[t] \in {"idle", "start", "stop"} /\ seen'[t] \in {0, seen[t]}
  PROVE  SupInv'
  <1>1. LaunchTypes' /\ Ages
    BY SameLaunches DEF SupInv, SupTypes
  <1>2. /\ PidfileTracks' /\ PidsWritten' /\ ShellsAlone'
        /\ \A n \in Names : Quiet(n)' \subseteq Quiet(n)
    BY <1>1, CalmStep
  <1>3. ASSUME NEW t \in Threads PROVE Informed(t)'
    <2>1. Informed(t) /\ ThreadTypes
      BY DEF SupInv, SupTypes, AllInformed
    <2>2. CASE op'[t] \in {"idle", "start", "stop"} /\ seen'[t] \in {0, seen[t]}
      BY <1>1, <2>1, <2>2, NothingFound
    <2>3. CASE /\ op'[t] = op[t] /\ target'[t] = target[t] /\ seen'[t] = seen[t]
               /\ own'[t] = own[t]
      BY <1>1, <1>2, <2>1, <2>3, StaysInformed
    <2>4. QED BY <2>2, <2>3
  <1>4. QED BY <1>1, <1>2, <1>3 DEF SupInv, SupTypes, AllInformed

LEMMA Unchanged == SupInv /\ UNCHANGED supVars => SupInv'
  BY SameFiles, SameThreads, OnlyCalls DEF SupInv, SupTypes, supVars, opVars
-----------------------------------------------------------------------------
(***************************************************************************)
(* The operations.                                                         *)
(***************************************************************************)
LEMMA CallKeeps ==
  ASSUME SupInv, NEW t \in Threads, NEW n \in Names, NEW first \in {"start", "stop"},
         Call(t, first, n)
  PROVE  SupInv'
  <1>1. ThreadTypes'
    BY DEF SupInv, SupTypes, ThreadTypes, Call, Known
  <1>2. \A u \in Threads :
          \/ op'[u] = op[u] /\ target'[u] = target[u] /\ seen'[u] = seen[u] /\ own'[u] = own[u]
          \/ op'[u] \in {"idle", "start", "stop"} /\ seen'[u] \in {0, seen[u]}
    BY DEF Call, SupInv, SupTypes, ThreadTypes
  <1>3. QED BY <1>1, <1>2, SameFiles, OnlyCalls DEF Call, SupInv, SupTypes

\* An operation, or its exception, is over, and what it has found out may be lost.
LEMMA EndKeeps ==
  ASSUME SupInv, NEW t \in Threads, Goto(t, "idle"),
         UNCHANGED <<launches, terminal, child, pidfile, process, target, contested>>,
         \/ UNCHANGED <<seen, own>>
         \/ seen' = [seen EXCEPT ![t] = 0] /\ own' = [own EXCEPT ![t] = 0]
  PROVE  SupInv'
  <1>1. ThreadTypes'
    BY DEF SupInv, SupTypes, ThreadTypes, Goto, Known
  <1>2. \A u \in Threads :
          \/ op'[u] = op[u] /\ target'[u] = target[u] /\ seen'[u] = seen[u] /\ own'[u] = own[u]
          \/ op'[u] \in {"idle", "start", "stop"} /\ seen'[u] \in {0, seen[u]}
    BY DEF Goto, SupInv, SupTypes, ThreadTypes
  <1>3. QED BY <1>1, <1>2, SameFiles, OnlyCalls DEF SupInv, SupTypes

\* A thread has got somewhere, without more knowledge than it states.
LEMMA StartCheckKeeps ==
  ASSUME SupInv, NEW t \in Threads, StartCheck(t)
  PROVE  SupInv'
  <1>1. ThreadTypes'
    BY DEF SupInv, SupTypes, ThreadTypes, StartCheck, Goto, Known
  <1>2. LaunchTypes' /\ Ages
    BY SameLaunches DEF SupInv, SupTypes, StartCheck
  <1>3. op'[t] = (IF IsAlive(t) THEN "idle" ELSE "exists") /\ seen'[t] = seen[t]
    BY DEF StartCheck, Goto, SupInv, SupTypes, ThreadTypes
  <1>4. CASE IsAlive(t)
    BY <1>1, <1>2, <1>3, <1>4, NothingFound, ThreadOnly
      DEF StartCheck, Goto, SupInv, SupTypes, ThreadTypes, AllInformed
  <1>5. CASE ~IsAlive(t)
    <2>1. target[t] \in Names
      BY DEF SupInv, SupTypes, ThreadTypes
    <2>2. ~PidIsRunning(pidfile[target[t]])
      BY <1>5 DEF IsAlive
    <2>3. Quiet(target[t]) \subseteq {pidfile[target[t]]}
      BY <2>1 DEF SupInv, PidfileTracks
    <2>4. pidfile[target[t]] \notin Quiet(target[t])
      BY <2>2, KnownLaunches DEF PidIsRunning, Quiet, LaunchesOf, Live, SupInv, SupTypes, Launches
    <2>5. Quiet(target[t]) = {}
      BY <2>3, <2>4
    <2>6. Quiet(target[t])' = {}
      BY <2>5 DEF StartCheck, Quiet, LaunchesOf, Known
    <2>7. op'[t] = "exists" /\ seen'[t] # 0 => child'[seen'[t]] \in {"running", "told", "gone"}
      BY <1>3, <1>5 DEF StartCheck, SupInv, AllInformed, Informed, Written
    <2>8. Informed(t)'
      BY <1>3, <1>5, <2>6, <2>7 DEF Informed, Written
    <2>9. QED BY <1>1, <2>8, ThreadOnly DEF StartCheck, Goto, SupInv, SupTypes, ThreadTypes
  <1>6. QED BY <1>4, <1>5

LEMMA StartExistsKeeps ==
  ASSUME SupInv, NEW t \in Threads, StartExists(t)
  PROVE  SupInv'
  <1>1. ThreadTypes'
    BY DEF SupInv, SupTypes, ThreadTypes, StartExists, Goto, Known
  <1>2. op'[t] \in {"unlink", "launch"} /\ seen' = seen
    BY DEF StartExists, Goto, SupInv, SupTypes, ThreadTypes
  <1>3. Quiet(target[t])' = {}
    <2>1. Quiet(target[t]) = {}
      BY DEF StartExists, SupInv, AllInformed, Informed
    <2>2. QED BY <2>1 DEF StartExists, Quiet, LaunchesOf, Known
  <1>4. seen'[t] # 0 => child'[seen'[t]] \in {"running", "told", "gone"}
    BY DEF StartExists, SupInv, AllInformed, Informed, Written
  <1>5. Informed(t)'
    BY <1>2, <1>3, <1>4 DEF Informed, Written
  <1>6. QED BY <1>1, <1>5, ThreadOnly DEF StartExists, Goto, SupInv, SupTypes, ThreadTypes

LEMMA StartUnlinkKeeps ==
  ASSUME SupInv, NEW t \in Threads, StartUnlink(t)
  PROVE  SupInv'
  <1>1. ThreadTypes' /\ target[t] \in Names
    BY DEF SupInv, SupTypes, ThreadTypes, StartUnlink, Goto, Known
  <1>2. LaunchTypes' /\ Ages
    BY SameLaunches DEF SupInv, SupTypes, StartUnlink
  <1>3. Quiet(target[t]) = {}
    BY DEF StartUnlink, SupInv, AllInformed, Informed
  <1>4. \A n \in Names : pidfile'[n] = pidfile[n] \/ (pidfile'[n] = 0 /\ Quiet(n) = {})
    BY <1>1, <1>3 DEF StartUnlink, SupInv, SupTypes, FileTypes
  <1>5. FileTypes'
    <2>1. pidfile' \in [Names -> Nat]
      BY DEF StartUnlink, SupInv, SupTypes, FileTypes
    <2>2. QED BY <1>4, <2>1 DEF StartUnlink, SupInv, SupTypes, FileTypes, LaunchesOf, Known
  <1>6. /\ PidfileTracks' /\ PidsWritten' /\ ShellsAlone'
        /\ \A n \in Names : Quiet(n)' \subseteq Quiet(n)
    BY <1>2, <1>4, CalmStep DEF StartUnlink
  <1>7. Informed(t)'
    <2>1. op'[t] \in {"raised", "launch"} /\ seen' = seen
      BY DEF StartUnlink, Goto, SupInv, SupTypes, ThreadTypes
    <2>2. Quiet(target[t])' = {}
      BY <1>3 DEF StartUnlink, Quiet, LaunchesOf, Known
    <2>3. seen'[t] # 0 => child'[seen'[t]] \in {"running", "told", "gone"}
      BY DEF StartUnlink, SupInv, AllInformed, Informed, Written
    <2>4. QED BY <2>1, <2>2, <2>3 DEF Informed, Written
  <1>8. AllInformed'
    BY <1>2, <1>6, <1>7, OneThread DEF StartUnlink, Goto, SupInv, SupTypes, ThreadTypes
  <1>9. QED BY <1>1, <1>2, <1>5, <1>6, <1>8 DEF SupInv, SupTypes

LEMMA StartLaunchFailsKeeps ==
  ASSUME SupInv, NEW t \in Threads, StartLaunchFails(t)
  PROVE  SupInv'
  <1>1. ThreadTypes'
    BY DEF SupInv, SupTypes, ThreadTypes, StartLaunchFails, Goto, Known
  <1>2. Ages
    BY SameLaunches DEF SupInv, SupTypes, StartLaunchFails
  <1>3. op'[t] = "raised" /\ seen'[t] = seen[t]
    BY DEF StartLaunchFails, Goto, SupInv, SupTypes, ThreadTypes
  <1>4. Informed(t)'
    BY <1>2, <1>3, NothingFound DEF SupInv, SupTypes, AllInformed
  <1>5. QED
    BY <1>1, <1>4, ThreadOnly DEF StartLaunchFails, Goto, SupInv, SupTypes, ThreadTypes

LEMMA StopReadKeeps ==
  ASSUME SupInv, NEW t \in Threads, StopRead(t)
  PROVE  SupInv'
  <1>1. target[t] \in Names /\ pidfile[target[t]] \in {0} \cup Known
    BY DEF SupInv, SupTypes, ThreadTypes, FileTypes, LaunchesOf
  <1>2. ThreadTypes'
    BY <1>1 DEF SupInv, SupTypes, ThreadTypes, StopRead, Goto, Known
  <1>3. op'[t] = "take" /\ seen'[t] = pidfile[target[t]]
    BY DEF StopRead, Goto, SupInv, SupTypes, ThreadTypes
  <1>4. Quiet(target[t])' \subseteq {seen'[t]}
    <2>1. Quiet(target[t]) \subseteq {pidfile[target[t]]}
      BY <1>1 DEF SupInv, PidfileTracks
    <2>2. QED BY <1>3, <2>1 DEF StopRead, Quiet, LaunchesOf, Known
  <1>5. seen'[t] # 0 => child'[seen'[t]] \in {"running", "told", "gone"}
    BY <1>1, <1>3 DEF StopRead, SupInv, PidsWritten, Written
  <1>6. Informed(t)'
    BY <1>3, <1>4, <1>5 DEF Informed, Written
  <1>7. QED BY <1>2, <1>6, ThreadOnly DEF StopRead, Goto, SupInv, SupTypes, ThreadTypes

LEMMA StopTakeKeeps ==
  ASSUME SupInv, NEW t \in Threads, StopTake(t)
  PROVE  SupInv'
  <1>1. Own(t) \in {0} \cup Known
    BY SupervisorAssumption DEF SupInv, SupTypes, ThreadTypes, FileTypes, LaunchesOf, Own
  <1>2. ThreadTypes'
    BY <1>1 DEF SupInv, SupTypes, ThreadTypes, StopTake, Goto, Known
  <1>3. op'[t] = (IF Own(t) = 0 /\ seen[t] = 0 THEN "cleanup" ELSE "signal") /\ seen' = seen
    BY DEF StopTake, Goto, SupInv, SupTypes, ThreadTypes
  <1>4. Quiet(target[t])' \subseteq {seen[t]}
    <2>1. Quiet(target[t]) \subseteq {seen[t]}
      BY DEF StopTake, SupInv, AllInformed, Informed
    <2>2. QED BY <2>1 DEF StopTake, Quiet, LaunchesOf, Known
  <1>5. 0 \notin Quiet(target[t])'
    BY <1>2, KnownLaunches DEF StopTake, Quiet, LaunchesOf, Known, Launches
  <1>6. seen'[t] # 0 => child'[seen'[t]] \in {"running", "told", "gone"}
    BY <1>3 DEF StopTake, SupInv, AllInformed, Informed, Written
  <1>7. op'[t] = "cleanup" => seen'[t] = 0 /\ own'[t] = 0 /\ Quiet(target[t])' = {}
    <2>1. own'[t] = Own(t)
      BY DEF StopTake, SupInv, SupTypes, ThreadTypes
    <2>2. QED BY <1>3, <1>4, <1>5, <2>1
  <1>8. op'[t] \in {"cleanup", "signal"} /\ seen'[t] = seen[t]
    BY <1>3
  <1>9. Informed(t)'
    BY <1>4, <1>6, <1>7, <1>8 DEF Informed, Written
  <1>10. QED BY <1>2, <1>9, ThreadOnly DEF StopTake, Goto, SupInv, SupTypes, ThreadTypes

\* Only child and terminal have changed, and one thread's op.
LEMMA StopSignalKeeps ==
  ASSUME SupInv, NEW t \in Threads, StopSignal(t)
  PROVE  SupInv'
  <1> USE DEF StopSignal, Goto
  <1>1. ThreadTypes' /\ target[t] \in Names
    BY DEF SupInv, SupTypes, ThreadTypes, Known
  <1>2. FileTypes'
    BY SameFiles DEF SupInv, SupTypes
  <1>3. LaunchTypes /\ Known \subseteq Launches
    BY KnownLaunches DEF SupInv, SupTypes
  <1>4. \A l \in Launches :
          /\ child'[l] = IF l = seen[t] /\ child[l] = "running" THEN "told" ELSE child[l]
          /\ terminal'[l] = IF l = own[t] /\ terminal[l] = "open" THEN "told" ELSE terminal[l]
    OBVIOUS
  <1>5. LaunchTypes'
    <2>1. \A l \in Launches : /\ child'[l] \in {"none", "shell", "running", "told", "gone"}
                              /\ terminal'[l] \in {"none", "open", "told", "closed"}
      BY <1>3, <1>4 DEF LaunchTypes
    <2>2. \A l \in Launches : /\ terminal'[l] = "none" <=> terminal[l] = "none"
                              /\ child'[l] = "none" <=> child[l] = "none"
      BY <1>4
    <2>3. QED BY <1>3, <2>1, <2>2 DEF LaunchTypes, Known
  <1>6. Ages
    BY <1>3, <1>4 DEF Ages, Written
  <1>7. /\ PidfileTracks' /\ PidsWritten' /\ ShellsAlone'
        /\ \A n \in Names : Quiet(n)' \subseteq Quiet(n)
    BY <1>3, <1>4, <1>6, CalmStep
  <1>8. Informed(t)'
    <2>1. op'[t] = "wait" /\ seen' = seen /\ target' = target /\ contested' = contested
      BY DEF SupInv, SupTypes, ThreadTypes
    <2>2. Quiet(target[t]) \subseteq {seen[t]}
      BY DEF SupInv, AllInformed, Informed
    <2>3. ASSUME NEW l \in Quiet(target[t])' PROVE FALSE
      <3>1. l \in Known /\ child'[l] = "running" /\ l \in Quiet(target[t])
        BY <1>1, <1>7, <2>1, <2>3 DEF Quiet, LaunchesOf, Known
      <3>2. l = seen[t]
        BY <2>2, <3>1
      <3>3. QED BY <1>3, <1>4, <3>1, <3>2
    <2>4. seen[t] # 0 => child'[seen[t]] \in {"told", "gone"}
      <3>1. seen[t] # 0 => child[seen[t]] \in {"running", "told", "gone"}
        BY DEF SupInv, AllInformed, Informed, Written
      <3>2. seen[t] # 0 => seen[t] \in Launches
        BY <1>3 DEF SupInv, SupTypes, ThreadTypes
      <3>3. QED BY <1>4, <3>1, <3>2
    <2>5. Quiet(target[t])' = {}
      BY <2>3
    <2>6. QED BY <2>1, <2>4, <2>5 DEF Informed, Written
  <1>9. AllInformed'
    BY <1>6, <1>7, <1>8, OneThread DEF SupInv, SupTypes, ThreadTypes
  <1>10. QED BY <1>1, <1>2, <1>5, <1>7, <1>9 DEF SupInv, SupTypes

LEMMA StopWaitKeeps ==
  ASSUME SupInv, NEW t \in Threads, StopWait(t)
  PROVE  SupInv'
  <1>1. ThreadTypes' /\ target[t] \in Names
    BY DEF SupInv, SupTypes, ThreadTypes, Known, StopWait, Goto
  <1>2. FileTypes'
    BY SameFiles DEF SupInv, SupTypes, StopWait
  <1>3. LaunchTypes /\ Known \subseteq Launches /\ 0 \notin Launches
    BY KnownLaunches DEF SupInv, SupTypes
  <1>4. /\ seen[t] # 0 => seen[t] \in Known /\ child[seen[t]] \in {"told", "gone"}
        /\ own[t] # 0 => own[t] \in Known
    BY DEF SupInv, SupTypes, ThreadTypes, AllInformed, Informed, StopWait
  <1>5. \A l \in Launches :
          /\ child'[l] = child[l] \/ (l = seen[t] /\ child'[l] = "gone")
          /\ terminal'[l] = terminal[l] \/ (l \in {own[t], seen[t]} \ {0} /\ terminal'[l] = "closed")
    BY DEF StopWait, KillSeen
  <1>6. contested' \subseteq contested /\ contested \subseteq contested' \cup {seen[t]}
    BY DEF StopWait, KillSeen
  <1>7. LaunchTypes'
    <2>1. child' \in [Launches -> {"none", "shell", "running", "told", "gone"}]
      BY <1>3, <1>5 DEF LaunchTypes, StopWait, KillSeen
    <2>2. terminal' \in [Launches -> {"none", "open", "told", "closed"}]
      BY <1>3, <1>5 DEF LaunchTypes, StopWait, KillSeen
    <2>3. \A l \in Launches : /\ terminal'[l] = "none" <=> terminal[l] = "none"
                              /\ child'[l] = "none" <=> child[l] = "none"
      BY <1>3, <1>4, <1>5 DEF LaunchTypes
    <2>4. contested' \subseteq Known
      BY <1>3, <1>6 DEF LaunchTypes
    <2>5. launches' = launches
      BY DEF StopWait
    <2>6. QED BY <1>3, <2>1, <2>2, <2>3, <2>4, <2>5 DEF LaunchTypes, Known
  <1>8. Ages
    BY <1>3, <1>4, <1>5 DEF Ages, Written
  <1>9. /\ PidfileTracks' /\ PidsWritten' /\ ShellsAlone'
        /\ \A n \in Names : Quiet(n)' \subseteq Quiet(n)
    <2>1. \A l \in Known : child'[l] = "running" /\ l \notin contested' =>
             child[l] = "running" /\ l \notin contested
      BY <1>3, <1>4, <1>5, <1>6
    <2>2. launches' = launches /\ pidfile' = pidfile
      BY DEF StopWait
    <2>3. QED BY <1>8, <2>1, <2>2, CalmStep
  <1>10. Informed(t)'
    <2>1. op'[t] = "cleanup" /\ seen' = seen /\ target' = target /\ own' = own
          /\ launches' = launches
      BY DEF SupInv, SupTypes, ThreadTypes, StopWait, Goto
    <2>2. Quiet(target[t]) = {}
      BY DEF SupInv, AllInformed, Informed, StopWait
    <2>3. Quiet(target[t])' = {}
      BY <1>1, <1>9, <2>1, <2>2 DEF Quiet, LaunchesOf, Known
    <2>4. seen[t] # 0 => child'[seen[t]] \in {"told", "gone"}
      BY <1>3, <1>4, <1>5
    <2>5. CASE own[t] # 0 /\ terminal[own[t]] = "closed"
      <3>1. terminal' = terminal
        BY <2>5 DEF StopWait
      <3>2. QED BY <2>1, <2>3, <2>4, <2>5, <3>1 DEF Informed, Written
    <2>6. CASE ~(own[t] # 0 /\ terminal[own[t]] = "closed")
      <3>1. KillSeen(t)
        BY <2>6 DEF StopWait
      <3>2. own[t] # 0 => terminal'[own[t]] = "closed"
        BY <1>3, <1>4, <3>1 DEF KillSeen
      <3>3. seen[t] # 0 => child'[seen[t]] = "gone"
        BY <1>3, <1>4, <3>1 DEF KillSeen, Live
      <3>4. QED BY <2>1, <2>3, <3>2, <3>3 DEF Informed, Written
    <2>7. QED BY <2>5, <2>6
  <1>11. AllInformed'
    BY <1>8, <1>9, <1>10, OneThread DEF SupInv, SupTypes, ThreadTypes, StopWait, Goto
  <1>12. QED BY <1>1, <1>2, <1>7, <1>9, <1>11 DEF SupInv, SupTypes

LEMMA StopCleanupKeeps ==
  ASSUME SupInv, NEW t \in Threads, StopCleanup(t)
  PROVE  SupInv'
  <1>1. ThreadTypes' /\ target[t] \in Names
    BY DEF SupInv, SupTypes, ThreadTypes, StopCleanup, Goto, Known
  <1>2. LaunchTypes' /\ Ages
    BY SameLaunches DEF SupInv, SupTypes, StopCleanup
  <1>3. Quiet(target[t]) = {}
    BY DEF StopCleanup, SupInv, AllInformed, Informed
  <1>4. \A n \in Names : pidfile'[n] = pidfile[n] \/ (pidfile'[n] = 0 /\ Quiet(n) = {})
    BY <1>1, <1>3 DEF StopCleanup, SupInv, SupTypes, FileTypes
  <1>5. FileTypes'
    <2>1. pidfile' \in [Names -> Nat]
      BY DEF StopCleanup, SupInv, SupTypes, FileTypes
    <2>2. QED BY <1>4, <2>1 DEF StopCleanup, SupInv, SupTypes, FileTypes, LaunchesOf, Known
  <1>6. /\ PidfileTracks' /\ PidsWritten' /\ ShellsAlone'
        /\ \A n \in Names : Quiet(n)' \subseteq Quiet(n)
    BY <1>2, <1>4, CalmStep DEF StopCleanup
  <1>7. Informed(t)'
    <2>1. op'[t] = "idle" /\ seen'[t] = 0
      BY DEF StopCleanup, Goto, SupInv, SupTypes, ThreadTypes
    <2>2. QED BY <1>2, <2>1, NothingFound DEF SupInv, SupTypes, AllInformed
  <1>8. AllInformed'
    BY <1>2, <1>6, <1>7, OneThread DEF StopCleanup, Goto, SupInv, SupTypes, ThreadTypes
  <1>9. QED BY <1>1, <1>2, <1>5, <1>6, <1>8 DEF SupInv, SupTypes

\* A launch whose number is new.
LEMMA NewLaunch ==
  ASSUME LaunchTypes, NEW n \in Names, NEW run \in Nat,
         launches' = Append(launches, [name |-> n, run |-> run])
  PROVE  /\ launches' \in Seq([name : Names, run : Nat])
         /\ Len(launches') = Len(launches) + 1
         /\ Known' = Known \cup {Len(launches) + 1} /\ Len(launches) + 1 \notin Known
         /\ \A l \in Known : launches'[l] = launches[l]
         /\ launches'[Len(launches) + 1] = [name |-> n, run |-> run]
  <1>1. [name |-> n, run |-> run] \in [name : Names, run : Nat]
    OBVIOUS
  <1>2. /\ launches' \in Seq([name : Names, run : Nat])
        /\ Len(launches') = Len(launches) + 1
        /\ \A l \in 1 .. Len(launches) : launches'[l] = launches[l]
        /\ launches'[Len(launches) + 1] = [name |-> n, run |-> run]
    BY <1>1, AppendProperties DEF LaunchTypes
  <1>3. Len(launches) \in Nat
    BY KnownLaunches
  <1>4. 1 .. Len(launches') = 1 .. Len(launches) \cup {Len(launches) + 1}
        /\ Len(launches) + 1 \notin 1 .. Len(launches)
    BY <1>2, <1>3
  <1>5. QED BY <1>2, <1>4 DEF Known

LEMMA StartLaunchKeeps ==
  ASSUME SupInv, NEW t \in Threads, NEW run \in Nat, StartLaunch(t, run)
  PROVE  SupInv'
  <1> DEFINE new == Len(launches) + 1
  <1>1. target[t] \in Names /\ SupervisorOf[t] \in Supervisors /\ LaunchTypes
    BY SupervisorAssumption DEF SupInv, SupTypes, ThreadTypes
  <1>2. /\ launches' = Append(launches, [name |-> target[t], run |-> run])
        /\ terminal' = [terminal EXCEPT ![new] = "open"]
        /\ child' = [child EXCEPT ![new] = "shell"]
        /\ process' = [process EXCEPT ![SupervisorOf[t]][target[t]] = new]
        /\ op' = [op EXCEPT ![t] = "idle"] /\ op[t] = "launch" /\ new <= MaxLaunches
        /\ UNCHANGED <<pidfile, target, seen, own, contested>>
    BY DEF StartLaunch, Goto
  <1>3. /\ launches' \in Seq([name : Names, run : Nat])
        /\ Len(launches') = new /\ Known' = Known \cup {new} /\ new \notin Known
        /\ \A l \in Known : launches'[l] = launches[l]
        /\ launches'[new] = [name |-> target[t], run |-> run]
    BY <1>1, <1>2, NewLaunch
  <1>4. new \in Nat /\ new \in Launches /\ Known \subseteq Launches
    BY <1>1, <1>2, KnownLaunches DEF Launches
  <1>5. /\ \A n \in Names : LaunchesOf(n) \subseteq LaunchesOf(n)'
        /\ \A n \in Names : n = target[t] => new \in LaunchesOf(n)'
    BY <1>3 DEF LaunchesOf
  <1> HIDE DEF new
  <1>6. LaunchTypes'
    <2>1. terminal' \in [Launches -> {"none", "open", "told", "closed"}]
      BY <1>1, <1>2 DEF LaunchTypes
    <2>2. child' \in [Launches -> {"none", "shell", "running", "told", "gone"}]
      BY <1>1, <1>2 DEF LaunchTypes
    <2>3. \A l \in Launches : (terminal'[l] = "none" <=> l \notin Known')
                              /\ (child'[l] = "none" <=> l \notin Known')
      BY <1>1, <1>2, <1>3, <1>4 DEF LaunchTypes
    <2>4. contested' \subseteq Known'
      BY <1>1, <1>2, <1>3 DEF LaunchTypes
    <2>5. Len(launches') <= MaxLaunches
      BY <1>2, <1>3
    <2>6. QED BY <1>3, <2>1, <2>2, <2>3, <2>4, <2>5 DEF LaunchTypes
  <1>7. FileTypes'
    <2>1. pidfile' \in [Names -> Nat] /\ \A n \in Names : pidfile'[n] \in {0} \cup LaunchesOf(n)'
      BY <1>2, <1>5 DEF SupInv, SupTypes, FileTypes
    <2>2. process' \in [Supervisors -> [Names -> Nat]]
      BY <1>1, <1>2, <1>4 DEF SupInv, SupTypes, FileTypes
    <2>3. \A s \in Supervisors, n \in Names :
            process'[s][n] = process[s][n] \/ (process'[s][n] = new /\ n = target[t])
      BY <1>1, <1>2 DEF SupInv, SupTypes, FileTypes
    <2>4. \A s \in Supervisors, n \in Names : process'[s][n] \in {0} \cup LaunchesOf(n)'
      BY <1>5, <2>3 DEF SupInv, SupTypes, FileTypes
    <2>5. QED BY <2>1, <2>2, <2>4 DEF FileTypes
  <1>8. ThreadTypes'
    BY <1>2, <1>3 DEF SupInv, SupTypes, ThreadTypes
  <1>9. /\ \A l \in Known : child'[l] = child[l] /\ terminal'[l] = terminal[l]
        /\ child'[new] = "shell"
    BY <1>1, <1>2, <1>3, <1>4 DEF LaunchTypes
  <1>10. Ages
    BY <1>9 DEF Ages, Written
  <1>11. \A n \in Names : Quiet(n)' \subseteq Quiet(n)
    <2>1. \A l \in Known' : child'[l] = "running" /\ l \notin contested' =>
            /\ l \in Known /\ child[l] = "running" /\ l \notin contested
            /\ launches'[l].name = launches[l].name
      BY <1>2, <1>3, <1>9
    <2>2. QED BY <2>1, QuietStays
  <1>12. PidfileTracks'
    BY <1>2, <1>11 DEF SupInv, PidfileTracks
  <1>13. PidsWritten'
    <2>1. \A n \in Names : pidfile[n] # 0 => pidfile[n] \in Known
      BY DEF SupInv, SupTypes, FileTypes, LaunchesOf
    <2>2. QED BY <1>2, <1>9, <2>1 DEF SupInv, PidsWritten, Written
  <1>14. ShellsAlone'
    <2> SUFFICES ASSUME NEW l \in Known', child'[l] = "shell", NEW n, n = launches'[l].name
                 PROVE  Quiet(n)' = {}
      BY Zenon DEF ShellsAlone, Quiet
    <2>1. CASE l = new
      <3>1. n = target[t]
        BY <1>3, <2>1
      <3>2. Quiet(target[t]) = {}
        BY <1>2 DEF SupInv, AllInformed, Informed
      <3>3. QED BY <1>1, <1>11, <3>1, <3>2
    <2>2. CASE l \in Known
      <3>1. child[l] = "shell" /\ n = launches[l].name /\ n \in Names
        BY <1>1, <1>3, <1>9, <2>2, KnownLaunches
      <3>2. Quiet(n) = {}
        BY <2>2, <3>1 DEF SupInv, ShellsAlone
      <3>3. QED BY <1>11, <3>1, <3>2
    <2>3. QED BY <1>3, <2>1, <2>2
  <1>15. Informed(t)'
    <2>1. op'[t] = "idle" /\ seen'[t] = seen[t]
      BY <1>2 DEF SupInv, SupTypes, ThreadTypes
    <2>2. QED BY <1>10, <2>1, NothingFound DEF SupInv, SupTypes, AllInformed
  <1>16. AllInformed'
    <2>1. \A u \in Threads \ {t} : /\ op'[u] = op[u] /\ target'[u] = target[u]
                                   /\ seen'[u] = seen[u] /\ own'[u] = own[u]
      BY <1>2 DEF SupInv, SupTypes, ThreadTypes
    <2>2. QED BY <1>10, <1>11, <1>15, <2>1, OneThread
  <1>17. QED BY <1>6, <1>7, <1>8, <1>12, <1>13, <1>14, <1>16 DEF SupInv, SupTypes
-----------------------------------------------------------------------------
(***************************************************************************)
(* The life of a launch.                                                   *)
(***************************************************************************)
LEMMA ChildExitsKeeps ==
  ASSUME SupInv, NEW l, ChildExits(l)
  PROVE  SupInv'
  <1>1. LaunchTypes /\ Known \subseteq Launches /\ l \in Known
    BY KnownLaunches DEF SupInv, SupTypes, ChildExits
  <1>2. \A k \in Launches :
          /\ child'[k] = IF k = l THEN "gone" ELSE child[k]
          /\ terminal'[k] = IF k = l THEN "closed" ELSE terminal[k]
    BY <1>1 DEF ChildExits, LaunchTypes
  <1>3. LaunchTypes'
    <2>1. /\ child' \in [Launches -> {"none", "shell", "running", "told", "gone"}]
          /\ terminal' \in [Launches -> {"none", "open", "told", "closed"}]
      BY <1>1 DEF LaunchTypes, ChildExits
    <2>2. \A k \in Launches : (terminal'[k] = "none" <=> k \notin Known)
                              /\ (child'[k] = "none" <=> k \notin Known)
      BY <1>1, <1>2 DEF LaunchTypes
    <2>3. contested' \subseteq Known /\ launches' = launches
      BY <1>1 DEF LaunchTypes, ChildExits
    <2>4. QED BY <1>1, <2>1, <2>2, <2>3 DEF LaunchTypes, Known
  <1>4. FileTypes' /\ ThreadTypes'
    BY SameFiles, SameThreads DEF SupInv, SupTypes, ChildExits
  <1>5. Ages
    BY <1>1, <1>2 DEF Ages, Written
  <1>6. \A k \in Known : child'[k] = "running" /\ k \notin contested' =>
          child[k] = "running" /\ k \notin contested
    BY <1>1, <1>2 DEF ChildExits
  <1>7. /\ PidfileTracks' /\ PidsWritten' /\ ShellsAlone'
        /\ \A n \in Names : Quiet(n)' \subseteq Quiet(n)
    BY <1>5, <1>6, CalmStep DEF ChildExits
  <1>8. AllInformed'
    BY <1>5, <1>7, StaysInformed DEF ChildExits, opVars, SupInv, SupTypes, AllInformed
  <1>9. QED BY <1>3, <1>4, <1>7, <1>8 DEF SupInv, SupTypes

LEMMA TerminalExitsKeeps ==
  ASSUME SupInv, NEW l, TerminalExits(l)
  PROVE  SupInv'
  <1>1. LaunchTypes /\ Known \subseteq Launches /\ l \in Known
    BY KnownLaunches DEF SupInv, SupTypes, TerminalExits
  <1>2. \A k \in Launches : terminal'[k] = IF k = l THEN "closed" ELSE terminal[k]
    BY <1>1 DEF TerminalExits, LaunchTypes
  <1>3. LaunchTypes'
    <2>1. terminal' \in [Launches -> {"none", "open", "told", "closed"}]
      BY <1>1 DEF LaunchTypes, TerminalExits
    <2>2. \A k \in Launches : terminal'[k] = "none" <=> k \notin Known
      BY <1>1, <1>2 DEF LaunchTypes
    <2>3. QED BY <1>1, <2>1, <2>2 DEF LaunchTypes, Known, TerminalExits
  <1>4. FileTypes' /\ ThreadTypes'
    BY SameFiles, SameThreads DEF SupInv, SupTypes, TerminalExits
  <1>5. Ages
    BY <1>1, <1>2 DEF Ages, Written, TerminalExits
  <1>7. /\ PidfileTracks' /\ PidsWritten' /\ ShellsAlone'
        /\ \A n \in Names : Quiet(n)' \subseteq Quiet(n)
    BY <1>5, CalmStep DEF TerminalExits
  <1>8. AllInformed'
    BY <1>5, <1>7, StaysInformed DEF TerminalExits, opVars, SupInv, SupTypes, AllInformed
  <1>9. QED BY <1>3, <1>4, <1>7, <1>8 DEF SupInv, SupTypes

\* A shell writes its pid file.  The threads may be reset at the same time.
LEMMA ShellWritesKeeps ==
  ASSUME SupInv, NEW l, ShellWritesPid(l), ThreadTypes',
         process' \in [Supervisors -> [Names -> Nat]],
         \A s \in Supervisors, n \in Names : process'[s][n] \in {0, process[s][n]},
         \A t \in Threads :
           \/ op'[t] = op[t] /\ target'[t] = target[t] /\ seen'[t] = seen[t] /\ own'[t] = own[t]
           \/ op'[t] = "idle" /\ seen'[t] = 0
  PROVE  SupInv'
  <1> DEFINE name == launches[l].name
  <1>1. LaunchTypes /\ Known \subseteq Launches /\ l \in Known /\ name \in Names
    BY KnownLaunches DEF SupInv, SupTypes, ShellWritesPid
  <1>2. /\ launches' = launches /\ terminal' = terminal
        /\ child' = [child EXCEPT ![l] = "running"] /\ child[l] = "shell"
        /\ pidfile' = [pidfile EXCEPT ![name] = l]
        /\ contested' = IF Contest(l) THEN contested \cup {l} ELSE contested
    BY DEF ShellWritesPid
  <1> HIDE DEF name
  <1>3. \A k \in Launches : child'[k] = IF k = l THEN "running" ELSE child[k]
    BY <1>1, <1>2 DEF LaunchTypes
  <1>4. LaunchTypes'
    <2>1. child' \in [Launches -> {"none", "shell", "running", "told", "gone"}]
      BY <1>1, <1>2 DEF LaunchTypes
    <2>2. \A k \in Launches : child'[k] = "none" <=> k \notin Known
      BY <1>1, <1>3 DEF LaunchTypes
    <2>3. contested' \subseteq Known
      BY <1>1, <1>2 DEF LaunchTypes
    <2>4. QED BY <1>1, <1>2, <2>1, <2>2, <2>3 DEF LaunchTypes, Known
  <1>5. l \in LaunchesOf(name) /\ l \in Nat /\ l # 0
    BY <1>1, KnownLaunches DEF LaunchesOf, Known, name
  <1>6. /\ pidfile' \in [Names -> Nat]
        /\ \A n \in Names : pidfile'[n] = IF n = name THEN l ELSE pidfile[n]
    BY <1>1, <1>2, <1>5 DEF SupInv, SupTypes, FileTypes
  <1>7. FileTypes'
    <2>1. \A n \in Names : LaunchesOf(n)' = LaunchesOf(n)
      BY <1>2 DEF LaunchesOf, Known
    <2>2. \A n \in Names : pidfile'[n] \in {0} \cup LaunchesOf(n)
      BY <1>5, <1>6 DEF SupInv, SupTypes, FileTypes
    <2>3. \A s \in Supervisors, n \in Names : process'[s][n] \in {0} \cup LaunchesOf(n)
      BY DEF SupInv, SupTypes, FileTypes
    <2>4. QED BY <1>6, <2>1, <2>2, <2>3 DEF FileTypes
  <1>8. Ages
    BY <1>1, <1>2, <1>3 DEF Ages, Written
  <1>9. \A n \in Names : Quiet(n)' \subseteq Quiet(n) \cup (IF n = name THEN {l} ELSE {})
    BY <1>1, <1>2, <1>3 DEF Quiet, LaunchesOf, Known, name
  <1>10. Contest(l) => \A n \in Names : Quiet(n)' \subseteq Quiet(n)
    BY <1>1, <1>2, <1>3 DEF Quiet, LaunchesOf, Known
  <1>11. Quiet(name) = {}
    BY <1>1, <1>2 DEF SupInv, ShellsAlone, name
  <1>12. PidfileTracks'
    BY <1>6, <1>9, <1>11 DEF SupInv, PidfileTracks
  <1>13. PidsWritten'
    <2> SUFFICES ASSUME NEW n \in Names, pidfile'[n] # 0
                 PROVE  child'[pidfile'[n]] \in {"running", "told", "gone"}
      BY DEF PidsWritten, Written
    <2>1. CASE n = name
      BY <1>1, <1>3, <1>6, <2>1
    <2>2. CASE n # name
      <3>1. pidfile[n] \in Known /\ pidfile'[n] = pidfile[n]
        BY <1>6, <2>2 DEF SupInv, SupTypes, FileTypes, LaunchesOf
      <3>2. Written(pidfile[n])
        BY <3>1 DEF SupInv, PidsWritten
      <3>3. QED BY <1>8, <3>1, <3>2 DEF Ages, Written
    <2>3. QED BY <2>1, <2>2
  <1>14. ShellsAlone'
    <2> SUFFICES ASSUME NEW k \in Known, child'[k] = "shell", NEW n, n = launches[k].name
                 PROVE  Quiet(n)' = {}
      BY <1>2 DEF ShellsAlone, Quiet, LaunchesOf, Known
    <2>1. k # l /\ child[k] = "shell" /\ n \in Names
      BY <1>1, <1>3, KnownLaunches
    <2>2. Quiet(n) = {}
      BY <2>1 DEF SupInv, ShellsAlone
    <2>3. n = name => Contest(l)
      BY <2>1 DEF Contest, LaunchesOf, name
    <2>4. QED BY <1>9, <1>10, <2>1, <2>2, <2>3
  <1>15. AllInformed'
    <2> SUFFICES ASSUME NEW t \in Threads PROVE Informed(t)'
      BY DEF AllInformed
    <2>1. Informed(t) /\ ThreadTypes
      BY DEF SupInv, SupTypes, AllInformed
    <2>2. CASE op'[t] = "idle" /\ seen'[t] = 0
      BY <1>8, <2>1, <2>2, NothingFound
    <2>3. CASE /\ op'[t] = op[t] /\ target'[t] = target[t] /\ seen'[t] = seen[t]
               /\ own'[t] = own[t]
      <3>1. ASSUME op[t] \notin {"idle", "start", "stop"}, NEW n \in Names, n = target[t]
            PROVE  Quiet(n)' \subseteq Quiet(n)
        <4>1. n = name => Contest(l)
          BY <3>1 DEF Contest, name
        <4>2. QED BY <1>9, <1>10, <4>1
      <3>2. QED BY <1>8, <2>1, <2>3, <3>1, StaysInformed
    <2>4. QED BY <2>2, <2>3
  <1>16. QED BY <1>4, <1>7, <1>12, <1>13, <1>14, <1>15 DEF SupInv, SupTypes

LEMMA ThreadStepKeeps ==
  ASSUME SupInv, NEW t \in Threads, NEW run \in Nat,
         ThreadStep(t) \/ StartLaunch(t, run)
  PROVE  SupInv'
  BY StartCheckKeeps, StartExistsKeeps, StartUnlinkKeeps, StartLaunchKeeps,
     StartLaunchFailsKeeps, StopReadKeeps, StopTakeKeeps, StopSignalKeeps, StopWaitKeeps, StopCleanupKeeps DEF ThreadStep
-----------------------------------------------------------------------------
(***************************************************************************)
(* The controller.                                                         *)
(***************************************************************************)

\* The runs that launched the processes: none of the run that is setting up its
\* segment.
RunsInOrder ==
  \A l \in Known : /\ launches[l].run <= runs
                   /\ phase = "INIT_SHM" => launches[l].run < runs
InUse == (Starting \ {"INIT_SHM"}) \cup {"RUNNING"}
SegmentOfRun ==
  /\ phase \in InUse \cup {"INIT_SHM"} => runs >= 1
  /\ phase \in InUse => segment \in {runs, 0}
Attached ==
  \A l \in Known :
    /\ phase \in InUse /\ child[l] = "running"
    /\ launches[l].run = runs /\ launches[l].name \in Openers
    => attached[l] \in {runs, segment}
MainIdle == phase \in {"off", "STOPPED", "INIT_SHM"} => op[Main] = "idle"

LifeTypes ==
  /\ phase \in Starting \cup {"off", "RUNNING", "ERROR", "SHUTTING_DOWN", "STOPPED"}
  /\ running \in BOOLEAN
  /\ todo \in Seq(Names)
  /\ runs \in 0 .. MaxRuns /\ segment \in 0 .. runs /\ calls \in 0 .. MaxCalls
  /\ attached \in [Launches -> 0 .. runs]

LifeInv ==
  SupInv /\ LifeTypes /\ RunsInOrder /\ SegmentOfRun /\ Attached /\ MainIdle

LEMMA LifeInit == Init => LifeInv
  <1> SUFFICES ASSUME Init PROVE LifeInv
    OBVIOUS
  <1> USE DEF Init, SupInit
  <1>1. Known = {} /\ Len(launches) = 0
    BY DEF Known
  <1>2. can_daemon \in Names /\ (CHOOSE n \in Names : TRUE) \in Names
    BY LifecycleAssumption
  <1>3. LaunchTypes
    BY <1>1, SupervisorAssumption, EmptySeq DEF LaunchTypes
  <1>4. FileTypes
    BY DEF FileTypes
  <1>5. ThreadTypes
    BY <1>2 DEF ThreadTypes
  <1>6. PidfileTracks /\ PidsWritten /\ ShellsAlone
    BY <1>1 DEF PidfileTracks, PidsWritten, ShellsAlone, Quiet, LaunchesOf
  <1>7. AllInformed
    BY DEF AllInformed, Informed
  <1>8. LifeTypes
    <2>1. /\ todo \in Seq(Names) /\ runs \in 0 .. MaxRuns /\ calls \in 0 .. MaxCalls
          /\ segment \in 0 .. runs
      BY LifecycleAssumption, EmptySeq
    <2>2. attached \in [Launches -> 0 .. runs]
      <3>1. 0 \in 0 .. runs
        BY <2>1
      <3>2. QED BY <3>1
    <2>3. phase \in Starting \cup {"off", "RUNNING", "ERROR", "SHUTTING_DOWN", "STOPPED"}
          /\ running \in BOOLEAN
      OBVIOUS
    <2>4. QED BY <2>1, <2>2, <2>3 DEF LifeTypes
  <1>9. RunsInOrder /\ SegmentOfRun /\ Attached /\ MainIdle
    BY <1>1, LifecycleAssumption
      DEF RunsInOrder, SegmentOfRun, Attached, MainIdle, InUse, Starting
  <1>10. QED BY <1>3, <1>4, <1>5, <1>6, <1>7, <1>8, <1>9 DEF LifeInv, SupInv, SupTypes

LEMMA RunNumbers ==
  ASSUME LifeInv
  PROVE  /\ runs \in Nat /\ segment \in Nat /\ calls \in Nat /\ MaxRuns \in Nat
         /\ MaxCalls \in Nat /\ runs <= MaxRuns /\ segment <= runs /\ calls <= MaxCalls
         /\ \A l \in Known : launches[l].run \in Nat /\ launches[l].name \in Names
         /\ Known \subseteq Launches
  <1>1. LaunchTypes
    BY DEF LifeInv, SupInv, SupTypes
  <1>2. runs \in 0 .. MaxRuns /\ segment \in 0 .. runs /\ calls \in 0 .. MaxCalls
    BY DEF LifeInv, LifeTypes
  <1>3. QED BY <1>1, <1>2, KnownLaunches, LifecycleAssumption

\* A step that launches nothing and lets no process come up.
LEMMA NothingNew ==
  ASSUME LifeInv, launches' = launches, runs' = runs,
         \A l \in Known : child'[l] = "running" =>
           child[l] = "running" /\ attached'[l] = attached[l],
         phase' \in InUse => phase \in InUse /\ segment' \in {segment, 0},
         phase' # "INIT_SHM" \/ phase = "INIT_SHM"
  PROVE  RunsInOrder' /\ SegmentOfRun' /\ Attached'
  BY DEF LifeInv, RunsInOrder, SegmentOfRun, Attached, Known

LEMMA LaunchLife == ASSUME LifeInv, Launch PROVE LifeInv'
  <1>1. SupInv'
    <2>1. SupInv /\ FileTypes /\ ThreadTypes
      BY DEF LifeInv, SupInv, SupTypes
    <2>2. FileTypes'
      BY <2>1 DEF Launch, FileTypes, LaunchesOf, Known
    <2>3. ThreadTypes'
      BY <2>1 DEF Launch, ThreadTypes, Known
    <2>4. QED BY <2>1, <2>2, <2>3, OnlyCalls DEF Launch
  <1>2. runs' = runs + 1 /\ runs' \in 0 .. MaxRuns /\ 0 .. runs \subseteq 0 .. runs'
    BY RunNumbers DEF Launch
  <1>3. LifeTypes'
    BY <1>2, EmptySeq DEF Launch, LifeInv, LifeTypes, Starting, shmVars
  <1>4. RunsInOrder'
    <2>1. \A l \in Known : launches[l].run \in Nat /\ launches[l].run <= runs
      BY RunNumbers DEF LifeInv, RunsInOrder
    <2>2. QED BY <1>2, <2>1, RunNumbers DEF Launch, RunsInOrder, Known
  <1>5. SegmentOfRun' /\ Attached'
    BY <1>2, RunNumbers DEF Launch, SegmentOfRun, Attached, InUse, Starting
  <1>6. MainIdle'
    BY DEF Launch, MainIdle, LifeInv, LifeTypes, Up
  <1>7. QED BY <1>1, <1>3, <1>4, <1>5, <1>6 DEF LifeInv

LEMMA InitShmLife == ASSUME LifeInv, InitShm PROVE LifeInv'
  <1>1. can_daemon \in Names /\ Main \in Threads
    BY LifecycleAssumption
  <1>2. SupInv'
    BY <1>1, CallKeeps DEF InitShm, CallStart, LifeInv
  <1>3. runs \in Nat /\ runs >= 1
    BY RunNumbers DEF InitShm, LifeInv, SegmentOfRun
  <1>4. LifeTypes'
    BY <1>3 DEF InitShm, LifeInv, LifeTypes, Starting
  <1>5. launches' = launches /\ phase' = "START_CAN_DAEMON" /\ runs' = runs /\ segment' = runs
    BY DEF InitShm, CallStart, Call
  <1>6. \A l \in Known : launches[l].run \in Nat /\ launches[l].run < runs
    BY RunNumbers DEF InitShm, LifeInv, RunsInOrder
  <1>7. RunsInOrder' /\ SegmentOfRun' /\ Attached'
    BY <1>3, <1>5, <1>6 DEF RunsInOrder, SegmentOfRun, Attached, Known, InUse
  <1>8. MainIdle'
    BY <1>5 DEF MainIdle
  <1>9. QED BY <1>2, <1>4, <1>7, <1>8 DEF LifeInv

\* The phases from the daemon to the end of stop_all, where only Main calls and
\* nothing else happens.
LEMMA CallOfMain ==
  ASSUME LifeInv, NEW n \in Names, NEW first \in {"start", "stop"}, Call(Main, first, n),
         todo # <<>>, todo' = Tail(todo), phase \notin {"off", "STOPPED", "INIT_SHM"},
         UNCHANGED <<phase, running, runs, calls, shmVars>>
  PROVE  LifeInv'
  <1>1. SupInv'
    BY CallKeeps, LifecycleAssumption DEF LifeInv
  <1>2. LifeTypes'
    BY HeadTailProperties DEF LifeInv, LifeTypes, shmVars
  <1>3. RunsInOrder' /\ SegmentOfRun' /\ Attached'
    BY NothingNew DEF Call, shmVars
  <1>4. QED BY <1>1, <1>2, <1>3 DEF LifeInv, MainIdle

LEMMA PhaseLife ==
  ASSUME LifeInv, BringupImu \/ Connect \/ StartDone \/ Shutdown \/ Signal \/ Stopped
  PROVE  LifeInv'
  <1> USE DEF BringupImu, Connect, StartDone, Shutdown, Signal, Stopped, shmVars
  <1>1. SupInv' /\ UNCHANGED supVars
    BY Unchanged DEF LifeInv
  <1>2. LifeTypes'
    <2>1. segment' \in 0 .. runs /\ runs' = runs
      BY RunNumbers DEF LifeInv, LifeTypes
    <2>2. phase' \in {"START_CHILD_PROCESSES", "BRINGUP_IMU", "RUNNING", "SHUTTING_DOWN", "STOPPED", phase}
          /\ running' \in {TRUE, FALSE, running}
          /\ todo' \in {StartOrder, StopOrder, todo}
      BY DEF LifeInv, LifeTypes
    <2>3. UNCHANGED <<calls, attached>>
      OBVIOUS
    <2>4. QED BY <2>1, <2>2, <2>3, LifecycleAssumption DEF LifeInv, LifeTypes, Starting
  <1>3. RunsInOrder' /\ SegmentOfRun' /\ Attached'
    <2>1. launches' = launches /\ child' = child
      BY <1>1 DEF supVars
    <2>2. /\ runs' = runs /\ attached' = attached
          /\ phase' \in InUse => phase \in InUse /\ segment' \in {segment, 0}
          /\ phase' # "INIT_SHM" \/ phase = "INIT_SHM"
      BY DEF InUse, Starting
    <2>3. QED BY <2>1, <2>2, NothingNew
  <1>4. MainIdle'
    BY <1>1 DEF LifeInv, MainIdle, Idle, supVars, opVars
  <1>5. QED BY <1>1, <1>2, <1>3, <1>4 DEF LifeInv

LEMMA InitShmFailsLife == ASSUME LifeInv, InitShmFails PROVE LifeInv'
  <1>1. SupInv' /\ UNCHANGED supVars
    BY Unchanged DEF InitShmFails, LifeInv
  <1>2. LifeTypes'
    <2>1. segment' \in 0 .. runs
      BY RunNumbers DEF InitShmFails
    <2>2. QED BY <2>1 DEF InitShmFails, LifeInv, LifeTypes
  <1>3. RunsInOrder' /\ SegmentOfRun' /\ Attached'
    BY <1>1, NothingNew DEF InitShmFails, InUse, Starting, supVars
  <1>4. MainIdle'
    BY DEF InitShmFails, MainIdle
  <1>5. QED BY <1>1, <1>2, <1>3, <1>4 DEF LifeInv

LEMMA StartFailsLife == ASSUME LifeInv, StartFails PROVE LifeInv'
  <1>1. SupInv'
    BY EndKeeps, LifecycleAssumption DEF StartFails, LifeInv
  <1>2. LifeTypes'
    BY DEF StartFails, LifeInv, LifeTypes, shmVars
  <1>3. RunsInOrder' /\ SegmentOfRun' /\ Attached'
    BY NothingNew DEF StartFails, InUse, Starting, shmVars
  <1>4. QED BY <1>1, <1>2, <1>3 DEF LifeInv, MainIdle, StartFails

LEMMA CrashLife == ASSUME LifeInv, Crash PROVE LifeInv'
  <1>1. SupInv'
    BY EndKeeps, LifecycleAssumption DEF Crash, Goto, LifeInv
  <1>2. LifeTypes'
    <2>1. segment' \in 0 .. runs
      BY RunNumbers DEF Crash, TrackerActs
    <2>2. QED BY <2>1, EmptySeq DEF Crash, LifeInv, LifeTypes
  <1>3. RunsInOrder' /\ SegmentOfRun' /\ Attached'
    BY NothingNew DEF Crash, InUse, Starting
  <1>4. MainIdle'
    BY LifecycleAssumption DEF MainIdle, Crash, LifeInv, SupInv, SupTypes, ThreadTypes
  <1>5. QED BY <1>1, <1>2, <1>3, <1>4 DEF LifeInv
-----------------------------------------------------------------------------
(***************************************************************************)
(* The other actors, and the threads.                                      *)
(***************************************************************************)

\* Only the main thread can wake from the controller's rest.
LEMMA MainRests ==
  ASSUME LifeInv, phase' = phase, op[Main] = "idle" => op'[Main] = "idle"
  PROVE  MainIdle'
  BY DEF LifeInv, MainIdle

LEMMA OtherPhase ==
  ASSUME LifeInv, UNCHANGED lifeVars, calls' \in 0 .. MaxCalls,
         attached' \in [Launches -> 0 .. runs], segment' \in {segment, 0}
  PROVE  LifeTypes'
  BY RunNumbers DEF LifeInv, LifeTypes, lifeVars

LEMMA DetachFacts ==
  ASSUME LifeInv, Detach
  PROVE  /\ attached' \in [Launches -> 0 .. runs] /\ segment' \in {segment, 0}
         /\ \A l \in Launches : child'[l] # "gone" => attached'[l] = attached[l]
  <1>1. 0 \in 0 .. runs /\ attached \in [Launches -> 0 .. runs]
    BY RunNumbers DEF LifeInv, LifeTypes
  <1>2. QED BY <1>1 DEF Detach, TrackerActs

LEMMA DashboardLife ==
  ASSUME LifeInv, NEW t \in Threads, DashboardCalls(t) \/ DashboardReports(t)
  PROVE  LifeInv'
  <1>1. t # Main /\ UNCHANGED <<launches, child, lifeVars, segment, attached>>
    BY DEF DashboardCalls, DashboardReports, Worker, CallStart, CallStop, Call, shmVars
  <1>2. SupInv'
    BY CallKeeps, EndKeeps
      DEF DashboardCalls, DashboardReports, CallStart, CallStop, LifeInv
  <1>3. calls' \in 0 .. MaxCalls
    <2>1. calls' = calls \/ (calls < MaxCalls /\ calls' = calls + 1)
      BY DEF DashboardCalls, DashboardReports
    <2>2. QED BY <2>1, RunNumbers
  <1>4. LifeTypes'
    BY <1>1, <1>3, OtherPhase DEF LifeInv, LifeTypes
  <1>5. RunsInOrder' /\ SegmentOfRun' /\ Attached'
    BY <1>1, NothingNew DEF lifeVars
  <1>6. op'[Main] = op[Main]
    BY <1>1, LifecycleAssumption
      DEF DashboardCalls, DashboardReports, CallStart, CallStop, Call, Goto,
          LifeInv, SupInv, SupTypes, ThreadTypes
  <1>7. QED BY <1>1, <1>2, <1>4, <1>5, <1>6, MainRests DEF LifeInv, lifeVars

\* A step of a thread other than a launch lets no process come up.
LEMMA ThreadStepFacts ==
  ASSUME SupInv, NEW t \in Threads, ThreadStep(t)
  PROVE  /\ launches' = launches
         /\ \A l \in Launches : child'[l] = "running" => child[l] = "running"
         /\ op[t] # "idle" /\ \A u \in Threads \ {t} : op'[u] = op[u]
  <1>1. launches' = launches
    BY DEF ThreadStep, StartCheck, StartExists, StartUnlink, StartLaunchFails, StopRead, StopTake, StopSignal,
           StopWait, StopCleanup
  <1>2. child' = child \/ StopSignal(t) \/ StopWait(t)
    BY DEF ThreadStep, StartCheck, StartExists, StartUnlink, StartLaunchFails, StopRead, StopTake, StopCleanup
  <1>3. \A l \in Launches : child'[l] = "running" => child[l] = "running"
    BY <1>2 DEF StopSignal, StopWait, KillSeen
  <1>4. op[t] # "idle" /\ \A u \in Threads \ {t} : op'[u] = op[u]
    BY DEF ThreadStep, StartCheck, StartExists, StartUnlink, StartLaunchFails, StopRead, StopTake, StopSignal,
           StopWait, StopCleanup, Goto, SupInv, SupTypes, ThreadTypes
  <1>5. QED BY <1>1, <1>3, <1>4

LEMMA StepLife ==
  ASSUME LifeInv, NEW t \in Threads, Step(t)
  PROVE  LifeInv'
  <1>1. UNCHANGED <<lifeVars, calls>> /\ Detach
    BY DEF Step
  <1>2. SupInv'
    BY ThreadStepKeeps, RunNumbers DEF Step, LifeInv
  <1>3. LifeTypes' /\ segment' \in {segment, 0}
    BY <1>1, OtherPhase, DetachFacts DEF LifeInv, LifeTypes
  <1>4. CASE ThreadStep(t)
    <2>1. /\ launches' = launches
          /\ \A l \in Launches : child'[l] = "running" => child[l] = "running"
          /\ op[t] # "idle" /\ \A u \in Threads \ {t} : op'[u] = op[u]
      BY <1>4, ThreadStepFacts DEF LifeInv
    <2>2. \A l \in Known : child'[l] = "running" =>
            child[l] = "running" /\ attached'[l] = attached[l]
      BY <1>1, <2>1, DetachFacts, RunNumbers
    <2>3. RunsInOrder' /\ SegmentOfRun' /\ Attached'
      BY <1>1, <2>1, <2>2, DetachFacts, NothingNew DEF lifeVars
    <2>4. MainIdle'
      BY <1>1, <2>1, MainRests, LifecycleAssumption DEF lifeVars
    <2>5. QED BY <1>2, <1>3, <2>3, <2>4 DEF LifeInv
  <1>5. CASE StartLaunch(t, IF t = Main THEN runs ELSE 0)
    <2> DEFINE new == Len(launches) + 1
               run == IF t = Main THEN runs ELSE 0
    <2>1. run \in Nat /\ target[t] \in Names /\ LaunchTypes
      BY RunNumbers DEF LifeInv, SupInv, SupTypes, ThreadTypes
    <2>2. /\ launches' = Append(launches, [name |-> target[t], run |-> run])
          /\ child' = [child EXCEPT ![new] = "shell"] /\ op[t] = "launch"
          /\ op' = [op EXCEPT ![t] = "idle"] /\ new <= MaxLaunches
      BY <1>5 DEF StartLaunch, Goto
    <2>3. /\ Known' = Known \cup {new} /\ new \notin Known
          /\ \A l \in Known : launches'[l] = launches[l]
          /\ launches'[new] = [name |-> target[t], run |-> run]
      BY <2>1, <2>2, NewLaunch
    <2>4. new \in Launches /\ Known \subseteq Launches
      BY <2>1, <2>2, KnownLaunches DEF Launches
    <2>5. \A l \in Known : child'[l] = child[l]
      BY <2>2, <2>3 DEF LifeInv, SupInv, SupTypes, LaunchTypes
    <2>6. child'[new] = "shell"
      BY <2>1, <2>2, <2>4 DEF LaunchTypes
    <2>7. phase = "INIT_SHM" => run = 0
      BY <2>2 DEF LifeInv, MainIdle
    <2>8. run <= runs
      BY RunNumbers
    <2> HIDE DEF new, run
    <2>9. RunsInOrder'
      <3>1. phase = "INIT_SHM" => run < runs
        BY <2>7, RunNumbers DEF LifeInv, SegmentOfRun
      <3>2. launches'[new].run = run
        BY <2>3
      <3>3. \A l \in Known : launches'[l].run <= runs /\ (phase = "INIT_SHM" => launches'[l].run < runs)
        BY <2>3 DEF LifeInv, RunsInOrder
      <3>4. QED BY <1>1, <2>3, <2>8, <3>1, <3>2, <3>3 DEF RunsInOrder, lifeVars
    <2>10. SegmentOfRun'
      BY <1>1, <1>3 DEF LifeInv, SegmentOfRun, lifeVars
    <2>11. Attached'
      <3>1. \A l \in Known : child'[l] = "running" => attached'[l] = attached[l]
        BY <1>1, <2>4, DetachFacts
      <3>2. QED
        BY <1>1, <1>3, <2>3, <2>5, <2>6, <2>10, <3>1
          DEF LifeInv, Attached, SegmentOfRun, lifeVars
    <2>12. MainIdle'
      <3>1. op[Main] = "idle" => op'[Main] = "idle"
        BY <2>2, LifecycleAssumption DEF LifeInv, SupInv, SupTypes, ThreadTypes
      <3>2. QED BY <1>1, <3>1, MainRests DEF lifeVars
    <2>13. QED BY <1>2, <1>3, <2>9, <2>10, <2>11, <2>12 DEF LifeInv
  <1>6. QED BY <1>4, <1>5 DEF Step

LEMMA ChildRunsLife ==
  ASSUME LifeInv, NEW l \in Launches, ChildRuns(l)
  PROVE  LifeInv'
  <1>1. /\ ShellWritesPid(l)
        /\ attached' = [attached EXCEPT ![l] =
                          IF launches[l].name \in Openers THEN segment ELSE 0]
        /\ UNCHANGED <<target, lifeVars, calls, segment>> /\ l \in Known /\ launches' = launches
    BY DEF ChildRuns, ShellWritesPid
  <1>2. /\ op' \in [Threads -> {"idle", "start", "exists", "unlink", "launch", "raised",
                                "stop", "take", "signal", "wait", "cleanup"}]
        /\ seen' \in [Threads -> {0} \cup Known] /\ own' \in [Threads -> {0} \cup Known]
        /\ \A t \in Threads :
             \/ op'[t] = op[t] /\ seen'[t] = seen[t] /\ own'[t] = own[t]
             \/ op'[t] = "idle" /\ seen'[t] = 0 /\ t # Main
    <2>1. CASE UNCHANGED <<op, seen, own>>
      BY <2>1 DEF LifeInv, SupInv, SupTypes, ThreadTypes
    <2>2. CASE ~UNCHANGED <<op, seen, own>>
      BY <2>2 DEF ChildRuns, LifeInv, SupInv, SupTypes, ThreadTypes
    <2>3. QED BY <2>1, <2>2
  <1>3. /\ process' \in [Supervisors -> [Names -> Nat]]
        /\ \A s \in Supervisors, n \in Names : process'[s][n] \in {0, process[s][n]}
    <2>1. CASE process' = process
      BY <2>1 DEF LifeInv, SupInv, SupTypes, FileTypes
    <2>2. CASE process' # process
      <3>1. process' = [s \in Supervisors |->
               IF s = SupervisorOf[Main] THEN process[s] ELSE [n \in Names |-> 0]]
        BY <2>2 DEF ChildRuns
      <3>2. QED BY <3>1 DEF LifeInv, SupInv, SupTypes, FileTypes
    <2>3. QED BY <2>1, <2>2
  <1>4. ThreadTypes'
    BY <1>1, <1>2 DEF LifeInv, SupInv, SupTypes, ThreadTypes, Known
  <1>5. SupInv'
    <2>1. \A t \in Threads :
            \/ op'[t] = op[t] /\ target'[t] = target[t] /\ seen'[t] = seen[t] /\ own'[t] = own[t]
            \/ op'[t] = "idle" /\ seen'[t] = 0
      BY <1>1, <1>2
    <2>2. QED BY <1>1, <1>3, <1>4, <2>1, ShellWritesKeeps DEF LifeInv
  <1>6. LifeTypes'
    <2>1. 0 \in 0 .. runs /\ segment \in 0 .. runs /\ calls \in 0 .. MaxCalls
          /\ attached \in [Launches -> 0 .. runs]
      BY RunNumbers DEF LifeInv, LifeTypes
    <2>2. attached' \in [Launches -> 0 .. runs]
      BY <1>1, <2>1
    <2>3. QED BY <1>1, <2>1, <2>2, OtherPhase
  <1>7. RunsInOrder' /\ SegmentOfRun'
    BY <1>1 DEF LifeInv, RunsInOrder, SegmentOfRun, lifeVars, Known
  <1>8. Attached'
    <2>1. \A k \in Known : k # l => child'[k] = child[k] /\ attached'[k] = attached[k]
      BY <1>1, RunNumbers
        DEF ShellWritesPid, LifeInv, LifeTypes, SupInv, SupTypes, LaunchTypes
    <2>2. launches[l].name \in Openers => attached'[l] = segment
      BY <1>1 DEF LifeInv, LifeTypes
    <2>3. QED BY <1>1, <2>1, <2>2 DEF LifeInv, Attached, lifeVars, Known
  <1>9. MainIdle'
    BY <1>1, <1>2, MainRests, LifecycleAssumption DEF lifeVars
  <1>10. QED BY <1>5, <1>6, <1>7, <1>8, <1>9 DEF LifeInv

LEMMA ExitsLife ==
  ASSUME LifeInv, NEW l \in Launches,
         Exits(l) \/ (TerminalExits(l) /\ UNCHANGED <<lifeVars, calls, shmVars>>)
  PROVE  LifeInv'
  <1>1. /\ launches' = launches /\ op' = op /\ UNCHANGED <<lifeVars, calls>>
        /\ Detach \/ (attached' = attached /\ segment' = segment)
    BY DEF Exits, ChildExits, TerminalExits, opVars, shmVars
  <1>2. SupInv'
    BY ChildExitsKeeps, TerminalExitsKeeps DEF Exits, LifeInv
  <1>3. \A k \in Known : child'[k] = "running" => child[k] = "running"
    BY RunNumbers DEF Exits, ChildExits, TerminalExits, LifeInv, SupInv, SupTypes, LaunchTypes
  <1>4. attached' \in [Launches -> 0 .. runs] /\ segment' \in {segment, 0}
    BY <1>1, DetachFacts DEF LifeInv, LifeTypes
  <1>5. \A k \in Known : child'[k] = "running" => attached'[k] = attached[k]
    BY <1>1, DetachFacts, RunNumbers
  <1>6. LifeTypes'
    BY <1>1, <1>4, OtherPhase DEF LifeInv, LifeTypes
  <1>7. RunsInOrder' /\ SegmentOfRun' /\ Attached'
    BY <1>1, <1>3, <1>4, <1>5, NothingNew DEF lifeVars
  <1>8. QED BY <1>1, <1>2, <1>6, <1>7, MainRests DEF LifeInv, lifeVars

LEMMA LifeNext == LifeInv /\ [Next]_vars => LifeInv'
  <1> SUFFICES ASSUME LifeInv, [Next]_vars PROVE LifeInv'
    OBVIOUS
  <1>1. CASE Launch \/ Crash \/ InitShmFails
    BY <1>1, LaunchLife, CrashLife, InitShmFailsLife
  <1>2. CASE Shutdown \/ Signal
    BY <1>2, PhaseLife
  <1>3. CASE Lifecycle
    <2>1. CASE StartNext \/ StopNext
      <3>1. todo # <<>> => Head(todo) \in Names
        BY HeadTailProperties DEF LifeInv, LifeTypes
      <3>2. QED BY <2>1, <3>1, CallOfMain DEF StartNext, StopNext, CallStart, CallStop
    <2>2. QED BY <1>3, <2>1, InitShmLife, PhaseLife, StartFailsLife DEF Lifecycle
  <1>4. CASE \E t \in Threads : Step(t) \/ DashboardCalls(t) \/ DashboardReports(t)
    BY <1>4, StepLife, DashboardLife
  <1>5. CASE \E l \in Launches : LaunchSteps(l) \/ Exits(l)
    BY <1>5, ChildRunsLife, ExitsLife DEF LaunchSteps
  <1>6. CASE UNCHANGED vars
    <2>1. UNCHANGED supVars /\ UNCHANGED <<lifeVars, calls, segment, attached>>
      BY <1>6 DEF vars, shmVars
    <2>2. launches' = launches /\ child' = child /\ op' = op
      BY <2>1 DEF supVars, opVars
    <2>3. SupInv'
      BY <2>1, Unchanged DEF LifeInv
    <2>4. LifeTypes'
      BY <2>1, OtherPhase DEF LifeInv, LifeTypes
    <2>5. RunsInOrder' /\ SegmentOfRun' /\ Attached'
      BY <2>1, <2>2, NothingNew DEF lifeVars
    <2>6. QED BY <2>1, <2>2, <2>3, <2>4, <2>5, MainRests DEF LifeInv, lifeVars
  <1>7. QED BY <1>1, <1>2, <1>3, <1>4, <1>5, <1>6 DEF Next
-----------------------------------------------------------------------------
\* No operation of any thread, and nothing a launch does or a run, breaks it.
THEOREM LifecycleInvariant == Spec => []LifeInv
  BY LifeInit, LifeNext, PTL DEF Spec

\* The variables of the supervisors and of the runtime keep to their values.
THEOREM LifecycleTypes == Spec => []TypeOK
  <1>1. LifeInv => TypeOK
    BY TypesMean DEF LifeInv, SupInv, LifeTypes, MainIdle, TypeOK
  <1>2. QED BY <1>1, LifecycleInvariant, PTL

\* A process that runs and was not told to end is found by every supervisor,
\* unless it came up in a race: whichever threads share which supervisors.
THEOREM ProcessesAreTracked == Spec => []Tracked
  <1>1. LifeInv => Tracked
    <2> SUFFICES ASSUME LifeInv, NEW l \in Known, child[l] = "running",
                        pidfile[launches[l].name] # l, l \notin contested
                 PROVE  FALSE
      BY DEF Tracked
    <2>1. launches[l].name \in Names
      BY RunNumbers
    <2>2. l \in Quiet(launches[l].name)
      BY DEF Quiet, LaunchesOf
    <2>3. QED BY <2>1, <2>2 DEF LifeInv, SupInv, PidfileTracks
  <1>2. QED BY <1>1, LifecycleInvariant, PTL

\* What stop has achieved when it removes the pid file: a process survives it only
\* told to end, and behind a Popen that this supervisor still held.
THEOREM StopAchieves == Spec => []StopOutcome
  <1>1. LifeInv => StopOutcome
    BY DEF LifeInv, SupInv, AllInformed, Informed, StopOutcome
  <1>2. QED BY <1>1, LifecycleInvariant, PTL

\* A process of this run looks at the segment of this run, or finds none, which takes
\* a tracker: whatever processes and trackers earlier runs have left behind.
THEOREM SegmentsAreShared == Spec => []ChildrenSeeSegments
  <1>1. LifeInv => ChildrenSeeSegments
    <2> SUFFICES ASSUME LifeInv, NEW l \in Known, phase \in Starting \cup {"RUNNING"},
                        launches[l].run = runs, launches[l].name \in Openers,
                        child[l] = "running"
                 PROVE  attached[l] \in {runs, segment} /\ segment \in {runs, 0}
      BY DEF ChildrenSeeSegments
    <2>1. phase # "INIT_SHM"
      BY RunNumbers DEF LifeInv, RunsInOrder
    <2>2. phase \in InUse
      BY <2>1 DEF InUse
    <2>3. QED BY <2>2 DEF LifeInv, SegmentOfRun, Attached
  <1>2. QED BY <1>1, LifecycleInvariant, PTL
=============================================================================
