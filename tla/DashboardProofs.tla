---------------------------- MODULE DashboardProofs ----------------------------
(***************************************************************************)
(* What a motor shown as online says, for any timeouts and any number of   *)
(* restarts of the controller.                                             *)
(***************************************************************************)
EXTENDS Dashboard, TLAPS

\* The ages lie in a row: from the bus to the controller and to the monitor, and
\* through the controller into the segments, where they go on while the state is
\* fresh, whether or not a controller still writes it.
MergedFollowsBus == merged <= FeedbackTimeout => bus <= merged
MonitorFollowsBus == monitor <= NodeTimeout => bus <= monitor
Fresh(r) == segment[r].stamp <= StaleTimeout => bus <= FeedbackTimeout + segment[r].stamp
RowsFollowBus ==
  \A r \in 1 .. MaxRuns :
    /\ segment[r].next = "online" => Fresh(r)
    /\ segment[r].next = "none" /\ segment[r].row = "online" => Fresh(r)

DashboardInv == TypeOK /\ MergedFollowsBus /\ MonitorFollowsBus /\ RowsFollowBus

LEMMA Ages ==
  ASSUME DashboardInv
  PROVE  /\ bus \in Nat /\ merged \in Nat /\ monitor \in Nat /\ run \in 1 .. MaxRuns
         /\ FeedbackTimeout \in Nat /\ StaleTimeout \in Nat /\ NodeTimeout \in Nat
         /\ \A r \in 1 .. MaxRuns : segment[r].stamp \in Nat
         /\ segment \in [1 .. MaxRuns -> Segment] /\ MaxRuns \in Nat
  <1>1. /\ bus \in 0 .. Longest + 1 /\ merged \in 0 .. FeedbackTimeout + 1
        /\ monitor \in 0 .. NodeTimeout + 1 /\ run \in 1 .. MaxRuns
        /\ segment \in [1 .. MaxRuns -> Segment]
    BY DEF DashboardInv, TypeOK
  <1>2. \A r \in 1 .. MaxRuns : segment[r].stamp \in 0 .. StaleTimeout + 1
    BY <1>1 DEF Segment
  <1>3. QED BY <1>1, <1>2, DashboardAssumption

LEMMA LaterIs ==
  ASSUME NEW t \in Nat, NEW limit \in Nat, t \in 0 .. limit + 1
  PROVE  /\ Later(t, limit) \in 0 .. limit + 1 /\ Later(t, limit) >= t
         /\ Later(t, limit) <= t + 1 /\ t <= limit => Later(t, limit) = t + 1
  BY DEF Later

\* Time passes for two ages: one that is at most the other and an offset stays so.
LEMMA BothLater ==
  ASSUME NEW a \in Nat, NEW b \in Nat, NEW offset \in Nat, NEW m \in Nat, NEW n \in Nat,
         Later(b, n) <= n => a <= offset + b,
         Later(b, n) <= n
  PROVE  Later(a, m) <= offset + Later(b, n)
  BY DEF Later

LEMMA DashboardInit == Init => DashboardInv
  <1> SUFFICES ASSUME Init PROVE DashboardInv
    OBVIOUS
  <1>1. TypeOK
    <2>1. Cleared \in Segment
      BY DashboardAssumption DEF Cleared, Segment, Row
    <2>2. Longest + 1 \in 0 .. Longest + 1
      BY DashboardAssumption DEF Longest
    <2>3. segment \in [1 .. MaxRuns -> Segment]
      BY <2>1 DEF Init
    <2>4. /\ run \in 1 .. MaxRuns /\ bus \in 0 .. Longest + 1 /\ attached \in 0 .. run
          /\ merged \in 0 .. FeedbackTimeout + 1 /\ monitor \in 0 .. NodeTimeout + 1
      BY <2>2, DashboardAssumption DEF Init
    <2>5. QED BY <2>3, <2>4 DEF Init, TypeOK
  <1>2. MergedFollowsBus /\ MonitorFollowsBus
    BY DashboardAssumption DEF Init, MergedFollowsBus, MonitorFollowsBus
  <1>3. RowsFollowBus
    BY DEF Init, RowsFollowBus, Cleared
  <1>4. QED BY <1>1, <1>2, <1>3 DEF DashboardInv

LEMMA FrameKeeps == ASSUME DashboardInv, Frame PROVE DashboardInv'
  <1>1. /\ bus' = 0 /\ merged' \in {merged, 0} /\ monitor' \in {monitor, 0}
        /\ UNCHANGED <<run, up, linked, segment, attached, socket, request>>
    BY DEF Frame
  <1>2. TypeOK'
    BY <1>1, DashboardAssumption DEF DashboardInv, TypeOK, Longest
  <1>3. QED BY <1>1, <1>2, Ages
    DEF DashboardInv, MergedFollowsBus, MonitorFollowsBus, RowsFollowBus, Fresh

LEMMA PublishHeadKeeps == ASSUME DashboardInv, PublishHead PROVE DashboardInv'
  <1> PICK m \in Modes :
        segment' = [segment EXCEPT ![run] =
          [mode |-> m, stamp |-> 0, row |-> segment[run].row, next |-> ControllerRow]]
    BY DEF PublishHead
  <1> DEFINE state == [mode |-> m, stamp |-> 0, row |-> segment[run].row, next |-> ControllerRow]
  <1>1. UNCHANGED <<run, up, linked, merged, bus, dashboardVars>>
    BY DEF PublishHead
  <1>2. ControllerRow \in Row /\ segment[run] \in Segment
    BY Ages DEF ControllerRow, Row
  <1>3. state \in Segment /\ state.stamp = 0 /\ state.next = ControllerRow
    BY <1>2, DashboardAssumption DEF Segment
  <1>4. \A r \in 1 .. MaxRuns : segment'[r] = IF r = run THEN state ELSE segment[r]
    BY Ages
  <1> HIDE DEF state
  <1>5. TypeOK'
    <2>1. segment' \in [1 .. MaxRuns -> Segment]
      BY <1>3, Ages DEF state
    <2>2. QED BY <1>1, <2>1 DEF DashboardInv, TypeOK, dashboardVars
  <1>6. ControllerRow = "online" => bus <= FeedbackTimeout + 0
    BY Ages DEF ControllerRow, DashboardInv, MergedFollowsBus
  <1>7. RowsFollowBus'
    <2> SUFFICES ASSUME NEW r \in 1 .. MaxRuns
                 PROVE  /\ segment'[r].next = "online" => Fresh(r)'
                        /\ segment'[r].next = "none" /\ segment'[r].row = "online" => Fresh(r)'
      BY DEF RowsFollowBus
    <2>1. CASE r = run
      <3>1. segment'[r].stamp = 0 /\ segment'[r].next = ControllerRow /\ ControllerRow # "none"
        BY <1>2, <1>3, <1>4, <2>1 DEF Row
      <3>2. QED BY <1>1, <1>6, <3>1 DEF Fresh
    <2>2. CASE r # run
      BY <1>1, <1>4, <2>2 DEF DashboardInv, RowsFollowBus, Fresh
    <2>3. QED BY <2>1, <2>2
  <1>8. QED BY <1>1, <1>5, <1>7
    DEF DashboardInv, MergedFollowsBus, MonitorFollowsBus, dashboardVars

LEMMA PublishMotorsKeeps == ASSUME DashboardInv, PublishMotors PROVE DashboardInv'
  <1> DEFINE state == [segment[run] EXCEPT !.row = segment[run].next, !.next = "none"]
  <1>1. /\ UNCHANGED <<run, up, linked, merged, bus, dashboardVars>>
        /\ segment[run].next # "none"
    BY DEF PublishMotors
  <1>2. segment[run] \in Segment /\ run \in 1 .. MaxRuns
    BY Ages
  <1>3. /\ state \in Segment /\ state.stamp = segment[run].stamp
        /\ state.next = "none" /\ state.row = segment[run].next
    <2>1. state \in Segment
      BY <1>1, <1>2 DEF Segment
    <2>2. QED BY <1>2, <2>1 DEF Segment
  <1>4. segment' = [segment EXCEPT ![run] = state]
    BY <1>2, Ages DEF PublishMotors
  <1>5. \A r \in 1 .. MaxRuns : segment'[r] = IF r = run THEN state ELSE segment[r]
    BY <1>4, Ages
  <1> HIDE DEF state
  <1>6. TypeOK'
    <2>1. segment' \in [1 .. MaxRuns -> Segment]
      BY <1>3, <1>4, Ages
    <2>2. QED BY <1>1, <2>1 DEF DashboardInv, TypeOK, dashboardVars
  <1>7. RowsFollowBus'
    <2> SUFFICES ASSUME NEW r \in 1 .. MaxRuns
                 PROVE  /\ segment'[r].next = "online" => Fresh(r)'
                        /\ segment'[r].next = "none" /\ segment'[r].row = "online" => Fresh(r)'
      BY DEF RowsFollowBus
    <2>1. CASE r = run
      <3>1. /\ segment'[r].stamp = segment[run].stamp /\ segment'[r].next = "none"
            /\ segment'[r].row = segment[run].next
        BY <1>3, <1>5, <2>1
      <3>2. segment[run].next = "online" => Fresh(run)
        BY <1>2 DEF DashboardInv, RowsFollowBus
      <3>3. QED BY <1>1, <2>1, <3>1, <3>2 DEF Fresh
    <2>2. CASE r # run
      BY <1>1, <1>5, <2>2 DEF DashboardInv, RowsFollowBus, Fresh
    <2>3. QED BY <2>1, <2>2
  <1>8. QED BY <1>1, <1>6, <1>7
    DEF DashboardInv, MergedFollowsBus, MonitorFollowsBus, dashboardVars

LEMMA TickKeeps == ASSUME DashboardInv, Tick PROVE DashboardInv'
  <1>1. /\ bus' = Later(bus, Longest) /\ merged' = Later(merged, FeedbackTimeout)
        /\ monitor' = Later(monitor, NodeTimeout)
        /\ UNCHANGED <<run, up, linked, attached, socket, request>>
    BY DEF Tick
  <1>2. \A r \in 1 .. MaxRuns :
          /\ segment'[r] = [segment[r] EXCEPT !.stamp = Later(segment[r].stamp, StaleTimeout)]
          /\ segment[r] \in Segment
    BY Ages DEF Tick
  <1>3. \A r \in 1 .. MaxRuns :
          /\ segment'[r].stamp = Later(segment[r].stamp, StaleTimeout)
          /\ segment'[r].row = segment[r].row /\ segment'[r].next = segment[r].next
    BY <1>2 DEF Segment
  <1>4. Longest \in Nat
    BY DashboardAssumption DEF Longest
  <1>5. TypeOK'
    <2>1. /\ bus' \in 0 .. Longest + 1 /\ merged' \in 0 .. FeedbackTimeout + 1
          /\ monitor' \in 0 .. NodeTimeout + 1
      <3>1. /\ bus \in 0 .. Longest + 1 /\ merged \in 0 .. FeedbackTimeout + 1
            /\ monitor \in 0 .. NodeTimeout + 1
        BY DEF DashboardInv, TypeOK
      <3>2. QED BY <1>1, <1>4, <3>1, Ages, LaterIs
    <2>2. segment' \in [1 .. MaxRuns -> Segment]
      <3>1. \A r \in 1 .. MaxRuns :
              [segment[r] EXCEPT !.stamp = Later(segment[r].stamp, StaleTimeout)] \in Segment
        BY <1>2, Ages, LaterIs DEF Segment
      <3>2. QED BY <3>1 DEF Tick
    <2>3. QED BY <1>1, <2>1, <2>2 DEF DashboardInv, TypeOK
  <1>6. MergedFollowsBus'
    BY <1>1, <1>4, Ages, BothLater DEF DashboardInv, MergedFollowsBus, Later
  <1>7. MonitorFollowsBus'
    BY <1>1, <1>4, Ages, BothLater DEF DashboardInv, MonitorFollowsBus, Later
  <1>8. ASSUME NEW r \in 1 .. MaxRuns, Fresh(r) PROVE Fresh(r)'
    <2>1. segment[r].stamp \in Nat /\ bus \in Nat /\ FeedbackTimeout \in Nat /\ StaleTimeout \in Nat
      BY Ages
    <2>2. segment'[r].stamp = Later(segment[r].stamp, StaleTimeout)
      BY <1>3
    <2>3. Later(segment[r].stamp, StaleTimeout) <= StaleTimeout => segment[r].stamp <= StaleTimeout
      BY <2>1 DEF Later
    <2>4. QED BY <1>1, <1>4, <1>8, <2>1, <2>2, <2>3, BothLater DEF Fresh
  <1>9. RowsFollowBus'
    BY <1>3, <1>8 DEF DashboardInv, RowsFollowBus
  <1>10. QED BY <1>5, <1>6, <1>7, <1>9 DEF DashboardInv

LEMMA DashboardNext == DashboardInv /\ [Next]_vars => DashboardInv'
  <1> SUFFICES ASSUME DashboardInv, [Next]_vars PROVE DashboardInv'
    OBVIOUS
  <1> USE DEF dashboardVars, controllerVars
  <1>1. CASE ControllerEnds
    BY <1>1 DEF ControllerEnds, DashboardInv, TypeOK, MergedFollowsBus, MonitorFollowsBus,
                RowsFollowBus, Fresh
  <1>2. CASE Restart
    <2>1. /\ run' \in 1 .. MaxRuns /\ \A r \in 0 .. run : r \in 0 .. run'
          /\ merged' \in 0 .. FeedbackTimeout + 1 /\ ~(merged' <= FeedbackTimeout)
      BY <1>2, Ages DEF Restart
    <2>2. TypeOK'
      BY <1>2, <2>1 DEF Restart, DashboardInv, TypeOK
    <2>3. QED BY <1>2, <2>1, <2>2
      DEF Restart, DashboardInv, MergedFollowsBus, MonitorFollowsBus, RowsFollowBus, Fresh
  <1>3. CASE DashboardStarts
    <2>1. /\ run \in 0 .. run
          /\ monitor' \in 0 .. NodeTimeout + 1 /\ ~(monitor' <= NodeTimeout)
      BY <1>3, Ages DEF DashboardStarts
    <2>2. TypeOK'
      BY <1>3, <2>1, Ages DEF DashboardStarts, DashboardInv, TypeOK
    <2>3. QED BY <1>3, <2>1, <2>2
      DEF DashboardStarts, DashboardInv, MergedFollowsBus, MonitorFollowsBus, RowsFollowBus,
          Fresh
  <1>4. CASE DashboardEnds \/ Reconnect \/ ZeroSetGate \/ ZeroSetPublish \/ UNCHANGED vars
    <2>1. UNCHANGED <<controllerVars, bus, monitor>>
      BY <1>4 DEF DashboardEnds, Reconnect, ZeroSetGate, ZeroSetPublish, vars
    <2>2. /\ attached' \in 0 .. run /\ socket' \in BOOLEAN /\ request' \in {"idle", "open"}
          /\ attached' = 0 => request' = "idle" /\ ~socket'
      <3>1. /\ attached \in 0 .. run /\ socket \in BOOLEAN /\ request \in {"idle", "open"}
            /\ attached = 0 => request = "idle" /\ ~socket
            /\ 0 \in 0 .. run
        BY Ages DEF DashboardInv, TypeOK
      <3>2. CASE DashboardEnds
        BY <3>1, <3>2 DEF DashboardEnds
      <3>3. CASE Reconnect
        BY <3>1, <3>3 DEF Reconnect
      <3>4. CASE ZeroSetGate \/ ZeroSetPublish \/ UNCHANGED vars
        BY <3>1, <3>4 DEF ZeroSetGate, ZeroSetPublish, vars
      <3>5. QED BY <1>4, <3>2, <3>3, <3>4
    <2>3. QED BY <2>1, <2>2
      DEF DashboardInv, TypeOK, MergedFollowsBus, MonitorFollowsBus, RowsFollowBus, Fresh
  <1>5. QED BY <1>1, <1>2, <1>3, <1>4, FrameKeeps, PublishHeadKeeps, PublishMotorsKeeps,
               TickKeeps DEF Next

LEMMA DashboardInvariant == Spec => []DashboardInv
  BY DashboardInit, DashboardNext, PTL DEF Spec

\* The variables keep their types.
THEOREM DashboardTypes == Spec => []TypeOK
  BY DashboardInvariant, PTL DEF DashboardInv

\* A motor shown as online on a channel that is not stale has been on the bus
\* within the timeouts between it and the page, whatever these are, and however
\* often the controller crashes and is restarted.
THEOREM OnlineIsRecent == Spec => []ShownOnlineIsRecent
  <1>1. DashboardInv => ShownOnlineIsRecent
    <2> SUFFICES ASSUME DashboardInv, attached # 0, MotorRow = "online",
                        segment[attached].next = "none"
                 PROVE  /\ ReadChannel = "online" => bus <= FeedbackTimeout + StaleTimeout
                        /\ ReadChannel = "waiting" => bus <= NodeTimeout
      BY DEF ShownOnlineIsRecent
    <2>1. attached \in 1 .. MaxRuns
      <3>1. attached \in 0 .. run
        BY DEF DashboardInv, TypeOK
      <3>2. QED BY <3>1, Ages
    <2>2. CASE ReadChannel = "online"
      <3>1. segment[attached].row = "online"
        BY <2>2 DEF MotorRow, RobotStateToDict
      <3>2. segment[attached].stamp <= StaleTimeout
        BY <2>1, <2>2, Ages DEF ReadChannel
      <3>3. Fresh(attached)
        BY <2>1, <3>1 DEF DashboardInv, RowsFollowBus
      <3>4. segment[attached].stamp \in Nat
        BY <2>1, Ages
      <3>5. bus <= FeedbackTimeout + segment[attached].stamp
        BY <3>2, <3>3 DEF Fresh
      <3>6. bus <= FeedbackTimeout + StaleTimeout
        BY <3>2, <3>4, <3>5, Ages
      <3>7. QED BY <2>2, <3>6
    <2>3. CASE ReadChannel = "waiting"
      <3>1. monitor <= NodeTimeout
        BY <2>3 DEF MotorRow, MonitorRow
      <3>2. bus <= NodeTimeout
        BY <3>1, Ages DEF DashboardInv, MonitorFollowsBus
      <3>3. QED BY <2>3, <3>2
    <2>4. QED BY <2>2, <2>3
  <1>2. QED BY <1>1, DashboardInvariant, PTL
-----------------------------------------------------------------------------
\* A segment that ReadChannel does not call online.
Silent(r) == segment[r].mode = 0 \/ segment[r].stamp > StaleTimeout

\* The half of DeadControllerShown that needs no fairness: a controller that has
\* ended and is not shown as online is never shown as online again, whatever
\* other controllers and dashboards are started.
THEOREM EndedStaysSilent ==
  Spec => [][\A r \in 1 .. MaxRuns :
               Ended(r) /\ Silent(r)
                 => /\ Ended(r)' /\ Silent(r)'
                    /\ attached' = r => ReadChannel' # "online"]_vars
  <1>1. ASSUME DashboardInv, [Next]_vars, NEW r \in 1 .. MaxRuns, Ended(r), Silent(r)
        PROVE  Ended(r)' /\ Silent(r)'
    <2>1. run \in 1 .. MaxRuns /\ segment \in [1 .. MaxRuns -> Segment] /\ r <= run
          /\ r \in Nat /\ MaxRuns \in Nat
      BY <1>1, Ages DEF DashboardInv, TypeOK, Ended
    <2>2. CASE PublishHead \/ PublishMotors
      <3>1. r # run /\ run' = run /\ up' = up
        BY <1>1, <2>2 DEF PublishHead, PublishMotors, Ended
      <3>2. segment'[r] = segment[r]
        BY <2>1, <2>2, <3>1 DEF PublishHead, PublishMotors
      <3>3. QED BY <1>1, <3>1, <3>2 DEF Ended, Silent
    <2>3. CASE Tick
      <3>1. run' = run /\ up' = up /\ segment'[r].mode = segment[r].mode
            /\ segment'[r].stamp = Later(segment[r].stamp, StaleTimeout)
        BY <2>1, <2>3 DEF Tick, Segment
      <3>2. segment[r].stamp > StaleTimeout => segment'[r].stamp > StaleTimeout
        <4>1. segment[r].stamp \in Nat /\ StaleTimeout \in Nat
          BY <1>1, Ages
        <4>2. QED BY <3>1, <4>1 DEF Later
      <3>3. QED BY <1>1, <3>1, <3>2 DEF Ended, Silent
    <2>4. CASE Restart
      <3>1. run' = run + 1 /\ segment' = segment
        BY <2>4 DEF Restart
      <3>2. r < run'
        BY <2>1, <3>1
      <3>3. QED BY <1>1, <3>1, <3>2 DEF Ended, Silent
    <2>5. CASE ControllerEnds
      BY <1>1, <2>5 DEF ControllerEnds, Ended, Silent
    <2>6. CASE UNCHANGED controllerVars
      BY <1>1, <2>6 DEF controllerVars, Ended, Silent
    <2>7. CASE Frame
      BY <1>1, <2>7 DEF Frame, Ended, Silent
    <2>8. QED
      BY <1>1, <2>2, <2>3, <2>4, <2>5, <2>6, <2>7
         DEF Next, DashboardStarts, DashboardEnds, Reconnect, ZeroSetGate, ZeroSetPublish, vars
  <1>2. ASSUME NEW r \in 1 .. MaxRuns, Silent(r)', attached' = r
        PROVE  ReadChannel' # "online"
    BY <1>2 DEF ReadChannel, Silent
  <1>3. DashboardInv /\ [Next]_vars
          => [\A r \in 1 .. MaxRuns :
                Ended(r) /\ Silent(r)
                  => /\ Ended(r)' /\ Silent(r)'
                     /\ attached' = r => ReadChannel' # "online"]_vars
    BY <1>1, <1>2
  <1>4. QED BY <1>3, DashboardInvariant, PTL DEF Spec
=============================================================================
