--------------------------- MODULE MonitorDecoders ---------------------------
(***************************************************************************)
(* The two programs that watch the bus: the dashboard (can_decode.py,      *)
(* state.py, bus_load.py, command_api.py) and tools/can_monitor.py, whose  *)
(* operators are called Tool....  Each decodes the frames of the drivers   *)
(* with code of its own, so that there are up to three versions of one     *)
(* thing; where two of them do the same the second is the first by name.   *)
(*                                                                         *)
(* A frame of a socket is a record of three flags, an identifier of 29     *)
(* bits, a length and eight bytes.  The raw bytes and the lists of nodes   *)
(* and of recent frames are left out.  Times are integers.                 *)
(***************************************************************************)
EXTENDS SpgProtocol, Sequences

ParseCanFrame(raw) ==
  IF raw.dlc > 8 THEN Error
  ELSE [raw EXCEPT !.can_id = IF raw.is_eff THEN @ ELSE @ % 2048]

\* The tool cuts a length that is too long.
ToolParseCanFrame(raw) ==
  [raw EXCEPT !.can_id = IF raw.is_eff THEN @ ELSE @ % 2048,
              !.dlc = IF @ > 8 THEN 8 ELSE @]

ToolBuildCanFrame(can_id, n, data) ==
  IF n > 8 THEN Error
  ELSE [is_eff |-> FALSE, is_rtr |-> FALSE, is_err |-> FALSE,
        can_id |-> can_id % 2048, dlc |-> n, data |-> data]
-----------------------------------------------------------------------------
(***************************************************************************)
(* Bus load.                                                               *)
(***************************************************************************)
\* The stuff factor is a percentage.
EstimateClassicalCanBits(dlc, is_eff, is_rtr, stuff_factor) ==
  LET bytes == IF dlc > 8 THEN 8 ELSE IF dlc < 0 THEN 0 ELSE dlc
      base == (IF is_eff THEN 67 ELSE 47) + (IF is_rtr THEN 0 ELSE 8 * bytes)
  IN  (base * stuff_factor + 99) \div 100

ToolEstimateClassicalCanBits(dlc, is_eff, is_rtr, stuff_factor) ==
  EstimateClassicalCanBits(dlc, is_eff, is_rtr, stuff_factor)

\* Events leave at the front only, up to the first that is young enough.
Prune(events, now, window) ==
  LET young == {i \in DOMAIN events : events[i].t >= now - window}
      first == IF young = {} THEN Len(events) + 1
               ELSE CHOOSE i \in young : \A j \in young : i <= j
  IN  SubSeq(events, first, Len(events))

AddEvent(events, t, bits, direction, window) ==
  Prune(Append(events, [t |-> t, bits |-> bits, direction |-> direction]), t, window)

\* The bits of the events of one direction: total[n] sums the first n.
WindowBits(events, direction) ==
  LET total[n \in 0 .. Len(events)] ==
        IF n = 0 THEN 0
        ELSE total[n - 1] + (IF events[n].direction = direction THEN events[n].bits ELSE 0)
  IN  total[Len(events)]

\* What the dashboard shows of a node; the age is compared in the same way for a motor.
NodeStatus(last_t, now, timeout) ==
  IF last_t <= 0 THEN "never"
  ELSE IF now - last_t > timeout THEN "timeout" ELSE "online"
-----------------------------------------------------------------------------
(***************************************************************************)
(* The row of a motor.                                                     *)
(***************************************************************************)
NoMotor ==
  [rx_count |-> 0, last_t |-> 0, last_kind |-> "none", enabled_hint |-> None,
   temp_c |-> None, iq_count |-> None, speed_dps |-> None, position_i16 |-> None,
   zero_offset_count |-> None]

\* An opcode without a name is shown in hexadecimal.
SpgOpcodeName(opcode) ==
  IF opcode = MitControl THEN "MIT_STATUS"
  ELSE IF opcode = MitEnter THEN "MIT_ENTER_ACK"
  ELSE IF opcode = MitExit THEN "MIT_EXIT_ACK"
  ELSE IF opcode = MitSetZero THEN "MIT_SET_ZERO_ACK"
  ELSE IF opcode = ClearErrorFlag THEN "CLEAR_ERROR_ACK"
  ELSE "OP"

\* The current and the position are the raw counts, scaled.
DecodeSpgStatus(row, d) ==
  [row EXCEPT !.temp_c = I8(d.b1), !.iq_count = I16(d.b2, d.b3),
              !.speed_dps = I16(d.b4, d.b5), !.position_i16 = I16(d.b6, d.b7)]

\* What a frame may change in a row.
Heard(row, now, kind) ==
  [row EXCEPT !.rx_count = @ + 1, !.last_t = now, !.last_kind = kind]
WithHint(row, enabled) == [row EXCEPT !.enabled_hint = enabled]
WithZeroOffset(row, d) == [row EXCEPT !.zero_offset_count = I16(d.b6, d.b7)]

UpdateMotor(row, frame, now) ==
  LET op == frame.data.b0
      heard == Heard(row, now, IF frame.dlc < 1 THEN "empty" ELSE SpgOpcodeName(op))
  IN  IF frame.dlc < 1 THEN heard
      ELSE IF op = MitControl /\ frame.dlc = 8 THEN DecodeSpgStatus(heard, frame.data)
      ELSE IF op = MitEnter THEN WithHint(heard, TRUE)
      ELSE IF op \in {MitExit, ClearErrorFlag} THEN WithHint(heard, FALSE)
      ELSE IF op = MitSetZero /\ frame.dlc = 8 THEN WithZeroOffset(heard, frame.data)
      ELSE heard

\* A status that is not of eight bytes has no name here.
ToolDecodeSpgFrame(row, frame, now) ==
  LET op == frame.data.b0
      Kind(kind) == Heard(row, now, kind)
  IN  IF frame.dlc < 1 THEN Kind("empty")
      ELSE IF op = MitControl /\ frame.dlc = 8
        THEN DecodeSpgStatus(Kind("MIT_STATUS"), frame.data)
      ELSE IF op = MitEnter THEN WithHint(Kind("MIT_ENTER_ACK"), TRUE)
      ELSE IF op = MitExit THEN WithHint(Kind("MIT_EXIT_ACK"), FALSE)
      ELSE IF op = MitSetZero /\ frame.dlc = 8
        THEN WithZeroOffset(Kind("MIT_SET_ZERO_ACK"), frame.data)
      ELSE IF op = MitSetZero THEN Kind("MIT_SET_ZERO_ACK")
      ELSE IF op = ClearErrorFlag THEN WithHint(Kind("CLEAR_ERROR_ACK"), FALSE)
      ELSE Kind("OP")

\* A request the dashboard has sent itself.
UpdateMotorTxHint(row, n, d, now) ==
  LET Sent(kind) == [row EXCEPT !.last_t = now, !.last_kind = kind]
  IN  IF n = 0 THEN row
      ELSE IF d.b0 = MitEnter THEN WithHint(Sent("MIT_ENTER_SENT"), TRUE)
      ELSE IF d.b0 = MitExit THEN WithHint(Sent("MIT_EXIT_SENT"), FALSE)
      ELSE IF d.b0 = MitSetZero /\ n >= 8
        THEN WithZeroOffset(Sent("MIT_SET_ZERO_SENT"), d)
      ELSE IF d.b0 = MitSetZero THEN Sent("MIT_SET_ZERO_SENT")
      ELSE row
-----------------------------------------------------------------------------
(***************************************************************************)
(* The row of the IMU.  ids has its three identifiers.                     *)
(***************************************************************************)
NoImu == [req_count |-> 0, quat_count |-> 0, quat_last_t |-> 0, quat |-> None,
          gyro_count |-> 0, gyro_last_t |-> 0, gyro |-> None]

DashDecodeQuat(d) ==
  [w |-> I16(d.b6, d.b7), x |-> -I16(d.b4, d.b5),
   y |-> I16(d.b2, d.b3), z |-> I16(d.b0, d.b1)]

DashDecodeGyro(d) == [x |-> I16(d.b2, d.b3), y |-> I16(d.b0, d.b1), z |-> I16(d.b4, d.b5)]

UpdateImu(imu, ids, frame, now) ==
  IF frame.can_id = ids.request THEN [imu EXCEPT !.req_count = @ + 1]
  ELSE IF frame.can_id = ids.quat /\ frame.dlc = 8
    THEN [imu EXCEPT !.quat_count = @ + 1, !.quat_last_t = now,
                     !.quat = DashDecodeQuat(frame.data)]
  ELSE IF frame.can_id = ids.gyro /\ frame.dlc = 8
    THEN [imu EXCEPT !.gyro_count = @ + 1, !.gyro_last_t = now,
                     !.gyro = DashDecodeGyro(frame.data)]
  ELSE imu

ToolDecodeQuat(d) == DashDecodeQuat(d)
ToolDecodeGyro(d) == DashDecodeGyro(d)
ToolUpdateImuState(imu, ids, frame, now) == UpdateImu(imu, ids, frame, now)
-----------------------------------------------------------------------------
(***************************************************************************)
(* All of a monitor: s has the motors' rows (a function on their           *)
(* identifiers), the IMU's, the events of the window and the counts.       *)
(***************************************************************************)
MarkRx(s, cfg, frame, now) ==
  [s EXCEPT
     !.total_rx = @ + 1,
     !.events = AddEvent(@, now, EstimateClassicalCanBits(frame.dlc, frame.is_eff,
                           frame.is_rtr, cfg.stuff_factor), "rx", cfg.window),
     !.imu = UpdateImu(@, cfg.ids, frame, now),
     !.motors = [id \in DOMAIN @ |-> IF id = frame.can_id
                                     THEN UpdateMotor(@[id], frame, now) ELSE @[id]]]

MarkTx(s, cfg, can_id, n, data, now) ==
  [s EXCEPT
     !.total_tx = @ + 1,
     !.events = AddEvent(@, now, EstimateClassicalCanBits(n, FALSE, FALSE,
                           cfg.stuff_factor), "tx", cfg.window),
     !.imu.req_count = IF can_id = cfg.ids.request THEN @ + 1 ELSE @,
     !.motors = [id \in DOMAIN @ |-> IF id = can_id
                                     THEN UpdateMotorTxHint(@[id], n, data, now)
                                     ELSE @[id]]]

\* Error frames are not shown to the tool's decoders; the dashboard has no such test.
ToolRx(s, cfg, raw, now) ==
  LET frame == ToolParseCanFrame(raw)
  IN  IF frame.is_err THEN s
      ELSE [s EXCEPT
              !.total_rx = @ + 1,
              !.events = AddEvent(@, now, ToolEstimateClassicalCanBits(frame.dlc,
                           frame.is_eff, frame.is_rtr, cfg.stuff_factor), "rx", cfg.window),
              !.imu = ToolUpdateImuState(@, cfg.ids, frame, now),
              !.motors = [id \in DOMAIN @ |-> IF id = frame.can_id
                            THEN ToolDecodeSpgFrame(@[id], frame, now) ELSE @[id]]]

\* The tool's own request; sends is FALSE where the socket refuses it.
ToolPollImu(s, cfg, sends, now) ==
  IF sends
  THEN [s EXCEPT !.total_tx = @ + 1,
                 !.events = AddEvent(@, now, ToolEstimateClassicalCanBits(1, FALSE, FALSE,
                              cfg.stuff_factor), "tx", cfg.window)]
  ELSE s
-----------------------------------------------------------------------------
(***************************************************************************)
(* Commands of the dashboard to a motor.  No endpoint of the application   *)
(* reaches them: the operator's commands go through the controller.        *)
(***************************************************************************)
\* round() of Python: n / d, a half to the even neighbour.
RoundHalfEven(n, d) ==
  LET q == n \div d
      r == n % d
  IN  IF 2 * r < d \/ (2 * r = d /\ q % 2 = 0) THEN q ELSE q + 1

DashFloatToUint(x, lo, hi, top) == RoundHalfEven((x - lo) * top, hi - lo)

DashPackMitPayload(cfg, c) ==
  IF WithinLimits(cfg, c)
  THEN PackFields(DashFloatToUint(c.position, -cfg.p_max, cfg.p_max, Max16),
                  DashFloatToUint(c.velocity, -cfg.v_max, cfg.v_max, Max12),
                  DashFloatToUint(c.kp, 0, cfg.kp_max, Max12),
                  DashFloatToUint(c.kd, 0, cfg.kd_max, Max8),
                  DashFloatToUint(c.torque, -cfg.tau_max, cfg.tau_max, Max8))
  ELSE Error

EnableBlockStates == {"CREATED", "DISABLED", "DISARMED", "FAULT_LATCHED", "ESTOP",
                      "SHUTTING_DOWN", "STOPPED"}
ZeroSetAllowedStates == {"NORMAL"}

\* ctl is what the dashboard knows of the controller: whether it reads its state at
\* all, the state's name (or None), and whether the reason speaks of an E-stop.
EnableBlocked(ctl) ==
  \/ ctl.provider /\ ctl.state = None
  \/ ctl.state \in EnableBlockStates
  \/ ctl.state = "DAMPING" /\ ctl.reason_is_estop

RequireControllerState(ctl, allowed) ==
  ctl.provider /\ ctl.state # None /\ ctl.state \in allowed

\* svc has the flags tx_enabled, allow_actuator_commands and connected; connects
\* and sends are what the daemon's socket answers.  The result is what is raised
\* or "sent", and the service afterwards.
SendRaw(svc, ctl, is_motor, n, data, connects, sends) ==
  LET Motor(opcode) == is_motor /\ n > 0 /\ data.b0 = opcode
      Result(text, after) == [result |-> text, svc |-> after]
  IN  IF Motor(MitEnter) /\ EnableBlocked(ctl) THEN Result("enable blocked", svc)
      ELSE IF Motor(MitSetZero) /\ ~RequireControllerState(ctl, ZeroSetAllowedStates)
        THEN Result("zero set blocked", svc)
      ELSE IF ~svc.tx_enabled THEN Result("TX is locked", svc)
      ELSE IF ~svc.connected /\ ~connects THEN Result("not connected", svc)
      ELSE IF ~sends THEN Result("send failed", [svc EXCEPT !.connected = FALSE])
      ELSE Result("sent", [svc EXCEPT !.connected = TRUE])

SendMotorCommand(svc, ctl, is_motor, data, connects, sends) ==
  IF ~svc.allow_actuator_commands THEN [result |-> "disabled by config", svc |-> svc]
  ELSE IF ~is_motor THEN [result |-> "unknown actuator", svc |-> svc]
  ELSE SendRaw(svc, ctl, is_motor, 8, data, connects, sends)
=============================================================================
