--------------------------- MODULE ProtocolChecks ---------------------------
(***************************************************************************)
(* The operators of SpgProtocol, MonitorDecoders and TaskController,       *)
(* compared by TLC with reference definitions over bounded inputs.  The    *)
(* theorems of ProtocolProofs say more; what is here shows that the        *)
(* definitions they are about compute what they should.                    *)
(***************************************************************************)
EXTENDS Integers, Sequences

P == INSTANCE MonitorDecoders
T == INSTANCE TaskController

Abs(n) == IF n < 0 THEN -n ELSE n

\* The code of a value is one that no other code comes closer to, the greater of two
\* that are as close: float_to_uint of dongilc_protocol.py.
IsNearestCode(u, x, lo, hi, top) ==
  LET Miss(k) == Abs(k * (hi - lo) - (x - lo) * top)
  IN  /\ \A k \in 0 .. top : Miss(u) <= Miss(k)
      /\ u < top => Miss(u) < Miss(u + 1)

ASSUME CodesAreNearest ==
  \A lo \in -3 .. 0, hi \in 1 .. 4, top \in {1, 3, 7, 15} :
    \A x \in lo .. hi : IsNearestCode(P!FloatToUint(x, lo, hi, top), x, lo, hi, top)

\* Angles are rounded to the nearest count of a turn, a full turn to count 0.
ASSUME AnglesWrap ==
  /\ P!RadToU14Count(0, 1) = 0 /\ P!RadToU14Count(1, 2) = 8192
  /\ P!RadToU14Count(-1, 4) = 12288 /\ P!RadToU14Count(5, 4) = 4096
  /\ P!RadToU14Count(32767, 32768) = 0
  /\ P!SignedU14Count(16383) = -1 /\ P!SignedU14Count(8192) = -8192
  /\ P!ShortestDeltaU14(1, 16383) = 2 /\ P!ShortestDeltaU14(16383, 1) = -2

\* A command of the control loop as the firmware reads it: holding at zero with the
\* limits of the configuration.
ASSUME HoldingOnTheWire ==
  LET cfg == [p_max |-> 125, v_max |-> 450, kp_max |-> 5000, kd_max |-> 50, tau_max |-> 330]
      c == [position |-> 0, velocity |-> 0, kp |-> 0, kd |-> 5, torque |-> 0]
      out == [c EXCEPT !.position = 126]
  IN  /\ P!UnpackFields(P!PackMitPayload(cfg, c))
           = [p |-> 32768, v |-> 2048, kp |-> 0, kd |-> 26, t |-> 128]
      /\ P!PackMitPayload(cfg, out) = P!Error
      \* Four ties, where the even neighbour is the upper one; at 1 / 2 it is not.
      /\ P!DashPackMitPayload(cfg, c) = P!PackMitPayload(cfg, c)
      /\ P!RoundHalfEven(1, 2) = 0 /\ P!RoundHalfAwayFromZero(1, 2) = 1

\* Events leave the window when they are too old, as long as times do not go back.
Times == {<<>>, <<1>>, <<1, 2>>, <<1, 1, 3>>, <<1, 2, 3, 5>>}
Event(t) == [t |-> t, bits |-> 10 * t, direction |-> IF t % 2 = 0 THEN "tx" ELSE "rx"]

ASSUME WindowKeepsTheYoung ==
  \A times \in Times, now \in 5 .. 8, window \in 1 .. 4 :
    LET events == [i \in DOMAIN times |-> Event(times[i])]
        young == SelectSeq(events, LAMBDA e : e.t >= now - window)
    IN  /\ P!Prune(events, now, window) = young
        /\ P!WindowBits(young, "rx") + P!WindowBits(young, "tx")
             = P!WindowBits([i \in DOMAIN young |-> [young[i] EXCEPT !.direction = "rx"]], "rx")

\* The bits of a frame of eight bytes, as the docstring counts them, and of the request
\* of the IMU; a length that is too long counts as eight.
ASSUME FrameBits ==
  /\ P!EstimateClassicalCanBits(8, FALSE, FALSE, 100) = 111
  /\ P!EstimateClassicalCanBits(8, TRUE, FALSE, 115) = 151
  /\ P!EstimateClassicalCanBits(1, FALSE, FALSE, 115) = 64
  /\ P!EstimateClassicalCanBits(9, FALSE, TRUE, 100) = 47

\* Two monitors that see the same frames show the same, but for error frames, which the
\* dashboard counts and decodes like any other.
Config == [ids |-> [request |-> 545, quat |-> 673, gyro |-> 801], window |-> 3,
           stuff_factor |-> 115]
NoMonitor == [total_rx |-> 0, total_tx |-> 0, events |-> <<>>, imu |-> P!NoImu,
              motors |-> [id \in {321, 322} |-> P!NoMotor]]
SocketFrame(id, opcode, dlc, is_err) ==
  [is_eff |-> FALSE, is_rtr |-> FALSE, is_err |-> is_err, can_id |-> id, dlc |-> dlc,
   data |-> P!Bytes(opcode, 250, 1, 2, 255, 255, 10, 128)]
SocketFrames ==
  {SocketFrame(id, opcode, dlc, FALSE) :
     id \in {321, 322, 545, 673, 801, 2048 + 321}, opcode \in {192, 193, 194, 195, 155, 7},
     dlc \in {1, 8}}

ASSUME MonitorsShowTheSame ==
  \A f \in SocketFrames, g \in SocketFrames :
    (\A h \in {f, g} : h.data.b0 # 192 \/ h.dlc = 8) =>
      P!MarkRx(P!MarkRx(NoMonitor, Config, P!ParseCanFrame(f), 1), Config,
               P!ParseCanFrame(g), 2)
        = P!ToolRx(P!ToolRx(NoMonitor, Config, f, 1), Config, g, 2)

ASSUME ErrorFramesDiffer ==
  LET f == SocketFrame(321, 193, 8, TRUE)
      dash == P!MarkRx(NoMonitor, Config, P!ParseCanFrame(f), 1)
  IN  /\ P!ToolRx(NoMonitor, Config, f, 1) = NoMonitor
      /\ dash.motors[321].enabled_hint = TRUE /\ dash.total_rx = 1

\* A request of the tool, and of the dashboard, is counted and seen on the bus once.
ASSUME RequestsCount ==
  LET built == P!ToolBuildCanFrame(545, 1, P!EncodeRequest(3).data)
      tool == P!ToolPollImu(NoMonitor, Config, TRUE, 1)
      dash == P!MarkTx(NoMonitor, Config, 545, 1, built.data, 1)
      hint == P!MarkTx(NoMonitor, Config, 321, 8, P!EncodeDisable, 1)
  IN  /\ built.dlc = 1 /\ P!ToolBuildCanFrame(545, 9, built.data) = P!Error
      /\ tool.total_tx = 1 /\ tool.events = dash.events
      /\ dash.imu.req_count = 1 /\ tool.imu.req_count = 0
      /\ hint.motors[321].enabled_hint = FALSE /\ hint.motors[321].rx_count = 0
      /\ P!ToolPollImu(NoMonitor, Config, FALSE, 1) = NoMonitor

\* The gates of the dashboard's motor commands, for every name a controller may have:
\* a zero-set leaves in NORMAL only, an enable in no blocked state, and nothing leaves
\* while transmission is locked or commands are disabled; a refused command leaves the
\* service as it was.
Names == P!EnableBlockStates \cup {"NORMAL", "DAMPING", "ENABLING", P!None}
Services == [tx_enabled : BOOLEAN, allow_actuator_commands : BOOLEAN, connected : BOOLEAN]
Controllers == [provider : BOOLEAN, state : Names, reason_is_estop : BOOLEAN]

ASSUME GatesHold ==
  \A svc \in Services, ctl \in Controllers, is_motor, connects, sends \in BOOLEAN,
     d \in {P!EncodeEnable, P!EncodeDisable, P!PackMitSetZeroPayload(0)} :
    LET done == P!SendMotorCommand(svc, ctl, is_motor, d, connects, sends)
    IN  /\ done.result = "sent" =>
             /\ svc.tx_enabled /\ svc.allow_actuator_commands /\ is_motor
             /\ done.svc.connected
             /\ d = P!EncodeEnable => ~P!EnableBlocked(ctl)
             /\ d = P!PackMitSetZeroPayload(0) => ctl.provider /\ ctl.state = "NORMAL"
        /\ done.result \notin {"sent", "send failed"} => done.svc = svc

\* What the driver makes of frames: a motor's status, an acknowledgement, a frame that
\* is too short and one that is not its own.
ASSUME DriverDecodes ==
  LET cfg == [feedback_id |-> 577, expose_single_turn_position |-> TRUE,
              feedback_position_max |-> 1256, feedback_speed_is_motor_side |-> TRUE,
              gear_ratio |-> 9]
      Frame(id, opcode, dlc) == [can_id |-> id, dlc |-> dlc,
                                 data |-> P!Bytes(opcode, 250, 1, 2, 255, 255, 10, 128)]
      status == P!DecodeFrame(cfg, Frame(577, 192, 8))
  IN  /\ status.temperature_c = -6 /\ status.iq_counts = 513
      /\ status.velocity = <<-1, 9>> /\ status.position = <<-32758 * 1256, 32767>>
      /\ P!DecodeFrame(cfg, Frame(577, 144, 8)).position = <<513, 16384 * 9>>
      /\ P!DecodeFrame(cfg, Frame(577, 193, 8)).is_enabled = TRUE
      /\ P!DecodeFrame(cfg, Frame(577, 155, 8)).fault_code = 250
      /\ P!DecodeFrame(cfg, Frame(577, 192, 7)) = P!Error
      /\ P!DecodeFrame(cfg, Frame(578, 192, 8)) = P!None

\* Any buttons that are held are the ones the task controller finds in the mask, which
\* has no other bits.
ASSUME ButtonsSurviveTheMask ==
  \A pressed \in SUBSET T!ButtonFields :
    /\ T!MaskToButtons(T!ButtonsToMask(pressed)) = pressed
    /\ T!ButtonsToMask(pressed) \in 0 .. 2047

\* Events of the joystick: a stick pushed away from the operator asks for forward motion,
\* a button beyond the eleven known ones or an axis beyond the 32 is not published.
ASSUME JoystickEvents ==
  LET rest == [axes |-> [i \in T!ControlsRange |-> 0], buttons |-> {}]
      pushed == T!OnEvent(rest, "axis", 1, -32768)
      held == T!OnEvent(T!OnEvent(rest, "button", 0, 1), "button", 20, 1)
  IN  /\ T!Publish(pushed).targets = [lin_x |-> 32767, lin_y |-> 0, ang_z |-> 0]
      /\ T!Publish(held).button_mask = 1
      /\ T!OnEvent(held, "button", 0, 0).buttons = {20}
      /\ T!OnEvent(rest, "axis", 32, 5) = rest /\ T!OnEvent(rest, "other", 0, 5) = rest

\* A round of the task controller with the numbers of the shipped policy, in hundredths:
\* without the button it holds the default pose, with it the network can ask for an angle
\* beyond the range of the motors, 12.5 rad, which the encoder refuses; a joint that is
\* missing or a quaternion of zeros ends the process.
ASSUME TaskRounds ==
  LET cfg == [num_joint |-> 3, action_scale |-> 15, action_clip |-> 100, obs_type |-> 0,
              input |-> [k \in 0 .. 2 |-> k], output |-> [k \in 0 .. 2 |-> k],
              default_joint_angle |-> [k \in 0 .. 2 |-> <<0, -120, 200>>[k + 1]],
              max_control_targets |-> 3]
      limits == [p_max |-> 1250, v_max |-> 4500, kp_max |-> 50000, kd_max |-> 500,
                 tau_max |-> 3300]
      ids == <<321, 322, 323>>
      state == [timestamp_ns |-> 1, quat |-> [w |-> 1, x |-> 0, y |-> 0, z |-> 0],
                gyro |-> 0, actuators |->
                  [id \in {321, 322, 323} |-> [position |-> id, velocity |-> 0]]]
      new == T!NewPolicy(cfg)
      raw == [k \in 0 .. 2 |-> 500 * (k - 1)]
      Held(b) == [button_mask |-> IF b THEN 1 ELSE 2]
      Command(st, b) == T!Round(cfg, ids, new, st, Held(b), raw, 1500, 50).command
      Refused(c) == T!PackMitPayload(limits, c) = T!Error
  IN  /\ [i \in 1 .. 3 |-> Command(state, FALSE)[i].position] = <<0, -120, 200>>
      /\ [i \in 1 .. 3 |-> Command(state, TRUE)[i].position] = <<-1500, -120, 1700>>
      /\ {i \in 1 .. 3 : ~T!WithinLimits(limits, Command(state, TRUE)[i])} = {1, 3}
      /\ Refused(Command(state, TRUE)[1])
      /\ Command([state EXCEPT !.timestamp_ns = 0], TRUE) = T!None
      /\ Command([state EXCEPT !.actuators = <<>>], TRUE) = T!Error
      /\ Command([state EXCEPT !.quat.w = 0], TRUE) = T!Error
      /\ LET seen == T!Observed(cfg, ids, state)
         IN  /\ T!Observation(new, seen, 0, TRUE, "delta_dof_pos")
                   = [k \in 0 .. 2 |-> <<321, 442, 123>>[k + 1]]
             /\ T!Observation(new, seen, 0, TRUE, "alpha") = 1
=============================================================================
