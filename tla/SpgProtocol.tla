----------------------------- MODULE SpgProtocol -----------------------------
(***************************************************************************)
(* The frames of the actuators (dongilc_protocol.py) and of the IMU        *)
(* (e2box_protocol.py), as pure operators.                                 *)
(*                                                                         *)
(* A physical quantity that is encoded is an integer, in a unit small      *)
(* enough for what the code is given; one that is decoded is a ratio       *)
(* <<n, d>> of integers, so that nothing is rounded that the code does not *)
(* round (floating point itself is taken as exact).  Angular rates stay in *)
(* degrees, angles of the encoder are parts of a turn.  A payload is a     *)
(* record of its eight bytes; None stands for a field that a frame does    *)
(* not have, Error for an exception.                                       *)
(***************************************************************************)
EXTENDS Integers

None == "none"
Error == "error"

Byte == 0 .. 255
Payload == [b0 : Byte, b1 : Byte, b2 : Byte, b3 : Byte,
            b4 : Byte, b5 : Byte, b6 : Byte, b7 : Byte]

\* struct.unpack of "<H", "<h" and "b", and the two bytes of a number.
U16(lo, hi) == lo + 256 * hi
I16(lo, hi) == IF U16(lo, hi) >= 32768 THEN U16(lo, hi) - 65536 ELSE U16(lo, hi)
I8(b) == IF b >= 128 THEN b - 256 ELSE b
LowByte(n) == n % 256
HighByte(n) == (n \div 256) % 256
-----------------------------------------------------------------------------
(***************************************************************************)
(* Rounding and scaling.                                                   *)
(***************************************************************************)
RequireRange(x, lo, hi) == lo <= x /\ x <= hi

\* n / d, rounded, for d > 0.
RoundHalfAwayFromZero(n, d) ==
  IF n >= 0 THEN (2 * n + d) \div (2 * d) ELSE -((d - 2 * n) \div (2 * d))

\* The greatest codes of 8, 12 and 16 bits.
Max8 == 255
Max12 == 4095
Max16 == 65535

\* The range lo .. hi is mapped to 0 .. top, where top = 2^bits - 1.
FloatToUint(x, lo, hi, top) ==
  LET raw == RoundHalfAwayFromZero((x - lo) * top, hi - lo)
  IN  IF raw > top THEN top ELSE IF raw < 0 THEN 0 ELSE raw

\* The way back, in the firmware: <<n, top>> for n / top.
UintToFloat(u, lo, hi, top) == <<u * (hi - lo) + lo * top, top>>

EncMod == 16384
EncHalf == 8192

WrapU14(n) == n % EncMod

ShortestDeltaU14(curr, prev) ==
  LET delta == WrapU14(curr) - WrapU14(prev)
  IN  IF delta > EncHalf THEN delta - EncMod
      ELSE IF delta < -EncHalf THEN delta + EncMod ELSE delta

\* n / d is an angle in turns.
RadToU14Count(n, d) == RoundHalfAwayFromZero((n % d) * EncMod, d) % EncMod

SignedU14Count(n) == IF WrapU14(n) >= EncHalf THEN WrapU14(n) - EncMod ELSE WrapU14(n)
-----------------------------------------------------------------------------
(***************************************************************************)
(* Commands.                                                               *)
(***************************************************************************)
MitControl == 192
MitEnter == 193
MitExit == 194
MitSetZero == 195
ReadMitParams == 196
WriteMitParams == 197
ReadEncoderData == 144
WriteEncoderOffset == 145
WriteCurrentPosAsZero == 25
ClearErrorFlag == 155

Bytes(a, b, c, d, e, f, g, h) ==
  [b0 |-> a, b1 |-> b, b2 |-> c, b3 |-> d, b4 |-> e, b5 |-> f, b6 |-> g, b7 |-> h]

\* Enable, disable, clear-error and the read requests are an opcode and zeros.
OpcodeFrame(opcode) == Bytes(opcode, 0, 0, 0, 0, 0, 0, 0)

EncodeEnable == OpcodeFrame(MitEnter)
EncodeDisable == OpcodeFrame(MitExit)
EncodeClearFault == OpcodeFrame(ClearErrorFlag)
EncodeReadMitParams == OpcodeFrame(ReadMitParams)
EncodeReadEncoderData == OpcodeFrame(ReadEncoderData)
EncodeWriteCurrentPositionAsZero == OpcodeFrame(WriteCurrentPosAsZero)

\* 16 bits of position, 12 of velocity and of kp, 8 of kd and of torque.
PackFields(p, v, kp, kd, t) ==
  Bytes(MitControl, HighByte(p), LowByte(p), (v \div 16) % 256,
        (v % 16) * 16 + ((kp \div 256) % 16), kp % 256, kd % 256, t % 256)

\* cfg has the limits of SPGMITConfig, c the five quantities of a command.
WithinLimits(cfg, c) ==
  /\ RequireRange(c.position, -cfg.p_max, cfg.p_max)
  /\ RequireRange(c.velocity, -cfg.v_max, cfg.v_max)
  /\ RequireRange(c.kp, 0, cfg.kp_max)
  /\ RequireRange(c.kd, 0, cfg.kd_max)
  /\ RequireRange(c.torque, -cfg.tau_max, cfg.tau_max)

PackMitPayload(cfg, c) ==
  IF WithinLimits(cfg, c)
  THEN PackFields(FloatToUint(c.position, -cfg.p_max, cfg.p_max, Max16),
                  FloatToUint(c.velocity, -cfg.v_max, cfg.v_max, Max12),
                  FloatToUint(c.kp, 0, cfg.kp_max, Max12),
                  FloatToUint(c.kd, 0, cfg.kd_max, Max8),
                  FloatToUint(c.torque, -cfg.tau_max, cfg.tau_max, Max8))
  ELSE Error

EncodeImpedanceCommand(cfg, c) == PackMitPayload(cfg, c)
EncodeTorqueCommand(cfg, torque) ==
  PackMitPayload(cfg, [position |-> 0, velocity |-> 0, kp |-> 0, kd |-> 0,
                       torque |-> torque])

Int16(n) == -32768 <= n /\ n <= 32767

\* The offset is in thousandths of a degree, the field in hundredths.
PackMitSetZeroPayload(offset) ==
  LET raw == RoundHalfAwayFromZero(offset, 10)
  IN  IF Int16(raw) THEN Bytes(MitSetZero, 0, 0, 0, 0, 0, LowByte(raw), HighByte(raw))
      ELSE Error

EncodeWriteEncoderOffset(offset) ==
  Bytes(WriteEncoderOffset, 0, 0, 0, 0, 0, LowByte(offset), HighByte(offset))

\* The offset that makes the present position be read as n / d turns.
EncodeSetCurrentPositionAsRad(original, n, d) ==
  EncodeWriteEncoderOffset((RadToU14Count(n, d) - WrapU14(original)) % EncMod)

\* kt is in millionths of Nm/A, the gear ratio in ten-thousandths.
EncodeWriteMitParams(v_max, tau_max, kt, gear_ratio) ==
  LET ktRaw == RoundHalfAwayFromZero(kt, 1000)
      gearRaw == RoundHalfAwayFromZero(gear_ratio, 100)
  IN  IF v_max \in Byte /\ tau_max \in Byte
         /\ RequireRange(ktRaw, 0, Max16) /\ RequireRange(gearRaw, 0, Max16)
      THEN Bytes(WriteMitParams, v_max, tau_max, LowByte(ktRaw), HighByte(ktRaw),
                 LowByte(gearRaw), HighByte(gearRaw), 0)
      ELSE Error
-----------------------------------------------------------------------------
(***************************************************************************)
(* Answers.                                                                *)
(***************************************************************************)
\* The five fields of a control frame as the firmware takes them apart.
UnpackFields(d) ==
  [p |-> 256 * d.b1 + d.b2, v |-> 16 * d.b3 + (d.b4 \div 16),
   kp |-> 256 * (d.b4 % 16) + d.b5, kd |-> d.b6, t |-> d.b7]

ParseMitStatus(d) ==
  [temp_c |-> I8(d.b1), iq_counts |-> I16(d.b2, d.b3), speed_dps |-> I16(d.b4, d.b5),
   mit_position_i16 |-> I16(d.b6, d.b7)]

ParseEncoderData(d) ==
  [temp_c |-> I8(d.b1), position |-> WrapU14(U16(d.b2, d.b3)),
   original |-> WrapU14(U16(d.b4, d.b5)), offset |-> WrapU14(U16(d.b6, d.b7))]

ParseMitParams(d) ==
  [v_max |-> d.b1, tau_max |-> d.b2, kt_out |-> <<U16(d.b3, d.b4), 1000>>,
   gear_ratio |-> <<U16(d.b5, d.b6), 100>>]

\* The part of ActuatorState that frames fill in.
EmptyState ==
  [position |-> None, velocity |-> None, temperature_c |-> None, fault_code |-> None,
   is_enabled |-> None, mode |-> None, iq_counts |-> None]

\* Current and torque are iq_counts, scaled by constants of the configuration.
DecodeMitStatus(cfg, d) ==
  LET status == ParseMitStatus(d) IN
  [EmptyState EXCEPT
     !.position = IF cfg.expose_single_turn_position
                  THEN <<status.mit_position_i16 * cfg.feedback_position_max, 32767>>
                  ELSE None,
     !.velocity = <<status.speed_dps,
                    IF cfg.feedback_speed_is_motor_side THEN cfg.gear_ratio ELSE 1>>,
     !.temperature_c = status.temp_c,
     !.iq_counts = status.iq_counts]

DecodeEncoderData(cfg, d) ==
  LET enc == ParseEncoderData(d) IN
  [EmptyState EXCEPT
     !.position = IF cfg.expose_single_turn_position
                  THEN <<SignedU14Count(enc.position), EncMod * cfg.gear_ratio>>
                  ELSE None,
     !.temperature_c = enc.temp_c]

\* What an acknowledgement says of motor mode: yes, no or nothing.
AckEnabledHint(cmd) ==
  IF cmd = MitEnter THEN TRUE
  ELSE IF cmd \in {MitExit, ClearErrorFlag} THEN FALSE ELSE None

AckMode(cmd) ==
  CASE cmd = MitEnter -> "MIT_ENTER_ACK"
    [] cmd = MitExit -> "MIT_EXIT_ACK"
    [] cmd = MitSetZero -> "MIT_SET_ZERO_ACK"
    [] cmd = ClearErrorFlag -> "CLEAR_ERROR_ACK"
    [] cmd = WriteCurrentPosAsZero -> "WRITE_CURRENT_POS_AS_ZERO_ACK"
    [] cmd = WriteEncoderOffset -> "WRITE_ENCODER_OFFSET_ACK"
    [] OTHER -> None

\* The offset it repeats: signed for a set-zero, of the encoder for the others.
AckOffset(d) ==
  IF d.b0 = MitSetZero THEN I16(d.b6, d.b7)
  ELSE IF d.b0 \in {WriteCurrentPosAsZero, WriteEncoderOffset} THEN U16(d.b6, d.b7)
  ELSE None

DecodeAckLikeFrame(d) ==
  [EmptyState EXCEPT
     !.is_enabled = AckEnabledHint(d.b0),
     !.mode = AckMode(d.b0),
     !.fault_code = IF d.b0 = ClearErrorFlag THEN d.b1 ELSE None]

DecodeMitParams == [EmptyState EXCEPT !.mode = "MIT_PARAMS"]

\* A frame has a CAN id, a length and the bytes up to it.
DecodeFrame(cfg, frame) ==
  IF frame.can_id # cfg.feedback_id THEN None
  ELSE IF frame.dlc # 8 THEN Error
  ELSE LET d == frame.data IN
       CASE d.b0 = MitControl -> DecodeMitStatus(cfg, d)
         [] d.b0 = ReadEncoderData -> DecodeEncoderData(cfg, d)
         [] d.b0 = ReadMitParams -> DecodeMitParams
         [] d.b0 \in {MitEnter, MitExit, WriteCurrentPosAsZero, WriteEncoderOffset,
                      MitSetZero, ClearErrorFlag} -> DecodeAckLikeFrame(d)
         [] OTHER -> None
-----------------------------------------------------------------------------
(***************************************************************************)
(* The IMU.  Components are in units of the quaternion's scale, gravity in *)
(* units of its square.                                                    *)
(***************************************************************************)
EncodeRequest(cmd) == [dlc |-> 1, data |-> OpcodeFrame(cmd)]

\* The sign of x and the order of x and y are corrected; no normalisation here.
DecodeQuat(d) ==
  [x |-> -I16(d.b4, d.b5), y |-> I16(d.b2, d.b3),
   z |-> I16(d.b0, d.b1), w |-> I16(d.b6, d.b7)]

DecodeGyro(d) == [x |-> I16(d.b2, d.b3), y |-> I16(d.b0, d.b1), z |-> I16(d.b4, d.b5)]

\* The vector (0, 0, -unit) rotated by the conjugate of q, with the IMU's x and y
\* exchanged; unit is the square of the length of q.
ProjectedGravity(q, unit) ==
  LET tx == -2 * q.y
      ty == 2 * q.x
  IN  [x |-> -(q.w * ty) + q.z * tx,
       y |-> -(q.w * tx) - q.z * ty,
       z |-> -unit + q.x * ty - q.y * tx]
=============================================================================
