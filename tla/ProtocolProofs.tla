---------------------------- MODULE ProtocolProofs ----------------------------
(***************************************************************************)
(* Theorems about the frames: what a command loses on its way to a motor,  *)
(* that what is packed is what is unpacked, and that the programs that     *)
(* decode the same frames agree; then about the joystick reader and the    *)
(* task controller, and what the IMU's driver and the control loop make of *)
(* the same data.  All of them hold for every limit, every command, every  *)
(* byte and every policy.                                                  *)
(***************************************************************************)
EXTENDS MonitorDecoders, TaskController, TLAPS

\* Division of integers, for a divisor that is not a number.
LEMMA Division ==
  ASSUME NEW n \in Int, NEW d \in Nat \ {0}
  PROVE  /\ n \div d \in Int /\ n % d \in Int
         /\ n = d * (n \div d) + (n % d)
         /\ 0 <= n % d /\ n % d < d
  BY SMT

\* Rounding gives an integer at most half a unit away.
LEMMA RoundIsNearest ==
  ASSUME NEW n \in Int, NEW d \in Nat \ {0}
  PROVE  /\ RoundHalfAwayFromZero(n, d) \in Int
         /\ 2 * (RoundHalfAwayFromZero(n, d) * d - n) <= d
         /\ -d <= 2 * (RoundHalfAwayFromZero(n, d) * d - n)
  BY Division, SMT DEF RoundHalfAwayFromZero

\* So does the rounding of the dashboard.
LEMMA RoundEvenIsNearest ==
  ASSUME NEW n \in Int, NEW d \in Nat \ {0}
  PROVE  /\ RoundHalfEven(n, d) \in Int
         /\ 2 * (RoundHalfEven(n, d) * d - n) <= d
         /\ -d <= 2 * (RoundHalfEven(n, d) * d - n)
  BY Division, SMT DEF RoundHalfEven

\* Two integers within half a unit of the same number are neighbours.
LEMMA NearestAreNeighbours ==
  ASSUME NEW a \in Int, NEW b \in Int, NEW n \in Int, NEW d \in Nat \ {0},
         2 * (a * d - n) <= d, -d <= 2 * (a * d - n),
         2 * (b * d - n) <= d, -d <= 2 * (b * d - n)
  PROVE  a - b \in -1 .. 1
<1>1. (a - b) * d <= d /\ -d <= (a - b) * d
  BY SMT
<1>2. a - b <= 1 /\ -1 <= a - b
  BY <1>1, SMT
<1> QED
  BY <1>2, SMT

LEMMA QuotientIsMonotone ==
  ASSUME NEW m \in Int, NEW n \in Int, NEW d \in Nat \ {0}, m <= n
  PROVE  m \div d <= n \div d
<1> DEFINE p == m \div d
           q == n \div d
<1>1. /\ p \in Int /\ m = d * p + (m % d) /\ 0 <= m % d /\ m % d < d /\ m % d \in Int
      /\ q \in Int /\ n = d * q + (n % d) /\ 0 <= n % d /\ n % d < d /\ n % d \in Int
  BY Division
<1> HIDE DEF p, q
<1>2. q <= p - 1 => d * q <= d * p - d
  BY <1>1, SMT
<1>3. p <= q
  BY <1>1, <1>2, SMT
<1> QED
  BY <1>3 DEF p, q

\* Rounding keeps the order.
LEMMA RoundIsMonotone ==
  ASSUME NEW m \in Int, NEW n \in Int, NEW d \in Nat \ {0}, m <= n
  PROVE  RoundHalfAwayFromZero(m, d) <= RoundHalfAwayFromZero(n, d)
<1>1. 2 * d \in Nat \ {0}
  BY SMT
<1>2. CASE m >= 0
  <2>1. (2 * m + d) \div (2 * d) <= (2 * n + d) \div (2 * d)
    BY <1>1, QuotientIsMonotone, SMT
  <2> QED
    BY <1>2, <2>1, SMT DEF RoundHalfAwayFromZero
<1>3. CASE m < 0 /\ n < 0
  <2>1. (d - 2 * n) \div (2 * d) <= (d - 2 * m) \div (2 * d)
    BY <1>1, QuotientIsMonotone, SMT
  <2>2. (d - 2 * n) \div (2 * d) \in Int /\ (d - 2 * m) \div (2 * d) \in Int
    BY <1>1, Division, SMT
  <2> QED
    BY <1>3, <2>1, <2>2, SMT DEF RoundHalfAwayFromZero
<1>4. CASE m < 0 /\ n >= 0
  <2>1. 0 \div (2 * d) = 0
    BY <1>1, SMT
  <2>2. 0 <= (d - 2 * m) \div (2 * d) /\ 0 <= (2 * n + d) \div (2 * d)
    BY <1>1, <1>4, <2>1, QuotientIsMonotone, SMT
  <2>3. (d - 2 * m) \div (2 * d) \in Int /\ (2 * n + d) \div (2 * d) \in Int
    BY <1>1, Division, SMT
  <2> QED
    BY <1>4, <2>2, <2>3, SMT DEF RoundHalfAwayFromZero
<1> QED
  BY <1>2, <1>3, <1>4, SMT
-----------------------------------------------------------------------------
\* A value of the range is encoded in the width of its field, and the clamp at the
\* end of float_to_uint never acts: it is the range check before that protects.
THEOREM ClampNeverActs ==
  ASSUME NEW lo \in Int, NEW hi \in Int, NEW x \in Int, NEW top \in Nat,
         lo < hi, RequireRange(x, lo, hi)
  PROVE  /\ FloatToUint(x, lo, hi, top) \in 0 .. top
         /\ FloatToUint(x, lo, hi, top) = RoundHalfAwayFromZero((x - lo) * top, hi - lo)
<1> DEFINE d == hi - lo
           n == (x - lo) * top
           r == RoundHalfAwayFromZero(n, d)
<1>1. d \in Nat \ {0} /\ n \in Int /\ 0 <= n /\ n <= d * top
  BY SMT DEF RequireRange
<1>2. r \in Int /\ 2 * (r * d - n) <= d /\ -d <= 2 * (r * d - n)
  BY <1>1, RoundIsNearest
<1> HIDE DEF d, n, r
<1>3. 0 <= r
  <2>1. -d <= 2 * (r * d)
    BY <1>1, <1>2, SMT
  <2>2. r <= -1 => 2 * (r * d) <= -2 * d
    BY <1>1, <1>2, SMT
  <2> QED
    BY <1>1, <1>2, <2>1, <2>2, SMT
<1>4. r <= top
  <2>1. 2 * (r * d) <= d + 2 * (d * top)
    BY <1>1, <1>2, SMT
  <2>2. r >= top + 1 => r * d >= d * top + d
    BY <1>1, <1>2, SMT
  <2> QED
    BY <1>1, <1>2, <2>1, <2>2, SMT
<1> QED
  BY <1>2, <1>3, <1>4, SMT DEF FloatToUint, d, n, r

\* What the firmware decodes is within half a step of what was commanded: the step
\* is (hi - lo) / top, and everything is multiplied by 2 * top.
THEOREM CommandWithinHalfStep ==
  ASSUME NEW lo \in Int, NEW hi \in Int, NEW x \in Int, NEW top \in Nat,
         lo < hi, RequireRange(x, lo, hi)
  PROVE  LET got == UintToFloat(FloatToUint(x, lo, hi, top), lo, hi, top)
         IN  2 * (got[1] - x * top) \in -(hi - lo) .. (hi - lo)
<1> DEFINE d == hi - lo
           n == (x - lo) * top
           u == FloatToUint(x, lo, hi, top)
<1>1. d \in Nat \ {0} /\ n \in Int
  BY SMT
<1>2. u \in Int /\ u = RoundHalfAwayFromZero(n, d)
  BY ClampNeverActs, SMT
<1>3. 2 * (u * d - n) <= d /\ -d <= 2 * (u * d - n)
  BY <1>1, <1>2, RoundIsNearest
<1>4. UintToFloat(u, lo, hi, top)[1] - x * top = u * d - n
  BY <1>2, SMT DEF UintToFloat
<1>5. u * d - n \in Int
  BY <1>1, <1>2, SMT
<1> HIDE DEF u, n
<1>6. 2 * (u * d - n) \in -(hi - lo) .. (hi - lo)
  BY <1>1, <1>3, <1>5, SMT
<1> QED
  BY <1>4, <1>6 DEF u

\* A larger command never arrives as a smaller one.
THEOREM CommandKeepsOrder ==
  ASSUME NEW lo \in Int, NEW hi \in Int, NEW x \in Int, NEW y \in Int, NEW top \in Nat,
         lo < hi, RequireRange(x, lo, hi), RequireRange(y, lo, hi), x <= y
  PROVE  FloatToUint(x, lo, hi, top) <= FloatToUint(y, lo, hi, top)
<1>1. /\ (x - lo) * top \in Int /\ (y - lo) * top \in Int /\ hi - lo \in Nat \ {0}
      /\ (x - lo) * top <= (y - lo) * top
  BY SMT
<1>2. RoundHalfAwayFromZero((x - lo) * top, hi - lo)
        <= RoundHalfAwayFromZero((y - lo) * top, hi - lo)
  BY <1>1, RoundIsMonotone
<1>3. /\ FloatToUint(x, lo, hi, top) = RoundHalfAwayFromZero((x - lo) * top, hi - lo)
      /\ FloatToUint(y, lo, hi, top) = RoundHalfAwayFromZero((y - lo) * top, hi - lo)
  BY ClampNeverActs
<1> QED
  BY <1>2, <1>3

\* No code of a symmetric range means zero, whatever the width of the field: top is
\* odd.  The zero that the disabled loop and the torque commands send arrives as
\* limit / top, one half step above: a joint without a torque command gets
\* tau_max / 255.
THEOREM ZeroIsNotOnTheWire ==
  ASSUME NEW limit \in Nat \ {0}, NEW half \in Nat
  PROVE  LET top == 2 * half + 1
         IN  /\ \A u \in 0 .. top : UintToFloat(u, -limit, limit, top)[1] # 0
             /\ FloatToUint(0, -limit, limit, top) = half + 1
             /\ UintToFloat(half + 1, -limit, limit, top) = <<limit, top>>
<1> DEFINE top == 2 * half + 1
           d == 2 * limit
<1>1. ASSUME NEW u \in 0 .. top
      PROVE  UintToFloat(u, -limit, limit, top)[1] # 0
  <2>1. UintToFloat(u, -limit, limit, top)[1] = limit * (2 * u - top)
    BY SMT DEF UintToFloat
  <2>2. 2 * u - top # 0 /\ 2 * u - top \in Int
    BY SMT
  <2> HIDE DEF top
  <2>3. limit * (2 * u - top) # 0
    BY <2>2, SMT
  <2> QED
    BY <2>1, <2>3
<1>2. FloatToUint(0, -limit, limit, top) = half + 1
  <2>1. limit - (-limit) = d /\ (0 - (-limit)) * top = limit * top
    BY SMT
  <2>2. 2 * (limit * top) + d = (2 * d) * (half + 1)
    BY SMT
  <2>3. (2 * (limit * top) + d) \div (2 * d) = half + 1
    BY <2>2, SMT
  <2>4. RoundHalfAwayFromZero(limit * top, d) = half + 1
    BY <2>3, SMT DEF RoundHalfAwayFromZero
  <2>5. RequireRange(0, -limit, limit)
    BY SMT DEF RequireRange
  <2>6. top \in Nat /\ -limit \in Int /\ -limit < limit /\ limit \in Int
    BY SMT
  <2>7. FloatToUint(0, -limit, limit, top)
          = RoundHalfAwayFromZero((0 - (-limit)) * top, limit - (-limit))
    BY <2>5, <2>6, ClampNeverActs
  <2> QED
    BY <2>1, <2>4, <2>7
<1>3. UintToFloat(half + 1, -limit, limit, top) = <<limit, top>>
  BY SMT DEF UintToFloat
<1> QED
  BY <1>1, <1>2, <1>3
-----------------------------------------------------------------------------
\* The five fields of a control frame share eight bytes without loss: the firmware
\* takes out what the driver has put in, whatever the values.
THEOREM FieldsSurviveTheFrame ==
  ASSUME NEW p \in Nat, NEW v \in Nat, NEW kp \in Nat, NEW kd \in Nat, NEW t \in Nat,
         p <= Max16, v <= Max12, kp <= Max12, kd <= Max8, t <= Max8
  PROVE  /\ PackFields(p, v, kp, kd, t) \in Payload
         /\ UnpackFields(PackFields(p, v, kp, kd, t))
              = [p |-> p, v |-> v, kp |-> kp, kd |-> kd, t |-> t]
<1>0. p <= 65535 /\ v <= 4095 /\ kp <= 4095 /\ kd <= 255 /\ t <= 255
  BY DEF Max16, Max12, Max8
<1>1. (p \div 256) % 256 \in Byte /\ p % 256 \in Byte
  BY <1>0, SMT DEF Byte
<1>2. (v \div 16) % 256 \in Byte /\ kp % 256 \in Byte
  BY <1>0, SMT DEF Byte
<1>3. (v % 16) * 16 + ((kp \div 256) % 16) \in Byte
  BY <1>0, SMT DEF Byte
<1>4. kd % 256 \in Byte /\ t % 256 \in Byte
  BY <1>0, SMT DEF Byte
<1>5. 256 * ((p \div 256) % 256) + (p % 256) = p
  BY <1>0, SMT
<1> DEFINE b4 == (v % 16) * 16 + ((kp \div 256) % 16)
<1>6. b4 \div 16 = v % 16 /\ b4 % 16 = (kp \div 256) % 16
  BY <1>0, SMT
<1>7. 16 * ((v \div 16) % 256) + (v % 16) = v
  BY <1>0, SMT
<1>8. 256 * ((kp \div 256) % 16) + (kp % 256) = kp
  BY <1>0, SMT
<1>9. kd % 256 = kd /\ t % 256 = t
  BY <1>0, SMT
<1>10. PackFields(p, v, kp, kd, t) \in Payload
  BY <1>1, <1>2, <1>3, <1>4, SMT
     DEF PackFields, Payload, Bytes, HighByte, LowByte, MitControl, Byte
<1>11. UnpackFields(PackFields(p, v, kp, kd, t))
         = [p |-> 256 * ((p \div 256) % 256) + (p % 256),
            v |-> 16 * ((v \div 16) % 256) + (b4 \div 16),
            kp |-> 256 * (b4 % 16) + (kp % 256), kd |-> kd % 256, t |-> t % 256]
  BY SMT DEF UnpackFields, PackFields, Bytes, HighByte, LowByte
<1> HIDE DEF b4
<1>12. UnpackFields(PackFields(p, v, kp, kd, t))
         = [p |-> p, v |-> v, kp |-> kp, kd |-> kd, t |-> t]
  BY <1>5, <1>6, <1>7, <1>8, <1>9, <1>11
<1> QED
  BY <1>10, <1>12

\* The limits of a configuration and the quantities of a command.
Limits == [p_max : Nat \ {0}, v_max : Nat \ {0}, kp_max : Nat \ {0},
           kd_max : Nat \ {0}, tau_max : Nat \ {0}]
Commands == [position : Int, velocity : Int, kp : Int, kd : Int, torque : Int]

\* A command is refused or arrives: every field the firmware takes out of the frame
\* is the code of the commanded value, so that CommandWithinHalfStep bounds the loss.
THEOREM CommandArrives ==
  ASSUME NEW cfg \in Limits, NEW c \in Commands, PackMitPayload(cfg, c) # Error
  PROVE  /\ PackMitPayload(cfg, c) \in Payload
         /\ UnpackFields(PackMitPayload(cfg, c))
              = [p |-> FloatToUint(c.position, -cfg.p_max, cfg.p_max, Max16),
                 v |-> FloatToUint(c.velocity, -cfg.v_max, cfg.v_max, Max12),
                 kp |-> FloatToUint(c.kp, 0, cfg.kp_max, Max12),
                 kd |-> FloatToUint(c.kd, 0, cfg.kd_max, Max8),
                 t |-> FloatToUint(c.torque, -cfg.tau_max, cfg.tau_max, Max8)]
<1> DEFINE p == FloatToUint(c.position, -cfg.p_max, cfg.p_max, Max16)
           v == FloatToUint(c.velocity, -cfg.v_max, cfg.v_max, Max12)
           kp == FloatToUint(c.kp, 0, cfg.kp_max, Max12)
           kd == FloatToUint(c.kd, 0, cfg.kd_max, Max8)
           t == FloatToUint(c.torque, -cfg.tau_max, cfg.tau_max, Max8)
<1>1. WithinLimits(cfg, c)
  BY Zenon DEF PackMitPayload
<1>2. /\ cfg.p_max \in Nat \ {0} /\ cfg.v_max \in Nat \ {0} /\ cfg.kp_max \in Nat \ {0}
      /\ cfg.kd_max \in Nat \ {0} /\ cfg.tau_max \in Nat \ {0}
      /\ c.position \in Int /\ c.velocity \in Int /\ c.kp \in Int /\ c.kd \in Int
      /\ c.torque \in Int
  BY SMT DEF Limits, Commands
<1>3. /\ \A m \in Nat \ {0} : -m \in Int /\ m \in Int /\ -m < m /\ 0 < m /\ 0 \in Int
      /\ Max16 \in Nat /\ Max12 \in Nat /\ Max8 \in Nat
  BY SMT DEF Max16, Max12, Max8
<1>4. /\ p \in 0 .. Max16 /\ v \in 0 .. Max12 /\ kp \in 0 .. Max12
      /\ kd \in 0 .. Max8 /\ t \in 0 .. Max8
  <2>1. p \in 0 .. Max16
    BY <1>1, <1>2, <1>3, ClampNeverActs DEF WithinLimits
  <2>2. v \in 0 .. Max12
    BY <1>1, <1>2, <1>3, ClampNeverActs DEF WithinLimits
  <2>3. kp \in 0 .. Max12
    BY <1>1, <1>2, <1>3, ClampNeverActs DEF WithinLimits
  <2>4. kd \in 0 .. Max8
    BY <1>1, <1>2, <1>3, ClampNeverActs DEF WithinLimits
  <2>5. t \in 0 .. Max8
    BY <1>1, <1>2, <1>3, ClampNeverActs DEF WithinLimits
  <2> QED
    BY <2>1, <2>2, <2>3, <2>4, <2>5
<1>5. PackMitPayload(cfg, c) = PackFields(p, v, kp, kd, t)
  BY <1>1, Zenon DEF PackMitPayload
<1> HIDE DEF p, v, kp, kd, t
<1>7. /\ p \in Nat /\ v \in Nat /\ kp \in Nat /\ kd \in Nat /\ t \in Nat
      /\ p <= Max16 /\ v <= Max12 /\ kp <= Max12 /\ kd <= Max8 /\ t <= Max8
  BY <1>3, <1>4, SMT
<1>6. /\ PackFields(p, v, kp, kd, t) \in Payload
      /\ UnpackFields(PackFields(p, v, kp, kd, t))
           = [p |-> p, v |-> v, kp |-> kp, kd |-> kd, t |-> t]
  BY <1>7, FieldsSurviveTheFrame
<1> QED
  BY <1>5, <1>6, Zenon DEF p, v, kp, kd, t
-----------------------------------------------------------------------------
\* A signed number of 16 bits survives its two bytes, low byte first.
LEMMA Int16SurvivesItsBytes ==
  ASSUME NEW n \in Int, Int16(n)
  PROVE  /\ LowByte(n) \in Byte /\ HighByte(n) \in Byte
         /\ I16(LowByte(n), HighByte(n)) = n
  BY SMT DEF Int16, LowByte, HighByte, I16, U16, Byte

\* The acknowledgement of a set-zero request repeats its bytes: the offset that the
\* driver and both monitors read in it is the one that was asked for, rounded to a
\* hundredth of a degree.
THEOREM ZeroOffsetSurvives ==
  ASSUME NEW offset \in Int, Int16(RoundHalfAwayFromZero(offset, 10))
  PROVE  LET d == PackMitSetZeroPayload(offset)
         IN  /\ d \in Payload
             /\ AckOffset(d) = RoundHalfAwayFromZero(offset, 10)
<1> DEFINE raw == RoundHalfAwayFromZero(offset, 10)
           d == PackMitSetZeroPayload(offset)
<1>1. raw \in Int
  BY RoundIsNearest, SMT
<1>2. d = Bytes(MitSetZero, 0, 0, 0, 0, 0, LowByte(raw), HighByte(raw))
  BY DEF PackMitSetZeroPayload
<1> HIDE DEF raw, d
<1>3. /\ LowByte(raw) \in Byte /\ HighByte(raw) \in Byte
      /\ I16(LowByte(raw), HighByte(raw)) = raw
  BY <1>1, Int16SurvivesItsBytes DEF raw
<1>4. d \in Payload
  BY <1>2, <1>3, SMT DEF Payload, Bytes, MitSetZero, Byte
<1>5. d.b0 = MitSetZero /\ d.b6 = LowByte(raw) /\ d.b7 = HighByte(raw)
  BY <1>2, SMT DEF Bytes
<1>6. AckOffset(d) = raw
  BY <1>3, <1>5 DEF AckOffset
<1> QED
  BY <1>4, <1>6 DEF raw, d

\* Whatever the encoder reads, adding the offset that is written to it makes the
\* position the angle that was asked for, modulo a turn.
THEOREM OffsetMakesThePosition ==
  ASSUME NEW original \in Int, NEW n \in Int, NEW m \in Nat \ {0}
  PROVE  LET d == EncodeSetCurrentPositionAsRad(original, n, m)
         IN  (WrapU14(original) + U16(d.b6, d.b7)) % EncMod = RadToU14Count(n, m)
<1> DEFINE want == RadToU14Count(n, m)
           was == WrapU14(original)
           off == (want - was) % EncMod
           d == EncodeSetCurrentPositionAsRad(original, n, m)
<1>1. n % m \in Int
  BY SMT
<1>2. RoundHalfAwayFromZero((n % m) * EncMod, m) \in Int
  BY <1>1, RoundIsNearest, SMT DEF EncMod
<1>3. want \in Int /\ 0 <= want /\ want < 16384
  BY <1>2, SMT DEF RadToU14Count, EncMod
<1>4. was \in Int /\ 0 <= was /\ was < 16384
  BY SMT DEF WrapU14, EncMod
<1>5. d.b6 = LowByte(off) /\ d.b7 = HighByte(off)
  BY SMT DEF EncodeSetCurrentPositionAsRad, EncodeWriteEncoderOffset, Bytes
<1> HIDE DEF want, was, d
<1>6. off \in Int /\ 0 <= off /\ off < 16384 /\ (was + off) % 16384 = want
  BY <1>3, <1>4, SMT DEF EncMod
<1> HIDE DEF off
<1>7. U16(LowByte(off), HighByte(off)) = off
  BY <1>6, SMT DEF U16, LowByte, HighByte
<1> QED
  BY <1>5, <1>6, <1>7 DEF EncMod, want, was, d

\* The shortest way between two counts is at most half a turn and leads from the one
\* to the other.
THEOREM ShortestDeltaLeadsThere ==
  ASSUME NEW curr \in Int, NEW prev \in Int
  PROVE  LET delta == ShortestDeltaU14(curr, prev)
         IN  /\ delta \in Int /\ -EncHalf <= delta /\ delta <= EncHalf
             /\ (prev + delta) % EncMod = curr % EncMod
<1> DEFINE c == curr % 16384
           p == prev % 16384
<1>1. /\ c \in Int /\ 0 <= c /\ c < 16384 /\ p \in Int /\ 0 <= p /\ p < 16384
  BY SMT
<1> DEFINE delta == ShortestDeltaU14(curr, prev)
<1>2. delta = IF c - p > 8192 THEN c - p - 16384
              ELSE IF c - p < -8192 THEN c - p + 16384 ELSE c - p
  BY DEF ShortestDeltaU14, WrapU14, EncMod, EncHalf
<1>3. PICK k \in {-1, 0, 1} : delta = c - p + 16384 * k
  BY <1>1, <1>2, SMT
<1>4. (prev + (c - p + 16384 * k)) % 16384 = c
  BY SMT
<1> HIDE DEF c, p, delta
<1>5. delta \in Int /\ -8192 <= delta /\ delta <= 8192
  BY <1>1, <1>2, SMT
<1>6. -EncHalf <= delta /\ delta <= EncHalf
  BY <1>5, SMT DEF EncHalf
<1>7. (prev + delta) % EncMod = curr % EncMod
  BY <1>3, <1>4, SMT DEF EncMod, c
<1> QED
  BY <1>5, <1>6, <1>7 DEF delta
-----------------------------------------------------------------------------
\* Gravity in the robot's frame has the length it has in the world's: with the axes
\* exchanged and the sign turned, the driver's formula is still a rotation.  With
\* a quaternion that is not normalised the length is off by the same factor.
THEOREM GravityKeepsItsLength ==
  ASSUME NEW x \in Int, NEW y \in Int, NEW z \in Int, NEW w \in Int
  PROVE  LET unit == w * w + x * x + y * y + z * z
             g == ProjectedGravity([x |-> x, y |-> y, z |-> z, w |-> w], unit)
         IN  g.x * g.x + g.y * g.y + g.z * g.z = unit * unit
<1> DEFINE unit == w * w + x * x + y * y + z * z
           g == ProjectedGravity([x |-> x, y |-> y, z |-> z, w |-> w], unit)
<1>1. /\ g.x = -(2 * (w * x + z * y))
      /\ g.y = 2 * (w * y - z * x)
      /\ g.z = x * x + y * y - (w * w + z * z)
  BY SMT DEF ProjectedGravity
<1>2. (2 * (w * x + z * y)) * (2 * (w * x + z * y))
        + (2 * (w * y - z * x)) * (2 * (w * y - z * x))
        = 4 * ((x * x + y * y) * (w * w + z * z))
  BY SMT
<1>3. ASSUME NEW a \in Int, NEW b \in Int
      PROVE  4 * (a * b) + (a - b) * (a - b) = (a + b) * (a + b)
  BY SMT
<1>4. x * x + y * y \in Int /\ w * w + z * z \in Int
  BY SMT
<1>5. unit = (x * x + y * y) + (w * w + z * z)
  BY SMT
<1>6. g.x * g.x = (2 * (w * x + z * y)) * (2 * (w * x + z * y))
  BY <1>1, SMT
<1> QED
  BY <1>1, <1>2, <1>3, <1>4, <1>5, <1>6, SMT
-----------------------------------------------------------------------------
(***************************************************************************)
(* The programs that decode the same frames.                               *)
(***************************************************************************)
\* The dashboard rounds a half to the even neighbour and the driver away from zero,
\* so that the two may send different codes for the same command: never by more
\* than one.
THEOREM EncodersAreNeighbours ==
  ASSUME NEW lo \in Int, NEW hi \in Int, NEW x \in Int, NEW top \in Nat,
         lo < hi, RequireRange(x, lo, hi)
  PROVE  FloatToUint(x, lo, hi, top) - DashFloatToUint(x, lo, hi, top) \in -1 .. 1
<1> DEFINE d == hi - lo
           n == (x - lo) * top
           a == RoundHalfAwayFromZero(n, d)
           b == RoundHalfEven(n, d)
<1>1. d \in Nat \ {0} /\ n \in Int
  BY SMT
<1> HIDE DEF d, n
<1>2. a \in Int /\ 2 * (a * d - n) <= d /\ -d <= 2 * (a * d - n)
  BY <1>1, RoundIsNearest
<1>3. b \in Int /\ 2 * (b * d - n) <= d /\ -d <= 2 * (b * d - n)
  BY <1>1, RoundEvenIsNearest
<1> HIDE DEF a, b
<1>4. a - b \in -1 .. 1
  BY <1>1, <1>2, <1>3, NearestAreNeighbours
<1>5. FloatToUint(x, lo, hi, top) = a
  BY ClampNeverActs DEF a, d, n
<1>6. DashFloatToUint(x, lo, hi, top) = b
  BY DEF DashFloatToUint, b, d, n
<1> QED
  BY <1>4, <1>5, <1>6

\* A row of a monitor, and a frame as its decoders get it.
Kinds == {"none", "empty", "MIT_STATUS", "MIT_ENTER_ACK", "MIT_EXIT_ACK",
          "MIT_SET_ZERO_ACK", "CLEAR_ERROR_ACK", "OP"}
Hints == BOOLEAN \cup {None}
Counts == Int \cup {None}
MotorRow == [rx_count : Nat, last_t : Int, last_kind : Kinds, enabled_hint : Hints,
             temp_c : Counts, iq_count : Counts, speed_dps : Counts,
             position_i16 : Counts, zero_offset_count : Counts]
Frame == [is_eff : BOOLEAN, is_rtr : BOOLEAN, is_err : BOOLEAN,
          can_id : Nat, dlc : 0 .. 8, data : Payload]

LEMMA OpcodesDiffer ==
  /\ MitControl # MitEnter /\ MitControl # MitExit /\ MitControl # MitSetZero
  /\ MitControl # ClearErrorFlag /\ MitEnter # MitExit /\ MitEnter # MitSetZero
  /\ MitEnter # ClearErrorFlag /\ MitExit # MitSetZero /\ MitExit # ClearErrorFlag
  /\ MitSetZero # ClearErrorFlag
  BY SMT DEF MitControl, MitEnter, MitExit, MitSetZero, ClearErrorFlag

\* What the updates of a row leave alone.
LEMMA HeardKeepsHint ==
  ASSUME NEW row \in MotorRow, NEW now \in Int, NEW kind \in Kinds
  PROVE  /\ Heard(row, now, kind) \in MotorRow
         /\ Heard(row, now, kind).enabled_hint = row.enabled_hint
<1> DEFINE one == [row EXCEPT !.rx_count = row.rx_count + 1]
           two == [one EXCEPT !.last_t = now]
           three == [two EXCEPT !.last_kind = kind]
<1>1. row.rx_count + 1 \in Nat
  BY SMT DEF MotorRow
<1> DEFINE count == row.rx_count + 1
<1> HIDE DEF count
<1>2. [row EXCEPT !.rx_count = count] \in MotorRow
  BY <1>1 DEF MotorRow, count
<1>3. one \in MotorRow /\ one.enabled_hint = row.enabled_hint
  BY <1>2, SMT DEF count, MotorRow
<1> HIDE DEF one
<1>4. two \in MotorRow /\ two.enabled_hint = one.enabled_hint
  BY <1>3 DEF MotorRow
<1> HIDE DEF two
<1>5. three \in MotorRow /\ three.enabled_hint = two.enabled_hint
  BY <1>4 DEF MotorRow
<1>6. Heard(row, now, kind) = three
  BY DEF Heard, one, two, three
<1> HIDE DEF three
<1> QED
  BY <1>3, <1>4, <1>5, <1>6

LEMMA DataKeepsHint ==
  ASSUME NEW row \in MotorRow, NEW d
  PROVE  /\ DecodeSpgStatus(row, d).enabled_hint = row.enabled_hint
         /\ WithZeroOffset(row, d).enabled_hint = row.enabled_hint
  BY SMT DEF DecodeSpgStatus, WithZeroOffset, MotorRow

LEMMA HintIsSet ==
  ASSUME NEW row \in MotorRow, NEW b
  PROVE  WithHint(row, b).enabled_hint = b
  BY SMT DEF WithHint, MotorRow

LEMMA NamesAreKinds ==
  ASSUME NEW op
  PROVE  SpgOpcodeName(op) \in Kinds
  BY DEF SpgOpcodeName, Kinds

\* What the driver learns of motor mode from an acknowledgement the dashboard learns
\* too, from short frames and echoes as well, which the driver refuses; every other
\* frame leaves what was known.
THEOREM DashboardLearnsWhatTheDriverLearns ==
  ASSUME NEW row \in MotorRow, NEW frame \in Frame, NEW now \in Int, 1 <= frame.dlc
  PROVE  UpdateMotor(row, frame, now).enabled_hint
           = IF frame.data.b0 \in {MitEnter, MitExit, ClearErrorFlag}
             THEN AckEnabledHint(frame.data.b0) ELSE row.enabled_hint
<1> DEFINE op == frame.data.b0
           heard == Heard(row, now, SpgOpcodeName(op))
<1>1. ~(frame.dlc < 1)
  BY SMT DEF Frame
<1>2. heard \in MotorRow /\ heard.enabled_hint = row.enabled_hint
  BY HeardKeepsHint, NamesAreKinds
<1> HIDE DEF heard
<1>3. UpdateMotor(row, frame, now)
        = IF op = MitControl /\ frame.dlc = 8 THEN DecodeSpgStatus(heard, frame.data)
          ELSE IF op = MitEnter THEN WithHint(heard, TRUE)
          ELSE IF op \in {MitExit, ClearErrorFlag} THEN WithHint(heard, FALSE)
          ELSE IF op = MitSetZero /\ frame.dlc = 8 THEN WithZeroOffset(heard, frame.data)
          ELSE heard
  BY <1>1 DEF UpdateMotor, heard
<1>4. /\ DecodeSpgStatus(heard, frame.data).enabled_hint = row.enabled_hint
      /\ WithZeroOffset(heard, frame.data).enabled_hint = row.enabled_hint
      /\ WithHint(heard, TRUE).enabled_hint = TRUE
      /\ WithHint(heard, FALSE).enabled_hint = FALSE
  BY <1>2, DataKeepsHint, HintIsSet
<1> QED
  BY <1>2, <1>3, <1>4, OpcodesDiffer DEF AckEnabledHint

\* For frames of eight bytes, all the firmware sends, the dashboard and the tool write
\* the same row.  A shorter status is the exception: the dashboard gives it its
\* name, the tool its opcode.
THEOREM MonitorsAgree ==
  ASSUME NEW row \in MotorRow, NEW frame \in Frame, NEW now \in Int,
         frame.data.b0 # MitControl \/ frame.dlc = 8 \/ frame.dlc < 1
  PROVE  UpdateMotor(row, frame, now) = ToolDecodeSpgFrame(row, frame, now)
<1> DEFINE op == frame.data.b0
<1>1. CASE frame.dlc < 1
  BY <1>1 DEF UpdateMotor, ToolDecodeSpgFrame
<1>2. CASE ~(frame.dlc < 1) /\ op = MitControl
  BY <1>2 DEF UpdateMotor, ToolDecodeSpgFrame, SpgOpcodeName
<1>3. CASE ~(frame.dlc < 1) /\ op \in {MitEnter, MitExit, MitSetZero, ClearErrorFlag}
  BY <1>3, OpcodesDiffer DEF UpdateMotor, ToolDecodeSpgFrame, SpgOpcodeName
<1>4. CASE /\ ~(frame.dlc < 1)
           /\ op \notin {MitControl, MitEnter, MitExit, MitSetZero, ClearErrorFlag}
  BY <1>4 DEF UpdateMotor, ToolDecodeSpgFrame, SpgOpcodeName
<1> QED
  BY <1>1, <1>2, <1>3, <1>4

\* The orientation the dashboard shows is the one the driver publishes.
THEOREM DashboardSeesTheSamePose ==
  ASSUME NEW d \in Payload
  PROVE  DashDecodeQuat(d) = DecodeQuat(d) /\ DashDecodeGyro(d) = DecodeGyro(d)
  BY SMT DEF DashDecodeQuat, DecodeQuat, DashDecodeGyro, DecodeGyro
-----------------------------------------------------------------------------
(***************************************************************************)
(* The joystick reader and the task controller.                            *)
(***************************************************************************)
\* A policy: the range of an action, the indices, and the joints they are about.
Policies ==
  [num_joint : Nat, action_clip : Nat, action_scale : Nat, max_control_targets : Nat,
   input : [Nat -> Nat], output : [Nat -> Nat], default_joint_angle : [Nat -> Int],
   obs_type : {0, 1}]

LEMMA ClipStaysWithin ==
  ASSUME NEW x \in Int, NEW bound \in Nat
  PROVE  Clip(x, -bound, bound) \in Int
         /\ -bound <= Clip(x, -bound, bound) /\ Clip(x, -bound, bound) <= bound
  BY SMT DEF Clip

LEMMA IndicesOfSequence ==
  ASSUME NEW S, NEW s \in Seq(S), NEW i \in DOMAIN s
  PROVE  Len(s) \in Nat /\ i \in Nat /\ 1 <= i /\ i <= Len(s)
  BY SMT

LEMMA CountedFromZero ==
  ASSUME NEW i \in Nat, NEW n \in Nat, NEW m \in Nat, 1 <= i, i <= n, n <= m
  PROVE  i - 1 \in 0 .. m - 1 /\ i - 1 \in Nat
  BY SMT

\* The gravity that the driver of the IMU publishes is not the one the policy computes
\* from the published quaternion: the driver corrects the convention of the sensor by
\* exchanging x and y, as it does with the angular rates, policy_runner.py does not.
THEOREM PolicyGravityIsUncorrected ==
  ASSUME NEW x \in Int, NEW y \in Int, NEW z \in Int, NEW w \in Int,
         LengthSquared([x |-> x, y |-> y, z |-> z, w |-> w]) # 0
  PROVE  LET q == [x |-> x, y |-> y, z |-> z, w |-> w]
             driver == ProjectedGravity(q, LengthSquared(q))
             policy == QuatToProjectedGravity(q)
         IN  policy.x = driver.y /\ policy.y = driver.x /\ policy.z = driver.z
<1> DEFINE q == [x |-> x, y |-> y, z |-> z, w |-> w]
           unit == LengthSquared(q)
<1>1. QuatToProjectedGravity(q)
        = [x |-> -(2 * (x * z - y * w)), y |-> -(2 * (y * z + x * w)),
           z |-> -(unit - 2 * (x * x + y * y))]
  BY Zenon DEF QuatToProjectedGravity
<1>2. ProjectedGravity(q, unit)
        = [x |-> -(w * (2 * x)) + z * (-2 * y), y |-> -(w * (-2 * y)) - z * (2 * x),
           z |-> -unit + x * (2 * x) - y * (-2 * y)]
  BY Zenon DEF ProjectedGravity
<1>3. unit \in Int
  BY SMT DEF LengthSquared
<1> HIDE DEF unit, q
<1>4. -(2 * (x * z - y * w)) = -(w * (-2 * y)) - z * (2 * x)
  BY SMT
<1>5. -(2 * (y * z + x * w)) = -(w * (2 * x)) + z * (-2 * y)
  BY SMT
<1>6. -(unit - 2 * (x * x + y * y)) = -unit + x * (2 * x) - y * (-2 * y)
  BY <1>3, SMT
<1>7. QuatToProjectedGravity(q).x = ProjectedGravity(q, unit).y
  BY <1>1, <1>2, <1>4
<1>8. QuatToProjectedGravity(q).y = ProjectedGravity(q, unit).x
  BY <1>1, <1>2, <1>5
<1>9. QuatToProjectedGravity(q).z = ProjectedGravity(q, unit).z
  BY <1>1, <1>2, <1>6
<1> QED
  BY <1>7, <1>8, <1>9 DEF q, unit
-----------------------------------------------------------------------------
\* The target of a joint is within clip * scale of its default angle, whatever the
\* network answers, and is the default itself while the button is not held.
THEOREM TargetWithinReach ==
  ASSUME NEW cfg \in Policies, NEW p, NEW raw \in [Nat -> Int], NEW mode \in BOOLEAN,
         NEW j \in Joints(cfg), cfg.output[j] \in Joints(cfg)
  PROVE  LET q == QTarget(cfg, ComputeAction(cfg, p, raw).scaled, mode)
             reach == cfg.action_clip * cfg.action_scale
         IN  /\ q[j] \in Int
             /\ cfg.default_joint_angle[j] - reach <= q[j]
             /\ q[j] <= cfg.default_joint_angle[j] + reach
             /\ ~mode => q[j] = cfg.default_joint_angle[j]
<1> DEFINE k == cfg.output[j]
           a == Clip(raw[k], -cfg.action_clip, cfg.action_clip)
           reach == cfg.action_clip * cfg.action_scale
           q == QTarget(cfg, ComputeAction(cfg, p, raw).scaled, mode)
<1>1. /\ cfg.action_clip \in Nat /\ cfg.action_scale \in Nat /\ cfg.num_joint \in Nat
      /\ cfg.default_joint_angle \in [Nat -> Int]
  BY DEF Policies
<1>2. j \in Nat /\ k \in Nat
  BY <1>1, SMT DEF Joints
<1>3. raw[k] \in Int /\ cfg.default_joint_angle[j] \in Int
  BY <1>1, <1>2
<1>4. a \in Int /\ -cfg.action_clip <= a /\ a <= cfg.action_clip
  BY <1>1, <1>3, ClipStaysWithin
<1>5. ComputeAction(cfg, p, raw).scaled[j] = a * cfg.action_scale
  BY DEF ComputeAction
<1>6. q[j] = (IF mode THEN a * cfg.action_scale ELSE 0) + cfg.default_joint_angle[j]
  BY <1>5 DEF QTarget, ActionOffset
<1> HIDE DEF a, q
<1> DEFINE s == cfg.action_scale
           c == cfg.action_clip
<1>7. s \in Nat /\ c \in Nat /\ -c <= a /\ a <= c
  BY <1>1, <1>4
<1> HIDE DEF s, c
<1>8. a * s \in Int /\ -(c * s) <= a * s /\ a * s <= c * s /\ c * s \in Nat
  BY <1>4, <1>7, SMT
<1>9. reach = c * s /\ q[j] = (IF mode THEN a * s ELSE 0) + cfg.default_joint_angle[j]
  BY <1>6 DEF c, s
<1> QED
  BY <1>3, <1>8, <1>9, SMT DEF q

\* The limits of the encoder, and the answers of the network at the two ends of the clip.
MitLimits(p_max, v_max, kp_max, kd_max, tau_max) ==
  [p_max |-> p_max, v_max |-> v_max, kp_max |-> kp_max, kd_max |-> kd_max,
   tau_max |-> tau_max]
Extreme(a) == [k \in Nat |-> a]

LEMMA TargetOfCommand ==
  ASSUME NEW cfg \in Policies, NEW q, NEW ids \in Seq(Nat), NEW i \in DOMAIN ids,
         Len(ids) <= cfg.max_control_targets, Len(ids) <= cfg.num_joint,
         NEW kp \in Nat, NEW kd \in Nat, NEW p_max \in Nat, NEW v_max \in Nat,
         NEW kp_max \in Nat, NEW kd_max \in Nat, NEW tau_max \in Nat,
         kp <= kp_max, kd <= kd_max
  PROVE  LET command == BuildControlCommand(cfg, ids, q, kp, kd)
         IN  /\ i - 1 \in Joints(cfg) /\ i - 1 \in Nat
             /\ command[i].can_id = ids[i]
             /\ WithinLimits(MitLimits(p_max, v_max, kp_max, kd_max, tau_max), command[i])
                  <=> (-p_max <= q[i - 1] /\ q[i - 1] <= p_max)
<1> DEFINE command == BuildControlCommand(cfg, ids, q, kp, kd)
           n == Len(ids)
           joints == cfg.num_joint
           capacity == cfg.max_control_targets
<1>1. joints \in Nat /\ capacity \in Nat
  BY DEF Policies
<1>2. i \in Nat /\ 1 <= i /\ i <= n /\ n \in Nat
  BY IndicesOfSequence
<1>3. n <= joints /\ n <= capacity
  OBVIOUS
<1> HIDE DEF n, joints, capacity
<1>4. i - 1 \in 0 .. joints - 1 /\ i - 1 \in Nat
  BY <1>1, <1>2, <1>3, CountedFromZero
<1>5. ~(n > capacity)
  BY <1>1, <1>2, <1>3, SMT
<1>6. command[i] = [can_id |-> ids[i], position |-> q[i - 1], velocity |-> 0,
                    kp |-> kp, kd |-> kd, torque |-> 0]
  BY <1>5, Zenon DEF BuildControlCommand, n, capacity
<1> HIDE DEF command
<1>7. command[i].can_id = ids[i]
  BY <1>6
<1>8. WithinLimits(MitLimits(p_max, v_max, kp_max, kd_max, tau_max), command[i])
        <=> (-p_max <= q[i - 1] /\ q[i - 1] <= p_max)
  BY <1>6, SMT DEF WithinLimits, RequireRange, MitLimits
<1> QED
  BY <1>4, <1>7, <1>8 DEF Joints, joints, command

\* Which policies can end the control loop by a target: PackMitPayload raises exactly if
\* WithinLimits does not hold, and every answer of the network is encodable exactly if
\* the whole reach of every commanded joint lies in the range of the motors. The code
\* never compares the two: a policy that reaches further has an answer that is refused.
THEOREM EncodableExactlyWithinRange ==
  ASSUME NEW cfg \in Policies, NEW p, NEW ids \in Seq(Nat),
         Len(ids) <= cfg.max_control_targets, Len(ids) <= cfg.num_joint,
         \A j \in Joints(cfg) : cfg.output[j] \in Joints(cfg),
         NEW kp \in Nat, NEW kd \in Nat, NEW p_max \in Nat, NEW v_max \in Nat,
         NEW kp_max \in Nat, NEW kd_max \in Nat, NEW tau_max \in Nat,
         kp <= kp_max, kd <= kd_max
  PROVE  LET reach == cfg.action_clip * cfg.action_scale
             limits == MitLimits(p_max, v_max, kp_max, kd_max, tau_max)
             Command(raw) ==
               BuildControlCommand(cfg, ids,
                 QTarget(cfg, ComputeAction(cfg, p, raw).scaled, TRUE), kp, kd)
         IN  (\A raw \in [Nat -> Int] : \A i \in DOMAIN ids :
                 WithinLimits(limits, Command(raw)[i]))
             <=> (\A i \in DOMAIN ids :
                     /\ -p_max <= cfg.default_joint_angle[i - 1] - reach
                     /\ cfg.default_joint_angle[i - 1] + reach <= p_max)
<1> DEFINE clip == cfg.action_clip
           scale == cfg.action_scale
           reach == cfg.action_clip * cfg.action_scale
           limits == MitLimits(p_max, v_max, kp_max, kd_max, tau_max)
           Q(raw) == QTarget(cfg, ComputeAction(cfg, p, raw).scaled, TRUE)
           Command(raw) == BuildControlCommand(cfg, ids, Q(raw), kp, kd)
           default(i) == cfg.default_joint_angle[i - 1]
<1>1. /\ clip \in Nat /\ scale \in Nat
      /\ cfg.default_joint_angle \in [Nat -> Int]
  BY DEF Policies
<1>2. reach \in Int
  <2> HIDE DEF clip, scale
  <2>1. clip * scale \in Int
    BY <1>1, SMT
  <2> QED
    BY <2>1 DEF clip, scale
<1>3. ASSUME NEW i \in DOMAIN ids
      PROVE  /\ i - 1 \in Joints(cfg) /\ i - 1 \in Nat
             /\ default(i) \in Int
  BY <1>1, TargetOfCommand
<1>4. ASSUME NEW i \in DOMAIN ids, NEW raw
      PROVE  WithinLimits(limits, Command(raw)[i])
               <=> (-p_max <= Q(raw)[i - 1] /\ Q(raw)[i - 1] <= p_max)
  BY TargetOfCommand
<1>5. ASSUME NEW i \in DOMAIN ids, NEW raw \in [Nat -> Int]
      PROVE  /\ Q(raw)[i - 1] \in Int
             /\ default(i) - reach <= Q(raw)[i - 1]
             /\ Q(raw)[i - 1] <= default(i) + reach
  BY <1>3, TargetWithinReach
<1>6. ASSUME NEW i \in DOMAIN ids, NEW a \in {clip, -clip}
      PROVE  Extreme(a) \in [Nat -> Int] /\ Q(Extreme(a))[i - 1] = a * scale + default(i)
  <2> DEFINE k == cfg.output[i - 1]
  <2>1. a \in Int /\ Clip(a, -clip, clip) = a
    BY <1>1, SMT DEF Clip
  <2>2. k \in Joints(cfg) /\ k \in Nat
    <3>1. cfg.output \in [Nat -> Nat]
      BY DEF Policies
    <3> QED
      BY <1>3, <3>1
  <2>3. Extreme(a) \in [Nat -> Int] /\ Extreme(a)[k] = a
    BY <2>1, <2>2 DEF Extreme
  <2>4. ComputeAction(cfg, p, Extreme(a)).scaled[i - 1]
          = Clip(Extreme(a)[k], -clip, clip) * scale
    BY <1>3, <2>2 DEF ComputeAction
  <2> QED
    BY <1>3, <2>1, <2>3, <2>4 DEF QTarget, ActionOffset
<1> HIDE DEF Q, Command, limits
<1>7. ASSUME \A raw \in [Nat -> Int] : \A i \in DOMAIN ids :
                WithinLimits(limits, Command(raw)[i]),
             NEW i \in DOMAIN ids
      PROVE  -p_max <= default(i) - reach /\ default(i) + reach <= p_max
  <2>0. \A a \in {clip, -clip} :
          /\ -p_max <= Q(Extreme(a))[i - 1] /\ Q(Extreme(a))[i - 1] <= p_max
          /\ Q(Extreme(a))[i - 1] = a * scale + default(i)
    BY <1>4, <1>6, <1>7
  <2>1. clip * scale + default(i) <= p_max
    BY <2>0
  <2>2. -p_max <= (-clip) * scale + default(i)
    BY <2>0
  <2>3. (-clip) * scale = -(clip * scale)
    <3> HIDE DEF clip, scale
    <3> QED
      BY <1>1, SMT
  <2>4. clip * scale = reach
    OBVIOUS
  <2> HIDE DEF clip, scale, reach, default
  <2>5. default(i) \in Int
    BY <1>3
  <2> QED
    BY <1>2, <2>1, <2>2, <2>3, <2>4, <2>5, SMT
<1>8. ASSUME \A i \in DOMAIN ids :
               -p_max <= default(i) - reach /\ default(i) + reach <= p_max,
             NEW raw \in [Nat -> Int], NEW i \in DOMAIN ids
      PROVE  WithinLimits(limits, Command(raw)[i])
  <2>1. default(i) \in Int
    BY <1>3
  <2>2. -p_max <= default(i) - reach /\ default(i) + reach <= p_max
    BY <1>8
  <2> DEFINE x == Q(raw)[i - 1]
  <2>3. x \in Int /\ default(i) - reach <= x /\ x <= default(i) + reach
    BY <1>5
  <2>4. WithinLimits(limits, Command(raw)[i]) <=> (-p_max <= x /\ x <= p_max)
    BY <1>4
  <2> HIDE DEF default, reach, x
  <2>5. -p_max <= x /\ x <= p_max
    BY <1>2, <2>1, <2>2, <2>3, SMT
  <2> QED
    BY <2>4, <2>5
<1> QED
  BY <1>7, <1>8 DEF Command, Q, limits

\* The joint whose position the policy sees as its own number k is the one its action k
\* moves, if the conversion of the configuration leads back; the code does not check it.
THEOREM ActionReachesItsJoint ==
  ASSUME NEW cfg \in Policies, NEW p, NEW raw \in [Nat -> Int], NEW pos \in [Nat -> Int],
         NEW vel, NEW quat, NEW gyro,
         NEW k \in Joints(cfg), cfg.input[k] \in Joints(cfg), cfg.output[cfg.input[k]] = k
  PROVE  LET done == ComputeAction(cfg, p, raw)
             j == cfg.input[k]
         IN  /\ SetState(cfg, pos, vel, quat, gyro).dof_pos[k] = pos[j]
             /\ QTarget(cfg, done.scaled, TRUE)[j]
                  = done.policy.actions[k] * cfg.action_scale + cfg.default_joint_angle[j]
<1>1. SetState(cfg, pos, vel, quat, gyro).dof_pos[k] = pos[cfg.input[k]]
  BY DEF SetState
<1>2. ComputeAction(cfg, p, raw).scaled[cfg.input[k]]
        = ComputeAction(cfg, p, raw).policy.actions[k] * cfg.action_scale
  BY DEF ComputeAction
<1> QED
  BY <1>1, <1>2 DEF QTarget, ActionOffset

\* After a call "actions" and "last_actions" show the policy the same: the action of
\* the call before; the histories behind them are two and three calls old.
THEOREM HistoryOfActions ==
  ASSUME NEW cfg, NEW p, NEW raw, NEW raw2, NEW s, NEW c, NEW mode
  PROVE  LET p1 == ComputeAction(cfg, p, raw).policy
             p2 == ComputeAction(cfg, p1, raw2).policy
         IN  /\ Observation(p2, s, c, mode, "actions")
                  = Observation(p2, s, c, mode, "last_actions")
             /\ Observation(p2, s, c, mode, "last_last_actions")
                  = Observation(p1, s, c, mode, "last_actions")
             /\ Observation(p2, s, c, mode, "last_last_last_actions") = p.last_actions
<1> DEFINE p1 == ComputeAction(cfg, p, raw).policy
           p2 == ComputeAction(cfg, p1, raw2).policy
<1>1. \A r, name : name \in {"actions", "last_actions", "last_last_actions",
                             "last_last_last_actions"}
                     => Observation(r, s, c, mode, name) = r[name]
  BY SMT DEF Observation
<1>2. /\ p1.last_last_actions = p.last_actions /\ p2.actions = p2.last_actions
      /\ p2.last_last_actions = p1.last_actions
      /\ p2.last_last_last_actions = p1.last_last_actions
  BY DEF ComputeAction
<1> HIDE DEF p1, p2
<1>3. /\ Observation(p2, s, c, mode, "actions") = p2.actions
      /\ Observation(p2, s, c, mode, "last_actions") = p2.last_actions
      /\ Observation(p2, s, c, mode, "last_last_actions") = p2.last_last_actions
      /\ Observation(p2, s, c, mode, "last_last_last_actions") = p2.last_last_last_actions
      /\ Observation(p1, s, c, mode, "last_actions") = p1.last_actions
  BY <1>1
<1> QED
  BY <1>2, <1>3 DEF p1, p2
-----------------------------------------------------------------------------
\* Whatever the joystick reports, also -32768, the targets stay within one and a stick
\* that is let go, within a twentieth of its range, commands nothing.
THEOREM TargetsWithinOne ==
  ASSUME NEW axes \in [ControlsRange -> Int]
  PROVE  LET t == AxisTargets([i \in ControlsRange |-> AxisValue(axes[i])])
         IN  /\ \A n \in {t.lin_x, t.lin_y, t.ang_z} : -AxisMax <= n /\ n <= AxisMax
             /\ (\A i \in ControlsRange : -1638 <= axes[i] /\ axes[i] <= 1638)
                  => t = [lin_x |-> 0, lin_y |-> 0, ang_z |-> 0]
<1> DEFINE v == [i \in ControlsRange |-> AxisValue(axes[i])]
           t == AxisTargets(v)
<1>1. ASSUME NEW n \in Int
      PROVE  /\ -AxisMax <= -Deadband(AxisValue(n)) /\ -Deadband(AxisValue(n)) <= AxisMax
             /\ -1638 <= n /\ n <= 1638 => -Deadband(AxisValue(n)) = 0
  <2> DEFINE m == AxisValue(n)
  <2>1. m \in Int /\ -32767 <= m /\ m <= 32767
        /\ (-1638 <= n /\ n <= 1638 => m = n)
    BY SMT DEF AxisValue, Clip, AxisMax
  <2> HIDE DEF m
  <2>2. Deadband(m) = m \/ Deadband(m) = 0
    BY DEF Deadband
  <2>3. -1638 <= m /\ m <= 1638 => -32767 < 20 * m /\ 20 * m < 32767
    BY <2>1, SMT
  <2>4. -1638 <= m /\ m <= 1638 => Deadband(m) = 0
    BY <2>3 DEF Deadband, AxisMax
  <2>5. -Deadband(m) \in Int /\ -32767 <= -Deadband(m) /\ -Deadband(m) <= 32767
    BY <2>1, <2>2, SMT
  <2>6. -AxisMax <= -Deadband(m) /\ -Deadband(m) <= AxisMax
    BY <2>5, SMT DEF AxisMax
  <2> QED
    BY <2>1, <2>4, <2>6, SMT DEF m
<1>2. 0 \in ControlsRange /\ 1 \in ControlsRange /\ 3 \in ControlsRange
  BY SMT DEF ControlsRange
<1>3. t = [lin_x |-> -Deadband(AxisValue(axes[1])), lin_y |-> -Deadband(AxisValue(axes[0])),
           ang_z |-> -Deadband(AxisValue(axes[3]))]
  BY <1>2 DEF AxisTargets
<1>4. axes[0] \in Int /\ axes[1] \in Int /\ axes[3] \in Int
  BY <1>2
<1> HIDE DEF t
<1>5. \A n \in {t.lin_x, t.lin_y, t.ang_z} : -AxisMax <= n /\ n <= AxisMax
  BY <1>1, <1>3, <1>4
<1>6. ASSUME \A i \in ControlsRange : -1638 <= axes[i] /\ axes[i] <= 1638
      PROVE  t = [lin_x |-> 0, lin_y |-> 0, ang_z |-> 0]
  BY <1>1, <1>2, <1>3, <1>4, <1>6
<1> QED
  BY <1>5, <1>6 DEF t
=============================================================================
