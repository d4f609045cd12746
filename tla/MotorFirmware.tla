--------------------------- MODULE MotorFirmware ---------------------------
(***************************************************************************)
(* What a motor does with the frames it is sent: spg_firmware.cc, and the  *)
(* part of mujoco_can_bridge.cc that keeps the command of each actuator    *)
(* and turns it into torque.  Pure operators; MotorSystem holds the state. *)
(*                                                                         *)
(* The last accepted command is latched and applied in every simulation    *)
(* step until another frame replaces it: there is no timeout.  The frames  *)
(* are those of RobotController; clear-error is never sent, and fault_ is  *)
(* never set.                                                              *)
(*                                                                         *)
(* The hold after a zero-set ends at a simulated time.  That time stands   *)
(* still while the simulator is paused, runs slower than the controller's, *)
(* and is set back by a Reset, which brings a hold that was over back.     *)
(***************************************************************************)
\* No command since the reset, zero torque after Enter Motor Mode, disabled
\* after Exit Motor Mode, or an impedance command.
Latched == {"none", "free", "off", "DAMPING", "POLICY"}

\* hold: how ignore_control_until_time_ of the last zero-set lies to the simulated time.
Motor == [enabled: BOOLEAN, latched: Latched, hold: {"never", "running", "over"}]

MotorReset ==
  [enabled |-> FALSE, latched |-> "none", hold |-> "never"]

EnterMotorMode(m) ==
  [enabled |-> TRUE, latched |-> "free", hold |-> m.hold]

ExitMotorMode_KeepsCommand(m) ==
  [enabled |-> FALSE, latched |-> m.latched, hold |-> m.hold]

ExitMotorMode(m) ==
  [enabled |-> FALSE, latched |-> "off", hold |-> m.hold]

SetZeroPosition(m) ==
  [enabled |-> m.enabled, latched |-> m.latched, hold |-> "running"]

\* Control frames are ignored just after a zero-set, and outside motor mode.
Discards(m, frame) == frame \in {"DAMPING", "POLICY"} /\ m.hold = "running"

MitControl(m, frame) ==
  IF Discards(m, frame) \/ ~m.enabled THEN m
  ELSE [enabled |-> TRUE, latched |-> frame, hold |-> m.hold]

OnCanFrame(m, frame) ==
  IF frame = "ENABLE" THEN EnterMotorMode(m)
  ELSE IF frame = "DISABLE" THEN ExitMotorMode(m)
  ELSE IF frame = "ZERO_SET" THEN SetZeroPosition(m)
  ELSE MitControl(m, frame)

\* The simulated time passes the end of the hold, or is set back before it.
HoldEnds(m) == [m EXCEPT !.hold = IF @ = "running" THEN "over" ELSE @]

HoldReturns(m) == [m EXCEPT !.hold = IF @ = "over" THEN "running" ELSE @]

\* The latched command, not enabled_, decides what is applied.
AppliesTorque(m) == m.latched \in {"DAMPING", "POLICY"}
=============================================================================
