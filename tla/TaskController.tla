--------------------------- MODULE TaskController ---------------------------
(***************************************************************************)
(* The two processes that turn the operator's wishes into motor commands,  *)
(* as pure operators: aux_reader (the joystick) and task_controller with   *)
(* policy_runner.py.  Inference itself is external: its output is an       *)
(* argument.                                                               *)
(*                                                                         *)
(* Quantities are integers in small units, as in SpgProtocol; an axis is   *)
(* the numerator of n / 32767.  Joints are numbered from 0, in the order   *)
(* of the configured CAN ids; the policy has an order of its own.          *)
(***************************************************************************)
EXTENDS SpgProtocol, Sequences

Clip(x, lo, hi) == IF x < lo THEN lo ELSE IF x > hi THEN hi ELSE x
-----------------------------------------------------------------------------
(***************************************************************************)
(* The joystick.                                                           *)
(***************************************************************************)
AxisMax == 32767
AxisValue(value) == Clip(value, -AxisMax, AxisMax)

\* A twentieth of the range around the middle counts as the middle.
Deadband(n) == IF -AxisMax < 20 * n /\ 20 * n < AxisMax THEN 0 ELSE n

\* Every axis that is used is inverted.
AxisTargets(axes) ==
  [lin_x |-> -Deadband(axes[1]), lin_y |-> -Deadband(axes[0]),
   ang_z |-> -Deadband(axes[3])]

ButtonFields == 0 .. 10
ButtonsToMask(pressed) ==
  LET sum[i \in 0 .. 11] ==
        IF i = 0 THEN 0 ELSE sum[i - 1] + (IF i - 1 \in pressed THEN 2 ^ (i - 1) ELSE 0)
  IN  sum[11]
MaskToButtons(mask) == {i \in ButtonFields : (mask \div 2 ^ i) % 2 = 1}

\* stick has the 32 axes and the set of pressed buttons.
ControlsRange == 0 .. 31
Publish(stick) ==
  [targets |-> AxisTargets(stick.axes),
   button_mask |-> ButtonsToMask(stick.buttons \cap ButtonFields)]

\* Events of the start of the device count like any other.
OnEvent(stick, type, number, value) ==
  IF number \notin ControlsRange THEN stick
  ELSE CASE type = "axis" -> [stick EXCEPT !.axes[number] = AxisValue(value)]
         [] type = "button" ->
              [stick EXCEPT !.buttons = IF value = 0 THEN @ \ {number} ELSE @ \cup {number}]
         [] OTHER -> stick
-----------------------------------------------------------------------------
(***************************************************************************)
(* The policy.  cfg has the number of joints, the two index conversions,   *)
(* the default angles in the robot's order, scale and clip of an action,   *)
(* and obs_type.                                                           *)
(***************************************************************************)
Joints(cfg) == 0 .. cfg.num_joint - 1

LengthSquared(q) == q.w * q.w + q.x * q.x + q.y * q.y + q.z * q.z

\* The rotation of the quaternion, transposed, applied to (0, 0, -1), in units of the
\* square of its length; a length of zero raises.
QuatToProjectedGravity(q) ==
  IF LengthSquared(q) = 0 THEN Error
  ELSE [x |-> -(2 * (q.x * q.z - q.y * q.w)),
        y |-> -(2 * (q.y * q.z + q.x * q.w)),
        z |-> -(LengthSquared(q) - 2 * (q.x * q.x + q.y * q.y))]

NoActions(cfg) == [k \in Joints(cfg) |-> 0]

\* What a policy remembers from one call to the next.
NewPolicy(cfg) ==
  [actions |-> NoActions(cfg), last_actions |-> NoActions(cfg),
   last_last_actions |-> NoActions(cfg), last_last_last_actions |-> NoActions(cfg)]

DefaultJointAngle(cfg, k) == cfg.default_joint_angle[cfg.input[k]]

SetState(cfg, pos, vel, quat, gyro) ==
  [dof_pos |-> [k \in Joints(cfg) |-> pos[cfg.input[k]]],
   dof_vel |-> [k \in Joints(cfg) |-> vel[cfg.input[k]]],
   delta_dof_pos |-> [k \in Joints(cfg) |->
      pos[cfg.input[k]] - (IF cfg.obs_type = 1 THEN 0 ELSE DefaultJointAngle(cfg, k))],
   projected_gravity |-> QuatToProjectedGravity(quat), base_ang_vel |-> gyro]

\* What each component shows of the policy's memory p, the state s as SetState has it,
\* the joystick's targets c and the mode; scales are left out, alpha and beta are in
\* units of gravity.
Observation(p, s, c, mode, component) ==
  LET Share(g) == IF g > 0 THEN 0 ELSE -g
  IN  CASE component \in {"actions", "last_actions", "last_last_actions",
                          "last_last_last_actions"} -> p[component]
        [] component \in {"dof_pos", "dof_vel", "delta_dof_pos", "projected_gravity"} ->
             s[component]
        [] component = "base_ang_vel_" -> s.base_ang_vel
        [] component = "lin_vel_x_commands_" -> c.lin_x
        [] component = "lin_vel_y_commands_" -> c.lin_y
        [] component = "ang_vel_z_commands_" -> c.ang_z
        [] component = "alpha" -> Share(s.projected_gravity.z)
        [] component = "beta" -> IF mode THEN Share(s.projected_gravity.x) ELSE 0
        [] component = "mode" -> mode
        [] OTHER -> Error

\* raw is what the network has answered to the observation.
ComputeAction(cfg, p, raw) ==
  LET a == [k \in Joints(cfg) |-> Clip(raw[k], -cfg.action_clip, cfg.action_clip)]
  IN  [policy |-> [actions |-> a, last_actions |-> a,
                   last_last_actions |-> p.last_actions,
                   last_last_last_actions |-> p.last_last_actions],
       scaled |-> [j \in Joints(cfg) |-> a[cfg.output[j]] * cfg.action_scale]]

ActionOffset(cfg) == [j \in Joints(cfg) |-> cfg.default_joint_angle[j]]

\* The network runs all the time; its actions count while the button is held.
QTarget(cfg, scaled, mode) ==
  [j \in Joints(cfg) |-> (IF mode THEN scaled[j] ELSE 0) + ActionOffset(cfg)[j]]
-----------------------------------------------------------------------------
(***************************************************************************)
(* The loop of task_controller.                                            *)
(***************************************************************************)
\* ids is the sequence of the configured CAN ids.
Observed(cfg, ids, state) ==
  SetState(cfg, [j \in Joints(cfg) |-> state.actuators[ids[j + 1]].position],
           [j \in Joints(cfg) |-> state.actuators[ids[j + 1]].velocity],
           state.quat, state.gyro)

BuildControlCommand(cfg, ids, q, kp, kd) ==
  IF Len(ids) > cfg.max_control_targets THEN Error
  ELSE [i \in DOMAIN ids |-> [can_id |-> ids[i], position |-> q[i - 1], velocity |-> 0,
                              kp |-> kp, kd |-> kd, torque |-> 0]]

\* One round, where raw is the answer to Observation of Observed: a state without a
\* timestamp is waited for, one that lacks a configured joint ends the process, as does
\* a quaternion without a length.
Round(cfg, ids, p, state, aux, raw, kp, kd) ==
  LET mode == 0 \in MaskToButtons(aux.button_mask)
      done == ComputeAction(cfg, p, raw)
  IN  IF state.timestamp_ns = 0 THEN [policy |-> p, command |-> None]
      ELSE IF (\E i \in DOMAIN ids : ids[i] \notin DOMAIN state.actuators)
              \/ LengthSquared(state.quat) = 0
           THEN [policy |-> p, command |-> Error]
      ELSE [policy |-> done.policy,
            command |-> BuildControlCommand(cfg, ids, QTarget(cfg, done.scaled, mode), kp, kd)]
=============================================================================
