--------------------------- MODULE MotorAuthority ---------------------------
(***************************************************************************)
(* What the robot controller promises, seen from the motors: what each one *)
(* was last told, and the authority under which it was told.  No mailbox,  *)
(* no clock, no control loop.                                              *)
(*                                                                         *)
(*  - motors are driven by the policy only under the authority "drive",    *)
(*    granted only once every motor has been told to hold (damping);       *)
(*  - an emergency stop can be raised at any time; it is cleared only once *)
(*    every motor has been told to switch off;                             *)
(*  - after the controller has halted, motors are only told to switch off. *)
(***************************************************************************)
CONSTANT Actuators

VARIABLES authority,  \* what the controller may currently tell the motors
          told,       \* the last thing each motor was told
          halted      \* the controller has left its control loop for good

vars == <<authority, told, halted>>

Authorities == {"off", "arm", "zero", "hold", "drive", "latched"}
Frames == {"NONE", "DISABLE", "ENABLE", "ZERO_SET", "DAMPING", "POLICY"}

FrameUnder(auth) ==
  IF auth = "arm" THEN "ENABLE"
  ELSE IF auth = "zero" THEN "ZERO_SET"
  ELSE IF auth = "hold" THEN "DAMPING"
  ELSE IF auth = "drive" THEN "POLICY"
  ELSE "DISABLE"

AllTold(frame) == \A a \in Actuators : told[a] = frame

TypeOK ==
  /\ authority \in Authorities
  /\ told \in [Actuators -> Frames]
  /\ halted \in BOOLEAN
-----------------------------------------------------------------------------
Init ==
  /\ authority = "off"
  /\ told = [a \in Actuators |-> "NONE"]
  /\ halted = FALSE

\* The operator changes what the motors may be told.
Grant(auth) ==
  /\ ~halted
  /\ authority # "latched"
  /\ auth = "drive" => authority = "hold" /\ AllTold("DAMPING")
  /\ authority' = auth
  /\ UNCHANGED <<told, halted>>

\* The emergency stop is cleared.
Clear ==
  /\ ~halted
  /\ authority = "latched"
  /\ AllTold("DISABLE")
  /\ authority' = "off"
  /\ UNCHANGED <<told, halted>>

Tell(a) ==
  /\ ~halted
  /\ told' = [told EXCEPT ![a] = FrameUnder(authority)]
  /\ UNCHANGED <<authority, halted>>

Halt ==
  /\ ~halted
  /\ halted' = TRUE
  /\ UNCHANGED <<authority, told>>

SwitchOff(a) ==
  /\ halted
  /\ told' = [told EXCEPT ![a] = "DISABLE"]
  /\ UNCHANGED <<authority, halted>>

Next ==
  \/ \E auth \in Authorities : Grant(auth)
  \/ Clear
  \/ \E a \in Actuators : Tell(a) \/ SwitchOff(a)
  \/ Halt

Spec == Init /\ [][Next]_vars
=============================================================================
