--------------------------- MODULE MCMotorSystem ---------------------------
(* Instances of MotorSystem for TLC. *)
EXTENDS MotorSystem

Plain(word) == [code |-> word, count |-> 0, magic |-> FALSE,
                targets |-> [i \in Slots |-> 0]]

OneActuator == {321}

\* Arming, driving and the emergency stop, through a zero-set and through
\* damping on command.
DrivingCommands ==
  {Plain(word) : word \in {"ENABLE", "DAMPING", "RUN", "ZERO_SET", "ESTOP"}}

DrivingPolicy == {{}, {321}}

WholeCommand == {Fields}
=============================================================================
