------------------------- MODULE MCRobotController -------------------------
(* Instances of RobotController for TLC. *)
EXTENDS RobotController

Plain(word) == [code |-> word, count |-> 0, magic |-> FALSE,
                targets |-> [i \in Slots |-> 0]]

ZeroSetOf(id) == [code |-> "ZERO_SET", count |-> 1, magic |-> TRUE,
                  targets |-> [i \in Slots |-> IF i = 1 THEN id ELSE 0]]

\* 0x141 and 0x142; 0x143 is an id the dashboard knows and this robot lacks.
MCActuators == {321, 322}

MCCommands == {Plain(word) : word \in CommandWord} \cup {ZeroSetOf(321), ZeroSetOf(323)}

\* The commands that move the mode or race in the torn-read runs.
RacingCommands ==
  {Plain(word) : word \in {"ENABLE", "RUN", "ESTOP", "RESET_FAULT"}} \cup {ZeroSetOf(321)}

MCPolicyCommands == {{}, {321}, {322, 323}}

\* The words of the struct arrive one by one; the array with its length.
TornChunks == {{"ts"}, {"code"}, {"magic"}, {"count", "targets"}}

\* What a buffer with consistent reads would give.
WholeCommand == {Fields}
=============================================================================
