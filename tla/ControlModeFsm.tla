--------------------------- MODULE ControlModeFsm ---------------------------
(***************************************************************************)
(* The transition logic of state_machine.py: three priority layers, each   *)
(* of which either names the next mode or leaves the decision to the one   *)
(* below it.  Pure operators; RobotController holds the state.             *)
(*                                                                         *)
(* Time appears only as the age of the current mode (now - mode_enter_time *)
(* in the code), counted in clock ticks.                                   *)
(*                                                                         *)
(* In this project a definition named D_Something is D with a plausible    *)
(* bug.  No specification uses it: a mutation test puts it in D's place.   *)
(***************************************************************************)
EXTENDS Naturals

CONSTANT EnableDuration  \* enable_duration_s, in clock ticks

\* __post_init__ refuses a negative duration and accepts zero.
ASSUME EnableDurationAssumption == EnableDuration \in Nat

\* UNKNOWN is declared in the code and never entered.
ControllerMode ==
  {"DISABLED", "ENABLING", "NORMAL", "DAMPING", "ZERO_SETTING", "ESTOP"}

OperatorCommandCode ==
  {"NONE", "ENABLE", "DISABLE", "DAMPING", "ZERO_SET", "ESTOP",
   "RESET_FAULT", "RUN"}

\* What the command word of the mailbox can hold: "INVALID" is any integer
\* outside the enumeration.
CommandWord == OperatorCommandCode \cup {"INVALID"}

\* A layer that returns None.
Unhandled == "unhandled"

ParseCommandCode(word) == IF word \in OperatorCommandCode THEN word ELSE "NONE"
-----------------------------------------------------------------------------
\* First layer: ESTOP overrides everything and is left only by RESET_FAULT.
SafetyLayer_NoLatch(mode, code) ==
  IF code = "ESTOP" THEN "ESTOP" ELSE Unhandled

SafetyLayer_OnlyPowered(mode, code) ==
  IF code = "ESTOP" /\ mode \in {"ENABLING", "NORMAL", "DAMPING"} THEN "ESTOP"
  ELSE IF mode = "ESTOP" THEN IF code = "RESET_FAULT" THEN "DISABLED" ELSE "ESTOP"
  ELSE Unhandled

SafetyLayer(mode, code) ==
  IF mode # "ESTOP" /\ code # "ESTOP" THEN Unhandled
  ELSE IF code = "RESET_FAULT" THEN "DISABLED" ELSE "ESTOP"

\* Second layer: what an explicit command asks for, where it is accepted.
OperatorLayer_RunWhileEnabling(mode, code) ==
  IF code \in {"DISABLE", "RESET_FAULT"} THEN "DISABLED"
  ELSE IF code = "ENABLE" /\ mode \in {"DISABLED", "ZERO_SETTING"} THEN "ENABLING"
  ELSE IF code = "RUN" /\ mode \in {"DAMPING", "ENABLING"} THEN "NORMAL"
  ELSE IF code = "DAMPING" THEN "DAMPING"
  ELSE IF code = "ZERO_SET" THEN "ZERO_SETTING"
  ELSE Unhandled

OperatorLayer(mode, code) ==
  IF code \in {"DISABLE", "RESET_FAULT"} THEN "DISABLED"
  ELSE IF code = "ENABLE" /\ mode \in {"DISABLED", "ZERO_SETTING"} THEN "ENABLING"
  ELSE IF code = "RUN" /\ mode = "DAMPING" THEN "NORMAL"
  ELSE IF code = "DAMPING" THEN "DAMPING"
  ELSE IF code = "ZERO_SET" THEN "ZERO_SETTING"
  ELSE Unhandled

\* Third layer: release of a zero-set, and the end of the enabling period.
AutomaticLayer_NoTimer(mode, code, age) ==
  IF mode = "ZERO_SETTING" /\ code = "NONE" THEN "DISABLED" ELSE Unhandled

AutomaticLayer(mode, code, age) ==
  IF mode = "ZERO_SETTING" /\ code = "NONE" THEN "DISABLED"
  ELSE IF mode = "ENABLING" /\ age >= EnableDuration THEN "DAMPING"
  ELSE Unhandled

\* ControlModeFsm.update: the first layer that handles the tick decides.
FsmUpdate_NoFallback(mode, word, age) ==
  LET code      == ParseCommandCode(word)
      safety    == SafetyLayer(mode, code)
      operator  == OperatorLayer(mode, code)
  IN  IF safety # Unhandled THEN safety
      ELSE IF operator # Unhandled THEN operator
      ELSE AutomaticLayer(mode, code, age)

FsmUpdate(mode, word, age) ==
  LET code      == ParseCommandCode(word)
      safety    == SafetyLayer(mode, code)
      operator  == OperatorLayer(mode, code)
      automatic == AutomaticLayer(mode, code, age)
  IN  IF safety # Unhandled THEN safety
      ELSE IF operator # Unhandled THEN operator
      ELSE IF automatic # Unhandled THEN automatic
      ELSE mode

\* _enter: the age restarts only when the mode really changes.
AgeAfter(mode, next, age) == IF next # mode THEN 0 ELSE age
=============================================================================
