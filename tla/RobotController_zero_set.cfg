\* A RUN in the tick after a ZERO_SET zeroes every actuator again.
SPECIFICATION Spec
CONSTANTS
  Actuators <- MCActuators
  Capacity = 1
  Commands <- MCCommands
  PolicyCommands <- MCPolicyCommands
  Chunks <- WholeCommand
  MaxCommands = 2
  EnableDuration = 1
INVARIANT
  ZeroSetIsOneShot
