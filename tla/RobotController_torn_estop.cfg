\* A torn read loses an ESTOP.
SPECIFICATION Spec
CONSTANTS
  Actuators <- MCActuators
  Capacity = 1
  Commands <- RacingCommands
  PolicyCommands <- MCPolicyCommands
  Chunks <- TornChunks
  MaxCommands = 3
  EnableDuration = 1
PROPERTY
  EstopObeyed
