\* The mailbox with consistent reads, under fairness: what is promised then.
SPECIFICATION FairSpec
CONSTANTS
  Actuators <- MCActuators
  Capacity = 1
  Commands <- MCCommands
  PolicyCommands <- MCPolicyCommands
  Chunks <- WholeCommand
  MaxCommands = 2
  EnableDuration = 2
PROPERTIES
  EstopObeyed
  LastCommandConsumed
  ArmingEnds
  StopHonoured
  EstopReachesMotors
