\* The mailbox as deployed (PlainBuffer): a tick can read half a command.
SPECIFICATION Spec
CONSTANTS
  Actuators <- MCActuators
  Capacity = 1
  Commands <- RacingCommands
  PolicyCommands <- MCPolicyCommands
  Chunks <- TornChunks
  MaxCommands = 3
  EnableDuration = 1
INVARIANTS
  TypeOK
  FramesFollowMode
  PublishedCoherent
  StoppedMeansDisabled
PROPERTIES
  EstopLatch
  TimestampActedUponOnce
  ImplementsAuthority
