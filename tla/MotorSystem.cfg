\* The control loop with one motor at the end of the bus: arming, driving and the
\* emergency stop, through a zero-set and through damping on command.
SPECIFICATION FairSystemSpec
CONSTANTS
  Actuators <- OneActuator
  Capacity = 0
  Commands <- DrivingCommands
  PolicyCommands <- DrivingPolicy
  Chunks <- WholeCommand
  MaxCommands = 3
  EnableDuration = 1
  QueueSize = 2
INVARIANT
  DisabledMotorsAreOff
PROPERTIES
  PolicyTakesOverFromDamping
  EstopStopsMotors
