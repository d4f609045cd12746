\* A controller crashes or stops and is started again under a dashboard.
SPECIFICATION Spec
CONSTANTS
  Modes <- MCModes
  FeedbackTimeout = 1
  StaleTimeout = 1
  NodeTimeout = 1
  MaxRuns = 2
INVARIANTS
  TypeOK
  ShownOnlineIsRecent
PROPERTY
  DeadControllerShown
