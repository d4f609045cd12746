\* The gate of the zero-set buttons.
SPECIFICATION Spec
CONSTANTS
  Modes <- MCModes
  FeedbackTimeout = 1
  StaleTimeout = 1
  NodeTimeout = 1
  MaxRuns = 2
PROPERTY
  ZeroSetNeedsNormal
