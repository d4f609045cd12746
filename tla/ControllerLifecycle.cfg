\* The controller runs twice, a dashboard interferes with one process.
\* Everything may be stopped for good, and launches run out.
SPECIFICATION FairSpec
CONSTANTS
  can_daemon = can_daemon
  task_controller = task_controller
  dashboard = dashboard
  controller = controller
  worker = worker
  Names <- MCNames
  Threads <- MCThreads
  Supervisors <- MCThreads
  SupervisorOf <- MCSupervisorOf
  MaxLaunches = 4
  Main = controller
  StartOrder <- MCStartOrder
  StopOrder <- MCStopOrder
  MaxRuns = 2
  Openers <- MCOpeners
  MaxCalls = 1
  Fragile <- MCFragile
CHECK_DEADLOCK FALSE
INVARIANTS
  TypeOK
  Tracked
  StopOutcome
  ChildrenSeeSegments
PROPERTY
  StopHonoured
