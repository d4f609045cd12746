\* Two clients and a queue of one frame; the daemon is stopped or killed at any
\* time.  It may stop for good: processes end and clients have no more frames.
SPECIFICATION FairSpec
CONSTANTS
  controller = controller
  tool = tool
  Clients <- MCClients
  QueueSize = 1
  MaxFrames <- MCMaxFrames
CHECK_DEADLOCK FALSE
INVARIANTS
  TypeOK
  BusFollowsRequests
  AcceptedAccounted
PROPERTIES
  RequestsAnswered
  AcceptedSentWhileServing
