SPECIFICATION FairSpec
CONSTANTS
  NumPod = 2
  NumEdge = 1
  NumHost = 1
  HostIp <- MCHostIp
  HostMac <- MCHostMac
  Flows <- MCFlowsOne
  MaxRetries = 1
  PendingQueueSize = 2
  QueueSize = 2
  MaxSends = 3
  MaxAborts = 1
INVARIANTS
  WaitingHasTimer
PROPERTIES
  ServiceSpec
  ResolutionEnds
  EventuallyQuiet
CHECK_DEADLOCK FALSE
