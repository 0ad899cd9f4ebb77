SPECIFICATION FairSpec
CONSTANTS
  NumPod = 2
  NumEdge = 1
  NumHost = 2
  HostIp <- MCHostIp
  HostMac <- MCHostMac
  Flows <- MCFlowsOnEdge
  MaxRetries = 0
  PendingQueueSize = 1
  QueueSize = 4
  MaxSends = 1
  MaxAborts = 0
INVARIANTS
  UnicastReachesOwner
  FramesOnCourse
PROPERTIES
  InFlightIsDelivered
CHECK_DEADLOCK FALSE
