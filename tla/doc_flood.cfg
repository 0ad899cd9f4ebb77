SPECIFICATION Spec
CONSTANTS
  NumPod = 2
  NumEdge = 2
  NumHost = 1
  HostIp <- MCHostIp
  HostMac <- MCHostMac
  Flows <- MCFlowsInPod
  MaxRetries = 0
  PendingQueueSize = 1
  QueueSize = 4
  MaxSends = 1
  MaxAborts = 0
INVARIANTS
  FloodReachesOwner
CHECK_DEADLOCK FALSE
