SPECIFICATION Spec
CONSTANTS
  NumPod = 2
  NumEdge = 2
  NumHost = 1
  HostIp <- MCHostIp
  HostMac <- MCHostMac
  Flows <- MCFlowsInPodBoth
  MaxRetries = 0
  PendingQueueSize = 1
  QueueSize = 2
  MaxSends = 1
  MaxAborts = 0
INVARIANTS
  TypeOK
  DirectoryConsistent
  ReverseLookup
  CacheNamesOwner
  NoBlackHole
  FramesOnCourse
PROPERTIES
  DirectorySpec
CHECK_DEADLOCK FALSE
