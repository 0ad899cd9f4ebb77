SPECIFICATION Spec
CONSTANTS
  Dests = {d1, d2}
  AliveTimeout = 3
  DeadTimeout = 2
  WaitReplyTimeout = 2
  MaxRetries = 1
  PendingQueueSize = 2
  MaxTime = 9
  MaxPackets = 5
INVARIANTS
  TypeOK
  NeverFails
  PatienceBounded
  SentInOrder
PROPERTIES
  GivesUpInTime
CHECK_DEADLOCK FALSE
