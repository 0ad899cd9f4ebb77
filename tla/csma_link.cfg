SPECIFICATION FairSpec
CONSTANTS
  Devices = {d1, d2}
  QueueSize = 1
  MaxRetries = 1
  MaxFrames = 3
  MaxToggles = 2
INVARIANTS
  TypeOK
  AssertionsHold
  NotStranded
PROPERTIES
  LinkSpec
  Drains
CHECK_DEADLOCK FALSE
