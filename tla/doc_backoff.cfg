SPECIFICATION Spec
CONSTANTS
  Devices = {d1, d2}
  QueueSize = 1
  MaxRetries = 1
  MaxFrames = 2
  MaxToggles = 2
INVARIANT QueuedWillBeStarted
CHECK_DEADLOCK FALSE
