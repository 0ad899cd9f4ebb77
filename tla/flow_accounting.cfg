SPECIFICATION Spec
CONSTANTS
  Flows = {f1, f2}
  MaxPerHopDelay = 3
  CheckInterval = 2
  Hold = 2
  QueueSize = 2
  IdRange = 4
  MaxSends = 3
  MaxArp = 2
  MaxTime = 7
INVARIANTS
  TypeOK
  Accounted
  TimelyIsTracked
  DropsAreTagged
  LossNoticed
CHECK_DEADLOCK FALSE
