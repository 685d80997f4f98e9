CONSTANTS
  Bucket <- WorkerBucket
  Limit <- WorkerLimit
  WindowSeconds = 2
  TicksPerSecond = 1
  MaxTime = 3
SPECIFICATION Spec
INVARIANT
  ClientWindowBound
