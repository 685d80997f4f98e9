CONSTANTS
  Bucket <- MCBucket
  Limit <- MCLimit
  WindowSeconds = 2
  TicksPerSecond = 2
  MaxTime = 9
SPECIFICATION Spec
INVARIANTS
  TypeOK
  WindowBound
  RetryAfterSuffices
  RetryAfterTight
PROPERTY
  ImplementsSlidingWindow
