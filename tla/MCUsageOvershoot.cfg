CONSTANTS
  u1 = u1
  k1 = k1
  k2 = k2
  r1 = r1
  r2 = r2
  w1 = w1
  w2 = w2
  User = {u1}
  Worker = {w1, w2}
  Key = {k1}
  Request = {r1, r2}
  KeyOwner <- MCKeyOwner
  Owner <- MCOwner
  Weekly = 2
  Monthly = 3
  Day = 1
  Week = 2
  Month = 3
  Retention = 4
  MaxTokens = 1
  MaxTime = 1
  MaxWebCalls = 0
SPECIFICATION Spec
SYMMETRY MCSymmetry
INVARIANTS
  CacheSeesUsage
  OvershootBounded
