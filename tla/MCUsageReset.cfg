CONSTANTS
  u1 = u1
  k1 = k1
  k2 = k2
  r1 = r1
  r2 = r2
  w1 = w1
  w2 = w2
  User = {u1}
  Worker = {w1}
  Key = {k1, k2}
  Request = {r1}
  KeyOwner <- MCKeyOwner
  Owner <- MCOwner
  Weekly = 2
  Monthly = 3
  Day = 1
  Week = 2
  Month = 3
  Retention = 4
  MaxTokens = 1
  MaxTime = 5
  MaxWebCalls = 1
SPECIFICATION Spec
PROPERTY
  UsageOnlyAgesOut
