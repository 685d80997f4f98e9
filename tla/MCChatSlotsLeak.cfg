CONSTANTS
  a = a
  b = b
  a1 = a1
  a2 = a2
  a3 = a3
  b1 = b1
  User = {a, b}
  Request <- MCRequest
  Owner <- MCOwner
  Claude = {a1, a2, b1}
  GlobalSlots = 3
  UserSlots = 2
  ClaudeLimit = 2
SPECIFICATION BegunSpec
INVARIANT
  ClaudeCountReturns
