CONSTANTS
  a = a
  b = b
  x = x
  r1 = r1
  r2 = r2
  r3 = r3
  Side = {a, b}
  Modules <- Singles
  Mismatched = {}
  MaxMains = 1
  MaxAttempts = 5
  Request = {r1, r2, r3}
  Needs <- Apart
SPECIFICATION MCSpec
INVARIANT NoFalseCapabilityError
CHECK_DEADLOCK FALSE
