CONSTANTS
  a = a
  b = b
  x = x
  r1 = r1
  r2 = r2
  r3 = r3
  Side = {a, b, x}
  Modules <- Pairs
  Mismatched = {x}
  MaxMains = 2
  MaxAttempts = 4
  Request = {r1, r2, r3}
  Needs <- InOneOrder
SPECIFICATION MCSpec
INVARIANT LoadedIsRegistered
INVARIANT CalledOnLoadedSides
INVARIANT NoFalseCapabilityError
PROPERTY NoStaleLoad
PROPERTY EveryRequestSettles
CHECK_DEADLOCK FALSE
