CONSTANTS
  core = core
  mesh = mesh
  c1 = c1
  c2 = c2
  c3 = c3
  c4 = c4
  c5 = c5
  c6 = c6
  Call = {c1, c2}
  Profile = {core, mesh}
  Kinds <- Closing
  Eligible <- AnyProfile
  MaxInputs = 1
  MaxOutputs = 1
  MaxLosses = 1
  Closes = TRUE
  SessionRequest = {q1, q2, q3}
  MaxSwitches = 3
  CompatCall = {k1, k2, k3, k4}
  MaxScopes = 1
  MaxShapes = 2
  f1 = f1
  f2 = f2
  f3 = f3
  Definitions <- MCDefinitions
  MaxJobs = 3
  MaxRebuilds = 1
SPECIFICATION MCSpec
INVARIANT OneRuntime
INVARIANT ScopesOwnShapes
INVARIANT PublishedIsWhole
INVARIANT ScopesAccounted
PROPERTY CloseEndsSession
PROPERTY EveryCallSettles
CHECK_DEADLOCK FALSE
