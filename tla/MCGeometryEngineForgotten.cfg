CONSTANTS
  core = core
  mesh = mesh
  c1 = c1
  c2 = c2
  c3 = c3
  c4 = c4
  c5 = c5
  c6 = c6
  Call = {c1, c2, c3, c4}
  Profile = {core, mesh}
  Kinds <- ReleaseClone
  Eligible <- AnyProfile
  MaxInputs = 1
  MaxOutputs = 1
  MaxLosses = 0
  Closes = FALSE
SPECIFICATION Spec
INVARIANT NothingForgotten
CHECK_DEADLOCK FALSE
