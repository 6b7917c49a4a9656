CONSTANTS
  core = core
  mesh = mesh
  c1 = c1
  c2 = c2
  c3 = c3
  c4 = c4
  c5 = c5
  c6 = c6
  Call = {c1, c2, c3}
  Profile = {core, mesh}
  Kinds <- TwoInputs
  Eligible <- AnyProfile
  MaxInputs = 2
  MaxOutputs = 1
  MaxLosses = 1
  Closes = FALSE
SPECIFICATION Spec
INVARIANT NamesOwnShapes
CHECK_DEADLOCK FALSE
