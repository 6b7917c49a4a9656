CONSTANTS
  core = core
  mesh = mesh
  c1 = c1
  c2 = c2
  c3 = c3
  c4 = c4
  c5 = c5
  c6 = c6
  Call = {c1, c2, c3, c4, c5, c6}
  Profile = {core, mesh}
  Kinds <- ReleaseTwice
  Eligible <- FirstApart
  MaxInputs = 0
  MaxOutputs = 2
  MaxLosses = 1
  Closes = FALSE
SPECIFICATION Spec
INVARIANT LiveIsHeld
CHECK_DEADLOCK FALSE
SYMMETRY TwiceAlike
CONSTRAINT OneAfterAnother
