CONSTANTS
  t1 = t1
  t2 = t2
  t3 = t3
  s1 = s1
  Token <- MCToken
  ScopeId <- MCScopeId
  MaxShapes = 3
  ByteLength = {1, 3}
  IdWrap = 5
  MaxBuffers = 2
  MaxDepth = 3
SPECIFICATION Spec
SYMMETRY Symmetric
INVARIANT CheckpointsSeparate
INVARIANT BytesExact
PROPERTY FailureIsAtomic
