SPECIFICATION Spec
CONSTANTS
  Served = {"batchTransformCopy"}
  HandleRange = 8
  MaxSpare = 1
INVARIANT NoStaleRead
