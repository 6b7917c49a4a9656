CONSTANTS
  Call = {c1, c2, c3}
  NoCall = NoCall
  Timed = {c1, c2, c3}
  Abortable = {c1, c2}
  Cooperative = {c1}
  Uncloneable = {c3}
  MaxWorkers = 2
SPECIFICATION Spec
PROPERTY EveryCallSettlesAnyway
CHECK_DEADLOCK FALSE
