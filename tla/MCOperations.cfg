SPECIFICATION MCSpec
CONSTANTS
  Served <- MCServed
  HandleRange = 8
  MaxSpare = 1
  TransportRequest = {t1, t2}
  WithTimeout = {t1}
  NoRequest = NoRequest
  MaxBuffers = 2
INVARIANT NoStaleRead
INVARIANT CancelledIsCancelled
INVARIANT HistoryAsAsked
INVARIANT OneFailureCode
INVARIANT InputsUnchanged
INVARIANT NamedIsRead
INVARIANT RequestsLeaveNothing
