CONSTANTS
  IndexMask = 2
  GenerationMask = 2
  ScopeWrap = 3
  MaxCreations = 4
SPECIFICATION Spec
INVARIANT TypeOK
INVARIANT FreeListExact
INVARIANT ScopesOwnLiveHandles
INVARIANT LiveCountExact
INVARIANT HistoryConsistent
PROPERTY ImplementsHandleTable
