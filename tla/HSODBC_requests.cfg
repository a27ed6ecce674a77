SPECIFICATION FairSpec
CONSTANTS
  NumHandles = 2
  MaxQueries = 4
  MaxQueued = 1
INVARIANTS HandleOwnsQuery CalledAtMostOnce OthersKeepParams
PROPERTIES DoingReturns CalledOrFailed
