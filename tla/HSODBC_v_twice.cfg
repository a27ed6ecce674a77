SPECIFICATION Spec
CONSTANTS
  NumHandles = 1
  MaxQueries = 3
  MaxQueued = 2
INVARIANT CalledAtMostOnce
