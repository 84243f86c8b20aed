SPECIFICATION FairSpec
CONSTANTS
  MaxRows = 3
  Cols = 2
  Value = {1, 2}
  Cores = {1, 2, 3, 4}
  MaxRequested = 4
  ThreadsMayFail = TRUE
INVARIANT TypeOK
INVARIANT ParallelAgrees
PROPERTY EveryCallReturns
