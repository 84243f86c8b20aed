SPECIFICATION FairSpec
CONSTANTS
  Client = {c1, c2}
  NoMatrix = NoMatrix
  MaxPending = 1
  ResourcesMayFail = TRUE
INVARIANT ShowsOwnResult
INVARIANT RepliesAsExpected
INVARIANT StartFindsNoWorker
PROPERTY EveryClientAnswered
