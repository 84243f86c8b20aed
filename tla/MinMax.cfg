SPECIFICATION FairSpec
CONSTANTS
  Client = {c1}
  Matrix = {m1, m2}
  NoMatrix = NoMatrix
  MaxPending = 2
  ResourcesMayFail = TRUE
INVARIANT TypeOK
INVARIANT DoneMeansCurrent
INVARIANT NoJoinDeadlock
INVARIANT RunningMeansWorker
INVARIANT NoOrphanWorker
PROPERTY ConnectionsReleased
