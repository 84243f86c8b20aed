SPECIFICATION Spec
CONSTANTS
  Worker = {w1, w2}
  Producer = {p1, p2}
  Controller = {main, other}
  TasksPerProducer = 1
  Capacity = 1
  MaxTime = 2
  NoTask = NoTask
  main = main
  other = other
  Programs <- MainPrograms
SYMMETRY Symmetry
INVARIANT TypeOK
INVARIANT DurationsOrdered
INVARIANT AtMostOnce
INVARIANT NothingLost
INVARIANT GracefulCompletes
INVARIANT SnapshotExact
PROPERTY TrackerSpec
