SPECIFICATION FairSpec
CONSTANTS
  Worker = {w1, w2}
  Producer = {p1}
  Controller = {main, other}
  TasksPerProducer = 2
  Capacity = 2
  MaxTime = 0
  NoTask = NoTask
  main = main
  other = other
  Programs <- AllPrograms
PROPERTY ProgramEnds
PROPERTY EveryTaskServed
PROPERTY KeepsPromise
