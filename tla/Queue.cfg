SPECIFICATION FairSpec
CONSTANTS
  Thread = {t1, t2, t3, t4, t5}
  Task = {a}
  Capacity = 2
INVARIANT TypeOK
INVARIANT NoLostWakeup
INVARIANT StopWakesEveryone
PROPERTY StopIsFinal
PROPERTY StopReleasesWaiters
PROPERTY TasksReachWaiters
