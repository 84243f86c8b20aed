SPECIFICATION Spec
CONSTANTS
  Size = 3
  ThreadCount = 2
  Value = {1, 2}
  INT_MAX = 9
INVARIANT AtomicAgrees
