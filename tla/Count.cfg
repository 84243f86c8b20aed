SPECIFICATION Spec
CONSTANTS
  Size = 5
  ThreadCount = 3
  Value = {1, 2, 3}
  INT_MAX = 9
INVARIANT TypeOK
INVARIANT BlocksPartition
INVARIANT ResultOfVisited
INVARIANT SearchesAgree
