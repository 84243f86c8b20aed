SPECIFICATION Spec
CONSTANTS
  Client = {c1}
  Matrix = {m1}
  NoMatrix = NoMatrix
  MaxPending = 1
  ResourcesMayFail = FALSE
INVARIANT ServerStaysUp
