SPECIFICATION Spec
CONSTANTS
  Connection = {c1, c2}
  index = index
  page2 = page2
  missing = missing
  Path = {index, page2, missing}
  Existing = {index, page2}
  Pieces <- OnePiece
  MaxCached = 100
INVARIANT BodyIntact
