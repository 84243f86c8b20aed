SPECIFICATION FairSpec
CONSTANTS
  Connection = {c1, c2}
  index = index
  page2 = page2
  missing = missing
  Path = {index, page2, missing}
  Existing = {index, page2}
  Pieces <- LongAndEmpty
  MaxCached = 1
INVARIANT TypeOK
INVARIANT OneHandlePerPath
INVARIANT BodyIntactIfUndisturbed
PROPERTY ServedForEver
PROPERTY RequestsEnd
