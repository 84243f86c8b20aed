SPECIFICATION FairSpec
CONSTANTS
  start = start
  data = data
  huge = huge
  Message = {start, data, huge}
  Length <- Lengths
  HeaderSize = 2
  MaxPayload = 2
  WireCapacity = 3
  MaxSent = 3
INVARIANT TypeOK
PROPERTY KeepsMessages
