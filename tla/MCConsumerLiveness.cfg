CONSTANTS
  b1 = b1
  n1 = n1
  malformed = malformed
  nilPayload = nilPayload
  Empty = Empty
  NoBatch = NoBatch
  Node <- MCNode
  NodeOf <- MCNodeOf
  SeqOf <- MCSeqOf
  Key <- MCKey
  Batch <- OneBatch
  Junk = {malformed, nilPayload}
  Incomplete = {nilPayload}
  MaxDeliver = 2
  FetchBatch = 1
  MaxStream = 1
  MaxStoreFaults = 2
  MaxReadFaults = 1
  MaxRestarts = 1
  MaxRequests = 1
  RetentionRuns = FALSE
SPECIFICATION FairSpec
PROPERTIES
  EveryMessageResolved
