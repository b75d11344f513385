CONSTANTS
  b1 = b1
  n1 = n1
  malformed = malformed
  nilPayload = nilPayload
  Empty = Empty
  NoBatch = NoBatch
  Node <- MCNode
  NodeOf <- MCNodeOf
  SeqOf <- MCSeqOf
  Key <- MCKey
  Batch <- OneBatch
  Junk = {malformed, nilPayload}
  Incomplete = {nilPayload}
  MaxDeliver = 2
  FetchBatch = 1
  MaxStream = 1
  MaxStoreFaults = 2
  MaxReadFaults = 0
  MaxRestarts = 1
  MaxRequests = 2
  RetentionRuns = TRUE
SPECIFICATION Spec
INVARIANTS
  NoMessageLost
  InFlightProtected
PROPERTIES
  StoreSpec
