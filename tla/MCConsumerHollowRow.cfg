CONSTANTS
  b1 = b1
  n1 = n1
  malformed = malformed
  nilPayload = nilPayload
  Empty = Empty
  NoBatch = NoBatch
  Node <- MCNode
  NodeOf <- MCNodeOf
  SeqOf <- MCSeqOf
  Key <- MCKey
  Batch <- OneBatch
  Junk = {malformed, nilPayload}
  Incomplete = {nilPayload}
  MaxDeliver = 2
  FetchBatch = 1
  MaxStream = 1
  MaxStoreFaults = 0
  MaxReadFaults = 2
  MaxRestarts = 0
  MaxRequests = 0
  RetentionRuns = FALSE
SPECIFICATION Spec
INVARIANTS
  ActiveRowsKeepPayload
