CONSTANTS
  b1 = b1
  b2 = b2
  n1 = n1
  junk = junk
  Empty = Empty
  NoBatch = NoBatch
  Batch <- MCBatch
  Node <- MCNode
  Junk <- MCJunk
  NodeOf <- MCNodeOf
  SeqOf <- MCSeqOf
  Key = {k1, k2}
SPECIFICATION StoreSpec
INVARIANTS
  StoreTypeOK
  NeverIngestedAndQuarantined
PROPERTIES
  RowsAreMonotone
  NodeSequenceNeverRegresses
  DispositionSpec
