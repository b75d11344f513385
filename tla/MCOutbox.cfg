CONSTANTS
  MaxAttempts = 2
  Limit = 2
  Delivered = "PUBLISHED"
  MaxBatches = 2
  MaxFaults = 1
  MaxRequeues = 1
  MaxRestarts = 1
  MaxPowerLosses = 1
SPECIFICATION FairSpec
INVARIANTS
  TypeOK
  SequencesIncrease
  NoBatchLost
PROPERTIES
  OrderedUnlessSetAside
  NothingPendsForever
