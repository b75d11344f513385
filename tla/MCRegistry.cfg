CONSTANTS
  Batch = {1}
  MaxBeats = 2
  MaxTime = 2
  MaxEdgeRestarts = 1
  MaxServerRestarts = 1
  MaxLost = 1
  Health = {"healthy", "degraded"}
SPECIFICATION Spec
INVARIANTS
  RegistryTypeOK
  RegistryMirrorsDatabase
PROPERTIES
  NothingRegresses
  NodeReturns
CHECK_DEADLOCK FALSE
