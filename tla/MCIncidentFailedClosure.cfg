CONSTANTS
  Anomaly = {1, 2, 3, 4, 5}
  DetectedAt <- MCDetectedAt
  M = 2
  N = 3
  Window = 3
  RecoveryLimit = 3
  MaxTime = 9
  MaxIncidents = 3
  MaxRestarts = 0
  MaxCleanups = 0
  MaxFaults = 1
SPECIFICATION Spec
PROPERTIES
  NewOnlyAfterRecovery
