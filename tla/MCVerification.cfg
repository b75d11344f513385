CONSTANTS
  Sample = {1, 2, 3, 4}
  SampleAt <- MCSampleAt
  Healthy = {1, 2, 4}
  Required = 2
  Timeout = 2
  MaxDelay = 1
  MaxVerifications = 2
  MaxIncidents = 2
  MaxTime = 3
  MaxRestarts = 1
  MaxLost = 1
SPECIFICATION Spec
INVARIANTS
  VerificationTypeOK
  RecoveredOnEvidence
  
PROPERTIES
  VerdictIsFinal
CHECK_DEADLOCK FALSE
