CONSTANTS
  MaxAutomaticRetries = 1
  RetryCooldown = 1
  FailureWindow = 2
  Threshold = 3
  MaxExecutionCeiling = 3
  TargetCooldown = 1
  MaxTime = 3
  MaxRestarts = 2
  MaxResets = 1
SPECIFICATION Spec
INVARIANTS
  OrchestratorTypeOK
  
PROPERTIES
  UnknownNeverRepeated
  
CHECK_DEADLOCK FALSE
