SPECIFICATION Spec
CONSTANTS
  m1 = m1
  m1b = m1b
  m2 = m2
  NoModel = NoModel
  Models = {m1, m1b, m2}
  InitialModels = {m1}
  Version <- MCVersion
  MaxStarts = 2
  MaxFaults = 1
  MaxClears = 1
INVARIANT ActivationTypeOK
INVARIANT DiskMirrorsMemory
INVARIANT MetadataNeverBlocks
PROPERTY AModelSurvives
PROPERTY RollbackExchanges
