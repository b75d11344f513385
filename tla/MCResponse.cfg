CONSTANTS
  Automatic = {auto}
  Gated = {gated}
  Caller = {c1, c2}
  MaxRestarts = 1
  MaxLost = 1
SYMMETRY Callers
SPECIFICATION Spec
INVARIANTS
  ResponseTypeOK
  
  ApprovalSpentOnce

  
