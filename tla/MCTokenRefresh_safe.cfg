SPECIFICATION Spec
CONSTANTS
  c1 = c1
  c2 = c2
  Caller = {c1, c2}
  Heal = Heal
  RequestsPerAccount = 2
  MaxIssued = 2
  MaxLocks = 1
  Fault = {}
SYMMETRY Symmetry2
INVARIANTS
  RefreshesExclusive
  

  
