SPECIFICATION Spec
CONSTANTS
  c1 = c1
  c2 = c2
  Caller = {c1, c2}
  Heal = Heal
  RequestsPerAccount = 2
  MaxIssued = 2
  MaxLocks = 2
  Fault = {"lock_ttl"}
INVARIANT
  OneRefreshAtATime
