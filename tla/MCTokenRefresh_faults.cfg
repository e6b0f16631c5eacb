SPECIFICATION FairSpec
CONSTANTS
  c1 = c1
  c2 = c2
  Caller = {c1}
  Heal = Heal
  RequestsPerAccount = 1
  MaxIssued = 2
  MaxLocks = 2
  Fault = {"lock_ttl", "redis_write", "lost_reply"}
INVARIANT
  OwnerOffWins
PROPERTY
  CallersAnswered
