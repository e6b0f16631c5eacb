SPECIFICATION Spec
CONSTANTS
  a1 = a1
  t1 = t1
  t2 = t2
  Account = {a1}
  Track = {t1, t2}
  Meta = {}
  Limits = {1}
  Rests = {FALSE}
  PerHour = 0
  Fallbacks = 1
  MaxGen = 2
  Events = {"edit"}
SYMMETRY EditSymmetry
CHECK_DEADLOCK FALSE
INVARIANT
  AccountLimitRespected
