SPECIFICATION Spec
CONSTANTS
  Inst = {i1, i2}
  Ids = {a, b}
  Known = {a}
  Kinds = {"account", "key"}
  Downtime = TRUE
  MaxTime = 2
  MaxEvents = 2
  MaxFaults = 0
CHECK_DEADLOCK FALSE
INVARIANT
  DeletesStayDeleted
