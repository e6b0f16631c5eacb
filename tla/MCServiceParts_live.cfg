SPECIFICATION ServiceFairSpec
CONSTANTS
  m1 = m1
  m2 = m2
  b1 = b1
  b2 = b2
  b3 = b3
  Uncached = Uncached
  NoAnswer = NoAnswer
  OpOf <- NoneCached
  QueueTracks = {}
  Services = {"queue", "pool"}
  Req = {"r1", "r2", "r3"}
  Endpoint = {"e1"}
  MaxPool = 1
  PerAccount = {1}
  UsizeMax = 9
  PendingTimeout = 1
  JobTTL = 0
  Account = {"a1", "a2"}
  Track = {"t1"}
  Meta = {"m1"}
  Limits = {1}
  Rests = {TRUE}
  PerHour = 0
  Fallbacks = 1
  MaxGen = 1
  Events = {}
  Backups = {b1, b2, b3}
  BackupMeta = {"n1"}
  BackupLimits = {1}
  BackupPerHour = 0
  BackupMaxGen = 1
  BackupEvents = {}
CHECK_DEADLOCK FALSE
INVARIANT
  QueueBound
PROPERTIES
  WaiterAnswered
  JobsReclaimed
  RequestsEnd
