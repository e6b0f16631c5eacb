SPECIFICATION ServiceSpec
CONSTANTS
  m1 = m1
  m2 = m2
  b1 = b1
  b2 = b2
  b3 = b3
  Uncached = Uncached
  NoAnswer = NoAnswer
  OpOf <- NoneCached
  QueueTracks = {}
  Services = {"pool", "failover"}
  Req = {}
  Endpoint = {"e1"}
  MaxPool = 1
  PerAccount = {1}
  UsizeMax = 9
  PendingTimeout = 0
  JobTTL = 0
  Account = {"a1"}
  Track = {"t1"}
  Meta = {m1, m2}
  Limits = {1, 2}
  Rests = {FALSE}
  PerHour = 0
  Fallbacks = 1
  MaxGen = 2
  Events = {"edit", "merge", "settings"}
  Backups = {b1, b2, b3}
  BackupMeta = {"n1"}
  BackupLimits = {1}
  BackupPerHour = 1
  BackupMaxGen = 1
  BackupEvents = {"static_token", "status", "role"}
SYMMETRY Symmetry
VIEW View
CHECK_DEADLOCK FALSE
INVARIANTS
  LeasesSound
  PoolNoMissedRelease
  PoolFallbacksBounded
