SPECIFICATION Spec
CONSTANTS
  Addresses = {p1, p2, p3}
  Callers = {c1, c2}
  FailLimit = 1
  MaxTurns = 1
  MaxRestarts = 1
  MaxDbErrors = 1
  MaxReq = 4
  Guards = {"admin", "scanner"}
  Limit = 2
  LockoutWindow = 2
  LockTime = 3
  MaxIps = 2
  LockoutTime = 4
  ProxyLists <- Orders
  Fallback = FALSE
  MaxUpdates = 1
  MaxCalls = 2
  Inst = {"i1"}
  Accounts = {"a", "b", "c"}
  RouteProxies = {"p", "q"}
  RouteLists = {{"p", "q"}, {"q"}}
  MaxOps = 1
  MaxFails = 1
  Reqs = {1, 2, 3}
  Outcomes <- Responses
  LogWindow = 3
  Recent = 2
  MaxEntries = 2
  LogTime = 3
  Span = 2
  MaxEvents = 2
  MaxBack = 1
  UptimeTime = 3
  RetryAfters = {1, 2}
  MaxPause = 3
  Forgive = 2
  MaxRefusals = 3
  PauseTime = 6
  Tracks = {"t1", "t2", "t3"}
  Recordings <- Catalogue
  Tolerance = 2
  Lookups = {"c1"}
  Kinds = {"403"}
  Webhooks = {"w1", "w2"}
  Interval = 2
  MaxAlerts = 3
  MaxChanges = 2
  AlertTime = 3
SYMMETRY Symmetry
CHECK_DEADLOCK FALSE
INVARIANTS
  LocksSound
  
  
  RatesExact
  TimelinesTrue
  PausesKept
  VerdictsSound
  OnePerInterval
PROPERTY
  LockKept
