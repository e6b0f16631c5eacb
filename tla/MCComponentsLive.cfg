SPECIFICATION LiveFairSpec
CONSTANTS
  Inst = {"i1", "i2"}
  Accounts = {"a"}
  RouteProxies = {"p", "q"}
  RouteLists = {{"p", "q"}, {"q"}}
  FailLimit = 1
  MaxOps = 1
  MaxFails = 1
  MaxTurns = 0
  MaxUpdates = 1
  MaxCalls = 3
  MaxDbErrors = 1
  Fetchers = {"r1", "r2", "r3"}
  MaxAges = 2
  MaxGuards = 2
  MaxClears = 1
  Units = 2
  MaxFlips = 1
  CheckLimit = 3
  TrafficLimit = 2
  MaxPlans = 1
  MaxOdd = 1
  MaxOwner = 1
  Order <- TwoSettings
  Webhook = "discord_webhook_url"
  Largest = 2
  TokenEntries <- TokenFile
  Posted <- PostedTokens
  Installations = {{"token file"}, {"catalog"}, {"default"}, {"AUTO_SETUP"}}
  Sessions = {"s1"}
  MaxPolls = 1
  MaxRotations = 1
  MaxImports = 1
  MaxLost = 1
  MaxCrashes = 1
  MaxStarts = 1
CHECK_DEADLOCK FALSE
INVARIANTS
  TypesOK
  FetchesSound
  UnitsSound
  AccountsSound
PROPERTIES
  RequestsAnswered
  QuotaCloses
  PreviewsEndPlayback
  
  SettingsConverge
  SignInsEnd
