SPECIFICATION Spec
CONSTANTS
  r1 = r1
  r2 = r2
  r3 = r3
  t1 = t1
  e1 = e1
  e2 = e2
  Req <- Reqs2
  Track = {t1}
  Uncached = Uncached
  OpOf <- SameTrack2
  Endpoint = {e1, e2}
  NoAnswer = NoAnswer
  MaxPool = 1
  PerAccount = {1}
  UsizeMax = 9
  PendingTimeout = 0
  JobTTL = 0
INVARIANT
  KeyIdentifiesAnswer
