--------------------------- MODULE LiveComponents ---------------------------
(***************************************************************************)
(* The components of the server that must also get somewhere, under the    *)
(* fairness each of them states: as in Components, one component moves in  *)
(* a behaviour, and `part` says which.                                     *)
(***************************************************************************)
EXTENDS SharedParts

CONSTANTS
  Fetchers, MaxAges, MaxGuards, MaxClears,      \* of the response cache
  Units, MaxFlips,                              \* of the keys
  CheckLimit, TrafficLimit, MaxPlans, MaxOdd, MaxOwner,
  Order, Webhook, Largest,                      \* of the settings
  TokenEntries, Posted, Installations, Sessions, MaxPolls, MaxRotations, MaxImports,
  MaxLost, MaxCrashes, MaxStarts

-----------------------------------------------------------------------------
VARIABLES cacheEntry, cacheNeg, cacheGuard, cacheMade, cacheHeld, cacheReq, cacheBg,
          cacheAges, cacheClears, cacheFetches, cacheExcuses
cacheVars == <<cacheEntry, cacheNeg, cacheGuard, cacheMade, cacheHeld, cacheReq,
               cacheBg, cacheAges, cacheClears, cacheFetches, cacheExcuses>>
Cache == INSTANCE ResponseCache WITH
  Req <- Fetchers, entry <- cacheEntry, neg <- cacheNeg, guard <- cacheGuard, made <- cacheMade,
  held <- cacheHeld, req <- cacheReq, bg <- cacheBg, ages <- cacheAges,
  clears <- cacheClears, fetches <- cacheFetches, excuses <- cacheExcuses
CacheAbsent == /\ cacheEntry = 0 /\ cacheNeg = 0 /\ cacheGuard = 0 /\ cacheMade = 0
               /\ cacheHeld = 0 /\ cacheReq = 0 /\ cacheBg = 0 /\ cacheAges = 0
               /\ cacheClears = 0 /\ cacheFetches = 0 /\ cacheExcuses = 0

-----------------------------------------------------------------------------
VARIABLES quotaUsed, quotaRow, quotaActive, quotaWrites, quotaIncrs, quotaCounter,
          quotaSync, quotaCalls, quotaFlips, quotaCrashes, quotaLost, quotaLife,
          quotaGranted
quotaVars == <<quotaUsed, quotaRow, quotaActive, quotaWrites, quotaIncrs, quotaCounter,
               quotaSync, quotaCalls, quotaFlips, quotaCrashes, quotaLost, quotaLife,
               quotaGranted>>
ApiKey == INSTANCE ApiKeyQuota WITH
  Quota <- Units, used <- quotaUsed, row <- quotaRow, active <- quotaActive,
  writes <- quotaWrites, incrs <- quotaIncrs, counter <- quotaCounter,
  sync <- quotaSync, calls <- quotaCalls, flips <- quotaFlips, crashes <- quotaCrashes,
  lost <- quotaLost, life <- quotaLife, granted <- quotaGranted
QuotaAbsent == /\ quotaUsed = 0 /\ quotaRow = 0 /\ quotaActive = 0 /\ quotaWrites = 0
               /\ quotaIncrs = 0 /\ quotaCounter = 0 /\ quotaSync = 0 /\ quotaCalls = 0
               /\ quotaFlips = 0 /\ quotaCrashes = 0 /\ quotaLost = 0 /\ quotaLife = 0
               /\ quotaGranted = 0

-----------------------------------------------------------------------------
VARIABLES healthPlan, healthStatus, healthFresh, healthDue, healthSubDue, healthStreak,
          healthRowStreak, healthTraffic, healthCatalog, healthRowCatalog, healthSaves,
          healthHeal, healthPlans, healthOdd, healthDbErrors, healthOwner, healthStarts
healthVars == <<healthPlan, healthStatus, healthFresh, healthDue, healthSubDue,
                healthStreak, healthRowStreak, healthTraffic, healthCatalog,
                healthRowCatalog, healthSaves, healthHeal, healthPlans, healthOdd,
                healthDbErrors, healthOwner, healthStarts>>
Health == INSTANCE AccountHealth WITH
  plan <- healthPlan, status <- healthStatus,
  fresh <- healthFresh, due <- healthDue, subDue <- healthSubDue,
  streak <- healthStreak, rowStreak <- healthRowStreak, traffic <- healthTraffic,
  catalog <- healthCatalog, rowCatalog <- healthRowCatalog, saves <- healthSaves,
  heal <- healthHeal, plans <- healthPlans, odd <- healthOdd,
  dbErrors <- healthDbErrors, owner <- healthOwner, starts <- healthStarts
HealthAbsent == /\ healthPlan = 0 /\ healthStatus = 0 /\ healthFresh = 0
                /\ healthDue = 0 /\ healthSubDue = 0 /\ healthStreak = 0
                /\ healthRowStreak = 0 /\ healthTraffic = 0 /\ healthCatalog = 0
                /\ healthRowCatalog = 0 /\ healthSaves = 0 /\ healthHeal = 0
                /\ healthPlans = 0 /\ healthOdd = 0 /\ healthDbErrors = 0
                /\ healthOwner = 0 /\ healthStarts = 0

-----------------------------------------------------------------------------
VARIABLES settingsMem, settingsRow, settingsShared, settingsUpdate, settingsPull,
          settingsUpdates, settingsLost, settingsDbErrors, settingsStarts
settingsVars == <<settingsMem, settingsRow, settingsShared, settingsUpdate,
                  settingsPull, settingsUpdates, settingsLost, settingsDbErrors,
                  settingsStarts>>
Settings == INSTANCE SettingsSync WITH
  mem <- settingsMem, row <- settingsRow,
  shared <- settingsShared, update <- settingsUpdate, pull <- settingsPull,
  updates <- settingsUpdates, lost <- settingsLost, dbErrors <- settingsDbErrors,
  starts <- settingsStarts
SettingsAbsent == /\ settingsMem = 0 /\ settingsRow = 0 /\ settingsShared = 0
                  /\ settingsUpdate = 0 /\ settingsPull = 0 /\ settingsUpdates = 0
                  /\ settingsLost = 0 /\ settingsDbErrors = 0 /\ settingsStarts = 0

-----------------------------------------------------------------------------
VARIABLES onboardingEnv, onboardingAccounts, onboardingBoot, onboardingImporter,
          onboardingMark, onboardingLogin, onboardingIssued, onboardingUnread,
          onboardingRotations, onboardingCrashes, onboardingDbErrors, onboardingImports
onboardingVars == <<onboardingEnv, onboardingAccounts, onboardingBoot,
                    onboardingImporter, onboardingMark, onboardingLogin,
                    onboardingIssued, onboardingUnread, onboardingRotations,
                    onboardingCrashes, onboardingDbErrors, onboardingImports>>
Onboarding == INSTANCE AccountOnboarding WITH
  Entries <- TokenEntries, env <- onboardingEnv,
  accounts <- onboardingAccounts, boot <- onboardingBoot,
  importer <- onboardingImporter, mark <- onboardingMark, login <- onboardingLogin,
  issued <- onboardingIssued, unread <- onboardingUnread,
  rotations <- onboardingRotations, crashes <- onboardingCrashes,
  dbErrors <- onboardingDbErrors, imports <- onboardingImports
OnboardingAbsent == /\ onboardingEnv = 0 /\ onboardingAccounts = 0 /\ onboardingBoot = 0
                    /\ onboardingImporter = 0 /\ onboardingMark = 0
                    /\ onboardingLogin = 0 /\ onboardingIssued = 0
                    /\ onboardingUnread = 0 /\ onboardingRotations = 0
                    /\ onboardingCrashes = 0 /\ onboardingDbErrors = 0
                    /\ onboardingImports = 0

-----------------------------------------------------------------------------
(* One component moves in a behaviour; the others are absent. *)

liveVars == <<part, cacheVars, quotaVars, healthVars, routesVars, settingsVars,
              onboardingVars>>

LiveInit == /\ part \in {"cache", "quota", "health", "routes", "settings", "onboarding"}
            /\ IF part = "cache" THEN Cache!Init ELSE CacheAbsent
            /\ IF part = "quota" THEN ApiKey!Init ELSE QuotaAbsent
            /\ IF part = "health" THEN Health!Init ELSE HealthAbsent
            /\ IF part = "routes" THEN Routes!Init ELSE RoutesAbsent
            /\ IF part = "settings" THEN Settings!Init ELSE SettingsAbsent
            /\ IF part = "onboarding" THEN Onboarding!Init ELSE OnboardingAbsent

CacheMoves == /\ part = "cache" /\ Cache!Next
              /\ UNCHANGED <<part, quotaVars, healthVars, routesVars, settingsVars,
                                   onboardingVars>>
QuotaMoves == /\ part = "quota" /\ ApiKey!Next
              /\ UNCHANGED <<part, cacheVars, healthVars, routesVars, settingsVars,
                                   onboardingVars>>
HealthMoves == /\ part = "health" /\ Health!Next
               /\ UNCHANGED <<part, cacheVars, quotaVars, routesVars, settingsVars,
                                    onboardingVars>>
EgressMoves == /\ part = "routes" /\ Routes!Next
               /\ UNCHANGED <<part, cacheVars, quotaVars, healthVars, settingsVars,
                                    onboardingVars>>
SettingsMoves == /\ part = "settings" /\ Settings!Next
                 /\ UNCHANGED <<part, cacheVars, quotaVars, healthVars, routesVars,
                                      onboardingVars>>
OnboardingMoves == /\ part = "onboarding" /\ Onboarding!Next
                   /\ UNCHANGED <<part, cacheVars, quotaVars, healthVars, routesVars,
                                        settingsVars>>

LiveNext == \/ CacheMoves
            \/ QuotaMoves
            \/ HealthMoves
            \/ EgressMoves
            \/ SettingsMoves
            \/ OnboardingMoves

LiveSpec == LiveInit /\ [][LiveNext]_liveVars

LiveFairness ==
  /\ \A r \in Fetchers :
       /\ WF_cacheVars(part = "cache" /\ Cache!Handles(r))
       /\ WF_cacheVars(part = "cache" /\ Cache!Refreshes(r))
  /\ \A i \in Inst :
       /\ WF_quotaVars(part = "quota" /\ ApiKey!IncrBy(i))
       /\ WF_quotaVars(part = "quota" /\ ApiKey!Syncs(i))
       /\ WF_routesVars(part = "routes" /\ Routes!Locked(i))
       /\ WF_routesVars(part = "routes" /\ Routes!SyncRead(i))
       /\ WF_settingsVars(part = "settings" /\ Settings!Saving(i))
       /\ WF_settingsVars(part = "settings" /\ Settings!Syncing(i))
  /\ WF_healthVars(part = "health" /\ Health!HealPass)
  /\ WF_healthVars(part = "health" /\ Health!HourPasses)
  /\ SF_healthVars(part = "health" /\ Health!Probe)
  /\ WF_onboardingVars(part = "onboarding" /\ Onboarding!Boot)
  /\ WF_onboardingVars(part = "onboarding" /\ Onboarding!Endpoint)
  /\ \A s \in Onboarding!Logins : WF_onboardingVars(part = "onboarding" /\ Onboarding!SignIn(s))

LiveFairSpec == LiveSpec /\ LiveFairness

-----------------------------------------------------------------------------
\* Every variable of every component has its type.
TypesOK == /\ part = "cache" => Cache!TypeOK
           /\ part = "quota" => ApiKey!TypeOK
           /\ part = "health" => Health!TypeOK
           /\ part = "routes" => Routes!TypeOK
           /\ part = "settings" => Settings!TypeOK
           /\ part = "onboarding" => Onboarding!TypeOK

\* ResponseCache: identical requests share one upstream fetch while their guard lives,
\* and a key is fetched again only for a reason: an entry that aged, an uncacheable or
\* failed answer, a clear, or a guard that expired, each counted once for every guard
\* that may still fetch.
FetchesSound == part = "cache" => Cache!SingleFlight /\ Cache!FetchesJustified

\* ResponseCache: every request is answered, also behind a leader that disconnected.
RequestsAnswered == <>[](part = "cache" => Cache!AllAnswered)

\* ApiKeyQuota: the shared counter plus what is on its way to it is what was granted,
\* and no process grants more than the quota of a key between two starts.
UnitsSound == part = "quota" => ApiKey!UnitsCountedOnce /\ ApiKey!ProcessBound

\* ApiKeyQuota: once the fleet has spent a quota, every instance learns it and refuses.
QuotaCloses == <>[](part = "quota" => ApiKey!Closed)

\* AccountHealth: an account that Tidal serves previews only ends up out of playback,
\* through the auto-heal checks, refused reads, failed writes and restarts included.
PreviewsEndPlayback ==
  <>[](part = "health" => Health!NotFull) => <>[](part = "health" => Health!MovedOut)

\* ProxyRoutes: instances left alone agree on the proxy of an account.
Converges == <>[](part = "routes" => Routes!Agree)

\* SettingsSync: an instance that starts never overwrites a setting the fleet shares,
\* and every instance ends up with the settings the fleet shares.
SettingsConverge == /\ [][part = "settings" => Settings!KeepsShared]_settingsVars
                    /\ <>[](part = "settings" => Settings!Adopts)

\* AccountOnboarding: each entry of the token file becomes one account, wherever the
\* process stops and whichever insert fails, and after a sign-in the stored refresh
\* token is the newest issued, although the account may rotate it meanwhile.
AccountsSound == part = "onboarding" => /\ Onboarding!SignInKeepsNewest
                                        /\ Onboarding!FileImportedOnce

\* AccountOnboarding: every sign-in ends, with an account or at its deadline.
SignInsEnd == <>[](part = "onboarding" => Onboarding!NoneWaits)

=============================================================================
