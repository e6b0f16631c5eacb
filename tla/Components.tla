----------------------------- MODULE Components -----------------------------
(***************************************************************************)
(* The components of the server whose safety does not depend on another's  *)
(* state: each runs by itself, from its own initial states, and `part`     *)
(* says which one a behaviour is about.  They share no state, so nothing   *)
(* is lost by not interleaving them.                                       *)
(***************************************************************************)
EXTENDS SharedParts

CONSTANTS
  Addresses,   \* of clients
  Callers,     \* tasks and requests
  MaxRestarts,
  MaxReq, Guards, Limit, LockoutWindow, LockTime, MaxIps, LockoutTime,
  ProxyLists, Fallback,
  Reqs, Outcomes, LogWindow, Recent, MaxEntries, LogTime,
  Span, MaxEvents, MaxBack, UptimeTime,
  RetryAfters, MaxPause, Forgive, MaxRefusals, PauseTime,
  Tracks, Recordings, Tolerance, Lookups,
  Kinds, Webhooks, Interval, MaxAlerts, MaxChanges, AlertTime

-----------------------------------------------------------------------------
VARIABLES lockoutWhich, lockoutClock, lockoutTable, lockoutCleaned, lockoutReq,
          lockoutHist, lockoutSince
lockoutVars == <<lockoutWhich, lockoutClock, lockoutTable, lockoutCleaned, lockoutReq,
                 lockoutHist, lockoutSince>>
Lockout == INSTANCE LockoutGuard WITH
  Ips <- Addresses, Window <- LockoutWindow, MaxTime <- LockoutTime, which <- lockoutWhich,
  clock <- lockoutClock, table <- lockoutTable, cleaned <- lockoutCleaned,
  req <- lockoutReq, hist <- lockoutHist, since <- lockoutSince
LockoutAbsent == /\ lockoutWhich = 0 /\ lockoutClock = 0 /\ lockoutTable = 0
                 /\ lockoutCleaned = 0 /\ lockoutReq = 0 /\ lockoutHist = 0
                 /\ lockoutSince = 0

-----------------------------------------------------------------------------
VARIABLES switchGen, switchList, switchOn, switchCurrent, switchClient, switchReady,
          switchFails, switchTried, switchRotating, switchHealth, switchAdmin,
          switchTask, switchRot, switchUpdates, switchCalls, switchTurns
switchVars == <<switchGen, switchList, switchOn, switchCurrent, switchClient,
                switchReady, switchFails, switchTried, switchRotating, switchHealth,
                switchAdmin, switchTask, switchRot, switchUpdates, switchCalls,
                switchTurns>>
Switch == INSTANCE ProxySwitch WITH
  Tasks <- Callers, Lists <- ProxyLists, gen <- switchGen, list <- switchList,
  on <- switchOn, current <- switchCurrent, client <- switchClient,
  ready <- switchReady, fails <- switchFails, tried <- switchTried,
  rotating <- switchRotating, health <- switchHealth, admin <- switchAdmin,
  task <- switchTask, rot <- switchRot, updates <- switchUpdates, calls <- switchCalls,
  turns <- switchTurns
SwitchAbsent == /\ switchGen = 0 /\ switchList = 0 /\ switchOn = 0 /\ switchCurrent = 0
                /\ switchClient = 0 /\ switchReady = 0 /\ switchFails = 0
                /\ switchTried = 0 /\ switchRotating = 0 /\ switchHealth = 0
                /\ switchAdmin = 0 /\ switchTask = 0 /\ switchRot = 0
                /\ switchUpdates = 0 /\ switchCalls = 0 /\ switchTurns = 0

-----------------------------------------------------------------------------
VARIABLES logSecond, logServing, logEntries, logBuckets, logWritten
logVars == <<logSecond, logServing, logEntries, logBuckets, logWritten>>
Log == INSTANCE RequestLog WITH
  Window <- LogWindow, MaxTime <- LogTime, second <- logSecond, serving <- logServing,
  entries <- logEntries, buckets <- logBuckets, written <- logWritten
LogAbsent == /\ logSecond = 0 /\ logServing = 0 /\ logEntries = 0 /\ logBuckets = 0
             /\ logWritten = 0

-----------------------------------------------------------------------------
VARIABLES uptimeNow, uptimeState, uptimeEvents, uptimeStored, uptimeTruth,
          uptimeLatest, uptimeChanges, uptimeBack, uptimeDbErrors, uptimeRestarts
uptimeVars == <<uptimeNow, uptimeState, uptimeEvents, uptimeStored, uptimeTruth,
                uptimeLatest, uptimeChanges, uptimeBack, uptimeDbErrors, uptimeRestarts>>
Uptime == INSTANCE AccountUptime WITH
  MaxTime <- UptimeTime, now <- uptimeNow, state <- uptimeState, events <- uptimeEvents,
  stored <- uptimeStored, truth <- uptimeTruth, latest <- uptimeLatest,
  changes <- uptimeChanges, back <- uptimeBack, dbErrors <- uptimeDbErrors,
  restarts <- uptimeRestarts
UptimeAbsent == /\ uptimeNow = 0 /\ uptimeState = 0 /\ uptimeEvents = 0
                /\ uptimeStored = 0 /\ uptimeTruth = 0 /\ uptimeLatest = 0
                /\ uptimeChanges = 0 /\ uptimeBack = 0 /\ uptimeDbErrors = 0
                /\ uptimeRestarts = 0

-----------------------------------------------------------------------------
VARIABLES pauseTime, pauseUntil, pauseStrikes, pauseRow, pauseRequest, pauseRefusals,
          pauseRestarts, pauseDbErrors, pauseOwed
pauseVars == <<pauseTime, pauseUntil, pauseStrikes, pauseRow, pauseRequest,
               pauseRefusals, pauseRestarts, pauseDbErrors, pauseOwed>>
Pause == INSTANCE RateLimitPause WITH
  Requests <- Callers, MaxTime <- PauseTime,
  time <- pauseTime, until <- pauseUntil, strikes <- pauseStrikes, row <- pauseRow,
  request <- pauseRequest, refusals <- pauseRefusals, restarts <- pauseRestarts,
  dbErrors <- pauseDbErrors, owed <- pauseOwed
PauseAbsent == /\ pauseTime = 0 /\ pauseUntil = 0 /\ pauseStrikes = 0 /\ pauseRow = 0
               /\ pauseRequest = 0 /\ pauseRefusals = 0 /\ pauseRestarts = 0
               /\ pauseDbErrors = 0 /\ pauseOwed = 0

-----------------------------------------------------------------------------
VARIABLES identityCatalog, identityVerdicts, identityCall
identityVars == <<identityCatalog, identityVerdicts, identityCall>>
Identity == INSTANCE TrackIdentity WITH
  Calls <- Lookups, catalog <- identityCatalog, verdicts <- identityVerdicts,
  call <- identityCall
IdentityAbsent == /\ identityCatalog = 0 /\ identityVerdicts = 0 /\ identityCall = 0

-----------------------------------------------------------------------------
VARIABLES alertsWebhook, alertsLastSent, alertsLock, alertsAlert, alertsPosted,
          alertsClock, alertsAlerts, alertsChanges
alertsVars == <<alertsWebhook, alertsLastSent, alertsLock, alertsAlert, alertsPosted,
                alertsClock, alertsAlerts, alertsChanges>>
Alerts == INSTANCE AlertThrottle WITH
  Alerters <- Callers, MaxTime <- AlertTime, webhook <- alertsWebhook,
  lastSent <- alertsLastSent, lock <- alertsLock, alert <- alertsAlert,
  posted <- alertsPosted, clock <- alertsClock, alerts <- alertsAlerts,
  changes <- alertsChanges
AlertsAbsent == /\ alertsWebhook = 0 /\ alertsLastSent = 0 /\ alertsLock = 0
                /\ alertsAlert = 0 /\ alertsPosted = 0 /\ alertsClock = 0
                /\ alertsAlerts = 0 /\ alertsChanges = 0

-----------------------------------------------------------------------------
(* One component moves in a behaviour; the others are absent. *)

vars == <<part, lockoutVars, switchVars, routesVars, logVars, uptimeVars, pauseVars,
                identityVars, alertsVars>>

Init == /\ part \in {"lockout", "switch", "routes", "log", "uptime", "pause", "identity", "alerts"}
        /\ IF part = "lockout" THEN Lockout!Init ELSE LockoutAbsent
        /\ IF part = "switch" THEN Switch!Init ELSE SwitchAbsent
        /\ IF part = "routes" THEN Routes!Init ELSE RoutesAbsent
        /\ IF part = "log" THEN Log!Init ELSE LogAbsent
        /\ IF part = "uptime" THEN Uptime!Init ELSE UptimeAbsent
        /\ IF part = "pause" THEN Pause!Init ELSE PauseAbsent
        /\ IF part = "identity" THEN Identity!Init ELSE IdentityAbsent
        /\ IF part = "alerts" THEN Alerts!Init ELSE AlertsAbsent

LockoutMoves == /\ part = "lockout" /\ Lockout!Next
                /\ UNCHANGED <<part, switchVars, routesVars, logVars, uptimeVars,
                                     pauseVars, identityVars, alertsVars>>
SwitchMoves == /\ part = "switch" /\ Switch!Next
               /\ UNCHANGED <<part, lockoutVars, routesVars, logVars, uptimeVars,
                                    pauseVars, identityVars, alertsVars>>
RoutesMoves == /\ part = "routes" /\ Routes!Next
               /\ UNCHANGED <<part, lockoutVars, switchVars, logVars, uptimeVars,
                                    pauseVars, identityVars, alertsVars>>
LogMoves == /\ part = "log" /\ Log!Next
            /\ UNCHANGED <<part, lockoutVars, switchVars, routesVars, uptimeVars,
                                 pauseVars, identityVars, alertsVars>>
UptimeMoves == /\ part = "uptime" /\ Uptime!Next
               /\ UNCHANGED <<part, lockoutVars, switchVars, routesVars, logVars,
                                    pauseVars, identityVars, alertsVars>>
PauseMoves == /\ part = "pause" /\ Pause!Next
              /\ UNCHANGED <<part, lockoutVars, switchVars, routesVars, logVars,
                                   uptimeVars, identityVars, alertsVars>>
IdentityMoves == /\ part = "identity" /\ Identity!Next
                 /\ UNCHANGED <<part, lockoutVars, switchVars, routesVars, logVars,
                                      uptimeVars, pauseVars, alertsVars>>
AlertsMoves == /\ part = "alerts" /\ Alerts!Next
               /\ UNCHANGED <<part, lockoutVars, switchVars, routesVars, logVars,
                                    uptimeVars, pauseVars, identityVars>>

Next == \/ LockoutMoves
        \/ SwitchMoves
        \/ RoutesMoves
        \/ LogMoves
        \/ UptimeMoves
        \/ PauseMoves
        \/ IdentityMoves
        \/ AlertsMoves

Spec == Init /\ [][Next]_vars

-----------------------------------------------------------------------------
(* Every invariant includes the type invariant of its component. *)

\* LockoutGuard: however many addresses fail, a guard keeps at most MAX_IPS of them, and
\* each it locks failed often enough, within one window and since it last succeeded.
LocksSound == part = "lockout" => /\ Lockout!TypeOK
                                  /\ Lockout!TableBound
                                  /\ Lockout!LockEarned

\* LockoutGuard: a running lock ends early only by a correct credential of the address;
\* the failures of other addresses push it out only from a table of locked addresses.
LockKept == [][part = "lockout" => Lockout!KeepsLocks]_lockoutVars

\* ProxySwitch: the proxy in use is one of the configured list, although a probe that
\* was started under the old list may end after configure has replaced it; the manager
\* says "resolved" only while it has a proxied client, so that no pool request leaves
\* from the server's own address; and the `rotating` flag is set exactly while one
\* rotation holds it, so that a rotation neither runs beside another nor is blocked.
SwitchSound == part = "switch" => /\ Switch!TypeOK
                                  /\ Switch!CurrentListed
                                  /\ Switch!ReadyIsProxied
                                  /\ Switch!FlagOwned

\* ProxyRoutes: an account is bound only to a proxy of the configured list, and when no
\* task is between the two writes, its row holds the binding in use, so that a restart
\* does not move the account.
BindingsSound == part = "routes" => /\ Routes!TypeOK
                                    /\ Routes!BoundListed
                                    /\ Routes!RowFollows

\* RequestLog: the rates the dashboard shows are those of the requests that were
\* recorded in the window, whatever the log of the last entries has dropped.
RatesExact == part = "log" => Log!TypeOK /\ Log!RatesExact

\* AccountUptime: the status shown for each instant is the one the account had, and a
\* restart shows the timeline the running server would have shown.
TimelinesTrue == part = "uptime" => /\ Uptime!TypeOK
                                    /\ Uptime!TimelineTrue
                                    /\ Uptime!RestartAgrees

\* RateLimitPause: the pause, in memory and in the database, lasts at least as long as
\* every Retry-After of a burst asked, although parallel refusals all write it, and
\* exceeds neither its cap nor what Tidal asked for, however many strikes they add.
PausesKept == part = "pause" => /\ Pause!TypeOK
                                /\ Pause!RetryAfterKept
                                /\ Pause!PauseBounded

\* TrackIdentity: a track whose recording differs from the one asked for is not served,
\* and a request is refused for good only when the two recordings differ: a lookup that
\* failed leaves no verdict in the cache.
VerdictsSound == part = "identity" => /\ Identity!TypeOK
                                      /\ Identity!ServedIsRequested
                                      /\ Identity!VerdictsCompared

\* AlertThrottle: one webhook gets an alert of a kind at most once per interval, also
\* when parallel tasks raise it and the webhook is changed and changed back.
OnePerInterval == part = "alerts" => Alerts!TypeOK /\ Alerts!OnePerInterval

=============================================================================
