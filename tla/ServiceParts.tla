---------------------------- MODULE ServiceParts ----------------------------
(***************************************************************************)
(* The playback queue and the account pool under it.  One of them moves in *)
(* a behaviour, and `service` says which: the queue, the pool whose        *)
(* requests compete for its accounts, or the pool whose request fails over *)
(* from account to account.                                                *)
(***************************************************************************)
EXTENDS Integers, Sequences, FiniteSets

CONSTANTS
  Services,     \* what a run checks, a subset of {"queue", "pool", "failover"}
  Req, QueueTracks, Uncached, OpOf, Endpoint, NoAnswer, MaxPool, PerAccount,
  UsizeMax, PendingTimeout, JobTTL,
  Account, Track, Meta, Limits, Rests, PerHour, Fallbacks, MaxGen, Events,
  Backups, BackupMeta, BackupLimits, BackupPerHour, BackupMaxGen, BackupEvents

VARIABLE service      \* the component this behaviour is about

-----------------------------------------------------------------------------
VARIABLES queuePool, queuePerAccount, queueEndpoint, queueInflight, queueJobs,
          queueResults, queueWaiters, queuePermit, queuePc, queueSeen, queueKeyed,
          queueClient
queueVars == <<queuePool, queuePerAccount, queueEndpoint, queueInflight, queueJobs,
               queueResults, queueWaiters, queuePermit, queuePc, queueSeen, queueKeyed,
               queueClient>>
Queue == INSTANCE PlaybackQueue WITH
  Track <- QueueTracks, pool <- queuePool,
  perAccount <- queuePerAccount, endpoint <- queueEndpoint, inflight <- queueInflight,
  jobs <- queueJobs, results <- queueResults, waiters <- queueWaiters,
  permit <- queuePermit, pc <- queuePc, seen <- queueSeen, keyed <- queueKeyed,
  client <- queueClient
QueueAbsent == /\ queuePool = 0 /\ queuePerAccount = 0 /\ queueEndpoint = 0
               /\ queueInflight = 0 /\ queueJobs = 0 /\ queueResults = 0
               /\ queueWaiters = 0 /\ queuePermit = 0 /\ queuePc = 0 /\ queueSeen = 0
               /\ queueKeyed = 0 /\ queueClient = 0

-----------------------------------------------------------------------------
VARIABLES poolGen, poolCatalog, poolStatus, poolInflight, poolSlots, poolResting,
          poolPicks, poolSetting, poolPc, poolRules, poolHeld, poolFailed, poolMaxTry,
          poolFirst, poolHits, poolLimited, poolSecond, poolNotified, poolLate,
          poolFull, poolAfter429
poolVars == <<poolGen, poolCatalog, poolStatus, poolInflight, poolSlots, poolResting,
              poolPicks, poolSetting, poolPc, poolRules, poolHeld, poolFailed,
              poolMaxTry, poolFirst, poolHits, poolLimited, poolSecond, poolNotified,
              poolLate, poolFull, poolAfter429>>
Pool == INSTANCE AccountPool WITH
  gen <- poolGen, catalog <- poolCatalog, status <- poolStatus,
  inflight <- poolInflight, slots <- poolSlots, resting <- poolResting,
  picks <- poolPicks, setting <- poolSetting, pc <- poolPc, rules <- poolRules,
  held <- poolHeld, failed <- poolFailed, maxTry <- poolMaxTry, first <- poolFirst,
  hits <- poolHits, limited <- poolLimited, second <- poolSecond,
  notified <- poolNotified, late <- poolLate, full <- poolFull,
  after429 <- poolAfter429
Failover == INSTANCE AccountPool WITH
  Account <- Backups, Track <- {}, Meta <- BackupMeta, Limits <- BackupLimits,
  PerHour <- BackupPerHour, MaxGen <- BackupMaxGen, Events <- BackupEvents,
  gen <- poolGen, catalog <- poolCatalog, status <- poolStatus,
  inflight <- poolInflight, slots <- poolSlots, resting <- poolResting,
  picks <- poolPicks, setting <- poolSetting, pc <- poolPc, rules <- poolRules,
  held <- poolHeld, failed <- poolFailed, maxTry <- poolMaxTry, first <- poolFirst,
  hits <- poolHits, limited <- poolLimited, second <- poolSecond,
  notified <- poolNotified, late <- poolLate, full <- poolFull,
  after429 <- poolAfter429
PoolAbsent == /\ poolGen = 0 /\ poolCatalog = 0 /\ poolStatus = 0 /\ poolInflight = 0
              /\ poolSlots = 0 /\ poolResting = 0 /\ poolPicks = 0 /\ poolSetting = 0
              /\ poolPc = 0 /\ poolRules = 0 /\ poolHeld = 0 /\ poolFailed = 0
              /\ poolMaxTry = 0 /\ poolFirst = 0 /\ poolHits = 0 /\ poolLimited = 0
              /\ poolSecond = 0 /\ poolNotified = 0 /\ poolLate = 0 /\ poolFull = 0
              /\ poolAfter429 = 0

-----------------------------------------------------------------------------
(* What PlaybackQueue and AccountPool ask of their constants. *)

ASSUME ServiceAssumption ==
  /\ Services \subseteq {"queue", "pool", "failover"}
  /\ IsFiniteSet(Req) /\ Uncached \notin QueueTracks
  /\ OpOf \in [Req -> QueueTracks \cup {Uncached}]
  /\ NoAnswer \notin Endpoint /\ Endpoint # {}
  /\ MaxPool \in Nat \ {0} /\ PerAccount \subseteq Nat /\ PerAccount # {}
  /\ UsizeMax \in Nat \ {0} /\ PendingTimeout \in Nat /\ JobTTL \in Nat
  /\ Pool!PoolParameters /\ Failover!PoolParameters

-----------------------------------------------------------------------------
(* One component moves in a behaviour; the others are absent. *)

serviceVars == <<service, queueVars, poolVars>>

ServiceInit ==
  /\ service \in Services
  /\ IF service = "queue" THEN Queue!Init ELSE QueueAbsent
  /\ CASE service = "pool" -> Pool!Init
       [] service = "failover" -> Failover!Init
       [] service = "queue" -> PoolAbsent

QueueMoves == /\ service = "queue" /\ Queue!Next
              /\ UNCHANGED <<service, poolVars>>
PoolMoves == /\ service = "pool" /\ Pool!Next
             /\ UNCHANGED <<service, queueVars>>
FailoverMoves == /\ service = "failover" /\ Failover!Next
                 /\ UNCHANGED <<service, queueVars>>

ServiceNext == \/ QueueMoves
               \/ PoolMoves
               \/ FailoverMoves

ServiceSpec == ServiceInit /\ [][ServiceNext]_serviceVars

ServiceFairness ==
  /\ \A r \in Req :
       /\ WF_queueVars(service = "queue" /\ Queue!TaskStep(r))
       /\ WF_queueVars(service = "queue" /\ Queue!Poll(r))
  /\ WF_queueVars(service = "queue" /\ Queue!Tick)
  /\ WF_queueVars(service = "queue" /\ Queue!Reap)
  /\ \A r \in Track \cup Meta :
       /\ WF_poolVars(service = "pool" /\ Pool!RequestStep(r))
       /\ WF_poolVars(service = "pool" /\ Pool!WaitOver(r))

ServiceFairSpec == ServiceSpec /\ ServiceFairness

-----------------------------------------------------------------------------
\* PlaybackQueue: the pending jobs never exceed what the pool allows, although handlers
\* count the queue and insert their job concurrently.
QueueBound == service = "queue" => Queue!QueueBound

\* PlaybackQueue: every client that polls is answered, lost wake-ups included.
WaiterAnswered == <>[](service = "queue" => Queue!NobodyWaits)

\* PlaybackQueue: every job is reclaimed, that of a dropped handler included.
JobsReclaimed == <>[](service = "queue" => Queue!TableEmpty)

\* AccountPool: no request waits for an account for ever.
RequestsEnd == <>[](service = "pool" => Pool!AllEnded)

\* AccountPool: the in-flight counters of every account object are exactly the leases
\* and slots taken on it, through edits, failed attempts and clients that go away, and
\* no object has more requests under way than the widest limit set.
LeasesSound ==
  /\ service = "pool" => Pool!TypeOK /\ Pool!CountersExact /\ Pool!LimitRespected
  /\ service = "failover" =>
       Failover!TypeOK /\ Failover!CountersExact /\ Failover!LimitRespected

\* AccountPool: a request that goes to sleep has not missed a release since it found
\* all accounts full.
PoolNoMissedRelease == /\ service = "pool" => Pool!NoMissedRelease
                       /\ service = "failover" => Failover!NoMissedRelease

\* AccountPool: a 429 reaches at most RATE_LIMIT_FALLBACKS more credentials, whatever
\* other failures the request meets between.
PoolFallbacksBounded == /\ service = "pool" => Pool!FallbacksBounded
                        /\ service = "failover" => Failover!FallbacksBounded

=============================================================================
