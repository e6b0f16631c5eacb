---------------------------- MODULE PlaybackQueue ----------------------------
(***************************************************************************)
(* The bounded playback queue of src/playback.rs: a slot gate (`inflight`, *)
(* compare-and-swap), the table of pollable jobs, the Notify that wakes    *)
(* waiting workers, the 120 s cache of answers, and the tasks around them: *)
(* the HTTP handler of `dispatch`, the background worker it spawns, the    *)
(* polling client, the admin drain and the reaper.                         *)
(*                                                                         *)
(* pc[r] is the program counter of the task that currently serves request  *)
(* r: the handler up to the moment it spawns the worker, the worker after. *)
(* Each label is an await point or an atomic operation on shared state, so *)
(* every interleaving of the multi-threaded runtime is a behaviour.        *)
(*                                                                         *)
(* Timestamps are kept as ages: only `now - last_polled_at` and            *)
(* `now - finished_at` are ever read, against one threshold each, so an    *)
(* age that has passed its threshold need not grow any more.               *)
(***************************************************************************)
EXTENDS Integers, Sequences, FiniteSets, Functions

CONSTANTS
  Req,              \* requests; each is dispatched once and owns at most one job
  Track,            \* cacheable operations (Track, Manifest, Dash)
  Uncached,         \* stands for Video and Widevine, which are never cached
  OpOf,             \* OpOf[r]: the operation request r asks for
  Endpoint,         \* values of the v1_playback_endpoint setting
  NoAnswer,         \* an absent cache entry
  MaxPool,          \* bound on the accounts that can serve at one time
  PerAccount,       \* values of track_concurrency_per_account; 0 lifts the limit
  UsizeMax,         \* usize::MAX, the capacity without a limit
  PendingTimeout,   \* PENDING_TIMEOUT_SECS, in ticks
  JobTTL            \* JOB_TTL_SECS, in ticks

ASSUME QueueAssumption ==
  /\ IsFiniteSet(Req)
  /\ Uncached \notin Track
  /\ OpOf \in [Req -> Track \cup {Uncached}]
  /\ NoAnswer \notin Endpoint
  /\ Endpoint # {}
  /\ MaxPool \in Nat \ {0}
  /\ PerAccount \subseteq Nat
  /\ PerAccount # {}
  /\ UsizeMax \in Nat \ {0}
  /\ PendingTimeout \in Nat
  /\ JobTTL \in Nat

VARIABLES
  pool,         \* AccountManager::playback_slots() now
  perAccount,   \* settings.track_concurrency_per_account() now
  endpoint,     \* settings.v1_playback_endpoint() now
  inflight,     \* the AtomicUsize behind try_acquire / release
  jobs,         \* the job table: one record per request, state "none" if absent
  results,      \* answer cached under a key: the endpoint that produced it
  waiters,      \* workers parked in wakeup.notified(), oldest first
  permit,       \* the permit notify_one stores when nobody is parked
  pc,           \* where the task serving each request stands
  seen,         \* the capacity that task read and still has to use, else 0
  keyed,        \* the endpoint setting that went into its cache key
  client        \* "new", "waiting" (got a 202), "answered" or "left"

env   == <<pool, perAccount, endpoint>>
table == <<jobs, results>>
gate  == <<inflight, waiters, permit>>
task  == <<pc, seen, keyed>>
vars  == <<pool, perAccount, endpoint, inflight, jobs, results, waiters, permit,
           pc, seen, keyed, client>>

----------------------------------------------------------------------------
(* Jobs and time *)

NotFinished == -1
JobState == {"none", "pending", "processing", "completed", "failed", "cancelled"}
Finished == {"completed", "failed", "cancelled"}

Job == [state : JobState, idle : 0 .. PendingTimeout + 1, fin : NotFinished .. JobTTL + 1]
NoJob == [state |-> "none", idle |-> 0, fin |-> NotFinished]
NewJob == [state |-> "pending", idle |-> 0, fin |-> NotFinished]

Live(j) == j.state \in {"pending", "processing"}

\* A job that ends now: finished_at is stamped together with the verdict. (The
\* age of the last poll is read for pending jobs only and kept for those.)
Ended(verdict) == [state |-> verdict, idle |-> 0, fin |-> 0]

\* A live job in state s whose idle clock starts over.
Touched(j, s) == [state |-> s, idle |-> 0, fin |-> j.fin]

\* Seeded fault: only finished jobs are pruned, abandoned ones stay pending.
PruneJob_KeepsAbandoned(j) == IF j.fin > JobTTL THEN NoJob ELSE j

\* prune_sync: drop what finished more than JOB_TTL_SECS ago, then cancel the
\* pending jobs nobody polled for more than PENDING_TIMEOUT_SECS.
PruneJob(j) ==
  IF j.fin > JobTTL THEN NoJob
  ELSE IF j.state = "pending" /\ j.idle > PendingTimeout THEN Ended("cancelled")
  ELSE j

Prune(js) == [r \in Req |-> PruneJob(js[r])]

\* Seeded fault: the age of an unpolled job grows without saturating.
AgeJob_Unbounded(j) ==
  [state |-> j.state,
   idle |-> IF j.state = "pending" THEN j.idle + 1 ELSE j.idle,
   fin |-> IF j.fin >= 0 /\ j.fin =< JobTTL THEN j.fin + 1 ELSE j.fin]

\* One tick of the wall clock for one job.
AgeJob(j) ==
  [state |-> j.state,
   idle |-> IF j.state = "pending" /\ j.idle =< PendingTimeout THEN j.idle + 1 ELSE j.idle,
   fin |-> IF j.fin >= 0 /\ j.fin =< JobTTL THEN j.fin + 1 ELSE j.fin]

Pending == {r \in Req : jobs[r].state = "pending"}

----------------------------------------------------------------------------
(* The slot gate *)

AtLeastOne(n) == IF n < 1 THEN 1 ELSE n
Smaller(m, n) == IF m < n THEN m ELSE n

\* capacity(): accounts times the per-account setting, saturating; 0 = no limit.
Capacity(accounts, per) == IF per = 0 THEN UsizeMax ELSE Smaller(UsizeMax, accounts * per)

MAX_QUEUE_FACTOR == 1

\* Seeded fault: the queue is full one job too late.
OverCapacity_OffByOne(pending, cap) ==
  pending > Smaller(UsizeMax, AtLeastOne(cap) * MAX_QUEUE_FACTOR)

OverCapacity(pending, cap) == pending >= Smaller(UsizeMax, AtLeastOne(cap) * MAX_QUEUE_FACTOR)

\* The program points at which a task owns a SlotGuard.
HoldsSlot == {"h_run", "w_start", "w_run", "w_ok", "w_failed", "release"}
Holders == {r \in Req : pc[r] \in HoldsSlot}

\* Where a request has no job yet, where its job is queued, where it is run.
BeforeJob == {"idle", "h_size", "h_try", "h_queue", "h_run"}
Queued == {"h_spawn", "w_check", "w_size", "w_try", "w_park", "w_sleep", "w_start"}
Running == {"w_run", "w_ok", "w_failed"}

-----------------------------------------------------------------------------
(* dispatch: the HTTP handler *)

\* prune, then the cache lookup under the key built from the current settings.
Dispatch(r) ==
  /\ pc[r] = "idle"
  /\ jobs' = Prune(jobs)
  /\ keyed' = [keyed EXCEPT ![r] = endpoint]
  /\ \/ /\ OpOf[r] \in Track
        /\ results[<<OpOf[r], endpoint>>] # NoAnswer
        /\ pc' = [pc EXCEPT ![r] = "done"]
        /\ client' = [client EXCEPT ![r] = "answered"]
     \/ /\ OpOf[r] \in Track => results[<<OpOf[r], endpoint>>] = NoAnswer
        /\ pc' = [pc EXCEPT ![r] = "h_size"]
        /\ UNCHANGED client
  /\ UNCHANGED <<env, gate, results, seen>>

\* pool_size().await: the capacity is read here and used by later steps.
HandlerReadsCapacity(r) ==
  /\ pc[r] = "h_size"
  /\ seen' = [seen EXCEPT ![r] = Capacity(pool, perAccount)]
  /\ pc' = [pc EXCEPT ![r] = "h_try"]
  /\ UNCHANGED <<env, gate, table, keyed, client>>

\* Seeded fault: the gate compares the counter with =<.
TryAcquire_OffByOne(r, taken, refused) ==
  /\ inflight =< AtLeastOne(seen[r])
  /\ inflight' = inflight + 1
  /\ pc' = [pc EXCEPT ![r] = taken]
  /\ seen' = [seen EXCEPT ![r] = 0]

\* try_acquire: the compare-and-swap loop succeeds iff a slot is free.
TryAcquire(r, taken, refused) ==
  \/ /\ inflight < AtLeastOne(seen[r])
     /\ inflight' = inflight + 1
     /\ pc' = [pc EXCEPT ![r] = taken]
     /\ seen' = [seen EXCEPT ![r] = 0]
  \/ /\ inflight >= AtLeastOne(seen[r])
     /\ pc' = [pc EXCEPT ![r] = refused]
     /\ seen' = [seen EXCEPT ![r] = IF refused = "h_queue" THEN @ ELSE 0]
     /\ UNCHANGED inflight

HandlerTriesSlot(r) ==
  /\ pc[r] = "h_try"
  /\ TryAcquire(r, "h_run", "h_queue")
  /\ UNCHANGED <<env, table, waiters, permit, keyed, client>>

\* Under the write lock: shed the request when the queue is full, else insert.
Enqueue(r) ==
  /\ pc[r] = "h_queue"
  /\ \/ /\ OverCapacity(Cardinality(Pending), seen[r])
        /\ pc' = [pc EXCEPT ![r] = "done"]
        /\ client' = [client EXCEPT ![r] = "answered"]
        /\ UNCHANGED jobs
     \/ /\ ~OverCapacity(Cardinality(Pending), seen[r])
        /\ jobs' = [jobs EXCEPT ![r] = NewJob]
        /\ pc' = [pc EXCEPT ![r] = "h_spawn"]
        /\ UNCHANGED client
  /\ seen' = [seen EXCEPT ![r] = 0]
  /\ UNCHANGED <<env, gate, results, keyed>>

\* After pending_position().await the worker is spawned and the 202 is sent.
Spawn(r) ==
  /\ pc[r] = "h_spawn"
  /\ pc' = [pc EXCEPT ![r] = "w_check"]
  /\ client' = [client EXCEPT ![r] = "waiting"]
  /\ UNCHANGED <<env, gate, table, seen, keyed>>

\* Seeded fault: the dropped handler does not return its slot.
Disconnect_LeaksSlot(r) ==
  /\ pc[r] \in {"h_size", "h_queue", "h_spawn", "h_run"}
  /\ pc' = [pc EXCEPT ![r] = "done"]
  /\ seen' = [seen EXCEPT ![r] = 0]
  /\ client' = [client EXCEPT ![r] = "left"]
  /\ UNCHANGED <<env, gate, table, keyed>>

\* The connection closes and the handler future is dropped at an await. A held
\* SlotGuard is dropped with it; a job inserted before the worker exists stays.
Disconnect(r) ==
  /\ pc[r] \in {"h_size", "h_queue", "h_spawn", "h_run"}
  /\ pc' = [pc EXCEPT ![r] = IF pc[r] = "h_run" THEN "release" ELSE "done"]
  /\ seen' = [seen EXCEPT ![r] = 0]
  /\ client' = [client EXCEPT ![r] = "left"]
  /\ UNCHANGED <<env, gate, table, keyed>>

-----------------------------------------------------------------------------
(* The background worker *)

\* Stop if the job was cancelled, expired or dropped while queued.
WorkerChecks(r) ==
  /\ pc[r] = "w_check"
  /\ pc' = [pc EXCEPT ![r] = IF jobs[r].state \in {"cancelled", "none"} THEN "done" ELSE "w_size"]
  /\ UNCHANGED <<env, gate, table, seen, keyed, client>>

WorkerReadsCapacity(r) ==
  /\ pc[r] = "w_size"
  /\ seen' = [seen EXCEPT ![r] = Capacity(pool, perAccount)]
  /\ pc' = [pc EXCEPT ![r] = "w_try"]
  /\ UNCHANGED <<env, gate, table, keyed, client>>

WorkerTriesSlot(r) ==
  /\ pc[r] = "w_try"
  /\ TryAcquire(r, "w_start", "w_park")
  /\ UNCHANGED <<env, table, waiters, permit, keyed, client>>

\* notified(): take a stored permit, or park at the tail of the wait list.
Park(r) ==
  /\ pc[r] = "w_park"
  /\ \/ /\ permit
        /\ permit' = FALSE
        /\ pc' = [pc EXCEPT ![r] = "w_check"]
        /\ UNCHANGED waiters
     \/ /\ ~permit
        /\ waiters' = Append(waiters, r)
        /\ pc' = [pc EXCEPT ![r] = "w_sleep"]
        /\ UNCHANGED permit
  /\ UNCHANGED <<env, table, inflight, seen, keyed, client>>

\* Seeded fault: a worker that times out stays registered with the Notify.
SlotWaitElapsed_StaysParked(r) ==
  /\ pc[r] = "w_sleep"
  /\ pc' = [pc EXCEPT ![r] = "w_check"]
  /\ UNCHANGED <<env, table, gate, seen, keyed, client>>

\* SLOT_WAIT_SECS elapsed: the other branch of the select.
SlotWaitElapsed(r) ==
  /\ pc[r] = "w_sleep"
  /\ pc' = [pc EXCEPT ![r] = "w_check"]
  /\ \E i \in 1 .. Len(waiters) :
       /\ waiters[i] = r
       /\ waiters' = SubSeq(waiters, 1, i - 1) \o SubSeq(waiters, i + 1, Len(waiters))
  /\ UNCHANGED <<env, table, inflight, permit, seen, keyed, client>>

\* The slot is held: re-check under the write lock, then mark Processing.
Start(r) ==
  /\ pc[r] = "w_start"
  /\ \/ /\ jobs[r].state \in {"cancelled", "none"}
        /\ pc' = [pc EXCEPT ![r] = "release"]
        /\ UNCHANGED jobs
     \/ /\ jobs[r].state \notin {"cancelled", "none"}
        /\ jobs' = [jobs EXCEPT ![r] = Touched(@, "processing")]
        /\ pc' = [pc EXCEPT ![r] = "w_run"]
  /\ UNCHANGED <<env, gate, results, seen, keyed, client>>

\* run_op under OP_TIMEOUT_SECS gives an answer, an error or the timeout. It
\* reads the endpoint setting when it runs; an answer is cached under the key
\* computed when the request was dispatched.
OpOutcome == {"ok", "err", "timeout"}

CacheAnswer(r, how) ==
  results' = IF how = "ok" /\ OpOf[r] \in Track
             THEN [results EXCEPT ![<<OpOf[r], keyed[r]>>] = endpoint]
             ELSE results

\* The handler answers its own client and drops the SlotGuard.
HandlerOpEnds(r, how) ==
  /\ pc[r] = "h_run"
  /\ CacheAnswer(r, how)
  /\ pc' = [pc EXCEPT ![r] = "release"]
  /\ client' = [client EXCEPT ![r] = "answered"]
  /\ UNCHANGED <<env, gate, jobs, seen, keyed>>

WorkerOpEnds(r, how) ==
  /\ pc[r] = "w_run"
  /\ CacheAnswer(r, how)
  /\ pc' = [pc EXCEPT ![r] = IF how = "ok" THEN "w_ok" ELSE "w_failed"]
  /\ UNCHANGED <<env, gate, jobs, seen, keyed, client>>

\* Seeded fault: the worker publishes its verdict without looking at the state.
Finish_OverwritesCancel(r) ==
  /\ pc[r] \in {"w_ok", "w_failed"}
  /\ jobs' = IF jobs[r].state = "none" THEN jobs
             ELSE [jobs EXCEPT ![r] = Ended(IF pc[r] = "w_ok" THEN "completed" ELSE "failed")]
  /\ pc' = [pc EXCEPT ![r] = "release"]
  /\ UNCHANGED <<env, gate, results, seen, keyed, client>>

\* Seeded fault: only a success is written back.
Finish_DropsFailure(r) ==
  /\ pc[r] \in {"w_ok", "w_failed"}
  /\ jobs' = IF jobs[r].state \in {"cancelled", "none"} \/ pc[r] = "w_failed" THEN jobs
             ELSE [jobs EXCEPT ![r] = Ended("completed")]
  /\ pc' = [pc EXCEPT ![r] = "release"]
  /\ UNCHANGED <<env, gate, results, seen, keyed, client>>

\* The verdict is written under the write lock unless a canceller was first.
Finish(r) ==
  /\ pc[r] \in {"w_ok", "w_failed"}
  /\ jobs' = IF jobs[r].state \in {"cancelled", "none"} THEN jobs
             ELSE [jobs EXCEPT ![r] = Ended(IF pc[r] = "w_ok" THEN "completed" ELSE "failed")]
  /\ pc' = [pc EXCEPT ![r] = "release"]
  /\ UNCHANGED <<env, gate, results, seen, keyed, client>>

\* Drop of the SlotGuard: saturating decrement, then notify_one.
Release(r) ==
  /\ pc[r] = "release"
  /\ inflight' = IF inflight > 0 THEN inflight - 1 ELSE 0
  /\ \/ /\ waiters # <<>>
        /\ waiters' = Tail(waiters)
        /\ pc' = [pc EXCEPT ![r] = "done", ![Head(waiters)] = "w_check"]
        /\ UNCHANGED permit
     \/ /\ waiters = <<>>
        /\ permit' = TRUE
        /\ pc' = [pc EXCEPT ![r] = "done"]
        /\ UNCHANGED waiters
  /\ UNCHANGED <<env, table, seen, keyed, client>>

-----------------------------------------------------------------------------
(* The polling client, the owner and the clock *)

\* GET /playback/requests/{id}: prune, heartbeat, answer.
Poll(r) ==
  /\ client[r] = "waiting"
  /\ LET js == Prune(jobs) IN
       /\ jobs' = IF Live(js[r]) THEN [js EXCEPT ![r] = Touched(@, @.state)] ELSE js
       /\ client' = IF Live(js[r]) THEN client ELSE [client EXCEPT ![r] = "answered"]
  /\ UNCHANGED <<env, gate, results, task>>

\* The client stops polling without a word.
Abandon(r) ==
  /\ client[r] = "waiting"
  /\ client' = [client EXCEPT ![r] = "left"]
  /\ UNCHANGED <<env, gate, table, task>>

\* DELETE /playback/requests/{id}; it does not wake the worker.
Cancel(r) ==
  /\ client[r] = "waiting"
  /\ LET js == Prune(jobs) IN
       jobs' = IF Live(js[r]) THEN [js EXCEPT ![r] = Ended("cancelled")] ELSE js
  /\ client' = [client EXCEPT ![r] = "answered"]
  /\ UNCHANGED <<env, gate, results, task>>

\* POST /admin/playback/clear: cancel every live job and notify_waiters.
ClearQueue ==
  /\ LET js == Prune(jobs) IN
       jobs' = [r \in Req |-> IF Live(js[r]) THEN Ended("cancelled") ELSE js[r]]
  /\ pc' = [r \in Req |-> IF pc[r] = "w_sleep" THEN "w_check" ELSE pc[r]]
  /\ waiters' = <<>>
  /\ UNCHANGED <<env, results, inflight, permit, seen, keyed, client>>

\* The 5 s reaper of start_reaper.
Reap ==
  /\ jobs' = Prune(jobs)
  /\ UNCHANGED <<env, gate, results, task, client>>

\* moka drops an entry after TRACK_CACHE_SECS or under capacity pressure.
CacheExpires(k) ==
  /\ results[k] # NoAnswer
  /\ results' = [results EXCEPT ![k] = NoAnswer]
  /\ UNCHANGED <<env, gate, jobs, task, client>>

\* Admin "clear cache".
ClearCache ==
  /\ results' = [k \in Track \X Endpoint |-> NoAnswer]
  /\ UNCHANGED <<env, gate, jobs, task, client>>

Tick ==
  /\ jobs' = [r \in Req |-> AgeJob(jobs[r])]
  /\ UNCHANGED <<env, gate, results, task, client>>

\* Accounts gain or lose tokens, pause, are enabled and disabled.
PoolChanges(n) ==
  /\ pool' = n
  /\ UNCHANGED <<perAccount, endpoint, gate, table, task, client>>

SettingChanges(per, e) ==
  /\ perAccount' = per
  /\ endpoint' = e
  /\ UNCHANGED <<pool, gate, table, task, client>>

-----------------------------------------------------------------------------
Init ==
  /\ pool \in 1 .. MaxPool
  /\ perAccount \in PerAccount
  /\ endpoint \in Endpoint
  /\ inflight = 0
  /\ jobs = [r \in Req |-> NoJob]
  /\ results = [k \in Track \X Endpoint |-> NoAnswer]
  /\ waiters = <<>>
  /\ permit = FALSE
  /\ pc = [r \in Req |-> "idle"]
  /\ seen = [r \in Req |-> 0]
  /\ keyed = [r \in Req |-> endpoint]
  /\ client = [r \in Req |-> "new"]

\* What the runtime schedules for request r once it has been dispatched.
TaskStep(r) ==
  \/ HandlerReadsCapacity(r)
  \/ HandlerTriesSlot(r)
  \/ Enqueue(r)
  \/ Spawn(r)
  \/ WorkerChecks(r)
  \/ WorkerReadsCapacity(r)
  \/ WorkerTriesSlot(r)
  \/ Park(r)
  \/ SlotWaitElapsed(r)
  \/ Start(r)
  \/ \E how \in OpOutcome : HandlerOpEnds(r, how) \/ WorkerOpEnds(r, how)
  \/ Finish(r)
  \/ Release(r)

ClientStep(r) == Dispatch(r) \/ Disconnect(r) \/ Poll(r) \/ Abandon(r) \/ Cancel(r)

Environment ==
  \/ ClearQueue
  \/ Reap
  \/ \E k \in Track \X Endpoint : CacheExpires(k)
  \/ ClearCache
  \/ Tick
  \/ \E n \in 1 .. MaxPool : PoolChanges(n)
  \/ \E per \in PerAccount, e \in Endpoint : SettingChanges(per, e)

Next == Environment \/ \E r \in Req : TaskStep(r) \/ ClientStep(r)

Spec == Init /\ [][Next]_vars

\* The runtime keeps polling ready tasks, every upstream operation ends by its
\* timeout, the select has a timer, the clock and the reaper never stop, and a
\* client that was told 202 polls until it is answered (or leaves).
Fairness ==
  /\ \A r \in Req : WF_vars(TaskStep(r)) /\ WF_vars(Poll(r))
  /\ WF_vars(Tick)
  /\ WF_vars(Reap)

FairSpec == Spec /\ Fairness

-----------------------------------------------------------------------------
(* Properties *)

TaskState == BeforeJob \cup Queued \cup Running \cup {"release", "done"}

\* Every variable has its type: the shape of PlaybackQueue and of its jobs.
TypeOK ==
  /\ pool \in 1 .. MaxPool
  /\ perAccount \in PerAccount
  /\ endpoint \in Endpoint
  /\ inflight \in Nat
  /\ jobs \in [Req -> Job]
  /\ results \in [Track \X Endpoint -> Endpoint \cup {NoAnswer}]
  /\ waiters \in Seq(Req)
  /\ permit \in BOOLEAN
  /\ pc \in [Req -> TaskState]
  /\ seen \in [Req -> Nat]
  /\ keyed \in [Req -> Endpoint]
  /\ client \in [Req -> {"new", "waiting", "answered", "left"}]

\* The in-flight counter equals the number of tasks that own a SlotGuard, in
\* every interleaving of acquire, disconnect, cancel, finish and release: no
\* slot is leaked and none is returned twice (release saturates at 0, so a
\* double return would go unnoticed by the code itself).
SlotAccounting == inflight = Cardinality(Holders)

\* A gate as wide as any capacity the pool ever had.
WithinSomeGate(n) ==
  \E p \in 1 .. MaxPool, per \in PerAccount : n =< AtLeastOne(Capacity(p, per))

\* No schedule runs more operations at once than the widest capacity allows,
\* although every task compares the counter with a capacity it read earlier.
GateBound == WithinSomeGate(inflight)

\* The queue of pending jobs is bounded the same way: the check and the insert
\* share one write lock, so concurrent dispatches cannot overshoot the cap.
QueueBound == WithinSomeGate(Cardinality(Pending))

StampedIfFinished(j) == j.fin # NotFinished <=> j.state \in Finished

JobAccountedFor(r) ==
  /\ StampedIfFinished(jobs[r])
  /\ pc[r] \in BeforeJob => jobs[r].state = "none"
  /\ pc[r] \in Queued => jobs[r].state \in {"pending", "cancelled", "none"}
  /\ pc[r] \in Running => jobs[r].state \in {"processing", "cancelled", "none"}
  /\ pc[r] \in {"release", "done"} =>
       /\ jobs[r].state # "processing"
       /\ jobs[r].state = "pending" => pc[r] = "done" /\ client[r] = "left"

\* The job table and the tasks agree, so that every job is either on its way to
\* a verdict or stamped for the reaper: a processing job has a worker that will
\* finish it (prune never expires it), a pending one has a worker, or lost its
\* handler between the insert and the spawn (prune expires it), and exactly the
\* finished jobs carry finished_at.
JobsAccountedFor == \A r \in Req : JobAccountedFor(r)

\* The wait list of the Notify holds exactly the sleeping workers, each once:
\* a timer that fires takes its worker off the list, so that no later release
\* is spent on a worker that has already moved on.
WaitersSound ==
  /\ IsInjective(waiters)
  /\ Range(waiters) = {r \in Req : pc[r] = "w_sleep"}

Lifecycle == INSTANCE JobLifecycle WITH phase <- [r \in Req |-> jobs[r].state]

\* The job table implements the life cycle clients are promised: in particular
\* a late result never overwrites a cancellation, and no cancelled or expired
\* job is ever started.
LifecycleSpec == Lifecycle!Spec

\* A client that keeps polling its 202 is answered in the end: the job runs,
\* fails, is cancelled or expires, whatever wake-ups are lost on the way. (Every
\* request is dispatched once, so "each is answered" is "in the end none waits".)
NobodyWaits == \A r \in Req : client[r] # "waiting"
WaiterAnswered == <>[]NobodyWaits

\* Nothing stays in the job table for ever, jobs whose handler was dropped
\* between the insert and the spawn of the worker included.
TableEmpty == \A r \in Req : jobs[r].state = "none"
JobsReclaimed == <>[]TableEmpty

\* "Identity of a cacheable answer: every input that shapes it, plus the
\* server's playback preferences" (cache_key): an answer found under a key was
\* produced with the endpoint setting that is part of the key.
KeyIdentifiesAnswer ==
  \A k \in Track \X Endpoint : results[k] \in {NoAnswer, k[2]}

=============================================================================
