------------------------- MODULE PlaybackQueueProofs -------------------------
(***************************************************************************)
(* Theorems about PlaybackQueue for every set of requests, every pool size *)
(* and every setting, checked by TLAPS.                                    *)
(***************************************************************************)
EXTENDS PlaybackQueue, FiniteSetTheorems, SequenceTheorems, TLAPS

----------------------------------------------------------------------------
(* The operators on jobs and capacities *)

\* A verdict stamped on a job is a job.
LEMMA EndedType ==
  ASSUME NEW verdict \in JobState
  PROVE  Ended(verdict) \in Job
BY QueueAssumption DEF Ended, Job, JobState, NotFinished

LEMMA TouchedType ==
  ASSUME NEW j \in Job, NEW s \in JobState
  PROVE  Touched(j, s) \in Job
BY QueueAssumption DEF Touched, Job, JobState, NotFinished

\* prune_sync maps jobs to jobs.
LEMMA PruneJobType ==
  ASSUME NEW j \in Job
  PROVE  PruneJob(j) \in Job
BY QueueAssumption, EndedType DEF PruneJob, NoJob, Job, JobState, NotFinished

LEMMA PruneType ==
  ASSUME NEW js \in [Req -> Job]
  PROVE  Prune(js) \in [Req -> Job]
BY PruneJobType DEF Prune

\* The saturating ages stay within their intervals.
LEMMA AgeJobType ==
  ASSUME NEW j \in Job
  PROVE  AgeJob(j) \in Job
BY QueueAssumption DEF AgeJob, Job, JobState, NotFinished

\* A capacity is a natural number: the product saturates at usize::MAX.
LEMMA CapacityType ==
  ASSUME NEW p \in Nat, NEW per \in Nat
  PROVE  Capacity(p, per) \in Nat
BY QueueAssumption DEF Capacity, Smaller

LEMMA CapacityNow == TypeOK => Capacity(pool, perAccount) \in Nat
<1> SUFFICES ASSUME TypeOK PROVE Capacity(pool, perAccount) \in Nat
  OBVIOUS
<1>1. pool \in Nat /\ perAccount \in Nat
  BY QueueAssumption DEF TypeOK
<1> QED
  BY <1>1, CapacityType

----------------------------------------------------------------------------
(* Type correctness *)

LEMMA InitType == Init => TypeOK
<1> SUFFICES ASSUME Init PROVE TypeOK
  OBVIOUS
<1>1. NoJob \in Job
  BY QueueAssumption DEF NoJob, Job, JobState, NotFinished
<1>2. permit \in BOOLEAN
  BY Zenon DEF Init
<1>3. pc \in [Req -> TaskState]
  BY DEF Init, TaskState, BeforeJob
<1> QED
  BY <1>1, <1>2, <1>3 DEF Init, TypeOK

\* What try_acquire leaves behind, whichever way it goes.
LEMMA TryAcquireType ==
  ASSUME TypeOK, NEW r \in Req, NEW taken \in TaskState, NEW refused \in TaskState,
         TryAcquire(r, taken, refused)
  PROVE  /\ inflight' \in Nat
         /\ pc' \in [Req -> TaskState]
         /\ seen' \in [Req -> Nat]
<1>1. inflight' \in Nat
  BY DEF TypeOK, TryAcquire
<1>2. pc' \in [Req -> TaskState]
  BY DEF TypeOK, TryAcquire
<1>3. seen' \in [Req -> Nat]
  <2>1. seen \in [Req -> Nat] /\ seen[r] \in Nat
    BY DEF TypeOK
  <2>2. seen' = [seen EXCEPT ![r] = 0] \/ seen' = [seen EXCEPT ![r] = seen[r]]
    <3>1. CASE refused = "h_queue"
      BY <3>1 DEF TryAcquire
    <3>2. CASE refused # "h_queue"
      BY <3>2 DEF TryAcquire
    <3> QED BY <3>1, <3>2
  <2> QED BY <2>1, <2>2
<1> QED
  BY <1>1, <1>2, <1>3

\* One step of the task that serves r keeps the types.
LEMMA TaskType ==
  ASSUME TypeOK, NEW r \in Req, TaskStep(r)
  PROVE  TypeOK'
<1> USE DEF TypeOK, env, table, gate, task, TaskState, BeforeJob, Queued, Running
<1>1. CASE HandlerReadsCapacity(r)
  <2>1. Capacity(pool, perAccount) \in Nat
    BY CapacityNow
  <2> QED BY <1>1, <2>1 DEF HandlerReadsCapacity
<1>2. CASE HandlerTriesSlot(r)
  <2>1. "h_run" \in TaskState /\ "h_queue" \in TaskState
    OBVIOUS
  <2>2. inflight' \in Nat /\ pc' \in [Req -> TaskState] /\ seen' \in [Req -> Nat]
    BY <1>2, <2>1, TryAcquireType DEF HandlerTriesSlot
  <2> QED BY <1>2, <2>2 DEF HandlerTriesSlot
<1>3. CASE Enqueue(r)
  <2>1. NewJob \in Job
    BY QueueAssumption DEF NewJob, Job, JobState, NotFinished
  <2> QED BY <1>3, <2>1 DEF Enqueue
<1>4. CASE Spawn(r)
  BY <1>4 DEF Spawn
<1>5. CASE WorkerChecks(r)
  BY <1>5 DEF WorkerChecks
<1>6. CASE WorkerReadsCapacity(r)
  <2>1. Capacity(pool, perAccount) \in Nat
    BY CapacityNow
  <2> QED BY <1>6, <2>1 DEF WorkerReadsCapacity
<1>7. CASE WorkerTriesSlot(r)
  <2>1. "w_start" \in TaskState /\ "w_park" \in TaskState
    OBVIOUS
  <2>2. inflight' \in Nat /\ pc' \in [Req -> TaskState] /\ seen' \in [Req -> Nat]
    BY <1>7, <2>1, TryAcquireType DEF WorkerTriesSlot
  <2> QED BY <1>7, <2>2 DEF WorkerTriesSlot
<1>8. CASE Park(r)
  <2>1. permit' \in BOOLEAN
    BY <1>8, Zenon DEF Park
  <2>2. waiters' \in Seq(Req)
    <3>1. Append(waiters, r) \in Seq(Req)
      OBVIOUS
    <3> QED BY <1>8, <3>1 DEF Park
  <2>3. pc' \in [Req -> TaskState]
    BY <1>8 DEF Park
  <2> QED BY <1>8, <2>1, <2>2, <2>3 DEF Park
<1>9. CASE SlotWaitElapsed(r)
  <2>1. PICK i \in 1 .. Len(waiters) :
          waiters' = SubSeq(waiters, 1, i - 1) \o SubSeq(waiters, i + 1, Len(waiters))
    BY <1>9 DEF SlotWaitElapsed
  <2>2. SubSeq(waiters, 1, i - 1) \in Seq(Req) /\ SubSeq(waiters, i + 1, Len(waiters)) \in Seq(Req)
    OBVIOUS
  <2>3. waiters' \in Seq(Req)
    BY <2>1, <2>2
  <2> QED BY <1>9, <2>3 DEF SlotWaitElapsed
<1>10. CASE Start(r)
  <2>1. Touched(jobs[r], "processing") \in Job
    BY TouchedType DEF JobState
  <2> QED BY <1>10, <2>1 DEF Start
<1>11. ASSUME NEW how \in OpOutcome, HandlerOpEnds(r, how) \/ WorkerOpEnds(r, how)
       PROVE  TypeOK'
  <2>1. results' \in [Track \X Endpoint -> Endpoint \cup {NoAnswer}]
    BY <1>11 DEF HandlerOpEnds, WorkerOpEnds, CacheAnswer
  <2> QED BY <1>11, <2>1 DEF HandlerOpEnds, WorkerOpEnds
<1>12. CASE Finish(r)
  <2>1. jobs' \in [Req -> Job]
    BY <1>12, EndedType DEF Finish, JobState
  <2> QED BY <1>12, <2>1 DEF Finish
<1>13. CASE Release(r)
  <2>1. inflight' \in Nat
    BY <1>13 DEF Release
  <2>2. pc' \in [Req -> TaskState] /\ waiters' \in Seq(Req)
    <3>1. CASE waiters # <<>>
      <4>1. Head(waiters) \in Req /\ Tail(waiters) \in Seq(Req)
        BY <3>1
      <4> QED BY <1>13, <3>1, <4>1 DEF Release
    <3>2. CASE waiters = <<>>
      BY <1>13, <3>2 DEF Release
    <3> QED BY <3>1, <3>2
  <2>3. permit' \in BOOLEAN
    BY <1>13, Zenon DEF Release
  <2> QED BY <1>13, <2>1, <2>2, <2>3 DEF Release
<1> QED
  BY <1>1, <1>2, <1>3, <1>4, <1>5, <1>6, <1>7, <1>8, <1>9, <1>10, <1>11, <1>12, <1>13
  DEF TaskStep

LEMMA ClientType ==
  ASSUME TypeOK, NEW r \in Req, ClientStep(r)
  PROVE  TypeOK'
<1> USE DEF TypeOK, env, table, gate, task, TaskState, BeforeJob, Queued, Running
<1>1. CASE Dispatch(r)
  BY <1>1, PruneType DEF Dispatch
<1>2. CASE Disconnect(r)
  BY <1>2 DEF Disconnect
<1>3. CASE Poll(r)
  <2>1. Prune(jobs) \in [Req -> Job]
    BY PruneType
  <2>2. Touched(Prune(jobs)[r], Prune(jobs)[r].state) \in Job
    BY <2>1, TouchedType DEF Job
  <2>3. jobs' \in [Req -> Job]
    BY <1>3, <2>1, <2>2 DEF Poll
  <2> QED BY <1>3, <2>3 DEF Poll
<1>4. CASE Abandon(r)
  BY <1>4 DEF Abandon
<1>5. CASE Cancel(r)
  <2>1. Prune(jobs) \in [Req -> Job]
    BY PruneType
  <2>2. jobs' \in [Req -> Job]
    BY <1>5, <2>1, EndedType DEF Cancel, JobState
  <2> QED BY <1>5, <2>2 DEF Cancel
<1> QED
  BY <1>1, <1>2, <1>3, <1>4, <1>5 DEF ClientStep

LEMMA EnvironmentType ==
  ASSUME TypeOK, Environment
  PROVE  TypeOK'
<1> USE DEF TypeOK, env, table, gate, task
<1>1. CASE ClearQueue
  <2>1. Prune(jobs) \in [Req -> Job]
    BY PruneType
  <2>2. jobs' \in [Req -> Job]
    BY <1>1, <2>1, EndedType DEF ClearQueue, JobState
  <2>3. pc' \in [Req -> TaskState]
    BY <1>1 DEF ClearQueue, TaskState, BeforeJob, Queued, Running
  <2> QED BY <1>1, <2>2, <2>3 DEF ClearQueue
<1>2. CASE Reap
  BY <1>2, PruneType DEF Reap
<1>3. ASSUME NEW k \in Track \X Endpoint, CacheExpires(k)
      PROVE  TypeOK'
  BY <1>3 DEF CacheExpires
<1>4. CASE ClearCache
  BY <1>4 DEF ClearCache
<1>5. CASE Tick
  BY <1>5, AgeJobType DEF Tick
<1>6. ASSUME NEW n \in 1 .. MaxPool, PoolChanges(n)
      PROVE  TypeOK'
  BY <1>6 DEF PoolChanges
<1>7. ASSUME NEW per \in PerAccount, NEW e \in Endpoint, SettingChanges(per, e)
      PROVE  TypeOK'
  BY <1>7 DEF SettingChanges
<1> QED
  BY <1>1, <1>2, <1>3, <1>4, <1>5, <1>6, <1>7 DEF Environment

LEMMA StutterType == TypeOK /\ UNCHANGED vars => TypeOK'
BY DEF TypeOK, vars

\* Type correctness of the playback queue.
THEOREM TypeCorrect == Spec => []TypeOK
<1>1. TypeOK /\ [Next]_vars => TypeOK'
  BY TaskType, ClientType, EnvironmentType, StutterType DEF Next
<1> QED
  BY <1>1, InitType, PTL DEF Spec

----------------------------------------------------------------------------
(* The wait list of the Notify *)

\* Lengths and elements after the three changes a wait list undergoes.
LEMMA AppendWaiter ==
  ASSUME NEW S, NEW w \in Seq(S), NEW x \in S, IsInjective(w), x \notin Range(w)
  PROVE  IsInjective(Append(w, x)) /\ Range(Append(w, x)) = Range(w) \cup {x}
<1> DEFINE v == Append(w, x)
<1>1. /\ v \in Seq(S)
      /\ Len(v) = Len(w) + 1
      /\ \A i \in 1 .. Len(w) : v[i] = w[i]
      /\ v[Len(w) + 1] = x
  BY AppendProperties
<1>2. DOMAIN v = 1 .. Len(w) + 1 /\ DOMAIN w = 1 .. Len(w) /\ Len(w) \in Nat
  BY <1>1
<1>3. \A i \in 1 .. Len(w) : w[i] # x
  BY <1>2 DEF Range
<1> HIDE DEF v
<1>4. IsInjective(v)
  BY <1>1, <1>2, <1>3 DEF IsInjective
<1>5. Range(v) = Range(w) \cup {x}
  BY <1>1, <1>2 DEF Range
<1> QED BY <1>4, <1>5 DEF v

\* v is w, of length n, without its k-th element.
Without(w, v, n, k) ==
  /\ n \in Nat /\ k \in 1 .. n
  /\ DOMAIN w = 1 .. n /\ DOMAIN v = 1 .. n - 1
  /\ \A i \in 1 .. k - 1 : v[i] = w[i]
  /\ \A i \in k .. n - 1 : v[i] = w[i + 1]

LEMMA OneRemoved ==
  ASSUME NEW w, NEW v, NEW n, NEW k, Without(w, v, n, k), IsInjective(w)
  PROVE  IsInjective(v) /\ Range(v) = Range(w) \ {w[k]}
<1> USE DEF Without
<1>1. ASSUME NEW i \in 1 .. n - 1
      PROVE  \E m \in 1 .. n : m # k /\ v[i] = w[m] /\ m = (IF i < k THEN i ELSE i + 1)
  <2>1. CASE i < k
    BY <2>1
  <2>2. CASE i >= k
    <3>1. i \in k .. n - 1 /\ i + 1 \in 1 .. n /\ i + 1 # k
      BY <2>2
    <3> QED BY <2>2, <3>1
  <2> QED BY <2>1, <2>2
<1>2. ASSUME NEW i \in 1 .. n - 1, NEW j \in 1 .. n - 1, v[i] = v[j]
      PROVE  i = j
  <2>1. PICK a \in 1 .. n : v[i] = w[a] /\ a = (IF i < k THEN i ELSE i + 1)
    BY <1>1
  <2>2. PICK b \in 1 .. n : v[j] = w[b] /\ b = (IF j < k THEN j ELSE j + 1)
    BY <1>1
  <2>3. a = b
    BY <1>2, <2>1, <2>2 DEF IsInjective
  <2> QED BY <2>1, <2>2, <2>3
<1>3. IsInjective(v)
  BY <1>2 DEF IsInjective
<1>4. ASSUME NEW i \in 1 .. n - 1
      PROVE  v[i] \in Range(w) \ {w[k]}
  <2>1. PICK a \in 1 .. n : a # k /\ v[i] = w[a]
    BY <1>1
  <2> QED BY <2>1 DEF Range, IsInjective
<1>5. ASSUME NEW m \in 1 .. n, w[m] # w[k]
      PROVE  w[m] \in Range(v)
  <2>1. CASE m < k
    <3>1. m \in 1 .. n - 1 /\ v[m] = w[m]
      BY <2>1
    <3> QED BY <3>1 DEF Range
  <2>2. CASE m > k
    <3>1. m - 1 \in 1 .. n - 1 /\ m - 1 \in k .. n - 1 /\ (m - 1) + 1 = m
      BY <2>2
    <3>2. v[m - 1] = w[m]
      BY <3>1
    <3> QED BY <3>1, <3>2 DEF Range
  <2> QED BY <1>5, <2>1, <2>2
<1>6. Range(v) \subseteq Range(w) \ {w[k]}
  BY <1>4 DEF Range
<1>7. Range(w) \ {w[k]} \subseteq Range(v)
  BY <1>5 DEF Range
<1> QED BY <1>3, <1>6, <1>7

LEMMA RemoveWaiter ==
  ASSUME NEW S, NEW w \in Seq(S), NEW k \in 1 .. Len(w), IsInjective(w)
  PROVE  LET v == SubSeq(w, 1, k - 1) \o SubSeq(w, k + 1, Len(w))
         IN  IsInjective(v) /\ Range(v) = Range(w) \ {w[k]}
<1> DEFINE a == SubSeq(w, 1, k - 1)
           b == SubSeq(w, k + 1, Len(w))
           v == a \o b
           n == Len(w)
<1>1. n \in Nat /\ DOMAIN w = 1 .. n /\ k \in 1 .. n
  OBVIOUS
<1>2. /\ a \in Seq(S) /\ Len(a) = k - 1
      /\ \A i \in 1 .. k - 1 : a[i] = w[i]
  OBVIOUS
<1>3. /\ b \in Seq(S) /\ Len(b) = n - k
      /\ \A i \in 1 .. n - k : b[i] = w[k + i]
  OBVIOUS
<1> HIDE DEF a, b, n
<1>4. /\ v \in Seq(S) /\ Len(v) = Len(a) + Len(b)
      /\ \A i \in 1 .. Len(a) + Len(b) : v[i] = IF i <= Len(a) THEN a[i] ELSE b[i - Len(a)]
  BY <1>2, <1>3, ConcatProperties
<1> HIDE DEF v
<1>5. Len(v) = n - 1
  BY <1>1, <1>2, <1>3, <1>4
<1>6. DOMAIN v = 1 .. n - 1
  BY <1>4, <1>5
<1>7. ASSUME NEW i \in 1 .. k - 1
      PROVE  v[i] = w[i]
  <2>1. i \in 1 .. Len(a) + Len(b) /\ i <= Len(a)
    BY <1>1, <1>2, <1>3
  <2> QED BY <1>2, <1>4, <2>1
<1>8. ASSUME NEW i \in k .. n - 1
      PROVE  v[i] = w[i + 1]
  <2>1. i \in 1 .. Len(a) + Len(b) /\ ~(i <= Len(a)) /\ i - Len(a) \in 1 .. n - k
        /\ k + (i - Len(a)) = i + 1
    BY <1>1, <1>2, <1>3
  <2> QED BY <1>3, <1>4, <2>1
<1>9. /\ \A i \in 1 .. k - 1 : v[i] = w[i]
      /\ \A i \in k .. n - 1 : v[i] = w[i + 1]
  BY <1>7, <1>8
<1>10. IsInjective(v) /\ Range(v) = Range(w) \ {w[k]}
  <2>1. Without(w, v, n, k)
    BY <1>1, <1>6, <1>9 DEF Without
  <2> QED BY <2>1, OneRemoved
<1> QED BY <1>10 DEF v, a, b, n

LEMMA TailWaiter ==
  ASSUME NEW S, NEW w \in Seq(S), w # <<>>, IsInjective(w)
  PROVE  /\ Head(w) \in Range(w)
         /\ IsInjective(Tail(w))
         /\ Range(Tail(w)) = Range(w) \ {Head(w)}
<1> DEFINE v == Tail(w)
           n == Len(w)
<1>1. /\ n \in Nat /\ 1 \in 1 .. n /\ DOMAIN w = 1 .. n /\ Head(w) = w[1]
      /\ v \in Seq(S) /\ Len(v) = n - 1
      /\ \A i \in 1 .. Len(v) : v[i] = w[i + 1]
  BY HeadTailProperties
<1>2. DOMAIN v = 1 .. n - 1
  BY <1>1
<1> HIDE DEF v, n
<1>3. Head(w) \in Range(w)
  BY <1>1 DEF Range
<1>4. \A i \in 1 .. 1 - 1 : v[i] = w[i]
  OBVIOUS
<1>5. \A i \in 1 .. n - 1 : v[i] = w[i + 1]
  BY <1>1
<1>6. IsInjective(v) /\ Range(v) = Range(w) \ {w[1]}
  <2>1. Without(w, v, n, 1)
    BY <1>1, <1>2, <1>4, <1>5 DEF Without
  <2> QED BY <2>1, OneRemoved
<1> QED BY <1>1, <1>3, <1>6 DEF v

\* Steps that neither touch the list nor put a worker to sleep or wake one.
LEMMA WaitersFrame ==
  ASSUME WaitersSound, UNCHANGED waiters,
         \A q \in Req : pc'[q] = "w_sleep" <=> pc[q] = "w_sleep"
  PROVE  WaitersSound'
BY DEF WaitersSound

LEMMA WaitersTask ==
  ASSUME TypeOK, WaitersSound, NEW r \in Req, TaskStep(r)
  PROVE  WaitersSound'
<1> USE DEF TypeOK, gate
<1>1. CASE HandlerReadsCapacity(r)
  BY <1>1, WaitersFrame DEF HandlerReadsCapacity
<1>2. CASE HandlerTriesSlot(r)
  BY <1>2, WaitersFrame DEF HandlerTriesSlot, TryAcquire
<1>3. CASE Enqueue(r)
  BY <1>3, WaitersFrame DEF Enqueue
<1>4. CASE Spawn(r)
  BY <1>4, WaitersFrame DEF Spawn
<1>5. CASE WorkerChecks(r)
  BY <1>5, WaitersFrame DEF WorkerChecks
<1>6. CASE WorkerReadsCapacity(r)
  BY <1>6, WaitersFrame DEF WorkerReadsCapacity
<1>7. CASE WorkerTriesSlot(r)
  BY <1>7, WaitersFrame DEF WorkerTriesSlot, TryAcquire
<1>8. CASE Park(r)
  <2>1. CASE permit
    BY <1>8, <2>1, WaitersFrame DEF Park
  <2>2. CASE ~permit
    <3>1. waiters' = Append(waiters, r) /\ pc' = [pc EXCEPT ![r] = "w_sleep"] /\ pc[r] = "w_park"
      BY <1>8, <2>2 DEF Park
    <3>2. r \notin Range(waiters)
      BY <3>1 DEF WaitersSound
    <3>3. IsInjective(waiters') /\ Range(waiters') = Range(waiters) \cup {r}
      BY <3>1, <3>2, AppendWaiter DEF WaitersSound
    <3> QED BY <3>1, <3>3 DEF WaitersSound
  <2> QED BY <2>1, <2>2
<1>9. CASE SlotWaitElapsed(r)
  <2>1. PICK k \in 1 .. Len(waiters) :
          /\ waiters[k] = r
          /\ waiters' = SubSeq(waiters, 1, k - 1) \o SubSeq(waiters, k + 1, Len(waiters))
    BY <1>9 DEF SlotWaitElapsed
  <2>2. pc' = [pc EXCEPT ![r] = "w_check"]
    BY <1>9 DEF SlotWaitElapsed
  <2>3. IsInjective(waiters') /\ Range(waiters') = Range(waiters) \ {r}
    BY <2>1, RemoveWaiter DEF WaitersSound
  <2> QED BY <2>2, <2>3 DEF WaitersSound
<1>10. CASE Start(r)
  BY <1>10, WaitersFrame DEF Start
<1>11. ASSUME NEW how \in OpOutcome, HandlerOpEnds(r, how) \/ WorkerOpEnds(r, how)
       PROVE  WaitersSound'
  BY <1>11, WaitersFrame DEF HandlerOpEnds, WorkerOpEnds
<1>12. CASE Finish(r)
  BY <1>12, WaitersFrame DEF Finish
<1>13. CASE Release(r)
  <2>1. CASE waiters # <<>>
    <3>1. /\ waiters' = Tail(waiters)
          /\ pc' = [pc EXCEPT ![r] = "done", ![Head(waiters)] = "w_check"]
          /\ pc[r] = "release"
      BY <1>13, <2>1 DEF Release
    <3>2. /\ Head(waiters) \in Range(waiters)
          /\ IsInjective(waiters') /\ Range(waiters') = Range(waiters) \ {Head(waiters)}
      BY <2>1, <3>1, TailWaiter DEF WaitersSound
    <3> QED BY <3>1, <3>2 DEF WaitersSound
  <2>2. CASE waiters = <<>>
    BY <1>13, <2>2, WaitersFrame DEF Release
  <2> QED BY <2>1, <2>2
<1> QED
  BY <1>1, <1>2, <1>3, <1>4, <1>5, <1>6, <1>7, <1>8, <1>9, <1>10, <1>11, <1>12, <1>13
  DEF TaskStep

LEMMA WaitersOther ==
  ASSUME TypeOK, WaitersSound,
         Environment \/ (\E r \in Req : ClientStep(r)) \/ UNCHANGED vars
  PROVE  WaitersSound'
<1> USE DEF TypeOK, gate, task, vars
<1>1. CASE ClearQueue
  <2>1. waiters' = <<>> /\ \A q \in Req : pc'[q] # "w_sleep"
    BY <1>1 DEF ClearQueue
  <2> QED BY <2>1 DEF WaitersSound, Range, IsInjective
<1>2. CASE Environment /\ ~ClearQueue
  <2>1. UNCHANGED <<waiters, pc>>
    BY <1>2 DEF Environment, Reap, CacheExpires, ClearCache, Tick, PoolChanges, SettingChanges
  <2> QED BY <2>1, WaitersFrame
<1>3. ASSUME NEW r \in Req, ClientStep(r)
      PROVE  WaitersSound'
  BY <1>3, WaitersFrame DEF ClientStep, Dispatch, Disconnect, Poll, Abandon, Cancel
<1>4. CASE UNCHANGED vars
  BY <1>4, WaitersFrame
<1> QED
  BY <1>1, <1>2, <1>3, <1>4

\* The wait list holds exactly the sleeping workers, each once.
THEOREM WaitListSound == Spec => []WaitersSound
<1>1. Init => WaitersSound
  BY DEF Init, WaitersSound, Range, IsInjective
<1>2. TypeOK /\ WaitersSound /\ [Next]_vars => WaitersSound'
  BY WaitersTask, WaitersOther DEF Next
<1> QED
  BY <1>1, <1>2, TypeCorrect, PTL DEF Spec

----------------------------------------------------------------------------
(* The job table and the tasks *)

\* What one prune pass does to one job: nothing, or it forgets a finished job,
\* or it cancels a pending one.
LEMMA PruneJobMoves ==
  ASSUME NEW j \in Job, StampedIfFinished(j)
  PROVE  /\ StampedIfFinished(PruneJob(j))
         /\ \/ PruneJob(j) = j
            \/ j.state \in Finished /\ PruneJob(j).state = "none"
            \/ j.state = "pending" /\ PruneJob(j).state = "cancelled"
BY QueueAssumption DEF PruneJob, StampedIfFinished, Finished, NoJob, Ended, Job, JobState, NotFinished

\* A request whose task did not move: its job is untouched or was pruned, and
\* its client stayed or left.
LEMMA JobFrame ==
  ASSUME JobsAccountedFor, TypeOK, NEW q \in Req,
         UNCHANGED pc[q],
         client'[q] = client[q] \/ client'[q] = "left",
         jobs'[q] = jobs[q] \/ jobs'[q] = PruneJob(jobs[q])
  PROVE  JobAccountedFor(q)'
<1>1. jobs[q] \in Job /\ StampedIfFinished(jobs[q]) /\ JobAccountedFor(q)
  BY DEF TypeOK, JobsAccountedFor, JobAccountedFor
<1>2. CASE jobs'[q] = jobs[q]
  BY <1>1, <1>2 DEF JobAccountedFor, StampedIfFinished
<1>3. CASE jobs'[q] = PruneJob(jobs[q])
  BY <1>1, <1>3, PruneJobMoves DEF JobAccountedFor, StampedIfFinished, BeforeJob, Queued, Running, Finished
<1> QED BY <1>2, <1>3

LEMMA JobsTask ==
  ASSUME TypeOK, WaitersSound, JobsAccountedFor, NEW r \in Req, TaskStep(r)
  PROVE  JobsAccountedFor'
<1> SUFFICES ASSUME NEW q \in Req PROVE JobAccountedFor(q)'
  BY DEF JobsAccountedFor
<1>0. /\ pc \in [Req -> TaskState] /\ client \in [Req -> {"new", "waiting", "answered", "left"}]
      /\ jobs \in [Req -> Job]
      /\ JobAccountedFor(q) /\ JobAccountedFor(r)
  BY DEF TypeOK, JobsAccountedFor
<1>01. CASE q # r /\ ~Release(r)
  <2>1. pc'[q] = pc[q] /\ client'[q] = client[q] /\ jobs'[q] = jobs[q]
    BY <1>0, <1>01 DEF TaskStep, HandlerReadsCapacity, HandlerTriesSlot, TryAcquire, Enqueue, Spawn,
         WorkerChecks, WorkerReadsCapacity, WorkerTriesSlot, Park, SlotWaitElapsed, Start,
         HandlerOpEnds, WorkerOpEnds, Finish, table
  <2> QED BY <2>1 , <1>0, JobFrame
<1>02. CASE q = r /\ ~Release(r)
  <2> USE <1>0, <1>02 DEF JobAccountedFor, BeforeJob, Queued, Running, table, env, gate
  <2>1. CASE HandlerReadsCapacity(r)
    BY <2>1 DEF HandlerReadsCapacity
  <2>2. CASE HandlerTriesSlot(r)
    BY <2>2 DEF HandlerTriesSlot, TryAcquire
  <2>3. CASE Enqueue(r)
    BY <2>3 DEF Enqueue, NewJob, StampedIfFinished, Finished
  <2>4. CASE Spawn(r)
    BY <2>4 DEF Spawn
  <2>5. CASE WorkerChecks(r)
    BY <2>5 DEF WorkerChecks
  <2>6. CASE WorkerReadsCapacity(r)
    BY <2>6 DEF WorkerReadsCapacity
  <2>7. CASE WorkerTriesSlot(r)
    BY <2>7 DEF WorkerTriesSlot, TryAcquire
  <2>8. CASE Park(r)
    BY <2>8 DEF Park
  <2>9. CASE SlotWaitElapsed(r)
    BY <2>9 DEF SlotWaitElapsed
  <2>10. CASE Start(r)
    BY <2>10 DEF Start, Touched, StampedIfFinished, Finished
  <2>11. ASSUME NEW how \in OpOutcome, HandlerOpEnds(r, how) \/ WorkerOpEnds(r, how)
         PROVE  JobAccountedFor(q)'
    BY <2>11 DEF HandlerOpEnds, WorkerOpEnds
  <2>12. CASE Finish(r)
    BY <2>12 DEF Finish, Ended, StampedIfFinished, Finished, NotFinished
  <2> QED
    BY <2>1, <2>2, <2>3, <2>4, <2>5, <2>6, <2>7, <2>8, <2>9, <2>10, <2>11, <2>12 DEF TaskStep
<1>03. CASE Release(r)
  <2>1. jobs' = jobs /\ client' = client /\ pc[r] = "release"
    BY <1>03 DEF Release, table
  <2>2. CASE waiters # <<>>
    <3>1. Head(waiters) \in Req /\ pc[Head(waiters)] = "w_sleep"
      BY <2>2, TailWaiter DEF TypeOK, WaitersSound
    <3>2. pc' = [pc EXCEPT ![r] = "done", ![Head(waiters)] = "w_check"]
      BY <1>03, <2>2 DEF Release
    <3> QED
      BY <1>0, <2>1, <3>1, <3>2 DEF JobAccountedFor, BeforeJob, Queued, Running
  <2>3. CASE waiters = <<>>
    <3>1. pc' = [pc EXCEPT ![r] = "done"]
      BY <1>03, <2>3 DEF Release
    <3> QED
      BY <1>0, <2>1, <3>1 DEF JobAccountedFor, BeforeJob, Queued, Running
  <2> QED BY <2>2, <2>3
<1> QED BY <1>01, <1>02, <1>03

LEMMA JobsOther ==
  ASSUME TypeOK, JobsAccountedFor,
         Environment \/ (\E r \in Req : ClientStep(r)) \/ UNCHANGED vars
  PROVE  JobsAccountedFor'
<1> SUFFICES ASSUME NEW q \in Req PROVE JobAccountedFor(q)'
  BY DEF JobsAccountedFor
<1>0. /\ pc \in [Req -> TaskState] /\ client \in [Req -> {"new", "waiting", "answered", "left"}]
      /\ jobs \in [Req -> Job]
      /\ JobAccountedFor(q)
  BY DEF TypeOK, JobsAccountedFor
<1> USE DEF gate, task, table
<1>1. CASE ClearQueue
  <2>1. /\ UNCHANGED client
        /\ pc'[q] = IF pc[q] = "w_sleep" THEN "w_check" ELSE pc[q]
        /\ \/ jobs'[q] = PruneJob(jobs[q])
           \/ Live(PruneJob(jobs[q])) /\ jobs'[q] = Ended("cancelled")
    BY <1>1 DEF ClearQueue, Prune
  <2> QED
    BY <1>0, <2>1, PruneJobMoves
    DEF JobAccountedFor, Live, Ended, StampedIfFinished, Finished, BeforeJob, Queued, Running, NotFinished
<1>2. CASE Reap
  BY <1>0, <1>2, JobFrame DEF Reap, Prune
<1>3. CASE Tick
  <2>1. /\ UNCHANGED <<client, pc>>
        /\ jobs'[q].state = jobs[q].state
        /\ jobs'[q].fin = IF jobs[q].fin >= 0 /\ jobs[q].fin =< JobTTL THEN jobs[q].fin + 1 ELSE jobs[q].fin
    BY <1>3 DEF Tick, AgeJob
  <2>2. jobs[q].fin \in -1 .. JobTTL + 1
    BY <1>0 DEF Job, NotFinished
  <2>3. StampedIfFinished(jobs'[q])
    BY <1>0, <2>1, <2>2, QueueAssumption DEF JobAccountedFor, StampedIfFinished, NotFinished
  <2> QED
    BY <1>0, <2>1, <2>3 DEF JobAccountedFor, StampedIfFinished
<1>4. CASE Environment /\ ~ClearQueue /\ ~Reap /\ ~Tick
  <2>1. UNCHANGED <<pc, jobs, client>>
    BY <1>4 DEF Environment, CacheExpires, ClearCache, PoolChanges, SettingChanges
  <2> QED BY <1>0, <2>1, JobFrame
<1>5. ASSUME NEW r \in Req, Dispatch(r)
      PROVE  JobAccountedFor(q)'
  <2>1. jobs'[q] = PruneJob(jobs[q])
    BY <1>5 DEF Dispatch, Prune
  <2>2. CASE q = r
    <3>1. jobs[q].state = "none" /\ pc'[q] \in {"done", "h_size"}
      BY <1>0, <1>5, <2>2 DEF Dispatch, JobAccountedFor, BeforeJob
    <3> QED
      BY <1>0, <2>1, <3>1, PruneJobMoves
      DEF JobAccountedFor, BeforeJob, Queued, Running, Finished
  <2>3. CASE q # r
    BY <1>0, <1>5, <2>1, <2>3, JobFrame DEF Dispatch
  <2> QED BY <2>2, <2>3
<1>6. ASSUME NEW r \in Req, Disconnect(r)
      PROVE  JobAccountedFor(q)'
  BY <1>0, <1>6 DEF Disconnect, JobAccountedFor, BeforeJob, Queued, Running
<1>7. ASSUME NEW r \in Req, Poll(r) \/ Cancel(r)
      PROVE  JobAccountedFor(q)'
  <2>1. /\ UNCHANGED pc
        /\ q # r => client'[q] = client[q]
        /\ q = r => client[q] = "waiting"
        /\ \/ jobs'[q] = PruneJob(jobs[q])
           \/ Live(PruneJob(jobs[q])) /\ jobs'[q] = Ended("cancelled")
           \/ Live(PruneJob(jobs[q])) /\ jobs'[q] = Touched(PruneJob(jobs[q]), PruneJob(jobs[q]).state)
    BY <1>0, <1>7 DEF Poll, Cancel, Prune
  <2> QED
    BY <1>0, <2>1, PruneJobMoves
    DEF JobAccountedFor, Live, Ended, Touched, StampedIfFinished, Finished, BeforeJob, Queued, Running, NotFinished
<1>8. ASSUME NEW r \in Req, Abandon(r)
      PROVE  JobAccountedFor(q)'
  BY <1>0, <1>8, JobFrame DEF Abandon
<1>9. CASE UNCHANGED vars
  BY <1>0, <1>9, JobFrame DEF vars
<1> QED
  BY <1>1, <1>2, <1>3, <1>4, <1>5, <1>6, <1>7, <1>8, <1>9 DEF ClientStep

\* Every job is on its way to a verdict or stamped for the reaper, whatever
\* order cancellations, disconnects, timeouts and results come in.
THEOREM JobsAlwaysAccountedFor == Spec => []JobsAccountedFor
<1>1. Init => JobsAccountedFor
  BY DEF Init, JobsAccountedFor, JobAccountedFor, StampedIfFinished, NoJob, Finished,
         NotFinished, BeforeJob, Queued, Running
<1>2. TypeOK /\ WaitersSound /\ JobsAccountedFor /\ [Next]_vars => JobsAccountedFor'
  BY JobsTask, JobsOther DEF Next
<1> QED
  BY <1>1, <1>2, TypeCorrect, WaitListSound, PTL DEF Spec

----------------------------------------------------------------------------
(* Slots *)

LEMMA HoldersFinite == IsFiniteSet(Holders) /\ Cardinality(Holders) \in Nat
BY QueueAssumption, FS_Subset, FS_CardinalityType DEF Holders

\* A step after which the same tasks own a slot.
LEMMA SlotFrame ==
  ASSUME SlotAccounting, UNCHANGED inflight,
         \A q \in Req : pc'[q] \in HoldsSlot <=> pc[q] \in HoldsSlot
  PROVE  SlotAccounting'
<1>1. Holders' = Holders
  BY DEF Holders
<1> QED BY <1>1 DEF SlotAccounting

\* try_acquire: the counter and the set of owners grow together.
LEMMA SlotAcquired ==
  ASSUME TypeOK, SlotAccounting, NEW r \in Req, pc[r] \notin HoldsSlot,
         NEW taken \in HoldsSlot, pc' = [pc EXCEPT ![r] = taken], inflight' = inflight + 1
  PROVE  SlotAccounting'
<1>1. Holders' = Holders \cup {r} /\ r \notin Holders
  BY DEF Holders, TypeOK
<1> QED BY <1>1, HoldersFinite, FS_AddElement DEF SlotAccounting

LEMMA SlotsTask ==
  ASSUME TypeOK, WaitersSound, SlotAccounting, NEW r \in Req, TaskStep(r)
  PROVE  SlotAccounting'
<1>0. pc \in [Req -> TaskState]
  BY DEF TypeOK
<1>1. CASE HandlerTriesSlot(r)
  <2>1. CASE inflight < AtLeastOne(seen[r])
    <3>1. /\ pc' = [pc EXCEPT ![r] = "h_run"] /\ inflight' = inflight + 1
          /\ pc[r] \notin HoldsSlot /\ "h_run" \in HoldsSlot
      BY <1>1, <2>1 DEF HandlerTriesSlot, TryAcquire, HoldsSlot, TypeOK, AtLeastOne
    <3> QED BY <3>1, SlotAcquired
  <2>2. CASE ~(inflight < AtLeastOne(seen[r]))
    BY <1>0, <1>1, <2>2, SlotFrame DEF HandlerTriesSlot, TryAcquire, HoldsSlot
  <2> QED BY <2>1, <2>2
<1>2. CASE WorkerTriesSlot(r)
  <2>1. CASE inflight < AtLeastOne(seen[r])
    <3>1. /\ pc' = [pc EXCEPT ![r] = "w_start"] /\ inflight' = inflight + 1
          /\ pc[r] \notin HoldsSlot /\ "w_start" \in HoldsSlot
      BY <1>2, <2>1 DEF WorkerTriesSlot, TryAcquire, HoldsSlot, TypeOK, AtLeastOne
    <3> QED BY <3>1, SlotAcquired
  <2>2. CASE ~(inflight < AtLeastOne(seen[r]))
    BY <1>0, <1>2, <2>2, SlotFrame DEF WorkerTriesSlot, TryAcquire, HoldsSlot
  <2> QED BY <2>1, <2>2
<1>3. CASE Release(r)
  <2>1. r \in Holders /\ inflight' = IF inflight > 0 THEN inflight - 1 ELSE 0
    BY <1>3 DEF Release, Holders, HoldsSlot
  <2>2. Cardinality(Holders) > 0
    BY <2>1, HoldersFinite, FS_EmptySet
  <2>3. inflight' = Cardinality(Holders) - 1
    BY <2>1, <2>2, HoldersFinite DEF SlotAccounting
  <2>4. Holders' = Holders \ {r}
    <3>1. CASE waiters # <<>>
      <4>1. Head(waiters) \in Req /\ pc[Head(waiters)] = "w_sleep"
        BY <3>1, TailWaiter DEF TypeOK, WaitersSound
      <4>2. pc' = [pc EXCEPT ![r] = "done", ![Head(waiters)] = "w_check"]
        BY <1>3, <3>1 DEF Release
      <4> QED BY <1>0, <4>1, <4>2 DEF Holders, HoldsSlot
    <3>2. CASE waiters = <<>>
      BY <1>0, <1>3, <3>2 DEF Release, Holders, HoldsSlot
    <3> QED BY <3>1, <3>2
  <2> QED BY <2>1, <2>3, <2>4, HoldersFinite, FS_RemoveElement DEF SlotAccounting
<1>4. CASE ~HandlerTriesSlot(r) /\ ~WorkerTriesSlot(r) /\ ~Release(r)
  <2>1. UNCHANGED inflight
    BY <1>4 DEF TaskStep, HandlerReadsCapacity, Enqueue, Spawn, WorkerChecks, WorkerReadsCapacity,
                Park, SlotWaitElapsed, Start, HandlerOpEnds, WorkerOpEnds, Finish, gate
  <2>2. \A q \in Req : pc'[q] \in HoldsSlot <=> pc[q] \in HoldsSlot
    BY <1>0, <1>4 DEF TaskStep, HandlerReadsCapacity, Enqueue, Spawn, WorkerChecks,
         WorkerReadsCapacity, Park, SlotWaitElapsed, Start, HandlerOpEnds, WorkerOpEnds, Finish, HoldsSlot
  <2> QED BY <2>1, <2>2, SlotFrame
<1> QED BY <1>1, <1>2, <1>3, <1>4

LEMMA SlotsOther ==
  ASSUME TypeOK, SlotAccounting,
         Environment \/ (\E r \in Req : ClientStep(r)) \/ UNCHANGED vars
  PROVE  SlotAccounting'
<1>1. UNCHANGED inflight
  BY DEF Environment, ClearQueue, Reap, CacheExpires, ClearCache, Tick, PoolChanges, SettingChanges,
         ClientStep, Dispatch, Disconnect, Poll, Abandon, Cancel, vars, gate
<1>2. \A q \in Req : pc'[q] \in HoldsSlot <=> pc[q] \in HoldsSlot
  BY DEF Environment, ClearQueue, Reap, CacheExpires, ClearCache, Tick, PoolChanges, SettingChanges,
         ClientStep, Dispatch, Disconnect, Poll, Abandon, Cancel, vars, task, HoldsSlot, TypeOK
<1> QED BY <1>1, <1>2, SlotFrame

\* No slot is ever leaked or returned twice.
THEOREM SlotsAccountedFor == Spec => []SlotAccounting
<1>1. Init => SlotAccounting
  <2> SUFFICES ASSUME Init PROVE SlotAccounting
    OBVIOUS
  <2>1. Holders = {}
    BY DEF Init, Holders, HoldsSlot
  <2> QED BY <2>1, FS_EmptySet DEF Init, SlotAccounting
<1>2. TypeOK /\ WaitersSound /\ SlotAccounting /\ [Next]_vars => SlotAccounting'
  BY SlotsTask, SlotsOther DEF Next
<1> QED
  BY <1>1, <1>2, TypeCorrect, WaitListSound, PTL DEF Spec

----------------------------------------------------------------------------
(* The width of the gate and of the queue *)

\* What a task that is about to compare holds is a capacity the pool once had.
SeenOnce(c) == \E p \in 1 .. MaxPool, per \in PerAccount : c = Capacity(p, per)
CapacitySeen == \A r \in Req : pc[r] \in {"h_try", "h_queue", "w_try"} => SeenOnce(seen[r])

LEMMA SeenNow == TypeOK => SeenOnce(Capacity(pool, perAccount))
BY DEF TypeOK, SeenOnce

LEMMA CapacitySeenStep ==
  ASSUME TypeOK, CapacitySeen, [Next]_vars
  PROVE  CapacitySeen'
<1>0. pc \in [Req -> TaskState] /\ seen \in [Req -> Nat]
  BY DEF TypeOK
<1> SUFFICES ASSUME NEW q \in Req, pc'[q] \in {"h_try", "h_queue", "w_try"}
             PROVE  SeenOnce(seen'[q])
  BY DEF CapacitySeen, SeenOnce
<1>1. ASSUME NEW r \in Req, HandlerReadsCapacity(r) \/ WorkerReadsCapacity(r)
      PROVE  SeenOnce(seen'[q])
  <2>1. seen'[r] = Capacity(pool, perAccount)
    BY <1>0, <1>1 DEF HandlerReadsCapacity, WorkerReadsCapacity
  <2>2. q # r => seen'[q] = seen[q] /\ pc'[q] = pc[q]
    BY <1>0, <1>1 DEF HandlerReadsCapacity, WorkerReadsCapacity
  <2> QED BY <2>1, <2>2, SeenNow DEF CapacitySeen
<1>2. ASSUME NEW r \in Req, HandlerTriesSlot(r) \/ WorkerTriesSlot(r)
      PROVE  SeenOnce(seen'[q])
  <2>1. seen'[q] = seen[q] /\ pc[q] \in {"h_try", "h_queue", "w_try"}
    BY <1>0, <1>2 DEF HandlerTriesSlot, WorkerTriesSlot, TryAcquire
  <2> QED BY <2>1 DEF CapacitySeen
<1>3. ASSUME NEW r \in Req, Enqueue(r)
      PROVE  SeenOnce(seen'[q])
  <2>1. seen'[q] = seen[q] /\ pc[q] \in {"h_try", "h_queue", "w_try"}
    BY <1>0, <1>3 DEF Enqueue
  <2> QED BY <2>1 DEF CapacitySeen
<1>4. ASSUME NEW r \in Req, ClientStep(r)
      PROVE  SeenOnce(seen'[q])
  <2>1. seen'[q] = seen[q] /\ pc[q] \in {"h_try", "h_queue", "w_try"}
    BY <1>0, <1>4 DEF ClientStep, Dispatch, Disconnect, Poll, Abandon, Cancel, task
  <2> QED BY <2>1 DEF CapacitySeen
<1>5. ASSUME Environment \/ UNCHANGED vars
      PROVE  SeenOnce(seen'[q])
  <2>1. seen'[q] = seen[q] /\ pc[q] \in {"h_try", "h_queue", "w_try"}
    BY <1>0, <1>5 DEF Environment, ClearQueue, Reap, CacheExpires, ClearCache, Tick, PoolChanges,
                      SettingChanges, task, vars
  <2> QED BY <2>1 DEF CapacitySeen
<1>6. ASSUME NEW r \in Req, Release(r)
      PROVE  SeenOnce(seen'[q])
  <2>1. seen'[q] = seen[q]
    BY <1>6 DEF Release
  <2>2. pc[q] \in {"h_try", "h_queue", "w_try"}
    BY <1>0, <1>6 DEF Release
  <2> QED BY <2>1, <2>2 DEF CapacitySeen
<1>7. ASSUME NEW r \in Req,
             \/ Spawn(r) \/ WorkerChecks(r) \/ Park(r) \/ SlotWaitElapsed(r) \/ Start(r)
             \/ (\E how \in OpOutcome : HandlerOpEnds(r, how) \/ WorkerOpEnds(r, how)) \/ Finish(r)
      PROVE  SeenOnce(seen'[q])
  <2>1. seen'[q] = seen[q] /\ pc[q] \in {"h_try", "h_queue", "w_try"}
    BY <1>0, <1>7 DEF Spawn, WorkerChecks, Park, SlotWaitElapsed, Start, HandlerOpEnds, WorkerOpEnds, Finish
  <2> QED BY <2>1 DEF CapacitySeen
<1> QED
  BY <1>1, <1>2, <1>3, <1>4, <1>5, <1>6, <1>7 DEF Next, TaskStep

\* Both bounds are closed downwards, and hold of 0.
LEMMA GateClosed ==
  ASSUME NEW m \in Nat, NEW n \in Nat, m =< n, WithinSomeGate(n)
  PROVE  WithinSomeGate(m)
<1>1. PICK p \in 1 .. MaxPool, per \in PerAccount : n =< AtLeastOne(Capacity(p, per))
  BY DEF WithinSomeGate
<1>2. Capacity(p, per) \in Nat
  <2>1. p \in Nat /\ per \in Nat
    BY QueueAssumption
  <2> QED BY <2>1, CapacityType
<1>3. m =< AtLeastOne(Capacity(p, per))
  BY <1>1, <1>2 DEF AtLeastOne
<1> QED BY <1>3 DEF WithinSomeGate

LEMMA GateOpen ==
  ASSUME NEW c, SeenOnce(c), NEW n \in Nat, n < AtLeastOne(c)
  PROVE  WithinSomeGate(n + 1)
<1>1. PICK p \in 1 .. MaxPool, per \in PerAccount : c = Capacity(p, per)
  BY DEF SeenOnce
<1>2. c \in Nat
  BY <1>1, CapacityType, QueueAssumption
<1>3. n + 1 =< AtLeastOne(Capacity(p, per))
  BY <1>1, <1>2 DEF AtLeastOne
<1> QED BY <1>3 DEF WithinSomeGate

LEMMA GateZero == WithinSomeGate(0)
<1>1. PICK per \in PerAccount : TRUE
  BY QueueAssumption
<1>2. 1 \in 1 .. MaxPool /\ per \in Nat
  BY QueueAssumption
<1>3. Capacity(1, per) \in Nat
  BY <1>2, CapacityType
<1>4. 0 =< AtLeastOne(Capacity(1, per))
  BY <1>3 DEF AtLeastOne
<1> QED BY <1>2, <1>4 DEF WithinSomeGate

LEMMA GateStep ==
  ASSUME TypeOK, CapacitySeen, GateBound, [Next]_vars
  PROVE  GateBound'
<1>0. inflight \in Nat
  BY DEF TypeOK
<1>1. ASSUME NEW r \in Req, HandlerTriesSlot(r) \/ WorkerTriesSlot(r)
      PROVE  GateBound'
  <2>1. CASE inflight < AtLeastOne(seen[r])
    <3>1. SeenOnce(seen[r]) /\ seen[r] \in Nat
      BY <1>1 DEF HandlerTriesSlot, WorkerTriesSlot, CapacitySeen, TypeOK
    <3>2. inflight' = inflight + 1
      BY <1>0, <1>1, <2>1, <3>1 DEF HandlerTriesSlot, WorkerTriesSlot, TryAcquire, AtLeastOne
    <3>3. WithinSomeGate(inflight')
      BY <1>0, <2>1, <3>1, <3>2, GateOpen
    <3> QED BY <3>3 DEF GateBound, WithinSomeGate
  <2>2. CASE ~(inflight < AtLeastOne(seen[r]))
    <3>1. inflight' = inflight
      BY <1>1, <2>2 DEF HandlerTriesSlot, WorkerTriesSlot, TryAcquire
    <3> QED BY <3>1 DEF GateBound, WithinSomeGate
  <2> QED BY <2>1, <2>2
<1>2. ASSUME NEW r \in Req, Release(r)
      PROVE  GateBound'
  <2>1. inflight' \in Nat /\ inflight' =< inflight
    BY <1>0, <1>2 DEF Release
  <2>2. WithinSomeGate(inflight')
    BY <1>0, <2>1, GateClosed DEF GateBound
  <2> QED BY <2>2 DEF GateBound, WithinSomeGate
<1>3. CASE ~(\E r \in Req : HandlerTriesSlot(r) \/ WorkerTriesSlot(r) \/ Release(r))
  <2>1. inflight' = inflight
    BY <1>3 DEF Next, TaskStep, HandlerReadsCapacity, Enqueue, Spawn, WorkerChecks,
         WorkerReadsCapacity, Park, SlotWaitElapsed, Start, HandlerOpEnds, WorkerOpEnds, Finish, Environment, ClearQueue,
         Reap, CacheExpires, ClearCache, Tick, PoolChanges, SettingChanges, ClientStep, Dispatch,
         Disconnect, Poll, Abandon, Cancel, vars, gate
  <2> QED BY <2>1 DEF GateBound, WithinSomeGate
<1> QED BY <1>1, <1>2, <1>3

\* At no time do more operations run than the widest capacity allows, whichever
\* stale capacities the tasks compare with.
THEOREM GateNeverWider == Spec => []GateBound
<1>1. Init => CapacitySeen /\ GateBound
  BY GateZero DEF Init, CapacitySeen, GateBound
<1>2. TypeOK /\ CapacitySeen /\ GateBound /\ [Next]_vars => CapacitySeen' /\ GateBound'
  BY CapacitySeenStep, GateStep
<1> QED
  BY <1>1, <1>2, TypeCorrect, PTL DEF Spec

LEMMA PendingFinite == IsFiniteSet(Pending) /\ Cardinality(Pending) \in Nat
BY QueueAssumption, FS_Subset, FS_CardinalityType DEF Pending

\* A step that makes no job pending keeps the queue within its bound.
LEMMA QueueShrinks ==
  ASSUME QueueBound, \A q \in Req : jobs'[q].state = "pending" => jobs[q].state = "pending"
  PROVE  QueueBound'
<1>1. Pending' \subseteq Pending
  BY DEF Pending
<1>2. IsFiniteSet(Pending') /\ Cardinality(Pending') =< Cardinality(Pending)
  BY <1>1, PendingFinite, FS_Subset
<1>3. Cardinality(Pending') \in Nat
  BY <1>2, FS_CardinalityType
<1>4. WithinSomeGate(Cardinality(Pending'))
  BY <1>2, <1>3, PendingFinite, GateClosed DEF QueueBound
<1> QED BY <1>4 DEF QueueBound, WithinSomeGate

LEMMA QueueStep ==
  ASSUME TypeOK, JobsAccountedFor, CapacitySeen, QueueBound, [Next]_vars
  PROVE  QueueBound'
<1>0. /\ jobs \in [Req -> Job]
      /\ \A q \in Req : StampedIfFinished(jobs[q])
  BY DEF TypeOK, JobsAccountedFor, JobAccountedFor
<1>1. ASSUME NEW r \in Req, Enqueue(r)
      PROVE  QueueBound'
  <2>1. CASE OverCapacity(Cardinality(Pending), seen[r])
    <3>1. jobs' = jobs
      BY <1>1, <2>1 DEF Enqueue
    <3> QED BY <3>1, QueueShrinks
  <2>2. CASE ~OverCapacity(Cardinality(Pending), seen[r])
    <3>1. SeenOnce(seen[r]) /\ seen[r] \in Nat
      BY <1>1 DEF Enqueue, CapacitySeen, TypeOK
    <3>2. Cardinality(Pending) < AtLeastOne(seen[r])
      BY <2>2, <3>1, PendingFinite, QueueAssumption
      DEF OverCapacity, Smaller, AtLeastOne, MAX_QUEUE_FACTOR
    <3>3. Pending' = Pending \cup {r}
      BY <1>0, <1>1, <2>2 DEF Enqueue, Pending, NewJob
    <3>4. r \notin Pending
      BY <1>1 DEF Enqueue, Pending, JobsAccountedFor, JobAccountedFor, BeforeJob
    <3>5. Cardinality(Pending') = Cardinality(Pending) + 1
      BY <3>3, <3>4, PendingFinite, FS_AddElement
    <3>6. WithinSomeGate(Cardinality(Pending'))
      BY <3>1, <3>2, <3>5, PendingFinite, GateOpen
    <3> QED BY <3>6 DEF QueueBound, WithinSomeGate
  <2> QED BY <2>1, <2>2
<1>2. ASSUME NEW r \in Req, Start(r) \/ Finish(r)
      PROVE  QueueBound'
  <2>1. \A q \in Req : jobs'[q].state = "pending" => jobs[q].state = "pending"
    BY <1>0, <1>2 DEF Start, Finish, Touched, Ended
  <2> QED BY <2>1, QueueShrinks
<1>3. ASSUME NEW r \in Req, ClientStep(r)
      PROVE  QueueBound'
  <2>1. ASSUME NEW q \in Req, jobs'[q].state = "pending"
        PROVE  jobs[q].state = "pending"
    <3>1. \/ jobs'[q] = jobs[q] \/ jobs'[q] = PruneJob(jobs[q])
          \/ jobs'[q] = Ended("cancelled")
          \/ jobs'[q] = Touched(PruneJob(jobs[q]), PruneJob(jobs[q]).state)
      BY <1>0, <1>3 DEF ClientStep, Dispatch, Disconnect, Poll, Abandon, Cancel, Prune, table
    <3>2. PruneJob(jobs[q]).state = "pending" => jobs[q].state = "pending"
      BY <1>0, PruneJobMoves
    <3> QED BY <2>1, <3>1, <3>2 DEF Ended, Touched
  <2> QED BY <2>1, QueueShrinks
<1>4. ASSUME Environment
      PROVE  QueueBound'
  <2>1. ASSUME NEW q \in Req, jobs'[q].state = "pending"
        PROVE  jobs[q].state = "pending"
    <3>1. \/ jobs'[q] = jobs[q] \/ jobs'[q] = PruneJob(jobs[q])
          \/ jobs'[q] = Ended("cancelled") \/ jobs'[q] = AgeJob(jobs[q])
      BY <1>4 DEF Environment, ClearQueue, Reap, CacheExpires, ClearCache, Tick, PoolChanges,
                  SettingChanges, Prune, table
    <3>2. PruneJob(jobs[q]).state = "pending" => jobs[q].state = "pending"
      BY <1>0, PruneJobMoves
    <3> QED BY <2>1, <3>1, <3>2 DEF Ended, AgeJob
  <2> QED BY <2>1, QueueShrinks
<1>5. CASE UNCHANGED jobs
  BY <1>5, QueueShrinks
<1>6. \A r \in Req : TaskStep(r) => Enqueue(r) \/ Start(r) \/ Finish(r) \/ UNCHANGED jobs
  BY DEF TaskStep, HandlerReadsCapacity, HandlerTriesSlot, Spawn, WorkerChecks, WorkerReadsCapacity,
         WorkerTriesSlot, Park, SlotWaitElapsed, HandlerOpEnds, WorkerOpEnds, Release, table
<1> QED BY <1>1, <1>2, <1>3, <1>4, <1>5, <1>6 DEF Next, vars

\* The backlog of pending jobs stays within the widest capacity: concurrent
\* dispatches cannot overshoot it.
THEOREM QueueNeverLonger == Spec => []QueueBound
<1>1. Init => CapacitySeen /\ QueueBound
  <2> SUFFICES ASSUME Init PROVE CapacitySeen /\ QueueBound
    OBVIOUS
  <2>1. Pending = {}
    BY DEF Init, Pending, NoJob
  <2> QED BY <2>1, FS_EmptySet, GateZero DEF Init, CapacitySeen, QueueBound
<1>2. TypeOK /\ CapacitySeen /\ [Next]_vars => CapacitySeen'
  BY CapacitySeenStep
<1>3. TypeOK /\ JobsAccountedFor /\ CapacitySeen /\ QueueBound /\ [Next]_vars => QueueBound'
  BY QueueStep
<1> QED
  BY <1>1, <1>2, <1>3, TypeCorrect, JobsAlwaysAccountedFor, PTL DEF Spec

----------------------------------------------------------------------------
(* The job table implements the life cycle *)

\* The move of one job.
LEMMA LifecycleStep ==
  ASSUME TypeOK, JobsAccountedFor, Next, NEW q \in Req
  PROVE  \/ jobs'[q].state = jobs[q].state
         \/ <<jobs[q].state, jobs'[q].state>> \in Lifecycle!Moves
<1> DEFINE Fine == \/ jobs'[q].state = jobs[q].state
                   \/ jobs[q].state = "none" /\ jobs'[q].state = "pending"
                   \/ jobs[q].state = "pending" /\ jobs'[q].state \in {"processing", "cancelled"}
                   \/ jobs[q].state = "processing" /\ jobs'[q].state \in Finished
                   \/ jobs[q].state \in Finished /\ jobs'[q].state = "none"
<1>0. jobs \in [Req -> Job] /\ StampedIfFinished(jobs[q]) /\ JobAccountedFor(q)
  BY DEF TypeOK, JobsAccountedFor, JobAccountedFor
<1>1. ASSUME NEW r \in Req, Enqueue(r)
      PROVE  Fine
  BY <1>0, <1>1 DEF Enqueue, NewJob, JobAccountedFor, BeforeJob
<1>2. ASSUME NEW r \in Req, Start(r)
      PROVE  Fine
  BY <1>0, <1>2 DEF Start, Touched, JobAccountedFor, Queued
<1>3. ASSUME NEW r \in Req, Finish(r)
      PROVE  Fine
  BY <1>0, <1>3 DEF Finish, Ended, JobAccountedFor, Running, Finished
<1>4. ASSUME NEW r \in Req, ClientStep(r)
      PROVE  Fine
  <2>1. \/ jobs'[q] = jobs[q] \/ jobs'[q] = PruneJob(jobs[q])
        \/ Live(PruneJob(jobs[q])) /\ jobs'[q] = Ended("cancelled")
        \/ jobs'[q] = Touched(PruneJob(jobs[q]), PruneJob(jobs[q]).state)
    BY <1>0, <1>4 DEF ClientStep, Dispatch, Disconnect, Poll, Abandon, Cancel, Prune, table
  <2> QED BY <1>0, <2>1, PruneJobMoves DEF Ended, Touched, Live, Finished
<1>5. ASSUME Environment
      PROVE  Fine
  <2>1. \/ jobs'[q] = jobs[q] \/ jobs'[q] = PruneJob(jobs[q])
        \/ Live(PruneJob(jobs[q])) /\ jobs'[q] = Ended("cancelled")
        \/ jobs'[q] = AgeJob(jobs[q])
    BY <1>5 DEF Environment, ClearQueue, Reap, CacheExpires, ClearCache, Tick, PoolChanges,
                SettingChanges, Prune, table
  <2> QED BY <1>0, <2>1, PruneJobMoves DEF Ended, AgeJob, Live, Finished
<1>6. \A r \in Req : TaskStep(r) => Enqueue(r) \/ Start(r) \/ Finish(r) \/ UNCHANGED jobs
  BY DEF TaskStep, HandlerReadsCapacity, HandlerTriesSlot, Spawn, WorkerChecks, WorkerReadsCapacity,
         WorkerTriesSlot, Park, SlotWaitElapsed, HandlerOpEnds, WorkerOpEnds, Release, table
<1>7. Fine
  BY <1>1, <1>2, <1>3, <1>4, <1>5, <1>6 DEF Next
<1> QED
  BY <1>7 DEF Lifecycle!Moves, Lifecycle!Verdict, Finished

\* The playback queue implements the job life cycle: every verdict is reached
\* from a state that allows it and is never replaced by another one.
THEOREM ImplementsLifecycle == Spec => LifecycleSpec
<1>1. Init => Lifecycle!Init
  BY DEF Init, Lifecycle!Init, NoJob
<1>2. ASSUME TypeOK, TypeOK', JobsAccountedFor, [Next]_vars
      PROVE  [Lifecycle!Next]_([r \in Req |-> jobs[r].state])
  <2>1. CASE UNCHANGED vars
    BY <2>1 DEF vars
  <2>2. CASE Next
    <3>1. \A q \in Req : jobs'[q].state \in JobState
      BY <1>2 DEF TypeOK, Job
    <3>2. \A q \in Req : \/ jobs'[q].state = jobs[q].state
                        \/ <<jobs[q].state, jobs'[q].state>> \in Lifecycle!Moves
      BY <1>2, <2>2, LifecycleStep
    <3>3. JobState = Lifecycle!Phase
      BY DEF JobState, Lifecycle!Phase, Lifecycle!Verdict
    <3> QED BY <3>1, <3>2, <3>3 DEF Lifecycle!Next
  <2> QED BY <1>2, <2>1, <2>2
<1> QED
  BY <1>1, <1>2, TypeCorrect, JobsAlwaysAccountedFor, PTL DEF Spec, LifecycleSpec, Lifecycle!Spec
=============================================================================
