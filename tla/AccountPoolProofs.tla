--------------------------- MODULE AccountPoolProofs ---------------------------
(***************************************************************************)
(* Leases, slots, waiting and failover for any number of accounts and      *)
(* requests, any limits and any events, checked by TLAPS.                  *)
(***************************************************************************)
EXTENDS AccountPool, FiniteSetTheorems, TLAPS

Waits == {"begin", "registered", "checked", "asleep"}
Holds == {"leased", "slot"}
PcVals == {"start", "claim", "done", "failed"} \cup Waits \cup Holds

\* AccountState and the owner's settings.
PoolTyped ==
  /\ gen \in [Account -> 1 .. MaxGen] /\ catalog \in [Account -> BOOLEAN]
  /\ status \in [Account -> {"ready", "paused", "cooling", "off"}]
  /\ inflight \in [Object -> [Kind -> Nat]] /\ slots \in [Object -> Nat]
  /\ resting \in [Account -> BOOLEAN] /\ picks \in [Account -> Nat]
  /\ setting \in [track : Limits, catalog : Limits, rest : Rests]

\* The locals of the loops; a lease or slot is held on an object.
LoopTyped ==
  /\ pc \in [Request -> PcVals]
  /\ rules \in [Request -> [limit : Limits \cup {0}, rest : BOOLEAN]]
  /\ held \in [Request -> Object \cup {None}]
  /\ \A r \in Request : pc[r] \in Holds => held[r] \in Object
  /\ failed \in [Request -> SUBSET Account] /\ maxTry \in [Request -> Nat]
  /\ first \in [Request -> Int] /\ hits \in [Request -> Nat]
  /\ limited \in [Request -> BOOLEAN] /\ second \in [Request -> BOOLEAN]

WaitTyped ==
  /\ notified \in [Request -> BOOLEAN] /\ late \in [Request -> BOOLEAN]
  /\ full \in [Request -> SUBSET Object] /\ after429 \in [Request -> Nat]

TypeInv == PoolTyped /\ LoopTyped /\ WaitTyped

LEMMA TypeInvImplies == TypeInv => TypeOK
BY DEF TypeInv, PoolTyped, LoopTyped, WaitTyped, TypeOK, PcVals, Waits, Holds

----------------------------------------------------------------------------
(* Sets of requests and of accounts are finite *)

LEMMA CountType ==
  ASSUME PoolParameters, NEW S \in SUBSET Request
  PROVE  IsFiniteSet(S) /\ Cardinality(S) \in Nat
BY FS_Subset, FS_CardinalityType DEF PoolParameters

LEMMA CountJoin ==
  ASSUME PoolParameters, NEW S \in SUBSET Request, NEW r
  PROVE  Cardinality(S \cup {r}) = IF r \in S THEN Cardinality(S) ELSE Cardinality(S) + 1
BY CountType, FS_AddElement

LEMMA CountLeave ==
  ASSUME PoolParameters, NEW S \in SUBSET Request, NEW r
  PROVE  Cardinality(S \ {r}) = IF r \in S THEN Cardinality(S) - 1 ELSE Cardinality(S)
BY CountType, FS_RemoveElement

LEMMA CountSubset ==
  ASSUME PoolParameters, NEW S \in SUBSET Request, NEW T \in SUBSET S
  PROVE  Cardinality(T) <= Cardinality(S)
BY CountType, FS_Subset

LEMMA AccountsFinite ==
  ASSUME PoolParameters, NEW S \in SUBSET Account
  PROVE  IsFiniteSet(S) /\ Cardinality(S) \in Nat
BY FS_Subset, FS_CardinalityType DEF PoolParameters

LEMMA PlaybackCountType ==
  ASSUME PoolParameters
  PROVE  PlaybackCount \in Nat
BY AccountsFinite DEF PlaybackCount

----------------------------------------------------------------------------
(* Type correctness *)

LEMMA CurrentType == TypeInv => \A a \in Account : Current(a) \in Object
BY DEF TypeInv, PoolTyped, Current, Object

LEMMA KindType == \A r : KindOf(r) \in Kind
BY DEF KindOf, Kind

LEMMA BeginTyped ==
  ASSUME PoolParameters, TypeInv, NEW r \in Request, Begin(r)
  PROVE  /\ pc' = [pc EXCEPT ![r] = "begin"]
         /\ rules' \in [Request -> [limit : Limits \cup {0}, rest : BOOLEAN]]
         /\ late' \in [Request -> BOOLEAN]
BY DEF PoolParameters, TypeInv, PoolTyped, LoopTyped, WaitTyped, Begin

LEMMA EnterTyped ==
  ASSUME PoolParameters, TypeInv, NEW r \in Request, NEW n, EnterPool(r, n)
  PROVE  Begin(r) /\ maxTry' \in [Request -> Nat] /\ maxTry'[r] >= 1
<1>1. PlaybackCount \in Nat
  BY PlaybackCountType
<1> DEFINE m == IF n = 1 \/ PlaybackCount = 0 THEN 1 ELSE PlaybackCount
<1>2. m \in Nat /\ m >= 1
  BY <1>1
<1> HIDE DEF m
<1>3. maxTry' = [maxTry EXCEPT ![r] = m] /\ Begin(r)
  BY DEF EnterPool, m
<1> QED
  BY <1>2, <1>3 DEF TypeInv, LoopTyped

LEMMA DropLeaseTyped ==
  ASSUME PoolParameters, TypeInv, CountersExact, NEW r \in Request,
         pc[r] = "leased", DropLease(r)
  PROVE  /\ inflight' \in [Object -> [Kind -> Nat]]
         /\ resting' \in [Account -> BOOLEAN]
         /\ held' = [held EXCEPT ![r] = None]
         /\ notified' \in [Request -> BOOLEAN]
<1> DEFINE o == held[r]
           k == KindOf(r)
           S == {q \in PoolHolders(o) : KindOf(q) = k}
<1>1. o \in Object /\ k \in Kind
  BY KindType DEF TypeInv, LoopTyped, Holds
<1>2. r \in S /\ S \in SUBSET Request
  BY DEF PoolHolders
<1>3. inflight[o][k] = Cardinality(S)
  BY <1>1 DEF CountersExact
<1>4. Cardinality(S) # 0
  BY <1>2, CountType, FS_EmptySet
<1>5. inflight[o][k] - 1 \in Nat
  BY <1>1, <1>3, <1>4 DEF TypeInv, PoolTyped
<1> HIDE DEF S
<1>6. inflight' \in [Object -> [Kind -> Nat]]
  BY <1>1, <1>5 DEF TypeInv, PoolTyped, DropLease
<1>7. notified' \in [Request -> BOOLEAN]
  BY DEF DropLease, Notify, TypeInv, WaitTyped
<1>8. resting' \in [Account -> BOOLEAN]
  BY DEF DropLease, TypeInv, PoolTyped
<1> QED
  BY <1>6, <1>7, <1>8 DEF DropLease

LEMMA DropSlotTyped ==
  ASSUME PoolParameters, TypeInv, CountersExact, NEW r \in Request, pc[r] = "slot", DropSlot(r)
  PROVE  /\ slots' \in [Object -> Nat]
         /\ held' = [held EXCEPT ![r] = None]
<1> DEFINE o == held[r]
<1>1. o \in Object
  BY DEF TypeInv, LoopTyped, Holds
<1>2. r \in SlotHolders(o) /\ SlotHolders(o) \in SUBSET Request
  BY DEF SlotHolders
<1>3. slots[o] = Cardinality(SlotHolders(o))
  BY <1>1 DEF CountersExact
<1>4. slots[o] - 1 \in Nat
  BY <1>1, <1>2, <1>3, CountType, FS_EmptySet DEF TypeInv, PoolTyped
<1> QED
  BY <1>1, <1>4 DEF TypeInv, PoolTyped, DropSlot

\* A step of the pool, the loops and the waits of one request.
LEMMA RequestTyped ==
  ASSUME PoolParameters, TypeInv, CountersExact, NEW r \in Request, RequestStep(r)
  PROVE  TypeInv'
<1> USE DEF pool, loop, waiting
<1>1. CASE TrackStarts(r)
  <2>1. /\ Begin(r) /\ maxTry' \in [Request -> Nat]
        /\ UNCHANGED <<pool, held, failed, first, hits, limited, second, notified, full, after429>>
    BY <1>1, EnterTyped DEF TrackStarts
  <2>2. /\ pc' = [pc EXCEPT ![r] = "begin"]
        /\ rules' \in [Request -> [limit : Limits \cup {0}, rest : BOOLEAN]]
        /\ late' \in [Request -> BOOLEAN]
    BY <2>1, BeginTyped
  <2> QED
    BY <2>1, <2>2 DEF TypeInv, PoolTyped, LoopTyped, WaitTyped, PcVals, Waits, Holds
<1>2. CASE MetaStarts(r)
  <2>1. /\ rules' \in [Request -> [limit : Limits \cup {0}, rest : BOOLEAN]]
        /\ UNCHANGED <<pool, held, failed, maxTry, first, hits, second, waiting, after429>>
    <3>1. setting.catalog \in Limits
      BY DEF TypeInv, PoolTyped
    <3>2. rules' = [rules EXCEPT ![r].limit = setting.catalog]
      BY <1>2 DEF MetaStarts
    <3>3. UNCHANGED <<pool, held, failed, maxTry, first, hits, second, waiting, after429>>
      BY <1>2 DEF MetaStarts
    <3>4. rules' \in [Request -> [limit : Limits \cup {0}, rest : BOOLEAN]]
      BY <3>1, <3>2 DEF TypeInv, LoopTyped
    <3> QED
      BY <3>3, <3>4
  <2>2. \E v \in {"done", "claim"} : pc' = [pc EXCEPT ![r] = v]
    BY <1>2 DEF MetaStarts
  <2>3. limited' \in [Request -> BOOLEAN]
    BY <1>2 DEF TypeInv, MetaStarts, LoopTyped
  <2>4. /\ pc' \in [Request -> PcVals]
        /\ \A q \in Request : pc'[q] \in Holds => pc[q] \in Holds
    BY <2>2 DEF TypeInv, LoopTyped, PcVals, Waits, Holds
  <2>5. LoopTyped'
    BY <2>1, <2>3, <2>4 DEF TypeInv, LoopTyped
  <2>6. PoolTyped' /\ WaitTyped'
    BY <2>1 DEF TypeInv, PoolTyped, WaitTyped
  <2> QED
    BY <2>5, <2>6 DEF TypeInv
<1>3. CASE Register(r) \/ TimerFires(r)
  <2>1. /\ pc' = [pc EXCEPT ![r] = "registered"]
        /\ notified' = [notified EXCEPT ![r] = FALSE]
        /\ full' = [full EXCEPT ![r] = {}]
        /\ UNCHANGED <<pool, rules, held, loop, late, after429>>
    BY <1>3 DEF Register, TimerFires
  <2>2. /\ pc' \in [Request -> PcVals]
        /\ \A q \in Request : pc'[q] \in Holds => pc[q] \in Holds
    BY <2>1 DEF TypeInv, LoopTyped, PcVals, Waits, Holds
  <2>3. LoopTyped'
    BY <2>1, <2>2 DEF TypeInv, LoopTyped
  <2>4. PoolTyped' /\ WaitTyped'
    BY <2>1 DEF TypeInv, PoolTyped, WaitTyped
  <2> QED
    BY <2>3, <2>4 DEF TypeInv
<1>4. CASE Sleep(r)
  BY <1>4 DEF TypeInv, Sleep, PoolTyped, LoopTyped, WaitTyped, PcVals, Waits, Holds
<1>5. CASE TryLease(r)
  <2>1. /\ UNCHANGED <<gen, catalog, status, slots, resting, setting, rules, loop, notified, late>>
        /\ pc[r] = "registered"
    BY <1>5 DEF TryLease
  <2>2. ASSUME NEW a \in Eligible(r),
               held' = [held EXCEPT ![r] = Current(a)],
               inflight' = [inflight EXCEPT ![Current(a)][KindOf(r)] = @ + 1],
               NoteSelection(a), pc' = [pc EXCEPT ![r] = "leased"],
               after429' = [after429 EXCEPT ![r] = IF first[r] >= 0 \/ limited[r] THEN @ + 1 ELSE @],
               UNCHANGED full
        PROVE  TypeInv'
    <3>1. a \in Account /\ Current(a) \in Object /\ KindOf(r) \in Kind
      BY CurrentType, KindType DEF Eligible, Usable
    <3>2. /\ inflight' \in [Object -> [Kind -> Nat]] /\ picks' \in [Account -> Nat]
      BY <2>2, <3>1 DEF TypeInv, PoolTyped, NoteSelection
    <3>3. after429' \in [Request -> Nat]
      BY <2>2 DEF TypeInv, WaitTyped
    <3> QED
      BY <2>1, <2>2, <3>1, <3>2, <3>3 DEF TypeInv, PoolTyped, LoopTyped, WaitTyped, PcVals, Holds
  <2>3. CASE pc' = [pc EXCEPT ![r] = "failed"] /\ UNCHANGED <<held, inflight, picks, full, after429>>
    BY <2>1, <2>3 DEF TypeInv, PoolTyped, LoopTyped, WaitTyped, PcVals, Holds
  <2>4. CASE /\ pc' = [pc EXCEPT ![r] = "checked"] /\ UNCHANGED <<held, inflight, picks, after429>>
             /\ full' = [full EXCEPT ![r] =
                  {o \in {Current(a) : a \in Usable(r)} :
                     rules[r].limit > 0 /\ PoolInflight(o) >= rules[r].limit}]
    <3>1. {Current(a) : a \in Usable(r)} \subseteq Object
      BY CurrentType DEF Usable
    <3>2. full' \in [Request -> SUBSET Object]
      BY <2>4, <3>1 DEF TypeInv, WaitTyped
    <3> QED
      BY <2>1, <2>4, <3>2 DEF TypeInv, PoolTyped, LoopTyped, WaitTyped, PcVals, Waits, Holds
  <2> QED
    BY <1>5, <2>2, <2>3, <2>4 DEF TryLease
<1>6. CASE LeaseEnds(r)
  <2>1. /\ UNCHANGED <<gen, catalog, status, slots, picks, setting, rules, loop, late, full, after429>>
        /\ pc[r] = "leased" /\ DropLease(r)
        /\ \E v \in {"done", "failed"} : pc' = [pc EXCEPT ![r] = v]
    BY <1>6 DEF LeaseEnds
  <2>2. /\ inflight' \in [Object -> [Kind -> Nat]] /\ resting' \in [Account -> BOOLEAN]
        /\ held' = [held EXCEPT ![r] = None] /\ notified' \in [Request -> BOOLEAN]
    BY <2>1, DropLeaseTyped
  <2> QED
    BY <2>1, <2>2 DEF TypeInv, PoolTyped, LoopTyped, WaitTyped, PcVals, Holds
<1>7. ASSUME pc[r] = "leased", DropLease(r),
             (pc' = [pc EXCEPT ![r] = "failed"] /\ UNCHANGED <<rules, late>>) \/ Begin(r),
             failed' = [failed EXCEPT ![r] = @ \cup {held[r][1]}],
             status' \in [Account -> {"ready", "paused", "cooling", "off"}],
             first' \in [Request -> Int], hits' \in [Request -> Nat],
             UNCHANGED <<gen, catalog, slots, picks, setting, maxTry, limited, second, full, after429>>
      PROVE  TypeInv'
  <2>1. held[r] \in Object
    BY <1>7 DEF TypeInv, LoopTyped, Holds
  <2>2. held[r][1] \in Account
    BY <2>1 DEF Object
  <2>3. failed' \in [Request -> SUBSET Account]
    BY <1>7, <2>2 DEF TypeInv, LoopTyped
  <2>4. /\ rules' \in [Request -> [limit : Limits \cup {0}, rest : BOOLEAN]]
        /\ late' \in [Request -> BOOLEAN]
        /\ \E v \in {"failed", "begin"} : pc' = [pc EXCEPT ![r] = v]
    BY <1>7, BeginTyped DEF TypeInv, LoopTyped, WaitTyped
  <2>5. /\ inflight' \in [Object -> [Kind -> Nat]] /\ resting' \in [Account -> BOOLEAN]
        /\ held' = [held EXCEPT ![r] = None] /\ notified' \in [Request -> BOOLEAN]
    BY <1>7, DropLeaseTyped
  <2> QED
    BY <1>7, <2>3, <2>4, <2>5 DEF TypeInv, PoolTyped, LoopTyped, WaitTyped, PcVals, Waits, Holds
<1>8. CASE LeaseFails(r)
  <2>1. status' \in [Account -> {"ready", "paused", "cooling", "off"}]
    BY <1>8 DEF TypeInv, LeaseFails, PoolTyped
  <2>2. first' \in [Request -> Int] /\ hits' \in [Request -> Nat]
    BY <1>8 DEF TypeInv, LeaseFails, LoopTyped
  <2> QED
    BY <1>7, <1>8, <2>1, <2>2 DEF LeaseFails
<1>9. CASE LeaseRateLimited(r)
  <2>1. status' \in [Account -> {"ready", "paused", "cooling", "off"}]
    BY <1>9 DEF TypeInv, LeaseRateLimited, Pause, PoolTyped
  <2>2. failed[r] \in SUBSET Account
    BY DEF TypeInv, LoopTyped
  <2>3. Cardinality(failed[r]) \in Nat
    BY <2>2, AccountsFinite
  <2>4. first' \in [Request -> Int] /\ hits' \in [Request -> Nat]
    BY <1>9, <2>3 DEF TypeInv, LeaseRateLimited, Schedule, LoopTyped
  <2> QED
    BY <1>7, <1>9, <2>1, <2>4 DEF LeaseRateLimited
<1>10. CASE ClaimSlot(r)
  <2>1. /\ UNCHANGED <<gen, catalog, status, inflight, resting, setting, failed, first, hits, notified,
                       full>>
        /\ pc[r] = "claim"
    BY <1>10 DEF ClaimSlot
  <2>2. ASSUME NEW a \in CatalogReady,
               slots' = [slots EXCEPT ![Current(a)] = @ + 1], held' = [held EXCEPT ![r] = Current(a)],
               NoteSelection(a), pc' = [pc EXCEPT ![r] = "slot"],
               second' = [second EXCEPT ![r] = limited[r]],
               after429' = [after429 EXCEPT ![r] = IF limited[r] THEN @ + 1 ELSE @],
               UNCHANGED <<rules, maxTry, late, limited>>
        PROVE  TypeInv'
    <3>1. a \in Account /\ Current(a) \in Object
      BY CurrentType DEF CatalogReady
    <3>2. slots' \in [Object -> Nat] /\ picks' \in [Account -> Nat]
      BY <2>2, <3>1 DEF TypeInv, PoolTyped, NoteSelection
    <3>3. after429' \in [Request -> Nat] /\ second' \in [Request -> BOOLEAN]
      BY <2>2 DEF TypeInv, WaitTyped, LoopTyped
    <3> QED
      BY <2>1, <2>2, <3>1, <3>2, <3>3 DEF TypeInv, PoolTyped, LoopTyped, WaitTyped, PcVals, Holds
  <2>3. CASE OverflowToPool(r) /\ UNCHANGED <<slots, held, picks, second, after429>>
    <3>1. limited' \in [Request -> BOOLEAN]
      BY <2>3 DEF TypeInv, OverflowToPool, LoopTyped
    <3>2. \/ pc' = [pc EXCEPT ![r] = "failed"] /\ UNCHANGED <<maxTry, rules, late>>
          \/ EnterPool(r, 0) \/ EnterPool(r, 1)
      BY <2>3 DEF OverflowToPool
    <3>3. \/ pc' = [pc EXCEPT ![r] = "failed"] /\ UNCHANGED <<maxTry, rules, late>>
          \/ Begin(r) /\ maxTry' \in [Request -> Nat]
      BY <3>2, EnterTyped
    <3>4. /\ rules' \in [Request -> [limit : Limits \cup {0}, rest : BOOLEAN]]
          /\ late' \in [Request -> BOOLEAN] /\ maxTry' \in [Request -> Nat]
          /\ \E v \in {"failed", "begin"} : pc' = [pc EXCEPT ![r] = v]
      BY <3>3, BeginTyped DEF TypeInv, LoopTyped, WaitTyped
    <3> QED
      BY <2>1, <2>3, <3>1, <3>4 DEF TypeInv, PoolTyped, LoopTyped, WaitTyped, PcVals, Waits, Holds
  <2> QED
    BY <1>10, <2>2, <2>3 DEF ClaimSlot
<1>11. CASE SlotEnds(r)
  <2>1. /\ UNCHANGED <<gen, catalog, status, inflight, resting, picks, setting, rules, loop, waiting,
                       after429>>
        /\ pc[r] = "slot" /\ DropSlot(r)
        /\ \E v \in {"done", "failed"} : pc' = [pc EXCEPT ![r] = v]
    BY <1>11 DEF SlotEnds
  <2>2. slots' \in [Object -> Nat] /\ held' = [held EXCEPT ![r] = None]
    BY <2>1, DropSlotTyped
  <2> QED
    BY <2>1, <2>2 DEF TypeInv, PoolTyped, LoopTyped, WaitTyped, PcVals, Holds
<1>12. CASE SlotRateLimited(r)
  <2>1. /\ UNCHANGED <<gen, catalog, inflight, resting, picks, setting, rules, failed, maxTry, first,
                       hits, second, waiting, after429>>
        /\ pc[r] = "slot" /\ DropSlot(r)
        /\ \E v \in {"failed", "claim"} : pc' = [pc EXCEPT ![r] = v]
    BY <1>12 DEF SlotRateLimited
  <2>2. /\ limited' \in [Request -> BOOLEAN]
        /\ status' \in [Account -> {"ready", "paused", "cooling", "off"}]
    BY <1>12 DEF TypeInv, SlotRateLimited, Pause, LoopTyped, PoolTyped
  <2>3. slots' \in [Object -> Nat] /\ held' = [held EXCEPT ![r] = None]
    BY <2>1, DropSlotTyped
  <2> QED
    BY <2>1, <2>2, <2>3 DEF TypeInv, PoolTyped, LoopTyped, WaitTyped, PcVals, Holds
<1>13. CASE SlotFails(r)
  <2>1. /\ UNCHANGED <<gen, catalog, status, inflight, resting, picks, setting, failed, first, hits,
                       second, notified, full, after429>>
        /\ pc[r] = "slot" /\ DropSlot(r)
    BY <1>13 DEF SlotFails
  <2>2. \/ pc' = [pc EXCEPT ![r] = "failed"] /\ UNCHANGED <<maxTry, rules, late>>
        \/ EnterPool(r, 0) \/ EnterPool(r, 1)
    BY <1>13 DEF SlotFails
  <2>3. limited' \in [Request -> BOOLEAN]
    BY <1>13 DEF TypeInv, SlotFails, LoopTyped
  <2>4. \/ pc' = [pc EXCEPT ![r] = "failed"] /\ UNCHANGED <<maxTry, rules, late>>
        \/ Begin(r) /\ maxTry' \in [Request -> Nat]
    BY <2>2, EnterTyped
  <2>5. /\ rules' \in [Request -> [limit : Limits \cup {0}, rest : BOOLEAN]]
        /\ late' \in [Request -> BOOLEAN] /\ maxTry' \in [Request -> Nat]
        /\ \E v \in {"failed", "begin"} : pc' = [pc EXCEPT ![r] = v]
    BY <2>4, BeginTyped DEF TypeInv, LoopTyped, WaitTyped
  <2>6. slots' \in [Object -> Nat] /\ held' = [held EXCEPT ![r] = None]
    BY <2>1, DropSlotTyped
  <2> QED
    BY <2>1, <2>3, <2>5, <2>6 DEF TypeInv, PoolTyped, LoopTyped, WaitTyped, PcVals, Waits, Holds
<1> QED
  BY <1>1, <1>2, <1>3, <1>4, <1>5, <1>6, <1>8, <1>9, <1>10, <1>11, <1>12, <1>13 DEF RequestStep

LEMMA SurroundingsTyped ==
  ASSUME PoolParameters, TypeInv, Surroundings
  PROVE  TypeInv'
<1> USE DEF pool, loop, waiting
<1>1. ASSUME NEW r \in Request, Disconnect(r) \/ WaitOver(r) PROVE TypeInv'
  BY <1>1 DEF TypeInv, Disconnect, WaitOver, PoolTyped, LoopTyped, WaitTyped, PcVals, Waits, Holds
<1>2. ASSUME UNCHANGED <<inflight, slots, setting, pc, rules, held, loop, waiting, after429>>,
             gen' \in [Account -> 1 .. MaxGen], catalog' \in [Account -> BOOLEAN],
             status' \in [Account -> {"ready", "paused", "cooling", "off"}],
             resting' \in [Account -> BOOLEAN], picks' \in [Account -> Nat]
      PROVE  TypeInv'
  BY <1>2 DEF TypeInv, PoolTyped, LoopTyped, WaitTyped
<1>3. ASSUME NEW a \in Account, NEW s \in {"ready", "paused", "cooling", "off"}, CarryOver(a, s)
      PROVE  /\ gen' \in [Account -> 1 .. MaxGen] /\ resting' \in [Account -> BOOLEAN]
             /\ status' \in [Account -> {"ready", "paused", "cooling", "off"}]
  <2>1. gen' \in [Account -> 1 .. MaxGen]
    BY <1>3 DEF PoolParameters, TypeInv, CarryOver, PoolTyped
  <2> QED
    BY <1>3, <2>1 DEF TypeInv, CarryOver, PoolTyped
<1>4. ASSUME NEW a \in Account, RestEnds(a) PROVE TypeInv'
  <2>1. resting' \in [Account -> BOOLEAN]
    BY <1>4 DEF RestEnds, TypeInv, PoolTyped
  <2> QED
    BY <1>2, <1>4, <2>1 DEF RestEnds, TypeInv, PoolTyped
<1>10. ASSUME NEW a \in Account, HourPasses(a) PROVE TypeInv'
  <2>1. picks' \in [Account -> Nat]
    BY <1>10 DEF HourPasses, TypeInv, PoolTyped
  <2> QED
    BY <1>2, <1>10, <2>1 DEF HourPasses, TypeInv, PoolTyped
<1>5. ASSUME NEW a \in Account, StatusChanges(a) PROVE TypeInv'
  BY <1>2, <1>5 DEF TypeInv, StatusChanges, PoolTyped
<1>6. ASSUME NEW a \in Account, SetAccountCatalog(a) PROVE TypeInv'
  BY <1>2, <1>6 DEF TypeInv, SetAccountCatalog, PoolTyped
<1>7. ASSUME NEW a \in Account, UpdateAccount(a) PROVE TypeInv'
  BY <1>2, <1>3, <1>7 DEF TypeInv, UpdateAccount, PoolTyped
<1>8. ASSUME NEW a \in Account, AdoptRecord(a) PROVE TypeInv'
  BY <1>2, <1>3, <1>8 DEF TypeInv, AdoptRecord, PoolTyped
<1>9. CASE ChangeSettings
  BY <1>9 DEF TypeInv, ChangeSettings, PoolTyped, LoopTyped, WaitTyped
<1> QED
  BY <1>1, <1>4, <1>5, <1>6, <1>7, <1>8, <1>9, <1>10 DEF Surroundings

LEMMA TypeStep ==
  ASSUME PoolParameters, TypeInv, CountersExact, [Next]_vars
  PROVE  TypeInv'
<1>1. CASE UNCHANGED vars
  BY <1>1 DEF TypeInv, PoolTyped, LoopTyped, WaitTyped, vars
<1> QED
  BY <1>1, RequestTyped, SurroundingsTyped DEF Next

----------------------------------------------------------------------------
(* What a step does to the leases and slots *)

Alike(q) == pc'[q] = pc[q] /\ held'[q] = held[q] /\ rules'[q] = rules[q]
OthersAlike(r) == \A q \in Request \ {r} : Alike(q)

\* No lease and no slot is taken or returned; a request that sleeps keeps its rules.
Neutral ==
  /\ UNCHANGED <<inflight, slots>>
  /\ \A q \in Request : Alike(q) \/ (pc[q] \notin Holds /\ pc'[q] \notin Holds)

TakesLease(r, o) ==
  /\ pc[r] \notin Holds /\ pc'[r] = "leased" /\ held'[r] = o
  /\ rules[r].limit = 0 \/ PoolInflight(o) < rules[r].limit
  /\ rules' = rules /\ OthersAlike(r)
  /\ inflight' = [inflight EXCEPT ![o][KindOf(r)] = @ + 1]
  /\ UNCHANGED slots

ReturnsLease(r) ==
  /\ pc[r] = "leased" /\ pc'[r] \notin Holds
  /\ OthersAlike(r)
  /\ inflight' = [inflight EXCEPT ![held[r]][KindOf(r)] = @ - 1]
  /\ UNCHANGED slots

TakesSlot(r, o) ==
  /\ pc[r] \notin Holds /\ pc'[r] = "slot" /\ held'[r] = o
  /\ rules[r].limit = 0 \/ slots[o] < rules[r].limit
  /\ rules' = rules /\ OthersAlike(r)
  /\ slots' = [slots EXCEPT ![o] = @ + 1]
  /\ UNCHANGED inflight

ReturnsSlot(r) ==
  /\ pc[r] = "slot" /\ pc'[r] \notin Holds
  /\ OthersAlike(r)
  /\ slots' = [slots EXCEPT ![held[r]] = @ - 1]
  /\ UNCHANGED inflight

HoldStep ==
  \/ Neutral
  \/ \E r \in Request : ReturnsLease(r) \/ ReturnsSlot(r)
  \/ \E r \in Request, o \in Object : TakesLease(r, o) \/ TakesSlot(r, o)

\* Reading the limits anew, for a request that holds nothing afterwards.
LEMMA BeginMoves ==
  ASSUME TypeInv, NEW r \in Request, Begin(r)
  PROVE  /\ pc'[r] = "begin"
         /\ \A q \in Request \ {r} : pc'[q] = pc[q] /\ rules'[q] = rules[q]
BY DEF Begin, TypeInv, LoopTyped

LEMMA LeaseMoves ==
  ASSUME TypeInv, NEW r \in Request, pc[r] = "leased", DropLease(r), UNCHANGED slots,
         Begin(r) \/ (UNCHANGED rules /\ \E v \in {"done", "failed"} : pc' = [pc EXCEPT ![r] = v])
  PROVE  ReturnsLease(r)
<1>1. /\ inflight' = [inflight EXCEPT ![held[r]][KindOf(r)] = @ - 1]
      /\ held' = [held EXCEPT ![r] = None]
  BY DEF DropLease
<1>2. /\ pc'[r] \in {"begin", "done", "failed"}
      /\ \A q \in Request \ {r} : pc'[q] = pc[q] /\ rules'[q] = rules[q]
  BY BeginMoves DEF TypeInv, LoopTyped
<1> QED
  BY <1>1, <1>2 DEF ReturnsLease, OthersAlike, Alike, Holds, TypeInv, LoopTyped

LEMMA SlotMoves ==
  ASSUME TypeInv, NEW r \in Request, pc[r] = "slot", DropSlot(r), UNCHANGED inflight,
         \/ Begin(r)
         \/ UNCHANGED rules /\ \E v \in {"done", "failed", "claim"} : pc' = [pc EXCEPT ![r] = v]
  PROVE  ReturnsSlot(r)
<1>1. /\ slots' = [slots EXCEPT ![held[r]] = @ - 1]
      /\ held' = [held EXCEPT ![r] = None]
  BY DEF DropSlot
<1>2. /\ pc'[r] \in {"begin", "done", "failed", "claim"}
      /\ \A q \in Request \ {r} : pc'[q] = pc[q] /\ rules'[q] = rules[q]
  BY BeginMoves DEF TypeInv, LoopTyped
<1> QED
  BY <1>1, <1>2 DEF ReturnsSlot, OthersAlike, Alike, Holds, TypeInv, LoopTyped

LEMMA StepMoves ==
  ASSUME TypeInv, [Next]_vars
  PROVE  HoldStep
<1> USE DEF pool
<1>1. ASSUME UNCHANGED <<inflight, slots, pc, held, rules>> PROVE HoldStep
  BY <1>1 DEF HoldStep, Neutral, Alike
<1>2. ASSUME NEW r \in Request, pc[r] \notin Holds, pc'[r] \notin Holds,
             \A q \in Request \ {r} : pc'[q] = pc[q] /\ rules'[q] = rules[q],
             UNCHANGED <<inflight, slots, held>>
      PROVE  HoldStep
  BY <1>2 DEF HoldStep, Neutral, Alike
<1>3. ASSUME NEW r \in Request, NEW v, v \notin Holds, pc[r] \notin Holds,
             pc' = [pc EXCEPT ![r] = v], UNCHANGED <<inflight, slots, held>>,
             \A q \in Request \ {r} : rules'[q] = rules[q]
      PROVE  HoldStep
  BY <1>2, <1>3 DEF TypeInv, LoopTyped
<1>4. ASSUME NEW r \in Request, pc[r] \notin Holds, Begin(r), UNCHANGED <<inflight, slots, held>>
      PROVE  HoldStep
  BY <1>2, <1>4, BeginMoves DEF Holds
<1>5. ASSUME NEW r \in Request, RequestStep(r) PROVE HoldStep
  <2>1. CASE TrackStarts(r)
    BY <1>4, <2>1 DEF TrackStarts, EnterPool, Holds
  <2>2. CASE MetaStarts(r)
    <3>1. /\ pc[r] = "start" /\ rules' = [rules EXCEPT ![r].limit = setting.catalog]
          /\ UNCHANGED <<inflight, slots, held>>
          /\ \E v \in {"done", "claim"} : pc' = [pc EXCEPT ![r] = v]
      BY <2>2 DEF MetaStarts
    <3>2. \A q \in Request \ {r} : rules'[q] = rules[q]
      BY <3>1 DEF TypeInv, LoopTyped
    <3> QED
      BY <1>3, <3>1, <3>2 DEF Holds
  <2>3. CASE Register(r) \/ TimerFires(r) \/ Sleep(r)
    <3>1. /\ pc[r] \notin Holds /\ UNCHANGED <<inflight, slots, held, rules>>
          /\ \E v \in {"registered", "failed", "asleep"} : pc' = [pc EXCEPT ![r] = v]
      BY <2>3 DEF Register, TimerFires, Sleep, Holds
    <3> QED
      BY <1>3, <3>1 DEF Holds
  <2>4. CASE TryLease(r)
    <3>1. pc[r] = "registered" /\ UNCHANGED <<slots, rules>>
      BY <2>4 DEF TryLease
    <3>2. ASSUME NEW a \in Eligible(r), held' = [held EXCEPT ![r] = Current(a)],
                 inflight' = [inflight EXCEPT ![Current(a)][KindOf(r)] = @ + 1],
                 pc' = [pc EXCEPT ![r] = "leased"]
          PROVE  HoldStep
      <4>1. /\ Current(a) \in Object
            /\ rules[r].limit = 0 \/ PoolInflight(Current(a)) < rules[r].limit
        BY CurrentType DEF Eligible, Usable
      <4>2. TakesLease(r, Current(a))
        BY <3>1, <3>2, <4>1 DEF TakesLease, OthersAlike, Alike, Holds, TypeInv, LoopTyped
      <4> QED
        BY <4>1, <4>2 DEF HoldStep
    <3>3. CASE /\ \E v \in {"failed", "checked"} : pc' = [pc EXCEPT ![r] = v]
               /\ UNCHANGED <<held, inflight>>
      BY <1>3, <3>1, <3>3 DEF Holds
    <3> QED
      BY <2>4, <3>2, <3>3 DEF TryLease
  <2>5. CASE LeaseEnds(r) \/ LeaseFails(r) \/ LeaseRateLimited(r)
    <3>1. /\ pc[r] = "leased" /\ DropLease(r) /\ UNCHANGED slots
          /\ \/ Begin(r)
             \/ UNCHANGED rules /\ \E v \in {"done", "failed"} : pc' = [pc EXCEPT ![r] = v]
      BY <2>5 DEF LeaseEnds, LeaseFails, LeaseRateLimited
    <3> QED
      BY <3>1, LeaseMoves DEF HoldStep
  <2>6. CASE ClaimSlot(r)
    <3>1. pc[r] = "claim" /\ UNCHANGED inflight
      BY <2>6 DEF ClaimSlot
    <3>2. ASSUME NEW a \in CatalogReady, SlotFree(r, a), held' = [held EXCEPT ![r] = Current(a)],
                 slots' = [slots EXCEPT ![Current(a)] = @ + 1],
                 pc' = [pc EXCEPT ![r] = "slot"], UNCHANGED rules
          PROVE  HoldStep
      <4>1. /\ Current(a) \in Object
            /\ rules[r].limit = 0 \/ slots[Current(a)] < rules[r].limit
        BY <3>2, CurrentType DEF CatalogReady, SlotFree
      <4>2. TakesSlot(r, Current(a))
        BY <3>1, <3>2, <4>1 DEF TakesSlot, OthersAlike, Alike, Holds, TypeInv, LoopTyped
      <4> QED
        BY <4>1, <4>2 DEF HoldStep
    <3>3. CASE OverflowToPool(r) /\ UNCHANGED <<slots, held>>
      <4>1. Begin(r) \/ (UNCHANGED rules /\ pc' = [pc EXCEPT ![r] = "failed"])
        BY <3>3 DEF OverflowToPool, EnterPool
      <4> QED
        BY <1>3, <1>4, <3>1, <3>3, <4>1 DEF Holds
    <3> QED
      BY <2>6, <3>2, <3>3 DEF ClaimSlot
  <2>7. CASE SlotEnds(r) \/ SlotRateLimited(r) \/ SlotFails(r)
    <3>1. /\ pc[r] = "slot" /\ DropSlot(r) /\ UNCHANGED inflight
          /\ \/ Begin(r)
             \/ UNCHANGED rules /\ \E v \in {"done", "failed", "claim"} : pc' = [pc EXCEPT ![r] = v]
      BY <2>7 DEF SlotEnds, SlotRateLimited, SlotFails, EnterPool
    <3> QED
      BY <3>1, SlotMoves DEF HoldStep
  <2> QED
    BY <1>5, <2>1, <2>2, <2>3, <2>4, <2>5, <2>6, <2>7 DEF RequestStep
<1>6. CASE Surroundings
  <2>1. ASSUME NEW r \in Request, Disconnect(r) PROVE HoldStep
    <3>1. pc[r] \notin Holds
      BY <2>1 DEF Disconnect, Holds
    <3> QED
      BY <1>3, <2>1, <3>1 DEF Disconnect, Holds
  <2>2. CASE ~\E r \in Request : Disconnect(r)
    <3>1. UNCHANGED <<inflight, slots, pc, held, rules>>
      BY <1>6, <2>2
         DEF Surroundings, WaitOver, RestEnds, HourPasses, StatusChanges, SetAccountCatalog,
             UpdateAccount, AdoptRecord, ChangeSettings
    <3> QED
      BY <1>1, <3>1
  <2> QED
    BY <2>1, <2>2
<1>7. CASE UNCHANGED vars
  BY <1>1, <1>7 DEF vars
<1> QED
  BY <1>5, <1>6, <1>7 DEF Next

----------------------------------------------------------------------------
(* The counters *)

\* The requests of one kind that hold a lease on an object.
KindHolders(o, k) == {r \in PoolHolders(o) : KindOf(r) = k}

LEMMA HoldersTyped ==
  ASSUME NEW o, NEW k
  PROVE  /\ PoolHolders(o) \in SUBSET Request /\ SlotHolders(o) \in SUBSET Request
         /\ KindHolders(o, k) \in SUBSET Request
BY DEF PoolHolders, SlotHolders, KindHolders

LEMMA HoldersNeutral ==
  ASSUME Neutral, NEW o, NEW k
  PROVE  /\ KindHolders(o, k)' = KindHolders(o, k) /\ PoolHolders(o)' = PoolHolders(o)
         /\ SlotHolders(o)' = SlotHolders(o)
BY DEF Neutral, Alike, Holds, KindHolders, PoolHolders, SlotHolders

LEMMA HoldersTake ==
  ASSUME NEW r \in Request, NEW o, TakesLease(r, o), NEW p, NEW k
  PROVE  /\ SlotHolders(p)' = SlotHolders(p)
         /\ r \notin PoolHolders(p)
         /\ PoolHolders(p)' = IF p = o THEN PoolHolders(p) \cup {r} ELSE PoolHolders(p)
         /\ KindHolders(p, k)' = IF p = o /\ k = KindOf(r) THEN KindHolders(p, k) \cup {r}
                                                           ELSE KindHolders(p, k)
<1>1. \A q \in Request : q # r => pc'[q] = pc[q] /\ held'[q] = held[q]
  BY DEF TakesLease, OthersAlike, Alike
<1>2. pc[r] \notin Holds /\ pc'[r] = "leased" /\ held'[r] = o
  BY DEF TakesLease
<1>3. /\ SlotHolders(p)' = SlotHolders(p) /\ r \notin PoolHolders(p)
      /\ PoolHolders(p)' = IF p = o THEN PoolHolders(p) \cup {r} ELSE PoolHolders(p)
  BY <1>1, <1>2 DEF Holds, PoolHolders, SlotHolders
<1>4. KindHolders(p, k)' = {q \in PoolHolders(p)' : KindOf(q) = k}
  BY DEF KindHolders, KindOf
<1> QED
  BY <1>3, <1>4 DEF KindHolders

LEMMA HoldersReturn ==
  ASSUME NEW r \in Request, ReturnsLease(r), NEW p, NEW k
  PROVE  /\ SlotHolders(p)' = SlotHolders(p)
         /\ r \in PoolHolders(p) <=> p = held[r]
         /\ PoolHolders(p)' = PoolHolders(p) \ {r}
         /\ KindHolders(p, k)' = KindHolders(p, k) \ {r}
<1>1. \A q \in Request : q # r => pc'[q] = pc[q] /\ held'[q] = held[q]
  BY DEF ReturnsLease, OthersAlike, Alike
<1>2. pc[r] = "leased" /\ pc'[r] \notin Holds
  BY DEF ReturnsLease
<1>3. /\ SlotHolders(p)' = SlotHolders(p)
      /\ r \in PoolHolders(p) <=> p = held[r]
      /\ PoolHolders(p)' = PoolHolders(p) \ {r}
  BY <1>1, <1>2 DEF Holds, PoolHolders, SlotHolders
<1>4. KindHolders(p, k)' = {q \in PoolHolders(p)' : KindOf(q) = k}
  BY DEF KindHolders, KindOf
<1> QED
  BY <1>3, <1>4 DEF KindHolders

LEMMA SlotHoldersTake ==
  ASSUME NEW r \in Request, NEW o, TakesSlot(r, o), NEW p, NEW k
  PROVE  /\ KindHolders(p, k)' = KindHolders(p, k) /\ PoolHolders(p)' = PoolHolders(p)
         /\ r \notin SlotHolders(p)
         /\ SlotHolders(p)' = IF p = o THEN SlotHolders(p) \cup {r} ELSE SlotHolders(p)
<1>1. \A q \in Request : q # r => pc'[q] = pc[q] /\ held'[q] = held[q]
  BY DEF TakesSlot, OthersAlike, Alike
<1>2. pc[r] \notin Holds /\ pc'[r] = "slot" /\ held'[r] = o
  BY DEF TakesSlot
<1> QED
  BY <1>1, <1>2 DEF Holds, PoolHolders, SlotHolders, KindHolders, KindOf

LEMMA SlotHoldersReturn ==
  ASSUME NEW r \in Request, ReturnsSlot(r), NEW p, NEW k
  PROVE  /\ KindHolders(p, k)' = KindHolders(p, k) /\ PoolHolders(p)' = PoolHolders(p)
         /\ r \in SlotHolders(p) <=> p = held[r]
         /\ SlotHolders(p)' = SlotHolders(p) \ {r}
<1>1. \A q \in Request : q # r => pc'[q] = pc[q] /\ held'[q] = held[q]
  BY DEF ReturnsSlot, OthersAlike, Alike
<1>2. pc[r] = "slot" /\ pc'[r] \notin Holds
  BY DEF ReturnsSlot
<1> QED
  BY <1>1, <1>2 DEF Holds, PoolHolders, SlotHolders, KindHolders, KindOf

LEMMA CountersStep ==
  ASSUME PoolParameters, TypeInv, CountersExact, HoldStep
  PROVE  CountersExact'
<1> DEFINE Exact == /\ \A o \in Object, k \in Kind : inflight[o][k] = Cardinality(KindHolders(o, k))
                    /\ \A o \in Object : slots[o] = Cardinality(SlotHolders(o))
<1>1. (CountersExact <=> Exact) /\ (CountersExact' <=> Exact')
  BY DEF CountersExact, KindHolders, KindOf
<1>2. /\ inflight \in [Object -> [Kind -> Nat]] /\ slots \in [Object -> Nat]
      /\ \A o \in Object, k \in Kind : inflight[o][k] = Cardinality(KindHolders(o, k))
      /\ \A o \in Object : slots[o] = Cardinality(SlotHolders(o))
  BY <1>1 DEF TypeInv, PoolTyped
<1> SUFFICES Exact'
  BY <1>1
<1> HIDE DEF Exact
<1>3. SUFFICES ASSUME NEW p \in Object, NEW k \in Kind
               PROVE  /\ inflight'[p][k] = Cardinality(KindHolders(p, k)')
                      /\ slots'[p] = Cardinality(SlotHolders(p)')
  <2>1. Kind # {}
    BY DEF Kind
  <2> QED
    BY <2>1 DEF Exact
<1>4. CASE Neutral
  BY <1>2, <1>4, HoldersNeutral DEF Neutral
<1>5. ASSUME NEW r \in Request, NEW o \in Object, TakesLease(r, o)
      PROVE  /\ inflight'[p][k] = Cardinality(KindHolders(p, k)')
             /\ slots'[p] = Cardinality(SlotHolders(p)')
  <2>1. /\ KindOf(r) \in Kind
        /\ inflight' = [inflight EXCEPT ![o][KindOf(r)] = @ + 1] /\ slots' = slots
    BY <1>5, KindType DEF TakesLease
  <2>2. inflight'[p][k] = IF p = o /\ k = KindOf(r) THEN inflight[p][k] + 1 ELSE inflight[p][k]
    BY <1>2, <2>1
  <2>3. /\ r \notin KindHolders(p, k) /\ SlotHolders(p)' = SlotHolders(p)
        /\ KindHolders(p, k)' = IF p = o /\ k = KindOf(r) THEN KindHolders(p, k) \cup {r}
                                                          ELSE KindHolders(p, k)
    BY <1>5, HoldersTake DEF KindHolders
  <2>4. Cardinality(KindHolders(p, k) \cup {r}) = Cardinality(KindHolders(p, k)) + 1
    BY <2>3, HoldersTyped, CountJoin
  <2> QED
    BY <1>2, <2>1, <2>2, <2>3, <2>4
<1>6. ASSUME NEW r \in Request, ReturnsLease(r)
      PROVE  /\ inflight'[p][k] = Cardinality(KindHolders(p, k)')
             /\ slots'[p] = Cardinality(SlotHolders(p)')
  <2>1. /\ KindOf(r) \in Kind /\ held[r] \in Object
        /\ inflight' = [inflight EXCEPT ![held[r]][KindOf(r)] = @ - 1] /\ slots' = slots
    BY <1>6, KindType DEF ReturnsLease, TypeInv, LoopTyped, Holds
  <2>2. inflight'[p][k] = IF p = held[r] /\ k = KindOf(r) THEN inflight[p][k] - 1 ELSE inflight[p][k]
    BY <1>2, <2>1
  <2>3. /\ SlotHolders(p)' = SlotHolders(p) /\ KindHolders(p, k)' = KindHolders(p, k) \ {r}
        /\ r \in PoolHolders(p) <=> p = held[r]
    BY <1>6, HoldersReturn
  <2>4. r \in KindHolders(p, k) <=> (p = held[r] /\ k = KindOf(r))
    BY <2>3 DEF KindHolders
  <2>5. Cardinality(KindHolders(p, k) \ {r}) =
          IF p = held[r] /\ k = KindOf(r) THEN Cardinality(KindHolders(p, k)) - 1
                                          ELSE Cardinality(KindHolders(p, k))
    BY <2>4, HoldersTyped, CountLeave
  <2> QED
    BY <1>2, <2>1, <2>2, <2>3, <2>5
<1>7. ASSUME NEW r \in Request, NEW o \in Object, TakesSlot(r, o)
      PROVE  /\ inflight'[p][k] = Cardinality(KindHolders(p, k)')
             /\ slots'[p] = Cardinality(SlotHolders(p)')
  <2>1. slots' = [slots EXCEPT ![o] = @ + 1] /\ inflight' = inflight
    BY <1>7 DEF TakesSlot
  <2>2. /\ KindHolders(p, k)' = KindHolders(p, k) /\ r \notin SlotHolders(p)
        /\ SlotHolders(p)' = IF p = o THEN SlotHolders(p) \cup {r} ELSE SlotHolders(p)
    BY <1>7, SlotHoldersTake
  <2>3. Cardinality(SlotHolders(p) \cup {r}) = Cardinality(SlotHolders(p)) + 1
    BY <2>2, HoldersTyped, CountJoin
  <2> QED
    BY <1>2, <2>1, <2>2, <2>3
<1>8. ASSUME NEW r \in Request, ReturnsSlot(r)
      PROVE  /\ inflight'[p][k] = Cardinality(KindHolders(p, k)')
             /\ slots'[p] = Cardinality(SlotHolders(p)')
  <2>1. held[r] \in Object /\ slots' = [slots EXCEPT ![held[r]] = @ - 1] /\ inflight' = inflight
    BY <1>8 DEF ReturnsSlot, TypeInv, LoopTyped, Holds
  <2>2. /\ KindHolders(p, k)' = KindHolders(p, k)
        /\ r \in SlotHolders(p) <=> p = held[r]
        /\ SlotHolders(p)' = SlotHolders(p) \ {r}
    BY <1>8, SlotHoldersReturn
  <2>3. Cardinality(SlotHolders(p) \ {r}) =
          IF p = held[r] THEN Cardinality(SlotHolders(p)) - 1 ELSE Cardinality(SlotHolders(p))
    BY <2>2, HoldersTyped, CountLeave
  <2> QED
    BY <1>2, <2>1, <2>2, <2>3
<1> QED
  BY <1>4, <1>5, <1>6, <1>7, <1>8 DEF HoldStep

LEMMA InitExact ==
  ASSUME PoolParameters
  PROVE  Init => TypeInv /\ CountersExact
<1> SUFFICES ASSUME Init PROVE TypeInv /\ CountersExact
  OBVIOUS
<1>1. PoolTyped
  <2>1. gen \in [Account -> 1 .. MaxGen]
    BY DEF PoolParameters, Init
  <2>2. /\ inflight \in [Object -> [Kind -> Nat]] /\ slots \in [Object -> Nat]
        /\ picks \in [Account -> Nat]
    BY DEF Init
  <2>3. /\ catalog \in [Account -> BOOLEAN] /\ resting \in [Account -> BOOLEAN]
        /\ status \in [Account -> {"ready", "paused", "cooling", "off"}]
        /\ setting \in [track : Limits, catalog : Limits, rest : Rests]
    BY DEF Init
  <2> QED
    BY <2>1, <2>2, <2>3 DEF PoolTyped
<1>2. LoopTyped
  <2>1. rules \in [Request -> [limit : Limits \cup {0}, rest : BOOLEAN]]
    BY DEF Init
  <2>2. first \in [Request -> Int]
    BY DEF Init
  <2>3. pc \in [Request -> PcVals] /\ \A r \in Request : pc[r] \notin Holds
    BY DEF Init, PcVals, Holds
  <2>4. /\ held \in [Request -> Object \cup {None}] /\ failed \in [Request -> SUBSET Account]
        /\ maxTry \in [Request -> Nat] /\ hits \in [Request -> Nat]
        /\ limited \in [Request -> BOOLEAN] /\ second \in [Request -> BOOLEAN]
    BY DEF Init
  <2> QED
    BY <2>1, <2>2, <2>3, <2>4 DEF LoopTyped
<1>7. WaitTyped
  BY DEF Init, WaitTyped
<1>3. \A r \in Request : pc[r] = "start"
  BY DEF Init
<1>4. \A o \in Object, k \in Kind : {r \in PoolHolders(o) : KindOf(r) = k} = {}
  BY <1>3 DEF PoolHolders
<1>5. \A o \in Object : SlotHolders(o) = {}
  BY <1>3 DEF SlotHolders
<1>6. (\A o \in Object, k \in Kind : inflight[o][k] = 0) /\ \A o \in Object : slots[o] = 0
  BY DEF Init
<1> QED
  BY <1>1, <1>2, <1>4, <1>5, <1>6, <1>7, FS_EmptySet DEF TypeInv, CountersExact

\* Every in-flight counter is exactly the number of requests that hold a lease of its kind,
\* or a slot, on its object, through failovers, edits, role changes and disconnects: no
\* counter is left behind by a lease and none goes below zero.
THEOREM CountersAreExact ==
  ASSUME PoolParameters
  PROVE  Spec => [](TypeOK /\ CountersExact)
<1>1. Init => TypeInv /\ CountersExact
  BY InitExact
<1>2. TypeInv /\ CountersExact /\ [Next]_vars => (TypeInv /\ CountersExact)'
  BY TypeStep, StepMoves, CountersStep
<1>3. TypeInv /\ CountersExact => TypeOK /\ CountersExact
  BY TypeInvImplies
<1> QED
  BY <1>1, <1>2, <1>3, PTL DEF Spec

----------------------------------------------------------------------------
(* The limits *)

LEMMA PoolInflightExact ==
  ASSUME PoolParameters, TypeInv, CountersExact, NEW o \in Object
  PROVE  PoolInflight(o) = Cardinality(PoolHolders(o))
<1> DEFINE P == KindHolders(o, "Playback")
           M == KindHolders(o, "Metadata")
<1>1. P \cap M = {} /\ P \cup M = PoolHolders(o)
  BY DEF KindHolders, KindOf
<1>2. Cardinality(P) + Cardinality(M) = Cardinality(PoolHolders(o))
  <2>1. Cardinality(P \cup M) = Cardinality(P) + Cardinality(M) - Cardinality(P \cap M)
    BY HoldersTyped, CountType, FS_Union
  <2>2. Cardinality(P) \in Nat /\ Cardinality(M) \in Nat
    BY HoldersTyped, CountType
  <2>3. Cardinality(P \cap M) = 0
    BY <1>1, FS_EmptySet
  <2>4. Cardinality(P \cup M) = Cardinality(PoolHolders(o))
    BY <1>1
  <2> QED
    BY <2>1, <2>2, <2>3, <2>4
<1>3. inflight[o]["Playback"] = Cardinality(P) /\ inflight[o]["Metadata"] = Cardinality(M)
  BY DEF CountersExact, Kind, KindHolders
<1> QED
  BY <1>2, <1>3 DEF PoolInflight

\* The holders whose limit is at most n.
Within(H, n) == {r \in H : rules[r].limit # 0 /\ rules[r].limit <= n}

\* However the limits of the holders differ, at most n of them have a limit of at most n.
Bounded(H) == \A n \in Nat : Cardinality(Within(H, n)) <= n

LimitsKept == \A o \in Object : Bounded(PoolHolders(o)) /\ Bounded(SlotHolders(o))

LEMMA LimitType ==
  ASSUME PoolParameters
  PROVE  TypeInv => \A r \in Request : rules[r].limit \in Nat
<1>1. ASSUME TypeInv, NEW r \in Request PROVE rules[r].limit \in Limits \cup {0}
  <2>1. rules[r] \in [limit : Limits \cup {0}, rest : BOOLEAN]
    BY <1>1 DEF TypeInv, LoopTyped
  <2> QED
    BY <2>1
<1>2. Limits \cup {0} \subseteq Nat
  BY DEF PoolParameters
<1> QED
  BY <1>1, <1>2

\* A request is admitted below its own limit.
LEMMA BoundedJoin ==
  ASSUME PoolParameters, TypeInv, NEW H \in SUBSET Request, Bounded(H),
         NEW r \in Request, r \notin H,
         rules[r].limit = 0 \/ Cardinality(H) < rules[r].limit
  PROVE  Bounded(H \cup {r})
<1>1. SUFFICES ASSUME NEW n \in Nat PROVE Cardinality(Within(H \cup {r}, n)) <= n
  BY DEF Bounded
<1>2. Cardinality(Within(H, n)) <= n
  BY DEF Bounded
<1>3. CASE rules[r].limit = 0 \/ n < rules[r].limit
  <2>1. Within(H \cup {r}, n) = Within(H, n)
    BY <1>3, LimitType DEF Within
  <2> QED
    BY <1>2, <2>1
<1>4. CASE rules[r].limit # 0 /\ rules[r].limit <= n
  <2>1. Within(H \cup {r}, n) \in SUBSET (H \cup {r}) /\ H \cup {r} \in SUBSET Request
    BY DEF Within
  <2>2. Cardinality(Within(H \cup {r}, n)) <= Cardinality(H \cup {r})
    BY <2>1, CountSubset
  <2>3. Cardinality(H \cup {r}) = Cardinality(H) + 1
    BY CountJoin
  <2>4. /\ Cardinality(H) \in Nat /\ Cardinality(H \cup {r}) \in Nat
        /\ Cardinality(Within(H \cup {r}, n)) \in Nat
    BY <2>1, CountType
  <2> QED
    BY <1>4, <2>2, <2>3, <2>4, LimitType
<1> QED
  BY <1>3, <1>4, LimitType

LEMMA BoundedLeave ==
  ASSUME PoolParameters, NEW H \in SUBSET Request, Bounded(H), NEW r
  PROVE  Bounded(H \ {r})
<1>1. SUFFICES ASSUME NEW n \in Nat PROVE Cardinality(Within(H \ {r}, n)) <= n
  BY DEF Bounded
<1>2. Within(H \ {r}, n) \in SUBSET Within(H, n) /\ Within(H, n) \in SUBSET Request
  BY DEF Within
<1>3. Within(H \ {r}, n) \in SUBSET Request
  BY <1>2
<1>4. /\ Cardinality(Within(H \ {r}, n)) <= Cardinality(Within(H, n))
      /\ Cardinality(Within(H \ {r}, n)) \in Nat /\ Cardinality(Within(H, n)) \in Nat
  BY <1>2, <1>3, CountSubset, CountType
<1> QED
  BY <1>4 DEF Bounded

\* The rules of the holders are those they were admitted under.
LEMMA BoundedSame ==
  ASSUME NEW H, Bounded(H), \A r \in H : rules'[r] = rules[r], NEW G, G = H
  PROVE  \A n \in Nat : Cardinality({r \in G : rules'[r].limit # 0 /\ rules'[r].limit <= n}) <= n
<1>1. SUFFICES ASSUME NEW n \in Nat
               PROVE  Cardinality({r \in G : rules'[r].limit # 0 /\ rules'[r].limit <= n}) <= n
  OBVIOUS
<1>2. {r \in G : rules'[r].limit # 0 /\ rules'[r].limit <= n} = Within(H, n)
  BY DEF Within
<1> QED
  BY <1>2 DEF Bounded

LEMMA LimitsStep ==
  ASSUME PoolParameters, TypeInv, CountersExact, LimitsKept, HoldStep
  PROVE  LimitsKept'
<1>1. SUFFICES ASSUME NEW o \in Object,
                      NEW H \in {PoolHolders(o), SlotHolders(o)},
                      NEW G, \/ H = PoolHolders(o) /\ G = PoolHolders(o)'
                             \/ H = SlotHolders(o) /\ G = SlotHolders(o)'
               PROVE  \A n \in Nat :
                        Cardinality({r \in G : rules'[r].limit # 0 /\ rules'[r].limit <= n}) <= n
  BY DEF LimitsKept, Bounded, Within
<1>2. H \in SUBSET Request /\ Bounded(H) /\ \A q \in H : pc[q] \in Holds
  BY HoldersTyped DEF LimitsKept, PoolHolders, SlotHolders, Holds
<1>3. CASE Neutral
  <2>1. G = H /\ \A q \in H : rules'[q] = rules[q]
    BY <1>1, <1>2, <1>3, HoldersNeutral DEF Neutral, Alike
  <2> QED
    BY <1>2, <2>1, BoundedSame
<1>4. ASSUME NEW r \in Request, ReturnsLease(r) \/ ReturnsSlot(r)
      PROVE  \A n \in Nat :
               Cardinality({q \in G : rules'[q].limit # 0 /\ rules'[q].limit <= n}) <= n
  <2>1. G = H \/ G = H \ {r}
    BY <1>1, <1>4, HoldersReturn, SlotHoldersReturn
  <2>2. pc'[r] \notin Holds /\ \A q \in G : pc'[q] \in Holds
    <3>1. (\A q \in PoolHolders(o)' : pc'[q] \in Holds) /\ \A q \in SlotHolders(o)' : pc'[q] \in Holds
      BY DEF PoolHolders, SlotHolders, Holds
    <3> QED
      BY <1>1, <1>4, <3>1 DEF ReturnsLease, ReturnsSlot
  <2>3. \A q \in G : rules'[q] = rules[q]
    BY <1>2, <1>4, <2>1, <2>2 DEF ReturnsLease, ReturnsSlot, OthersAlike, Alike
  <2>4. Bounded(G)
    BY <1>2, <2>1, BoundedLeave
  <2> QED
    BY <2>3, <2>4, BoundedSame
<1>5. ASSUME NEW r \in Request, NEW p \in Object, TakesLease(r, p) \/ TakesSlot(r, p)
      PROVE  \A n \in Nat :
               Cardinality({q \in G : rules'[q].limit # 0 /\ rules'[q].limit <= n}) <= n
  <2>1. rules' = rules
    BY <1>5 DEF TakesLease, TakesSlot
  <2>2. G = H \/ /\ G = H \cup {r} /\ r \notin H
                 /\ rules[r].limit = 0 \/ Cardinality(H) < rules[r].limit
    <3>1. CASE TakesLease(r, p) /\ H = PoolHolders(o) /\ G = PoolHolders(o)'
      <4>1. r \notin H /\ G = IF o = p THEN H \cup {r} ELSE H
        BY <3>1, HoldersTake
      <4>2. rules[r].limit = 0 \/ PoolInflight(p) < rules[r].limit
        BY <3>1 DEF TakesLease
      <4> QED
        BY <3>1, <4>1, <4>2, PoolInflightExact
    <3>2. CASE TakesLease(r, p) /\ H = SlotHolders(o) /\ G = SlotHolders(o)'
      BY <3>2, HoldersTake
    <3>3. CASE TakesSlot(r, p) /\ H = PoolHolders(o) /\ G = PoolHolders(o)'
      BY <3>3, SlotHoldersTake
    <3>4. CASE TakesSlot(r, p) /\ H = SlotHolders(o) /\ G = SlotHolders(o)'
      <4>1. r \notin H /\ G = IF o = p THEN H \cup {r} ELSE H
        BY <3>4, SlotHoldersTake
      <4>2. rules[r].limit = 0 \/ slots[p] < rules[r].limit
        BY <3>4 DEF TakesSlot
      <4> QED
        BY <3>4, <4>1, <4>2 DEF CountersExact
    <3> QED
      BY <1>1, <1>5, <3>1, <3>2, <3>3, <3>4
  <2>3. Bounded(G)
    BY <1>2, <2>2, BoundedJoin
  <2> QED
    BY <2>1, <2>3, BoundedSame
<1> QED
  BY <1>3, <1>4, <1>5 DEF HoldStep

LEMMA BoundedImplies ==
  ASSUME PoolParameters, TypeInv, NEW H \in SUBSET Request, Bounded(H), H # {}
  PROVE  \E r \in H : rules[r].limit = 0 \/ Cardinality(H) <= rules[r].limit
<1>1. SUFFICES ASSUME \A r \in H : rules[r].limit # 0 /\ rules[r].limit < Cardinality(H)
               PROVE  FALSE
  BY LimitType, CountType
<1>2. Cardinality(H) \in Nat /\ Cardinality(H) # 0
  BY CountType, FS_EmptySet
<1> DEFINE n == Cardinality(H) - 1
<1>3. n \in Nat /\ ~(Cardinality(H) <= n)
  BY <1>2
<1>4. Within(H, n) = H
  BY <1>1, <1>2, LimitType DEF Within
<1> HIDE DEF n
<1> QED
  BY <1>3, <1>4 DEF Bounded

PoolInv == TypeInv /\ CountersExact /\ LimitsKept

LEMMA InitPool ==
  ASSUME PoolParameters
  PROVE  Init => PoolInv
<1> SUFFICES ASSUME Init PROVE PoolInv
  OBVIOUS
<1>1. TypeInv /\ CountersExact
  BY InitExact
<1>2. \A o \in Object, n \in Nat : Within(PoolHolders(o), n) = {} /\ Within(SlotHolders(o), n) = {}
  BY DEF Init, Within, PoolHolders, SlotHolders
<1>3. \A n \in Nat : Cardinality({}) <= n
  BY FS_EmptySet
<1>4. LimitsKept
  BY <1>2, <1>3 DEF LimitsKept, Bounded
<1> QED
  BY <1>1, <1>4 DEF PoolInv

LEMMA PoolStep ==
  ASSUME PoolParameters, PoolInv, [Next]_vars
  PROVE  PoolInv'
BY TypeStep, StepMoves, CountersStep, LimitsStep DEF PoolInv

\* The requests that use an object, of both kinds together, stay within the limit one of them
\* was admitted under, whatever limits the owner sets meanwhile: for every n, at most n of
\* them were admitted under a limit of n or less.
THEOREM LimitsHold ==
  ASSUME PoolParameters
  PROVE  Spec => []LimitRespected
<1>1. Init => PoolInv
  BY InitPool
<1>2. PoolInv /\ [Next]_vars => PoolInv'
  BY PoolStep
<1>3. PoolInv => LimitRespected
  BY BoundedImplies, HoldersTyped DEF PoolInv, LimitsKept, LimitRespected
<1> QED
  BY <1>1, <1>2, <1>3, PTL DEF Spec

----------------------------------------------------------------------------
(* A request that found every account at its limit *)

Waiting == {"checked", "asleep"}

\* From the selection pass on, until the request registers again.
NoMissed ==
  \A r \in Request : pc[r] \in Waiting /\ ~notified[r] =>
    \A o \in full[r] : PoolInflight(o) >= rules[r].limit

\* A request that waits unnotified after a step has just found the counters at its limit,
\* or waited before, and no counter has gone down.
WaitStep ==
  \A q \in Request : pc'[q] \in Waiting /\ ~notified'[q] =>
    \/ /\ UNCHANGED <<inflight, rules>>
       /\ \A o \in full'[q] : PoolInflight(o) >= rules[q].limit
    \/ /\ pc[q] \in Waiting /\ ~notified[q] /\ full'[q] = full[q] /\ rules'[q] = rules[q]
       /\ \A o \in Object : PoolInflight(o)' >= PoolInflight(o)

LEMMA InflightType == TypeInv => \A o \in Object : PoolInflight(o) \in Nat
BY DEF TypeInv, PoolTyped, PoolInflight, Kind

LEMMA WaitStays ==
  ASSUME TypeInv, UNCHANGED inflight,
         \A q \in Request : pc'[q] \in Waiting /\ ~notified'[q] =>
           pc[q] \in Waiting /\ ~notified[q] /\ full'[q] = full[q] /\ rules'[q] = rules[q]
  PROVE  WaitStep
<1>1. \A o \in Object : PoolInflight(o)' = PoolInflight(o) /\ PoolInflight(o) \in Nat
  BY InflightType DEF PoolInflight
<1> QED
  BY <1>1 DEF WaitStep

LEMMA WaitMoves ==
  ASSUME TypeInv, CountersExact, [Next]_vars
  PROVE  WaitStep
<1> USE DEF pool, waiting
<1>1. ASSUME NEW r \in Request, UNCHANGED inflight, pc'[r] \notin Waiting,
             \A q \in Request \ {r} :
               pc'[q] = pc[q] /\ rules'[q] = rules[q] /\ full'[q] = full[q] /\ notified'[q] = notified[q]
      PROVE  WaitStep
  BY <1>1, WaitStays
<1>2. ASSUME NEW r \in Request, RequestStep(r) PROVE WaitStep
  <2>1. CASE TrackStarts(r)
    BY <1>1, <2>1, BeginMoves DEF TrackStarts, EnterPool, Waiting
  <2>2. CASE MetaStarts(r)
    <3>1. /\ rules' = [rules EXCEPT ![r].limit = setting.catalog]
          /\ UNCHANGED <<inflight, notified, full>>
          /\ \E v \in {"done", "claim"} : pc' = [pc EXCEPT ![r] = v]
      BY <2>2 DEF MetaStarts
    <3>2. pc'[r] \notin Waiting /\ \A q \in Request \ {r} : pc'[q] = pc[q] /\ rules'[q] = rules[q]
      BY <3>1 DEF TypeInv, LoopTyped, Waiting
    <3> QED
      BY <1>1, <3>1, <3>2
  <2>3. CASE Register(r) \/ TimerFires(r)
    <3>1. /\ pc' = [pc EXCEPT ![r] = "registered"] /\ notified' = [notified EXCEPT ![r] = FALSE]
          /\ full' = [full EXCEPT ![r] = {}] /\ UNCHANGED <<inflight, rules>>
      BY <2>3 DEF Register, TimerFires
    <3>2. /\ pc'[r] \notin Waiting
          /\ \A q \in Request \ {r} :
               pc'[q] = pc[q] /\ full'[q] = full[q] /\ notified'[q] = notified[q]
      BY <3>1 DEF TypeInv, LoopTyped, WaitTyped, Waiting
    <3> QED
      BY <1>1, <3>1, <3>2
  <2>4. CASE Sleep(r)
    <3>1. /\ pc[r] = "checked" /\ UNCHANGED <<inflight, rules, notified, full>>
          /\ \E v \in {"failed", "asleep"} : pc' = [pc EXCEPT ![r] = v]
      BY <2>4 DEF Sleep
    <3>2. \A q \in Request : pc'[q] \in Waiting => pc[q] \in Waiting
      BY <3>1 DEF TypeInv, LoopTyped, Waiting
    <3> QED
      BY <3>1, <3>2, WaitStays
  <2>5. CASE TryLease(r)
    <3>1. UNCHANGED <<rules, notified>> /\ pc[r] = "registered"
      BY <2>5 DEF TryLease
    <3>2. ASSUME NEW a \in Eligible(r),
                 inflight' = [inflight EXCEPT ![Current(a)][KindOf(r)] = @ + 1],
                 pc' = [pc EXCEPT ![r] = "leased"], UNCHANGED full
          PROVE  WaitStep
      <4>1. Current(a) \in Object /\ KindOf(r) \in Kind
        BY CurrentType, KindType DEF Eligible, Usable
      <4>2. \A o \in Object, k \in Kind : inflight'[o][k] >= inflight[o][k] /\ inflight'[o][k] \in Nat
        BY <3>2, <4>1 DEF TypeInv, PoolTyped
      <4>3. \A o \in Object : PoolInflight(o)' >= PoolInflight(o)
        BY <4>2 DEF PoolInflight, Kind, TypeInv, PoolTyped
      <4>4. \A q \in Request : pc'[q] \in Waiting => pc'[q] = pc[q]
        BY <3>2 DEF Waiting, TypeInv, LoopTyped
      <4> QED
        BY <3>1, <3>2, <4>3, <4>4 DEF WaitStep
    <3>3. CASE pc' = [pc EXCEPT ![r] = "failed"] /\ UNCHANGED <<inflight, full>>
      <4>1. pc'[r] \notin Waiting /\ \A q \in Request \ {r} : pc'[q] = pc[q]
        BY <3>3 DEF TypeInv, LoopTyped, Waiting
      <4> QED
        BY <1>1, <3>1, <3>3, <4>1
    <3>4. CASE /\ pc' = [pc EXCEPT ![r] = "checked"] /\ UNCHANGED inflight
               /\ full' = [full EXCEPT ![r] =
                    {o \in {Current(a) : a \in Usable(r)} :
                       rules[r].limit > 0 /\ PoolInflight(o) >= rules[r].limit}]
      <4>1. \A o \in full'[r] : PoolInflight(o) >= rules[r].limit
        BY <3>4 DEF TypeInv, WaitTyped
      <4>2. \A q \in Request : q # r => pc'[q] = pc[q] /\ full'[q] = full[q]
        BY <3>4 DEF TypeInv, WaitTyped, LoopTyped
      <4>3. \A o \in Object : PoolInflight(o)' >= PoolInflight(o)
        BY <3>4, InflightType DEF PoolInflight
      <4> QED
        BY <3>1, <3>4, <4>1, <4>2, <4>3 DEF WaitStep
    <3> QED
      BY <2>5, <3>2, <3>3, <3>4 DEF TryLease
  <2>6. CASE LeaseEnds(r) \/ LeaseFails(r) \/ LeaseRateLimited(r)
    <3>1. /\ DropLease(r)
          /\ Begin(r) \/ \E v \in {"done", "failed"} : pc' = [pc EXCEPT ![r] = v]
      BY <2>6 DEF LeaseEnds, LeaseFails, LeaseRateLimited
    <3>2. pc'[r] \notin Waiting /\ \A q \in Request \ {r} : pc'[q] = pc[q]
      BY <3>1, BeginMoves DEF TypeInv, LoopTyped, Waiting
    <3>3. \A q \in Request : pc[q] \in Waiting => notified'[q]
      BY <3>1 DEF DropLease, Notify, Waiting
    <3> QED
      BY <3>2, <3>3 DEF WaitStep
  <2>7. CASE ClaimSlot(r)
    <3>1. /\ UNCHANGED <<inflight, notified, full>>
          /\ \/ UNCHANGED rules /\ \E v \in {"slot", "failed"} : pc' = [pc EXCEPT ![r] = v]
             \/ Begin(r)
      BY <2>7 DEF ClaimSlot, OverflowToPool, EnterPool
    <3>2. pc'[r] \notin Waiting /\ \A q \in Request \ {r} : pc'[q] = pc[q] /\ rules'[q] = rules[q]
      BY <3>1, BeginMoves DEF TypeInv, LoopTyped, Waiting
    <3> QED
      BY <1>1, <3>1, <3>2
  <2>8. CASE SlotEnds(r) \/ SlotRateLimited(r) \/ SlotFails(r)
    <3>1. /\ UNCHANGED <<inflight, notified, full>>
          /\ \/ UNCHANGED rules /\ \E v \in {"done", "failed", "claim"} : pc' = [pc EXCEPT ![r] = v]
             \/ Begin(r)
      BY <2>8 DEF SlotEnds, SlotRateLimited, SlotFails, EnterPool
    <3>2. pc'[r] \notin Waiting /\ \A q \in Request \ {r} : pc'[q] = pc[q] /\ rules'[q] = rules[q]
      BY <3>1, BeginMoves DEF TypeInv, LoopTyped, Waiting
    <3> QED
      BY <1>1, <3>1, <3>2
  <2> QED
    BY <1>2, <2>1, <2>2, <2>3, <2>4, <2>5, <2>6, <2>7, <2>8 DEF RequestStep
<1>3. CASE Surroundings
  <2>1. ASSUME NEW r \in Request, Disconnect(r) PROVE WaitStep
    <3>1. /\ pc' = [pc EXCEPT ![r] = "failed"] /\ UNCHANGED <<inflight, rules, notified, full>>
      BY <2>1 DEF Disconnect
    <3>2. pc'[r] \notin Waiting /\ \A q \in Request \ {r} : pc'[q] = pc[q]
      BY <3>1 DEF TypeInv, LoopTyped, Waiting
    <3> QED
      BY <1>1, <3>1, <3>2
  <2>2. CASE ~\E r \in Request : Disconnect(r)
    <3>1. UNCHANGED <<inflight, pc, rules, notified, full>>
      BY <1>3, <2>2
         DEF Surroundings, WaitOver, RestEnds, HourPasses, StatusChanges, SetAccountCatalog,
             UpdateAccount, AdoptRecord, ChangeSettings
    <3> QED
      BY <3>1, WaitStays
  <2> QED
    BY <2>1, <2>2
<1>4. CASE UNCHANGED vars
  BY <1>4, WaitStays DEF vars
<1> QED
  BY <1>2, <1>3, <1>4 DEF Next

LEMMA NoMissedStep ==
  ASSUME PoolParameters, TypeInv, TypeInv', NoMissed, WaitStep
  PROVE  NoMissed'
<1>1. SUFFICES ASSUME NEW q \in Request, pc'[q] \in Waiting, ~notified'[q], NEW o \in full'[q]
               PROVE  PoolInflight(o)' >= rules'[q].limit
  BY DEF NoMissed
<1>2. o \in Object /\ PoolInflight(o)' \in Nat /\ rules'[q].limit \in Nat
  <2>1. o \in Object
    BY DEF TypeInv, WaitTyped
  <2>2. PoolInflight(o)' \in Nat
    BY <2>1 DEF TypeInv, PoolTyped, PoolInflight, Kind
  <2>3. rules'[q] \in [limit : Limits \cup {0}, rest : BOOLEAN]
    BY DEF TypeInv, LoopTyped
  <2>4. Limits \cup {0} \subseteq Nat
    BY DEF PoolParameters
  <2> QED
    BY <2>1, <2>2, <2>3, <2>4
<1>3. CASE UNCHANGED <<inflight, rules>> /\ \A p \in full'[q] : PoolInflight(p) >= rules[q].limit
  BY <1>3 DEF PoolInflight
<1>4. CASE /\ pc[q] \in Waiting /\ ~notified[q] /\ full'[q] = full[q] /\ rules'[q] = rules[q]
           /\ \A p \in Object : PoolInflight(p)' >= PoolInflight(p)
  BY <1>2, <1>4, InflightType DEF NoMissed
<1> QED
  BY <1>1, <1>3, <1>4 DEF WaitStep

\* A request goes to sleep, and stays asleep, only while the accounts it found at their limit
\* are at it, or after a release has been announced to it: a lease returned between its
\* selection pass and its sleep is not missed.
THEOREM NoReleaseMissed ==
  ASSUME PoolParameters
  PROVE  Spec => []NoMissedRelease
<1>1. Init => TypeInv /\ CountersExact /\ NoMissed
  BY InitExact DEF Init, NoMissed, Waiting
<1>2. TypeInv /\ CountersExact /\ NoMissed /\ [Next]_vars
        => (TypeInv /\ CountersExact /\ NoMissed)'
  BY TypeStep, StepMoves, CountersStep, WaitMoves, NoMissedStep
<1>3. NoMissed => NoMissedRelease
  BY DEF NoMissed, NoMissedRelease, Waiting
<1> QED
  BY <1>1, <1>2, <1>3, PTL DEF Spec

----------------------------------------------------------------------------
(* Credentials used after the first 429 *)

InPool == Waits \cup {"leased"}

\* How many accounts a request has failed on, and how many of its credentials came after
\* its first 429, wherever it stands: a request that already met a 429 before the pool gets
\* one account; the others may fail on RATE_LIMIT_FALLBACKS accounts after the first 429's.
Spent(r) ==
  /\ pc[r] \in {"start", "claim"} =>
       after429[r] = 0 /\ failed[r] = {} /\ first[r] = -1 /\ ~second[r]
  /\ pc[r] = "start" => ~limited[r]
  /\ pc[r] = "slot" =>
       /\ failed[r] = {} /\ first[r] = -1 /\ second[r] = limited[r]
       /\ after429[r] = IF limited[r] THEN 1 ELSE 0
  /\ pc[r] \in InPool =>
       /\ Cardinality(failed[r]) < maxTry[r]
       /\ limited[r] => maxTry[r] = 1 /\ first[r] < 0
       /\ first[r] < 0 => after429[r] = IF limited[r] /\ pc[r] = "leased" THEN 1 ELSE 0
       /\ first[r] >= 0 =>
            /\ Cardinality(failed[r]) \in first[r] + 1 .. first[r] + Fallbacks
            /\ after429[r] = Cardinality(failed[r]) - first[r] - (IF pc[r] = "leased" THEN 0 ELSE 1)
  /\ pc[r] = "leased" => held[r][1] \notin failed[r]
  /\ pc[r] \in {"done", "failed"} => after429[r] <= Fallbacks

AllSpent == \A r \in Request : Spent(r)

\* A step of one request leaves the accounts of the others alone.
SameLoop(q) ==
  /\ pc'[q] = pc[q] /\ held'[q] = held[q] /\ failed'[q] = failed[q] /\ first'[q] = first[q]
  /\ maxTry'[q] = maxTry[q] /\ limited'[q] = limited[q] /\ second'[q] = second[q]
  /\ after429'[q] = after429[q]

LEMMA SpentSame ==
  ASSUME NEW q, Spent(q), SameLoop(q)
  PROVE  Spent(q)'
BY DEF Spent, SameLoop

LEMMA FailedCount ==
  ASSUME PoolParameters, TypeInv, NEW r \in Request
  PROVE  /\ failed[r] \in SUBSET Account /\ Cardinality(failed[r]) \in Nat
         /\ \A a : a \notin failed[r] => Cardinality(failed[r] \cup {a}) = Cardinality(failed[r]) + 1
<1>1. failed[r] \in SUBSET Account
  BY DEF TypeInv, LoopTyped
<1> QED
  BY <1>1, AccountsFinite, FS_AddElement

LEMMA SpentWithin ==
  ASSUME PoolParameters, Fallbacks >= 1, TypeInv, NEW r \in Request, Spent(r)
  PROVE  after429[r] <= Fallbacks
<1>0. Fallbacks \in Nat /\ Cardinality(failed[r]) \in Nat /\ first[r] \in Int /\ pc[r] \in PcVals
  BY FailedCount DEF PoolParameters, TypeInv, LoopTyped
<1>1. CASE pc[r] \in {"start", "claim", "slot", "done", "failed"}
  BY <1>0, <1>1 DEF Spent
<1>2. CASE pc[r] \in InPool
  BY <1>0, <1>2 DEF Spent
<1> QED
  BY <1>0, <1>1, <1>2 DEF PcVals, Waits, Holds, InPool

\* Entering the pool with no account failed yet.
LEMMA SpentEnter ==
  ASSUME PoolParameters, TypeInv, NEW r \in Request, NEW n \in {0, 1}, EnterPool(r, n),
         UNCHANGED <<failed, first, after429>>,
         failed[r] = {}, first[r] = -1, after429[r] = 0, limited'[r] => n = 1
  PROVE  Spent(r)'
<1>1. pc'[r] = "begin" /\ maxTry'[r] >= 1 /\ maxTry'[r] \in Nat
  BY EnterTyped, BeginMoves
<1>2. limited'[r] => maxTry'[r] = 1
  BY DEF EnterPool, TypeInv, LoopTyped
<1>3. Cardinality(failed'[r]) = 0
  BY FS_EmptySet
<1> QED
  BY <1>1, <1>2, <1>3 DEF Spent, InPool, Waits

LEMMA StepOthers ==
  ASSUME TypeInv, NEW r \in Request, RequestStep(r) \/ Disconnect(r), NEW q \in Request, q # r
  PROVE  SameLoop(q)
<1> USE DEF pool, loop, waiting, SameLoop, TypeInv, LoopTyped, WaitTyped
<1>1. CASE TrackStarts(r) \/ MetaStarts(r)
  BY <1>1 DEF TrackStarts, MetaStarts, EnterPool, Begin
<1>2. CASE Register(r) \/ TimerFires(r) \/ Sleep(r) \/ Disconnect(r)
  BY <1>2 DEF Register, TimerFires, Sleep, Disconnect
<1>3. CASE TryLease(r)
  BY <1>3 DEF TryLease
<1>4. CASE LeaseEnds(r)
  BY <1>4 DEF LeaseEnds, DropLease
<1>5. CASE LeaseFails(r)
  BY <1>5 DEF LeaseFails, DropLease, Begin
<1>6. CASE LeaseRateLimited(r)
  BY <1>6 DEF LeaseRateLimited, DropLease, Begin, Schedule
<1>7. CASE ClaimSlot(r)
  BY <1>7 DEF ClaimSlot, OverflowToPool, EnterPool, Begin
<1>8. CASE SlotEnds(r) \/ SlotRateLimited(r)
  BY <1>8 DEF SlotEnds, SlotRateLimited, DropSlot
<1>9. CASE SlotFails(r)
  BY <1>9 DEF SlotFails, DropSlot, EnterPool, Begin
<1> QED
  BY <1>1, <1>2, <1>3, <1>4, <1>5, <1>6, <1>7, <1>8, <1>9 DEF RequestStep

LEMMA LeaseFailsSpent ==
  ASSUME PoolParameters, Fallbacks >= 1, TypeInv, NEW r \in Request, Spent(r), pc[r] = "leased",
         failed' = [failed EXCEPT ![r] = @ \cup {held[r][1]}],
         UNCHANGED <<maxTry, limited, second, after429>>,
         \/ first'[r] = first[r]
         \/ first'[r] = IF first[r] < 0 THEN Cardinality(failed[r]) ELSE first[r],
         \/ pc'[r] = "failed"
         \/ pc'[r] = "begin" /\ ~Exhausted(r, Cardinality(failed'[r]), first'[r])
  PROVE  Spent(r)'
<1>0. /\ Fallbacks \in Nat /\ Cardinality(failed[r]) \in Nat /\ first[r] \in Int
      /\ maxTry[r] \in Nat /\ limited[r] \in BOOLEAN
      /\ first'[r] \in Int
  BY FailedCount DEF PoolParameters, TypeInv, LoopTyped
<1>1. Cardinality(failed'[r]) = Cardinality(failed[r]) + 1
  BY FailedCount DEF Spent, TypeInv, LoopTyped
<1>2. CASE pc'[r] = "failed"
  <2>1. after429[r] <= Fallbacks
    BY SpentWithin
  <2> QED
    BY <1>2, <2>1 DEF Spent, InPool, Waits
<1>3. CASE pc'[r] = "begin" /\ ~Exhausted(r, Cardinality(failed'[r]), first'[r])
  <2>1. /\ Cardinality(failed'[r]) < maxTry[r]
        /\ first'[r] >= 0 => Cardinality(failed'[r]) <= first'[r] + Fallbacks
    BY <1>0, <1>1, <1>3 DEF Exhausted
  <2>2. ~limited[r]
    BY <1>0, <1>1, <2>1 DEF Spent, InPool
  <2>3. CASE first'[r] < 0
    <3>1. first[r] < 0 /\ after429[r] = 0
      BY <1>0, <2>2, <2>3 DEF Spent, InPool
    <3> QED
      BY <1>0, <1>3, <2>1, <2>2, <2>3, <3>1 DEF Spent, InPool, Waits
  <2>4. CASE first'[r] >= 0
    <3>1. /\ Cardinality(failed'[r]) \in first'[r] + 1 .. first'[r] + Fallbacks
          /\ after429[r] = Cardinality(failed'[r]) - first'[r] - 1
      <4>1. CASE first[r] < 0
        <5>1. after429[r] = 0 /\ first'[r] = Cardinality(failed[r])
          BY <1>0, <2>2, <2>4, <4>1 DEF Spent, InPool
        <5> QED
          BY <1>0, <1>1, <2>1, <5>1
      <4>2. CASE first[r] >= 0
        <5>1. /\ first'[r] = first[r]
              /\ Cardinality(failed[r]) \in first[r] + 1 .. first[r] + Fallbacks
              /\ after429[r] = Cardinality(failed[r]) - first[r]
          BY <1>0, <4>2 DEF Spent, InPool
        <5> QED
          BY <1>0, <1>1, <2>1, <2>4, <5>1
      <4> QED
        BY <1>0, <4>1, <4>2
    <3> QED
      BY <1>0, <1>3, <2>1, <2>2, <2>4, <3>1 DEF Spent, InPool, Waits
  <2> QED
    BY <1>0, <2>3, <2>4
<1> QED
  BY <1>2, <1>3

LEMMA RequestSpent ==
  ASSUME PoolParameters, Fallbacks >= 1, TypeInv, CountersExact,
         NEW r \in Request, Spent(r), RequestStep(r)
  PROVE  Spent(r)'
<1> USE DEF pool, loop, waiting
<1>0. /\ Fallbacks \in Nat /\ Cardinality(failed[r]) \in Nat /\ first[r] \in Int
      /\ maxTry[r] \in Nat /\ after429[r] \in Nat
  BY FailedCount DEF PoolParameters, TypeInv, LoopTyped, WaitTyped
<1>00. after429[r] <= Fallbacks
  BY SpentWithin
<1>1. CASE TrackStarts(r)
  <2>1. /\ EnterPool(r, 0) /\ pc[r] = "start"
        /\ UNCHANGED <<failed, first, limited, after429>>
    BY <1>1 DEF TrackStarts
  <2>2. failed[r] = {} /\ first[r] = -1 /\ after429[r] = 0 /\ ~limited[r]
    BY <2>1 DEF Spent
  <2> QED
    BY <2>1, <2>2, SpentEnter
<1>2. CASE MetaStarts(r)
  <2>1. /\ pc[r] = "start" /\ UNCHANGED <<failed, first, second, after429>>
        /\ \E v \in {"done", "claim"} : pc' = [pc EXCEPT ![r] = v]
    BY <1>2 DEF MetaStarts
  <2>2. pc'[r] \in {"done", "claim"}
    BY <2>1 DEF TypeInv, LoopTyped
  <2> QED
    BY <1>00, <2>1, <2>2 DEF Spent, InPool, Waits
<1>3. CASE Register(r) \/ TimerFires(r) \/ Sleep(r)
  <2>1. /\ UNCHANGED <<failed, first, limited, second, maxTry, after429>>
        /\ pc[r] \in Waits /\ pc'[r] \in Waits \cup {"failed"}
    BY <1>3 DEF Register, TimerFires, Sleep, Waits, TypeInv, LoopTyped
  <2> QED
    BY <1>00, <2>1 DEF Spent, InPool, Waits
<1>4. CASE TryLease(r)
  <2>1. UNCHANGED <<failed, first, limited, second, maxTry>> /\ pc[r] = "registered"
    BY <1>4 DEF TryLease
  <2>2. ASSUME NEW a \in Eligible(r), held' = [held EXCEPT ![r] = Current(a)],
               pc' = [pc EXCEPT ![r] = "leased"],
               after429' = [after429 EXCEPT ![r] = IF first[r] >= 0 \/ limited[r] THEN @ + 1 ELSE @]
        PROVE  Spent(r)'
    <3>1. a \notin failed[r]
      BY DEF Eligible, Usable
    <3>2. held'[r][1] = a /\ pc'[r] = "leased"
      BY <2>2 DEF Current, TypeInv, LoopTyped
    <3>3. after429'[r] = IF first[r] >= 0 \/ limited[r] THEN after429[r] + 1 ELSE after429[r]
      BY <2>2 DEF TypeInv, WaitTyped
    <3>4. /\ Cardinality(failed[r]) < maxTry[r]
          /\ limited[r] => maxTry[r] = 1 /\ first[r] < 0
          /\ first[r] < 0 => after429[r] = 0
          /\ first[r] >= 0 => /\ Cardinality(failed[r]) \in first[r] + 1 .. first[r] + Fallbacks
                              /\ after429[r] = Cardinality(failed[r]) - first[r] - 1
      BY <2>1 DEF Spent, InPool, Waits
    <3>5. /\ first[r] < 0 => after429'[r] = IF limited[r] THEN 1 ELSE 0
          /\ first[r] >= 0 => after429'[r] = Cardinality(failed[r]) - first[r]
      BY <1>0, <3>3, <3>4
    <3> QED
      BY <1>0, <2>1, <3>1, <3>2, <3>4, <3>5 DEF Spent, InPool, Waits
  <2>3. CASE (\E v \in {"failed", "checked"} : pc' = [pc EXCEPT ![r] = v]) /\ UNCHANGED after429
    <3>1. pc'[r] \in {"failed", "checked"}
      BY <2>3 DEF TypeInv, LoopTyped
    <3> QED
      BY <1>00, <2>1, <2>3, <3>1 DEF Spent, InPool, Waits
  <2> QED
    BY <1>4, <2>2, <2>3 DEF TryLease
<1>5. CASE LeaseEnds(r)
  <2>1. UNCHANGED after429 /\ pc'[r] \in {"done", "failed"}
    BY <1>5 DEF LeaseEnds, TypeInv, LoopTyped
  <2> QED
    BY <1>00, <2>1 DEF Spent, InPool, Waits
<1>6. CASE LeaseFails(r)
  <2>1. /\ pc[r] = "leased" /\ failed' = [failed EXCEPT ![r] = @ \cup {held[r][1]}]
        /\ UNCHANGED <<maxTry, first, limited, second, after429>>
        /\ \/ pc' = [pc EXCEPT ![r] = "failed"]
           \/ Begin(r) /\ ~Exhausted(r, Cardinality(failed'[r]), first[r])
    BY <1>6 DEF LeaseFails
  <2>2. \/ pc'[r] = "failed"
        \/ pc'[r] = "begin" /\ ~Exhausted(r, Cardinality(failed'[r]), first'[r])
    BY <2>1, BeginMoves DEF TypeInv, LoopTyped
  <2> QED
    BY <2>1, <2>2, LeaseFailsSpent
<1>7. CASE LeaseRateLimited(r)
  <2>1. /\ pc[r] = "leased" /\ failed' = [failed EXCEPT ![r] = @ \cup {held[r][1]}]
        /\ UNCHANGED <<maxTry, limited, second, after429>> /\ Schedule(r)
        /\ \/ pc' = [pc EXCEPT ![r] = "failed"]
           \/ Begin(r) /\ ~Exhausted(r, Cardinality(failed'[r]), first'[r])
    BY <1>7 DEF LeaseRateLimited
  <2>2. \/ pc'[r] = "failed"
        \/ pc'[r] = "begin" /\ ~Exhausted(r, Cardinality(failed'[r]), first'[r])
    BY <2>1, BeginMoves DEF TypeInv, LoopTyped
  <2>3. first'[r] = IF first[r] < 0 THEN Cardinality(failed[r]) ELSE first[r]
    BY <2>1 DEF Schedule, TypeInv, LoopTyped
  <2> QED
    BY <2>1, <2>2, <2>3, LeaseFailsSpent
<1>8. CASE ClaimSlot(r)
  <2>1. /\ pc[r] = "claim" /\ UNCHANGED <<failed, first>>
        /\ failed[r] = {} /\ first[r] = -1 /\ after429[r] = 0 /\ ~second[r]
    BY <1>8 DEF ClaimSlot, Spent
  <2>2. CASE /\ pc' = [pc EXCEPT ![r] = "slot"] /\ second' = [second EXCEPT ![r] = limited[r]]
             /\ after429' = [after429 EXCEPT ![r] = IF limited[r] THEN @ + 1 ELSE @]
             /\ UNCHANGED limited
    <3>1. /\ pc'[r] = "slot" /\ second'[r] = limited[r]
          /\ after429'[r] = IF limited[r] THEN 1 ELSE 0
      BY <2>1, <2>2 DEF TypeInv, LoopTyped, WaitTyped
    <3> QED
      BY <2>1, <2>2, <3>1 DEF Spent, InPool, Waits
  <2>3. CASE OverflowToPool(r) /\ UNCHANGED <<second, after429>>
    <3> DEFINE paused == limited[r] \/ \E a \in Account : catalog[a] /\ status[a] = "paused"
    <3>1. limited' = [limited EXCEPT ![r] = paused]
      BY <2>3 DEF OverflowToPool
    <3>2. limited'[r] = paused
      BY <3>1 DEF TypeInv, LoopTyped
    <3>3. pc' = [pc EXCEPT ![r] = "failed"] \/ EnterPool(r, IF paused THEN 1 ELSE 0)
      BY <2>3 DEF OverflowToPool
    <3> HIDE DEF paused
    <3>4. CASE pc' = [pc EXCEPT ![r] = "failed"]
      <4>1. pc'[r] = "failed"
        BY <3>4 DEF TypeInv, LoopTyped
      <4> QED
        BY <1>00, <2>3, <4>1 DEF Spent, InPool, Waits
    <3>5. CASE EnterPool(r, IF paused THEN 1 ELSE 0)
      <4>1. CASE paused
        <5>1. EnterPool(r, 1)
          BY <3>5, <4>1
        <5> QED
          BY <2>1, <2>3, <5>1, SpentEnter
      <4>2. CASE ~paused
        <5>1. EnterPool(r, 0)
          BY <3>5, <4>2
        <5> QED
          BY <2>1, <2>3, <3>2, <4>2, <5>1, SpentEnter
      <4> QED
        BY <4>1, <4>2
    <3> QED
      BY <3>3, <3>4, <3>5
  <2> QED
    BY <1>8, <2>2, <2>3 DEF ClaimSlot
<1>9. CASE SlotEnds(r)
  <2>1. UNCHANGED after429 /\ pc'[r] \in {"done", "failed"}
    BY <1>9 DEF SlotEnds, TypeInv, LoopTyped
  <2> QED
    BY <1>00, <2>1 DEF Spent, InPool, Waits
<1>10. CASE SlotRateLimited(r)
  <2>1. /\ pc[r] = "slot" /\ UNCHANGED <<failed, first, second, after429>>
        /\ pc'[r] = IF second[r] THEN "failed" ELSE "claim"
    BY <1>10 DEF SlotRateLimited, TypeInv, LoopTyped
  <2>2. second[r] = limited[r] /\ failed[r] = {} /\ first[r] = -1
        /\ after429[r] = IF limited[r] THEN 1 ELSE 0
    BY <2>1 DEF Spent
  <2> QED
    BY <1>00, <2>1, <2>2 DEF Spent, InPool, Waits
<1>11. CASE SlotFails(r)
  <2> DEFINE paused == \E a \in Account : catalog[a] /\ status[a] = "paused"
  <2>1. /\ pc[r] = "slot" /\ UNCHANGED <<failed, first, second, after429>>
        /\ \/ pc' = [pc EXCEPT ![r] = "failed"]
           \/ /\ ~second[r] /\ limited' = [limited EXCEPT ![r] = paused]
              /\ EnterPool(r, IF paused THEN 1 ELSE 0)
    BY <1>11 DEF SlotFails
  <2>2. second[r] = limited[r] /\ failed[r] = {} /\ first[r] = -1
        /\ after429[r] = IF limited[r] THEN 1 ELSE 0
    BY <2>1 DEF Spent
  <2> HIDE DEF paused
  <2>3. CASE pc' = [pc EXCEPT ![r] = "failed"]
    <3>1. pc'[r] = "failed"
      BY <2>3 DEF TypeInv, LoopTyped
    <3> QED
      BY <1>00, <2>1, <3>1 DEF Spent, InPool, Waits
  <2>4. CASE /\ ~second[r] /\ limited' = [limited EXCEPT ![r] = paused]
             /\ EnterPool(r, IF paused THEN 1 ELSE 0)
    <3>1. after429[r] = 0 /\ limited'[r] = paused
      BY <2>2, <2>4 DEF TypeInv, LoopTyped
    <3>2. CASE paused
      <4>1. EnterPool(r, 1)
        BY <2>4, <3>2
      <4> QED
        BY <2>1, <2>2, <3>1, <4>1, SpentEnter
    <3>3. CASE ~paused
      <4>1. EnterPool(r, 0)
        BY <2>4, <3>3
      <4> QED
        BY <2>1, <2>2, <3>1, <3>3, <4>1, SpentEnter
    <3> QED
      BY <3>2, <3>3
  <2> QED
    BY <2>1, <2>3, <2>4
<1> QED
  BY <1>1, <1>2, <1>3, <1>4, <1>5, <1>6, <1>7, <1>8, <1>9, <1>10, <1>11 DEF RequestStep

LEMMA SpentStep ==
  ASSUME PoolParameters, Fallbacks >= 1, TypeInv, CountersExact, AllSpent, [Next]_vars
  PROVE  AllSpent'
<1>1. ASSUME NEW r \in Request, RequestStep(r) PROVE AllSpent'
  BY <1>1, RequestSpent, StepOthers, SpentSame DEF AllSpent
<1>2. ASSUME NEW r \in Request, Disconnect(r) PROVE AllSpent'
  <2>1. after429[r] <= Fallbacks /\ after429' = after429 /\ pc'[r] = "failed"
    BY <1>2, SpentWithin DEF AllSpent, Disconnect, TypeInv, LoopTyped
  <2>2. Spent(r)'
    BY <2>1 DEF Spent, InPool, Waits
  <2> QED
    BY <1>2, <2>2, StepOthers, SpentSame DEF AllSpent
<1>3. CASE Surroundings /\ ~\E r \in Request : Disconnect(r)
  <2>1. UNCHANGED <<pc, held, failed, first, maxTry, limited, second, after429>>
    BY <1>3 DEF Surroundings, WaitOver, RestEnds, HourPasses, StatusChanges, SetAccountCatalog,
                UpdateAccount, AdoptRecord, ChangeSettings, loop
  <2> QED
    BY <2>1, SpentSame DEF AllSpent, SameLoop
<1>4. CASE UNCHANGED vars
  BY <1>4, SpentSame DEF AllSpent, SameLoop, vars
<1> QED
  BY <1>1, <1>2, <1>3, <1>4 DEF Next

\* After its first 429 a request uses at most RATE_LIMIT_FALLBACKS more credentials, whatever
\* they answer, catalog slots and pool accounts together. The code's value is not 0, which
\* the one playback account of a request that met its 429 before the pool depends on.
THEOREM FallbacksHold ==
  ASSUME PoolParameters, Fallbacks >= 1
  PROVE  Spec => []FallbacksBounded
<1>1. Init => TypeInv /\ CountersExact /\ AllSpent
  BY InitExact DEF Init, AllSpent, Spent, InPool, Waits
<1>2. TypeInv /\ CountersExact /\ AllSpent /\ [Next]_vars
        => (TypeInv /\ CountersExact /\ AllSpent)'
  BY TypeStep, StepMoves, CountersStep, SpentStep
<1>3. TypeInv /\ AllSpent => FallbacksBounded
  BY SpentWithin DEF AllSpent, FallbacksBounded
<1> QED
  BY <1>1, <1>2, <1>3, PTL DEF Spec

=============================================================================
