---------------------------- MODULE ApiKeyQuota ----------------------------
(***************************************************************************)
(* The quota of one API key across a fleet (api_keys.rs): every instance   *)
(* counts in memory, writes the count to SQLite, adds each granted unit to *)
(* a Redis counter from a spawned task, and raises its count to the Redis  *)
(* total on the 60 s tick.  Requests pass the gate of enforce_api_key.     *)
(* The key's definition (quota, active) is FleetSync's; here the quota is  *)
(* fixed and an instance may switch the key off and on again.              *)
(***************************************************************************)
EXTENDS Naturals, FiniteSets, FiniteSetsExt

CONSTANTS Inst, Quota,
          MaxCalls,    \* metered requests in a behaviour
          MaxFlips,    \* changes of the active flag
          MaxCrashes,  \* restarts in a behaviour
          MaxLost      \* lost Redis commands in a behaviour

VARIABLES used,      \* [Inst -> Nat]: the count in memory
          row,       \* [Inst -> Nat]: the count in SQLite
          active,    \* [Inst -> BOOLEAN]
          writes,    \* [Inst -> SUBSET Nat]: counts on their way to SQLite
          incrs,     \* [Inst -> Nat]: spawned INCRBYs not yet executed
          counter,   \* the Redis counter
          sync,      \* [Inst -> Nat or NoSync]: total read, not yet applied
          calls, flips, crashes, lost,
          life,      \* history: units granted by this process of the instance
          granted    \* history: units granted in all

vars == <<used, row, active, writes, incrs, counter, sync,
          calls, flips, crashes, lost, life, granted>>

NoSync == 0     \* no total read (a total is at least 1)
\* The gate of enforce_api_key: a request without a usable key is refused, one with
\* the owner's key (or while no key is active) passes; neither changes state here.
Gate == calls < MaxCalls /\ calls' = calls + 1

---------------------------------------------------------------------------
Grant(n) == n <= Quota

\* check_and_consume: the count moves first; past the quota it stays moved.
CheckAndConsume(i) ==
  LET n == used[i] + 1
  IN  /\ active[i]
      /\ Gate
      /\ used' = [used EXCEPT ![i] = n]
      /\ IF Grant(n)
         THEN /\ writes' = [writes EXCEPT ![i] = @ \cup {n}]
              /\ incrs' = [incrs EXCEPT ![i] = @ + 1]
              /\ life' = [life EXCEPT ![i] = @ + 1]
              /\ granted' = granted + 1
         ELSE UNCHANGED <<writes, incrs, life, granted>>
      /\ UNCHANGED <<row, active, counter, sync, flips, crashes, lost>>

\* UPDATE api_keys SET used: concurrent requests write in any order.
WriteRow(i) ==
  /\ \E n \in writes[i] : /\ row' = [row EXCEPT ![i] = n]
                          /\ writes' = [writes EXCEPT ![i] = @ \ {n}]
  /\ UNCHANGED <<used, active, incrs, counter, sync, calls, flips, crashes, lost, life, granted>>

IncrBy(i) ==
  /\ incrs[i] > 0
  /\ incrs' = [incrs EXCEPT ![i] = @ - 1]
  /\ \/ counter' = counter + 1 /\ UNCHANGED lost
     \/ lost < MaxLost /\ lost' = lost + 1 /\ UNCHANGED counter
  /\ UNCHANGED <<used, row, active, writes, sync, calls, flips, crashes, life, granted>>

\* sync_usage_from_redis: MGET, and later the maximum of both counts.
SyncRead(i) ==
  /\ sync[i] = NoSync
  /\ counter > 0
  /\ sync' = [sync EXCEPT ![i] = counter]
  /\ UNCHANGED <<used, row, active, writes, incrs, counter, calls, flips, crashes, lost, life, granted>>

Raise_Store(local, total) == total
Raise_Never(local, total) == local
Raise(local, total) == IF total > local THEN total ELSE local

SyncApply(i) ==
  /\ sync[i] # NoSync
  /\ used' = [used EXCEPT ![i] = Raise(@, sync[i])]
  /\ sync' = [sync EXCEPT ![i] = NoSync]
  /\ UNCHANGED <<row, active, writes, incrs, counter, calls, flips, crashes, lost, life, granted>>

SetActive(i) ==
  /\ flips < MaxFlips
  /\ flips' = flips + 1
  /\ active' = [active EXCEPT ![i] = ~@]
  /\ UNCHANGED <<used, row, writes, incrs, counter, sync, calls, crashes, lost, life, granted>>

\* A restart loads the row; counts under way to SQLite and Redis are gone.
Crash(i) ==
  /\ crashes < MaxCrashes
  /\ crashes' = crashes + 1
  /\ used' = [used EXCEPT ![i] = row[i]]
  /\ writes' = [writes EXCEPT ![i] = {}]
  /\ incrs' = [incrs EXCEPT ![i] = 0]
  /\ lost' = lost + incrs[i]
  /\ sync' = [sync EXCEPT ![i] = NoSync]
  /\ life' = [life EXCEPT ![i] = 0]
  /\ UNCHANGED <<row, active, counter, calls, flips, granted>>

---------------------------------------------------------------------------
Init == /\ used = [i \in Inst |-> 0] /\ row = used
        /\ active = [i \in Inst |-> TRUE]
        /\ writes = [i \in Inst |-> {}]
        /\ incrs = [i \in Inst |-> 0]
        /\ counter = 0
        /\ sync = [i \in Inst |-> NoSync]
        /\ calls = 0
        /\ flips = 0 /\ crashes = 0 /\ lost = 0
        /\ life = used /\ granted = 0

Syncs(i) == SyncRead(i) \/ SyncApply(i)
Next == \E i \in Inst : \/ CheckAndConsume(i) \/ WriteRow(i)
                        \/ IncrBy(i) \/ Syncs(i) \/ SetActive(i) \/ Crash(i)

Spec == Init /\ [][Next]_vars
\* Spawned tasks run and the tick repeats; nothing is assumed of requests.
Fairness == \A i \in Inst : WF_vars(IncrBy(i)) /\ WF_vars(Syncs(i))
FairSpec == Spec /\ Fairness

---------------------------------------------------------------------------
TypeOK == /\ used \in [Inst -> Nat] /\ row \in [Inst -> Nat]
          /\ active \in [Inst -> BOOLEAN]
          /\ \A i \in Inst : writes[i] \subseteq Nat
          /\ incrs \in [Inst -> Nat] /\ counter \in Nat
          /\ sync \in [Inst -> Nat] /\ granted \in Nat
          /\ life \in [Inst -> Nat]

\* Every unit is counted once: what Redis has, what is on its way and what was
\* lost add up to what was granted.  Refused requests and reconciles add nothing.
UnitsCountedOnce ==
  counter + lost + MapThenSumSet(LAMBDA i : incrs[i], Inst) = granted

\* One process never grants more than the quota, whatever it learns from Redis.
ProcessBound == \A i \in Inst : life[i] <= Quota

\* Once the fleet has granted the quota and no unit was lost, every instance ends
\* up refusing: the totals reach it and its count never falls below them again.
Closed == granted >= Quota /\ lost = 0 => \A i \in Inst : used[i] >= Quota
QuotaCloses == <>[]Closed

=============================================================================
