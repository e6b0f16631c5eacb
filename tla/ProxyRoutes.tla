---------------------------- MODULE ProxyRoutes ----------------------------
(***************************************************************************)
(* The per-account egress of ProxyManager (proxy_manager.rs): every account*)
(* leaves through one proxy, kept in memory, in proxy_assignments and, by  *)
(* fingerprint, in Redis, where the instances of a fleet agree on it.      *)
(*                                                                         *)
(* switch_lock of an instance is held over a whole operation, Redis        *)
(* commands and probes included; job says what the holder has still to do. *)
(* Only the failure counts move without it.  Memory and the local row are  *)
(* written in one step; a Redis command is a step of its own, so that the  *)
(* operations of two instances interleave at every command.                *)
(***************************************************************************)
EXTENDS Naturals, FiniteSets

CONSTANTS Inst, Accounts, Proxies,
          Lists,       \* proxy lists the owner may configure (sets)
          FailLimit,   \* consecutive failures that drop a binding (3)
          MaxOps,      \* owner operations and restarts
          MaxFails,    \* failed round-trips reported
          MaxTurns     \* changes of a proxy's health

VARIABLES on, list,   \* [Inst -> ...]: the configuration
          bind,       \* [Inst -> [Accounts -> proxy or None]]
          verified,   \* [Inst -> [Accounts -> BOOLEAN]]
          failures,   \* [Inst -> [Accounts -> Nat]]
          avoided,    \* [Inst -> [Accounts -> proxy or None]]
          failed,     \* [Inst -> [Accounts -> BOOLEAN]]: last_failed within 30 s
          row,        \* [Inst -> [Accounts -> proxy or None]]: proxy_assignments
          shared,     \* [Accounts -> proxy or None]: Redis
          job,        \* [Inst -> [pc, acc, todo, fallback, got]]
          due,        \* [Inst -> SUBSET Accounts]: rotate_account called, lock not taken
          health,     \* [Inst -> [Proxies -> "ok", "blocked", "dead"]]
          ops, fails, turns

routeVars == <<bind, verified, failures, avoided, failed, row>>
vars == <<on, list, bind, verified, failures, avoided, failed, row, shared, job,
          due, health, ops, fails, turns>>

None == "none"
AnyAcc == CHOOSE a \in Accounts : TRUE
Idle == [pc |-> "idle", acc |-> AnyAcc, todo |-> {}, fallback |-> None,
         got |-> [a \in Accounts |-> None]]
Free(i) == job[i].pc = "idle"
Uses(i, p) == Cardinality({a \in Accounts : bind[i][a] = p})
Finish(i) == job' = [job EXCEPT ![i] = Idle]

---------------------------------------------------------------------------
\* INSERT ... ON CONFLICT DO UPDATE.
Upsert(old, new) == new

\* assign: memory and row now, the Redis SET when the job reaches "publish"; a new
\* binding starts unfailed, and what the account avoided is forgotten.
Assign(i, a, p, tested) ==
  /\ bind' = [bind EXCEPT ![i][a] = p]
  /\ verified' = [verified EXCEPT ![i][a] = tested]
  /\ failures' = [failures EXCEPT ![i][a] = 0]
  /\ avoided' = [avoided EXCEPT ![i][a] = None]
  /\ failed' = [failed EXCEPT ![i][a] = FALSE]
  /\ row' = [row EXCEPT ![i][a] = Upsert(@, p)]

Publish(i) ==
  /\ job[i].pc = "publish"
  /\ shared' = [shared EXCEPT ![job[i].acc] = bind[i][job[i].acc]]
  /\ IF job[i].todo = {} THEN Finish(i) ELSE job' = [job EXCEPT ![i].pc = "sync"]
  /\ UNCHANGED <<on, list, routeVars, due, health, ops, fails, turns>>

---------------------------------------------------------------------------
(* working_client_for: the bound proxy is verified on first use; without   *)
(* one, the fleet's choice, then the least used proxy, is probed.          *)

UseBound(i, a) ==
  /\ Free(i) /\ on[i]
  /\ bind[i][a] # None /\ ~verified[i][a]
  /\ IF health[i][bind[i][a]] = "ok"
     THEN /\ verified' = [verified EXCEPT ![i][a] = TRUE]
          /\ UNCHANGED <<bind, avoided, job>>
     ELSE /\ avoided' = [avoided EXCEPT ![i][a] = bind[i][a]]
          /\ bind' = [bind EXCEPT ![i][a] = None]
          /\ UNCHANGED verified
          /\ IF failed[i][a] THEN UNCHANGED job
             ELSE job' = [job EXCEPT ![i] = [Idle EXCEPT !.pc = "choose", !.acc = a,
                            !.fallback = IF health[i][bind[i][a]] = "blocked"
                                         THEN bind[i][a] ELSE None]]
  /\ UNCHANGED <<on, list, failures, failed, row, shared, due, health, ops, fails, turns>>

Unbound(i, a) ==
  /\ Free(i) /\ on[i]
  /\ bind[i][a] = None /\ ~failed[i][a]
  /\ job' = [job EXCEPT ![i] = [Idle EXCEPT !.pc = "choose", !.acc = a]]
  /\ UNCHANGED <<on, list, routeVars, shared, due, health, ops, fails, turns>>

\* ordered_candidates: the avoided proxy last, less used ones first; the hash that
\* breaks ties is any order.  The proxy the fleet uses is put in front.
Rank(i, a, p) ==
  IF shared[a] = p /\ avoided[i][a] # p THEN 0
  ELSE 1 + Uses(i, p)
       + IF avoided[i][a] = p /\ Cardinality(list[i]) > 1 THEN Cardinality(Accounts) + 1 ELSE 0
Best(i, a, S) == {p \in S : \A q \in S : Rank(i, a, p) <= Rank(i, a, q)}

\* The first that Tidal accepts; else the refused one; else nothing for 30 s.
Choose(i) ==
  LET a       == job[i].acc
      ok      == {p \in list[i] : health[i][p] = "ok"}
      refused == IF job[i].fallback # None THEN {job[i].fallback}
                 ELSE Best(i, a, {p \in list[i] : health[i][p] = "blocked"})
  IN  /\ job[i].pc = "choose"
      /\ IF ok \cup refused = {}
         THEN /\ failed' = [failed EXCEPT ![i][a] = TRUE]
              /\ Finish(i)
              /\ UNCHANGED <<bind, verified, failures, avoided, row>>
         ELSE /\ \E p \in IF ok # {} THEN Best(i, a, ok) ELSE refused : Assign(i, a, p, TRUE)
              /\ job' = [job EXCEPT ![i].pc = "publish"]
      /\ UNCHANGED <<on, list, shared, due, health, ops, fails, turns>>

---------------------------------------------------------------------------
(* Failures: counted on the binding of the moment, whichever proxy the     *)
(* failed request used; the third asks for a rotation.                     *)

NoteSuccessFor(i, a) ==
  /\ failures[i][a] > 0
  /\ failures' = [failures EXCEPT ![i][a] = 0]
  /\ UNCHANGED <<on, list, bind, verified, avoided, failed, row, shared, job, due,
                 health, ops, fails, turns>>

NoteFailureFor(i, a) ==
  /\ on[i] /\ bind[i][a] # None
  /\ fails < MaxFails
  /\ fails' = fails + 1
  /\ failures' = [failures EXCEPT ![i][a] = @ + 1]
  /\ due' = [due EXCEPT ![i] = IF failures[i][a] + 1 >= FailLimit THEN @ \cup {a} ELSE @]
  /\ UNCHANGED <<on, list, bind, verified, avoided, failed, row, shared, job,
                 health, ops, turns>>

\* rotate_account: whatever is bound when the lock is obtained goes.
RotateAccount(i, a) ==
  /\ a \in due[i] /\ Free(i)
  /\ due' = [due EXCEPT ![i] = @ \ {a}]
  /\ IF bind[i][a] = None THEN UNCHANGED <<bind, avoided, failed, row, job>>
     ELSE /\ bind' = [bind EXCEPT ![i][a] = None]
          /\ avoided' = [avoided EXCEPT ![i][a] = bind[i][a]]
          /\ failed' = [failed EXCEPT ![i][a] = FALSE]
          /\ row' = [row EXCEPT ![i][a] = None]
          /\ job' = [job EXCEPT ![i] = [Idle EXCEPT !.pc = "clear", !.todo = {a}]]
  /\ UNCHANGED <<on, list, verified, failures, shared, health, ops, fails, turns>>

\* clear_assignment's DEL, one key at a time.
Clear(i) ==
  /\ job[i].pc \in {"clear", "configure"}
  /\ \E a \in job[i].todo :
       /\ shared' = [shared EXCEPT ![a] = None]
       /\ job' = [job EXCEPT ![i].todo = @ \ {a}]
  /\ UNCHANGED <<on, list, routeVars, due, health, ops, fails, turns>>

Cleared(i) ==
  /\ job[i].pc \in {"clear", "configure"} /\ job[i].todo = {}
  /\ IF job[i].pc = "clear" THEN Finish(i) ELSE job' = [job EXCEPT ![i].pc = "balance"]
  /\ UNCHANGED <<on, list, routeVars, shared, due, health, ops, fails, turns>>

---------------------------------------------------------------------------
(* The owner and the process.                                              *)

\* forget_account, when an account is removed.
ForgetAccount(i, a) ==
  /\ Free(i) /\ ops < MaxOps
  /\ ops' = ops + 1
  /\ bind' = [bind EXCEPT ![i][a] = None]
  /\ avoided' = [avoided EXCEPT ![i][a] = None]
  /\ failed' = [failed EXCEPT ![i][a] = FALSE]
  /\ row' = [row EXCEPT ![i][a] = None]
  /\ job' = [job EXCEPT ![i] = [Idle EXCEPT !.pc = "clear", !.todo = {a}]]
  /\ UNCHANGED <<on, list, verified, failures, shared, due, health, fails, turns>>

\* configure: bindings to removed proxies go, here and for the fleet.
Kept_All(i, a, l) == bind[i][a]
Kept(i, a, l) == IF bind[i][a] \in l THEN bind[i][a] ELSE None
Configure(i) ==
  /\ Free(i) /\ ops < MaxOps
  /\ ops' = ops + 1
  /\ \E o \in BOOLEAN, l \in Lists :
       LET gone == {a \in Accounts : bind[i][a] # None /\ Kept(i, a, l) = None}
       IN  /\ o => l # {}
           /\ on' = [on EXCEPT ![i] = o]
           /\ list' = [list EXCEPT ![i] = l]
           /\ bind' = [bind EXCEPT ![i] = [a \in Accounts |-> Kept(i, a, l)]]
           /\ avoided' = [avoided EXCEPT ![i] =
                            [a \in Accounts |-> IF @[a] \in l THEN @[a] ELSE None]]
           /\ failed' = [failed EXCEPT ![i] = [a \in Accounts |-> FALSE]]
           /\ row' = [row EXCEPT ![i] = [a \in Accounts |-> IF a \in gone THEN None ELSE @[a]]]
           /\ job' = [job EXCEPT ![i] = [Idle EXCEPT !.todo = gone, !.pc =
                        IF o /\ (~on[i] \/ ~(l \subseteq list[i])) THEN "configure" ELSE "clear"]]
  /\ UNCHANGED <<verified, failures, shared, due, health, fails, turns>>

\* rebalance_assignments_locked: one account of the most loaded proxy moves to
\* each accepted spare.
Movable(i) ==
  {m \in Accounts \X list[i] :
     /\ bind[i][m[1]] # None /\ Uses(i, bind[i][m[1]]) > 1
     /\ Uses(i, m[2]) = 0 /\ health[i][m[2]] = "ok"
     /\ \A p \in list[i] : Uses(i, p) <= Uses(i, bind[i][m[1]])}

Rebalance(i) ==
  /\ job[i].pc = "balance"
  /\ IF Movable(i) = {} THEN Finish(i) /\ UNCHANGED <<routeVars, shared>>
     ELSE \E m \in Movable(i) :
            /\ Assign(i, m[1], m[2], TRUE)
            /\ shared' = [shared EXCEPT ![m[1]] = m[2]]
            /\ UNCHANGED job
  /\ UNCHANGED <<on, list, due, health, ops, fails, turns>>

\* A restart, and load_assignments: the rows of listed proxies, not yet verified.
Loaded(i, a) == IF row[i][a] \in list[i] THEN row[i][a] ELSE None
Restart(i) ==
  /\ ops < MaxOps
  /\ ops' = ops + 1
  /\ bind' = [bind EXCEPT ![i] = [a \in Accounts |-> Loaded(i, a)]]
  /\ verified' = [verified EXCEPT ![i] = [a \in Accounts |-> FALSE]]
  /\ failures' = [failures EXCEPT ![i] = [a \in Accounts |-> 0]]
  /\ avoided' = [avoided EXCEPT ![i] = [a \in Accounts |-> None]]
  /\ failed' = [failed EXCEPT ![i] = [a \in Accounts |-> FALSE]]
  /\ due' = [due EXCEPT ![i] = {}]
  /\ job' = [job EXCEPT ![i] = [Idle EXCEPT !.pc = IF on[i] THEN "balance" ELSE "idle"]]
  /\ UNCHANGED <<on, list, row, shared, health, fails, turns>>

---------------------------------------------------------------------------
(* sync_shared_assignments, on the 60 s tick: MGET, then account by account*)

SyncRead(i) ==
  /\ Free(i) /\ on[i]
  /\ \E a \in Accounts : bind[i][a] # None
  /\ job' = [job EXCEPT ![i] = [Idle EXCEPT !.pc = "sync", !.got = shared,
               !.todo = {a \in Accounts : bind[i][a] # None}]]
  /\ UNCHANGED <<on, list, routeVars, shared, due, health, ops, fails, turns>>

\* reconcile_binding.
Reconcile_KeepsLocal(i, a, got) == IF got = None THEN "publish" ELSE "keep"
Reconcile(i, a, got) ==
  IF got = None THEN "publish"
  ELSE IF got = bind[i][a] \/ got \notin list[i] THEN "keep"
  ELSE IF avoided[i][a] = got THEN "offer" ELSE "adopt"

SyncOne(i) ==
  /\ job[i].pc = "sync"
  /\ \E a \in job[i].todo :
       LET what == Reconcile(i, a, job[i].got[a])
           rest == job[i].todo \ {a}
           next == IF rest = {} THEN Idle ELSE [job[i] EXCEPT !.todo = rest]
       IN  \/ /\ what = "keep"
              /\ job' = [job EXCEPT ![i] = next]
              /\ UNCHANGED <<routeVars, shared>>
           \/ /\ what = "publish"      \* SET NX: the first publisher wins
              /\ shared' = [shared EXCEPT ![a] = IF @ = None THEN bind[i][a] ELSE @]
              /\ job' = [job EXCEPT ![i] = next]
              /\ UNCHANGED routeVars
           \/ /\ what \in {"adopt", "offer"}
              /\ IF what = "adopt" THEN Assign(i, a, job[i].got[a], FALSE)
                 ELSE UNCHANGED routeVars
              /\ job' = [job EXCEPT ![i].pc = "publish", ![i].acc = a, ![i].todo = rest]
              /\ UNCHANGED shared
  /\ UNCHANGED <<on, list, due, health, ops, fails, turns>>

---------------------------------------------------------------------------
RetryDue(i, a) == /\ failed[i][a]     \* 30 s have passed
                  /\ failed' = [failed EXCEPT ![i][a] = FALSE]
                  /\ UNCHANGED <<on, list, bind, verified, failures, avoided, row, shared,
                                 job, due, health, ops, fails, turns>>

HealthTurns(i) ==
  /\ turns < MaxTurns
  /\ turns' = turns + 1
  /\ \E p \in Proxies, h \in {"ok", "blocked", "dead"} :
       h # health[i][p] /\ health' = [health EXCEPT ![i][p] = h]
  /\ UNCHANGED <<on, list, routeVars, shared, job, due, ops, fails>>

PerAccount(v) == [i \in Inst |-> [a \in Accounts |-> v]]
Init == /\ on = [i \in Inst |-> TRUE]
        /\ \E l \in Lists : l # {} /\ list = [i \in Inst |-> l]
        /\ bind = PerAccount(None) /\ row = bind /\ avoided = bind
        /\ verified = PerAccount(FALSE) /\ failed = verified
        /\ failures = PerAccount(0)
        /\ shared = [a \in Accounts |-> None]
        /\ job = [i \in Inst |-> Idle]
        /\ due = [i \in Inst |-> {}]
        /\ health = [i \in Inst |-> [p \in Proxies |-> "ok"]]
        /\ ops = 0 /\ fails = 0 /\ turns = 0

Locked(i) == \/ Publish(i) \/ Choose(i) \/ Clear(i) \/ Cleared(i)
             \/ Rebalance(i) \/ SyncOne(i)
Request(i, a) == \/ UseBound(i, a) \/ Unbound(i, a)
                 \/ NoteSuccessFor(i, a) \/ NoteFailureFor(i, a)
Next == \E i \in Inst :
          \/ Locked(i) \/ SyncRead(i) \/ Configure(i) \/ Restart(i) \/ HealthTurns(i)
          \/ \E a \in Accounts : \/ Request(i, a) \/ RotateAccount(i, a)
                                 \/ ForgetAccount(i, a) \/ RetryDue(i, a)

Spec == Init /\ [][Next]_vars
\* The holder of the lock goes on, and the tick repeats.
Fairness == \A i \in Inst : WF_vars(Locked(i)) /\ WF_vars(SyncRead(i))
FairSpec == Spec /\ Fairness

---------------------------------------------------------------------------
MaybeProxy == Proxies \cup {None}
TypeOK == /\ on \in [Inst -> BOOLEAN] /\ list \in [Inst -> Lists]
          /\ bind \in [Inst -> [Accounts -> MaybeProxy]]
          /\ verified \in [Inst -> [Accounts -> BOOLEAN]]
          /\ failures \in [Inst -> [Accounts -> Nat]]
          /\ avoided \in [Inst -> [Accounts -> MaybeProxy]]
          /\ failed \in [Inst -> [Accounts -> BOOLEAN]]
          /\ row \in [Inst -> [Accounts -> MaybeProxy]]
          /\ shared \in [Accounts -> MaybeProxy]
          /\ due \in [Inst -> SUBSET Accounts]

\* No account ever leaves through a proxy that is not configured here: neither a
\* late adoption from the fleet, nor a restart, nor a rotation brings one back.
BoundListed == \A i \in Inst, a \in Accounts : bind[i][a] \in list[i] \cup {None}

\* What the process uses is what a restart would find.
RowFollows == \A i \in Inst, a \in Accounts : bind[i][a] # None => row[i][a] = bind[i][a]

\* "one account leaves through one address across the fleet": when the owner and the
\* proxies leave them alone, instances with the same list agree on every account
\* that both have bound.
Agree == \A i, j \in Inst, a \in Accounts :
           on[i] /\ on[j] /\ list[i] = list[j] /\ None \notin {bind[i][a], bind[j][a]}
             => bind[i][a] = bind[j][a]
Converges == <>[]Agree

=============================================================================
