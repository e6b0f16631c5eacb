----------------------------- MODULE AccountPool -----------------------------
(***************************************************************************)
(* How a request gets an account: the leases of the playback pool and the  *)
(* slots of the catalog accounts (src/account_manager.rs), and the         *)
(* failover loops that take and return them (src/tidal_client.rs:          *)
(* make_request_with_limit for tracks, catalog_get for metadata).          *)
(*                                                                         *)
(* An account is edited, or adopted from another instance, by putting a    *)
(* rebuilt AccountState in its place. A lease keeps the object it was      *)
(* taken on, so counters are kept per object <<account, generation>>.      *)
(*                                                                         *)
(* Which of the eligible accounts is picked (FULL tier, load, heat, last   *)
(* use) is left open. Clocks are actions: a rest, a pause or an hour ends, *)
(* the 20 s a request may wait for an account are over.                    *)
(***************************************************************************)
EXTENDS Integers, FiniteSets

CONSTANTS
  Account,
  Track,         \* requests for tracks: playback leases
  Meta,          \* metadata requests: catalog slots first, then the pool
  Limits,        \* values of track_concurrency_per_account and the catalog's (0 = none)
  Rests,         \* values of the rest after each request: none or some
  PerHour,       \* requests_per_hour_per_account (0 = no limit)
  Fallbacks,     \* RATE_LIMIT_FALLBACKS
  MaxGen,        \* bound on the objects that ever stand for an account
  Events         \* what the surroundings may do in a run, a subset of AnyEvent

AnyEvent == {"edit", "merge", "role", "settings", "status", "static_token"}

Request == Track \cup Meta
Object == Account \X (1 .. MaxGen)
Kind == {"Playback", "Metadata"}

\* What the module asks of its constants.
PoolParameters ==
  /\ IsFiniteSet(Account) /\ Account # {}
  /\ IsFiniteSet(Request) /\ Track \cap Meta = {}
  /\ Limits \subseteq Nat /\ Limits # {}
  /\ Rests \subseteq BOOLEAN /\ Rests # {}
  /\ PerHour \in Nat /\ Fallbacks \in Nat /\ MaxGen \in Nat \ {0}
  /\ Events \subseteq AnyEvent

VARIABLES
  gen,        \* the object the account list holds for each account
  catalog,    \* is_catalog
  status,     \* "ready", "paused" (429), "cooling" (no token, refresh deferred), "off"
  inflight,   \* playback_inflight and metadata_inflight of every object
  slots,      \* catalog_inflight of every object
  resting,    \* rest_until_ms of the current object lies in the future
  picks,      \* hour_picks of the current object: requests of the last hour
  setting,    \* the limits and the rest the owner has set
  pc,         \* where each request stands
  rules,      \* LeaseRules a request read before it asks for a lease
  held,       \* the object whose lease or slot a request holds
  failed,     \* failed_ids
  maxTry,     \* max_account_attempts
  first,      \* RateLimitFallback.first_try, -1 for None
  hits,       \* RateLimitFallback.hits
  limited,    \* catalog_get: rate_limit_error is set
  second,     \* catalog_get: fallback_tried
  notified,   \* lease_freed() woke the request since it registered
  late,       \* LEASE_WAIT is over
  full,       \* history: objects the last selection found at their limit
  after429    \* history: credentials used after the first 429

pool    == <<gen, catalog, status, inflight, slots, resting, picks, setting>>
loop    == <<failed, maxTry, first, hits, limited, second>>
waiting == <<notified, late, full>>
vars    == <<gen, catalog, status, inflight, slots, resting, picks, setting, pc, rules, held,
             failed, maxTry, first, hits, limited, second, notified, late, full, after429>>

None == <<>>
KindOf(r) == IF r \in Track THEN "Playback" ELSE "Metadata"
Current(a) == <<a, gen[a]>>

\* playback_count: active accounts outside the catalog.
PlaybackCount == Cardinality({a \in Account : status[a] # "off" /\ ~catalog[a]})

-----------------------------------------------------------------------------
(* Selection *)

\* Seeded fault: each kind of lease is limited on its own.
PoolInflight_PerKind(o) == inflight[o]["Playback"]

\* pool_inflight: the limit applies to the sum of both kinds.
PoolInflight(o) == inflight[o]["Playback"] + inflight[o]["Metadata"]

Usable(r) ==
  {a \in Account : status[a] = "ready" /\ ~catalog[a] /\ a \notin failed[r]}

Eligible(r) ==
  {a \in Usable(r) :
     /\ rules[r].limit = 0 \/ PoolInflight(Current(a)) < rules[r].limit
     /\ ~resting[a]
     /\ PerHour = 0 \/ picks[a] < PerHour}

\* note_selection, on the current object of a; unlimited picks need no count.
NoteSelection(a) == picks' = [picks EXCEPT ![a] = IF PerHour = 0 THEN 0 ELSE @ + 1]

\* Seeded fault: only requests that already sleep hear of a freed lease.
Notify_OnlySleepers ==
  notified' = [q \in Request |-> notified[q] \/ pc[q] = "asleep"]

\* notify_waiters: everyone registered when it is called.
Notify ==
  notified' = [q \in Request |-> notified[q] \/ pc[q] \in {"registered", "checked", "asleep"}]

\* PlaybackLease::drop: the rest begins on the object the lease was taken on.
DropLease(r) ==
  /\ inflight' = [inflight EXCEPT ![held[r]][KindOf(r)] = @ - 1]
  /\ resting' = [a \in Account |-> resting[a] \/ (rules[r].rest /\ held[r] = Current(a))]
  /\ held' = [held EXCEPT ![r] = None]
  /\ Notify

\* CatalogSlot::drop.
DropSlot(r) ==
  /\ slots' = [slots EXCEPT ![held[r]] = @ - 1]
  /\ held' = [held EXCEPT ![r] = None]

-----------------------------------------------------------------------------
(* make_request_with_limit *)

\* The head of the failover loop, after `tries` accounts failed.
Exhausted(r, tries, f) ==
  tries >= maxTry[r] \/ (f >= 0 /\ tries > f + Fallbacks)

\* lease_pool_account reads the limits; lease_account_for fixes its deadline.
Begin(r) ==
  /\ pc' = [pc EXCEPT ![r] = "begin"]
  /\ rules' = [rules EXCEPT ![r] = [limit |-> setting.track, rest |-> setting.rest]]
  /\ late' = [late EXCEPT ![r] = FALSE]

EnterPool(r, accountLimit) ==
  /\ maxTry' = [maxTry EXCEPT ![r] =
                  IF accountLimit = 1 \/ PlaybackCount = 0 THEN 1 ELSE PlaybackCount]
  /\ Begin(r)

TrackStarts(r) ==
  /\ r \in Track /\ pc[r] = "start"
  /\ EnterPool(r, 0)
  /\ UNCHANGED <<pool, held, failed, first, hits, limited, second, notified, full, after429>>

\* "Register before checking, so a release in between is not missed."
Register(r) ==
  /\ pc[r] = "begin" \/ (pc[r] = "asleep" /\ notified[r])
  /\ pc' = [pc EXCEPT ![r] = "registered"]
  /\ notified' = [notified EXCEPT ![r] = FALSE]
  /\ full' = [full EXCEPT ![r] = {}]
  /\ UNCHANGED <<pool, rules, held, loop, late, after429>>

\* Seeded fault: a sleeping request waits for a release only.
TimerFires_Never(r) == pc[r] = "asleep" /\ FALSE /\ UNCHANGED vars

\* The 100 ms timer of a sleeping request.
TimerFires(r) ==
  /\ pc[r] = "asleep"
  /\ pc' = [pc EXCEPT ![r] = "registered"]
  /\ notified' = [notified EXCEPT ![r] = FALSE]
  /\ full' = [full EXCEPT ![r] = {}]
  /\ UNCHANGED <<pool, rules, held, loop, late, after429>>

\* try_lease: one selection pass under select_lock.
TryLease(r) ==
  /\ pc[r] = "registered"
  /\ \/ \E a \in Eligible(r) :
          /\ held' = [held EXCEPT ![r] = Current(a)]
          /\ inflight' = [inflight EXCEPT ![Current(a)][KindOf(r)] = @ + 1]
          /\ NoteSelection(a)
          /\ pc' = [pc EXCEPT ![r] = "leased"]
          /\ after429' = [after429 EXCEPT ![r] = IF first[r] >= 0 \/ limited[r] THEN @ + 1 ELSE @]
          /\ UNCHANGED full
     \/ /\ Usable(r) = {}
        /\ pc' = [pc EXCEPT ![r] = "failed"]
        /\ UNCHANGED <<held, inflight, picks, full, after429>>
     \/ /\ Eligible(r) = {} /\ Usable(r) # {}
        /\ pc' = [pc EXCEPT ![r] = "checked"]
        /\ full' = [full EXCEPT ![r] =
                      {o \in {Current(a) : a \in Usable(r)} :
                         rules[r].limit > 0 /\ PoolInflight(o) >= rules[r].limit}]
        /\ UNCHANGED <<held, inflight, picks, after429>>
  /\ UNCHANGED <<gen, catalog, status, slots, resting, setting, rules, loop, notified, late>>

\* Nothing was free: AccountsBusy at the deadline, else sleep.
Sleep(r) ==
  /\ pc[r] = "checked"
  /\ pc' = [pc EXCEPT ![r] = IF late[r] THEN "failed" ELSE "asleep"]
  /\ UNCHANGED <<pool, rules, held, loop, waiting, after429>>

\* The request is answered, or fails in a way no other account can help with
\* (transport error, 404, unreadable body), or its client goes away.
LeaseEnds(r) ==
  /\ pc[r] = "leased"
  /\ DropLease(r)
  /\ \E v \in {"done", "failed"} : pc' = [pc EXCEPT ![r] = v]
  /\ UNCHANGED <<gen, catalog, status, slots, picks, setting, rules, loop, late, full, after429>>

\* A token failure, 401, 403, 5xx or a PREVIEW: the next account.
LeaseFails(r) ==
  /\ pc[r] = "leased"
  /\ failed' = [failed EXCEPT ![r] = @ \cup {held[r][1]}]
  /\ DropLease(r)
  /\ IF Exhausted(r, Cardinality(failed'[r]), first[r])
     THEN pc' = [pc EXCEPT ![r] = "failed"] /\ UNCHANGED <<rules, late>>
     ELSE Begin(r)
  /\ UNCHANGED <<gen, catalog, status, slots, picks, setting, maxTry, first, hits, limited, second,
                 full, after429>>

\* pause_account acts on the object the lease was taken on.
Pause(o) == status' = [a \in Account |-> IF o = Current(a) /\ status[a] # "off"
                                         THEN "paused" ELSE status[a]]

\* Seeded fault: a later 429 starts the count of fallbacks again.
Schedule_Restarts(r) ==
  /\ first' = [first EXCEPT ![r] = Cardinality(failed[r])]
  /\ hits' = [hits EXCEPT ![r] = 1]

\* RateLimitFallback::schedule: the first 429 fixes how far the request may go on.
Schedule(r) ==
  /\ first' = [first EXCEPT ![r] = IF @ < 0 THEN Cardinality(failed[r]) ELSE @]
  /\ hits' = [hits EXCEPT ![r] = @ + 1]

\* Tidal answers 429 and the account is paused, or another request's pause is met
\* before this one is sent: a limited number of other accounts is tried.
LeaseRateLimited(r) ==
  /\ pc[r] = "leased"
  /\ Pause(held[r]) \/ UNCHANGED status
  /\ failed' = [failed EXCEPT ![r] = @ \cup {held[r][1]}]
  /\ DropLease(r)
  /\ Schedule(r)
  /\ IF hits'[r] > Fallbacks \/ Exhausted(r, Cardinality(failed'[r]), first'[r])
     THEN pc' = [pc EXCEPT ![r] = "failed"] /\ UNCHANGED <<rules, late>>
     ELSE Begin(r)
  /\ UNCHANGED <<gen, catalog, slots, picks, setting, maxTry, limited, second, full, after429>>

-----------------------------------------------------------------------------
(* catalog_get *)

\* catalog_get reads the slot limit, then asks with the CATALOG_TOKEN if there is
\* one (catalog_static_get).
MetaStarts(r) ==
  /\ r \in Meta /\ pc[r] = "start"
  /\ rules' = [rules EXCEPT ![r].limit = setting.catalog]
  /\ \/ /\ pc' = [pc EXCEPT ![r] = "claim"]
        /\ UNCHANGED limited
     \/ /\ "static_token" \in Events
        /\ \/ pc' = [pc EXCEPT ![r] = "done"] /\ UNCHANGED limited
           \/ /\ pc' = [pc EXCEPT ![r] = "claim"]
              /\ limited' = [limited EXCEPT ![r] = TRUE]
  /\ UNCHANGED <<pool, held, failed, maxTry, first, hits, second, waiting, after429>>

CatalogReady == {a \in Account : catalog[a] /\ status[a] = "ready"}

\* Seeded fault: the limit is compared one too late.

\* try_claim_catalog_slot.
SlotFree(r, a) == rules[r].limit = 0 \/ slots[Current(a)] < rules[r].limit

\* After a 429, or while a catalog account is paused, one playback account only;
\* with every slot taken and no pool the request is shed.
OverflowToPool(r) ==
  LET paused == limited[r] \/ \E a \in Account : catalog[a] /\ status[a] = "paused"
  IN  /\ limited' = [limited EXCEPT ![r] = paused]
      /\ IF ~paused /\ CatalogReady # {} /\ PlaybackCount = 0
         THEN pc' = [pc EXCEPT ![r] = "failed"] /\ UNCHANGED <<maxTry, rules, late>>
         ELSE EnterPool(r, IF paused THEN 1 ELSE 0)

\* claim_catalog_slot: a free slot, or Busy, or Unavailable.
ClaimSlot(r) ==
  /\ pc[r] = "claim"
  /\ \/ \E a \in CatalogReady :
          /\ SlotFree(r, a)
          /\ slots' = [slots EXCEPT ![Current(a)] = @ + 1]
          /\ held' = [held EXCEPT ![r] = Current(a)]
          /\ NoteSelection(a)
          /\ pc' = [pc EXCEPT ![r] = "slot"]
          /\ second' = [second EXCEPT ![r] = limited[r]]
          /\ after429' = [after429 EXCEPT ![r] = IF limited[r] THEN @ + 1 ELSE @]
          /\ UNCHANGED <<rules, maxTry, late, limited>>
     \/ /\ \A a \in CatalogReady : ~SlotFree(r, a)
        /\ OverflowToPool(r)
        /\ UNCHANGED <<slots, held, picks, second, after429>>
  /\ UNCHANGED <<gen, catalog, status, inflight, resting, setting, failed, first, hits, notified,
                 full>>

\* The request is answered, or its client goes away.
SlotEnds(r) ==
  /\ pc[r] = "slot"
  /\ DropSlot(r)
  /\ \E v \in {"done", "failed"} : pc' = [pc EXCEPT ![r] = v]
  /\ UNCHANGED <<gen, catalog, status, inflight, resting, picks, setting, rules, loop, waiting,
                 after429>>

\* 429, or a pause met before sending: one other credential, then the error.
SlotRateLimited(r) ==
  /\ pc[r] = "slot"
  /\ Pause(held[r]) \/ UNCHANGED status
  /\ DropSlot(r)
  /\ limited' = [limited EXCEPT ![r] = TRUE]
  /\ pc' = [pc EXCEPT ![r] = IF second[r] THEN "failed" ELSE "claim"]
  /\ UNCHANGED <<gen, catalog, inflight, resting, picks, setting, rules, failed, maxTry, first,
                 hits, second, waiting, after429>>

\* Any other error breaks out of the loop to the pool.
SlotFails(r) ==
  /\ pc[r] = "slot"
  /\ DropSlot(r)
  /\ IF second[r]
     THEN pc' = [pc EXCEPT ![r] = "failed"] /\ UNCHANGED <<limited, maxTry, rules, late>>
     ELSE LET paused == \E a \in Account : catalog[a] /\ status[a] = "paused"
          IN  /\ limited' = [limited EXCEPT ![r] = paused]
              /\ EnterPool(r, IF paused THEN 1 ELSE 0)
  /\ UNCHANGED <<gen, catalog, status, inflight, resting, picks, setting, failed, first, hits,
                 second, notified, full, after429>>

-----------------------------------------------------------------------------
(* The client, the clocks, the owner and the fleet *)

\* The client goes away while the request waits; its future is dropped.
Disconnect(r) ==
  /\ pc[r] \in {"begin", "registered", "checked", "asleep", "claim"}
  /\ pc' = [pc EXCEPT ![r] = "failed"]
  /\ UNCHANGED <<pool, rules, held, loop, waiting, after429>>

\* LEASE_WAIT has passed since the request began to ask for this lease.
WaitOver(r) ==
  /\ pc[r] \in {"begin", "registered", "checked", "asleep"} /\ ~late[r]
  /\ late' = [late EXCEPT ![r] = TRUE]
  /\ UNCHANGED <<pool, pc, rules, held, loop, notified, full, after429>>

RestEnds(a) ==
  /\ resting[a]
  /\ resting' = [resting EXCEPT ![a] = FALSE]
  /\ UNCHANGED <<gen, catalog, status, inflight, slots, picks, setting, pc, rules, held, loop,
                 waiting, after429>>

\* requests_last_hour: the oldest pick is an hour old.
HourPasses(a) ==
  /\ picks[a] > 0
  /\ picks' = [picks EXCEPT ![a] = @ - 1]
  /\ UNCHANGED <<gen, catalog, status, inflight, slots, resting, setting, pc, rules, held, loop,
                 waiting, after429>>

\* Pauses and cooldowns begin and end, accounts are switched off and on.
StatusChanges(a) ==
  /\ "status" \in Events \/ status[a] = "paused"
  /\ \E s \in (IF "status" \in Events THEN {"ready", "paused", "cooling", "off"} ELSE {"ready"}) :
       s # status[a] /\ status' = [status EXCEPT ![a] = s]
  /\ UNCHANGED <<gen, catalog, inflight, slots, resting, picks, setting, pc, rules, held, loop,
                 waiting, after429>>

\* set_account_catalog.
SetAccountCatalog(a) ==
  /\ "role" \in Events
  /\ catalog' = [catalog EXCEPT ![a] = ~@]
  /\ UNCHANGED <<gen, status, inflight, slots, resting, picks, setting, pc, rules, held, loop,
                 waiting, after429>>

\* carry_over: pauses and picks move to the new object, the in-flight counters and
\* the rest do not; new credentials end a refresh cooldown.
CarryOver(a, s) ==
  /\ gen[a] < MaxGen
  /\ gen' = [gen EXCEPT ![a] = @ + 1]
  /\ resting' = [resting EXCEPT ![a] = FALSE]
  /\ \E newCredentials \in BOOLEAN :
       status' = [status EXCEPT ![a] = IF newCredentials /\ s = "cooling" THEN "ready" ELSE s]

\* update_account: the owner edits the account.
UpdateAccount(a) ==
  /\ "edit" \in Events
  /\ CarryOver(a, status[a])
  /\ UNCHANGED <<catalog, inflight, slots, picks, setting, pc, rules, held, loop, waiting,
                 after429>>

\* merge_accounts_from_redis adopts a newer record: on or off and the role as there.
AdoptRecord(a) ==
  /\ "merge" \in Events
  /\ \E s \in {"off", IF status[a] = "off" THEN "ready" ELSE status[a]} : CarryOver(a, s)
  /\ \E c \in BOOLEAN : catalog' = [catalog EXCEPT ![a] = c]
  /\ UNCHANGED <<inflight, slots, picks, setting, pc, rules, held, loop, waiting, after429>>

\* The owner changes the limits; every lease call reads them anew.
ChangeSettings ==
  /\ "settings" \in Events
  /\ setting' \in [track : Limits, catalog : Limits, rest : Rests]
  /\ UNCHANGED <<gen, catalog, status, inflight, slots, resting, picks, pc, rules, held, loop,
                 waiting, after429>>

-----------------------------------------------------------------------------
Init ==
  /\ gen = [a \in Account |-> 1]
  /\ catalog \in [Account -> BOOLEAN]
  /\ status = [a \in Account |-> "ready"]
  /\ inflight = [o \in Object |-> [k \in Kind |-> 0]]
  /\ slots = [o \in Object |-> 0]
  /\ resting = [a \in Account |-> FALSE]
  /\ picks = [a \in Account |-> 0]
  /\ setting \in [track : Limits, catalog : Limits, rest : Rests]
  /\ pc = [r \in Request |-> "start"]
  /\ rules = [r \in Request |-> [limit |-> 0, rest |-> FALSE]]
  /\ held = [r \in Request |-> None]
  /\ failed = [r \in Request |-> {}]
  /\ maxTry = [r \in Request |-> 0]
  /\ first = [r \in Request |-> -1]
  /\ hits = [r \in Request |-> 0]
  /\ limited = [r \in Request |-> FALSE]
  /\ second = [r \in Request |-> FALSE]
  /\ notified = [r \in Request |-> FALSE]
  /\ late = [r \in Request |-> FALSE]
  /\ full = [r \in Request |-> {}]
  /\ after429 = [r \in Request |-> 0]

\* What a request does by itself, an answer of Tidal included: every call to
\* Tidal is bounded by the HTTP client's 25 s.
RequestStep(r) ==
  \/ TrackStarts(r) \/ MetaStarts(r)
  \/ Register(r) \/ TryLease(r) \/ Sleep(r) \/ TimerFires(r)
  \/ LeaseEnds(r) \/ LeaseFails(r) \/ LeaseRateLimited(r)
  \/ ClaimSlot(r) \/ SlotEnds(r) \/ SlotRateLimited(r) \/ SlotFails(r)

Surroundings ==
  \/ \E r \in Request : Disconnect(r) \/ WaitOver(r)
  \/ \E a \in Account : RestEnds(a) \/ HourPasses(a) \/ StatusChanges(a)
                        \/ SetAccountCatalog(a) \/ UpdateAccount(a) \/ AdoptRecord(a)
  \/ ChangeSettings

Next == (\E r \in Request : RequestStep(r)) \/ Surroundings

Spec == Init /\ [][Next]_vars

\* Requests are polled, Tidal's answers and the deadline of a wait arrive. Nothing
\* is assumed of rests, pauses, the owner or other requests' luck.
Fairness == \A r \in Request : WF_vars(RequestStep(r)) /\ WF_vars(WaitOver(r))

FairSpec == Spec /\ Fairness

-----------------------------------------------------------------------------
(* Properties *)

PoolHolders(o) == {r \in Request : pc[r] = "leased" /\ held[r] = o}
SlotHolders(o) == {r \in Request : pc[r] = "slot" /\ held[r] = o}

\* Every variable has its type: AccountState, settings and the loops' locals.
TypeOK ==
  /\ gen \in [Account -> 1 .. MaxGen] /\ catalog \in [Account -> BOOLEAN]
  /\ status \in [Account -> {"ready", "paused", "cooling", "off"}]
  /\ inflight \in [Object -> [Kind -> Nat]] /\ slots \in [Object -> Nat]
  /\ resting \in [Account -> BOOLEAN] /\ picks \in [Account -> Nat]
  /\ setting \in [track : Limits, catalog : Limits, rest : Rests]
  /\ pc \in [Request -> {"start", "begin", "registered", "checked", "asleep", "leased", "claim",
                         "slot", "done", "failed"}]
  /\ rules \in [Request -> [limit : Limits \cup {0}, rest : BOOLEAN]]
  /\ held \in [Request -> Object \cup {None}]
  /\ failed \in [Request -> SUBSET Account] /\ maxTry \in [Request -> Nat]
  /\ first \in [Request -> Int] /\ hits \in [Request -> Nat]
  /\ {limited[r] : r \in Request} \cup {second[r] : r \in Request} \subseteq BOOLEAN
  /\ notified \in [Request -> BOOLEAN] /\ late \in [Request -> BOOLEAN]
  /\ full \in [Request -> SUBSET Object] /\ after429 \in [Request -> Nat]

\* Every in-flight counter counts the requests that hold a lease or a slot of the
\* object (PlaybackLease::drop, CatalogSlot::drop), through failovers, edits, role
\* changes and disconnects.
CountersExact ==
  /\ \A o \in Object, k \in Kind :
       inflight[o][k] = Cardinality({r \in PoolHolders(o) : KindOf(r) = k})
  /\ \A o \in Object : slots[o] = Cardinality(SlotHolders(o))

\* "the per-account limit applies to their sum" (LeaseKind): the requests that use
\* an object are within the limit one of them was admitted under, whatever the
\* owner changes meanwhile. A limit of 0 is none.
LimitRespected ==
  \A o \in Object : \A holders \in {PoolHolders(o), SlotHolders(o)} :
    holders = {} \/ \E r \in holders :
      rules[r].limit = 0 \/ Cardinality(holders) <= rules[r].limit

\* "Register before checking, so a release in between is not missed"
\* (lease_account_for): an object that a sleeping request found at its limit is
\* still at it, unless the request has been woken.
NoMissedRelease ==
  \A r \in Request : pc[r] = "asleep" /\ ~notified[r] =>
    \A o \in full[r] : PoolInflight(o) >= rules[r].limit

\* "After the first 429 only RATE_LIMIT_FALLBACKS more accounts are tried, whatever
\* they answer" (RateLimitFallback::exhausted), for metadata too.
FallbacksBounded == \A r \in Request : after429[r] <= Fallbacks

\* Every request comes to an end: nobody waits for ever for an account.
AllEnded == \A r \in Request : pc[r] \in {"done", "failed"}
RequestsEnd == <>[]AllEnded

\* "Requests one account sends to Tidal at once" (LeaseRules): the limit holds for
\* the account, not only for one of the objects that stand for it.
AccountLimitRespected ==
  \A a \in Account :
    LET holders == UNION {PoolHolders(<<a, g>>) : g \in 1 .. MaxGen}
    IN  holders = {} \/ \E r \in holders :
          rules[r].limit = 0 \/ Cardinality(holders) <= rules[r].limit

=============================================================================
