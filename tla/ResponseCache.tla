--------------------------- MODULE ResponseCache ---------------------------
(***************************************************************************)
(* The metadata response cache (cache.rs) for one key: a positive entry    *)
(* that is fresh, then stale, then expired; a negative entry for repeatable*)
(* errors; and the in-flight guard that lets one request lead while the    *)
(* others wait.  A stale hit starts a refresh task that outlives its       *)
(* request.  Guards live in a cache of their own whose entries expire 60 s *)
(* after creation, held or not; invalidate_all empties the two answer      *)
(* caches and leaves guards and running fetches alone.                     *)
(***************************************************************************)
EXTENDS Naturals, FiniteSets

CONSTANTS Req,         \* requests for the key
          MaxAges,     \* bound on ageing steps of the cached entries
          MaxGuards,   \* bound on guard objects created
          MaxClears    \* bound on invalidate_all

VARIABLES entry,   \* positive entry: "none", "fresh", "stale" or "expired"
          neg,     \* negative entry: "none", "valid" or "expired"
          guard,   \* guard the in-flight cache holds, 0 when none
          made,    \* guards created so far
          held,    \* guards locked now
          req,     \* [Req -> [pc, guard]]
          bg,      \* [Req -> [pc, guard]]: the refresh a stale hit started
          ages, clears,  \* ageing steps and invalidate_all calls so far
          fetches, \* upstream calls so far
          excuses  \* history: what entitles a request to another fetch

vars == <<entry, neg, guard, made, held, req, bg, clears, ages, fetches, excuses>>

Ages == {"none", "fresh", "stale", "expired"}
Answered(r) == req' = [req EXCEPT ![r].pc = "done"]

\* An answer is cached; when there is none left, whoever is next at a guard asks
\* again: at the current one or a new one, or at one that expired in the meantime.
Usable == entry \in {"fresh", "stale"} \/ neg = "valid"
NextGuard == IF guard = 0 THEN 1 ELSE 0
MayAskAgain == excuses' = excuses + IF Usable /\ ~Usable' THEN made + NextGuard ELSE 0

---------------------------------------------------------------------------
(* cache_responses, up to the fetch                                        *)

\* Fresh entries and stale ones answer at once; a stale one spawns a refresh.
Lookup(r) ==
  /\ req[r].pc = "start"
  /\ \/ entry = "fresh" /\ Answered(r) /\ UNCHANGED bg
     \/ /\ entry = "stale"
        /\ Answered(r)
        /\ bg' = [bg EXCEPT ![r].pc = "guard"]
     \/ /\ entry \in {"none", "expired"}
        /\ req' = [req EXCEPT ![r].pc = "negative"]
        /\ UNCHANGED bg
  /\ UNCHANGED <<entry, neg, guard, made, held, clears, ages, fetches, excuses>>

\* A valid negative entry answers without an upstream call.
LookupNegative(r) ==
  /\ req[r].pc = "negative"
  /\ IF neg = "valid" THEN Answered(r)
     ELSE req' = [req EXCEPT ![r].pc = "guard"]
  /\ UNCHANGED <<entry, neg, guard, made, held, bg, clears, ages, fetches, excuses>>

\* get_with: the guard of the key, a new one when the cache has none.
GetGuard(g) ==
  IF guard # 0 THEN g = guard /\ UNCHANGED <<guard, made>>
  ELSE g = made + 1 /\ guard' = g /\ made' = g

TakeGuard(r) ==
  /\ req[r].pc = "guard"
  /\ \E g \in 1..MaxGuards : /\ GetGuard(g)
                             /\ req' = [req EXCEPT ![r].pc = "wait", ![r].guard = g]
  /\ UNCHANGED <<entry, neg, held, bg, clears, ages, fetches, excuses>>

\* The lock is acquired; both caches are looked at again before the fetch.
Locked_NoRecheck(r) ==
  /\ req[r].pc = "wait"
  /\ req[r].guard \notin held
  /\ req' = [req EXCEPT ![r].pc = "fetch"]
  /\ held' = held \cup {req[r].guard}
  /\ fetches' = fetches + 1
  /\ UNCHANGED <<entry, neg, guard, made, bg, clears, ages, excuses>>

Locked(r) ==
  /\ req[r].pc = "wait"
  /\ req[r].guard \notin held
  /\ \/ entry \in {"fresh", "stale"} /\ Answered(r) /\ UNCHANGED <<held, fetches>>
     \/ /\ entry \in {"none", "expired"} /\ neg = "valid"
        /\ Answered(r)
        /\ UNCHANGED <<held, fetches>>
     \/ /\ entry \in {"none", "expired"} /\ neg # "valid"
        /\ req' = [req EXCEPT ![r].pc = "fetch"]
        /\ held' = held \cup {req[r].guard}
        /\ fetches' = fetches + 1
  /\ UNCHANGED <<entry, neg, guard, made, bg, clears, ages, excuses>>

---------------------------------------------------------------------------
(* The upstream answer                                                     *)

\* A small 200 is cached; an error with a negative_ttl is cached negatively; an
\* oversized body, a failed read and any other status pass through.
Fetched(r) ==
  /\ req[r].pc = "fetch"
  /\ \/ entry' = "fresh" /\ Answered(r) /\ UNCHANGED <<neg, excuses>>
     \/ neg' = "valid" /\ Answered(r) /\ UNCHANGED <<entry, excuses>>
     \/ Answered(r) /\ excuses' = excuses + 1 /\ UNCHANGED <<entry, neg>>
  /\ held' = held \ {req[r].guard}
  /\ UNCHANGED <<guard, made, bg, clears, ages, fetches>>

\* The refresh gives up when the guard is taken (try_lock).
RefreshStarts(r) ==
  /\ bg[r].pc = "guard"
  /\ \E g \in 1..MaxGuards :
       /\ GetGuard(g)
       /\ IF g \in held
          THEN /\ bg' = [bg EXCEPT ![r].pc = "done"]
               /\ UNCHANGED <<held, fetches, excuses>>
          ELSE /\ bg' = [bg EXCEPT ![r] = [pc |-> "fetch", guard |-> g]]
               /\ held' = held \cup {g}
               /\ fetches' = fetches + 1
               /\ excuses' = excuses + 1
  /\ UNCHANGED <<entry, neg, req, clears, ages>>

\* Only a readable 200 replaces the stale entry.
RefreshEnds(r) ==
  /\ bg[r].pc = "fetch"
  /\ \/ entry' = "fresh"
     \/ UNCHANGED entry
  /\ bg' = [bg EXCEPT ![r].pc = "done"]
  /\ held' = held \ {bg[r].guard}
  /\ UNCHANGED <<neg, guard, made, req, clears, ages, fetches, excuses>>

\* The client goes away: its future is dropped and with it the lock it holds.
Disconnect_KeepsLock(r) ==
  /\ req[r].pc \in {"wait", "fetch"}
  /\ Answered(r)
  /\ excuses' = excuses + IF req[r].pc = "fetch" THEN 1 ELSE 0
  /\ UNCHANGED <<entry, neg, guard, made, held, bg, clears, ages, fetches>>

Disconnect(r) ==
  /\ req[r].pc \in {"wait", "fetch"}
  /\ Answered(r)
  /\ held' = IF req[r].pc = "fetch" THEN held \ {req[r].guard} ELSE held
  /\ excuses' = excuses + IF req[r].pc = "fetch" THEN 1 ELSE 0
  /\ UNCHANGED <<entry, neg, guard, made, bg, clears, ages, fetches>>

---------------------------------------------------------------------------
(* Time, eviction and the admin                                            *)

\* freshness(): fresh, stale for as long again, expired until moka drops it.
\* The size bound may evict the entry at any age.
EntryAges ==
  /\ ages < MaxAges
  /\ ages' = ages + 1
  /\ \/ entry = "fresh" /\ entry' = "stale"
     \/ entry = "stale" /\ entry' = "expired"
     \/ entry # "none" /\ entry' = "none"
  /\ UNCHANGED neg /\ MayAskAgain
  /\ UNCHANGED <<guard, made, held, req, bg, clears, fetches>>

NegativeAges ==
  /\ ages < MaxAges
  /\ ages' = ages + 1
  /\ \/ neg = "valid" /\ neg' = "expired"
     \/ neg = "expired" /\ neg' = "none"
  /\ UNCHANGED entry /\ MayAskAgain
  /\ UNCHANGED <<guard, made, held, req, bg, clears, fetches>>

\* The in-flight cache drops a guard after 60 s; holder and waiters keep theirs.
GuardExpires ==
  /\ guard # 0
  /\ made < MaxGuards
  /\ guard' = 0
  /\ excuses' = excuses + 1
  /\ UNCHANGED <<entry, neg, made, held, req, bg, clears, ages, fetches>>

InvalidateAll ==
  /\ clears < MaxClears
  /\ clears' = clears + 1
  /\ entry' = "none"
  /\ neg' = "none"
  /\ MayAskAgain
  /\ UNCHANGED <<guard, made, held, req, bg, ages, fetches>>

---------------------------------------------------------------------------
Init == /\ entry \in {"none", "stale"}
        /\ neg = "none"
        /\ guard = 0 /\ made = 0 /\ held = {}
        /\ req = [r \in Req |-> [pc |-> "start", guard |-> 0]]
        /\ bg = [r \in Req |-> [pc |-> "none", guard |-> 0]]
        /\ clears = 0 /\ ages = 0 /\ fetches = 0
        /\ excuses = IF entry = "none" THEN 1 ELSE 0

Handles(r) == Lookup(r) \/ LookupNegative(r) \/ TakeGuard(r) \/ Locked(r) \/ Fetched(r)
Refreshes(r) == RefreshStarts(r) \/ RefreshEnds(r)

Next == \/ \E r \in Req : Handles(r) \/ Refreshes(r) \/ Disconnect(r)
        \/ EntryAges \/ NegativeAges \/ GuardExpires \/ InvalidateAll

Spec == Init /\ [][Next]_vars
\* Handlers and refresh tasks run, and Tidal calls end (they have timeouts).
Fairness == \A r \in Req : WF_vars(Handles(r)) /\ WF_vars(Refreshes(r))
FairSpec == Spec /\ Fairness

---------------------------------------------------------------------------
TypeOK ==
  /\ entry \in Ages
  /\ neg \in {"none", "valid", "expired"}
  /\ guard \in 0..MaxGuards /\ made \in 0..MaxGuards /\ held \subseteq 1..made
  /\ req \in [Req -> [pc : {"start", "negative", "guard", "wait", "fetch", "done"},
                      guard : 0..MaxGuards]]
  /\ bg \in [Req -> [pc : {"none", "guard", "fetch", "done"}, guard : 0..MaxGuards]]
  /\ clears \in 0..MaxClears /\ ages \in 0..MaxAges
  /\ fetches \in Nat /\ excuses \in Nat

\* Identical concurrent requests collapse onto one upstream call: there are never
\* more calls at once than guards were created, that is one and one more for each
\* guard that outlived its 60 s (cache.rs 194, 372).
SingleFlight == Cardinality({r \in Req : req[r].pc = "fetch"})
                  + Cardinality({r \in Req : bg[r].pc = "fetch"}) <= made

\* Every upstream call is the first, a refresh, or follows something that left no
\* usable answer: an uncacheable one or a leader that went away gives one more call, a
\* guard that expired one more, and an answer that expired, was evicted or cleared one
\* for each guard.  Requests that wait never repeat a call whose answer was cached
\* (the re-check after the lock, cache.rs 378).
FetchesJustified == fetches <= excuses

\* Every request is answered, whoever leads: a leader whose client goes away and a
\* refresh task both free the guard.
AllAnswered == \A r \in Req : req[r].pc = "done"
RequestsAnswered == <>[]AllAnswered

=============================================================================
