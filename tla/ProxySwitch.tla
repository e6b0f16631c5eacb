---------------------------- MODULE ProxySwitch ----------------------------
(***************************************************************************)
(* The shared egress of ProxyManager (proxy_manager.rs): the client that   *)
(* traffic without an account uses, chosen among the listed proxies, and   *)
(* the admin switch that reconfigures it while requests are under way.     *)
(*                                                                         *)
(* switch_lock orders configure and swap_to.  Requests read enabled, ready *)
(* and client without it, one atomic load at a time, so configure is split *)
(* where such a load can fall between two of its stores.  A probe holds    *)
(* the read lock of the list: configure writes the list when none runs.    *)
(* The list is a sequence (its order is the order of rotation); Direct is  *)
(* the client without a proxy and None the missing current proxy.          *)
(***************************************************************************)
EXTENDS Naturals, Sequences, FiniteSets

CONSTANTS Tasks,        \* concurrent callers of working_client and its kin
          Lists,        \* proxy lists the owner may configure (sequences)
          FailLimit,    \* consecutive failures that start a rotation (3)
          Fallback,     \* FALLBACK_TO_DIRECT_CONNECTION
          MaxUpdates,   \* configurations after start-up
          MaxCalls,     \* calls in a behaviour
          MaxTurns      \* changes of a proxy's health

VARIABLES gen, list, on, current, client, ready, fails,
          tried,      \* last_try is less than 30 s ago
          rotating,
          health,     \* [proxy -> "ok", "blocked" or "dead"], as Tidal answers
          admin,      \* the update under way: [pc, on, list]
          task,       \* [Tasks -> [pc, kind, gen, got]]
          rot,        \* the rotation under way: [pc, gen, got]
          updates, calls, turns

switchVars == <<gen, list, on, current, client, ready, fails, tried, rotating>>
boundVars  == <<updates, calls, turns>>
vars == <<gen, list, on, current, client, ready, fails, tried, rotating,
          health, admin, task, rot, updates, calls, turns>>

Direct == "direct"
None == "none"
Elements(s) == {s[k] : k \in 1..Len(s)}
Proxies == UNION {Elements(l) : l \in Lists}
Rest(pc) == [pc |-> pc, kind |-> "api", gen |-> 0, got |-> None]
NoUpdate == [pc |-> "none", on |-> FALSE, list |-> << >>]
NoRotation == [pc |-> "none", gen |-> 0, got |-> None]

\* switch_lock is taken by configure alone for longer than one step.
Unlocked == admin.pc \in {"none", "saved"}
Probing == \E t \in Tasks : task[t].pc = "probe"
Readable == admin.pc # "list"     \* a waiting writer goes before new readers
Goto(t, pc) == task' = [task EXCEPT ![t].pc = pc]
Answer(t, c) == task' = [task EXCEPT ![t].pc = "done", ![t].got = c]

---------------------------------------------------------------------------
(* The owner: update_proxies saves both settings in one transaction, then  *)
(* configures.  An enabled list is never empty (normalize_proxies).        *)

UpdateProxies ==
  /\ admin.pc = "none"
  /\ updates < MaxUpdates
  /\ updates' = updates + 1
  /\ \E o \in BOOLEAN, l \in Lists :
       (o => l # << >>) /\ admin' = [pc |-> "saved", on |-> o, list |-> l]
  /\ UNCHANGED <<switchVars, health, task, rot, calls, turns>>

ConfigureBegin == \* the generation moves before the list can be written
  /\ admin.pc = "saved"
  /\ gen' = gen + 1
  /\ admin' = [admin EXCEPT !.pc = "list"]
  /\ UNCHANGED <<list, on, current, client, ready, fails, tried, rotating,
                 health, task, rot, boundVars>>

ConfigureList ==
  /\ admin.pc = "list"
  /\ ~Probing
  /\ list' = admin.list
  /\ current' = None
  /\ client' = Direct
  /\ admin' = [admin EXCEPT !.pc = "enable"]
  /\ UNCHANGED <<gen, on, ready, fails, tried, rotating, health, task, rot, boundVars>>

ConfigureEnable ==
  /\ admin.pc = "enable"
  /\ on' = admin.on
  /\ admin' = [admin EXCEPT !.pc = "ready"]
  /\ UNCHANGED <<gen, list, current, client, ready, fails, tried, rotating,
                 health, task, rot, boundVars>>

\* The rest of configure; spawn_initial_resolve follows as an ordinary call.
ConfigureReady ==
  /\ admin.pc = "ready"
  /\ ready' = ~admin.on
  /\ fails' = 0
  /\ tried' = FALSE
  /\ admin' = NoUpdate
  /\ UNCHANGED <<gen, list, on, current, client, rotating, health, task, rot, boundVars>>

---------------------------------------------------------------------------
(* working_client, and working_auth_client, which asks it first.           *)

Call(t) ==
  /\ task[t].pc = "idle"
  /\ calls < MaxCalls
  /\ calls' = calls + 1
  /\ \E k \in {"api", "auth", "replace"} :
       task' = [task EXCEPT ![t] = [pc |-> IF k = "replace" THEN "replace" ELSE "enabled",
                                    kind |-> k, gen |-> 0, got |-> None]]
  /\ UNCHANGED <<switchVars, health, admin, rot, updates, turns>>

ReadEnabled(t) ==
  /\ task[t].pc = "enabled"
  /\ IF on THEN Goto(t, "ready")
     ELSE IF task[t].kind = "api" THEN Answer(t, Direct) ELSE Goto(t, "auth")
  /\ UNCHANGED <<switchVars, health, admin, rot, boundVars>>

\* Ready, or try_resolve: the generation is read first, one attempt per 30 s.
ReadReady(t) ==
  /\ task[t].pc = "ready"
  /\ IF ready THEN Goto(t, "client") /\ UNCHANGED tried
     ELSE IF tried THEN Goto(t, "fallback") /\ UNCHANGED tried
     ELSE /\ task' = [task EXCEPT ![t].pc = "list", ![t].gen = gen, ![t].got = None]
          /\ tried' = TRUE
  /\ UNCHANGED <<gen, list, on, current, client, ready, fails, rotating,
                 health, admin, rot, boundVars>>

\* get_working_proxy: of up to three random candidates the first that answers,
\* a refused one if none does.  With an accepted proxy beyond the three it may
\* still find nothing.
Candidates(avoid) == {S \in SUBSET (Elements(list) \ {avoid}) :
                        \/ Cardinality(S) = 3
                        \/ Cardinality(S) < 3 /\ S = Elements(list) \ {avoid}}
Found(S) ==
  LET ok      == {p \in S : health[p] = "ok"}
      blocked == {p \in S : health[p] = "blocked"}
  IN  IF ok # {} THEN ok ELSE IF blocked # {} THEN blocked ELSE {None}

ReadList(t) ==
  /\ task[t].pc = "list"
  /\ Readable
  /\ Goto(t, "probe")
  /\ UNCHANGED <<switchVars, health, admin, rot, boundVars>>

GetWorkingProxy(t) ==
  /\ task[t].pc = "probe"
  /\ \E S \in Candidates(task[t].got) : \E p \in Found(S) :
       task' = [task EXCEPT ![t].got = p, ![t].pc = IF p = None THEN "fallback" ELSE "swap"]
  /\ UNCHANGED <<switchVars, health, admin, rot, boundVars>>

\* swap_to: only the configuration the probe was started for.
MaySwap_AnyGeneration(g) == on
MaySwap(g) == on /\ g = gen

Installed(p) == /\ client' = p /\ current' = p
                /\ ready' = TRUE /\ fails' = 0
SwapTo(t) ==
  /\ task[t].pc = "swap"
  /\ Unlocked
  /\ IF MaySwap(task[t].gen)
     THEN /\ Installed(task[t].got)
          /\ Goto(t, CASE task[t].kind = "api" -> "client"
                       [] task[t].kind = "auth" -> "auth"
                       [] OTHER -> "enabled")
     ELSE Goto(t, "fallback") /\ UNCHANGED <<current, client, ready, fails>>
  /\ UNCHANGED <<gen, list, on, tried, rotating, health, admin, rot, boundVars>>

\* client() reads enabled and the stored client once more.
ReadClient(t) ==
  /\ task[t].pc = "client"
  /\ IF task[t].kind = "api" THEN Answer(t, IF on THEN client ELSE Direct)
     ELSE Goto(t, "auth")
  /\ UNCHANGED <<switchVars, health, admin, rot, boundVars>>

Refuse(t) ==
  /\ task[t].pc = "fallback"
  /\ IF ~Fallback THEN Answer(t, None)
     ELSE IF task[t].kind = "auth" THEN Goto(t, "auth")
     ELSE Answer(t, Direct)
  /\ UNCHANGED <<switchVars, health, admin, rot, boundVars>>

\* working_auth_client under the lock: the current proxy, never the stored client.
AuthClient(t) ==
  /\ task[t].pc = "auth"
  /\ Unlocked
  /\ Answer(t, IF ~on THEN Direct
               ELSE IF current # None THEN current
               ELSE IF Fallback THEN Direct ELSE None)
  /\ UNCHANGED <<switchVars, health, admin, rot, boundVars>>

\* replace_auth_client: leave the current proxy, whose sign-in failed, for a tested
\* one; a swap continues with working_auth_client.
ReplaceAuth(t) ==
  /\ task[t].pc = "replace"
  /\ IF ~on THEN Answer(t, Direct) /\ UNCHANGED ready
     ELSE /\ ready' = FALSE
          /\ task' = [task EXCEPT ![t].pc = "list", ![t].gen = gen, ![t].got = current]
  /\ UNCHANGED <<gen, list, on, current, client, fails, tried, rotating,
                 health, admin, rot, boundVars>>

---------------------------------------------------------------------------
(* The outcome of a call, and the rotation it may start.                   *)

NoteSuccess(t) ==
  /\ task[t].pc = "done"
  /\ task[t].kind = "api" /\ task[t].got # None
  /\ fails' = 0
  /\ task' = [task EXCEPT ![t] = Rest("idle")]
  /\ UNCHANGED <<gen, list, on, current, client, ready, tried, rotating,
                 health, admin, rot, boundVars>>

NoteFailure(t) ==
  /\ task[t].pc = "done"
  /\ task[t].kind = "api" /\ task[t].got # None
  /\ task' = [task EXCEPT ![t] = Rest("idle")]
  /\ fails' = IF ~on THEN fails ELSE IF fails + 1 >= FailLimit THEN 0 ELSE fails + 1
  /\ IF on /\ fails + 1 >= FailLimit /\ ~rotating
     THEN rotating' = TRUE /\ rot' = [NoRotation EXCEPT !.pc = "pick"]
     ELSE UNCHANGED <<rotating, rot>>
  /\ UNCHANGED <<gen, list, on, current, client, ready, tried, health, admin, boundVars>>

\* A call that ends without a report: refused, or a sign-in.
Leave(t) ==
  /\ task[t].pc = "done"
  /\ task[t].kind # "api" \/ task[t].got = None
  /\ task' = [task EXCEPT ![t] = Rest("idle")]
  /\ UNCHANGED <<switchVars, health, admin, rot, boundVars>>

\* rotate: the next proxy of the list after the current one, untested.
After(p) == IF \E k \in 1..Len(list) : list[k] = p
            THEN list[((CHOOSE k \in 1..Len(list) : list[k] = p) % Len(list)) + 1]
            ELSE list[1]
RotatePick ==
  /\ rot.pc = "pick"
  /\ Readable
  /\ IF list = << >>
     THEN /\ ready' = FALSE
          /\ rot' = NoRotation /\ rotating' = FALSE
     ELSE /\ rot' = [pc |-> "swap", gen |-> gen, got |-> After(current)]
          /\ UNCHANGED <<ready, rotating>>
  /\ UNCHANGED <<gen, list, on, current, client, fails, tried, health, admin, task, boundVars>>

RotateSwap ==
  /\ rot.pc = "swap"
  /\ Unlocked
  /\ IF MaySwap(rot.gen)
     THEN Installed(rot.got) /\ rot' = [rot EXCEPT !.pc = "check"] /\ UNCHANGED rotating
     ELSE /\ rot' = NoRotation /\ rotating' = FALSE
          /\ UNCHANGED <<current, client, ready, fails>>
  /\ UNCHANGED <<gen, list, on, tried, health, admin, task, boundVars>>

\* The proxy current now is probed; a dead one makes the next request resolve.
RotateCheck ==
  /\ rot.pc = "check"
  /\ rot' = NoRotation /\ rotating' = FALSE
  /\ ready' = IF current # None /\ health[current] = "dead" /\ rot.gen = gen
              THEN FALSE ELSE ready
  /\ UNCHANGED <<gen, list, on, current, client, fails, tried, health, admin, task, boundVars>>

ThrottleEnds == /\ tried /\ tried' = FALSE
                /\ UNCHANGED <<gen, list, on, current, client, ready, fails, rotating,
                               health, admin, task, rot, boundVars>>

HealthTurns ==
  /\ turns < MaxTurns
  /\ turns' = turns + 1
  /\ \E p \in Proxies, h \in {"ok", "blocked", "dead"} :
       h # health[p] /\ health' = [health EXCEPT ![p] = h]
  /\ UNCHANGED <<switchVars, admin, task, rot, updates, calls>>

---------------------------------------------------------------------------
\* ProxyManager::new and start-up: the saved settings are configured before the
\* first request, and spawn_initial_resolve makes direct mode ready.
Init == /\ gen = 1 /\ on \in BOOLEAN
        /\ list \in Lists /\ current = None /\ client = Direct
        /\ ready = ~on /\ fails = 0 /\ tried = FALSE /\ rotating = FALSE
        /\ health = [p \in Proxies |-> "ok"]
        /\ admin = NoUpdate
        /\ task = [t \in Tasks |-> Rest("idle")]
        /\ rot = NoRotation
        /\ updates = 0 /\ calls = 0 /\ turns = 0

Steps(t) == \/ ReadEnabled(t) \/ ReadReady(t) \/ ReadList(t) \/ GetWorkingProxy(t) \/ SwapTo(t)
            \/ ReadClient(t) \/ Refuse(t) \/ AuthClient(t) \/ ReplaceAuth(t)
            \/ NoteSuccess(t) \/ NoteFailure(t) \/ Leave(t)
Configuring == ConfigureBegin \/ ConfigureList \/ ConfigureEnable \/ ConfigureReady
Rotation == RotatePick \/ RotateSwap \/ RotateCheck
Next == \/ UpdateProxies \/ Configuring \/ Rotation
        \/ \E t \in Tasks : Call(t) \/ Steps(t)
        \/ ThrottleEnds \/ HealthTurns

Spec == Init /\ [][Next]_vars

---------------------------------------------------------------------------
TypeOK == /\ gen \in Nat /\ list \in Lists /\ on \in BOOLEAN
          /\ current \in Proxies \cup {None} /\ client \in Proxies \cup {Direct}
          /\ ready \in BOOLEAN /\ fails \in 0..(FailLimit - 1)
          /\ tried \in BOOLEAN /\ rotating \in BOOLEAN
          /\ rot.pc \in {"none", "pick", "swap", "check"}
          /\ \A t \in Tasks : task[t].got \in Proxies \cup {Direct, None}

\* Whatever probes and rotations finish late, the current proxy is one of the
\* configured list, and the stored client goes through it.
CurrentListed ==
  Unlocked => IF current = None THEN client = Direct
              ELSE current \in Elements(list) /\ client = current

\* In proxy mode, ready means that there is a proxy to use: a result for an earlier
\* configuration never makes the direct client look ready.
ReadyIsProxied == Unlocked /\ on /\ ready => current # None

\* The flag that refuses another rotation is set exactly while one is under way:
\* no path, a refused swap included, leaves it behind and ends rotation for good.
FlagOwned == rotating <=> rot.pc # "none"

=============================================================================
