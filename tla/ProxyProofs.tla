---------------------------- MODULE ProxyProofs ----------------------------
(***************************************************************************)
(* The egress of ProxyManager, checked by TLAPS for any number of callers, *)
(* accounts and instances and any proxy lists: the shared client and its   *)
(* switch (ProxySwitch), and the proxy of each account (ProxyRoutes).      *)
(***************************************************************************)
EXTENDS ProxySwitch, TLAPS

CONSTANTS Inst, Accounts, RouteProxies, RouteLists, MaxOps, MaxFails
VARIABLES onAt, listOf, bind, verified, failures, avoided, failed, row, shared, job,
          due, routeHealth, ops, routeFails, routeTurns
Via == INSTANCE ProxyRoutes WITH
  Proxies <- RouteProxies, Lists <- RouteLists, on <- onAt, list <- listOf,
  health <- routeHealth, fails <- routeFails, turns <- routeTurns

---------------------------------------------------------------------------
(* The shared client *)

\* Parameters: lists are sequences of proxies, and no proxy is called "direct" or "none".
Parameters == /\ Lists \subseteq Seq(Proxies)
              /\ Direct \notin Proxies /\ None \notin Proxies

TaskPc == {"idle", "enabled", "ready", "list", "probe", "swap", "client", "fallback",
           "auth", "replace", "done"}

TaskRec == [pc : TaskPc, kind : {"api", "auth", "replace"}, gen : Nat,
            got : Proxies \cup {Direct, None}]
USE DEF TaskRec

SwitchTyped ==
  /\ gen \in Nat /\ list \in Lists /\ on \in BOOLEAN
  /\ ready \in BOOLEAN /\ rotating \in BOOLEAN
  /\ current \in Proxies \cup {None}
  /\ task \in [Tasks -> TaskRec]
  /\ rot \in [pc : {"none", "pick", "swap", "check"}, gen : Nat, got : Proxies \cup {None}]
  /\ admin \in [pc : {"none", "saved", "list", "enable", "ready"}, on : BOOLEAN,
                list : Lists \cup {<< >>}]
  /\ admin.pc # "none" => admin.list \in Lists

\* A probe's result is tagged with a generation: while configure waits to write the list
\* no result carries the new one, and afterwards those that do are of the new list.
TaskTagged(t) ==
  /\ task[t].gen =< gen
  /\ admin.pc = "list" /\ task[t].pc \in {"probe", "swap"} => task[t].gen # gen
  /\ task[t].pc = "swap" /\ task[t].gen = gen => task[t].got \in Elements(list)
RotationTagged ==
  /\ rot.gen =< gen
  /\ admin.pc = "list" /\ rot.pc = "swap" => rot.gen # gen
  /\ rot.pc = "swap" /\ rot.gen = gen => rot.got \in Elements(list)

\* CurrentListed, under the lock as well.
AlwaysListed == IF current = None THEN client = Direct
                ELSE current \in Elements(list) /\ client = current

\* The last store of configure is about the flag the one before it wrote.
FlagWritten == admin.pc = "ready" => on = admin.on

SwitchInv == /\ SwitchTyped
             /\ \A t \in Tasks : TaskTagged(t)
             /\ RotationTagged
             /\ AlwaysListed /\ FlagWritten /\ ReadyIsProxied /\ FlagOwned

LEMMA SwitchInit ==
  ASSUME Parameters, Init
  PROVE  SwitchInv
<1>1. SwitchTyped
  <2>1. ready \in BOOLEAN /\ rotating \in BOOLEAN
    BY Zenon DEF Init
  <2>2. rot \in [pc : {"none", "pick", "swap", "check"}, gen : Nat, got : Proxies \cup {None}]
    BY DEF Init, NoRotation
  <2>3. task \in [Tasks -> TaskRec]
    BY DEF Init, Rest, TaskPc
  <2>4. /\ admin \in [pc : {"none", "saved", "list", "enable", "ready"}, on : BOOLEAN,
                       list : Lists \cup {<< >>}]
        /\ admin.pc = "none"
    BY DEF Init, NoUpdate
  <2> QED
    BY <2>1, <2>2, <2>3, <2>4 DEF Init, SwitchTyped
<1>2. \A t \in Tasks : TaskTagged(t)
  BY DEF Init, TaskTagged, Rest, NoUpdate
<1>3. RotationTagged /\ AlwaysListed /\ FlagWritten
  BY DEF Init, RotationTagged, AlwaysListed, FlagWritten, NoRotation, NoUpdate
<1>4. ReadyIsProxied
  BY Zenon DEF Init, ReadyIsProxied
<1>5. FlagOwned
  BY DEF Init, FlagOwned, NoRotation
<1> QED
  BY <1>1, <1>2, <1>3, <1>4, <1>5 DEF SwitchInv

\* The proxies of the list are proxies, and none of them is None.
LEMMA ListedIsProxy ==
  ASSUME Parameters, NEW l \in Lists, NEW p \in Elements(l)
  PROVE  p \in Proxies /\ p # None
BY DEF Parameters, Proxies

\* rotate wraps around the list and stays on it.
LEMMA AfterListed ==
  ASSUME Parameters, list \in Lists, list # << >>, NEW p
  PROVE  After(p) \in Elements(list)
<1>1. list \in Seq(Proxies) /\ Len(list) \in Nat /\ Len(list) > 0
  BY DEF Parameters
<1>2. CASE \E k \in 1..Len(list) : list[k] = p
  <2> DEFINE at == CHOOSE k \in 1..Len(list) : list[k] = p
  <2>1. at \in 1..Len(list)
    BY <1>2
  <2> HIDE DEF at
  <2>2. (at % Len(list)) + 1 \in 1..Len(list)
    BY <1>1, <2>1
  <2>3. After(p) = list[(at % Len(list)) + 1]
    BY <1>2 DEF After, at
  <2> QED
    BY <2>2, <2>3 DEF Elements
<1>3. CASE ~\E k \in 1..Len(list) : list[k] = p
  <2>1. After(p) = list[1]
    BY <1>3 DEF After
  <2> QED
    BY <1>1, <2>1 DEF Elements
<1> QED
  BY <1>2, <1>3

\* A caller that goes to read the list takes the generation with it.
LEMMA RelistTyped ==
  ASSUME NEW x \in TaskRec, NEW g \in Nat, NEW p \in Proxies \cup {Direct, None}
  PROVE  LET r == [x EXCEPT !.pc = "list", !.gen = g, !.got = p]
         IN  r \in TaskRec /\ r.gen = g /\ r.pc = "list"
<1> DEFINE r == [x EXCEPT !.pc = "list", !.gen = g, !.got = p]
<1>1. r \in TaskRec
  BY DEF TaskPc
<1>2. r.gen = g
  OBVIOUS
<1>3. r.pc = "list"
  OBVIOUS
<1> QED
  BY <1>1, <1>2, <1>3

\* Only configured proxies are candidates of a probe.
LEMMA FoundListed ==
  ASSUME NEW avoid, NEW S \in Candidates(avoid), NEW p \in Found(S), p # None
  PROVE  p \in Elements(list)
BY DEF Candidates, Found

----------------------------------------------------------------------------
(* The owner *)

LEMMA OwnerKeeps ==
  ASSUME Parameters, SwitchInv, UpdateProxies \/ Configuring
  PROVE  SwitchInv'
<1> USE DEF SwitchInv
<1>1. CASE UpdateProxies
  <2>1. /\ UNCHANGED <<gen, list, on, current, client, ready, rotating, task, rot>>
        /\ admin.pc = "none" /\ admin'.pc = "saved"
        /\ admin' \in [pc : {"saved"}, on : BOOLEAN, list : Lists]
    BY <1>1 DEF UpdateProxies, switchVars
  <2>2. SwitchTyped'
    BY <2>1 DEF SwitchTyped
  <2> QED
    BY <2>1, <2>2 DEF TaskTagged, RotationTagged, AlwaysListed, FlagWritten,
                      ReadyIsProxied, FlagOwned, Unlocked
<1>2. CASE ConfigureBegin
  <2>1. /\ gen' = gen + 1 /\ admin.pc = "saved" /\ admin' = [admin EXCEPT !.pc = "list"]
        /\ UNCHANGED <<list, on, current, client, ready, rotating, task, rot>>
    BY <1>2 DEF ConfigureBegin
  <2>2. SwitchTyped' /\ admin'.pc = "list"
    BY <2>1 DEF SwitchTyped
  <2>3. /\ \A t \in Tasks : task'[t].gen =< gen' /\ task'[t].gen # gen'
        /\ rot'.gen =< gen' /\ rot'.gen # gen'
    BY <2>1 DEF SwitchTyped, TaskTagged, RotationTagged
  <2>4. (\A t \in Tasks : TaskTagged(t))' /\ RotationTagged'
    BY <2>3 DEF TaskTagged, RotationTagged
  <2> QED
    BY <2>1, <2>2, <2>4 DEF AlwaysListed, FlagWritten, ReadyIsProxied, FlagOwned, Unlocked
<1>3. CASE ConfigureList
  <2>1. /\ admin.pc = "list" /\ admin' = [admin EXCEPT !.pc = "enable"]
        /\ \A t \in Tasks : task[t].pc # "probe"
        /\ list' = admin.list /\ current' = None /\ client' = Direct
        /\ UNCHANGED <<gen, on, ready, rotating, task, rot>>
    BY <1>3 DEF ConfigureList, Probing
  <2>2. SwitchTyped' /\ admin'.pc = "enable"
    BY <2>1 DEF SwitchTyped
  <2>3. (\A t \in Tasks : TaskTagged(t))' /\ RotationTagged'
    BY <2>1, <2>2 DEF TaskTagged, RotationTagged
  <2> QED
    BY <2>1, <2>2, <2>3 DEF AlwaysListed, FlagWritten, ReadyIsProxied, FlagOwned, Unlocked
<1>4. CASE ConfigureEnable
  <2>1. /\ admin.pc = "enable" /\ admin' = [admin EXCEPT !.pc = "ready"]
        /\ on' = admin.on
        /\ UNCHANGED <<gen, list, current, client, ready, rotating, task, rot>>
    BY <1>4 DEF ConfigureEnable
  <2>2. SwitchTyped' /\ admin'.pc = "ready" /\ admin'.on = admin.on
    BY <2>1 DEF SwitchTyped
  <2> QED
    BY <2>1, <2>2 DEF TaskTagged, RotationTagged, AlwaysListed, FlagWritten,
                      ReadyIsProxied, FlagOwned, Unlocked
<1>5. CASE ConfigureReady
  <2>1. /\ admin.pc = "ready" /\ admin' = NoUpdate /\ ready' = ~admin.on
        /\ UNCHANGED <<gen, list, on, current, client, rotating, task, rot>>
    BY <1>5 DEF ConfigureReady
  <2>2. on = admin.on
    BY <2>1 DEF FlagWritten
  <2>3. SwitchTyped' /\ admin'.pc = "none"
    BY <2>1 DEF SwitchTyped, NoUpdate
  <2>4. ReadyIsProxied'
    BY <2>1, <2>2 DEF ReadyIsProxied
  <2> QED
    BY <2>1, <2>3, <2>4 DEF TaskTagged, RotationTagged, AlwaysListed, FlagWritten, FlagOwned
<1> QED
  BY <1>1, <1>2, <1>3, <1>4, <1>5 DEF Configuring

----------------------------------------------------------------------------
(* The callers *)

\* A caller's step that moves neither the switch, nor into a probe or a swap.
LEMMA PlainStepKeeps ==
  ASSUME Parameters, SwitchInv, NEW t \in Tasks,
         NEW r \in TaskRec, r.pc \notin {"probe", "swap"},
         task' = [task EXCEPT ![t] = r],
         r.gen =< gen,
         UNCHANGED <<gen, list, on, current, client, admin>>,
         ready' = ready \/ ready' = FALSE,
         UNCHANGED <<rotating, rot>>
  PROVE  SwitchInv'
<1> USE DEF SwitchInv
<1>1. SwitchTyped'
  BY DEF SwitchTyped
<1>2. (\A u \in Tasks : TaskTagged(u))'
  BY DEF TaskTagged, SwitchTyped
<1> QED
  BY <1>1, <1>2 DEF RotationTagged, AlwaysListed, FlagWritten, ReadyIsProxied, FlagOwned, Unlocked

\* Asking the switch, the current proxy or the stored client changes nothing but the
\* caller, and leaving a proxy only makes the switch unready.
LEMMA ReadingKeeps ==
  ASSUME Parameters, SwitchInv, NEW t \in Tasks,
         \/ Call(t) \/ ReadEnabled(t) \/ ReadClient(t) \/ Refuse(t) \/ AuthClient(t)
         \/ ReplaceAuth(t) \/ NoteSuccess(t) \/ Leave(t)
  PROVE  SwitchInv'
<1> DEFINE Plain == {r \in TaskRec : r.pc \notin {"probe", "swap"}}
<1> USE DEF SwitchInv, switchVars, boundVars
<1>1. /\ task[t] \in TaskRec
      /\ task[t].gen =< gen /\ gen \in Nat
      /\ current \in Proxies \cup {Direct, None} /\ client \in Proxies \cup {Direct, None}
  BY DEF SwitchTyped, TaskTagged, AlwaysListed
<1>2. UNCHANGED <<gen, list, on, current, client, admin, rotating, rot>>
  BY DEF Call, ReadEnabled, ReadClient, Refuse, AuthClient, ReplaceAuth, NoteSuccess, Leave,
         Goto, Answer
<1>3. ready' = ready \/ ready' = FALSE
  BY DEF Call, ReadEnabled, ReadClient, Refuse, AuthClient, ReplaceAuth, NoteSuccess, Leave
<1>4. \E r \in Plain : r.gen =< gen /\ task' = [task EXCEPT ![t] = r]
  <2>1. CASE Call(t)
    <3>1. PICK k \in {"api", "auth", "replace"} :
            task' = [task EXCEPT ![t] = [pc |-> IF k = "replace" THEN "replace" ELSE "enabled",
                                         kind |-> k, gen |-> 0, got |-> None]]
      BY <2>1 DEF Call
    <3> DEFINE r == [pc |-> IF k = "replace" THEN "replace" ELSE "enabled",
                     kind |-> k, gen |-> 0, got |-> None]
    <3>2. r \in Plain /\ r.gen =< gen
      BY <1>1 DEF TaskPc
    <3> QED
      BY <3>1, <3>2
  <2>2. CASE NoteSuccess(t) \/ Leave(t)
    <3>1. Rest("idle") \in Plain /\ Rest("idle").gen =< gen
      BY <1>1 DEF Rest, TaskPc
    <3> QED
      BY <2>2, <3>1 DEF NoteSuccess, Leave
  <2>3. ASSUME NEW pc \in TaskPc \ {"probe", "swap"}, Goto(t, pc)
        PROVE  \E r \in Plain : r.gen =< gen /\ task' = [task EXCEPT ![t] = r]
    <3> DEFINE r == [task[t] EXCEPT !.pc = pc]
    <3>1. r \in Plain /\ r.gen =< gen
      BY <1>1
    <3> QED
      BY <2>3, <3>1 DEF Goto
  <2>4. ASSUME NEW c \in Proxies \cup {Direct, None}, Answer(t, c)
        PROVE  \E r \in Plain : r.gen =< gen /\ task' = [task EXCEPT ![t] = r]
    <3> DEFINE r == [task[t] EXCEPT !.pc = "done", !.got = c]
    <3>1. r \in Plain /\ r.gen =< gen
      BY <1>1 DEF TaskPc
    <3>2. task' = [task EXCEPT ![t] = r]
      BY <2>4 DEF Answer
    <3> QED
      BY <3>1, <3>2
  <2>5. CASE ReadEnabled(t)
    <3>1. Goto(t, "ready") \/ Goto(t, "auth") \/ Answer(t, Direct)
      BY <2>5 DEF ReadEnabled
    <3> QED
      BY <2>3, <2>4, <3>1 DEF TaskPc
  <2>6. CASE ReadClient(t)
    <3>1. Answer(t, client) \/ Answer(t, Direct) \/ Goto(t, "auth")
      BY <2>6 DEF ReadClient
    <3> QED
      BY <1>1, <2>3, <2>4, <3>1 DEF TaskPc
  <2>7. CASE Refuse(t)
    <3>1. Answer(t, None) \/ Answer(t, Direct) \/ Goto(t, "auth")
      BY <2>7 DEF Refuse
    <3> QED
      BY <2>3, <2>4, <3>1 DEF TaskPc
  <2>8. CASE AuthClient(t)
    <3>1. Answer(t, None) \/ Answer(t, Direct) \/ Answer(t, current)
      BY <2>8 DEF AuthClient
    <3> QED
      BY <1>1, <2>4, <3>1
  <2>9. CASE ReplaceAuth(t)
    <3>1. CASE ~on
      BY <2>4, <2>9, <3>1 DEF ReplaceAuth
    <3>2. CASE on
      <4> DEFINE r == [task[t] EXCEPT !.pc = "list", !.gen = gen, !.got = current]
      <4>1. r \in TaskRec /\ r.gen = gen /\ r.pc = "list"
        BY <1>1, RelistTyped
      <4>2. r \in Plain
        BY <4>1
      <4>3. r.gen =< gen
        BY <1>1, <4>1
      <4>4. task' = [task EXCEPT ![t] = r]
        BY <2>9, <3>2 DEF ReplaceAuth
      <4> QED
        BY <4>2, <4>3, <4>4
    <3> QED
      BY <3>1, <3>2
  <2> QED
    BY <2>1, <2>2, <2>5, <2>6, <2>7, <2>8, <2>9
<1> QED
  BY <1>2, <1>3, <1>4, PlainStepKeeps

\* The generation is read before the list, and the list is read while configure does
\* not wait for it: a probe starts under the generation it will be checked against.
LEMMA ProbingKeeps ==
  ASSUME Parameters, SwitchInv, NEW t \in Tasks,
         ReadReady(t) \/ ReadList(t) \/ GetWorkingProxy(t)
  PROVE  SwitchInv'
<1> USE DEF SwitchInv, switchVars, boundVars
<1>1. UNCHANGED <<gen, list, on, current, client, ready, admin, rotating, rot>>
  BY DEF ReadReady, ReadList, GetWorkingProxy
<1>2. RotationTagged' /\ AlwaysListed' /\ FlagWritten' /\ ReadyIsProxied' /\ FlagOwned'
  BY <1>1 DEF RotationTagged, AlwaysListed, FlagWritten, ReadyIsProxied, FlagOwned, Unlocked
<1>3. /\ task[t] \in TaskRec
      /\ gen \in Nat
  BY DEF SwitchTyped
<1>4. ASSUME NEW r \in TaskRec,
             task' = [task EXCEPT ![t] = r],
             r.gen =< gen,
             admin.pc = "list" /\ r.pc \in {"probe", "swap"} => r.gen # gen,
             r.pc = "swap" /\ r.gen = gen => r.got \in Elements(list)
      PROVE  SwitchInv'
  <2>1. SwitchTyped'
    BY <1>1, <1>4 DEF SwitchTyped
  <2>2. (\A u \in Tasks : TaskTagged(u))'
    BY <1>1, <1>4 DEF TaskTagged, SwitchTyped
  <2> QED
    BY <1>2, <2>1, <2>2
<1>5. CASE ReadReady(t)
  <2>1. CASE Goto(t, "client") \/ Goto(t, "fallback")
    <3>1. PICK pc \in {"client", "fallback"} : task' = [task EXCEPT ![t].pc = pc]
      BY <2>1 DEF Goto
    <3> DEFINE r == [task[t] EXCEPT !.pc = pc]
    <3>2. task' = [task EXCEPT ![t] = r]
      BY <3>1
    <3>3. r.gen =< gen
      BY <1>3 DEF TaskTagged
    <3> QED
      BY <1>3, <1>4, <3>2, <3>3 DEF TaskPc
  <2>2. CASE task' = [task EXCEPT ![t].pc = "list", ![t].gen = gen, ![t].got = None]
    <3> DEFINE r == [task[t] EXCEPT !.pc = "list", !.gen = gen, !.got = None]
    <3>1. task' = [task EXCEPT ![t] = r]
      BY <2>2
    <3>2. r \in TaskRec /\ r.gen = gen /\ r.pc = "list"
      BY <1>3, RelistTyped
    <3>3. r.gen =< gen
      BY <1>3, <3>2
    <3> QED
      BY <1>4, <3>1, <3>2, <3>3
  <2> QED
    BY <1>5, <2>1, <2>2 DEF ReadReady
<1>6. CASE ReadList(t)
  <2> DEFINE r == [task[t] EXCEPT !.pc = "probe"]
  <2>1. task' = [task EXCEPT ![t] = r] /\ admin.pc # "list"
    BY <1>6 DEF ReadList, Goto, Readable
  <2>2. r.gen =< gen
    BY <1>3 DEF TaskTagged
  <2> QED
    BY <1>3, <1>4, <2>1, <2>2 DEF TaskPc
<1>7. CASE GetWorkingProxy(t)
  <2>1. PICK S \in Candidates(task[t].got) : \E p \in Found(S) :
          task' = [task EXCEPT ![t].got = p, ![t].pc = IF p = None THEN "fallback" ELSE "swap"]
    BY <1>7 DEF GetWorkingProxy
  <2>2. PICK p \in Found(S) :
          task' = [task EXCEPT ![t].got = p, ![t].pc = IF p = None THEN "fallback" ELSE "swap"]
    BY <2>1
  <2> DEFINE r == [task[t] EXCEPT !.got = p, !.pc = IF p = None THEN "fallback" ELSE "swap"]
  <2>3. task' = [task EXCEPT ![t] = r]
    BY <2>2
  <2>4. p # None => p \in Elements(list) /\ p \in Proxies
    <3>1. list \in Lists
      BY DEF SwitchTyped
    <3> QED
      BY <3>1, FoundListed, ListedIsProxy
  <2>5. task[t].pc = "probe" /\ task[t].gen =< gen
        /\ (admin.pc = "list" => task[t].gen # gen)
    BY <1>7 DEF GetWorkingProxy, TaskTagged
  <2>6. r \in TaskRec
    BY <1>3, <2>4 DEF TaskPc
  <2>7. r.gen = task[t].gen /\ r.got = p /\ (r.pc = "swap" => p # None)
    BY <1>3
  <2> QED
    BY <1>4, <2>3, <2>4, <2>5, <2>6, <2>7
<1> QED
  BY <1>5, <1>6, <1>7

\* A result is installed only under the generation of its tag, and then it is listed.
LEMMA SwapKeeps ==
  ASSUME Parameters, SwitchInv, NEW t \in Tasks, SwapTo(t)
  PROVE  SwitchInv'
<1> USE DEF SwitchInv, switchVars, boundVars
<1>1. /\ task[t].pc = "swap" /\ Unlocked
      /\ UNCHANGED <<gen, list, on, admin, rotating, rot>>
  BY DEF SwapTo
<1>2. \E pc \in {"client", "auth", "enabled", "fallback"} : task' = [task EXCEPT ![t].pc = pc]
  BY DEF SwapTo, Goto
<1>3. SwitchTyped' /\ (\A u \in Tasks : TaskTagged(u))'
  <2>1. PICK pc \in {"client", "auth", "enabled", "fallback"} : task' = [task EXCEPT ![t].pc = pc]
    BY <1>2
  <2> DEFINE r == [task[t] EXCEPT !.pc = pc]
  <2>2. task' = [task EXCEPT ![t] = r]
    BY <2>1
  <2>3. r \in TaskRec /\ r.gen =< gen /\ r.pc = pc
    BY DEF SwitchTyped, TaskTagged, TaskPc
  <2>4. (\A u \in Tasks : TaskTagged(u))'
    BY <1>1, <2>2, <2>3 DEF TaskTagged, SwitchTyped
  <2>5. ready' \in BOOLEAN /\ current' \in Proxies \cup {None}
    <3>1. CASE MaySwap(task[t].gen)
      <4>1. task[t].got \in Elements(list) /\ list \in Lists
        BY <1>1, <3>1 DEF MaySwap, TaskTagged, SwitchTyped
      <4> QED
        BY <3>1, <4>1, ListedIsProxy DEF SwapTo, Installed
    <3>2. CASE ~MaySwap(task[t].gen)
      BY <3>2 DEF SwapTo, SwitchTyped
    <3> QED
      BY <3>1, <3>2
  <2> QED
    BY <1>1, <2>2, <2>3, <2>4, <2>5 DEF SwitchTyped
<1>4. AlwaysListed' /\ ReadyIsProxied'
  <2>1. CASE MaySwap(task[t].gen)
    <3>1. task[t].got \in Elements(list) /\ list \in Lists
      BY <1>1, <2>1 DEF MaySwap, TaskTagged, SwitchTyped
    <3>2. current' = task[t].got /\ client' = task[t].got /\ task[t].got # None
      BY <2>1, <3>1, ListedIsProxy DEF SwapTo, Installed
    <3> QED
      BY <1>1, <3>1, <3>2 DEF AlwaysListed, ReadyIsProxied
  <2>2. CASE ~MaySwap(task[t].gen)
    BY <1>1, <2>2 DEF SwapTo, AlwaysListed, ReadyIsProxied, Unlocked
  <2> QED
    BY <2>1, <2>2
<1> QED
  BY <1>1, <1>3, <1>4 DEF RotationTagged, FlagWritten, FlagOwned

----------------------------------------------------------------------------
(* The rotation *)

\* Reported failures start a rotation only when none runs.
LEMMA FailureKeeps ==
  ASSUME Parameters, SwitchInv, NEW t \in Tasks, NoteFailure(t)
  PROVE  SwitchInv'
<1> USE DEF SwitchInv, boundVars
<1>1. /\ task' = [task EXCEPT ![t] = Rest("idle")]
      /\ UNCHANGED <<gen, list, on, current, client, ready, admin>>
  BY DEF NoteFailure
<1>2. \/ UNCHANGED <<rotating, rot>>
      \/ /\ ~rotating /\ rotating' = TRUE
         /\ rot' = [pc |-> "pick", gen |-> 0, got |-> None]
  BY DEF NoteFailure, NoRotation
<1>3. SwitchTyped'
  <2>1. Rest("idle") \in TaskRec
    BY DEF Rest, TaskPc
  <2>2. task' \in [Tasks -> TaskRec]
    BY <1>1, <2>1 DEF SwitchTyped
  <2>3. rotating' \in BOOLEAN
    BY <1>2, Zenon DEF SwitchTyped
  <2>4. rot' \in [pc : {"none", "pick", "swap", "check"}, gen : Nat, got : Proxies \cup {None}]
    <3>1. CASE rot' = rot
      BY <3>1 DEF SwitchTyped
    <3>2. CASE rot' = [pc |-> "pick", gen |-> 0, got |-> None]
      BY <3>2
    <3> QED
      BY <1>2, <3>1, <3>2
  <2> QED
    BY <1>1, <2>2, <2>3, <2>4 DEF SwitchTyped
<1>4. (\A u \in Tasks : TaskTagged(u))'
  BY <1>1 DEF TaskTagged, SwitchTyped, Rest
<1>5. RotationTagged' /\ FlagOwned'
  BY <1>1, <1>2 DEF RotationTagged, FlagOwned, SwitchTyped
<1>6. AlwaysListed' /\ FlagWritten' /\ ReadyIsProxied'
  BY <1>1 DEF AlwaysListed, FlagWritten, ReadyIsProxied, Unlocked
<1> QED
  BY <1>3, <1>4, <1>5, <1>6

\* A rotation that ends takes its flag with it and leaves the rest, or only the
\* readiness, as it is.
LEMMA RotationEnds ==
  ASSUME Parameters, SwitchInv,
         rot' = NoRotation, rotating' = FALSE, ready' = ready \/ ready' = FALSE,
         UNCHANGED <<gen, list, on, current, client, task, admin>>
  PROVE  SwitchInv'
<1> USE DEF SwitchInv
<1>1. rot' \in [pc : {"none", "pick", "swap", "check"}, gen : Nat, got : Proxies \cup {None}]
  BY DEF NoRotation
<1>2. ready' \in BOOLEAN /\ rotating' \in BOOLEAN
  BY DEF SwitchTyped
<1>3. SwitchTyped'
  BY <1>1, <1>2 DEF SwitchTyped
<1>4. RotationTagged' /\ FlagOwned'
  BY DEF RotationTagged, FlagOwned, NoRotation, SwitchTyped
<1>5. (\A t \in Tasks : TaskTagged(t))' /\ AlwaysListed' /\ FlagWritten' /\ ReadyIsProxied'
  BY DEF TaskTagged, AlwaysListed, FlagWritten, ReadyIsProxied, Unlocked
<1> QED
  BY <1>3, <1>4, <1>5

\* A rotation ends with its flag, installs only under the generation it picked in, and
\* what it picked is listed.
LEMMA RotationKeeps ==
  ASSUME Parameters, SwitchInv, Rotation
  PROVE  SwitchInv'
<1> USE DEF SwitchInv, boundVars
<1>1. CASE RotatePick
  <2>1. /\ rot.pc = "pick" /\ admin.pc # "list"
        /\ UNCHANGED <<gen, list, on, current, client, task, admin>>
    BY <1>1 DEF RotatePick, Readable
  <2>2. (\A u \in Tasks : TaskTagged(u))' /\ AlwaysListed' /\ FlagWritten'
    BY <2>1 DEF TaskTagged, AlwaysListed, FlagWritten
  <2>3. CASE list = << >>
    <3>1. ready' = FALSE /\ rot' = NoRotation /\ rotating' = FALSE
      BY <1>1, <2>3 DEF RotatePick
    <3> QED
      BY <2>1, <2>2, <3>1, RotationEnds
  <2>4. CASE list # << >>
    <3>1. /\ rot' = [pc |-> "swap", gen |-> gen, got |-> After(current)]
          /\ UNCHANGED <<ready, rotating>>
      BY <1>1, <2>4 DEF RotatePick
    <3>2. list \in Lists
      BY DEF SwitchTyped
    <3>3. After(current) \in Elements(list)
      BY <2>4, <3>2, AfterListed
    <3>4. After(current) \in Proxies
      BY <3>2, <3>3, ListedIsProxy
    <3>5. SwitchTyped'
      BY <2>1, <3>1, <3>4 DEF SwitchTyped
    <3>6. RotationTagged'
      BY <2>1, <3>1, <3>3 DEF RotationTagged, SwitchTyped
    <3> QED
      BY <2>1, <2>2, <3>1, <3>5, <3>6 DEF ReadyIsProxied, FlagOwned, Unlocked
  <2> QED
    BY <2>3, <2>4
<1>2. CASE RotateSwap
  <2>1. /\ rot.pc = "swap" /\ Unlocked
        /\ UNCHANGED <<gen, list, on, task, admin>>
    BY <1>2 DEF RotateSwap
  <2>2. (\A u \in Tasks : TaskTagged(u))' /\ FlagWritten'
    BY <2>1 DEF TaskTagged, FlagWritten
  <2>3. CASE MaySwap(rot.gen)
    <3>1. rot.got \in Elements(list) /\ list \in Lists
      BY <2>1, <2>3 DEF MaySwap, RotationTagged, SwitchTyped
    <3>2. rot.got \in Proxies /\ rot.got # None
      BY <3>1, ListedIsProxy
    <3>3. /\ current' = rot.got /\ client' = rot.got /\ ready' = TRUE
          /\ rot' = [rot EXCEPT !.pc = "check"] /\ UNCHANGED rotating
      BY <1>2, <2>3 DEF RotateSwap, Installed
    <3>4. SwitchTyped' /\ RotationTagged'
      BY <2>1, <3>2, <3>3 DEF SwitchTyped, RotationTagged
    <3>5. FlagOwned'
      BY <2>1, <3>3 DEF FlagOwned, SwitchTyped
    <3> QED
      BY <2>1, <2>2, <3>1, <3>2, <3>3, <3>4, <3>5 DEF AlwaysListed, ReadyIsProxied
  <2>4. CASE ~MaySwap(rot.gen)
    <3>1. /\ rot' = NoRotation /\ rotating' = FALSE
          /\ UNCHANGED <<current, client, ready>>
      BY <1>2, <2>4 DEF RotateSwap
    <3> QED
      BY <2>1, <3>1, RotationEnds
  <2> QED
    BY <2>3, <2>4
<1>3. CASE RotateCheck
  <2>1. /\ rot' = NoRotation /\ rotating' = FALSE
        /\ ready' = ready \/ ready' = FALSE
        /\ UNCHANGED <<gen, list, on, current, client, task, admin>>
    BY <1>3 DEF RotateCheck
  <2> QED
    BY <2>1, RotationEnds
<1> QED
  BY <1>1, <1>2, <1>3 DEF Rotation

----------------------------------------------------------------------------

LEMMA SwitchStep ==
  ASSUME Parameters, SwitchInv, [Next]_vars
  PROVE  SwitchInv'
<1>1. CASE UpdateProxies \/ Configuring
  BY <1>1, OwnerKeeps
<1>2. CASE Rotation
  BY <1>2, RotationKeeps
<1>3. ASSUME NEW t \in Tasks, Call(t) \/ Steps(t)
      PROVE  SwitchInv'
  BY <1>3, ReadingKeeps, ProbingKeeps, SwapKeeps, FailureKeeps DEF Steps
<1>4. CASE ThrottleEnds \/ HealthTurns \/ UNCHANGED vars
  <2>1. UNCHANGED <<gen, list, on, current, client, ready, rotating, admin, task, rot>>
    BY <1>4 DEF ThrottleEnds, HealthTurns, vars, switchVars, boundVars
  <2> QED
    BY <2>1 DEF SwitchInv, SwitchTyped, TaskTagged, RotationTagged, AlwaysListed, FlagWritten,
                ReadyIsProxied, FlagOwned, Unlocked
<1> QED
  BY <1>1, <1>2, <1>3, <1>4 DEF Next

\* However late a probe or a rotation that was started under another configuration ends,
\* the proxy in use is one of the configured list and the stored client goes through it
\* (swap_to compares the generation under switch_lock).
THEOREM OnlyListedProxies ==
  ASSUME Parameters
  PROVE  Spec => []CurrentListed
<1>1. Init => SwitchInv
  BY SwitchInit
<1>2. SwitchInv /\ [Next]_vars => SwitchInv'
  BY SwitchStep
<1>3. SwitchInv => CurrentListed
  BY DEF SwitchInv, AlwaysListed, CurrentListed
<1> QED
  BY <1>1, <1>2, <1>3, PTL DEF Spec

\* While proxies are enabled, "ready" means that there is a proxied client, so that no
\* request of the pool leaves from the server's own address.
THEOREM ReadyMeansProxied ==
  ASSUME Parameters
  PROVE  Spec => []ReadyIsProxied
<1>1. Init => SwitchInv
  BY SwitchInit
<1>2. SwitchInv /\ [Next]_vars => SwitchInv'
  BY SwitchStep
<1>3. SwitchInv => ReadyIsProxied
  BY DEF SwitchInv
<1> QED
  BY <1>1, <1>2, <1>3, PTL DEF Spec

\* The flag of a rotation is set exactly while one is under way: it is never left behind,
\* and no two rotations run side by side (note_failure, rotate).
THEOREM OneRotation ==
  ASSUME Parameters
  PROVE  Spec => []FlagOwned
<1>1. Init => SwitchInv
  BY SwitchInit
<1>2. SwitchInv /\ [Next]_vars => SwitchInv'
  BY SwitchStep
<1>3. SwitchInv => FlagOwned
  BY DEF SwitchInv
<1> QED
  BY <1>1, <1>2, <1>3, PTL DEF Spec

---------------------------------------------------------------------------
(* The proxy of each account *)

\* Parameters of the routes: lists are sets of proxies, and no proxy is called "none".
RouteParameters == /\ RouteLists \subseteq SUBSET RouteProxies
                   /\ Via!None \notin RouteProxies
                   /\ Accounts # {}

JobRec == [pc : {"idle", "choose", "publish", "sync", "clear", "configure", "balance"},
           acc : Accounts, todo : SUBSET Accounts, fallback : Via!MaybeProxy,
           got : [Accounts -> Via!MaybeProxy]]

\* Memory and rows: every bound proxy is listed, and the row says the same.
BindingsOK == /\ listOf \in [Inst -> RouteLists]
              /\ bind \in [Inst -> [Accounts -> Via!MaybeProxy]]
              /\ row \in [Inst -> [Accounts -> Via!MaybeProxy]]
              /\ Via!BoundListed
              /\ Via!RowFollows

\* The holder of switch_lock falls back, if at all, to a proxy of the list: configure
\* waits for the lock, so the list is the one the holder began with.
JobsOK == /\ shared \in [Accounts -> Via!MaybeProxy]
          /\ job \in [Inst -> JobRec]
          /\ \A i \in Inst : job[i].fallback \in listOf[i] \cup {Via!None}

RouteInv == BindingsOK /\ JobsOK

LEMMA IdleJob ==
  ASSUME RouteParameters
  PROVE  Via!Idle \in JobRec /\ Via!Idle.fallback = Via!None /\ Via!Idle.pc = "idle"
<1>1. Via!AnyAcc \in Accounts
  BY DEF RouteParameters, Via!AnyAcc
<1> QED
  BY <1>1 DEF Via!Idle, JobRec, Via!MaybeProxy

\* An instance's job becomes one that falls back to nothing outside its list.
LEMMA JobMoves ==
  ASSUME RouteParameters, RouteInv, NEW i \in Inst,
         NEW n \in JobRec, n.fallback \in listOf[i] \cup {Via!None},
         job' = [job EXCEPT ![i] = n], listOf' = listOf,
         shared' \in [Accounts -> Via!MaybeProxy]
  PROVE  JobsOK'
<1>1. /\ job \in [Inst -> JobRec]
      /\ \A j \in Inst : job[j].fallback \in listOf[j] \cup {Via!None}
  BY DEF RouteInv, JobsOK
<1>2. job' \in [Inst -> JobRec]
  BY <1>1
<1>3. \A j \in Inst : job'[j] = IF j = i THEN n ELSE job[j]
  BY <1>1
<1>4. \A j \in Inst : job'[j].fallback \in listOf'[j] \cup {Via!None}
  BY <1>1, <1>3
<1> QED
  BY <1>2, <1>4 DEF JobsOK

\* assign writes memory and the row together.
LEMMA AssignKeeps ==
  ASSUME RouteParameters, BindingsOK, NEW i \in Inst, NEW a \in Accounts,
         NEW p \in listOf[i], NEW tested, Via!Assign(i, a, p, tested), listOf' = listOf
  PROVE  BindingsOK'
<1>1. p \in RouteProxies /\ p # Via!None
  BY DEF RouteParameters, BindingsOK
<1>2. /\ bind' = [bind EXCEPT ![i][a] = p]
      /\ row' = [row EXCEPT ![i][a] = p]
  BY DEF Via!Assign, Via!Upsert, BindingsOK
<1>3. /\ bind' \in [Inst -> [Accounts -> Via!MaybeProxy]]
      /\ row' \in [Inst -> [Accounts -> Via!MaybeProxy]]
  BY <1>1, <1>2 DEF BindingsOK, Via!MaybeProxy
<1>4. \A j \in Inst, b \in Accounts :
        /\ bind'[j][b] = IF j = i /\ b = a THEN p ELSE bind[j][b]
        /\ row'[j][b] = IF j = i /\ b = a THEN p ELSE row[j][b]
  BY <1>2 DEF BindingsOK
<1>5. Via!BoundListed /\ Via!RowFollows
  BY DEF BindingsOK
<1>6. Via!BoundListed'
  BY <1>4, <1>5 DEF Via!BoundListed
<1>7. Via!RowFollows'
  BY <1>4, <1>5 DEF Via!RowFollows
<1> QED
  BY <1>3, <1>6, <1>7 DEF BindingsOK

\* An account of one instance loses its binding, in memory or in both places.
LEMMA UnbindKeeps ==
  ASSUME RouteParameters, BindingsOK, NEW i \in Inst, NEW a \in Accounts,
         bind' = [bind EXCEPT ![i][a] = Via!None],
         row' = [row EXCEPT ![i][a] = Via!None] \/ row' = row,
         listOf' = listOf
  PROVE  BindingsOK'
<1>1. /\ bind' \in [Inst -> [Accounts -> Via!MaybeProxy]]
      /\ row' \in [Inst -> [Accounts -> Via!MaybeProxy]]
  <2>1. Via!None \in Via!MaybeProxy
    BY DEF Via!MaybeProxy
  <2>2. bind' \in [Inst -> [Accounts -> Via!MaybeProxy]]
    BY <2>1 DEF BindingsOK
  <2>3. CASE row' = row
    BY <2>2, <2>3 DEF BindingsOK
  <2>4. CASE row' = [row EXCEPT ![i][a] = Via!None]
    BY <2>1, <2>2, <2>4 DEF BindingsOK
  <2> QED
    BY <2>3, <2>4
<1>2. \A j \in Inst, b \in Accounts :
        /\ bind'[j][b] = IF j = i /\ b = a THEN Via!None ELSE bind[j][b]
        /\ ~(j = i /\ b = a) => row'[j][b] = row[j][b]
  BY DEF BindingsOK
<1>3. Via!BoundListed' /\ Via!RowFollows'
  BY <1>2 DEF BindingsOK, Via!BoundListed, Via!RowFollows
<1> QED
  BY <1>1, <1>3 DEF BindingsOK

LEMMA SameBindings ==
  ASSUME BindingsOK, UNCHANGED <<listOf, bind, row>>
  PROVE  BindingsOK'
BY DEF BindingsOK, Via!BoundListed, Via!RowFollows

LEMMA SameJobs ==
  ASSUME RouteInv, UNCHANGED <<listOf, job, shared>>
  PROVE  JobsOK'
BY DEF RouteInv, JobsOK

\* The steps of the holder of switch_lock.
LEMMA LockedKeeps ==
  ASSUME RouteParameters, RouteInv, NEW i \in Inst, Via!Locked(i)
  PROVE  RouteInv'
<1> DEFINE q == job[i]
<1>0. /\ q \in JobRec /\ q.fallback \in listOf[i] \cup {Via!None}
      /\ job \in [Inst -> JobRec] /\ shared \in [Accounts -> Via!MaybeProxy]
      /\ bind \in [Inst -> [Accounts -> Via!MaybeProxy]]
      /\ BindingsOK /\ listOf[i] \subseteq RouteProxies
  BY DEF RouteInv, JobsOK, BindingsOK, RouteParameters
<1>1. CASE Via!Publish(i)
  <2>1. /\ shared' = [shared EXCEPT ![q.acc] = bind[i][q.acc]]
        /\ UNCHANGED <<listOf, bind, row>>
    BY <1>1 DEF Via!Publish, Via!routeVars
  <2>2. shared' \in [Accounts -> Via!MaybeProxy]
    <3>1. q.acc \in Accounts
      BY <1>0 DEF JobRec
    <3> QED
      BY <1>0, <2>1, <3>1
  <2>3. \E n \in JobRec : n.fallback \in listOf[i] \cup {Via!None} /\ job' = [job EXCEPT ![i] = n]
    <3>1. CASE q.todo = {}
      BY <1>1, <3>1, IdleJob DEF Via!Publish, Via!Finish
    <3>2. CASE q.todo # {}
      <4>1. job' = [job EXCEPT ![i] = [q EXCEPT !.pc = "sync"]]
        BY <1>0, <1>1, <3>2 DEF Via!Publish
      <4>2. /\ [q EXCEPT !.pc = "sync"] \in JobRec
            /\ [q EXCEPT !.pc = "sync"].fallback = q.fallback
        BY <1>0 DEF JobRec
      <4> QED
        BY <1>0, <4>1, <4>2
    <3> QED
      BY <3>1, <3>2
  <2> QED
    BY <1>0, <2>1, <2>2, <2>3, JobMoves, SameBindings DEF RouteInv
<1>2. CASE Via!Choose(i)
  <2> DEFINE a == q.acc
             ok == {p \in listOf[i] : routeHealth[i][p] = "ok"}
             blocked == {p \in listOf[i] : routeHealth[i][p] = "blocked"}
             refused == IF q.fallback # Via!None THEN {q.fallback} ELSE Via!Best(i, a, blocked)
  <2>1. a \in Accounts
    BY <1>0 DEF JobRec
  <2>2. /\ ok \subseteq listOf[i] /\ Via!Best(i, a, ok) \subseteq listOf[i]
        /\ refused \subseteq listOf[i]
    <3>1. Via!Best(i, a, ok) \subseteq ok /\ Via!Best(i, a, blocked) \subseteq blocked
      BY DEF Via!Best
    <3> QED
      BY <1>0, <3>1
  <2>3. /\ UNCHANGED <<listOf, shared>>
        /\ IF ok \cup refused = {}
           THEN Via!Finish(i) /\ UNCHANGED <<bind, row>>
           ELSE /\ \E p \in IF ok # {} THEN Via!Best(i, a, ok) ELSE refused :
                     Via!Assign(i, a, p, TRUE)
                /\ job' = [job EXCEPT ![i].pc = "publish"]
    BY <1>2 DEF Via!Choose
  <2> HIDE DEF ok, refused
  <2>4. CASE Via!Finish(i) /\ UNCHANGED <<bind, row>>
    BY <1>0, <2>3, <2>4, IdleJob, JobMoves, SameBindings DEF Via!Finish, RouteInv
  <2>5. CASE /\ \E p \in listOf[i] : Via!Assign(i, a, p, TRUE)
             /\ job' = [job EXCEPT ![i].pc = "publish"]
    <3>1. job' = [job EXCEPT ![i] = [q EXCEPT !.pc = "publish"]]
      BY <1>0, <2>5
    <3>2. /\ [q EXCEPT !.pc = "publish"] \in JobRec
          /\ [q EXCEPT !.pc = "publish"].fallback = q.fallback
      BY <1>0 DEF JobRec
    <3>3. JobsOK'
      <4> DEFINE n == [q EXCEPT !.pc = "publish"]
      <4>1. n \in JobRec /\ n.fallback \in listOf[i] \cup {Via!None} /\ job' = [job EXCEPT ![i] = n]
        BY <1>0, <3>1, <3>2
      <4> HIDE DEF n
      <4> QED
        BY <1>0, <2>3, <4>1, JobMoves
    <3>4. BindingsOK'
      <4>1. PICK p \in listOf[i] : Via!Assign(i, a, p, TRUE)
        BY <2>5
      <4> HIDE DEF a
      <4> QED
        BY <1>0, <2>1, <2>3, <4>1, AssignKeeps
    <3> QED
      BY <3>3, <3>4 DEF RouteInv
  <2> QED
    BY <2>2, <2>3, <2>4, <2>5
<1>3. CASE Via!Clear(i)
  <2>1. PICK a \in q.todo : /\ shared' = [shared EXCEPT ![a] = Via!None]
                            /\ job' = [job EXCEPT ![i].todo = @ \ {a}]
    BY <1>3 DEF Via!Clear
  <2>2. UNCHANGED <<listOf, bind, row>>
    BY <1>3 DEF Via!Clear, Via!routeVars
  <2>3. shared' \in [Accounts -> Via!MaybeProxy]
    BY <1>0, <2>1 DEF Via!MaybeProxy
  <2> DEFINE n == [q EXCEPT !.todo = @ \ {a}]
  <2>4. n \in JobRec /\ n.fallback \in listOf[i] \cup {Via!None} /\ job' = [job EXCEPT ![i] = n]
    BY <1>0, <2>1 DEF JobRec
  <2> HIDE DEF n
  <2> QED
    BY <1>0, <2>2, <2>3, <2>4, JobMoves, SameBindings DEF RouteInv
<1>4. CASE Via!Cleared(i)
  <2>1. UNCHANGED <<listOf, bind, row, shared>>
    BY <1>4 DEF Via!Cleared, Via!routeVars
  <2> DEFINE n == [q EXCEPT !.pc = "balance"]
  <2>2. n \in JobRec /\ n.fallback \in listOf[i] \cup {Via!None}
    BY <1>0 DEF JobRec
  <2>3. job' = [job EXCEPT ![i] = Via!Idle] \/ job' = [job EXCEPT ![i] = n]
    BY <1>0, <1>4 DEF Via!Cleared, Via!Finish
  <2>4. shared' \in [Accounts -> Via!MaybeProxy] /\ listOf' = listOf
    BY <1>0, <2>1
  <2> HIDE DEF n
  <2>5. JobsOK'
    BY <2>2, <2>3, <2>4, IdleJob, JobMoves
  <2> QED
    BY <1>0, <2>1, <2>5, SameBindings DEF RouteInv
<1>5. CASE Via!Rebalance(i)
  <2>1. CASE Via!Movable(i) = {}
    <3>1. job' = [job EXCEPT ![i] = Via!Idle] /\ UNCHANGED <<listOf, bind, row, shared>>
      BY <1>5, <2>1 DEF Via!Rebalance, Via!Finish, Via!routeVars
    <3>2. shared' \in [Accounts -> Via!MaybeProxy] /\ listOf' = listOf
      BY <1>0, <3>1
    <3> QED
      BY <1>0, <3>1, <3>2, IdleJob, JobMoves, SameBindings DEF RouteInv
  <2>2. CASE Via!Movable(i) # {}
    <3>1. PICK m \in Via!Movable(i) : /\ Via!Assign(i, m[1], m[2], TRUE)
                                  /\ shared' = [shared EXCEPT ![m[1]] = m[2]]
                                  /\ UNCHANGED job
      BY <1>5, <2>2 DEF Via!Rebalance
    <3>2. m[1] \in Accounts /\ m[2] \in listOf[i]
      BY DEF Via!Movable
    <3>3. listOf' = listOf
      BY <1>5 DEF Via!Rebalance
    <3>4. BindingsOK'
      BY <1>0, <3>1, <3>2, <3>3, AssignKeeps
    <3>5. shared' \in [Accounts -> Via!MaybeProxy]
      BY <1>0, <3>1, <3>2 DEF Via!MaybeProxy
    <3> QED
      BY <3>1, <3>3, <3>4, <3>5 DEF RouteInv, JobsOK
  <2> QED
    BY <2>1, <2>2
<1>6. CASE Via!SyncOne(i)
  <2>1. PICK a \in q.todo :
          LET what == Via!Reconcile(i, a, q.got[a])
              rest == q.todo \ {a}
              next == IF rest = {} THEN Via!Idle ELSE [q EXCEPT !.todo = rest]
          IN  \/ /\ what = "keep"
                 /\ job' = [job EXCEPT ![i] = next]
                 /\ UNCHANGED <<Via!routeVars, shared>>
              \/ /\ what = "publish"
                 /\ shared' = [shared EXCEPT ![a] = IF @ = Via!None THEN bind[i][a] ELSE @]
                 /\ job' = [job EXCEPT ![i] = next]
                 /\ UNCHANGED Via!routeVars
              \/ /\ what \in {"adopt", "offer"}
                 /\ IF what = "adopt" THEN Via!Assign(i, a, q.got[a], FALSE)
                    ELSE UNCHANGED Via!routeVars
                 /\ job' = [job EXCEPT ![i].pc = "publish", ![i].acc = a, ![i].todo = rest]
                 /\ UNCHANGED shared
    BY <1>6 DEF Via!SyncOne
  <2>2. listOf' = listOf /\ a \in Accounts
    BY <1>0, <1>6 DEF Via!SyncOne, JobRec
  <2> DEFINE rest == q.todo \ {a}
             on1 == [q EXCEPT !.todo = rest]
             pub == [q EXCEPT !.pc = "publish", !.acc = a, !.todo = rest]
             what == Via!Reconcile(i, a, q.got[a])
  <2>3. /\ on1 \in JobRec /\ on1.fallback \in listOf[i] \cup {Via!None}
        /\ pub \in JobRec /\ pub.fallback \in listOf[i] \cup {Via!None}
    BY <1>0, <2>2 DEF JobRec
  <2>4. \/ job' = [job EXCEPT ![i] = Via!Idle]
        \/ job' = [job EXCEPT ![i] = on1]
        \/ job' = [job EXCEPT ![i] = pub]
    <3>1. \/ job' = [job EXCEPT ![i] = Via!Idle]
          \/ job' = [job EXCEPT ![i] = on1]
          \/ job' = [job EXCEPT ![i].pc = "publish", ![i].acc = a, ![i].todo = rest]
      BY <2>1
    <3>2. job' = [job EXCEPT ![i].pc = "publish", ![i].acc = a, ![i].todo = rest]
            => job' = [job EXCEPT ![i] = pub]
      BY <1>0
    <3> QED
      BY <3>1, <3>2
  <2>5. shared' \in [Accounts -> Via!MaybeProxy]
    <3>1. \/ shared' = shared
          \/ shared' = [shared EXCEPT ![a] = IF @ = Via!None THEN bind[i][a] ELSE @]
      BY <2>1
    <3>2. bind[i][a] \in Via!MaybeProxy
      BY <1>0, <2>2
    <3> QED
      BY <1>0, <3>1, <3>2
  <2>6. UNCHANGED <<bind, row>> \/ (what = "adopt" /\ Via!Assign(i, a, q.got[a], FALSE))
    BY <2>1 DEF Via!routeVars
  <2>7. what = "adopt" => q.got[a] \in listOf[i]
    BY DEF Via!Reconcile
  <2> HIDE DEF on1, pub, what
  <2>8. JobsOK'
    BY <2>2, <2>3, <2>4, <2>5, IdleJob, JobMoves
  <2>9. BindingsOK'
    <3>1. CASE UNCHANGED <<bind, row>>
      BY <1>0, <2>2, <3>1, SameBindings
    <3>2. CASE what = "adopt" /\ Via!Assign(i, a, q.got[a], FALSE)
      <4> DEFINE p == q.got[a]
      <4>1. p \in listOf[i] /\ Via!Assign(i, a, p, FALSE)
        BY <2>7, <3>2
      <4> HIDE DEF p
      <4> QED
        BY <1>0, <2>2, <4>1, AssignKeeps
    <3> QED
      BY <2>6, <3>1, <3>2
  <2> QED
    BY <2>8, <2>9 DEF RouteInv
<1> QED
  BY <1>1, <1>2, <1>3, <1>4, <1>5, <1>6 DEF Via!Locked

\* The steps about one account that begin a job, or touch no binding.
LEMMA AccountStepKeeps ==
  ASSUME RouteParameters, RouteInv, NEW i \in Inst, NEW a \in Accounts,
         \/ Via!Request(i, a) \/ Via!RotateAccount(i, a)
         \/ Via!ForgetAccount(i, a) \/ Via!RetryDue(i, a)
  PROVE  RouteInv'
<1>0. /\ BindingsOK /\ listOf[i] \subseteq RouteProxies /\ bind[i][a] \in listOf[i] \cup {Via!None}
      /\ shared \in [Accounts -> Via!MaybeProxy]
  BY DEF RouteInv, JobsOK, BindingsOK, RouteParameters, Via!BoundListed
<1> DEFINE Chosen(f) == [Via!Idle EXCEPT !.pc = "choose", !.acc = a, !.fallback = f]
           clears == [Via!Idle EXCEPT !.pc = "clear", !.todo = {a}]
           begins == [Via!Idle EXCEPT !.pc = "choose", !.acc = a]
<1>1. \A f \in listOf[i] \cup {Via!None} :
        Chosen(f) \in JobRec /\ Chosen(f).fallback \in listOf[i] \cup {Via!None}
  BY <1>0, IdleJob DEF JobRec, Via!MaybeProxy
<1>2. clears \in JobRec /\ clears.fallback \in listOf[i] \cup {Via!None}
  BY IdleJob DEF JobRec
<1>3. begins \in JobRec /\ begins.fallback \in listOf[i] \cup {Via!None}
  BY IdleJob DEF JobRec
<1> HIDE DEF Chosen, clears, begins
<1>4. listOf' = listOf /\ shared' = shared
  BY DEF Via!Request, Via!UseBound, Via!Unbound, Via!NoteSuccessFor, Via!NoteFailureFor,
         Via!RotateAccount,
         Via!ForgetAccount, Via!RetryDue
<1>5. CASE Via!UseBound(i, a)
  <2> DEFINE f == IF routeHealth[i][bind[i][a]] = "blocked" THEN bind[i][a] ELSE Via!None
  <2>1. f \in listOf[i] \cup {Via!None}
    BY <1>0
  <2>2. /\ UNCHANGED row
        /\ bind' = bind \/ bind' = [bind EXCEPT ![i][a] = Via!None]
        /\ job' = job \/ job' = [job EXCEPT ![i] = Chosen(f)]
    BY <1>5 DEF Via!UseBound, Chosen
  <2> HIDE DEF f
  <2>3. BindingsOK'
    BY <1>0, <1>4, <2>2, UnbindKeeps, SameBindings
  <2>4. JobsOK'
    <3>1. CASE job' = job
      BY <1>4, <3>1, SameJobs
    <3>2. CASE job' = [job EXCEPT ![i] = Chosen(f)]
      BY <1>0, <1>1, <1>4, <2>1, <3>2, JobMoves
    <3> QED
      BY <2>2, <3>1, <3>2
  <2> QED
    BY <2>3, <2>4 DEF RouteInv
<1>6. CASE Via!Unbound(i, a)
  <2>1. UNCHANGED <<bind, row>> /\ job' = [job EXCEPT ![i] = begins]
    BY <1>6 DEF Via!Unbound, Via!routeVars, begins
  <2> QED
    BY <1>0, <1>3, <1>4, <2>1, JobMoves, SameBindings DEF RouteInv
<1>7. CASE Via!NoteSuccessFor(i, a) \/ Via!NoteFailureFor(i, a) \/ Via!RetryDue(i, a)
  <2>1. UNCHANGED <<listOf, bind, row, job, shared>>
    BY <1>7 DEF Via!NoteSuccessFor, Via!NoteFailureFor, Via!RetryDue
  <2> QED
    BY <1>0, <2>1, SameBindings, SameJobs DEF RouteInv
<1>8. CASE Via!RotateAccount(i, a) \/ Via!ForgetAccount(i, a)
  <2>1. \/ UNCHANGED <<bind, row, job>>
        \/ /\ bind' = [bind EXCEPT ![i][a] = Via!None]
           /\ row' = [row EXCEPT ![i][a] = Via!None]
           /\ job' = [job EXCEPT ![i] = clears]
    BY <1>8 DEF Via!RotateAccount, Via!ForgetAccount, clears
  <2>2. CASE UNCHANGED <<bind, row, job>>
    BY <1>0, <1>4, <2>2, SameBindings, SameJobs DEF RouteInv
  <2>3. CASE /\ bind' = [bind EXCEPT ![i][a] = Via!None]
             /\ row' = [row EXCEPT ![i][a] = Via!None]
             /\ job' = [job EXCEPT ![i] = clears]
    <3>1. BindingsOK'
      BY <1>0, <1>4, <2>3, UnbindKeeps
    <3>2. JobsOK'
      BY <1>0, <1>2, <1>4, <2>3, JobMoves
    <3> QED
      BY <3>1, <3>2 DEF RouteInv
  <2> QED
    BY <2>1, <2>2, <2>3
<1> QED
  BY <1>5, <1>6, <1>7, <1>8 DEF Via!Request

\* configure drops the bindings to proxies that left the list, in memory and in the row.
LEMMA ConfigureKeeps ==
  ASSUME RouteParameters, RouteInv, NEW i \in Inst, Via!Configure(i)
  PROVE  RouteInv'
<1>1. PICK o \in BOOLEAN, l \in RouteLists :
        LET gone == {a \in Accounts : bind[i][a] # Via!None /\ Via!Kept(i, a, l) = Via!None}
        IN  /\ listOf' = [listOf EXCEPT ![i] = l]
            /\ bind' = [bind EXCEPT ![i] = [a \in Accounts |-> Via!Kept(i, a, l)]]
            /\ row' = [row EXCEPT ![i] = [a \in Accounts |-> IF a \in gone THEN Via!None ELSE @[a]]]
            /\ job' = [job EXCEPT ![i] = [Via!Idle EXCEPT !.todo = gone, !.pc =
                         IF o /\ (~onAt[i] \/ ~(l \subseteq listOf[i])) THEN "configure" ELSE "clear"]]
  BY DEF Via!Configure
<1>2. shared' = shared
  BY DEF Via!Configure
<1> DEFINE gone == {a \in Accounts : bind[i][a] # Via!None /\ Via!Kept(i, a, l) = Via!None}
           Next1(pc) == [Via!Idle EXCEPT !.todo = gone, !.pc = pc]
<1>3. /\ listOf \in [Inst -> RouteLists] /\ l \subseteq RouteProxies
      /\ bind \in [Inst -> [Accounts -> Via!MaybeProxy]]
      /\ row \in [Inst -> [Accounts -> Via!MaybeProxy]]
      /\ Via!BoundListed /\ Via!RowFollows
      /\ shared \in [Accounts -> Via!MaybeProxy] /\ job \in [Inst -> JobRec]
      /\ \A j \in Inst : job[j].fallback \in listOf[j] \cup {Via!None}
  BY DEF RouteInv, BindingsOK, JobsOK, RouteParameters
<1>4. \A a \in Accounts : /\ Via!Kept(i, a, l) \in Via!MaybeProxy
                          /\ Via!Kept(i, a, l) \in l \cup {Via!None}
  BY <1>3 DEF Via!Kept, Via!MaybeProxy
<1>5. /\ listOf' \in [Inst -> RouteLists]
      /\ bind' \in [Inst -> [Accounts -> Via!MaybeProxy]]
      /\ row' \in [Inst -> [Accounts -> Via!MaybeProxy]]
  BY <1>1, <1>3, <1>4 DEF Via!MaybeProxy
<1>6. \A j \in Inst : j # i => listOf'[j] = listOf[j] /\ bind'[j] = bind[j] /\ row'[j] = row[j]
  BY <1>1, <1>3
<1>7. /\ listOf'[i] = l
      /\ \A a \in Accounts : /\ bind'[i][a] = Via!Kept(i, a, l)
                             /\ row'[i][a] = IF a \in gone THEN Via!None ELSE row[i][a]
  BY <1>1, <1>3
<1>8. Via!BoundListed'
  BY <1>3, <1>4, <1>6, <1>7 DEF Via!BoundListed
<1>9. Via!RowFollows'
  <2> SUFFICES ASSUME NEW j \in Inst, NEW a \in Accounts, bind'[j][a] # Via!None
               PROVE  row'[j][a] = bind'[j][a]
    BY DEF Via!RowFollows
  <2>1. CASE j # i
    BY <1>3, <1>6, <2>1 DEF Via!RowFollows
  <2>2. CASE j = i
    <3>1. Via!Kept(i, a, l) # Via!None /\ a \notin gone /\ row'[i][a] = row[i][a]
      BY <1>7, <2>2
    <3>2. bind'[i][a] = bind[i][a] /\ bind[i][a] # Via!None
      BY <1>7, <2>2, <3>1 DEF Via!Kept
    <3> QED
      BY <1>3, <2>2, <3>1, <3>2 DEF Via!RowFollows
  <2> QED
    BY <2>1, <2>2
<1>10. JobsOK'
  <2>1. gone \in SUBSET Accounts
    OBVIOUS
  <2>2. PICK pc \in {"configure", "clear"} : job' = [job EXCEPT ![i] = Next1(pc)]
    BY <1>1
  <2>3. Next1(pc) \in JobRec /\ Next1(pc).fallback = Via!None
    <3> HIDE DEF gone
    <3> QED
      BY <2>1, IdleJob DEF JobRec
  <2> HIDE DEF Next1
  <2>4. job' \in [Inst -> JobRec]
    BY <1>3, <2>2, <2>3
  <2>5. \A j \in Inst : job'[j].fallback \in listOf'[j] \cup {Via!None}
    BY <1>3, <1>6, <2>2, <2>3
  <2> QED
    BY <1>2, <1>3, <2>4, <2>5 DEF JobsOK
<1> QED
  BY <1>5, <1>8, <1>9, <1>10 DEF RouteInv, BindingsOK

\* A restart finds the rows, and of them only those of listed proxies.
LEMMA RestartKeeps ==
  ASSUME RouteParameters, RouteInv, NEW i \in Inst, Via!Restart(i)
  PROVE  RouteInv'
<1>1. /\ bind' = [bind EXCEPT ![i] = [a \in Accounts |-> Via!Loaded(i, a)]]
      /\ job' = [job EXCEPT ![i] = [Via!Idle EXCEPT !.pc = IF onAt[i] THEN "balance" ELSE "idle"]]
      /\ UNCHANGED <<listOf, row, shared>>
  BY DEF Via!Restart
<1>2. /\ listOf \in [Inst -> RouteLists]
      /\ bind \in [Inst -> [Accounts -> Via!MaybeProxy]]
      /\ row \in [Inst -> [Accounts -> Via!MaybeProxy]]
      /\ Via!BoundListed /\ Via!RowFollows /\ shared \in [Accounts -> Via!MaybeProxy]
  BY DEF RouteInv, BindingsOK, JobsOK
<1>3. \A a \in Accounts : /\ Via!Loaded(i, a) \in Via!MaybeProxy
                          /\ Via!Loaded(i, a) \in listOf[i] \cup {Via!None}
                          /\ Via!Loaded(i, a) # Via!None => Via!Loaded(i, a) = row[i][a]
  BY <1>2 DEF Via!Loaded, Via!MaybeProxy
<1>4. bind' \in [Inst -> [Accounts -> Via!MaybeProxy]]
  BY <1>1, <1>2, <1>3
<1>5. /\ \A a \in Accounts : bind'[i][a] = Via!Loaded(i, a)
      /\ \A j \in Inst : j # i => bind'[j] = bind[j]
  BY <1>1, <1>2
<1>6. Via!BoundListed' /\ Via!RowFollows'
  BY <1>1, <1>2, <1>3, <1>5 DEF Via!BoundListed, Via!RowFollows
<1> DEFINE n == [Via!Idle EXCEPT !.pc = IF onAt[i] THEN "balance" ELSE "idle"]
<1>7. n \in JobRec /\ n.fallback \in listOf[i] \cup {Via!None} /\ job' = [job EXCEPT ![i] = n]
  BY <1>1, IdleJob DEF JobRec
<1> HIDE DEF n
<1>8. JobsOK'
  BY <1>1, <1>2, <1>7, JobMoves
<1> QED
  BY <1>1, <1>2, <1>4, <1>6, <1>8 DEF RouteInv, BindingsOK

LEMMA RoutesInit ==
  ASSUME RouteParameters, Via!Init
  PROVE  RouteInv
<1>1. PICK l \in RouteLists : listOf = [i \in Inst |-> l]
  BY DEF Via!Init
<1>2. /\ bind = [i \in Inst |-> [a \in Accounts |-> Via!None]] /\ row = bind
      /\ shared = [a \in Accounts |-> Via!None] /\ job = [i \in Inst |-> Via!Idle]
  BY DEF Via!Init, Via!PerAccount
<1> QED
  BY <1>1, <1>2, IdleJob
  DEF RouteInv, BindingsOK, JobsOK, Via!BoundListed, Via!RowFollows, Via!MaybeProxy

LEMMA RoutesStep ==
  ASSUME RouteParameters, RouteInv, [Via!Next]_Via!vars
  PROVE  RouteInv'
<1>1. CASE UNCHANGED Via!vars
  <2>1. UNCHANGED <<listOf, bind, row, job, shared>>
    BY <1>1 DEF Via!vars
  <2> QED
    BY <2>1, SameBindings, SameJobs DEF RouteInv
<1>2. ASSUME NEW i \in Inst, Via!SyncRead(i)
      PROVE  RouteInv'
  <2> DEFINE n == [Via!Idle EXCEPT !.pc = "sync", !.got = shared,
                               !.todo = {a \in Accounts : bind[i][a] # Via!None}]
  <2>1. job' = [job EXCEPT ![i] = n] /\ UNCHANGED <<listOf, bind, row, shared>>
    BY <1>2 DEF Via!SyncRead, Via!routeVars
  <2>2. shared \in [Accounts -> Via!MaybeProxy] /\ BindingsOK
    BY DEF RouteInv, JobsOK
  <2>3. n \in JobRec /\ n.fallback \in listOf[i] \cup {Via!None}
    BY <2>2, IdleJob DEF JobRec
  <2> HIDE DEF n
  <2>4. shared' \in [Accounts -> Via!MaybeProxy] /\ listOf' = listOf
    BY <2>1, <2>2
  <2> QED
    BY <2>1, <2>2, <2>3, <2>4, JobMoves, SameBindings DEF RouteInv
<1>3. ASSUME NEW i \in Inst, Via!HealthTurns(i)
      PROVE  RouteInv'
  <2>1. UNCHANGED <<listOf, bind, row, job, shared>>
    BY <1>3 DEF Via!HealthTurns, Via!routeVars
  <2> QED
    BY <2>1, SameBindings, SameJobs DEF RouteInv
<1> QED
  BY <1>1, <1>2, <1>3, LockedKeeps, AccountStepKeeps, ConfigureKeeps, RestartKeeps DEF Via!Next

\* No account leaves through a proxy that is not configured here, with any number of
\* instances: what working_client_for, rebalance and sync_shared_assignments bind is of
\* the list, and configure cannot change that under them, since it waits for switch_lock.
THEOREM AccountsUseListed ==
  ASSUME RouteParameters
  PROVE  Via!Spec => []Via!BoundListed
<1>1. Via!Init => RouteInv
  BY RoutesInit
<1>2. RouteInv /\ [Via!Next]_Via!vars => RouteInv'
  BY RoutesStep
<1>3. RouteInv => Via!BoundListed
  BY DEF RouteInv, BindingsOK
<1> QED
  BY <1>1, <1>2, <1>3, PTL DEF Via!Spec

\* What the process uses is what a restart would find: assign, rotate_account,
\* forget_account and configure write memory and proxy_assignments alike.
THEOREM RowsFollow ==
  ASSUME RouteParameters
  PROVE  Via!Spec => []Via!RowFollows
<1>1. Via!Init => RouteInv
  BY RoutesInit
<1>2. RouteInv /\ [Via!Next]_Via!vars => RouteInv'
  BY RoutesStep
<1>3. RouteInv => Via!RowFollows
  BY DEF RouteInv, BindingsOK
<1> QED
  BY <1>1, <1>2, <1>3, PTL DEF Via!Spec

---------------------------------------------------------------------------
(* Types                                                                   *)

\* What SwitchTyped leaves out: the streak of failures ends before it reaches the limit.
CallsCounted == /\ tried \in BOOLEAN
                /\ FailLimit \in Nat \ {0} /\ fails \in 0..(FailLimit - 1)

LEMMA CallsCountedStep ==
  ASSUME SwitchInv, CallsCounted, [Next]_vars
  PROVE  CallsCounted'
<1>1. tried' \in BOOLEAN
  <2>1. tried' \in {tried, TRUE, FALSE}
    BY DEF Next, vars, switchVars, UpdateProxies, Configuring, ConfigureBegin, ConfigureList,
       ConfigureEnable, ConfigureReady, Rotation, RotatePick, RotateSwap, RotateCheck,
       Call, Steps, ReadEnabled, ReadReady, ReadList, GetWorkingProxy, SwapTo, ReadClient,
       Refuse, AuthClient, ReplaceAuth, NoteSuccess, NoteFailure, Leave, ThrottleEnds,
       HealthTurns
  <2> QED
    BY <2>1 DEF CallsCounted
<1>2. fails' \in 0..(FailLimit - 1)
  <2>1. \/ fails' = fails \/ fails' = 0
        \/ ~ (fails + 1 >= FailLimit) /\ fails' = fails + 1
    <3>1. ASSUME NEW t \in Tasks, NoteFailure(t)
          PROVE  \/ fails' = fails \/ fails' = 0
                 \/ ~ (fails + 1 >= FailLimit) /\ fails' = fails + 1
      BY <3>1 DEF NoteFailure
    <3>2. ASSUME NEW t \in Tasks, Call(t) \/ Steps(t), ~ NoteFailure(t)
          PROVE  fails' = fails \/ fails' = 0
      <4>1. CASE SwapTo(t)
        BY <4>1 DEF SwapTo, Installed
      <4>2. CASE ~ SwapTo(t)
        BY <3>2, <4>2 DEF switchVars, Call, Steps, ReadEnabled, ReadReady, ReadList,
           GetWorkingProxy, ReadClient, Refuse, AuthClient, ReplaceAuth, NoteSuccess, Leave
      <4> QED
        BY <4>1, <4>2
    <3>3. CASE RotateSwap
      BY <3>3 DEF RotateSwap, Installed
    <3>4. CASE UpdateProxies \/ Configuring \/ RotatePick \/ RotateCheck
      BY <3>4 DEF switchVars, UpdateProxies, Configuring, ConfigureBegin, ConfigureList,
         ConfigureEnable, ConfigureReady, RotatePick, RotateCheck
    <3>5. CASE ThrottleEnds \/ HealthTurns \/ UNCHANGED vars
      BY <3>5 DEF switchVars, vars, ThrottleEnds, HealthTurns
    <3> QED
      BY <3>1, <3>2, <3>3, <3>4, <3>5 DEF Next, Rotation
  <2> QED
    BY <2>1 DEF CallsCounted
<1> QED
  BY <1>1, <1>2 DEF CallsCounted

\* The clients in use, stored or handed out, are proxies of some configured list or the
\* direct one, and the rotation starts before the failures reach the limit.
THEOREM SwitchTypeCorrect ==
  ASSUME Parameters, FailLimit \in Nat \ {0}
  PROVE  Spec => []TypeOK
<1>1. Init => SwitchInv /\ CallsCounted
  <2> SUFFICES ASSUME Init PROVE SwitchInv /\ CallsCounted
    OBVIOUS
  <2>1. tried = FALSE /\ fails = 0
    BY DEF Init
  <2>2. 0 \in 0..FailLimit - 1
    OBVIOUS
  <2>3. CallsCounted
    BY <2>1, <2>2 DEF CallsCounted
  <2> QED
    BY <2>3, SwitchInit
<1>2. SwitchInv /\ CallsCounted /\ [Next]_vars => (SwitchInv /\ CallsCounted)'
  BY SwitchStep, CallsCountedStep
<1>3. SwitchInv /\ CallsCounted => TypeOK
  <2> SUFFICES ASSUME SwitchInv, CallsCounted PROVE TypeOK
    OBVIOUS
  <2>1. client \in Proxies \cup {Direct}
    BY DEF SwitchInv, SwitchTyped, AlwaysListed
  <2> QED
    BY <2>1 DEF SwitchInv, SwitchTyped, CallsCounted, TypeOK
<1> QED
  BY <1>1, <1>2, <1>3, PTL DEF Spec

\* What BindingsOK and JobsOK leave out.
NotesTyped == /\ onAt \in [Inst -> BOOLEAN]
              /\ verified \in [Inst -> [Accounts -> BOOLEAN]]
              /\ failures \in [Inst -> [Accounts -> Nat]]
              /\ avoided \in [Inst -> [Accounts -> Via!MaybeProxy]]
              /\ failed \in [Inst -> [Accounts -> BOOLEAN]]
              /\ due \in [Inst -> SUBSET Accounts]

LEMMA NotesInit ==
  ASSUME Via!Init
  PROVE  NotesTyped
BY DEF Via!Init, Via!PerAccount, NotesTyped, Via!MaybeProxy

LEMMA AssignTyped ==
  ASSUME NotesTyped, NEW i, NEW a, NEW p, NEW tested \in BOOLEAN, Via!Assign(i, a, p, tested),
         UNCHANGED <<onAt, due>>
  PROVE  NotesTyped'
<1>1. verified' \in [Inst -> [Accounts -> BOOLEAN]]
  BY DEF NotesTyped, Via!Assign
<1>2. failures' \in [Inst -> [Accounts -> Nat]]
  BY DEF NotesTyped, Via!Assign
<1>3. avoided' \in [Inst -> [Accounts -> Via!MaybeProxy]]
  BY DEF NotesTyped, Via!Assign, Via!MaybeProxy
<1>4. failed' \in [Inst -> [Accounts -> BOOLEAN]]
  BY DEF NotesTyped, Via!Assign
<1> QED
  BY <1>1, <1>2, <1>3, <1>4 DEF NotesTyped

LEMMA NotesStep ==
  ASSUME RouteInv, NotesTyped, [Via!Next]_Via!vars
  PROVE  NotesTyped'
<1>1. CASE UNCHANGED <<onAt, verified, failures, avoided, failed, due>>
  BY <1>1 DEF NotesTyped
<1>2. ASSUME NEW i \in Inst, Via!Locked(i) PROVE NotesTyped'
  <2>1. UNCHANGED <<onAt, due>>
    BY <1>2 DEF Via!Locked, Via!Publish, Via!Choose, Via!Clear, Via!Cleared, Via!Rebalance,
                Via!SyncOne
  <2>2. \/ UNCHANGED <<verified, failures, avoided, failed>>
        \/ \E a, p : \E tested \in BOOLEAN : Via!Assign(i, a, p, tested)
        \/ \E a : failed' = [failed EXCEPT ![i][a] = TRUE]
                  /\ UNCHANGED <<verified, failures, avoided>>
    <3>1. CASE Via!Choose(i)
      BY <3>1 DEF Via!Choose
    <3>2. CASE Via!Rebalance(i)
      <4>1. CASE Via!Movable(i) = {}
        BY <3>2, <4>1 DEF Via!Rebalance, Via!routeVars
      <4>2. CASE Via!Movable(i) # {}
        BY <3>2, <4>2 DEF Via!Rebalance
      <4> QED
        BY <4>1, <4>2
    <3>3. CASE Via!SyncOne(i)
      <4>1. UNCHANGED Via!routeVars \/ \E a, p : Via!Assign(i, a, p, FALSE)
        BY <3>3 DEF Via!SyncOne
      <4> QED
        BY <4>1 DEF Via!routeVars
    <3>4. CASE Via!Publish(i) \/ Via!Clear(i) \/ Via!Cleared(i)
      BY <3>4 DEF Via!Publish, Via!Clear, Via!Cleared, Via!routeVars
    <3> QED
      BY <1>2, <3>1, <3>2, <3>3, <3>4 DEF Via!Locked
  <2>3. CASE \E a : failed' = [failed EXCEPT ![i][a] = TRUE]
                    /\ UNCHANGED <<verified, failures, avoided>>
    <3>1. PICK a : failed' = [failed EXCEPT ![i][a] = TRUE]
                   /\ UNCHANGED <<verified, failures, avoided>>
      BY <2>3
    <3>2. failed \in [Inst -> [Accounts -> BOOLEAN]]
      BY DEF NotesTyped
    <3>3. failed' \in [Inst -> [Accounts -> BOOLEAN]]
      BY <3>1, <3>2
    <3> QED
      BY <2>1, <3>1, <3>3 DEF NotesTyped
  <2> QED
    BY <1>1, <2>1, <2>2, <2>3, AssignTyped
<1>3. ASSUME NEW i \in Inst, Via!SyncRead(i) \/ Via!HealthTurns(i) PROVE NotesTyped'
  BY <1>1, <1>3 DEF Via!SyncRead, Via!HealthTurns, Via!routeVars
<1>4. ASSUME NEW i \in Inst, Via!Configure(i) PROVE NotesTyped'
  <2>1. PICK o \in BOOLEAN, l \in RouteLists :
          /\ onAt' = [onAt EXCEPT ![i] = o]
          /\ avoided' = [avoided EXCEPT ![i] =
                           [a \in Accounts |-> IF @[a] \in l THEN @[a] ELSE Via!None]]
          /\ failed' = [failed EXCEPT ![i] = [a \in Accounts |-> FALSE]]
          /\ UNCHANGED <<verified, failures, due>>
    BY <1>4 DEF Via!Configure
  <2>2. onAt' \in [Inst -> BOOLEAN]
    BY <2>1 DEF NotesTyped
  <2>3. avoided' \in [Inst -> [Accounts -> Via!MaybeProxy]]
    BY <2>1 DEF NotesTyped, Via!MaybeProxy
  <2>4. failed' \in [Inst -> [Accounts -> BOOLEAN]]
    BY <2>1 DEF NotesTyped
  <2> QED
    BY <2>1, <2>2, <2>3, <2>4 DEF NotesTyped
<1>5. ASSUME NEW i \in Inst, Via!Restart(i) PROVE NotesTyped'
  BY <1>5 DEF Via!Restart, NotesTyped, Via!MaybeProxy
<1>6. ASSUME NEW i \in Inst, NEW a \in Accounts, Via!Request(i, a) PROVE NotesTyped'
  <2>1. CASE Via!UseBound(i, a)
    <3>1. UNCHANGED <<onAt, failures, failed, due>>
      BY <2>1 DEF Via!UseBound
    <3>2. bind[i][a] \in Via!MaybeProxy
      BY DEF RouteInv, BindingsOK
    <3>3. CASE routeHealth[i][bind[i][a]] = "ok"
      <4>1. verified' = [verified EXCEPT ![i][a] = TRUE]
        BY <2>1, <3>3 DEF Via!UseBound
      <4>2. avoided' = avoided
        BY <2>1, <3>3 DEF Via!UseBound
      <4>3. verified' \in [Inst -> [Accounts -> BOOLEAN]]
        BY <4>1 DEF NotesTyped
      <4> QED
        BY <3>1, <4>2, <4>3 DEF NotesTyped
    <3>4. CASE routeHealth[i][bind[i][a]] # "ok"
      <4>1. avoided' = [avoided EXCEPT ![i][a] = bind[i][a]]
        BY <2>1, <3>4 DEF Via!UseBound
      <4>2. verified' = verified
        BY <2>1, <3>4 DEF Via!UseBound
      <4>3. avoided' \in [Inst -> [Accounts -> Via!MaybeProxy]]
        BY <3>2, <4>1 DEF NotesTyped
      <4> QED
        BY <3>1, <4>2, <4>3 DEF NotesTyped
    <3> QED
      BY <3>3, <3>4
  <2>2. CASE Via!Unbound(i, a)
    BY <1>1, <2>2 DEF Via!Unbound, Via!routeVars
  <2>3. CASE Via!NoteSuccessFor(i, a)
    BY <2>3 DEF Via!NoteSuccessFor, NotesTyped
  <2>4. CASE Via!NoteFailureFor(i, a)
    <3>1. UNCHANGED <<onAt, verified, avoided, failed>>
      BY <2>4 DEF Via!NoteFailureFor
    <3>2. failures' \in [Inst -> [Accounts -> Nat]]
      BY <2>4 DEF Via!NoteFailureFor, NotesTyped
    <3>3. due' \in [Inst -> SUBSET Accounts]
      BY <2>4 DEF Via!NoteFailureFor, NotesTyped
    <3> QED
      BY <3>1, <3>2, <3>3 DEF NotesTyped
  <2> QED
    BY <1>6, <2>1, <2>2, <2>3, <2>4 DEF Via!Request
<1>7. ASSUME NEW i \in Inst, NEW a \in Accounts,
             Via!RotateAccount(i, a) \/ Via!ForgetAccount(i, a) \/ Via!RetryDue(i, a)
      PROVE  NotesTyped'
  <2>1. UNCHANGED <<onAt, verified, failures>>
    BY <1>7 DEF Via!RotateAccount, Via!ForgetAccount, Via!RetryDue
  <2>2. bind[i][a] \in Via!MaybeProxy /\ Via!None \in Via!MaybeProxy
    BY DEF RouteInv, BindingsOK, Via!MaybeProxy
  <2>3. CASE Via!RotateAccount(i, a)
    <3>1. due' = [due EXCEPT ![i] = @ \ {a}]
      BY <2>3 DEF Via!RotateAccount
    <3>2. due' \in [Inst -> SUBSET Accounts]
      BY <3>1 DEF NotesTyped
    <3>3. CASE bind[i][a] = Via!None
      <4>1. UNCHANGED <<avoided, failed>>
        BY <2>3, <3>3 DEF Via!RotateAccount
      <4> QED
        BY <2>1, <3>2, <4>1 DEF NotesTyped
    <3>4. CASE bind[i][a] # Via!None
      <4>1. /\ avoided' = [avoided EXCEPT ![i][a] = bind[i][a]]
            /\ failed' = [failed EXCEPT ![i][a] = FALSE]
        BY <2>3, <3>4 DEF Via!RotateAccount
      <4>2. avoided' \in [Inst -> [Accounts -> Via!MaybeProxy]]
        BY <2>2, <4>1 DEF NotesTyped
      <4>3. failed' \in [Inst -> [Accounts -> BOOLEAN]]
        BY <4>1 DEF NotesTyped
      <4> QED
        BY <2>1, <3>2, <4>2, <4>3 DEF NotesTyped
    <3> QED
      BY <3>3, <3>4
  <2>4. CASE Via!ForgetAccount(i, a)
    <3>1. /\ avoided' = [avoided EXCEPT ![i][a] = Via!None]
          /\ failed' = [failed EXCEPT ![i][a] = FALSE]
          /\ due' = due
      BY <2>4 DEF Via!ForgetAccount
    <3>2. avoided' \in [Inst -> [Accounts -> Via!MaybeProxy]]
      BY <2>2, <3>1 DEF NotesTyped
    <3>3. failed' \in [Inst -> [Accounts -> BOOLEAN]]
      BY <3>1 DEF NotesTyped
    <3> QED
      BY <2>1, <3>1, <3>2, <3>3 DEF NotesTyped
  <2>5. CASE Via!RetryDue(i, a)
    <3>1. failed' = [failed EXCEPT ![i][a] = FALSE] /\ UNCHANGED <<avoided, due>>
      BY <2>5 DEF Via!RetryDue
    <3>2. failed' \in [Inst -> [Accounts -> BOOLEAN]]
      BY <3>1 DEF NotesTyped
    <3> QED
      BY <2>1, <3>1, <3>2 DEF NotesTyped
  <2> QED
    BY <1>7, <2>3, <2>4, <2>5
<1> QED
  BY <1>1, <1>2, <1>3, <1>4, <1>5, <1>6, <1>7 DEF Via!Next, Via!vars

\* Bindings, rows and the fleet's choice name proxies, and their notes are of accounts.
THEOREM RoutesTypeCorrect ==
  ASSUME RouteParameters
  PROVE  Via!Spec => []Via!TypeOK
<1>1. Via!Init => RouteInv /\ NotesTyped
  BY RoutesInit, NotesInit
<1>2. RouteInv /\ NotesTyped /\ [Via!Next]_Via!vars => (RouteInv /\ NotesTyped)'
  BY RoutesStep, NotesStep
<1>3. RouteInv /\ NotesTyped => Via!TypeOK
  BY DEF RouteInv, BindingsOK, JobsOK, NotesTyped, Via!TypeOK
<1> QED
  BY <1>1, <1>2, <1>3, PTL DEF Via!Spec

=============================================================================
