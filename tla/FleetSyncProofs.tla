------------------------- MODULE FleetSyncProofs -------------------------
(***************************************************************************)
(* What FleetSync promises of the roster, for any number of instances and  *)
(* ids, any clock and any bound on lost commands, crashes and edits.       *)
(*                                                                         *)
(* The commands a task still has to send are built with SetToSeq and       *)
(* FlattenSeq.  That these return what their types say needs an induction  *)
(* along the sequence; it is carried out here from the least element of a  *)
(* set of counterexamples.                                                 *)
(***************************************************************************)
EXTENDS FleetSync, FiniteSetTheorems, FunctionTheorems, WellFoundedInduction, TLAPS

LEMMA LeastNat ==
  ASSUME NEW S \in SUBSET Nat, S # {}
  PROVE  \E m \in S : \A k \in S : m <= k
<1> DEFINE R == OpToRel(<, Nat)
<1>1. IsWellFoundedOn(R, Nat)
  BY NatLessThanWellFounded
<1>2. PICK m \in S : \A k \in S : ~ (<<k, m>> \in R)
  <2> HIDE DEF R
  <2> QED BY <1>1, WFMin
<1>3. \A k \in S : ~ (k < m)
  BY <1>2 DEF OpToRel
<1> QED
  BY <1>3

LEMMA SetToSeqType ==
  ASSUME NEW S, IsFiniteSet(S)
  PROVE  SetToSeq(S) \in Seq(S)
<1>1. Cardinality(S) \in Nat /\ ExistsBijection(1..Cardinality(S), S)
  BY FS_CardinalityType
<1>2. PICK f \in Bijection(1..Cardinality(S), S) : TRUE
  BY <1>1, Fun_ExistsBij
<1>3. f \in [1..Cardinality(S) -> S] /\ IsInjective(f)
  BY <1>2 DEF Bijection, Injection, IsInjective
<1>4. SetToSeq(S) \in [1..Cardinality(S) -> S]
  BY <1>3 DEF SetToSeq
<1> QED
  BY <1>1, <1>4

Flattens(f, ss, k) == 
  f = [i \in 1..k |-> IF i = 1 THEN ss[i] ELSE f[i-1] \o ss[i]]

LEMMA FlattenExists ==
  ASSUME NEW T, NEW ss \in Seq(Seq(T)), Len(ss) # 0
  PROVE  \E f : Flattens(f, ss, Len(ss))
<1> DEFINE Bad == {k \in 1..Len(ss) : ~ \E f : Flattens(f, ss, k)}
<1>0. Len(ss) \in 1..Len(ss)
  OBVIOUS
<1> SUFFICES ASSUME Bad # {} PROVE FALSE
  BY <1>0
<1>1. PICK m \in Bad : \A k \in Bad : m <= k
  <2>1. Bad \in SUBSET Nat
    OBVIOUS
  <2> HIDE DEF Bad
  <2> QED
    BY <2>1, LeastNat
<1>2. CASE m = 1
  <2>1. Flattens([i \in 1..1 |-> ss[1]], ss, 1)
    BY DEF Flattens
  <2> QED
    BY <1>1, <1>2, <2>1
<1>3. CASE m # 1
  <2>0. m \in 1..Len(ss) /\ Len(ss) \in Nat
    OBVIOUS
  <2>1. m - 1 \in 1..Len(ss) /\ ~ (m <= m - 1)
    BY <2>0, <1>3
  <2>4. m - 1 \notin Bad
    BY <2>1, <1>1
  <2>2. PICK f : Flattens(f, ss, m - 1)
    BY <2>1, <2>4
  <2> DEFINE g == [i \in 1..m |-> IF i = m THEN f[m-1] \o ss[m] ELSE f[i]]
  <2>3. Flattens(g, ss, m)
    <3>1. \A i \in 1..m : g[i] = IF i = 1 THEN ss[i] ELSE g[i-1] \o ss[i]
      <4> SUFFICES ASSUME NEW i \in 1..m
                   PROVE  g[i] = IF i = 1 THEN ss[i] ELSE g[i-1] \o ss[i]
        OBVIOUS
      <4>1. CASE i = m
        <5>0. m \in 1..m /\ m - 1 \in 1..m /\ m - 1 # m
          BY <2>0, <2>1
        <5>1. g[m] = f[m-1] \o ss[m] /\ g[m-1] = f[m-1]
          BY <5>0
        <5> QED
          BY <4>1, <5>1, <1>3
      <4>2. CASE i # m
        <5>1. i \in 1..m-1 /\ (i # 1 => i - 1 \in 1..m-1)
          BY <4>2, <2>0
        <5>2. g[i] = f[i] /\ (i # 1 => g[i-1] = f[i-1])
          BY <5>1, <2>0
        <5>3. f[i] = IF i = 1 THEN ss[i] ELSE f[i-1] \o ss[i]
          BY <5>1, <2>2 DEF Flattens
        <5> QED
          BY <5>2, <5>3
      <4> QED
        BY <4>1, <4>2
    <3> QED
      BY <3>1 DEF Flattens
  <2> QED
    BY <1>1, <2>3
<1> QED
  BY <1>2, <1>3

LEMMA FlattenSeqType ==
  ASSUME NEW T, NEW ss \in Seq(Seq(T))
  PROVE  FlattenSeq(ss) \in Seq(T)
<1>1. CASE Len(ss) = 0
  BY <1>1 DEF FlattenSeq
<1>2. CASE Len(ss) # 0
  <2> DEFINE flat == CHOOSE f : Flattens(f, ss, Len(ss))
  <2>1. Flattens(flat, ss, Len(ss))
    BY <1>2, FlattenExists
  <2>2. FlattenSeq(ss) = flat[Len(ss)]
    BY <1>2 DEF FlattenSeq, Flattens
  <2> HIDE DEF flat
  <2> DEFINE Bad == {k \in 1..Len(ss) : flat[k] \notin Seq(T)}
  <2>3. Bad = {}
    <3> SUFFICES ASSUME Bad # {} PROVE FALSE
      OBVIOUS
    <3>1. PICK m \in Bad : \A k \in Bad : m <= k
      <4>1. Bad \in SUBSET Nat
        OBVIOUS
      <4> HIDE DEF Bad
      <4> QED
        BY <4>1, LeastNat
    <3>2. flat[m] = IF m = 1 THEN ss[m] ELSE flat[m-1] \o ss[m]
      BY <2>1 DEF Flattens
    <3>3. CASE m = 1
      BY <3>1, <3>2, <3>3
    <3>4. CASE m # 1
      <4>0. m \in 1..Len(ss) /\ Len(ss) \in Nat
        OBVIOUS
      <4>1. m - 1 \in 1..Len(ss) /\ ~ (m <= m - 1)
        BY <4>0, <3>4
      <4>2. flat[m - 1] \in Seq(T) /\ ss[m] \in Seq(T)
        BY <3>1, <4>0, <4>1
      <4>3. flat[m - 1] \o ss[m] \in Seq(T)
        BY <4>2
      <4> QED
        BY <3>2, <3>4, <4>3
    <3> QED
      BY <3>3, <3>4
  <2> QED
    BY <2>2, <2>3, <1>2
<1> QED
  BY <1>1, <1>2

---------------------------------------------------------------------------
(* The commands of a task.                                                 *)

Pushes == [op : {"set", "sadd"}, id : Ids, rec : Rec \cup {None}]

LEMMA NoneIsNoRec == None \notin Rec
BY DEF None, Rec, Status

LEMMA PushesAreCommands == Pushes \subseteq Commands
BY DEF Pushes, Commands

\* Everything a push of the roster sends sets or indexes a record.
LEMMA PushAllType ==
  ASSUME NEW m \in [Ids -> Seq(Rec)], NEW S \in SUBSET Ids
  PROVE  PushAll(m, S) \in Seq(Pushes)
<1> DEFINE order == SetToSeq(S)
           Of(id) == FlattenSeq([k \in DOMAIN m[id] |-> Push(id, m[id][k])])
<1>1. order \in Seq(S)
  <2>1. IsFiniteSet(S)
    BY FleetAssumption, FS_Subset
  <2> QED
    BY <2>1, SetToSeqType
<1>2. \A id \in Ids : Of(id) \in Seq(Pushes)
  <2> SUFFICES ASSUME NEW id \in Ids PROVE Of(id) \in Seq(Pushes)
    OBVIOUS
  <2> DEFINE each == [k \in DOMAIN m[id] |-> Push(id, m[id][k])]
  <2>1. m[id] \in Seq(Rec)
    OBVIOUS
  <2>2. \A r \in Rec : Push(id, r) \in Seq(Pushes)
    BY DEF Push, PushAccount, PushKey, Cmd, Pushes
  <2>3. each \in Seq(Seq(Pushes))
    <3>1. DOMAIN m[id] = 1..Len(m[id]) /\ Len(m[id]) \in Nat
      BY <2>1
    <3>2. \A k \in 1..Len(m[id]) : Push(id, m[id][k]) \in Seq(Pushes)
      BY <2>1, <2>2
    <3> HIDE DEF Pushes
    <3> QED
      BY <3>1, <3>2
  <2> QED
    <3> HIDE DEF each
    <3>1. FlattenSeq(each) \in Seq(Pushes)
      BY <2>3, FlattenSeqType
    <3> QED
      BY <3>1 DEF each
<1> DEFINE all == [n \in DOMAIN order |-> Of(order[n])]
<1>3. all \in Seq(Seq(Pushes))
  <2>1. DOMAIN order = 1..Len(order) /\ Len(order) \in Nat
    BY <1>1
  <2>2. \A n \in 1..Len(order) : order[n] \in Ids
    BY <1>1
  <2> HIDE DEF order, Of
  <2> QED
    BY <1>2, <2>1, <2>2
<1>4. FlattenSeq(all) \in Seq(Pushes)
  <2> HIDE DEF all
  <2> QED
    BY <1>3, FlattenSeqType
<1> QED
  BY <1>4 DEF PushAll

\* A task that is sent off keeps its commands and goes where it was told.
LEMMA SendType ==
  ASSUME NEW cmds \in Seq(Commands), NEW then \in {"idle", "publish", "orphans"},
         NEW lock \in BOOLEAN, NEW ids \in SUBSET Ids
  PROVE  /\ Send(cmds, then, lock, ids) \in Tasks
         /\ Send(cmds, then, lock, ids).cmds = cmds
         /\ Send(cmds, then, lock, ids).at # "clear"
<1>1. NoRows \in Rows
  BY DEF NoRows, Rows
<1>2. << >> \in Seq(Commands)
  OBVIOUS
<1>3. CASE cmds = << >>
  BY <1>1, <1>2, <1>3 DEF Send, Idle, Tasks, TaskRecords
<1>4. CASE cmds # << >>
  BY <1>1, <1>2, <1>4 DEF Send, Idle, Tasks, TaskRecords
<1> QED
  BY <1>3, <1>4

LEMMA IdleType == Idle \in Tasks /\ Idle.cmds = << >> /\ Idle.at = "idle"
<1>1. NoRows \in Rows
  BY DEF NoRows, Rows
<1> QED
  BY <1>1 DEF Idle, Tasks, TaskRecords

LEMMA PushType ==
  ASSUME NEW id \in Ids, NEW r \in Rec
  PROVE  Push(id, r) \in Seq(Commands)
BY DEF Push, PushAccount, PushKey, Cmd, Commands

LEMMA StoredType == \A r \in Rec \cup {None} : /\ Stored(r) \in Rec \cup {None}
                                               /\ r \in Rec => Stored(r) \in Rec
<1>1. 0 \in 0..MaxTime
  BY FleetAssumption
<1> QED
  BY <1>1, NoneIsNoRec DEF Stored, Rec

---------------------------------------------------------------------------
(* One operator for the actions that differ only in who may take them.     *)

\* Any edit, add or removal on instance i.
Mutation(i) ==
  \/ \E id \in Ids : Insert(i, id) \/ TakeOut(i, id)
  \/ \E id \in Ids, st \in Status, lock \in BOOLEAN : Edit(i, id, st, lock)
  \/ DownloadBackup(i)
  \/ RestoreBackup(i)

TaskStep(i, t) ==
  SMembers(i, t) \/ MGet(i, t) \/ Merge(i, t) \/ Deliver(i, t)

ReloadStep(i) == ClearRoster(i) \/ LoadFromDb(i) \/ Publish(i) \/ DropOrphans(i)

LEMMA StepCases ==
  ASSUME TypeOK, Next
  PROVE  \/ \E i \in Inst : \/ Mutation(i)
                            \/ \E t \in Jobs : TaskStep(i, t)
                            \/ ReloadStep(i)
                            \/ Crash(i)
                            \/ Wipe(i)
         \/ Tick
<1>1. CASE Tick
  BY <1>1
<1>2. CASE \E i \in Inst : Crash(i) \/ Wipe(i)
  BY <1>2
<1>3. ASSUME NEW i \in Inst, Background(i)
      PROVE  ReloadStep(i) \/ \E t \in Jobs : TaskStep(i, t)
  <2>1. CASE Reload(i)
    BY <2>1 DEF Reload, ReloadStep, PublishAccounts, PublishKeys
  <2>2. CASE \E t \in Jobs : Runs(i, t)
    BY <2>2 DEF Runs, TaskStep, MergeAccounts, MergeKeys
  <2> QED
    BY <1>3, <2>1, <2>2 DEF Background
<1>4. ASSUME NEW i \in Inst, Local(i)
      PROVE  Mutation(i)
  <2>1. CASE DownloadBackup(i) \/ RestoreBackup(i)
    BY <2>1 DEF Mutation
  <2>2. ASSUME NEW id \in Ids,
               \/ AddAccount(i, id) \/ CreateKey(i, id)
               \/ RemoveAccount(i, id) \/ RemoveKey(i, id)
        PROVE  Mutation(i)
    BY <2>2 DEF AddAccount, CreateKey, RemoveAccount, RemoveKey, Mutation
  <2>3. ASSUME NEW id \in Ids, UpdateAccount(i, id)
        PROVE  Mutation(i)
    <3>1. mem[i][id] \in Seq(Rec) /\ mem[i][id] # << >>
      BY <2>3 DEF UpdateAccount, TypeOK
    <3>2. mem[i][id][1] \in Rec
      BY <3>1
    <3>3. mem[i][id][1].st \in Status /\ Edit(i, id, mem[i][id][1].st, FALSE)
      BY <2>3, <3>2 DEF UpdateAccount, Rec
    <3> QED
      BY <3>3 DEF Mutation
  <2>4. ASSUME NEW id \in Ids, DisableAfterAuthFailures(i, id)
        PROVE  Mutation(i)
    <3>1. Edit(i, id, "off", TRUE)
      BY <2>4 DEF DisableAfterAuthFailures
    <3> QED
      BY <3>1 DEF Mutation, Status
  <2>5. ASSUME NEW id \in Ids, NEW b \in BOOLEAN,
               \/ SetAccountActive(i, id, b)
               \/ SetSystemDisabled(i, id, b)
               \/ SetKeyActive(i, id, b)
        PROVE  Mutation(i)
    <3>1. PICK st \in Status : Edit(i, id, st, TRUE)
      <4>1. {"on", "off", "sys"} \subseteq Status
        BY DEF Status
      <4>2. CASE b
        BY <4>1, <4>2, <2>5 DEF SetAccountActive, SetSystemDisabled, SetKeyActive
      <4>3. CASE ~ b
        BY <4>1, <4>3, <2>5 DEF SetAccountActive, SetSystemDisabled, SetKeyActive
      <4> QED
        BY <4>2, <4>3
    <3> QED
      BY <3>1 DEF Mutation
  <2> QED
    BY <1>4, <2>1, <2>2, <2>3, <2>4, <2>5 DEF Local
<1> QED
  BY <1>1, <1>2, <1>3, <1>4 DEF Next

---------------------------------------------------------------------------
(* Types.                                                                  *)

LEMMA InitType == Init => TypeOK
<1> SUFFICES ASSUME Init PROVE TypeOK
  OBVIOUS
<1>0. 0 \in 0..MaxTime /\ 1 \in 1..MaxTime /\ 0 \in 0..MaxEvents /\ 0 \in 0..MaxFaults
  BY FleetAssumption
<1>1. [st |-> "on", upd |-> 0] \in Rec
  BY <1>0 DEF Rec, Status
<1>2. rec \in Rows
  BY <1>1 DEF Init, Rows
<1>3. db \in [Inst -> Rows]
  BY <1>2 DEF Init
<1>4. mem \in [Inst -> [Ids -> Seq(Rec)]]
  <2>1. \A id \in Ids : id \in idx => rec[id] = [st |-> "on", upd |-> 0]
    BY DEF Init
  <2>2. \A id \in Ids : (IF id \in idx THEN <<rec[id]>> ELSE << >>) \in Seq(Rec)
    BY <2>1, <1>1
  <2> QED
    BY <2>2 DEF Init
<1>5. task \in [Inst -> [Jobs -> Tasks]]
  BY IdleType DEF Init
<1>6. saved \in [Inst -> [Ids -> 0..clock]]
  BY DEF Init
<1>7. idx \subseteq Ids /\ gone \subseteq Ids
  BY FleetAssumption DEF Init
<1>8. snap \in Rows
  BY DEF Init, NoRows, Rows
<1>9. kind \in Kinds /\ clock \in 1..MaxTime /\ ops \in 0..MaxEvents /\ faults \in 0..MaxFaults
  BY <1>0 DEF Init
<1> QED
  BY <1>2, <1>3, <1>4, <1>5, <1>6, <1>7, <1>8, <1>9 DEF TypeOK

\* A fault, and a local mutation, stay within their bounds.
LEMMA FaultCounted ==
  ASSUME TypeOK, Fault
  PROVE  faults' \in 0..MaxFaults
<1>1. faults \in Nat /\ faults < MaxFaults /\ faults' = faults + 1
  BY DEF TypeOK, Fault
<1> QED
  BY <1>1, FleetAssumption

LEMMA MutationCounted ==
  ASSUME TypeOK, NEW i \in Inst, Mutates(i)
  PROVE  ops' \in 0..MaxEvents
<1>1. /\ ops \in Nat /\ faults \in Nat /\ ops + faults < MaxEvents /\ ops' = ops + 1
  BY DEF TypeOK, Mutates
<1> QED
  BY <1>1, FleetAssumption

LEMMA ClockTypes == TypeOK => /\ clock \in Nat /\ clock \in 0..MaxTime
                              /\ 0 \in 0..clock /\ clock \in 0..clock
BY FleetAssumption DEF TypeOK

LEMMA InsertType ==
  ASSUME TypeOK, NEW i \in Inst, NEW id \in Ids, Insert(i, id)
  PROVE  TypeOK'
<1> DEFINE r == [st |-> "on", upd |-> clock]
<1>1. r \in Rec
  BY ClockTypes DEF Rec, Status
<1>2. db' \in [Inst -> Rows]
  <2>1. Stored(r) \in Rec
    BY <1>1, StoredType
  <2>2. db' = [db EXCEPT ![i][id] = Stored(r)]
    BY DEF Insert
  <2> HIDE DEF r
  <2> QED
    BY <2>1, <2>2 DEF TypeOK, Rows
<1>3. mem' \in [Inst -> [Ids -> Seq(Rec)]]
  <2>1. <<r>> \in Seq(Rec)
    BY <1>1
  <2>2. mem' = [mem EXCEPT ![i][id] = <<r>>]
    BY DEF Insert
  <2> HIDE DEF r
  <2> QED
    BY <2>1, <2>2 DEF TypeOK
<1>4. task' \in [Inst -> [Jobs -> Tasks]]
  <2>1. Push(id, r) \in Seq(Commands)
    BY <1>1, PushType
  <2>2. Send(Push(id, r), "idle", FALSE, {}) \in Tasks
    BY <2>1, SendType
  <2>3. task' = [task EXCEPT ![i]["admin"] = Send(Push(id, r), "idle", FALSE, {})]
    BY DEF Insert
  <2> HIDE DEF r
  <2> QED
    BY <2>2, <2>3 DEF TypeOK, Jobs
<1>5. saved' \in [Inst -> [Ids -> 0..clock']]
  <2>1. saved' = [saved EXCEPT ![i][id] = clock] /\ clock' = clock
    BY DEF Insert
  <2> QED
    BY <2>1, ClockTypes DEF TypeOK
<1>6. ops' \in 0..MaxEvents
  BY MutationCounted DEF Insert
<1> QED
  BY <1>2, <1>3, <1>4, <1>5, <1>6 DEF Insert, TypeOK

LEMMA EditType ==
  ASSUME TypeOK, NEW i \in Inst, NEW id \in Ids, NEW st \in Status, NEW lock \in BOOLEAN,
         Edit(i, id, st, lock)
  PROVE  TypeOK'
<1> DEFINE r == [st |-> st, upd |-> clock]
<1>1. r \in Rec
  BY ClockTypes DEF Rec
<1>2. mem' \in [Inst -> [Ids -> Seq(Rec)]]
  <2>1. mem[i][id] \in Seq(Rec) /\ mem[i][id] # << >>
    BY DEF Edit, TypeOK
  <2>2. [mem[i][id] EXCEPT ![1] = r] \in Seq(Rec)
    <3> HIDE DEF r
    <3> QED
      BY <1>1, <2>1
  <2>3. mem' = [mem EXCEPT ![i] = [mem[i] EXCEPT ![id] = [mem[i][id] EXCEPT ![1] = r]]]
    BY DEF Edit
  <2> HIDE DEF r
  <2> QED
    BY <2>2, <2>3 DEF TypeOK
<1>3. CASE /\ db' = [db EXCEPT ![i][id] = IF @ = None THEN None ELSE Stored(r)]
           /\ task' = [task EXCEPT ![i]["admin"] = Send(Push(id, r), "idle", lock, {})]
           /\ saved' = [saved EXCEPT ![i][id] = IF db[i][id] = None THEN @ ELSE clock]
           /\ UNCHANGED faults
  <2>1. Stored(r) \in Rec
    BY <1>1, StoredType
  <2>2. Push(id, r) \in Seq(Commands)
    BY <1>1, PushType
  <2>3. Send(Push(id, r), "idle", lock, {}) \in Tasks
    BY <2>2, SendType
  <2> HIDE DEF r
  <2>4. db' \in [Inst -> Rows]
    BY <1>3, <2>1 DEF TypeOK, Rows
  <2>5. task' \in [Inst -> [Jobs -> Tasks]]
    BY <1>3, <2>3 DEF TypeOK, Jobs
  <2>6. saved' \in [Inst -> [Ids -> 0..clock]]
    BY <1>3, ClockTypes DEF TypeOK
  <2> QED
    BY <1>2, <1>3, <2>4, <2>5, <2>6, MutationCounted DEF Edit, TypeOK
<1>4. CASE Fault /\ UNCHANGED <<db, task, saved>>
  BY <1>2, <1>4, FaultCounted, MutationCounted DEF Edit, TypeOK
<1> QED
  BY <1>3, <1>4 DEF Edit

LEMMA TakeOutType ==
  ASSUME TypeOK, NEW i \in Inst, NEW id \in Ids, TakeOut(i, id)
  PROVE  TypeOK'
<1> DEFINE cmds == <<Cmd("row", id, None), Cmd("del", id, None), Cmd("srem", id, None)>>
<1>1. cmds \in Seq(Commands)
  BY DEF Cmd, Commands
<1>2. Send(cmds, "idle", FALSE, {}) \in Tasks
  BY <1>1, SendType
<1>3. task' = [task EXCEPT ![i]["admin"] = Send(cmds, "idle", FALSE, {})]
  BY DEF TakeOut
<1> HIDE DEF cmds
<1>4. task' \in [Inst -> [Jobs -> Tasks]]
  BY <1>2, <1>3 DEF TypeOK, Jobs
<1>5. saved' \in [Inst -> [Ids -> 0..clock]]
  BY ClockTypes DEF TakeOut, TypeOK
<1>6. mem' \in [Inst -> [Ids -> Seq(Rec)]]
  BY DEF TakeOut, TypeOK
<1> QED
  BY <1>4, <1>5, <1>6, MutationCounted DEF TakeOut, TypeOK

LEMMA MutationType ==
  ASSUME TypeOK, NEW i \in Inst, Mutation(i)
  PROVE  TypeOK'
<1>1. CASE DownloadBackup(i)
  BY <1>1, MutationCounted DEF DownloadBackup, TypeOK
<1>2. CASE RestoreBackup(i)
  <2>1. [Idle EXCEPT !.at = "clear"] \in Tasks
    BY IdleType DEF Tasks, TaskRecords
  <2>2. task' \in [Inst -> [Jobs -> Tasks]]
    BY <1>2, <2>1 DEF RestoreBackup, TypeOK, Jobs
  <2>3. saved' \in [Inst -> [Ids -> 0..clock]]
    BY <1>2, ClockTypes DEF RestoreBackup, TypeOK
  <2>4. db' \in [Inst -> Rows]
    BY <1>2 DEF RestoreBackup, TypeOK
  <2> QED
    BY <1>2, <2>2, <2>3, <2>4, MutationCounted DEF RestoreBackup, TypeOK
<1> QED
  BY <1>1, <1>2, InsertType, EditType, TakeOutType DEF Mutation

LEMMA DeliverType ==
  ASSUME TypeOK, NEW i \in Inst, NEW t \in Jobs, Deliver(i, t)
  PROVE  TypeOK'
<1> DEFINE tk == task[i][t]
           c  == Head(tk.cmds)
<1>1. tk \in Tasks
  BY DEF TypeOK
<1>2. tk.cmds # << >>
  BY <1>1 DEF Deliver, Tasks
<1>3. tk.cmds \in Seq(Commands) /\ c \in Commands /\ Tail(tk.cmds) \in Seq(Commands)
  BY <1>1, <1>2 DEF Tasks, TaskRecords
<1>4. task' \in [Inst -> [Jobs -> Tasks]]
  <2>1. tk.then \in {"idle", "publish", "orphans"} /\ tk.lock \in BOOLEAN /\ tk.ids \in SUBSET Ids
    BY <1>1 DEF Tasks, TaskRecords
  <2>2. Send(Tail(tk.cmds), tk.then, tk.lock, tk.ids) \in Tasks
    <3> HIDE DEF tk
    <3> QED
      BY <1>3, <2>1, SendType
  <2>3. task' = [task EXCEPT ![i][t] = Send(Tail(tk.cmds), tk.then, tk.lock, tk.ids)]
    BY DEF Deliver
  <2> HIDE DEF tk
  <2> QED
    BY <2>2, <2>3 DEF TypeOK
<1>5. c.id \in Ids /\ c.rec \in Rec \cup {None}
  BY <1>3 DEF Commands
<1>6. /\ rec' \in Rows /\ db' \in [Inst -> Rows] /\ idx' \subseteq Ids /\ gone' \subseteq Ids
      /\ faults' \in 0..MaxFaults
  <2> HIDE DEF c
  <2>1. CASE c.op # "row" /\ Fault /\ UNCHANGED <<rec, idx, db, gone>>
    BY <2>1, FaultCounted DEF TypeOK
  <2>2. CASE RedisSet(c) /\ UNCHANGED faults
    BY <2>2, <1>5 DEF RedisSet, TypeOK, Rows
  <2>3. CASE RedisSAdd(c) /\ UNCHANGED faults
    BY <2>3, <1>5 DEF RedisSAdd, TypeOK
  <2>4. CASE RedisDel(c) /\ UNCHANGED faults
    BY <2>4, <1>5 DEF RedisDel, TypeOK, Rows
  <2>5. CASE RedisSRem(c) /\ UNCHANGED faults
    BY <2>5, <1>5 DEF RedisSRem, TypeOK
  <2>6. CASE DeleteRow(i, c) /\ UNCHANGED faults
    BY <2>6, <1>5 DEF DeleteRow, TypeOK, Rows
  <2> QED
    BY <2>1, <2>2, <2>3, <2>4, <2>5, <2>6 DEF Deliver, c
<1> QED
  BY <1>4, <1>6 DEF Deliver, TypeOK

LEMMA SMembersType ==
  ASSUME TypeOK, NEW i \in Inst, NEW t \in Jobs, SMembers(i, t)
  PROVE  TypeOK'
<1>1. /\ [Idle EXCEPT !.at = "index", !.ids = idx] \in Tasks
      /\ [Idle EXCEPT !.at = "publish"] \in Tasks
  BY IdleType DEF Tasks, TaskRecords, TypeOK
<1>2. task' \in [Inst -> [Jobs -> Tasks]]
  <2>1. PICK new \in Tasks : task' = [task EXCEPT ![i][t] = new]
    BY <1>1 DEF SMembers
  <2> QED
    BY <2>1 DEF TypeOK
<1>3. faults' \in 0..MaxFaults
  BY FaultCounted DEF SMembers, TypeOK
<1> QED
  BY <1>2, <1>3 DEF SMembers, TypeOK

\* What a merge has read: the records of Redis, or none of them.
LEMMA MGetType ==
  ASSUME TypeOK, NEW i \in Inst, NEW t \in Jobs, MGet(i, t)
  PROVE  TypeOK'
<1> DEFINE tk == task[i][t]
           Read(r) == [id \in Ids |-> IF id \in tk.ids THEN r[id] ELSE None]
<1>1. PICK r \in {rec, NoRows} :
         /\ task' = [task EXCEPT ![i][t] = [tk EXCEPT !.at = "apply", !.got = Read(r)]]
         /\ faults' = faults \/ Fault
  BY DEF MGet
<1>2. r \in Rows
  BY DEF TypeOK, NoRows, Rows
<1>3. Read(r) \in Rows
  BY <1>2 DEF Rows
<1>4. [tk EXCEPT !.at = "apply", !.got = Read(r)] \in Tasks
  <2>1. tk \in Tasks
    BY DEF TypeOK
  <2> HIDE DEF tk, Read
  <2> QED
    BY <1>3, <2>1 DEF Tasks, TaskRecords
<1>5. task' \in [Inst -> [Jobs -> Tasks]]
  <2> HIDE DEF tk, Read
  <2> QED
    BY <1>1, <1>4 DEF TypeOK
<1>6. faults' \in 0..MaxFaults
  BY <1>1, FaultCounted DEF TypeOK
<1> QED
  BY <1>5, <1>6 DEF MGet, TypeOK

LEMMA MergedObjectsType ==
  ASSUME NEW r \in Rec \cup {None}, NEW objects \in Seq(Rec)
  PROVE  MergedObjects(r, objects) \in Seq(Rec)
<1>0. Newer(r, objects) \in BOOLEAN
  BY DEF Newer
<1>1. CASE r = None
  BY <1>1 DEF MergedObjects
<1>2. CASE r # None /\ objects = << >>
  BY <1>2 DEF MergedObjects
<1>3. CASE r # None /\ objects # << >> /\ Newer(r, objects)
  <2>1. <<r>> \in Seq(Rec) /\ Tail(objects) \in Seq(Rec)
    BY <1>3
  <2>2. <<r>> \o Tail(objects) \in Seq(Rec)
    BY <2>1
  <2> QED
    BY <1>3, <2>2 DEF MergedObjects
<1>4. CASE r # None /\ objects # << >> /\ ~ Newer(r, objects)
  BY <1>4 DEF MergedObjects
<1> QED
  BY <1>0, <1>1, <1>2, <1>3, <1>4

LEMMA MergedRowType ==
  ASSUME NEW r \in Rec \cup {None}, NEW objects \in Seq(Rec), NEW row \in Rec \cup {None}
  PROVE  MergedRow(r, objects, row) \in Rec \cup {None}
BY StoredType DEF MergedRow

LEMMA MergeType ==
  ASSUME TypeOK, NEW i \in Inst, NEW t \in Jobs, Merge(i, t)
  PROVE  TypeOK'
<1> DEFINE tk == task[i][t]
           m  == [id \in Ids |-> MergedObjects(tk.got[id], mem[i][id])]
           rows == [id \in Ids |-> MergedRow(tk.got[id], mem[i][id], db[i][id])]
           localOnly == {id \in Ids \ tk.ids : m[id] # << >>}
<1>1. tk \in Tasks /\ mem[i] \in [Ids -> Seq(Rec)] /\ db[i] \in Rows
  BY DEF TypeOK
<1>2. \A id \in Ids : /\ tk.got[id] \in Rec \cup {None} /\ mem[i][id] \in Seq(Rec)
                      /\ db[i][id] \in Rec \cup {None}
  BY <1>1 DEF Tasks, TaskRecords, Rows
<1>3. m \in [Ids -> Seq(Rec)]
  BY <1>2, MergedObjectsType
<1>4. rows \in Rows
  BY <1>2, MergedRowType DEF Rows
<1>5. /\ mem' = [mem EXCEPT ![i] = m] /\ db' = [db EXCEPT ![i] = rows]
      /\ task' = [task EXCEPT ![i][t] = Send(PushAll(m, localOnly), After(t), FALSE, {})]
  BY DEF Merge
<1>6. Send(PushAll(m, localOnly), After(t), FALSE, {}) \in Tasks
  <2>1. localOnly \in SUBSET Ids
    OBVIOUS
  <2>2. PushAll(m, localOnly) \in Seq(Commands)
    <3> HIDE DEF m, localOnly
    <3>1. PushAll(m, localOnly) \in Seq(Pushes)
      BY <1>3, <2>1, PushAllType
    <3> QED
      BY <3>1, PushesAreCommands
  <2>3. After(t) \in {"idle", "publish", "orphans"}
    BY DEF After
  <2> QED
    BY <2>2, <2>3, SendType
<1> HIDE DEF m, rows, localOnly
<1>7. mem' \in [Inst -> [Ids -> Seq(Rec)]] /\ db' \in [Inst -> Rows]
  BY <1>3, <1>4, <1>5 DEF TypeOK
<1>8. task' \in [Inst -> [Jobs -> Tasks]]
  BY <1>5, <1>6 DEF TypeOK
<1> QED
  BY <1>7, <1>8 DEF Merge, TypeOK

LEMMA ReloadType ==
  ASSUME TypeOK, NEW i \in Inst, ReloadStep(i)
  PROVE  TypeOK'
<1> DEFINE tk == task[i]["admin"]
<1>0. tk \in Tasks /\ "admin" \in Jobs
  BY DEF TypeOK, Jobs
<1>1. CASE ClearRoster(i)
  <2>1. [tk EXCEPT !.at = "load"] \in Tasks
    BY <1>0 DEF Tasks, TaskRecords
  <2>2. task' = [task EXCEPT ![i]["admin"] = [tk EXCEPT !.at = "load"]]
    BY <1>1 DEF ClearRoster
  <2> HIDE DEF tk
  <2>3. task' \in [Inst -> [Jobs -> Tasks]]
    BY <1>0, <2>1, <2>2 DEF TypeOK
  <2>4. mem' \in [Inst -> [Ids -> Seq(Rec)]]
    BY <1>1 DEF ClearRoster, TypeOK
  <2> QED
    BY <1>1, <2>3, <2>4 DEF ClearRoster, TypeOK
<1>2. CASE LoadFromDb(i)
  <2>1. [tk EXCEPT !.at = "merge"] \in Tasks
    BY <1>0 DEF Tasks, TaskRecords
  <2>2. task' = [task EXCEPT ![i]["admin"] = [tk EXCEPT !.at = "merge"]]
    BY <1>2 DEF LoadFromDb
  <2> HIDE DEF tk
  <2>3. task' \in [Inst -> [Jobs -> Tasks]]
    BY <1>0, <2>1, <2>2 DEF TypeOK
  <2>4. \A id \in Ids : Loaded(mem[i][id], db[i][id]) \in Seq(Rec)
    <3>1. \A id \in Ids : mem[i][id] \in Seq(Rec) /\ db[i][id] \in Rec \cup {None}
      BY DEF TypeOK, Rows
    <3> QED
      BY <3>1 DEF Loaded
  <2>5. mem' \in [Inst -> [Ids -> Seq(Rec)]]
    BY <1>2, <2>4 DEF LoadFromDb, TypeOK
  <2> QED
    BY <1>2, <2>3, <2>5 DEF LoadFromDb, TypeOK
<1>3. CASE Publish(i)
  <2>1. Roster(i) \in SUBSET Ids /\ mem[i] \in [Ids -> Seq(Rec)]
    BY DEF Roster, TypeOK
  <2>2. PushAll(mem[i], Roster(i)) \in Seq(Commands)
    <3>1. PushAll(mem[i], Roster(i)) \in Seq(Pushes)
      BY <2>1, PushAllType
    <3> QED
      BY <3>1, PushesAreCommands
  <2>3. Send(PushAll(mem[i], Roster(i)), "orphans", TRUE, Roster(i)) \in Tasks
    BY <2>1, <2>2, SendType
  <2>4. task' \in [Inst -> [Jobs -> Tasks]]
    BY <1>0, <1>3, <2>3 DEF Publish, TypeOK
  <2> QED
    BY <1>3, <2>4 DEF Publish, TypeOK
<1>4. CASE DropOrphans(i)
  <2> DEFINE order == SetToSeq(idx \ tk.ids)
             Each(op) == [n \in DOMAIN order |-> Cmd(op, order[n], None)]
  <2>1. order \in Seq(Ids)
    <3>1. idx \ tk.ids \subseteq Ids
      BY DEF TypeOK
    <3>2. IsFiniteSet(idx \ tk.ids)
      BY <3>1, FleetAssumption, FS_Subset
    <3>3. order \in Seq(idx \ tk.ids)
      BY <3>2, SetToSeqType
    <3> QED
      BY <3>1, <3>3
  <2>2. \A op \in {"srem", "del"} : Each(op) \in Seq(Commands)
    <3>1. DOMAIN order = 1..Len(order) /\ Len(order) \in Nat
      BY <2>1
    <3>2. \A n \in 1..Len(order) : order[n] \in Ids
      BY <2>1
    <3>3. \A op \in {"srem", "del"}, id \in Ids : Cmd(op, id, None) \in Commands
      BY DEF Cmd, Commands
    <3> HIDE DEF order
    <3> QED
      BY <3>1, <3>2, <3>3
  <2>3. Each("srem") \o Each("del") \in Seq(Commands)
    <3> HIDE DEF Each
    <3>1. Each("srem") \in Seq(Commands) /\ Each("del") \in Seq(Commands)
      BY <2>2
    <3> QED
      BY <3>1
  <2>4. Send(Each("srem") \o Each("del"), "idle", FALSE, {}) \in Tasks
    <3> HIDE DEF Each
    <3> QED
      BY <2>3, SendType
  <2>5. PICK new \in {Send(Each("srem") \o Each("del"), "idle", FALSE, {}), Idle} :
          task' = [task EXCEPT ![i]["admin"] = new]
    BY <1>4 DEF DropOrphans
  <2> HIDE DEF Each, order, tk
  <2>6. task' \in [Inst -> [Jobs -> Tasks]]
    BY <1>0, <2>4, <2>5, IdleType DEF TypeOK
  <2>7. faults' \in 0..MaxFaults
    BY <1>4, FaultCounted DEF DropOrphans, TypeOK
  <2> QED
    BY <1>4, <2>6, <2>7 DEF DropOrphans, TypeOK
<1> QED
  BY <1>1, <1>2, <1>3, <1>4 DEF ReloadStep

\* A restart reloads rows of the database's type; saved changes with the disk only.
LEMMA RestartType ==
  ASSUME TypeOK, NEW i \in Inst, NEW rows \in Rows, Restart(i, rows),
         saved' \in [Inst -> [Ids -> 0..clock]]
  PROVE  TypeOK'
<1>1. mem' \in [Inst -> [Ids -> Seq(Rec)]]
  <2>1. \A id \in Ids : Loaded(<< >>, rows[id]) \in Seq(Rec)
    BY DEF Loaded, Rows
  <2> QED
    BY <2>1 DEF Restart, TypeOK
<1>2. task' \in [Inst -> [Jobs -> Tasks]]
  BY IdleType DEF Restart, TypeOK
<1>3. db' \in [Inst -> Rows]
  BY DEF Restart, TypeOK
<1>4. faults' \in 0..MaxFaults
  BY FaultCounted DEF Restart
<1> QED
  BY <1>1, <1>2, <1>3, <1>4 DEF Restart, TypeOK

LEMMA NextType == TypeOK /\ [Next]_vars => TypeOK'
<1> SUFFICES ASSUME TypeOK, [Next]_vars PROVE TypeOK'
  OBVIOUS
<1>1. CASE UNCHANGED vars
  BY <1>1 DEF vars, TypeOK, Rows
<1>2. CASE Tick
  <2>1. clock \in 1..MaxTime /\ clock' \in 1..MaxTime /\ 0..clock \subseteq 0..clock'
    BY <1>2, FleetAssumption DEF Tick, TypeOK
  <2>2. saved' \in [Inst -> [Ids -> 0..clock']]
    BY <1>2, <2>1 DEF Tick, TypeOK
  <2> QED
    BY <1>2, <2>1, <2>2 DEF Tick, TypeOK
<1>3. ASSUME NEW i \in Inst, Mutation(i)
      PROVE  TypeOK'
  BY <1>3, MutationType
<1>4. ASSUME NEW i \in Inst, NEW t \in Jobs, TaskStep(i, t)
      PROVE  TypeOK'
  BY <1>4, SMembersType, MGetType, MergeType, DeliverType DEF TaskStep
<1>5. ASSUME NEW i \in Inst, ReloadStep(i)
      PROVE  TypeOK'
  BY <1>5, ReloadType
<1>6. ASSUME NEW i \in Inst, Crash(i)
      PROVE  TypeOK'
  <2>1. db[i] \in Rows /\ saved' \in [Inst -> [Ids -> 0..clock]]
    BY <1>6 DEF Crash, TypeOK
  <2> QED
    BY <1>6, <2>1, RestartType DEF Crash
<1>7. ASSUME NEW i \in Inst, Wipe(i)
      PROVE  TypeOK'
  <2>1. NoRows \in Rows
    BY DEF NoRows, Rows
  <2>2. saved' \in [Inst -> [Ids -> 0..clock]]
    BY <1>7, ClockTypes DEF Wipe, TypeOK
  <2> QED
    BY <1>7, <2>1, <2>2, RestartType DEF Wipe
<1>8. CASE Next
  BY <1>2, <1>3, <1>4, <1>5, <1>6, <1>7, <1>8, StepCases
<1> QED
  BY <1>1, <1>8

\* Every variable keeps its type, in a roster of any size: what the commands
\* under way carry, and what the merges read, are always records of it.
THEOREM TypeCorrect == Spec => []TypeOK
<1>1. Init => TypeOK
  BY InitType
<1>2. TypeOK /\ [Next]_vars => TypeOK'
  BY NextType
<1> QED
  BY <1>1, <1>2, PTL DEF Spec

---------------------------------------------------------------------------
(* Stored edits are kept.                                                  *)

Version(objects) == IF objects = << >> THEN 0 ELSE objects[1].upd

\* The rows a list of commands is going to delete.
RowsOf(cmds) == {cmds[n].id : n \in {k \in DOMAIN cmds : cmds[k].op = "row"}}

\* Neither the memory nor the database of an instance is behind what it stored.
UpToDate(i) ==
  kind = "account" =>
    \A id \in Ids : /\ saved[i][id] <= Version(mem[i][id])
                    /\ saved[i][id] <= db[i][id].upd

\* A row that is about to go, and a roster about to be cleared, hold no edit.
NothingAtStake(i) ==
  /\ RowsOf(task[i]["tick"].cmds) = {}
  /\ \A id \in RowsOf(task[i]["admin"].cmds) : saved[i][id] = 0
  /\ task[i]["admin"].at = "clear" => \A id \in Ids : saved[i][id] = 0

Sound(i) == UpToDate(i) /\ NothingAtStake(i)
Soundness == \A i \in Inst : Sound(i)

LEMMA VersionType ==
  ASSUME NEW objects \in Seq(Rec)
  PROVE  /\ Version(objects) \in Nat
         /\ objects # << >> => Version(objects) = objects[1].upd /\ objects[1] \in Rec
<1>1. CASE objects = << >>
  BY <1>1 DEF Version
<1>2. CASE objects # << >>
  <2>1. objects[1] \in Rec
    BY <1>2
  <2>2. objects[1].upd \in Nat
    BY <2>1 DEF Rec
  <2> QED
    BY <1>2, <2>1, <2>2 DEF Version
<1> QED
  BY <1>1, <1>2

LEMMA NoRowsInPushes ==
  ASSUME NEW cmds \in Seq(Pushes)
  PROVE  RowsOf(cmds) = {}
<1>1. \A k \in DOMAIN cmds : cmds[k] \in Pushes
  OBVIOUS
<1>2. \A c \in Pushes : c.op # "row"
  BY DEF Pushes
<1> QED
  BY <1>1, <1>2 DEF RowsOf

LEMMA PushHasNoRow ==
  ASSUME NEW id \in Ids, NEW r \in Rec
  PROVE  RowsOf(Push(id, r)) = {}
<1>1. Push(id, r) \in Seq(Pushes)
  BY DEF Push, PushAccount, PushKey, Cmd, Pushes
<1> QED
  BY <1>1, NoRowsInPushes

LEMMA RowsOfTail ==
  ASSUME NEW cmds \in Seq(Commands), cmds # << >>
  PROVE  /\ RowsOf(Tail(cmds)) \subseteq RowsOf(cmds)
         /\ Head(cmds).op = "row" => Head(cmds).id \in RowsOf(cmds)
<1>1. \A n \in DOMAIN Tail(cmds) : n + 1 \in DOMAIN cmds /\ Tail(cmds)[n] = cmds[n + 1]
  OBVIOUS
<1>2. 1 \in DOMAIN cmds /\ Head(cmds) = cmds[1]
  OBVIOUS
<1> QED
  BY <1>1, <1>2 DEF RowsOf

\* What an instance does leaves the others alone.
LEMMA OthersSound ==
  ASSUME NEW i \in Inst, Soundness,
         UNCHANGED kind, Sound(i)',
         \A j \in Inst \ {i} : /\ mem'[j] = mem[j] /\ db'[j] = db[j]
                               /\ saved'[j] = saved[j] /\ task'[j] = task[j]
  PROVE  Soundness'
<1> SUFFICES ASSUME NEW j \in Inst, j # i PROVE Sound(j)'
  BY DEF Soundness
<1>1. Sound(j)
  BY DEF Soundness
<1> QED
  BY <1>1 DEF Sound, UpToDate, NothingAtStake

\* A merge never takes an instance back to an older record of an id.
LEMMA MergedIsNewer ==
  ASSUME NEW r \in Rec \cup {None}, NEW objects \in Seq(Rec), NEW row \in Rec \cup {None},
         NEW n \in Nat, n <= Version(objects), n <= row.upd, kind = "account"
  PROVE  /\ n <= Version(MergedObjects(r, objects))
         /\ n <= MergedRow(r, objects, row).upd
<1>0. /\ Newer(r, objects) \in BOOLEAN
      /\ r.upd \in Nat /\ row.upd \in Nat
      /\ \A s : Stored(s) = s
  BY DEF Newer, Rec, None, Stored
<1>1. CASE r = None
  BY <1>1 DEF MergedObjects, MergedRow
<1>2. CASE r # None /\ objects = << >>
  <2>1. Version(objects) = 0 /\ Version(<<r>>) = r.upd
    BY <1>2 DEF Version
  <2> QED
    BY <1>0, <1>2, <2>1 DEF MergedObjects, MergedRow
<1>3. CASE r # None /\ objects # << >> /\ Newer(r, objects)
  <2>1. n <= r.upd
    <3>1. Version(objects) = objects[1].upd /\ Version(objects) \in Nat
      BY <1>3, VersionType
    <3>2. r.upd > objects[1].upd
      BY <1>3 DEF Newer
    <3> QED
      BY <1>0, <3>1, <3>2
  <2>2. /\ <<r>> \o Tail(objects) # << >>
        /\ (<<r>> \o Tail(objects))[1] = r
    <3>1. <<r>> \in Seq(Rec) /\ Tail(objects) \in Seq(Rec) /\ Len(<<r>>) = 1
      BY <1>3
    <3> QED
      BY <3>1
  <2>3. Version(<<r>> \o Tail(objects)) = r.upd
    BY <2>2 DEF Version
  <2>4. CASE row = None
    BY <1>3, <2>1, <2>3, <2>4 DEF MergedObjects, MergedRow
  <2>5. CASE row # None
    BY <1>0, <1>3, <2>1, <2>3, <2>5 DEF MergedObjects, MergedRow
  <2> QED
    BY <2>4, <2>5
<1>4. CASE r # None /\ objects # << >> /\ ~ Newer(r, objects)
  BY <1>4 DEF MergedObjects, MergedRow
<1> QED
  BY <1>0, <1>1, <1>2, <1>3, <1>4

LEMMA InitSound == Init => Soundness
<1> SUFFICES ASSUME Init PROVE Soundness
  OBVIOUS
<1>1. \A i \in Inst, id \in Ids : /\ saved[i][id] = 0 /\ db[i][id].upd = 0
                                  /\ Version(mem[i][id]) = 0
  BY DEF Init, Version, None
<1>2. \A i \in Inst, t \in Jobs : task[i][t].at = "idle" /\ RowsOf(task[i][t].cmds) = {}
  BY DEF Init, Idle, RowsOf
<1> QED
  BY <1>1, <1>2 DEF Soundness, Sound, UpToDate, NothingAtStake, Jobs

LEMMA InsertSound ==
  ASSUME TypeOK, Soundness, NEW i \in Inst, NEW id \in Ids, Insert(i, id)
  PROVE  Soundness'
<1> DEFINE r == [st |-> "on", upd |-> clock]
           new == Send(Push(id, r), "idle", FALSE, {})
<1>1. r \in Rec /\ clock \in Nat
  BY ClockTypes DEF Rec, Status
<1>2. new.at # "clear" /\ RowsOf(new.cmds) = {}
  <2> HIDE DEF r
  <2>1. Push(id, r) \in Seq(Commands) /\ RowsOf(Push(id, r)) = {}
    BY <1>1, PushType, PushHasNoRow
  <2> QED
    BY <2>1, SendType
<1>3. /\ db' = [db EXCEPT ![i][id] = Stored(r)] /\ mem' = [mem EXCEPT ![i][id] = <<r>>]
      /\ task' = [task EXCEPT ![i]["admin"] = new]
      /\ saved' = [saved EXCEPT ![i][id] = clock]
      /\ UNCHANGED kind
  BY DEF Insert
<1>4. Version(<<r>>) = clock /\ (kind = "account" => Stored(r).upd = clock)
  BY DEF Version, Stored
<1>5. Sound(i)
  BY DEF Soundness
<1> HIDE DEF r, new
<1>6. UpToDate(i)'
  BY <1>1, <1>3, <1>4, <1>5 DEF Sound, UpToDate, TypeOK, Rows
<1>7. NothingAtStake(i)'
  <2>1. task'[i]["admin"] = new /\ task'[i]["tick"] = task[i]["tick"]
    BY <1>3 DEF TypeOK, Jobs
  <2> QED
    BY <2>1, <1>2, <1>5 DEF Sound, NothingAtStake
<1>8. \A j \in Inst \ {i} : /\ mem'[j] = mem[j] /\ db'[j] = db[j]
                            /\ saved'[j] = saved[j] /\ task'[j] = task[j]
  BY <1>3 DEF TypeOK
<1> QED
  BY <1>3, <1>6, <1>7, <1>8, OthersSound DEF Sound

LEMMA EditSound ==
  ASSUME TypeOK, Soundness, NEW i \in Inst, NEW id \in Ids, NEW st \in Status,
         NEW lock \in BOOLEAN, Edit(i, id, st, lock)
  PROVE  Soundness'
<1> DEFINE r == [st |-> st, upd |-> clock]
           new == Send(Push(id, r), "idle", lock, {})
<1>1. r \in Rec /\ clock \in Nat /\ saved[i][id] \in Nat /\ saved[i][id] <= clock
  BY ClockTypes DEF Rec, TypeOK
<1>2. new.at # "clear" /\ RowsOf(new.cmds) = {}
  <2> HIDE DEF r
  <2>1. Push(id, r) \in Seq(Commands) /\ RowsOf(Push(id, r)) = {}
    BY <1>1, PushType, PushHasNoRow
  <2> QED
    BY <2>1, SendType
<1>3. Sound(i)
  BY DEF Soundness
<1>4. /\ mem' = [mem EXCEPT ![i] = [mem[i] EXCEPT ![id] = [mem[i][id] EXCEPT ![1] = r]]]
      /\ UNCHANGED kind
  BY DEF Edit
<1>5. Version(mem'[i][id]) = clock
  <2>1. mem[i][id] \in Seq(Rec) /\ mem[i][id] # << >>
    BY DEF Edit, TypeOK
  <2>2. mem'[i][id] = [mem[i][id] EXCEPT ![1] = r]
    BY <1>4 DEF TypeOK
  <2>3. mem'[i][id] # << >> /\ mem'[i][id][1] = r
    <3> HIDE DEF r
    <3> QED
      BY <2>1, <2>2
  <2> QED
    BY <2>3 DEF Version
<1>6. \A x \in Ids \ {id} : mem'[i][x] = mem[i][x]
  BY <1>4 DEF TypeOK
<1>7. CASE /\ db' = [db EXCEPT ![i][id] = IF @ = None THEN None ELSE Stored(r)]
           /\ task' = [task EXCEPT ![i]["admin"] = new]
           /\ saved' = [saved EXCEPT ![i][id] = IF db[i][id] = None THEN @ ELSE clock]
  <2>1. kind = "account" => Stored(r).upd = clock
    BY DEF Stored
  <2> HIDE DEF r, new
  <2>2. saved'[i][id] <= clock
    BY <1>1, <1>7 DEF TypeOK
  <2>3. kind = "account" => saved'[i][id] <= db'[i][id].upd
    <3>1. CASE db[i][id] = None
      <4>1. db'[i][id] = None /\ saved'[i][id] = saved[i][id]
        BY <1>7, <3>1 DEF TypeOK, Rows
      <4> QED
        BY <3>1, <4>1, <1>3 DEF Sound, UpToDate
    <3>2. CASE db[i][id] # None
      <4>1. db'[i][id] = Stored(r) /\ saved'[i][id] = clock
        BY <1>7, <3>2 DEF TypeOK, Rows
      <4> QED
        BY <4>1, <1>1, <2>1
    <3> QED
      BY <3>1, <3>2
  <2>4. \A x \in Ids \ {id} : saved'[i][x] = saved[i][x] /\ db'[i][x] = db[i][x]
    BY <1>7 DEF TypeOK, Rows
  <2>5. UpToDate(i)'
    BY <1>3, <1>4, <1>5, <1>6, <2>2, <2>3, <2>4 DEF Sound, UpToDate
  <2>6. NothingAtStake(i)'
    <3>1. task'[i]["admin"] = new /\ task'[i]["tick"] = task[i]["tick"]
      BY <1>7 DEF TypeOK, Jobs
    <3> QED
      BY <3>1, <1>2, <1>3 DEF Sound, NothingAtStake
  <2>7. \A j \in Inst \ {i} : /\ mem'[j] = mem[j] /\ db'[j] = db[j]
                              /\ saved'[j] = saved[j] /\ task'[j] = task[j]
    BY <1>4, <1>7 DEF TypeOK
  <2> QED
    BY <1>4, <2>5, <2>6, <2>7, OthersSound DEF Sound
<1>8. CASE UNCHANGED <<db, task, saved>>
  <2>1. UpToDate(i)'
    BY <1>1, <1>3, <1>4, <1>5, <1>6, <1>8 DEF Sound, UpToDate
  <2>2. NothingAtStake(i)'
    BY <1>3, <1>8 DEF Sound, NothingAtStake
  <2>3. \A j \in Inst \ {i} : /\ mem'[j] = mem[j] /\ db'[j] = db[j]
                              /\ saved'[j] = saved[j] /\ task'[j] = task[j]
    BY <1>4, <1>8 DEF TypeOK
  <2> QED
    BY <1>4, <2>1, <2>2, <2>3, OthersSound DEF Sound
<1> QED
  BY <1>7, <1>8 DEF Edit

LEMMA TakeOutSound ==
  ASSUME TypeOK, Soundness, NEW i \in Inst, NEW id \in Ids, TakeOut(i, id)
  PROVE  Soundness'
<1> DEFINE cmds == <<Cmd("row", id, None), Cmd("del", id, None), Cmd("srem", id, None)>>
           new == Send(cmds, "idle", FALSE, {})
<1>1. cmds \in Seq(Commands)
  BY DEF Cmd, Commands
<1>2. RowsOf(cmds) \subseteq {id}
  <2>1. \A n \in DOMAIN cmds : cmds[n].id = id
    BY DEF Cmd
  <2> QED
    BY <2>1 DEF RowsOf
<1>3. new.cmds = cmds /\ new.at # "clear"
  BY <1>1, SendType
<1>4. /\ mem' = [mem EXCEPT ![i][id] = << >>] /\ saved' = [saved EXCEPT ![i][id] = 0]
      /\ task' = [task EXCEPT ![i]["admin"] = new]
      /\ UNCHANGED <<kind, db>>
  BY DEF TakeOut
<1>5. Sound(i)
  BY DEF Soundness
<1> HIDE DEF cmds, new
<1>6. UpToDate(i)'
  <2>1. /\ saved'[i][id] = 0 /\ Version(mem'[i][id]) = 0
        /\ db'[i][id].upd \in Nat
        /\ \A x \in Ids \ {id} : saved'[i][x] = saved[i][x] /\ mem'[i][x] = mem[i][x]
    BY <1>4 DEF TypeOK, Version, Rows, Rec, None
  <2> QED
    BY <2>1, <1>4, <1>5 DEF Sound, UpToDate
<1>7. NothingAtStake(i)'
  <2>1. /\ task'[i]["admin"] = new /\ task'[i]["tick"] = task[i]["tick"]
        /\ saved'[i][id] = 0
    BY <1>4 DEF TypeOK, Jobs
  <2> QED
    BY <2>1, <1>2, <1>3, <1>5 DEF Sound, NothingAtStake
<1>8. \A j \in Inst \ {i} : /\ mem'[j] = mem[j] /\ db'[j] = db[j]
                            /\ saved'[j] = saved[j] /\ task'[j] = task[j]
  BY <1>4 DEF TypeOK
<1> QED
  BY <1>4, <1>6, <1>7, <1>8, OthersSound DEF Sound

LEMMA BackupSound ==
  ASSUME TypeOK, Soundness, NEW i \in Inst, DownloadBackup(i) \/ RestoreBackup(i)
  PROVE  Soundness'
<1>1. CASE DownloadBackup(i)
  BY <1>1 DEF DownloadBackup, Soundness, Sound, UpToDate, NothingAtStake
<1>2. CASE RestoreBackup(i)
  <2> DEFINE new == [Idle EXCEPT !.at = "clear"]
  <2>1. /\ db' = [db EXCEPT ![i] = snap] /\ task' = [task EXCEPT ![i]["admin"] = new]
        /\ saved' = [saved EXCEPT ![i] = [id \in Ids |-> 0]] /\ UNCHANGED <<kind, mem>>
    BY <1>2 DEF RestoreBackup
  <2>2. RowsOf(new.cmds) = {}
    BY DEF Idle, RowsOf
  <2>3. \A id \in Ids : /\ saved'[i][id] = 0
                        /\ db'[i][id].upd \in Nat
                        /\ Version(mem'[i][id]) \in Nat
    <3> SUFFICES ASSUME NEW id \in Ids
                 PROVE  /\ saved'[i][id] = 0
                        /\ db'[i][id].upd \in Nat
                        /\ Version(mem'[i][id]) \in Nat
      OBVIOUS
    <3>1. saved'[i][id] = 0
      BY <2>1 DEF TypeOK
    <3>2. db'[i][id] \in Rec \cup {None} /\ mem'[i][id] \in Seq(Rec)
      BY <2>1 DEF TypeOK, Rows
    <3>3. db'[i][id].upd \in Nat
      BY <3>2 DEF Rec, None
    <3>4. Version(mem'[i][id]) \in Nat
      BY <3>2, VersionType
    <3> QED
      BY <3>1, <3>3, <3>4
  <2>4. UpToDate(i)'
    BY <2>3 DEF UpToDate
  <2> HIDE DEF new
  <2>5. task'[i]["admin"] = new /\ task'[i]["tick"] = task[i]["tick"]
    BY <2>1 DEF TypeOK, Jobs
  <2>6. RowsOf(task[i]["tick"].cmds) = {}
    BY DEF Soundness, Sound, NothingAtStake
  <2>7. NothingAtStake(i)'
    BY <2>2, <2>3, <2>5, <2>6 DEF NothingAtStake
  <2>8. \A j \in Inst \ {i} : /\ mem'[j] = mem[j] /\ db'[j] = db[j]
                              /\ saved'[j] = saved[j] /\ task'[j] = task[j]
    BY <2>1 DEF TypeOK
  <2> QED
    BY <2>1, <2>4, <2>7, <2>8, OthersSound DEF Sound
<1> QED
  BY <1>1, <1>2

\* Actions that replace only the task t of i by one with no more rows to delete.
LEMMA TaskSound ==
  ASSUME TypeOK, Soundness, NEW i \in Inst, NEW t \in Jobs, NEW new,
         task' = [task EXCEPT ![i][t] = new],
         RowsOf(new.cmds) \subseteq RowsOf(task[i][t].cmds),
         new.at # "clear",
         UNCHANGED <<kind, saved>>, UpToDate(i)',
         \A j \in Inst \ {i} : mem'[j] = mem[j] /\ db'[j] = db[j]
  PROVE  Soundness'
<1>1. Sound(i)
  BY DEF Soundness
<1>2. /\ task'[i][t] = new
      /\ \A u \in Jobs \ {t} : task'[i][u] = task[i][u]
      /\ \A j \in Inst \ {i} : task'[j] = task[j]
  BY DEF TypeOK
<1>3. NothingAtStake(i)'
  <2>1. CASE t = "tick"
    BY <1>1, <1>2, <2>1 DEF Sound, NothingAtStake, Jobs
  <2>2. CASE t = "admin"
    BY <1>1, <1>2, <2>2 DEF Sound, NothingAtStake, Jobs
  <2> QED
    BY <2>1, <2>2 DEF Jobs
<1> QED
  BY <1>2, <1>3, OthersSound DEF Sound

LEMMA UpToDateKept ==
  ASSUME Soundness, NEW i \in Inst, UNCHANGED <<kind, mem, db, saved>>
  PROVE  UpToDate(i)'
BY DEF Soundness, Sound, UpToDate

LEMMA IdleHasNoRow == RowsOf(Idle.cmds) = {}
BY DEF Idle, RowsOf

LEMMA DeliverSound ==
  ASSUME TypeOK, Soundness, NEW i \in Inst, NEW t \in Jobs, Deliver(i, t)
  PROVE  Soundness'
<1> DEFINE tk == task[i][t]
           c  == Head(tk.cmds)
           new == Send(Tail(tk.cmds), tk.then, tk.lock, tk.ids)
<1>1. tk \in Tasks
  BY DEF TypeOK
<1>2. /\ tk.cmds \in Seq(Commands) /\ tk.cmds # << >> /\ Tail(tk.cmds) \in Seq(Commands)
      /\ tk.then \in {"idle", "publish", "orphans"} /\ tk.lock \in BOOLEAN
      /\ tk.ids \in SUBSET Ids
      /\ c \in Commands
  BY <1>1 DEF Deliver, Tasks, TaskRecords
<1>3. /\ task' = [task EXCEPT ![i][t] = new] /\ UNCHANGED <<kind, mem, saved>>
  BY DEF Deliver
<1>4. new.cmds = Tail(tk.cmds) /\ new.at # "clear"
  <2> HIDE DEF tk
  <2>1. /\ Send(Tail(tk.cmds), tk.then, tk.lock, tk.ids).cmds = Tail(tk.cmds)
        /\ Send(Tail(tk.cmds), tk.then, tk.lock, tk.ids).at # "clear"
    BY <1>2 DEF Send, Idle
  <2> QED
    BY <2>1
<1>5. RowsOf(new.cmds) \subseteq RowsOf(tk.cmds)
  <2> HIDE DEF tk, new
  <2> QED
    BY <1>2, <1>4, RowsOfTail
<1>6. \/ UNCHANGED db
      \/ c.op = "row" /\ db' = [db EXCEPT ![i][c.id] = None]
  BY DEF Deliver, RedisSet, RedisSAdd, RedisDel, RedisSRem, DeleteRow
<1>7. \A j \in Inst \ {i} : mem'[j] = mem[j] /\ db'[j] = db[j]
  <2> HIDE DEF c
  <2> QED
    BY <1>3, <1>6 DEF TypeOK
<1>8. UpToDate(i)'
  <2>1. CASE UNCHANGED db
    BY <1>3, <2>1, UpToDateKept
  <2>2. CASE c.op = "row" /\ db' = [db EXCEPT ![i][c.id] = None]
    <3>1. c.id \in RowsOf(tk.cmds)
      BY <1>2, <2>2, RowsOfTail
    <3>2. saved[i][c.id] = 0
      <4>1. Sound(i)
        BY DEF Soundness
      <4> QED
        BY <3>1, <4>1 DEF Sound, NothingAtStake, Jobs
    <3>3. c.id \in Ids
      BY <1>2 DEF Commands
    <3> HIDE DEF c
    <3>4. /\ db'[i][c.id].upd = 0
          /\ \A x \in Ids \ {c.id} : db'[i][x] = db[i][x]
      BY <2>2, <3>3 DEF TypeOK, Rows, None
    <3>5. UpToDate(i)
      BY DEF Soundness, Sound
    <3> QED
      BY <1>3, <3>2, <3>4, <3>5 DEF UpToDate
  <2> QED
    BY <1>6, <2>1, <2>2
<1> HIDE DEF new
<1> QED
  BY <1>3, <1>4, <1>5, <1>7, <1>8, TaskSound

LEMMA ReadSound ==
  ASSUME TypeOK, Soundness, NEW i \in Inst, NEW t \in Jobs, SMembers(i, t) \/ MGet(i, t)
  PROVE  Soundness'
<1>1. UNCHANGED <<kind, mem, db, saved>>
  BY DEF SMembers, MGet
<1>2. UpToDate(i)'
  BY <1>1, UpToDateKept
<1>3. PICK new : /\ task' = [task EXCEPT ![i][t] = new]
                 /\ new.at # "clear"
                 /\ RowsOf(new.cmds) \subseteq RowsOf(task[i][t].cmds)
  <2>1. CASE SMembers(i, t)
    <3>1. PICK new \in {[Idle EXCEPT !.at = "index", !.ids = idx], [Idle EXCEPT !.at = "publish"]} :
            task' = [task EXCEPT ![i][t] = new]
      BY <2>1 DEF SMembers
    <3>2. new.at # "clear" /\ new.cmds = Idle.cmds
      BY <3>1 DEF Idle
    <3> QED
      BY <3>1, <3>2, IdleHasNoRow
  <2>2. CASE MGet(i, t)
    <3> DEFINE tk == task[i][t]
               Read(r) == [id \in Ids |-> IF id \in tk.ids THEN r[id] ELSE None]
    <3>1. PICK r \in {rec, NoRows} :
            task' = [task EXCEPT ![i][t] = [tk EXCEPT !.at = "apply", !.got = Read(r)]]
      BY <2>2 DEF MGet
    <3>2. tk \in TaskRecords
      BY DEF TypeOK, Tasks
    <3>3. /\ [tk EXCEPT !.at = "apply", !.got = Read(r)].at # "clear"
          /\ [tk EXCEPT !.at = "apply", !.got = Read(r)].cmds = tk.cmds
      <4> HIDE DEF tk, Read
      <4> QED
        BY <3>2 DEF TaskRecords
    <3> QED
      BY <3>1, <3>3
  <2> QED
    BY <2>1, <2>2
<1> QED
  BY <1>1, <1>2, <1>3, TaskSound

LEMMA MergeSound ==
  ASSUME TypeOK, Soundness, NEW i \in Inst, NEW t \in Jobs, Merge(i, t)
  PROVE  Soundness'
<1> DEFINE tk == task[i][t]
           m  == [id \in Ids |-> MergedObjects(tk.got[id], mem[i][id])]
           rows == [id \in Ids |-> MergedRow(tk.got[id], mem[i][id], db[i][id])]
           localOnly == {id \in Ids \ tk.ids : m[id] # << >>}
           new == Send(PushAll(m, localOnly), After(t), FALSE, {})
<1>1. tk \in Tasks /\ mem[i] \in [Ids -> Seq(Rec)] /\ db[i] \in Rows
  BY DEF TypeOK
<1>2. \A id \in Ids : /\ tk.got[id] \in Rec \cup {None} /\ mem[i][id] \in Seq(Rec)
                      /\ db[i][id] \in Rec \cup {None}
                      /\ saved[i][id] \in Nat
  BY <1>1 DEF Tasks, TaskRecords, Rows, TypeOK
<1>3. m \in [Ids -> Seq(Rec)]
  BY <1>2, MergedObjectsType
<1>4. /\ mem' = [mem EXCEPT ![i] = m] /\ db' = [db EXCEPT ![i] = rows]
      /\ task' = [task EXCEPT ![i][t] = new] /\ UNCHANGED <<kind, saved>>
  BY DEF Merge
<1>5. new.at # "clear" /\ RowsOf(new.cmds) = {}
  <2>1. localOnly \in SUBSET Ids
    OBVIOUS
  <2>2. PushAll(m, localOnly) \in Seq(Pushes)
    <3> HIDE DEF m, localOnly
    <3> QED
      BY <1>3, <2>1, PushAllType
  <2>3. PushAll(m, localOnly) \in Seq(Commands) /\ After(t) \in {"idle", "publish", "orphans"}
    BY <2>2, PushesAreCommands DEF After
  <2>4. RowsOf(PushAll(m, localOnly)) = {}
    BY <2>2, NoRowsInPushes
  <2> DEFINE cmds == PushAll(m, localOnly)
  <2> HIDE DEF cmds
  <2>5. Send(cmds, After(t), FALSE, {}).at # "clear" /\ Send(cmds, After(t), FALSE, {}).cmds = cmds
    BY DEF Send, Idle, After
  <2> QED
    BY <2>4, <2>5 DEF cmds
<1>6. UpToDate(i)'
  <2> SUFFICES ASSUME kind = "account", NEW id \in Ids
               PROVE  /\ saved[i][id] <= Version(mem'[i][id])
                      /\ saved[i][id] <= db'[i][id].upd
    BY <1>4 DEF UpToDate
  <2>1. /\ saved[i][id] <= Version(mem[i][id])
        /\ saved[i][id] <= db[i][id].upd
    BY DEF Soundness, Sound, UpToDate
  <2>2. /\ mem'[i][id] = MergedObjects(tk.got[id], mem[i][id])
        /\ db'[i][id] = MergedRow(tk.got[id], mem[i][id], db[i][id])
    BY <1>4 DEF TypeOK
  <2> HIDE DEF tk
  <2> QED
    BY <1>2, <2>1, <2>2, MergedIsNewer
<1>7. \A j \in Inst \ {i} : mem'[j] = mem[j] /\ db'[j] = db[j]
  <2> HIDE DEF m, rows
  <2> QED
    BY <1>4 DEF TypeOK
<1> HIDE DEF new
<1> QED
  BY <1>4, <1>5, <1>6, <1>7, TaskSound

LEMMA ReloadSound ==
  ASSUME TypeOK, Soundness, NEW i \in Inst, ReloadStep(i)
  PROVE  Soundness'
<1> DEFINE tk == task[i]["admin"]
<1>0. tk \in TaskRecords /\ "admin" \in Jobs
  BY DEF TypeOK, Jobs, Tasks
<1>1. CASE ClearRoster(i)
  <2> DEFINE new == [tk EXCEPT !.at = "load"]
  <2>1. new.at # "clear" /\ new.cmds = tk.cmds
    <3> HIDE DEF tk
    <3> QED
      BY <1>0 DEF TaskRecords
  <2>2. /\ task' = [task EXCEPT ![i]["admin"] = new] /\ UNCHANGED <<kind, db, saved>>
        /\ mem' = [mem EXCEPT ![i] = [id \in Ids |-> << >>]]
        /\ tk.at = "clear"
    BY <1>1 DEF ClearRoster
  <2>3. \A id \in Ids : Version(mem'[i][id]) = 0 /\ saved[i][id] = 0
    BY <2>2 DEF TypeOK, Version, Soundness, Sound, NothingAtStake
  <2>4. UpToDate(i)'
    BY <2>2, <2>3 DEF UpToDate, Soundness, Sound
  <2>5. \A j \in Inst \ {i} : mem'[j] = mem[j] /\ db'[j] = db[j]
    BY <2>2 DEF TypeOK
  <2> HIDE DEF new
  <2> QED
    BY <1>0, <2>1, <2>2, <2>4, <2>5, TaskSound
<1>2. CASE LoadFromDb(i)
  <2> DEFINE new == [tk EXCEPT !.at = "merge"]
  <2>1. new.at # "clear" /\ new.cmds = tk.cmds
    <3> HIDE DEF tk
    <3> QED
      BY <1>0 DEF TaskRecords
  <2>2. /\ task' = [task EXCEPT ![i]["admin"] = new] /\ UNCHANGED <<kind, db, saved>>
        /\ mem' = [mem EXCEPT ![i] = [id \in Ids |-> Loaded(@[id], db[i][id])]]
    BY <1>2 DEF LoadFromDb
  <2>3. ASSUME kind = "account", NEW id \in Ids
        PROVE  /\ saved[i][id] <= Version(mem'[i][id])
               /\ saved[i][id] <= db[i][id].upd
    <3>1. /\ saved[i][id] <= Version(mem[i][id])
          /\ saved[i][id] <= db[i][id].upd
      BY <2>3 DEF Soundness, Sound, UpToDate
    <3>2. /\ mem[i][id] \in Seq(Rec) /\ db[i][id] \in Rec \cup {None}
          /\ mem'[i][id] = Loaded(mem[i][id], db[i][id])
      BY <2>2 DEF TypeOK, Rows
    <3>3. CASE db[i][id] = None
      BY <3>1, <3>2, <3>3 DEF Loaded
    <3>4. CASE db[i][id] # None /\ mem[i][id] = << >>
      <4>1. mem'[i][id] = <<db[i][id]>>
        BY <3>2, <3>4 DEF Loaded
      <4> QED
        BY <3>1, <4>1 DEF Version
    <3>5. CASE db[i][id] # None /\ mem[i][id] # << >>
      <4>1. /\ mem'[i][id] # << >> /\ mem'[i][id][1] = mem[i][id][1]
        BY <3>2, <3>5 DEF Loaded
      <4> QED
        BY <3>1, <3>5, <4>1 DEF Version
    <3> QED
      BY <3>3, <3>4, <3>5
  <2>4. UpToDate(i)'
    BY <2>2, <2>3 DEF UpToDate
  <2>5. \A j \in Inst \ {i} : mem'[j] = mem[j] /\ db'[j] = db[j]
    BY <2>2 DEF TypeOK
  <2> HIDE DEF new
  <2> QED
    BY <1>0, <2>1, <2>2, <2>4, <2>5, TaskSound
<1>3. CASE Publish(i)
  <2> DEFINE cmds == PushAll(mem[i], Roster(i))
             new == Send(cmds, "orphans", TRUE, Roster(i))
  <2>1. RowsOf(cmds) = {}
    <3>1. Roster(i) \in SUBSET Ids /\ mem[i] \in [Ids -> Seq(Rec)]
      BY DEF Roster, TypeOK
    <3> QED
      BY <3>1, PushAllType, NoRowsInPushes
  <2>2. new.at # "clear" /\ new.cmds = cmds
    <3> HIDE DEF cmds
    <3> QED
      BY DEF Send, Idle
  <2>3. /\ task' = [task EXCEPT ![i]["admin"] = new] /\ UNCHANGED <<kind, mem, db, saved>>
    BY <1>3 DEF Publish
  <2> HIDE DEF new, cmds
  <2> QED
    BY <1>0, <2>1, <2>2, <2>3, UpToDateKept, TaskSound
<1>4. CASE DropOrphans(i)
  <2> DEFINE order == SetToSeq(idx \ tk.ids)
             Each(op) == [n \in DOMAIN order |-> Cmd(op, order[n], None)]
             cmds == Each("srem") \o Each("del")
  <2>1. RowsOf(cmds) = {}
    <3>1. order \in Seq(idx \ tk.ids)
      <4>1. IsFiniteSet(idx \ tk.ids)
        BY FleetAssumption, FS_Subset DEF TypeOK
      <4> QED
        BY <4>1, SetToSeqType
    <3>2. \A op \in {"srem", "del"} : Each(op) \in Seq({c \in Commands : c.op # "row"})
      <4>1. DOMAIN order = 1..Len(order) /\ Len(order) \in Nat
        BY <3>1
      <4>2. \A n \in 1..Len(order) : order[n] \in Ids
        BY <3>1 DEF TypeOK
      <4>3. \A op \in {"srem", "del"}, id \in Ids :
              Cmd(op, id, None) \in {c \in Commands : c.op # "row"}
        BY DEF Cmd, Commands
      <4> HIDE DEF order
      <4> QED
        BY <4>1, <4>2, <4>3
    <3>3. cmds \in Seq({c \in Commands : c.op # "row"})
      <4>1. /\ Each("srem") \in Seq({c \in Commands : c.op # "row"})
            /\ Each("del") \in Seq({c \in Commands : c.op # "row"})
        BY <3>2
      <4> HIDE DEF Each
      <4> QED
        BY <4>1
    <3> HIDE DEF cmds
    <3>4. \A n \in DOMAIN cmds : cmds[n].op # "row"
      BY <3>3
    <3> QED
      BY <3>4 DEF RowsOf
  <2> HIDE DEF cmds
  <2>2. PICK new \in {Send(cmds, "idle", FALSE, {}), Idle} :
          task' = [task EXCEPT ![i]["admin"] = new]
    BY <1>4 DEF DropOrphans, cmds
  <2>3. new.at # "clear" /\ RowsOf(new.cmds) = {}
    <3>1. CASE new = Idle
      BY <3>1, IdleHasNoRow, IdleType
    <3>2. CASE new = Send(cmds, "idle", FALSE, {})
      <4>1. new.at # "clear" /\ new.cmds = cmds
        BY <3>2 DEF Send, Idle
      <4> QED
        BY <2>1, <4>1
    <3> QED
      BY <2>2, <3>1, <3>2
  <2>4. UNCHANGED <<kind, mem, db, saved>>
    BY <1>4 DEF DropOrphans
  <2> QED
    BY <1>0, <2>2, <2>3, <2>4, UpToDateKept, TaskSound
<1> QED
  BY <1>1, <1>2, <1>3, <1>4 DEF ReloadStep

\* A restart loads what the database has, and that is not behind.
LEMMA RestartSound ==
  ASSUME TypeOK, Soundness, NEW i \in Inst, Crash(i) \/ Wipe(i)
  PROVE  Soundness'
<1>1. PICK rows \in Rows :
        /\ Restart(i, rows)
        /\ kind = "account" => \A id \in Ids : saved'[i][id] <= rows[id].upd
        /\ \A j \in Inst \ {i} : saved'[j] = saved[j]
  <2>1. CASE Crash(i)
    BY <2>1 DEF Crash, TypeOK, Soundness, Sound, UpToDate
  <2>2. CASE Wipe(i)
    <3>1. NoRows \in Rows /\ \A id \in Ids : NoRows[id].upd = 0
      BY DEF NoRows, Rows, None
    <3>2. /\ Restart(i, NoRows) /\ \A id \in Ids : saved'[i][id] = 0
          /\ \A j \in Inst \ {i} : saved'[j] = saved[j]
      BY <2>2 DEF Wipe, TypeOK
    <3> QED
      BY <3>1, <3>2
  <2> QED
    BY <2>1, <2>2
<1>2. /\ db' = [db EXCEPT ![i] = rows]
      /\ mem' = [mem EXCEPT ![i] = [id \in Ids |-> Loaded(<< >>, rows[id])]]
      /\ task' = [task EXCEPT ![i] = [t \in Jobs |-> Idle]]
      /\ UNCHANGED kind
  BY <1>1 DEF Restart
<1>3. UpToDate(i)'
  <2> SUFFICES ASSUME kind = "account", NEW id \in Ids
               PROVE  /\ saved'[i][id] <= Version(mem'[i][id])
                      /\ saved'[i][id] <= db'[i][id].upd
    BY <1>2 DEF UpToDate
  <2>1. db'[i][id] = rows[id] /\ mem'[i][id] = Loaded(<< >>, rows[id])
    BY <1>2 DEF TypeOK
  <2>2. saved'[i][id] <= rows[id].upd
    BY <1>1
  <2>3. CASE rows[id] = None
    BY <2>1, <2>2, <2>3 DEF Loaded, Version, None
  <2>4. CASE rows[id] # None
    <3>1. mem'[i][id] = <<rows[id]>>
      BY <2>1, <2>4 DEF Loaded
    <3>2. Version(mem'[i][id]) = rows[id].upd
      BY <3>1 DEF Version
    <3> QED
      BY <2>1, <2>2, <3>2
  <2> QED
    BY <2>3, <2>4
<1>4. NothingAtStake(i)'
  <2>1. \A t \in Jobs : task'[i][t] = Idle
    BY <1>2 DEF TypeOK
  <2> QED
    BY <2>1, IdleType, IdleHasNoRow DEF NothingAtStake, Jobs
<1>5. \A j \in Inst \ {i} : mem'[j] = mem[j] /\ db'[j] = db[j] /\ task'[j] = task[j]
  BY <1>2 DEF TypeOK
<1> QED
  BY <1>1, <1>2, <1>3, <1>4, <1>5, OthersSound DEF Sound

LEMMA NextSound == TypeOK /\ Soundness /\ [Next]_vars => Soundness'
<1> SUFFICES ASSUME TypeOK, Soundness, [Next]_vars PROVE Soundness'
  OBVIOUS
<1>1. CASE UNCHANGED vars
  BY <1>1 DEF vars, Soundness, Sound, UpToDate, NothingAtStake
<1>2. CASE Tick
  BY <1>2 DEF Tick, Soundness, Sound, UpToDate, NothingAtStake
<1>3. ASSUME NEW i \in Inst, Mutation(i)
      PROVE  Soundness'
  BY <1>3, InsertSound, EditSound, TakeOutSound, BackupSound DEF Mutation
<1>4. ASSUME NEW i \in Inst, NEW t \in Jobs, TaskStep(i, t)
      PROVE  Soundness'
  BY <1>4, ReadSound, MergeSound, DeliverSound DEF TaskStep
<1>5. ASSUME NEW i \in Inst, ReloadStep(i) \/ Crash(i) \/ Wipe(i)
      PROVE  Soundness'
  BY <1>5, ReloadSound, RestartSound
<1>6. CASE Next
  BY <1>2, <1>3, <1>4, <1>5, <1>6, StepCases
<1> QED
  BY <1>1, <1>6

LEMMA SoundnessKeepsEdits ==
  ASSUME TypeOK, Soundness
  PROVE  StoredEditKept
<1> SUFFICES ASSUME kind = "account", NEW i \in Inst, NEW id \in Ids, mem[i][id] # << >>
             PROVE  mem[i][id][1].upd >= saved[i][id]
  BY DEF StoredEditKept
<1>1. saved[i][id] <= Version(mem[i][id])
  BY DEF Soundness, Sound, UpToDate
<1>2. Version(mem[i][id]) = mem[i][id][1].upd /\ Version(mem[i][id]) \in Nat
  BY VersionType DEF TypeOK
<1>3. saved[i][id] \in Nat
  BY DEF TypeOK
<1> QED
  BY <1>1, <1>2, <1>3

\* No instance ever goes back behind an edit of an account its database stored,
\* whatever merges, lost commands, crashes and backups come in between: merges
\* adopt newer records only, and what deletes rows or clears a roster does so
\* where no edit is at stake (merge_accounts_from_redis, remove_account,
\* reload_from_db).
THEOREM EditsAreKept == Spec => []RecordsSound
<1>1. Init => TypeOK /\ Soundness
  BY InitType, InitSound
<1>2. TypeOK /\ Soundness /\ [Next]_vars => (TypeOK /\ Soundness)'
  BY NextType, NextSound
<1>3. TypeOK /\ Soundness => RecordsSound
  BY SoundnessKeepsEdits DEF RecordsSound
<1> QED
  BY <1>1, <1>2, <1>3, PTL DEF Spec
==========================================================================
