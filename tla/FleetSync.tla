----------------------------- MODULE FleetSync -----------------------------
(***************************************************************************)
(* The roster every instance of a fleet keeps and shares through Redis:    *)
(* Tidal accounts (account_manager.rs) and API keys (api_keys.rs).  Both   *)
(* use one protocol: a table in memory, a table in SQLite, a Redis index   *)
(* (SET of ids) and one Redis record per id.  Local mutations are pushed   *)
(* best-effort; a 60 s tick unions the index into the local table, adopts  *)
(* records with a newer updated_at and pushes ids the index lacks.  A      *)
(* backup restore reloads the table, merges and republishes it.            *)
(*                                                                         *)
(* The two tables differ in what the model tells apart: SQLite keeps the   *)
(* updated_at of an account and not that of a key, and the locks held      *)
(* while a push is under way.  kind says which one a behaviour is about.   *)
(*                                                                         *)
(* Redis commands take effect one at a time, in any interleaving of the    *)
(* tasks of all instances, and each may be lost (upstash.rs fails open).   *)
(***************************************************************************)
EXTENDS Naturals, Sequences, FiniteSets, SequencesExt

CONSTANTS Inst,       \* instances of the fleet
          Ids,        \* ids an account or a key may get
          Known,      \* ids the whole fleet knows from before
          Kinds,      \* subset of {"account", "key"}
          Downtime,   \* may instances crash or lose their disk?
          MaxTime,    \* bound on the clock (seconds, coarse)
          MaxFaults,  \* bound on lost Redis commands, failed writes, crashes
          MaxEvents   \* bound on these and local mutations together

\* A fleet has a finite roster.
ASSUME FleetAssumption ==
  /\ IsFiniteSet(Ids)
  /\ Known \subseteq Ids
  /\ Kinds \subseteq {"account", "key"}
  /\ MaxTime \in Nat \ {0} /\ MaxFaults \in Nat /\ MaxEvents \in Nat

VARIABLES kind,    \* which table this behaviour is about
          clock,   \* Utc::now().timestamp()
          mem,     \* [Inst -> [Ids -> Seq(Rec)]]: AccountState objects of an id
          db,      \* [Inst -> [Ids -> Rec or None]]: SQLite rows
          idx,     \* the Redis index
          rec,     \* [Ids -> Rec or None]: the Redis records
          task,    \* [Inst -> [Jobs -> Task]]: what each instance is doing
          snap,    \* the downloaded backup: ids to rows
          ops, faults,
          saved,   \* history: [Inst -> [Ids -> time of the last stored edit]]
          gone     \* history: ids whose removal reached Redis completely

vars == <<kind, clock, mem, db, idx, rec, task, snap, ops, faults, saved, gone>>

Jobs == {"admin", "tick"}
Status == {"on", "off", "sys"}      \* is_active / off by the owner / auto_disabled
None == [st |-> "none", upd |-> 0]
Rec  == [st : Status, upd : 0..MaxTime]
Rows == [Ids -> Rec \cup {None}]
NoRows == [id \in Ids |-> None]

\* A command under way: three Redis writes and the DELETE of a local row.
Cmd(op, id, r) == [op |-> op, id |-> id, rec |-> r]
Idle == [at |-> "idle", then |-> "idle", lock |-> FALSE,
         ids |-> {}, got |-> NoRows, cmds |-> << >>]

\* A task sends its commands and goes on to `then`; lock: it keeps the lock of
\* the table meanwhile.
Send(cmds, then, lock, ids) ==
  IF cmds = << >> THEN [Idle EXCEPT !.at = then, !.ids = ids]
  ELSE [Idle EXCEPT !.at = "send", !.then = then, !.lock = lock,
                    !.ids = ids, !.cmds = cmds]

\* push_account_to_redis: the record, then the index entry.
PushAccount(id, r) == <<Cmd("set", id, r), Cmd("sadd", id, None)>>
\* push_key_to_redis
PushKey(id, r) == <<Cmd("set", id, r), Cmd("sadd", id, None)>>
Push(id, r) == IF kind = "account" THEN PushAccount(id, r) ELSE PushKey(id, r)

PushAll(m, S) ==
  LET order == SetToSeq(S)
      Of(id) == FlattenSeq([k \in DOMAIN m[id] |-> Push(id, m[id][k])])
  IN  FlattenSeq([n \in DOMAIN order |-> Of(order[n])])

Roster(i) == {id \in Ids : mem[i][id] # << >>}
Stored(r) == IF kind = "key" /\ r # None THEN [r EXCEPT !.upd = 0] ELSE r
Unlocked(i, t) == \A u \in Jobs \ {t} : ~ task[i][u].lock
Fault == faults < MaxFaults /\ ops + faults < MaxEvents /\ faults' = faults + 1

---------------------------------------------------------------------------
(* Local mutations, one at a time on each instance.                        *)

Mutates(i) ==
  /\ task[i]["admin"].at = "idle"
  /\ ops + faults < MaxEvents
  /\ ops' = ops + 1

\* Both inserts of an add: the row, the object, then the push.
Insert(i, id) ==
  LET r == [st |-> "on", upd |-> clock]
  IN  /\ Mutates(i)
      /\ \A j \in Inst : mem[j][id] = << >> /\ db[j][id] = None
      /\ rec[id] = None /\ id \notin idx \cup gone
      /\ \A j \in Inst, t \in Jobs : id \notin task[j][t].ids
      /\ db' = [db EXCEPT ![i][id] = Stored(r)]
      /\ mem' = [mem EXCEPT ![i][id] = <<r>>]
      /\ task' = [task EXCEPT ![i]["admin"] = Send(Push(id, r), "idle", FALSE, {})]
      /\ saved' = [saved EXCEPT ![i][id] = clock]
      /\ UNCHANGED <<kind, clock, idx, rec, snap, faults, gone>>

AddAccount(i, id) == kind = "account" /\ Insert(i, id)
CreateKey(i, id)  == kind = "key" /\ Insert(i, id)

\* An edit of the first object with this id.  The write may fail: the changed
\* flags stay in memory, the handler returns the error and nothing is pushed.
\* Nobody counts the rows an UPDATE changed: where the row is gone, the edit is
\* pushed as any other, and nothing of it is stored.
Edit(i, id, st, lock) ==
  LET r == [st |-> st, upd |-> clock]
  IN  /\ Mutates(i)
      /\ mem[i][id] # << >>
      /\ mem' = [mem EXCEPT ![i][id][1] = r]
      /\ \/ /\ db' = [db EXCEPT ![i][id] = IF @ = None THEN None ELSE Stored(r)]
            /\ task' = [task EXCEPT ![i]["admin"] = Send(Push(id, r), "idle", lock, {})]
            /\ saved' = [saved EXCEPT ![i][id] = IF db[i][id] = None THEN @ ELSE clock]
            /\ UNCHANGED faults
         \/ lock /\ Fault /\ UNCHANGED <<db, task, saved>>
      /\ UNCHANGED <<kind, clock, idx, rec, snap, gone>>

\* The rebuilt object replaces the old one after the commit; pushed unlocked.
UpdateAccount(i, id) ==
  /\ kind = "account"
  /\ mem[i][id] # << >>
  /\ Edit(i, id, mem[i][id][1].st, FALSE)

SetAccountActive(i, id, on) ==
  kind = "account" /\ Edit(i, id, IF on THEN "on" ELSE "off", TRUE)

\* A background transition; nothing happens to an account its owner put off.
SetSystemDisabled(i, id, disabled) ==
  /\ kind = "account"
  /\ mem[i][id] # << >>
  /\ mem[i][id][1].st \in (IF disabled THEN {"on", "sys"} ELSE {"sys"})
  /\ Edit(i, id, IF disabled THEN "sys" ELSE "on", TRUE)

\* 403 for max_secs: off, and no longer a case for auto-heal.
DisableAfterAuthFailures(i, id) ==
  /\ kind = "account"
  /\ mem[i][id] # << >>
  /\ mem[i][id][1].st \in {"on", "sys"}
  /\ Edit(i, id, "off", TRUE)

SetKeyActive(i, id, on) ==
  kind = "key" /\ Edit(i, id, IF on THEN "on" ELSE "off", TRUE)

\* The objects go first; the row and the two Redis entries follow one by one.
TakeOut(i, id) ==
  /\ Mutates(i)
  /\ mem[i][id] # << >>
  /\ mem' = [mem EXCEPT ![i][id] = << >>]
  /\ task' = [task EXCEPT ![i]["admin"] =
        Send(<<Cmd("row", id, None), Cmd("del", id, None), Cmd("srem", id, None)>>,
             "idle", FALSE, {})]
  /\ saved' = [saved EXCEPT ![i][id] = 0]
  /\ UNCHANGED <<kind, clock, db, idx, rec, snap, faults, gone>>

RemoveAccount(i, id) == kind = "account" /\ TakeOut(i, id)
RemoveKey(i, id)     == kind = "key" /\ TakeOut(i, id)

---------------------------------------------------------------------------
(* Redis commands of a task, in order.                                     *)

RedisSet(c)  == rec' = [rec EXCEPT ![c.id] = c.rec] /\ UNCHANGED <<idx, db, gone>>
RedisDel(c)  == rec' = [rec EXCEPT ![c.id] = None] /\ UNCHANGED <<idx, db, gone>>
RedisSAdd(c) == idx' = idx \cup {c.id} /\ UNCHANGED <<rec, db, gone>>
RedisSRem(c) == /\ idx' = idx \ {c.id}
                /\ gone' = IF rec[c.id] = None THEN gone \cup {c.id} ELSE gone
                /\ UNCHANGED <<rec, db>>
DeleteRow(i, c) == db' = [db EXCEPT ![i][c.id] = None] /\ UNCHANGED <<rec, idx, gone>>

Deliver(i, t) ==
  LET tk == task[i][t]
      c  == Head(tk.cmds)
  IN  /\ tk.at = "send"
      /\ task' = [task EXCEPT ![i][t] = Send(Tail(tk.cmds), tk.then, tk.lock, tk.ids)]
      /\ \/ /\ \/ c.op = "set"  /\ RedisSet(c)
               \/ c.op = "sadd" /\ RedisSAdd(c)
               \/ c.op = "del"  /\ RedisDel(c)
               \/ c.op = "srem" /\ RedisSRem(c)
               \/ c.op = "row"  /\ DeleteRow(i, c)
            /\ UNCHANGED faults
         \/ c.op # "row" /\ Fault /\ UNCHANGED <<rec, idx, db, gone>>
      /\ UNCHANGED <<kind, clock, mem, snap, ops, saved>>

---------------------------------------------------------------------------
(* The union merge: the 60 s tick, and the second half of a reload.        *)

After(t) == IF t = "tick" THEN "idle" ELSE "publish"

\* SMEMBERS.  An error ends the merge, and so does an empty index.
SMembers(i, t) ==
  /\ task[i][t].at = IF t = "tick" THEN "idle" ELSE "merge"
  /\ \/ /\ idx # {}
        /\ task' = [task EXCEPT ![i][t] = [Idle EXCEPT !.at = "index", !.ids = idx]]
        /\ UNCHANGED faults
     \/ /\ t = "admin"
        /\ \/ idx = {} /\ UNCHANGED faults
           \/ idx # {} /\ Fault
        /\ task' = [task EXCEPT ![i][t] = [Idle EXCEPT !.at = "publish"]]
  /\ UNCHANGED <<kind, clock, mem, db, idx, rec, snap, ops, saved, gone>>

\* MGET of every record of the index as it was read; an error reads as no record.
MGet(i, t) ==
  LET tk == task[i][t]
      Got(r) == task' = [task EXCEPT ![i][t] =
                  [tk EXCEPT !.at = "apply",
                             !.got = [id \in Ids |-> IF id \in tk.ids THEN r[id] ELSE None]]]
  IN  /\ tk.at = "index"
      /\ \/ Got(rec) /\ UNCHANGED faults
         \/ Got(NoRows) /\ Fault
      /\ UNCHANGED <<kind, clock, mem, db, idx, rec, snap, ops, saved, gone>>

Newer_Any(r, objects) == TRUE
Newer_Never(r, objects) == FALSE
Newer(r, objects) == r.upd > objects[1].upd

\* One id of the merge: restored when it is unknown here, adopted when newer.
MergedObjects(r, objects) ==
  IF r = None THEN objects
  ELSE IF objects = << >> THEN <<r>>
  ELSE IF Newer(r, objects) THEN <<r>> \o Tail(objects)
  ELSE objects

\* Its row: INSERT ... DO NOTHING when restored, UPDATE when adopted.
MergedRow(r, objects, row) ==
  IF r = None THEN row
  ELSE IF objects = << >> THEN (IF row = None THEN Stored(r) ELSE row)
  ELSE IF Newer(r, objects) THEN (IF row = None THEN None ELSE Stored(r))
  ELSE row

\* What the index lacks is not pushed.
Merge_PullOnly(i, t) ==
  LET tk == task[i][t]
      m  == [id \in Ids |-> MergedObjects(tk.got[id], mem[i][id])]
  IN  /\ tk.at = "apply"
      /\ Unlocked(i, t)
      /\ mem' = [mem EXCEPT ![i] = m]
      /\ db' = [db EXCEPT ![i] =
                  [id \in Ids |-> MergedRow(tk.got[id], mem[i][id], db[i][id])]]
      /\ task' = [task EXCEPT ![i][t] = [Idle EXCEPT !.at = After(t)]]
      /\ UNCHANGED <<kind, clock, idx, rec, snap, ops, faults, saved, gone>>

\* Under the write lock; what the index lacked is pushed after the lock is dropped.
Merge(i, t) ==
  LET tk == task[i][t]
      m  == [id \in Ids |-> MergedObjects(tk.got[id], mem[i][id])]
      localOnly == {id \in Ids \ tk.ids : m[id] # << >>}
  IN  /\ tk.at = "apply"
      /\ Unlocked(i, t)
      /\ mem' = [mem EXCEPT ![i] = m]
      /\ db' = [db EXCEPT ![i] =
                  [id \in Ids |-> MergedRow(tk.got[id], mem[i][id], db[i][id])]]
      /\ task' = [task EXCEPT ![i][t] = Send(PushAll(m, localOnly), After(t), FALSE, {})]
      /\ UNCHANGED <<kind, clock, idx, rec, snap, ops, faults, saved, gone>>

MergeAccounts(i, t) == kind = "account" /\ Merge(i, t)
MergeKeys(i, t)     == kind = "key" /\ Merge(i, t)

---------------------------------------------------------------------------
(* Backup and restore.                                                     *)

DownloadBackup(i) ==
  /\ Mutates(i)
  /\ snap = NoRows
  /\ snap' = db[i]
  /\ UNCHANGED <<kind, clock, mem, db, idx, rec, task, faults, saved, gone>>

\* The transaction that replaces the tables by the uploaded ones.
RestoreBackup(i) ==
  /\ Mutates(i)
  /\ snap # NoRows
  /\ db' = [db EXCEPT ![i] = snap]
  /\ task' = [task EXCEPT ![i]["admin"] = [Idle EXCEPT !.at = "clear"]]
  /\ saved' = [saved EXCEPT ![i] = [id \in Ids |-> 0]]
  /\ UNCHANGED <<kind, clock, mem, idx, rec, snap, faults, gone>>

\* reload_from_db: the table is cleared under one lock ...
ClearRoster(i) ==
  /\ task[i]["admin"].at = "clear"
  /\ mem' = [mem EXCEPT ![i] = [id \in Ids |-> << >>]]
  /\ task' = [task EXCEPT ![i]["admin"].at = "load"]
  /\ UNCHANGED <<kind, clock, db, idx, rec, snap, ops, faults, saved, gone>>

\* ... and every row is appended under another: a merge may have come between.
Loaded(objects, row) == IF row = None THEN objects ELSE Append(objects, row)

LoadFromDb(i) ==
  /\ task[i]["admin"].at = "load"
  /\ mem' = [mem EXCEPT ![i] = [id \in Ids |-> Loaded(@[id], db[i][id])]]
  /\ task' = [task EXCEPT ![i]["admin"].at = "merge"]
  /\ UNCHANGED <<kind, clock, db, idx, rec, snap, ops, faults, saved, gone>>

\* publish_all_to_redis: push every object under the read lock, ...
Publish(i) ==
  /\ task[i]["admin"].at = "publish"
  /\ task' = [task EXCEPT ![i]["admin"] =
                Send(PushAll(mem[i], Roster(i)), "orphans", TRUE, Roster(i))]
  /\ UNCHANGED <<kind, clock, mem, db, idx, rec, snap, ops, faults, saved, gone>>

PublishAccounts(i) == kind = "account" /\ Publish(i)
PublishKeys(i)     == kind = "key" /\ Publish(i)

\* ... then drop what the index holds beyond the published roster.
DropOrphans(i) ==
  LET tk == task[i]["admin"]
      order == SetToSeq(idx \ tk.ids)
      Each(op) == [n \in DOMAIN order |-> Cmd(op, order[n], None)]
  IN  /\ tk.at = "orphans"
      /\ \/ /\ task' = [task EXCEPT ![i]["admin"] =
                         Send(Each("srem") \o Each("del"), "idle", FALSE, {})]
            /\ UNCHANGED faults
         \/ Fault /\ task' = [task EXCEPT ![i]["admin"] = Idle]
      /\ UNCHANGED <<kind, clock, mem, db, idx, rec, snap, ops, saved, gone>>

---------------------------------------------------------------------------
(* Failures of a host, and time.                                           *)

\* A restart loads the rows (load_from_db of both tables) and its tasks are gone.
Restart(i, rows) ==
  /\ Downtime
  /\ Fault
  /\ db' = [db EXCEPT ![i] = rows]
  /\ mem' = [mem EXCEPT ![i] = [id \in Ids |-> Loaded(<< >>, rows[id])]]
  /\ task' = [task EXCEPT ![i] = [t \in Jobs |-> Idle]]
  /\ UNCHANGED <<kind, clock, idx, rec, snap, ops, gone>>

Crash(i) == Restart(i, db[i]) /\ UNCHANGED saved
\* The disk is lost as well.
Wipe(i)  == Restart(i, NoRows) /\ saved' = [saved EXCEPT ![i] = [id \in Ids |-> 0]]

Tick == /\ clock < MaxTime
        /\ clock' = clock + 1
        /\ UNCHANGED <<kind, mem, db, idx, rec, task, snap, ops, faults, saved, gone>>

---------------------------------------------------------------------------
\* Init: Known is on every instance and in Redis; the other ids are new.
Init == /\ kind \in Kinds
        /\ clock = 1
        /\ idx = Known
        /\ rec = [id \in Ids |-> IF id \in idx THEN [st |-> "on", upd |-> 0] ELSE None]
        /\ mem = [i \in Inst |-> [id \in Ids |-> IF id \in idx THEN <<rec[id]>> ELSE << >>]]
        /\ db = [i \in Inst |-> rec]
        /\ task = [i \in Inst |-> [t \in Jobs |-> Idle]]
        /\ snap = NoRows
        /\ ops = 0
        /\ faults = 0
        /\ saved = [i \in Inst |-> [id \in Ids |-> 0]]
        /\ gone = {}

Local(i) ==
  \/ \E id \in Ids :
       \/ AddAccount(i, id) \/ CreateKey(i, id)
       \/ RemoveAccount(i, id) \/ RemoveKey(i, id)
       \/ UpdateAccount(i, id) \/ DisableAfterAuthFailures(i, id)
       \/ \E b \in BOOLEAN : \/ SetAccountActive(i, id, b)
                             \/ SetSystemDisabled(i, id, b)
                             \/ SetKeyActive(i, id, b)
  \/ DownloadBackup(i) \/ RestoreBackup(i)

\* The steps of a task that is under way, and the tick that starts one.
Runs(i, t) ==
  SMembers(i, t) \/ MGet(i, t) \/ MergeAccounts(i, t) \/ MergeKeys(i, t) \/ Deliver(i, t)
Reload(i) ==
  ClearRoster(i) \/ LoadFromDb(i) \/ PublishAccounts(i) \/ PublishKeys(i) \/ DropOrphans(i)

Background(i) == Reload(i) \/ \E t \in Jobs : Runs(i, t)

Next == \/ \E i \in Inst : Local(i) \/ Background(i) \/ Crash(i) \/ Wipe(i)
        \/ Tick

Spec == Init /\ [][Next]_vars

\* The runtime of an instance keeps running its tasks, and the tick repeats.
Fairness == \A i \in Inst : WF_vars(Background(i))
FairSpec == Spec /\ Fairness

---------------------------------------------------------------------------
Commands == [op : {"set", "sadd", "del", "srem", "row"}, id : Ids,
             rec : Rec \cup {None}]

TaskRecords == [at : {"idle", "send", "index", "apply", "clear", "load", "merge",
                      "publish", "orphans"},
                then : {"idle", "publish", "orphans"}, lock : BOOLEAN,
                ids : SUBSET Ids, got : Rows, cmds : Seq(Commands)]
Tasks == {tk \in TaskRecords : tk.at = "send" => tk.cmds # << >>}

TypeOK == /\ kind \in Kinds
          /\ clock \in 1..MaxTime
          /\ mem \in [Inst -> [Ids -> Seq(Rec)]]
          /\ saved \in [Inst -> [Ids -> 0..clock]]
          /\ db \in [Inst -> Rows]
          /\ idx \subseteq Ids /\ gone \subseteq Ids
          /\ rec \in Rows /\ snap \in Rows
          /\ task \in [Inst -> [Jobs -> Tasks]]
          /\ ops \in 0..MaxEvents /\ faults \in 0..MaxFaults

\* An edit the database stored is never undone by an older record: neither a
\* merge that read Redis before the edit (account_manager.rs 1875) nor a restart
\* leaves the instance with an earlier version of the account.
StoredEditKept ==
  kind = "account" =>
    \A i \in Inst, id \in Ids :
      mem[i][id] # << >> /\ task[i]["admin"].at = "idle"
        => mem[i][id][1].upd >= saved[i][id]

\* Every variable has its type, and no stored edit is lost to an older record.
RecordsSound == TypeOK /\ StoredEditKept

\* Whatever Redis holds reaches every instance, a wiped one included, in that or
\* a newer version (merge_accounts_from_redis, merge_keys_from_redis).
CatchesUp ==
  <>[](\A i \in Inst, id \in Ids :
         id \in idx /\ rec[id] # None
           => mem[i][id] # << >> /\ mem[i][id][1].upd >= rec[id].upd)

\* An id only one instance knows is published by its next merges, unless the
\* index is empty, which ends a merge before that (account_manager.rs 1830).
LocalOnlyPublished ==
  <>[](idx = {} \/ \A i \in Inst : Roster(i) \subseteq idx)

\* What account_manager.rs 1818 says of merges: an id whose removal reached Redis
\* completely stays out of the index.
DeletesStayDeleted == idx \cap gone = {}

=============================================================================
