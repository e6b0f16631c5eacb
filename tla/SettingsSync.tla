---------------------------- MODULE SettingsSync ----------------------------
(***************************************************************************)
(* The runtime settings of a fleet (settings.rs): each instance has them   *)
(* in memory, in SQLite and shares them through Redis, one key each.  An   *)
(* owner's update is applied to memory, then every setting is written to   *)
(* SQLite and to Redis; a 30 s tick adopts what Redis holds; a start       *)
(* seeds what Redis lacks.  The tick and an update of the same instance    *)
(* interleave: there is one lock per setting and none over all of them.    *)
(*                                                                         *)
(* Values are numbers, of which Largest is the greatest a setting accepts  *)
(* (see Normalized); Absent is a field the owner does not send and Invalid *)
(* one that is refused.  Defaults (from_env) are the value 0.              *)
(***************************************************************************)
EXTENDS Naturals, Sequences, SequencesExt

CONSTANTS Inst,
          Order,       \* the settings, in the order apply and the savers take them
          Webhook,     \* the one of them with a handler of its own
          Largest,
          MaxUpdates, MaxLost, MaxDbErrors, MaxStarts

VARIABLES mem,      \* [Inst -> [Keys -> value]]
          row,      \* [Inst -> [Keys -> value or Missing]]: the settings table
          shared,   \* [Keys -> value or Missing]: Redis
          update,   \* [Inst -> [pc, todo]]: the update under way; todo: entries to write
          pull,     \* [Inst -> [pc, got, todo]]: the tick, or the start
          updates, lost, dbErrors, starts

vars == <<mem, row, shared, update, pull, updates, lost, dbErrors, starts>>
bounds == <<updates, lost, dbErrors, starts>>

Keys == ToSet(Order)
Missing == Largest + 1
Absent == Largest + 2
Invalid == Largest + 3
Oversized == Largest + 4
Values == 0..Largest
Normalized(v) == IF v > Largest THEN Largest ELSE v
Nothing == [k \in Keys |-> Missing]

NoUpdate == [pc |-> "none", todo |-> << >>]
NoPull == [pc |-> "none", boot |-> FALSE, got |-> Nothing, todo |-> << >>]
Starting(i) == pull[i].boot

\* settings_entries: every setting as it is in memory at this moment.
Entries(i) == [n \in DOMAIN Order |-> [key |-> Order[n], value |-> mem[i][Order[n]]]]

---------------------------------------------------------------------------
(* The owner: update_settings.                                             *)

\* apply: field by field; what came before a refused field stays applied.
Applied(i, sent) ==
  LET bad  == {n \in DOMAIN Order : sent[Order[n]] = Invalid}
      Done(k) == \E n \in DOMAIN Order : Order[n] = k /\ \A b \in bad : n < b
  IN  [k \in Keys |-> IF sent[k] \in {Absent, Invalid} \/ ~Done(k) THEN mem[i][k]
                      ELSE Normalized(sent[k])]

\* The webhook is not among the fields of this request.
Sent == {f \in [Keys -> {1, Oversized, Absent, Invalid}] : f[Webhook] = Absent}

UpdateSettings(i) ==
  /\ update[i] = NoUpdate /\ ~Starting(i)
  /\ updates < MaxUpdates
  /\ updates' = updates + 1
  /\ \E sent \in Sent :
       LET refused == \E k \in Keys : sent[k] = Invalid
       IN  /\ mem' = [mem EXCEPT ![i] = Applied(i, sent)]
           /\ update' = IF refused THEN update ELSE [update EXCEPT ![i].pc = "save"]
  /\ UNCHANGED <<row, shared, pull, lost, dbErrors, starts>>

\* save_to_db and save_to_redis each read all settings once, then write one by one.
SaveBegins(i) ==
  /\ update[i].todo = << >>
  /\ \/ update[i].pc = "save"      /\ update' = [update EXCEPT ![i] = [pc |-> "db", todo |-> Entries(i)]]
     \/ update[i].pc = "db"        /\ update' = [update EXCEPT ![i] = [pc |-> "redis", todo |-> Entries(i)]]
     \/ update[i].pc = "redis"     /\ update' = [update EXCEPT ![i] = NoUpdate]
  /\ UNCHANGED <<mem, row, shared, pull, bounds>>

OneWritten(i) == update' = [update EXCEPT ![i].todo = Tail(@)]

\* A failed write of one setting is ignored.
SaveToDb(i) ==
  /\ update[i].pc = "db" /\ update[i].todo # << >>
  /\ OneWritten(i)
  /\ \/ /\ row' = [row EXCEPT ![i][Head(update[i].todo).key] = Head(update[i].todo).value]
        /\ UNCHANGED dbErrors
     \/ dbErrors < MaxDbErrors /\ dbErrors' = dbErrors + 1 /\ UNCHANGED row
  /\ UNCHANGED <<mem, shared, pull, updates, lost, starts>>

RedisSet(k, v) ==
  \/ shared' = [shared EXCEPT ![k] = v] /\ UNCHANGED lost
  \/ lost < MaxLost /\ lost' = lost + 1 /\ UNCHANGED shared

SaveToRedis(i) ==
  /\ update[i].pc = "redis" /\ update[i].todo # << >>
  /\ OneWritten(i)
  /\ RedisSet(Head(update[i].todo).key, Head(update[i].todo).value)
  /\ UNCHANGED <<mem, row, pull, updates, dbErrors, starts>>

\* set_discord_webhook_url: the row first; when that fails nothing else happens.
SetWebhook(i) ==
  /\ update[i] = NoUpdate /\ ~Starting(i)
  /\ updates < MaxUpdates
  /\ updates' = updates + 1
  /\ \E v \in {0, 1} :      \* deleted, or set
       \/ /\ row' = [row EXCEPT ![i][Webhook] = v]
          /\ mem' = [mem EXCEPT ![i][Webhook] = v]
          /\ update' = [update EXCEPT ![i] = [pc |-> "redis", todo |-> <<[key |-> Webhook, value |-> v]>>]]
          /\ UNCHANGED dbErrors
       \/ /\ dbErrors < MaxDbErrors /\ dbErrors' = dbErrors + 1
          /\ UNCHANGED <<row, mem, update>>
  /\ UNCHANGED <<shared, pull, lost, starts>>

---------------------------------------------------------------------------
(* load_from_redis: the tick, and the last part of a start.                *)

Mget(i) ==
  /\ pull[i].pc \in {"none", "first"}
  /\ \/ /\ pull' = [pull EXCEPT ![i] = [@ EXCEPT !.pc = "apply", !.got = shared,
                                                !.todo = SelectSeq(Order, LAMBDA k : shared[k] # Missing)]]
        /\ UNCHANGED lost
     \/ /\ lost < MaxLost /\ lost' = lost + 1      \* an error reads as nothing
        /\ pull' = [pull EXCEPT ![i] = NoPull]
  /\ UNCHANGED <<mem, row, shared, update, updates, dbErrors, starts>>

Adopted(local, v) == Normalized(v)

\* apply_kv, one setting at a time.
ApplyKv(i) ==
  /\ pull[i].pc = "apply" /\ pull[i].todo # << >>
  /\ LET k == Head(pull[i].todo) IN mem' = [mem EXCEPT ![i][k] = Adopted(@, pull[i].got[k])]
  /\ pull' = [pull EXCEPT ![i].todo = Tail(@)]
  /\ UNCHANGED <<row, shared, update, bounds>>

Pulled(i) ==
  /\ pull[i].pc = "apply" /\ pull[i].todo = << >>
  /\ pull' = [pull EXCEPT ![i] = NoPull]
  /\ UNCHANGED <<mem, row, shared, update, bounds>>

---------------------------------------------------------------------------
(* A start: from_env, load_from_db, then seed_and_load before it serves.   *)

Start(i) ==
  /\ starts < MaxStarts
  /\ starts' = starts + 1
  /\ mem' = [mem EXCEPT ![i] = [k \in Keys |-> IF row[i][k] = Missing THEN 0 ELSE Normalized(row[i][k])]]
  /\ update' = [update EXCEPT ![i] = NoUpdate]
  /\ pull' = [pull EXCEPT ![i] = [NoPull EXCEPT !.pc = "seed", !.boot = TRUE]]
  /\ UNCHANGED <<row, shared, updates, lost, dbErrors>>

\* What Redis lacks is seeded; an unanswered MGET says that it lacks everything.
SeedReads(i) ==
  /\ pull[i].pc = "seed"
  /\ \/ /\ pull' = [pull EXCEPT ![i] = [@ EXCEPT !.pc = "seeding",
                                                !.todo = SelectSeq(Order, LAMBDA k : shared[k] = Missing)]]
        /\ UNCHANGED lost
     \/ /\ lost < MaxLost /\ lost' = lost + 1
        /\ pull' = [pull EXCEPT ![i] = [@ EXCEPT !.pc = "seeding", !.todo = Order]]
  /\ UNCHANGED <<mem, row, shared, update, updates, dbErrors, starts>>

\* set_nx
Seeded_Overwrites(old, v) == v
Seeded(old, v) == IF old = Missing THEN v ELSE old
SeedOne(i) ==
  /\ pull[i].pc = "seeding"
  /\ IF pull[i].todo = << >>
     THEN pull' = [pull EXCEPT ![i].pc = "first"] /\ UNCHANGED <<shared, lost>>
     ELSE LET k == Head(pull[i].todo)
          IN  /\ pull' = [pull EXCEPT ![i].todo = Tail(@)]
              /\ RedisSet(k, Seeded(shared[k], mem[i][k]))
  /\ UNCHANGED <<mem, row, update, updates, dbErrors, starts>>

---------------------------------------------------------------------------
\* A new fleet: nothing is stored anywhere and every instance is starting.
Init == /\ mem = [i \in Inst |-> [k \in Keys |-> 0]]
        /\ row = [i \in Inst |-> Nothing]
        /\ shared = Nothing
        /\ update = [i \in Inst |-> NoUpdate]
        /\ pull = [i \in Inst |-> [NoPull EXCEPT !.pc = "seed", !.boot = TRUE]]
        /\ updates = 0 /\ lost = 0 /\ dbErrors = 0 /\ starts = 0

Saving(i) == SaveBegins(i) \/ SaveToDb(i) \/ SaveToRedis(i)
Syncing(i) == Mget(i) \/ ApplyKv(i) \/ Pulled(i) \/ SeedReads(i) \/ SeedOne(i)
Next == \E i \in Inst : UpdateSettings(i) \/ SetWebhook(i) \/ Saving(i) \/ Syncing(i) \/ Start(i)
Spec == Init /\ [][Next]_vars
\* An update under way goes on, and the tick repeats.
Fairness == \A i \in Inst : WF_vars(Saving(i)) /\ WF_vars(Syncing(i))
FairSpec == Spec /\ Fairness

---------------------------------------------------------------------------
TypeOK == /\ mem \in [Inst -> [Keys -> Values]]
          /\ row \in [Inst -> [Keys -> Values \cup {Missing}]]
          /\ shared \in [Keys -> Values \cup {Missing}]
          /\ \A i \in Inst : update[i].pc \in {"none", "save", "db", "redis"}

\* A start never replaces what the fleet already shares, though another instance may
\* have stored it after this one looked.
KeepsShared ==
  \A k \in Keys : (\E i \in Inst : pull[i].pc = "seeding" /\ pull'[i] # pull[i])
                    /\ shared[k] # Missing => shared'[k] = shared[k]
SeedKeepsShared == [][KeepsShared]_vars

\* However updates, ticks and starts interleave and commands get lost, all instances
\* end up running the settings that Redis holds.
Adopts == \A k \in Keys, i \in Inst : shared[k] # Missing => mem[i][k] = shared[k]
SettingsConverge == <>[]Adopts

=============================================================================
