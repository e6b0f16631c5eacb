--------------------------- MODULE AccountUptime ---------------------------
(***************************************************************************)
(* The availability history of one account (account_uptime.rs and the      *)
(* observe_uptime / reset_uptime / load_uptime of account_manager.rs): the *)
(* transitions seen in the last seven days, in memory and in SQLite, from  *)
(* which the panel draws a timeline.  Every operation runs under the       *)
(* account's history mutex, so it is one step, except that a failed write  *)
(* leaves memory and database apart.  The wall clock may be set back.      *)
(***************************************************************************)
EXTENDS Naturals, Sequences, FiniteSets, FiniteSetsExt, SequencesExt

CONSTANTS Span,         \* WINDOW_SECS
          MaxTime,
          MaxEvents,    \* changes of the account's state
          MaxBack,      \* times the clock is set back
          MaxDbErrors,
          MaxRestarts   \* restarts and resets

VARIABLES now,
          state,     \* the account: [active, ready, expires]
          events,    \* memory: Seq of [at, active, ready, expires]
          stored,    \* account_uptime_events, in order of id
          truth,     \* history: every transition since the last reset, never pruned
          latest,    \* history: the latest time the clock showed
          changes, back, dbErrors, restarts

vars == <<now, state, events, stored, truth, latest, changes, back, dbErrors, restarts>>

Never == 0          \* no expiry
Start == Span + 1   \* the clock at the beginning; the window may start before it

\* Event::status
StatusAt(e, t) == IF ~e.active THEN "down"
                  ELSE IF ~e.ready \/ (e.expires # Never /\ e.expires <= t) THEN "waiting"
                  ELSE "up"

\* The events of s older than the window, the last of them excepted.
Old(s) == {k \in 1..Len(s) : s[k].at + Span < now}
Prune_DropsAllOld(s) == SubSeq(s, Cardinality(Old(s)) + 1, Len(s))
Prune(s) == IF Cardinality(Old(s)) > 1 THEN SubSeq(s, Cardinality(Old(s)), Len(s)) ELSE s

---------------------------------------------------------------------------
\* record_uptime: the snapshot an observation is made from.
Snapshot == LET ready == state.active /\ state.ready /\ state.expires > now
            IN  [active |-> state.active, ready |-> ready,
                 expires |-> IF ready THEN state.expires ELSE Never]

\* A backwards clock does not reorder transitions.
Stamp(s) == IF s # << >> /\ Last(s).at > now THEN Last(s).at ELSE now

Same(s) == s # << >> /\ [Last(s) EXCEPT !.at = 0] =
             [at |-> 0, active |-> Snapshot.active, ready |-> Snapshot.ready,
              expires |-> Snapshot.expires]
Event(s) == [at |-> Stamp(s), active |-> Snapshot.active,
             ready |-> Snapshot.ready, expires |-> Snapshot.expires]

\* INSERT, and the DELETE that keeps the last event before the window.
Inserted(tb, e) == Prune(Append(tb, e))

\* observe on history s and table tb: the transition is remembered before it is
\* written, and a failed write is only logged.
Observed(s, tb) ==
  LET p == Prune(s)
  IN  IF Same(p) THEN events' = p /\ stored' = tb /\ UNCHANGED <<truth, dbErrors>>
      ELSE /\ events' = Append(p, Event(p))
           /\ truth' = Append(truth, Event(p))
           /\ \/ stored' = Inserted(tb, Event(p)) /\ UNCHANGED dbErrors
              \/ /\ dbErrors < MaxDbErrors
                 /\ dbErrors' = dbErrors + 1
                 /\ stored' = tb

---------------------------------------------------------------------------
\* The pool changes the account: switched, a token stored or rejected.  The change
\* is observed by its caller, or by the next summary.
StateChanges ==
  /\ changes < MaxEvents
  /\ changes' = changes + 1
  /\ \E a, r \in BOOLEAN, x \in {now + 1, now + Span} :
       LET s == [active |-> a, ready |-> r, expires |-> IF r THEN x ELSE Never]
       IN  s # state /\ state' = s
  /\ UNCHANGED <<now, events, stored, truth, latest, back, dbErrors, restarts>>

ObserveUptime == /\ Observed(events, stored)
                 /\ UNCHANGED <<now, state, latest, changes, back, restarts>>

\* reset_uptime: the table and memory are emptied, the present state restarts both.
ResetUptime ==
  /\ restarts < MaxRestarts
  /\ restarts' = restarts + 1
  /\ events' = <<Event(<< >>)>> /\ stored' = events' /\ truth' = events'
  /\ UNCHANGED <<now, state, latest, changes, back, dbErrors>>

\* load_uptime after a restart: the window and the event before it, then an
\* observation.
LoadUptime ==
  /\ restarts < MaxRestarts
  /\ restarts' = restarts + 1
  /\ Observed(Prune(stored), stored)
  /\ UNCHANGED <<now, state, latest, changes, back>>

ClockRuns == /\ now < Start + MaxTime
             /\ now' = now + 1
             /\ latest' = Max({latest, now'})
             /\ UNCHANGED <<state, events, stored, truth, changes, back, dbErrors, restarts>>
ClockSetBack == /\ back < MaxBack /\ now > Start
                /\ now' = now - 1 /\ back' = back + 1
                /\ UNCHANGED <<state, events, stored, truth, latest, changes, dbErrors, restarts>>

Init == /\ now = Start
        /\ state = [active |-> TRUE, ready |-> FALSE, expires |-> Never]
        /\ events = << >> /\ stored = << >> /\ truth = << >> /\ latest = Start
        /\ changes = 0 /\ back = 0 /\ dbErrors = 0 /\ restarts = 0
Next == \/ StateChanges \/ ObserveUptime \/ ResetUptime \/ LoadUptime
        \/ ClockRuns \/ ClockSetBack
Spec == Init /\ [][Next]_vars

---------------------------------------------------------------------------
\* summary: walk the events in order, each second gets the status of the last event
\* before the first one that is later than the second; seconds before the first event
\* are unknown.  The walk stops at an event later than now, and no second is.
Walk(s, first) ==
  [t \in first..(now - 1) |->
     LET passed == {k \in 1..Len(s) : \A j \in 1..k : s[j].at <= t}
     IN  IF passed = {} THEN "unknown" ELSE StatusAt(s[Max(passed)], t)]
Summary == Walk(Prune(events), now - Span)

\* What was observed about second t: the last transition at or before it.
TrueStatus(t) ==
  LET before == {k \in 1..Len(truth) : truth[k].at <= t}
  IN  IF before = {} THEN "unknown" ELSE StatusAt(truth[Max(before)], t)

TypeOK == /\ now \in Nat /\ latest >= now /\ state.active \in BOOLEAN
          /\ \A k \in 1..Len(events) : events[k].at \in Nat

\* Pruning, deduplication, resets and a clock that is set back never falsify the
\* timeline: every second shows what was observed about it; only seconds that had
\* already left the window may be unknown when the clock is set back to them.  A
\* failed write shows only after a restart.
TimelineTrue ==
  dbErrors = 0 \/ restarts = 0 =>
    \A t \in DOMAIN Summary :
      Summary[t] \in {TrueStatus(t)} \cup (IF t + Span < latest THEN {"unknown"} ELSE {})

\* What a restart would draw of the window is what is drawn now, as long as every
\* write succeeded.
RestartAgrees ==
  dbErrors = 0 =>
    \A t \in DOMAIN Summary :
      t + Span >= latest => Walk(Prune(stored), now - Span)[t] = Summary[t]

=============================================================================
