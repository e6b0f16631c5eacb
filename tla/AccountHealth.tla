--------------------------- MODULE AccountHealth ---------------------------
(***************************************************************************)
(* How one account is judged fit for playback (autoheal.rs, the preview    *)
(* and subscription parts of account_manager.rs): the hourly FULL check,   *)
(* the daily subscription check and the answers of ordinary traffic move   *)
(* its status, count PREVIEW results in a row and in the end make it       *)
(* catalog-only.  The heal loop, traffic and the owner interleave; saves   *)
(* of the streak reach SQLite in any order; a write may fail.              *)
(* Deadlines are flags here: due (the hour is over), fresh (FULL or a      *)
(* check within the last 60 s), subDue (the day is over).                  *)
(***************************************************************************)
EXTENDS Naturals, FiniteSets

CONSTANTS CheckLimit,     \* PREVIEW_CHECKS_BEFORE_CATALOG
          TrafficLimit,   \* TRAFFIC_PREVIEWS_BEFORE_PREVIEW_ONLY
          MaxPlans,       \* changes of the plan at Tidal
          MaxOdd,         \* inconclusive checks
          MaxDbErrors, MaxOwner, MaxStarts

VARIABLES plan,       \* Tidal's side: "full", "preview" or "free"
          status,     \* premium_status
          fresh, due, subDue,
          streak, rowStreak, traffic,   \* preview_streak, its row, traffic_preview_streak
          catalog, rowCatalog,
          saves,      \* values of preview_streak on their way to SQLite
          heal,       \* the pass over this account: [pc, got]
          plans, odd, dbErrors, owner, starts

vars == <<plan, status, fresh, due, subDue, streak, rowStreak, traffic, catalog,
          rowCatalog, saves, heal, plans, odd, dbErrors, owner, starts>>

Idle == [pc |-> "idle", got |-> "none"]
bounds == <<plans, odd, dbErrors, owner, starts>>

---------------------------------------------------------------------------
(* The pass of the heal loop.                                              *)

\* full_check_due, then the probe; the tokens and pauses it needs are TokenRefresh's
\* and RateLimitPause's.  An account that is catalog-only is never due.
FullCheckDue == due /\ ~catalog
Probe ==
  /\ heal.pc = "idle" /\ FullCheckDue
  /\ \/ heal' = [pc |-> "premium", got |-> IF plan = "full" THEN "premium" ELSE "preview-only"]
        /\ UNCHANGED odd
     \/ odd < MaxOdd /\ odd' = odd + 1 /\ heal' = [pc |-> "premium", got |-> "unknown"]
  /\ UNCHANGED <<plan, status, fresh, due, subDue, streak, rowStreak, traffic, catalog,
                 rowCatalog, saves, plans, dbErrors, owner, starts>>

\* set_premium: only FULL ends a streak.
EndsStreak_AnyResult(got) == TRUE
EndsStreak(got) == got = "premium"
SetPremium ==
  /\ heal.pc = "premium"
  /\ status' = heal.got
  /\ fresh' = TRUE /\ due' = FALSE
  /\ traffic' = IF EndsStreak(heal.got) THEN 0 ELSE traffic
  /\ streak' = IF EndsStreak(heal.got) THEN 0 ELSE streak
  /\ saves' = IF EndsStreak(heal.got) /\ streak # 0 THEN saves \cup {0} ELSE saves
  /\ heal' = IF heal.got = "preview-only" THEN [heal EXCEPT !.pc = "note"] ELSE Idle
  /\ UNCHANGED <<plan, subDue, rowStreak, catalog, rowCatalog, bounds>>

\* note_preview_check.
NotePreviewCheck ==
  /\ heal.pc = "note"
  /\ streak' = streak + 1
  /\ IF streak + 1 < CheckLimit THEN saves' = saves \cup {streak + 1} /\ heal' = Idle
     ELSE heal' = [heal EXCEPT !.pc = "flag"] /\ UNCHANGED saves
  /\ UNCHANGED <<plan, status, fresh, due, subDue, rowStreak, traffic, catalog,
                 rowCatalog, bounds>>

\* set_account_catalog: memory first, then the row; a failed write is reported and
\* the streak stays.
Flag ==
  /\ heal.pc = "flag"
  /\ catalog' = TRUE
  /\ \/ /\ rowCatalog' = TRUE
        /\ heal' = IF heal.got = "free" THEN Idle ELSE [heal EXCEPT !.pc = "moved"]
        /\ UNCHANGED dbErrors
     \/ /\ dbErrors < MaxDbErrors
        /\ dbErrors' = dbErrors + 1
        /\ heal' = Idle
        /\ UNCHANGED rowCatalog
  /\ UNCHANGED <<plan, status, fresh, due, subDue, streak, rowStreak, traffic, saves,
                 plans, odd, owner, starts>>

Moved ==
  /\ heal.pc = "moved"
  /\ streak' = 0
  /\ saves' = saves \cup {0}
  /\ heal' = Idle
  /\ UNCHANGED <<plan, status, fresh, due, subDue, rowStreak, traffic, catalog,
                 rowCatalog, bounds>>

\* account_subscription_at: the plan that Tidal names, or an odd answer.
Subscription(got) ==
  \/ got = plan /\ UNCHANGED odd
  \/ got = "unknown" /\ odd < MaxOdd /\ odd' = odd + 1

\* check_subscription_now and apply_subscription: a FREE plan moves the account too.
\* An error leaves it due, after an hour instead of a day.
CheckSubscription ==
  /\ heal.pc = "idle" /\ subDue /\ ~catalog
  /\ \E got \in {plan, "unknown"} :
       /\ Subscription(got)
       /\ subDue' = (got = "unknown")
       /\ heal' = IF got = "free" THEN [pc |-> "flag", got |-> "free"] ELSE Idle
  /\ UNCHANGED <<plan, status, fresh, due, streak, rowStreak, traffic, catalog,
                 rowCatalog, saves, plans, dbErrors, owner, starts>>

---------------------------------------------------------------------------
(* Traffic, on accounts that still serve playback.                         *)

\* confirm_full: a recent FULL changes nothing more.
ConfirmFull ==
  /\ plan = "full" /\ ~catalog
  /\ traffic' = 0
  /\ IF fresh /\ status = "premium" THEN UNCHANGED <<status, fresh, due, streak, saves>>
     ELSE /\ status' = "premium" /\ fresh' = TRUE /\ due' = FALSE
          /\ streak' = 0
          /\ saves' = IF streak # 0 THEN saves \cup {0} ELSE saves
  /\ UNCHANGED <<plan, subDue, rowStreak, catalog, rowCatalog, heal, bounds>>

\* note_traffic_preview: another account served FULL what this one previewed.
NoteTrafficPreview_KeepsCounting ==
  /\ plan # "full" /\ ~catalog
  /\ traffic' = traffic + 1
  /\ IF traffic' < TrafficLimit THEN UNCHANGED <<status, fresh, due>>
     ELSE status' = "preview-only" /\ fresh' = TRUE /\ due' = FALSE
  /\ UNCHANGED <<plan, subDue, streak, rowStreak, catalog, rowCatalog, saves, heal, bounds>>

NoteTrafficPreview ==
  /\ plan # "full" /\ ~catalog
  /\ IF traffic + 1 < TrafficLimit
     THEN traffic' = traffic + 1 /\ UNCHANGED <<status, fresh, due>>
     ELSE traffic' = 0 /\ status' = "preview-only" /\ fresh' = TRUE /\ due' = FALSE
  /\ UNCHANGED <<plan, subDue, streak, rowStreak, catalog, rowCatalog, saves, heal, bounds>>

---------------------------------------------------------------------------
\* save_preview_streak: concurrent UPDATEs end in any order, and may fail.
SaveStreak ==
  /\ \E n \in saves :
       /\ saves' = saves \ {n}
       /\ \/ rowStreak' = n /\ UNCHANGED dbErrors
          \/ dbErrors < MaxDbErrors /\ dbErrors' = dbErrors + 1 /\ UNCHANGED rowStreak
  /\ UNCHANGED <<plan, status, fresh, due, subDue, streak, traffic, catalog, rowCatalog,
                 heal, plans, odd, owner, starts>>

\* The owner flags or unflags the account.
OwnerCatalog ==
  /\ owner < MaxOwner /\ owner' = owner + 1
  /\ catalog' = ~catalog /\ rowCatalog' = ~catalog
  /\ UNCHANGED <<plan, status, fresh, due, subDue, streak, rowStreak, traffic, saves,
                 heal, plans, odd, dbErrors, starts>>

\* A restart loads flag and streak; status and check times are kept in memory only.
Restart ==
  /\ starts < MaxStarts /\ starts' = starts + 1
  /\ status' = "unknown" /\ fresh' = FALSE /\ due' = TRUE
  /\ streak' = rowStreak /\ catalog' = rowCatalog /\ traffic' = 0
  /\ saves' = {} /\ heal' = Idle
  /\ UNCHANGED <<plan, subDue, rowStreak, rowCatalog, plans, odd, dbErrors, owner>>

PlanChanges ==
  /\ plans < MaxPlans /\ plans' = plans + 1
  /\ \E p \in {"full", "preview", "free"} \ {plan} : plan' = p
  /\ UNCHANGED <<status, fresh, due, subDue, streak, rowStreak, traffic, catalog,
                 rowCatalog, saves, heal, odd, dbErrors, owner, starts>>

MinutePasses == /\ fresh /\ fresh' = FALSE
                /\ UNCHANGED <<plan, status, due, subDue, streak, rowStreak, traffic, catalog,
                               rowCatalog, saves, heal, bounds>>
HourPasses == /\ ~due /\ due' = TRUE /\ fresh' = FALSE
              /\ UNCHANGED <<plan, status, subDue, streak, rowStreak, traffic, catalog,
                             rowCatalog, saves, heal, bounds>>
DayPasses == /\ ~subDue /\ subDue' = TRUE
             /\ UNCHANGED <<plan, status, fresh, due, streak, rowStreak, traffic, catalog,
                            rowCatalog, saves, heal, bounds>>

Init == /\ plan \in {"full", "preview", "free"} /\ status = "unknown"
        /\ fresh = FALSE /\ due = TRUE /\ subDue = TRUE
        /\ streak = 0 /\ rowStreak = 0 /\ traffic = 0
        /\ catalog = FALSE /\ rowCatalog = FALSE
        /\ saves = {} /\ heal = Idle
        /\ plans = 0 /\ odd = 0 /\ dbErrors = 0 /\ owner = 0 /\ starts = 0

HealPass == \/ Probe \/ SetPremium \/ NotePreviewCheck \/ Flag \/ Moved \/ CheckSubscription
Next == \/ HealPass \/ ConfirmFull \/ NoteTrafficPreview \/ SaveStreak \/ OwnerCatalog
        \/ Restart \/ PlanChanges \/ MinutePasses \/ HourPasses \/ DayPasses
Spec == Init /\ [][Next]_vars
\* The heal loop runs for ever, and hours pass.  Traffic PREVIEWs postpone a check;
\* an account marked PREVIEW-only is chosen last, so they do not do so for good.
Fairness == WF_vars(HealPass) /\ WF_vars(HourPasses) /\ SF_vars(Probe)
FairSpec == Spec /\ Fairness

---------------------------------------------------------------------------
TypeOK == /\ status \in {"unknown", "premium", "preview-only"}
          /\ streak \in Nat /\ rowStreak \in Nat
          /\ traffic \in 0..(TrafficLimit - 1)
          /\ saves \subseteq Nat
          /\ heal.pc \in {"idle", "premium", "note", "flag", "moved"}

\* An account that Tidal serves previews only does not stay in playback: whatever
\* inconclusive checks, failed writes and restarts come between, the PREVIEW checks
\* add up and it ends as catalog-only.
NotFull == plan # "full"
MovedOut == catalog
PreviewsEndPlayback == <>[]NotFull => <>[]MovedOut

=============================================================================
