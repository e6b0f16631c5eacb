--------------------------- MODULE RateLimitPause ---------------------------
(***************************************************************************)
(* The 429 pause of one account (account_manager.rs): requests that are    *)
(* under way together may all be refused; each refusal counts a strike or  *)
(* joins the burst, lengthens the pause and writes it to SQLite.  The      *)
(* steps of pause_account are separate atomic operations, and the writes   *)
(* of concurrent requests reach the row in any order.                      *)
(***************************************************************************)
EXTENDS Naturals, FiniteSets, FiniteSetsExt

CONSTANTS Requests,     \* concurrent requests of the account
          RetryAfters,  \* seconds Tidal may ask for (the default when it does not)
          MaxPause,     \* RATE_LIMIT_MAX_SECS
          Forgive,      \* RATE_LIMIT_FORGIVE_SECS
          MaxRefusals,  \* 429 answers in a behaviour
          MaxRestarts, MaxDbErrors, MaxTime

VARIABLES time, until, strikes,
          row,       \* accounts.rate_limited_until
          request,   \* [Requests -> [pc, now, previous, strike, after]]
          refusals, restarts, dbErrors,
          owed       \* history: the latest end Tidal asked for in a finished pause_account

vars == <<time, until, strikes, row, request, refusals, restarts, dbErrors, owed>>

Idle == [pc |-> "idle", now |-> 0, previous |-> 0, strike |-> 0, after |-> 0]
Doubled(base, strike) == base * 2^Min({strike - 1, 16})

\* rate_limit_pause_secs: doubled for every earlier strike up to the cap, unless
\* Tidal asked for longer.
PauseSecs(base, strike) == Min({Doubled(base, strike), Max({MaxPause, base})})

---------------------------------------------------------------------------
\* rate_limit_remaining: a paused account is not asked.
Send(r) ==
  /\ request[r].pc = "idle"
  /\ until <= time
  /\ request' = [request EXCEPT ![r].pc = "sent"]
  /\ UNCHANGED <<time, until, strikes, row, refusals, restarts, dbErrors, owed>>

Answered(r) ==
  /\ request[r].pc = "sent"
  /\ request' = [request EXCEPT ![r] = Idle]
  /\ UNCHANGED <<time, until, strikes, row, refusals, restarts, dbErrors, owed>>

\* pause_account up to the load of the pause it may belong to.
Refused(r) ==
  /\ request[r].pc = "sent"
  /\ refusals < MaxRefusals
  /\ refusals' = refusals + 1
  /\ \E s \in RetryAfters :
       request' = [request EXCEPT ![r] = [pc |-> "strike", now |-> time, previous |-> until,
                                          strike |-> 0, after |-> s]]
  /\ UNCHANGED <<time, until, strikes, row, restarts, dbErrors, owed>>

\* One of the burst that began the pause, another strike, or the first again.
Strike(r) ==
  LET q == request[r]
      n == IF q.now < q.previous THEN Max({strikes, 1})
           ELSE IF q.previous > 0 /\ q.now - q.previous <= Forgive THEN strikes + 1 ELSE 1
  IN  /\ q.pc = "strike"
      /\ request' = [request EXCEPT ![r].pc = "extend", ![r].strike = n]
      /\ strikes' = IF q.now < q.previous THEN strikes ELSE n
      /\ UNCHANGED <<time, until, row, refusals, restarts, dbErrors, owed>>

End(q) == q.now + PauseSecs(q.after, q.strike)

\* fetch_max on the deadline in memory.
Later_Overwrites(old, new) == new
Later(old, new) == Max({old, new})
Extend(r) ==
  /\ request[r].pc = "extend"
  /\ until' = Later(until, End(request[r]))
  /\ request' = [request EXCEPT ![r].pc = "write"]
  /\ UNCHANGED <<time, strikes, row, refusals, restarts, dbErrors, owed>>

\* UPDATE ... MAX(rate_limited_until, ?); a failed write is only logged.
Persist(r) ==
  LET q == request[r]
  IN  /\ q.pc = "write"
      /\ \/ /\ row' = Later(row, End(q))
            /\ owed' = Max({owed, q.now + q.after})
            /\ UNCHANGED dbErrors
         \/ /\ dbErrors < MaxDbErrors
            /\ dbErrors' = dbErrors + 1
            /\ UNCHANGED <<row, owed>>
      /\ request' = [request EXCEPT ![r] = Idle]
      /\ UNCHANGED <<time, until, strikes, refusals, restarts>>

\* A restart loads the deadline; the strikes are kept in memory only.
Restart ==
  /\ restarts < MaxRestarts
  /\ restarts' = restarts + 1
  /\ until' = row /\ strikes' = 0
  /\ request' = [r \in Requests |-> Idle]
  /\ UNCHANGED <<time, row, refusals, dbErrors, owed>>

Tick == /\ time < MaxTime
        /\ time' = time + 1
        /\ UNCHANGED <<until, strikes, row, request, refusals, restarts, dbErrors, owed>>

---------------------------------------------------------------------------
Init == /\ time = 1 /\ until = 0 /\ strikes = 0 /\ row = 0
        /\ request = [r \in Requests |-> Idle]
        /\ refusals = 0 /\ restarts = 0 /\ dbErrors = 0
        /\ owed = 0
Next == \/ \E r \in Requests : \/ Send(r) \/ Answered(r) \/ Refused(r)
                               \/ Strike(r) \/ Extend(r) \/ Persist(r)
        \/ Restart \/ Tick
Spec == Init /\ [][Next]_vars

---------------------------------------------------------------------------
TypeOK == /\ time \in 1..MaxTime /\ until \in Nat /\ row \in Nat /\ strikes \in Nat
          /\ \A r \in Requests : /\ request[r].pc \in {"idle", "sent", "strike", "extend", "write"}
                                 /\ request[r].now <= time /\ request[r].strike <= MaxRefusals

\* Whatever Tidal asked for in a 429 is kept: neither a shorter pause of a parallel
\* request, nor writes that overtake each other, nor a restart bring the account
\* back before the time Tidal named.
RetryAfterKept == until >= owed /\ row >= owed

\* Strikes never keep an account away longer than the cap, or than Tidal asked for.
PauseBounded == until <= time + Max(RetryAfters \cup {MaxPause})

=============================================================================
