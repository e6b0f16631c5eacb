----------------------------- MODULE RequestLog -----------------------------
(***************************************************************************)
(* The request log of the overview (request_log.rs): a bounded list of     *)
(* finished requests and one bucket of counts per second, from which the   *)
(* rates are computed.  Requests run concurrently; each reads the wall     *)
(* clock when its response is ready and records itself later, so records   *)
(* of one second arrive after records of the next.                         *)
(***************************************************************************)
EXTENDS Naturals, Sequences, FiniteSets, FiniteSetsExt

CONSTANTS Reqs,        \* requests
          Outcomes,    \* what a response can look like, see Served
          Window,      \* RATE_WINDOW_SECONDS
          Recent,      \* RATE_NOW_SECONDS
          MaxEntries,  \* MAX_ENTRIES
          MaxTime

VARIABLES second,    \* the wall clock
          serving,   \* [Reqs -> [pc, out, ts, accounts]]
          entries,   \* the log
          buckets,   \* requests_per_second: [seconds -> counts]
          written    \* history: every record, as <<request, ts, counts>>

vars == <<second, serving, entries, buckets, written>>

Fields == {"playback", "search", "catalog", "cached", "throttled"}
Plus(x, y) == [f \in Fields |-> x[f] + y[f]]
Start == Window + 1        \* no record is older than the clock

---------------------------------------------------------------------------
\* Traffic::of: an outcome has a route class, the cache verdict and rejected.
Traffic(out) ==
  IF out.rejected \/ out.class = "service" THEN "service"
  ELSE IF out.cache \in {"HIT", "STALE", "NEGATIVE"} THEN "cached" ELSE out.class

\* SecondCounts::of: what picked no account was answered locally, a queued playback
\* job excepted; our own "every account is busy" is not throttling.
CountsOf(out, accounts) ==
  LET sent == accounts # << >> \/ (Traffic(out) = "playback" /\ out.status = 202)
  IN  [f \in Fields |->
        CASE f = "cached"    -> IF Traffic(out) = "cached" THEN 1 ELSE 0
          [] f = "throttled" -> IF /\ Traffic(out) # "service"
                                   /\ out.status = 429 /\ ~out.busy THEN 1 ELSE 0
          [] OTHER           -> IF sent /\ Traffic(out) = f THEN 1 ELSE 0]

\* The queue drops its oldest entry; buckets too old for the newest record go.
Logged(e) == Append(IF Len(entries) >= MaxEntries THEN Tail(entries) ELSE entries, e)
Kept_TooFew(at, ts) == at + Recent > ts
Kept(at, ts) == at + Window > ts

\* One bucket per second: a record goes to the bucket of its second, if there is one.
Bucketed(ts, counts) ==
  LET live == {at \in DOMAIN buckets : Kept(at, ts)}
  IN  [at \in live \cup {ts} |->
        IF at # ts THEN buckets[at]
        ELSE IF ts \in live THEN Plus(buckets[ts], counts) ELSE counts]

---------------------------------------------------------------------------
Idle == [pc |-> "new", out |-> CHOOSE o \in Outcomes : TRUE, ts |-> 0, accounts |-> << >>]

\* note_account: an immediate repetition of the same selection is not listed twice.
NoteAccount(r) ==
  /\ serving[r].pc = "new"
  /\ Len(serving[r].accounts) = 0
  /\ serving' = [serving EXCEPT ![r].accounts = Append(@, "account")]
  /\ UNCHANGED <<second, entries, buckets, written>>

\* log_requests after the handler: status, error detail and cache verdict are read
\* and the second is taken.  A client turned away by the guard picked no account.
Served(r) ==
  /\ serving[r].pc = "new"
  /\ \E o \in Outcomes :
       /\ o.rejected => serving[r].accounts = << >>
       /\ serving' = [serving EXCEPT ![r].pc = "ready", ![r].out = o, ![r].ts = second]
  /\ UNCHANGED <<second, entries, buckets, written>>

Record(r) ==
  LET s == serving[r]
      c == CountsOf(s.out, s.accounts)
  IN  /\ s.pc = "ready"
      /\ entries' = Logged(s.out)
      /\ buckets' = Bucketed(s.ts, c)
      /\ written' = written \cup {<<r, s.ts, c>>}
      /\ serving' = [serving EXCEPT ![r] = [Idle EXCEPT !.pc = "done"]]
      /\ UNCHANGED second

SecondPasses == /\ second < Start + MaxTime
                /\ second' = second + 1
                /\ UNCHANGED <<serving, entries, buckets, written>>

Init == /\ second = Start
        /\ serving = [r \in Reqs |-> Idle]
        /\ entries = << >> /\ buckets = [at \in {} |-> 0] /\ written = {}
Next == (\E r \in Reqs : NoteAccount(r) \/ Served(r) \/ Record(r)) \/ SecondPasses
Spec == Init /\ [][Next]_vars

---------------------------------------------------------------------------
(* request_rates_at.                                                       *)

TotalOver(S) ==      \* the counts of the buckets whose second is in S
  [f \in Fields |-> SumFunction([at \in S \cap DOMAIN buckets |-> buckets[at][f]])]
LastMinute == (second - Window + 1)..second
JustNow == (second - Recent)..(second - 1)

\* What was recorded in the seconds of S.
Recorded(S) == [f \in Fields |-> SumFunction([w \in {w \in written : w[2] \in S} |-> w[3][f]])]

TypeOK == /\ second \in Nat
          /\ \A r \in Reqs : /\ serving[r].pc \in {"new", "ready", "done"}
                             /\ serving[r].ts \in 0..second
          /\ entries \in Seq(Outcomes) /\ Len(entries) <= MaxEntries
          /\ DOMAIN buckets \subseteq 1..second

\* The averages over the window, the "now" rate and the history (from which the peaks
\* are taken) count every recorded request in its second, once, whatever the order in
\* which concurrent requests recorded.  The history also shows second - Window, which the
\* first record of the present second drops: that one is not claimed.
RatesExact == /\ TotalOver(LastMinute) = Recorded(LastMinute)
              /\ TotalOver(JustNow) = Recorded(JustNow)
              /\ \A at \in LastMinute : TotalOver({at}) = Recorded({at})

=============================================================================
