--------------------------- MODULE MCServiceParts ---------------------------
(***************************************************************************)
(* Instances of ServiceParts for TLC: three requests for one slot of the   *)
(* queue, with clients that may stop polling, beside two pool requests for *)
(* two accounts that rest after each (live); and three pool requests for   *)
(* one account beside one request that goes from account to account (pool).*)
(***************************************************************************)
EXTENDS ServiceParts, TLC

CONSTANTS m1, m2, b1, b2, b3

NoneCached == [r \in Req |-> Uncached]

\* The metadata requests are interchangeable, and so are the accounts of the failover.
Symmetry == Permutations({m1, m2}) \cup Permutations({b1, b2, b3})

\* What of a request's locals a later step or a property can still read: nothing
\* once it has ended, the wait's locals only while it waits.
Live(r) ==
  IF poolPc[r] \in {"done", "failed"} THEN <<>>
  ELSE <<poolPc[r], poolHeld[r], poolRules[r], poolFailed[r], poolMaxTry[r], poolFirst[r],
         poolHits[r], poolLimited[r], poolSecond[r], poolAfter429[r],
         poolPc[r] \in {"registered", "checked", "asleep"} /\ poolNotified[r],
         poolPc[r] \in {"begin", "registered", "checked", "asleep"} /\ poolLate[r],
         IF poolPc[r] \in {"checked", "asleep"} THEN poolFull[r] ELSE {}>>

\* States that differ only in dead locals are one state (safety runs without a queue).
View == <<service, Pool!pool, [r \in DOMAIN poolPc |-> Live(r)]>>

=============================================================================
