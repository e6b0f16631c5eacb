---------------------------- MODULE ThrottleProofs ----------------------------
(***************************************************************************)
(* Three limits the service keeps, checked by TLAPS: the pause of an       *)
(* account that Tidal answered 429 (RateLimitPause), the one alert per     *)
(* interval of a webhook (AlertThrottle) and the quota of an API key       *)
(* (ApiKeyQuota), for any number of requests, tasks and instances; and the *)
(* rates drawn from the request log (RequestLog).                          *)
(***************************************************************************)
EXTENDS RateLimitPause, Sequences, FiniteSetTheorems, WellFoundedInduction, TLAPS

CONSTANTS Alerters, Kinds, Webhooks, Interval, MaxAlerts, MaxChanges, MaxClock
VARIABLES webhook, lastSent, lock, alert, posted, clock, alerts, changes
Alert == INSTANCE AlertThrottle WITH MaxTime <- MaxClock

CONSTANTS Inst, Quota, MaxCalls, MaxFlips, MaxCrashes, MaxLost
VARIABLES used, keyRow, active, writes, incrs, counter, sync,
          calls, flips, crashes, lost, life, granted
Key == INSTANCE ApiKeyQuota WITH row <- keyRow

CONSTANTS Reqs, Outcomes, Window, Recent, MaxEntries, MaxSeconds
VARIABLES second, serving, entries, buckets, written
Log == INSTANCE RequestLog WITH MaxTime <- MaxSeconds

---------------------------------------------------------------------------
(* The longest pause *)

\* A set of naturals has a least member.
LEMMA LeastNat ==
  ASSUME NEW S \in SUBSET Nat, S # {}
  PROVE  \E m \in S : \A k \in S : m <= k
<1> DEFINE R == OpToRel(<, Nat)
<1>1. IsWellFoundedOn(R, Nat)
  BY NatLessThanWellFounded
<1>2. PICK m \in S : \A k \in S : ~ (<<k, m>> \in R)
  <2> HIDE DEF R
  <2> QED BY <1>1, WFMin
<1>3. \A k \in S : ~ (k < m)
  BY <1>2 DEF OpToRel
<1> QED
  BY <1>3

\* A set of naturals with an upper bound has a greatest member: its least upper bound.
LEMMA GreatestNat ==
  ASSUME NEW S \in SUBSET Nat, S # {}, NEW b \in Nat, \A s \in S : s <= b
  PROVE  Max(S) \in S /\ \A s \in S : s <= Max(S)
<1> DEFINE above == {u \in Nat : \A s \in S : s <= u}
<1>1. PICK u \in above : \A k \in above : u <= k
  <2>1. above \in SUBSET Nat /\ b \in above
    OBVIOUS
  <2> HIDE DEF above
  <2> QED
    BY <2>1, LeastNat
<1>2. u \in Nat /\ \A s \in S : s <= u
  BY <1>1
<1>3. u \in S
  <2> SUFFICES ASSUME u \notin S PROVE FALSE
    OBVIOUS
  <2>1. \A s \in S : s \in Nat /\ s < u
    BY <1>2
  <2>2. u - 1 \in Nat /\ \A s \in S : s <= u - 1
    <3>1. PICK t \in S : TRUE
      OBVIOUS
    <3>2. u > 0
      BY <1>2, <2>1, <3>1
    <3> QED
      BY <1>2, <2>1, <3>2
  <2>3. u - 1 \in above
    BY <2>2
  <2>4. u <= u - 1
    <3> HIDE DEF above
    <3> QED BY <1>1, <2>3
  <2> QED
    BY <1>2, <2>4
<1>4. \E x \in S : \A y \in S : x >= y
  BY <1>2, <1>3
<1> QED
  BY <1>4 DEF Max

LEMMA MaxOfTwo ==
  ASSUME NEW a \in Nat, NEW b \in Nat
  PROVE  /\ Max({a, b}) \in Nat /\ Max({a, b}) >= a /\ Max({a, b}) >= b
         /\ Max({a, b}) = a \/ Max({a, b}) = b
<1>1. \E x \in {a, b} : \A y \in {a, b} : x >= y
  <2>1. a >= b \/ b >= a
    OBVIOUS
  <2> QED BY <2>1
<1>2. Max({a, b}) \in {a, b} /\ \A y \in {a, b} : Max({a, b}) >= y
  BY <1>1 DEF Max
<1> QED
  BY <1>2

LEMMA MinOfTwo ==
  ASSUME NEW a \in Nat, NEW b \in Nat
  PROVE  /\ Min({a, b}) \in Nat /\ Min({a, b}) <= a /\ Min({a, b}) <= b
         /\ Min({a, b}) = a \/ Min({a, b}) = b
<1>1. \E x \in {a, b} : \A y \in {a, b} : x <= y
  <2>1. a <= b \/ b <= a
    OBVIOUS
  <2> QED BY <2>1
<1>2. Min({a, b}) \in {a, b} /\ \A y \in {a, b} : Min({a, b}) <= y
  BY <1>1 DEF Min
<1> QED
  BY <1>2

\* The provers know a power of two by its literal exponent only.
LEMMA PowersOfTwo ==
  ASSUME NEW k \in 0..16
  PROVE  2^k \in Nat /\ 2^k >= 1
<1>1. CASE k = 0 BY <1>1
<1>2. CASE k = 1 BY <1>2
<1>3. CASE k = 2 BY <1>3
<1>4. CASE k = 3 BY <1>4
<1>5. CASE k = 4 BY <1>5
<1>6. CASE k = 5 BY <1>6
<1>7. CASE k = 6 BY <1>7
<1>8. CASE k = 7 BY <1>8
<1>9. CASE k = 8 BY <1>9
<1>10. CASE k = 9 BY <1>10
<1>11. CASE k = 10 BY <1>11
<1>12. CASE k = 11 BY <1>12
<1>13. CASE k = 12 BY <1>13
<1>14. CASE k = 13 BY <1>14
<1>15. CASE k = 14 BY <1>15
<1>16. CASE k = 15 BY <1>16
<1>17. CASE k = 16 BY <1>17
<1> QED
  BY <1>1, <1>2, <1>3, <1>4, <1>5, <1>6, <1>7, <1>8, <1>9, <1>10,
     <1>11, <1>12, <1>13, <1>14, <1>15, <1>16, <1>17

\* The strikes double what Tidal asked for at most 16 times, and never shorten it.
LEMMA DoublingNeverShortens ==
  ASSUME NEW base \in Nat, NEW strike \in Nat, strike >= 1
  PROVE  Doubled(base, strike) \in Nat /\ Doubled(base, strike) >= base
<1> DEFINE k == Min({strike - 1, 16})
<1>1. k \in 0..16
  <2>1. strike - 1 \in Nat
    OBVIOUS
  <2> QED
    BY <2>1, MinOfTwo
<1>2. \E p \in Nat : p >= 1 /\ 2^k = p
  <2> HIDE DEF k
  <2>1. 2^k \in Nat /\ 2^k >= 1
    BY <1>1, PowersOfTwo
  <2> QED
    BY <2>1
<1>3. PICK p \in Nat : p >= 1 /\ 2^k = p
  BY <1>2
<1>4. Doubled(base, strike) = base * p
  BY <1>3 DEF Doubled
<1>5. base * p \in Nat /\ base * p >= base
  <2>1. PICK d \in Nat : p = d + 1
    <3>1. p - 1 \in Nat /\ p = (p - 1) + 1
      BY <1>3
    <3> QED BY <3>1
  <2>2. base * p = base * d + base /\ base * d \in Nat
    BY <2>1
  <2> QED
    BY <2>2
<1> QED
  BY <1>4, <1>5

---------------------------------------------------------------------------
(* The pause of an account *)

\* Parameters of the pause: what Tidal may ask for is a number of seconds, none above a
\* bound (retry_after_secs parses a u64).
PauseParameters == /\ RetryAfters \subseteq Nat
                   /\ \E b \in Nat : \A s \in RetryAfters : s <= b
                   /\ MaxPause \in Nat

Longest == Max(RetryAfters \cup {MaxPause})

LEMMA LongestBounds ==
  ASSUME PauseParameters
  PROVE  /\ Longest \in Nat /\ MaxPause <= Longest
         /\ \A s \in RetryAfters : s <= Longest
<1> DEFINE S == RetryAfters \cup {MaxPause}
<1>1. S \in SUBSET Nat /\ S # {} /\ MaxPause \in S
  BY DEF PauseParameters
<1>2. PICK b \in Nat : \A s \in RetryAfters : s <= b
  BY DEF PauseParameters
<1>3. b + MaxPause \in Nat /\ \A s \in S : s <= b + MaxPause
  BY <1>2 DEF PauseParameters
<1>4. Max(S) \in S /\ \A s \in S : s <= Max(S)
  <2> HIDE DEF S
  <2> QED BY <1>1, <1>3, GreatestNat
<1> QED
  BY <1>1, <1>4 DEF Longest

\* A pause lasts as long as Tidal asked for, and no longer than that or the cap.
LEMMA PauseSecsBounds ==
  ASSUME PauseParameters, NEW after \in RetryAfters, NEW strike \in Nat, strike >= 1
  PROVE  /\ PauseSecs(after, strike) \in Nat
         /\ after <= PauseSecs(after, strike) /\ PauseSecs(after, strike) <= Longest
<1>1. after \in Nat /\ MaxPause \in Nat
  BY DEF PauseParameters
<1>2. Doubled(after, strike) \in Nat /\ Doubled(after, strike) >= after
  BY <1>1, DoublingNeverShortens
<1> DEFINE d == Doubled(after, strike)
           c == Max({MaxPause, after})
<1>3. c \in Nat /\ c >= after /\ (c = MaxPause \/ c = after)
  BY <1>1, MaxOfTwo
<1>4. c <= Longest
  BY <1>3, LongestBounds
<1>5. PauseSecs(after, strike) = Min({d, c})
  BY DEF PauseSecs
<1>6. d \in Nat
  BY <1>2
<1> HIDE DEF d, c
<1>7. /\ Min({d, c}) \in Nat /\ Min({d, c}) <= c
      /\ Min({d, c}) = d \/ Min({d, c}) = c
  BY <1>3, <1>6, MinOfTwo
<1>8. d >= after
  BY <1>2 DEF d
<1> QED
  BY <1>1, <1>3, <1>4, <1>5, <1>6, <1>7, <1>8, LongestBounds

Answers == {"strike", "extend", "write"}

PauseTyped ==
  /\ time \in Nat /\ until \in Nat /\ strikes \in Nat /\ row \in Nat /\ owed \in Nat
  /\ request \in [Requests -> [pc : {"idle", "sent"} \cup Answers,
                               now : Nat, previous : Nat, strike : Nat, after : Nat]]

\* A refused request knows when it was refused and what Tidal asked for, and once it
\* has its strike, that is at least the first.
Refusal(q) == /\ q.pc \in Answers => q.now <= time /\ q.after \in RetryAfters
              /\ q.pc \in {"extend", "write"} => q.strike >= 1

\* What it is about to write, the deadline in memory already has.
InMemoryFirst == \A r \in Requests : request[r].pc = "write" => End(request[r]) <= until

PauseInv == /\ PauseTyped
            /\ \A r \in Requests : Refusal(request[r])
            /\ InMemoryFirst
            /\ RetryAfterKept
            /\ until <= time + Longest /\ row <= time + Longest

\* When a pause ends: not before Tidal asked, and not after the longest pause.
LEMMA EndBounds ==
  ASSUME PauseParameters, PauseInv, NEW r \in Requests, request[r].pc \in {"extend", "write"}
  PROVE  /\ End(request[r]) \in Nat
         /\ request[r].now + request[r].after \in Nat
         /\ request[r].now + request[r].after <= End(request[r])
         /\ End(request[r]) <= time + Longest
<1> DEFINE q == request[r]
<1>1. /\ q.now \in Nat /\ q.strike \in Nat /\ q.strike >= 1
      /\ q.now <= time /\ time \in Nat /\ q.after \in RetryAfters
  BY DEF PauseInv, PauseTyped, Refusal, Answers
<1>2. q.after \in Nat
  BY <1>1 DEF PauseParameters
<1>3. /\ PauseSecs(q.after, q.strike) \in Nat
      /\ q.after <= PauseSecs(q.after, q.strike) /\ PauseSecs(q.after, q.strike) <= Longest
  BY <1>1, PauseSecsBounds
<1>4. End(q) = q.now + PauseSecs(q.after, q.strike)
  BY DEF End
<1>5. Longest \in Nat
  BY LongestBounds
<1> HIDE DEF q
<1> DEFINE p == PauseSecs(q.after, q.strike)
<1>6. p \in Nat /\ q.after <= p /\ p <= Longest /\ End(q) = q.now + p
  BY <1>3, <1>4
<1> HIDE DEF p
<1>7. /\ End(q) \in Nat /\ q.now + q.after \in Nat
      /\ q.now + q.after <= End(q) /\ End(q) <= time + Longest
  BY <1>1, <1>2, <1>5, <1>6
<1> QED
  BY <1>7 DEF q

\* A step that changes one request, to one that is not about to write.
LEMMA OtherSteps ==
  ASSUME PauseParameters, PauseInv, NEW r \in Requests,
         NEW n, request' = [request EXCEPT ![r] = n],
         n \in [pc : {"idle", "sent"} \cup Answers,
                now : Nat, previous : Nat, strike : Nat, after : Nat],
         Refusal(n), n.pc # "write",
         strikes' \in Nat, UNCHANGED <<time, until, row, owed>>
  PROVE  PauseInv'
<1> USE DEF PauseInv
<1>1. PauseTyped'
  BY DEF PauseTyped
<1>2. \A u \in Requests : request'[u] = IF u = r THEN n ELSE request[u]
  BY DEF PauseTyped
<1>3. \A u \in Requests : Refusal(request[u])'
  BY <1>2 DEF Refusal
<1>4. InMemoryFirst'
  BY <1>2 DEF InMemoryFirst, End
<1>5. RetryAfterKept'
  BY DEF RetryAfterKept
<1>6. (until <= time + Longest)' /\ (row <= time + Longest)'
  BY DEF Longest
<1> QED
  BY <1>1, <1>3, <1>4, <1>5, <1>6

LEMMA StrikeKeeps ==
  ASSUME PauseParameters, PauseInv, NEW r \in Requests, Strike(r)
  PROVE  PauseInv'
<1> DEFINE q == request[r]
           n == IF q.now < q.previous THEN Max({strikes, 1})
                ELSE IF q.previous > 0 /\ q.now - q.previous <= Forgive THEN strikes + 1 ELSE 1
           next == [q EXCEPT !.pc = "extend", !.strike = n]
<1>1. /\ q.pc = "strike"
      /\ request' = [request EXCEPT ![r].pc = "extend", ![r].strike = n]
      /\ strikes' = IF q.now < q.previous THEN strikes ELSE n
      /\ UNCHANGED <<time, until, row, owed>>
  BY DEF Strike
<1>2. /\ request \in [Requests -> [pc : {"idle", "sent"} \cup Answers,
                                   now : Nat, previous : Nat, strike : Nat, after : Nat]]
      /\ strikes \in Nat
  BY DEF PauseInv, PauseTyped
<1>3. n \in Nat /\ n >= 1
  <2>1. Max({strikes, 1}) \in Nat /\ Max({strikes, 1}) >= 1
    BY <1>2, MaxOfTwo
  <2>2. strikes + 1 \in Nat /\ strikes + 1 >= 1
    BY <1>2
  <2> QED
    BY <2>1, <2>2
<1> HIDE DEF n
<1>4. next \in [pc : {"idle", "sent"} \cup Answers,
                now : Nat, previous : Nat, strike : Nat, after : Nat]
  BY <1>2, <1>3 DEF Answers
<1>5. request' = [request EXCEPT ![r] = next]
  BY <1>1, <1>2
<1>6. /\ Refusal(q) /\ next.pc = "extend" /\ next.strike = n
      /\ next.now = q.now /\ next.after = q.after
  BY <1>2 DEF PauseInv
<1>7. Refusal(next)
  BY <1>1, <1>3, <1>6 DEF Refusal, Answers
<1>8. strikes' \in Nat
  BY <1>1, <1>2, <1>3
<1> HIDE DEF next, q
<1> QED
  BY <1>1, <1>4, <1>5, <1>6, <1>7, <1>8, OtherSteps

\* The deadline only moves forward, to the end of this pause.
LEMMA ExtendKeeps ==
  ASSUME PauseParameters, PauseInv, NEW r \in Requests, Extend(r)
  PROVE  PauseInv'
<1> DEFINE end == End(request[r])
<1>1. /\ request[r].pc = "extend"
      /\ until' = Later(until, end)
      /\ request' = [request EXCEPT ![r].pc = "write"]
      /\ UNCHANGED <<time, strikes, row, owed>>
  BY DEF Extend
<1>2. end \in Nat /\ end <= time + Longest /\ Longest \in Nat
  BY <1>1, EndBounds, LongestBounds
<1>3. PauseTyped
  BY DEF PauseInv
<1> HIDE DEF end
<1>4. /\ until' \in Nat /\ until' >= until /\ until' >= end
      /\ until' = until \/ until' = end
  BY <1>1, <1>2, <1>3, MaxOfTwo DEF Later, PauseTyped
<1>5. \A u \in Requests :
        request'[u] = IF u = r THEN [request[r] EXCEPT !.pc = "write"] ELSE request[u]
  BY <1>1, <1>3 DEF PauseTyped
<1>6. PauseTyped'
  BY <1>1, <1>3, <1>4 DEF PauseTyped, Answers
<1>7. \A u \in Requests : Refusal(request[u])'
  <2> SUFFICES ASSUME NEW u \in Requests PROVE Refusal(request[u])'
    OBVIOUS
  <2>1. Refusal(request[u]) /\ time' = time
    BY <1>1 DEF PauseInv
  <2>2. CASE u = r
    <3>1. /\ request'[r].pc = "write" /\ request'[r].now = request[r].now
          /\ request'[r].after = request[r].after /\ request'[r].strike = request[r].strike
      BY <1>5, <1>3 DEF PauseTyped
    <3> QED
      BY <1>1, <2>1, <2>2, <3>1 DEF Refusal, Answers
  <2>3. CASE u # r
    BY <1>5, <2>1, <2>3 DEF Refusal
  <2> QED
    BY <2>2, <2>3
<1>8. InMemoryFirst'
  <2> SUFFICES ASSUME NEW u \in Requests, request'[u].pc = "write"
               PROVE  End(request'[u]) <= until'
    BY DEF InMemoryFirst, End
  <2>1. CASE u = r
    <3>1. /\ request'[r].now = request[r].now
          /\ request'[r].after = request[r].after /\ request'[r].strike = request[r].strike
      BY <1>5, <1>3 DEF PauseTyped
    <3>2. End(request'[r]) = end
      BY <3>1 DEF End, end
    <3> QED
      BY <1>2, <1>4, <2>1, <3>2
  <2>2. CASE u # r
    <3>1. request'[u] = request[u] /\ request[u].pc = "write"
      BY <1>5, <2>2
    <3>2. End(request[u]) <= until /\ End(request[u]) \in Nat
      BY <3>1, EndBounds DEF PauseInv, InMemoryFirst
    <3>3. until \in Nat
      BY <1>3 DEF PauseTyped
    <3> DEFINE e == End(request[u])
    <3>4. e \in Nat /\ e <= until /\ End(request'[u]) = e
      BY <3>1, <3>2
    <3> HIDE DEF e
    <3> QED
      BY <1>4, <3>3, <3>4
  <2> QED
    BY <2>1, <2>2
<1>9. RetryAfterKept'
  <2>1. until >= owed /\ row >= owed /\ owed' = owed /\ row' = row
    BY <1>1 DEF PauseInv, RetryAfterKept
  <2> QED
    BY <1>3, <1>4, <2>1 DEF RetryAfterKept, PauseTyped
<1>10. (until <= time + Longest)' /\ (row <= time + Longest)'
  <2>1. /\ until <= time + Longest /\ row <= time + Longest
        /\ time' = time /\ row' = row /\ Longest' = Longest
    BY <1>1 DEF PauseInv, Longest
  <2> QED
    BY <1>2, <1>4, <2>1
<1> QED
  BY <1>6, <1>7, <1>8, <1>9, <1>10 DEF PauseInv

\* The row only moves forward, to a deadline that memory has already.
LEMMA PersistKeeps ==
  ASSUME PauseParameters, PauseInv, NEW r \in Requests, Persist(r)
  PROVE  PauseInv'
<1> DEFINE q == request[r]
           asked == q.now + q.after
           end == End(q)
<1>1. /\ q.pc = "write"
      /\ \/ row' = Later(row, end) /\ owed' = Max({owed, asked})
         \/ UNCHANGED <<row, owed>>
      /\ request' = [request EXCEPT ![r] = Idle]
      /\ UNCHANGED <<time, until, strikes>>
  BY DEF Persist
<1>2. PauseTyped
  BY DEF PauseInv
<1>3. CASE UNCHANGED <<row, owed>>
  <2>1. Idle \in [pc : {"idle", "sent"} \cup Answers,
                  now : Nat, previous : Nat, strike : Nat, after : Nat]
    BY DEF Idle
  <2>2. Refusal(Idle) /\ Idle.pc # "write"
    BY DEF Idle, Refusal, Answers
  <2>3. strikes' \in Nat /\ UNCHANGED <<time, until, row, owed>>
    BY <1>1, <1>2, <1>3 DEF PauseTyped
  <2> QED
    BY <1>1, <2>1, <2>2, <2>3, OtherSteps
<1>4. CASE row' = Later(row, end) /\ owed' = Max({owed, asked})
  <2>1. /\ end \in Nat /\ asked \in Nat /\ asked <= end
        /\ end <= time + Longest /\ Longest \in Nat
    BY <1>1, EndBounds, LongestBounds
  <2>2. end <= until
    BY <1>1 DEF PauseInv, InMemoryFirst
  <2>3. /\ time \in Nat /\ until \in Nat /\ row \in Nat /\ owed \in Nat
        /\ until >= owed /\ row >= owed /\ until <= time + Longest /\ row <= time + Longest
    BY DEF PauseInv, PauseTyped, RetryAfterKept
  <2> HIDE DEF end, asked
  <2>4. row' \in Nat /\ row' >= row /\ row' >= end /\ (row' = row \/ row' = end)
    BY <1>4, <2>1, <2>3, MaxOfTwo DEF Later
  <2>5. owed' \in Nat /\ (owed' = owed \/ owed' = asked)
    BY <1>4, <2>1, <2>3, MaxOfTwo
  <2>6. UNCHANGED <<time, until, strikes>> /\ Longest' = Longest
    BY <1>1 DEF Longest
  <2>7. RetryAfterKept'
    BY <2>1, <2>2, <2>3, <2>4, <2>5, <2>6 DEF RetryAfterKept
  <2>8. (until <= time + Longest)' /\ (row <= time + Longest)'
    BY <2>1, <2>3, <2>4, <2>6
  <2>9. \A u \in Requests : request'[u] = IF u = r THEN Idle ELSE request[u]
    BY <1>1, <1>2 DEF PauseTyped
  <2>10. PauseTyped'
    BY <1>1, <1>2, <2>4, <2>5, <2>6 DEF PauseTyped, Idle
  <2>11. \A u \in Requests : Refusal(request[u])'
    BY <2>6, <2>9 DEF PauseInv, Refusal, Idle, Answers
  <2>12. InMemoryFirst'
    BY <2>6, <2>9 DEF PauseInv, InMemoryFirst, End, Idle
  <2> QED
    BY <2>7, <2>8, <2>10, <2>11, <2>12 DEF PauseInv
<1> QED
  BY <1>1, <1>3, <1>4

LEMMA PauseInit ==
  ASSUME PauseParameters, Init
  PROVE  PauseInv
<1>1. Longest \in Nat
  BY LongestBounds
<1> QED
  BY <1>1 DEF Init, PauseInv, PauseTyped, Refusal, Answers, InMemoryFirst, RetryAfterKept, Idle

LEMMA PauseStep ==
  ASSUME PauseParameters, PauseInv, [Next]_vars
  PROVE  PauseInv'
<1> DEFINE Req == [pc : {"idle", "sent"} \cup Answers,
                   now : Nat, previous : Nat, strike : Nat, after : Nat]
<1>0. /\ request \in [Requests -> Req] /\ strikes \in Nat /\ time \in Nat /\ until \in Nat
      /\ row \in Nat /\ owed \in Nat /\ Longest \in Nat
  BY LongestBounds DEF PauseInv, PauseTyped
<1>1. ASSUME NEW r \in Requests, Send(r)
      PROVE  PauseInv'
  <2> DEFINE next == [request[r] EXCEPT !.pc = "sent"]
  <2>1. request' = [request EXCEPT ![r] = next] /\ UNCHANGED <<time, until, row, owed, strikes>>
    BY <1>1 DEF Send
  <2>2. next \in Req /\ Refusal(next) /\ next.pc # "write"
    BY <1>0 DEF Refusal, Answers
  <2> HIDE DEF next
  <2> QED
    BY <1>0, <2>1, <2>2, OtherSteps
<1>2. ASSUME NEW r \in Requests, Answered(r)
      PROVE  PauseInv'
  <2>1. request' = [request EXCEPT ![r] = Idle] /\ UNCHANGED <<time, until, row, owed, strikes>>
    BY <1>2 DEF Answered
  <2>2. Idle \in Req /\ Refusal(Idle) /\ Idle.pc # "write"
    BY DEF Idle, Refusal, Answers
  <2> QED
    BY <1>0, <2>1, <2>2, OtherSteps
<1>3. ASSUME NEW r \in Requests, Refused(r)
      PROVE  PauseInv'
  <2>1. PICK s \in RetryAfters :
          request' = [request EXCEPT ![r] = [pc |-> "strike", now |-> time, previous |-> until,
                                             strike |-> 0, after |-> s]]
    BY <1>3 DEF Refused
  <2>2. UNCHANGED <<time, until, row, owed, strikes>>
    BY <1>3 DEF Refused
  <2> DEFINE next == [pc |-> "strike", now |-> time, previous |-> until, strike |-> 0, after |-> s]
  <2>3. s \in Nat
    BY DEF PauseParameters
  <2>4. /\ next \in Req /\ Refusal(next) /\ next.pc # "write"
        /\ request' = [request EXCEPT ![r] = next]
    BY <1>0, <2>1, <2>3 DEF Refusal, Answers
  <2> HIDE DEF next
  <2> QED
    BY <1>0, <2>2, <2>4, OtherSteps
<1>4. ASSUME NEW r \in Requests, Strike(r) \/ Extend(r) \/ Persist(r)
      PROVE  PauseInv'
  BY <1>4, StrikeKeeps, ExtendKeeps, PersistKeeps
<1>5. CASE Restart
  <2>1. /\ until' = row /\ strikes' = 0 /\ request' = [r \in Requests |-> Idle]
        /\ UNCHANGED <<time, row, owed>> /\ Longest' = Longest
    BY <1>5 DEF Restart, Longest
  <2>2. PauseTyped'
    BY <1>0, <2>1 DEF PauseTyped, Idle
  <2>3. (\A r \in Requests : Refusal(request[r]))' /\ InMemoryFirst'
    BY <2>1 DEF Refusal, InMemoryFirst, Idle, Answers
  <2>4. RetryAfterKept' /\ (until <= time + Longest)' /\ (row <= time + Longest)'
    BY <2>1 DEF PauseInv, RetryAfterKept
  <2> QED
    BY <2>2, <2>3, <2>4 DEF PauseInv
<1>6. CASE Tick
  <2>1. time' = time + 1 /\ UNCHANGED <<until, strikes, row, request, owed>> /\ Longest' = Longest
    BY <1>6 DEF Tick, Longest
  <2>2. PauseTyped'
    BY <1>0, <2>1 DEF PauseTyped
  <2>3. \A r \in Requests : Refusal(request[r])'
    BY <1>0, <2>1 DEF PauseInv, Refusal
  <2>4. InMemoryFirst' /\ RetryAfterKept'
    BY <2>1 DEF PauseInv, InMemoryFirst, RetryAfterKept, End
  <2>5. (until <= time + Longest)' /\ (row <= time + Longest)'
    BY <1>0, <2>1 DEF PauseInv
  <2> QED
    BY <2>2, <2>3, <2>4, <2>5 DEF PauseInv
<1>7. CASE UNCHANGED vars
  BY <1>7 DEF vars, PauseInv, PauseTyped, Refusal, InMemoryFirst, RetryAfterKept, Longest, End
<1> QED
  BY <1>1, <1>2, <1>3, <1>4, <1>5, <1>6, <1>7 DEF Next

\* Whatever Tidal asks for in a 429 is kept, with any number of requests of the account
\* refused together: pause_account moves the deadline in memory with fetch_max before it
\* writes, and SQLite keeps the maximum, so neither a shorter pause, nor writes that
\* overtake each other, nor a restart bring the account back early.
THEOREM PausesAreKept ==
  ASSUME PauseParameters
  PROVE  Spec => []RetryAfterKept
<1>1. Init => PauseInv
  BY PauseInit
<1>2. PauseInv /\ [Next]_vars => PauseInv'
  BY PauseStep
<1>3. PauseInv => RetryAfterKept
  BY DEF PauseInv
<1> QED
  BY <1>1, <1>2, <1>3, PTL DEF Spec

\* However many strikes an account collects, rate_limit_pause_secs keeps it away no longer
\* than the cap or than Tidal asked for, counted from now.
THEOREM PausesAreBounded ==
  ASSUME PauseParameters
  PROVE  Spec => []PauseBounded
<1>1. Init => PauseInv
  BY PauseInit
<1>2. PauseInv /\ [Next]_vars => PauseInv'
  BY PauseStep
<1>3. PauseInv => PauseBounded
  BY DEF PauseInv, PauseBounded, Longest
<1> QED
  BY <1>1, <1>2, <1>3, PTL DEF Spec

---------------------------------------------------------------------------
(* One alert of a kind per interval *)

\* Parameters of the throttle: Free is nobody's name.
AlertParameters == /\ Interval \in Nat /\ MaxClock \in Nat
              /\ Alert!Free \notin Alerters

\* Where a task is with an alert, and what it is about.
AlertsTyped ==
  /\ webhook \in Webhooks \cup {Alert!Disabled}
  /\ lastSent \in [Kinds \X Webhooks -> Nat]
  /\ clock \in Nat /\ clock =< MaxClock
  /\ alert \in [Alerters -> [pc : {"none", "wait", "record", "post"},
                             kind : Kinds \cup {"none"}, url : Webhooks \cup {Alert!Disabled},
                             passed : BOOLEAN]]
  /\ \A t \in Alerters :
       alert[t].pc \in {"wait", "record"} => alert[t].kind \in Kinds /\ alert[t].url \in Webhooks

\* Only the holder of the lock is between its look-up and its entry.
OneInside == \A t \in Alerters : alert[t].pc = "record" => lock = t

\* The table is never behind the alerts that were let through.
TableCurrent ==
  \A p \in posted : /\ <<p.kind, p.url>> \in Kinds \X Webhooks
                    /\ p.at \in Nat
                    /\ p.at <= clock
                    /\ lastSent[<<p.kind, p.url>>] # Alert!Never
                    /\ p.at <= lastSent[<<p.kind, p.url>>]

\* What the holder decided still holds when it writes.
StillAllowed ==
  \A t \in Alerters : alert[t].pc = "record" /\ alert[t].passed =>
    LET last == lastSent[<<alert[t].kind, alert[t].url>>]
    IN  last = Alert!Never \/ clock - last >= Interval

ThrottleInv == AlertsTyped /\ OneInside /\ TableCurrent /\ StillAllowed /\ Alert!OnePerInterval

LEMMA ThrottleInit ==
  ASSUME AlertParameters, Alert!Init
  PROVE  ThrottleInv
BY DEF AlertParameters, Alert!Init, ThrottleInv, AlertsTyped, OneInside, TableCurrent, StillAllowed,
       Alert!OnePerInterval, Alert!NoAlert, Alert!Never, Alert!Disabled

\* An alert that is raised, and one whose post ended, touch neither table nor lock.
LEMMA RaiseAndPost ==
  ASSUME AlertParameters, ThrottleInv, NEW t \in Alerters,
         (\E k \in Kinds : Alert!Raise(t, k)) \/ Alert!Post(t)
  PROVE  ThrottleInv'
<1> USE DEF ThrottleInv
<1>1. UNCHANGED <<lastSent, lock, posted, clock, webhook>>
  BY DEF Alert!Raise, Alert!Post
<1>2. /\ AlertsTyped'
      /\ \A u \in Alerters :
           alert'[u].pc = "record" => alert[u].pc = "record" /\ alert'[u] = alert[u]
  <2>1. CASE \E k \in Kinds : Alert!Raise(t, k)
    <3>1. PICK k \in Kinds : Alert!Raise(t, k)
      BY <2>1
    <3>2. /\ webhook \in Webhooks
          /\ alert' = [alert EXCEPT ![t] = [pc |-> "wait", kind |-> k, url |-> webhook,
                                            passed |-> FALSE]]
      BY <3>1 DEF Alert!Raise, AlertsTyped
    <3> QED
      BY <1>1, <3>2 DEF AlertsTyped
  <2>2. CASE Alert!Post(t)
    <3>1. alert' = [alert EXCEPT ![t] = Alert!NoAlert]
      BY <2>2 DEF Alert!Post
    <3> QED
      BY <1>1, <3>1 DEF AlertsTyped, Alert!NoAlert
  <2> QED
    BY <2>1, <2>2
<1>3. OneInside' /\ StillAllowed'
  BY <1>1, <1>2 DEF OneInside, StillAllowed
<1>4. TableCurrent' /\ Alert!OnePerInterval'
  BY <1>1 DEF TableCurrent, Alert!OnePerInterval
<1> QED
  BY <1>2, <1>3, <1>4

\* A look-up decides by the table as it is, alone inside the lock.
LEMMA LookUpKeeps ==
  ASSUME AlertParameters, ThrottleInv, NEW t \in Alerters, Alert!LookUp(t)
  PROVE  ThrottleInv'
<1> USE DEF ThrottleInv
<1> DEFINE last == lastSent[<<alert[t].kind, alert[t].url>>]
           passes == last = Alert!Never \/ clock - last >= Interval
<1>1. /\ alert[t].pc = "wait" /\ lock = Alert!Free /\ lock' = t
      /\ alert' = [alert EXCEPT ![t].pc = "record", ![t].passed = passes]
      /\ UNCHANGED <<webhook, lastSent, posted, clock>>
  BY DEF Alert!LookUp, Alert!MayEnter
<1>2. \A u \in Alerters : alert[u].pc # "record"
  BY <1>1 DEF OneInside, AlertParameters
<1>3. AlertsTyped'
  BY <1>1 DEF AlertsTyped
<1>4. OneInside'
  BY <1>1, <1>2 DEF OneInside, AlertsTyped
<1>5. StillAllowed'
  <2> SUFFICES ASSUME NEW u \in Alerters, alert'[u].pc = "record", alert'[u].passed
               PROVE  LET now == lastSent'[<<alert'[u].kind, alert'[u].url>>]
                      IN  now = Alert!Never \/ clock' - now >= Interval
    BY DEF StillAllowed
  <2>1. u = t
    BY <1>1, <1>2 DEF AlertsTyped
  <2>2. /\ alert'[t].kind = alert[t].kind /\ alert'[t].url = alert[t].url
        /\ alert'[t].passed = passes
    BY <1>1 DEF AlertsTyped
  <2> QED
    BY <1>1, <2>1, <2>2
<1>6. TableCurrent' /\ Alert!OnePerInterval'
  BY <1>1 DEF TableCurrent, Alert!OnePerInterval
<1> QED
  BY <1>3, <1>4, <1>5, <1>6

\* What is recorded is an interval away from everything the table stands for.
LEMMA RecordKeeps ==
  ASSUME AlertParameters, ThrottleInv, NEW t \in Alerters, Alert!Record(t)
  PROVE  ThrottleInv'
<1> USE DEF ThrottleInv
<1> DEFINE key == <<alert[t].kind, alert[t].url>>
           entry == [kind |-> alert[t].kind, url |-> alert[t].url, by |-> t, at |-> clock]
<1>1. alert[t].pc = "record" /\ lock' = Alert!Free /\ UNCHANGED <<webhook, clock>>
  BY DEF Alert!Record
<1>2. key \in Kinds \X Webhooks /\ clock \in Nat /\ clock # Alert!Never
  BY <1>1 DEF AlertsTyped, AlertParameters, Alert!Never
<1>3. \A u \in Alerters : u # t => alert[u].pc # "record"
  BY <1>1 DEF OneInside
<1>4. CASE alert[t].passed
  <2>1. /\ lastSent' = [lastSent EXCEPT ![key] = clock]
        /\ posted' = posted \cup {entry}
        /\ alert' = [alert EXCEPT ![t].pc = "post"]
    BY <1>4 DEF Alert!Record
  <2>2. lastSent'[key] = clock /\ \A k \in Kinds \X Webhooks : k # key => lastSent'[k] = lastSent[k]
    BY <1>2, <2>1 DEF AlertsTyped
  <2>3. AlertsTyped'
    BY <1>1, <1>2, <2>1 DEF AlertsTyped, AlertParameters, Alert!Never
  <2>4. OneInside' /\ StillAllowed'
    BY <1>3, <2>1 DEF OneInside, StillAllowed, AlertsTyped
  <2>5. TableCurrent'
    <3> SUFFICES ASSUME NEW p \in posted'
                 PROVE  /\ <<p.kind, p.url>> \in Kinds \X Webhooks
                        /\ p.at \in Nat /\ p.at =< clock'
                        /\ lastSent'[<<p.kind, p.url>>] # Alert!Never
                        /\ p.at =< lastSent'[<<p.kind, p.url>>]
      BY DEF TableCurrent
    <3>1. CASE p = entry
      BY <1>1, <1>2, <2>2, <3>1
    <3>2. CASE p \in posted /\ <<p.kind, p.url>> = key
      <4>1. p.at \in Nat /\ p.at =< clock
        BY <3>2 DEF TableCurrent
      <4> QED
        BY <1>1, <1>2, <2>2, <3>2, <4>1
    <3>3. CASE p \in posted /\ <<p.kind, p.url>> # key
      BY <1>1, <2>2, <3>3 DEF TableCurrent
    <3> QED
      BY <2>1, <3>1, <3>2, <3>3
  <2>6. \A p \in posted : <<p.kind, p.url>> = key => p.at + Interval <= clock
    <3> SUFFICES ASSUME NEW p \in posted, <<p.kind, p.url>> = key
                 PROVE  p.at + Interval <= clock
      OBVIOUS
    <3>1. lastSent[key] # Alert!Never /\ p.at \in Nat /\ p.at <= lastSent[key]
      BY DEF TableCurrent
    <3>2. clock - lastSent[key] >= Interval
      BY <1>1, <1>4, <3>1 DEF StillAllowed
    <3>3. lastSent[key] \in Nat
      BY <1>2 DEF AlertsTyped
    <3> QED
      BY <1>2, <3>1, <3>2, <3>3 DEF AlertParameters
  <2>7. Alert!OnePerInterval'
    <3> SUFFICES ASSUME NEW p \in posted', NEW q \in posted',
                        p # q, p.kind = q.kind, p.url = q.url
                 PROVE  p.at + Interval <= q.at \/ q.at + Interval <= p.at
      BY DEF Alert!OnePerInterval
    <3>1. CASE p \in posted /\ q \in posted
      BY <3>1 DEF Alert!OnePerInterval
    <3>2. CASE p = entry /\ q \in posted
      BY <2>6, <3>2
    <3>3. CASE p \in posted /\ q = entry
      BY <2>6, <3>3
    <3> QED
      BY <2>1, <3>1, <3>2, <3>3
  <2> QED
    BY <2>3, <2>4, <2>5, <2>7
<1>5. CASE ~alert[t].passed
  <2>1. UNCHANGED <<lastSent, posted>> /\ alert' = [alert EXCEPT ![t] = Alert!NoAlert]
    BY <1>5 DEF Alert!Record
  <2>2. AlertsTyped'
    BY <1>1, <2>1 DEF AlertsTyped, Alert!NoAlert
  <2>3. OneInside' /\ StillAllowed'
    BY <1>3, <2>1 DEF OneInside, StillAllowed, AlertsTyped, Alert!NoAlert
  <2> QED
    BY <1>1, <2>1, <2>2, <2>3 DEF TableCurrent, Alert!OnePerInterval
<1> QED
  BY <1>4, <1>5

LEMMA ThrottleStep ==
  ASSUME AlertParameters, ThrottleInv, [Alert!Next]_Alert!vars
  PROVE  ThrottleInv'
<1>1. ASSUME NEW t \in Alerters, NEW k \in Kinds, Alert!Raise(t, k)
      PROVE  ThrottleInv'
  BY <1>1, RaiseAndPost
<1>2. ASSUME NEW t \in Alerters, Alert!LookUp(t)
      PROVE  ThrottleInv'
  BY <1>2, LookUpKeeps
<1>3. ASSUME NEW t \in Alerters, Alert!Record(t)
      PROVE  ThrottleInv'
  BY <1>3, RecordKeeps
<1>4. ASSUME NEW t \in Alerters, Alert!Post(t)
      PROVE  ThrottleInv'
  BY <1>4, RaiseAndPost
<1>5. CASE Alert!ChangeWebhook
  <2>1. /\ webhook' \in Webhooks \cup {Alert!Disabled}
        /\ UNCHANGED <<lastSent, lock, alert, posted, clock>>
    BY <1>5 DEF Alert!ChangeWebhook
  <2> QED
    BY <2>1 DEF ThrottleInv, AlertsTyped, OneInside, TableCurrent, StillAllowed,
         Alert!OnePerInterval
<1>6. CASE Alert!TimePasses
  <2>1. /\ clock < MaxClock /\ clock' = clock + 1
        /\ \A t \in Alerters : alert[t].pc # "record"
        /\ UNCHANGED <<webhook, lastSent, lock, alert, posted>>
    BY <1>6 DEF Alert!TimePasses
  <2>2. clock' \in Nat /\ clock' =< MaxClock
    BY <2>1 DEF AlertParameters, ThrottleInv, AlertsTyped
  <2>3. AlertsTyped'
    BY <2>1, <2>2 DEF ThrottleInv, AlertsTyped
  <2>4. OneInside' /\ StillAllowed'
    BY <2>1 DEF OneInside, StillAllowed
  <2>5. TableCurrent'
    <3>1. clock \in Nat /\ clock' = clock + 1
      BY <2>1 DEF ThrottleInv, AlertsTyped
    <3>2. \A p \in posted : p.at \in Nat /\ p.at =< clock
      BY DEF ThrottleInv, TableCurrent
    <3>3. \A p \in posted : p.at =< clock'
      BY <3>1, <3>2
    <3> QED
      BY <2>1, <3>3 DEF ThrottleInv, TableCurrent
  <2>6. Alert!OnePerInterval'
    BY <2>1 DEF ThrottleInv, Alert!OnePerInterval
  <2> QED
    BY <2>3, <2>4, <2>5, <2>6 DEF ThrottleInv
<1>7. CASE UNCHANGED Alert!vars
  BY <1>7 DEF Alert!vars, ThrottleInv, AlertsTyped, OneInside, TableCurrent, StillAllowed,
         Alert!OnePerInterval
<1> QED
  BY <1>1, <1>2, <1>3, <1>4, <1>5, <1>6, <1>7 DEF Alert!Next

\* However many tasks raise the same alert, and whatever the owner does to the webhook
\* meanwhile, one webhook gets an alert of a kind at most once per interval: the look-up
\* and the entry of send_throttled are under one lock, so no other task can let a second
\* alert through in between.
THEOREM ThrottleHolds ==
  ASSUME AlertParameters
  PROVE  Alert!Spec => []Alert!OnePerInterval
<1>1. Alert!Init => ThrottleInv
  BY ThrottleInit
<1>2. ThrottleInv /\ [Alert!Next]_Alert!vars => ThrottleInv'
  BY ThrottleStep
<1>3. ThrottleInv => Alert!OnePerInterval
  BY DEF ThrottleInv
<1> QED
  BY <1>1, <1>2, <1>3, PTL DEF Alert!Spec

---------------------------------------------------------------------------
(* Sums over finite sets *)

\* MapThenSumSet adds up f by taking one member after the other out of the set; h[s] is
\* the sum over s.
Pick(s) == CHOOSE x \in s : TRUE
SumStep(f, h, s) == IF s = {} THEN 0 ELSE f[Pick(s)] + h[s \ {Pick(s)}]
Sums(f, S) == CHOOSE h : h = [s \in SUBSET S |-> SumStep(f, h, s)]

Total(f, S) == Sums(f, S)[S]

\* Taking a member out of a finite set leaves a smaller one.
LEMMA PickedOut ==
  ASSUME NEW S, IsFiniteSet(S), NEW s \in SUBSET S, s # {}
  PROVE  /\ Pick(s) \in s /\ s \ {Pick(s)} \in SUBSET S
         /\ Cardinality(s) \in Nat /\ Cardinality(s \ {Pick(s)}) \in Nat
         /\ Cardinality(s \ {Pick(s)}) = Cardinality(s) - 1
<1>1. Pick(s) \in s
  BY DEF Pick
<1>2. IsFiniteSet(s)
  BY FS_Subset
<1> QED
  BY <1>1, <1>2, FS_RemoveElement, FS_CardinalityType

\* The sums over all subsets exist: if not, take the least size up to which there are none.
LEMMA SumsExist ==
  ASSUME NEW f, NEW S, IsFiniteSet(S)
  PROVE  Sums(f, S) = [s \in SUBSET S |-> SumStep(f, Sums(f, S), s)]
<1> DEFINE UpTo(h, n) == \A s \in SUBSET S : Cardinality(s) <= n => h[s] = SumStep(f, h, s)
           missing == {n \in Nat : \A h : ~ UpTo(h, n)}
<1>1. missing = {}
  <2> SUFFICES ASSUME missing # {} PROVE FALSE
    OBVIOUS
  <2>1. PICK m \in missing : \A k \in missing : m <= k
    <3>1. missing \in SUBSET Nat
      OBVIOUS
    <3> HIDE DEF missing
    <3> QED
      BY <3>1, LeastNat
  <2>2. m \in Nat /\ \A h : ~ UpTo(h, m)
    BY <2>1
  <2>3. CASE m = 0
    <3> DEFINE h == [s \in SUBSET S |-> 0]
    <3>1. ASSUME NEW s \in SUBSET S, Cardinality(s) <= 0
          PROVE  h[s] = SumStep(f, h, s)
      <4>1. s = {}
        BY <3>1, FS_Subset, FS_CardinalityType, FS_EmptySet
      <4> QED
        BY <4>1 DEF SumStep
    <3>2. UpTo(h, 0)
      BY <3>1
    <3> HIDE DEF UpTo, h
    <3> QED
      BY <2>2, <2>3, <3>2
  <2>4. CASE m # 0
    <3>1. m - 1 \in Nat /\ m - 1 \notin missing
      BY <2>1, <2>2, <2>4
    <3>2. PICK h : UpTo(h, m - 1)
      <4> HIDE DEF UpTo
      <4> QED BY <3>1
    <3> DEFINE g == [s \in SUBSET S |-> SumStep(f, h, s)]
    <3>3. ASSUME NEW s \in SUBSET S, Cardinality(s) <= m
          PROVE  g[s] = SumStep(f, g, s)
      <4>1. CASE s = {}
        BY <4>1 DEF SumStep
      <4>2. CASE s # {}
        <5> DEFINE r == s \ {Pick(s)}
        <5>1. r \in SUBSET S /\ Cardinality(r) <= m - 1
          BY <2>2, <3>3, <4>2, PickedOut
        <5>2. h[r] = SumStep(f, h, r)
          BY <3>2, <5>1
        <5>3. g[r] = h[r]
          BY <5>1, <5>2
        <5> QED
          BY <4>2, <5>3 DEF SumStep
      <4> QED
        BY <4>1, <4>2
    <3>4. UpTo(g, m)
      BY <3>3
    <3> HIDE DEF UpTo, g
    <3> QED
      BY <2>2, <3>4
  <2> QED
    BY <2>3, <2>4
<1>2. Cardinality(S) \in Nat
  BY FS_CardinalityType
<1>3. PICK h : UpTo(h, Cardinality(S))
  <2> HIDE DEF UpTo
  <2> QED BY <1>1, <1>2
<1>4. ASSUME NEW s \in SUBSET S
      PROVE  h[s] = SumStep(f, h, s)
  <2>1. Cardinality(s) <= Cardinality(S)
    BY FS_Subset
  <2> QED
    BY <1>3, <2>1
<1> DEFINE g == [s \in SUBSET S |-> h[s]]
<1>5. g = [s \in SUBSET S |-> SumStep(f, g, s)]
  <2>1. ASSUME NEW s \in SUBSET S
        PROVE  h[s] = SumStep(f, g, s)
    <3>1. CASE s = {}
      BY <1>4, <3>1 DEF SumStep
    <3>2. CASE s # {}
      <4>1. s \ {Pick(s)} \in SUBSET S
        OBVIOUS
      <4> QED
        BY <1>4, <3>2, <4>1 DEF SumStep
    <3> QED
      BY <3>1, <3>2
  <2> QED
    BY <2>1
<1> HIDE DEF g
<1> QED
  BY <1>5 DEF Sums

LEMMA SumOver ==
  ASSUME NEW f, NEW S, IsFiniteSet(S), NEW s \in SUBSET S
  PROVE  Sums(f, S)[s] = SumStep(f, Sums(f, S), s)
<1> DEFINE h == Sums(f, S)
<1>1. h = [r \in SUBSET S |-> SumStep(f, h, r)]
  BY SumsExist
<1> HIDE DEF h
<1>2. h[s] = SumStep(f, h, s)
  BY <1>1, Zenon
<1> QED
  BY <1>2 DEF h

\* A sum of naturals is a natural.
LEMMA SumsAreNat ==
  ASSUME NEW S, IsFiniteSet(S), NEW f \in [S -> Nat]
  PROVE  \A s \in SUBSET S : Sums(f, S)[s] \in Nat
<1> DEFINE h == Sums(f, S)
           wrong == {n \in Nat : \E s \in SUBSET S : Cardinality(s) = n /\ h[s] \notin Nat}
<1>1. \A s \in SUBSET S : h[s] = SumStep(f, h, s)
  BY SumOver
<1> HIDE DEF h
<1>2. wrong = {}
  <2> SUFFICES ASSUME wrong # {} PROVE FALSE
    OBVIOUS
  <2>1. PICK m \in wrong : \A k \in wrong : m <= k
    <3>1. wrong \in SUBSET Nat
      OBVIOUS
    <3> HIDE DEF wrong
    <3> QED
      BY <3>1, LeastNat
  <2>2. PICK s \in SUBSET S : Cardinality(s) = m /\ h[s] \notin Nat
    BY <2>1
  <2>3. s # {}
    BY <1>1, <2>2 DEF SumStep
  <2> DEFINE r == s \ {Pick(s)}
  <2>4. /\ Pick(s) \in S /\ r \in SUBSET S /\ Cardinality(r) \in Nat
        /\ Cardinality(r) = m - 1 /\ m \in Nat
    BY <2>2, <2>3, PickedOut
  <2>5. h[s] = f[Pick(s)] + h[r]
    BY <1>1, <2>3 DEF SumStep
  <2>6. h[r] \notin Nat
    BY <2>2, <2>4, <2>5
  <2>7. Cardinality(r) \in wrong
    BY <2>4, <2>6
  <2>8. m <= Cardinality(r)
    <3> HIDE DEF wrong, r
    <3> QED BY <2>1, <2>7
  <2> QED
    BY <2>4, <2>8
<1> QED
  <2>1. \A s \in SUBSET S : Cardinality(s) \in Nat
    BY FS_Subset, FS_CardinalityType
  <2> QED
    BY <1>2, <2>1 DEF h

\* When one summand changes, the sum over the sets it is in changes by as much.
LEMMA SumsChange ==
  ASSUME NEW S, IsFiniteSet(S), NEW f \in [S -> Nat], NEW g \in [S -> Nat],
         NEW i \in S, \A j \in S : j # i => g[j] = f[j]
  PROVE  \A s \in SUBSET S :
           IF i \in s THEN Sums(g, S)[s] + f[i] = Sums(f, S)[s] + g[i]
           ELSE Sums(g, S)[s] = Sums(f, S)[s]
<1> DEFINE hf == Sums(f, S)
           hg == Sums(g, S)
           Right(s) == IF i \in s THEN hg[s] + f[i] = hf[s] + g[i] ELSE hg[s] = hf[s]
           wrong == {n \in Nat : \E s \in SUBSET S : Cardinality(s) = n /\ ~ Right(s)}
<1>1. \A s \in SUBSET S : hf[s] = SumStep(f, hf, s) /\ hg[s] = SumStep(g, hg, s)
  BY SumOver
<1>2. \A s \in SUBSET S : hf[s] \in Nat /\ hg[s] \in Nat
  BY SumsAreNat
<1> HIDE DEF hf, hg
<1>3. wrong = {}
  <2> SUFFICES ASSUME wrong # {} PROVE FALSE
    OBVIOUS
  <2>1. PICK m \in wrong : \A k \in wrong : m <= k
    <3>1. wrong \in SUBSET Nat
      OBVIOUS
    <3> HIDE DEF wrong
    <3> QED
      BY <3>1, LeastNat
  <2>2. PICK s \in SUBSET S : Cardinality(s) = m /\ ~ Right(s)
    BY <2>1
  <2>3. s # {}
    BY <1>1, <2>2 DEF SumStep
  <2> DEFINE p == Pick(s)
             r == s \ {p}
  <2>4. /\ p \in s /\ p \in S /\ r \in SUBSET S /\ Cardinality(r) \in Nat
        /\ Cardinality(r) = m - 1 /\ m \in Nat
    BY <2>2, <2>3, PickedOut
  <2>5. hf[s] = f[p] + hf[r] /\ hg[s] = g[p] + hg[r]
    BY <1>1, <2>3 DEF SumStep
  <2>6. /\ hf[s] \in Nat /\ hg[s] \in Nat /\ hf[r] \in Nat /\ hg[r] \in Nat
        /\ f[p] \in Nat /\ g[p] \in Nat /\ f[i] \in Nat /\ g[i] \in Nat
    BY <1>2, <2>4
  <2>7. Cardinality(r) \notin wrong
    <3> HIDE DEF wrong, r
    <3> QED BY <2>1, <2>4
  <2>8. Right(r)
    BY <2>4, <2>7
  <2>9. CASE p = i
    <3>1. i \notin r /\ i \in s
      BY <2>4, <2>9
    <3>2. hg[r] = hf[r]
      BY <2>8, <3>1
    <3>3. Right(s)
      BY <2>5, <2>6, <2>9, <3>1, <3>2
    <3> QED
      BY <2>2, <3>3
  <2>10. CASE p # i
    <3>1. g[p] = f[p] /\ (i \in r <=> i \in s)
      BY <2>4, <2>10
    <3>2. Right(s)
      BY <2>5, <2>6, <2>8, <3>1
    <3> QED
      BY <2>2, <3>2
  <2> QED
    BY <2>9, <2>10
<1>4. \A s \in SUBSET S : Right(s)
  <2>1. \A s \in SUBSET S : Cardinality(s) \in Nat
    BY FS_Subset, FS_CardinalityType
  <2> HIDE DEF Right
  <2> QED
    BY <1>3, <2>1
<1> QED
  BY <1>4 DEF hf, hg

\* The sum over the whole set.
LEMMA TotalIsNat ==
  ASSUME NEW S, IsFiniteSet(S), NEW f \in [S -> Nat]
  PROVE  Total(f, S) \in Nat
BY SumsAreNat DEF Total

LEMMA TotalChanges ==
  ASSUME NEW S, IsFiniteSet(S), NEW f \in [S -> Nat], NEW g \in [S -> Nat],
         NEW i \in S, \A j \in S : j # i => g[j] = f[j]
  PROVE  Total(g, S) + f[i] = Total(f, S) + g[i]
<1>1. S \in SUBSET S /\ i \in S
  OBVIOUS
<1> QED
  BY <1>1, SumsChange DEF Total

LEMMA TotalOfZeros ==
  ASSUME NEW S, IsFiniteSet(S)
  PROVE  Total([j \in S |-> 0], S) = 0
<1> DEFINE f == [j \in S |-> 0]
           h == Sums(f, S)
           wrong == {n \in Nat : \E s \in SUBSET S : Cardinality(s) = n /\ h[s] # 0}
<1>1. \A s \in SUBSET S : h[s] = SumStep(f, h, s)
  BY SumOver
<1> HIDE DEF h
<1>2. wrong = {}
  <2> SUFFICES ASSUME wrong # {} PROVE FALSE
    OBVIOUS
  <2>1. PICK m \in wrong : \A k \in wrong : m <= k
    <3>1. wrong \in SUBSET Nat
      OBVIOUS
    <3> HIDE DEF wrong
    <3> QED
      BY <3>1, LeastNat
  <2>2. PICK s \in SUBSET S : Cardinality(s) = m /\ h[s] # 0
    BY <2>1
  <2>3. s # {}
    BY <1>1, <2>2 DEF SumStep
  <2> DEFINE r == s \ {Pick(s)}
  <2>4. /\ Pick(s) \in S /\ r \in SUBSET S /\ Cardinality(r) \in Nat
        /\ Cardinality(r) = m - 1 /\ m \in Nat
    BY <2>2, <2>3, PickedOut
  <2>5. h[s] = 0 + h[r]
    BY <1>1, <2>3, <2>4 DEF SumStep
  <2>6. h[r] # 0
    BY <2>2, <2>5
  <2>7. Cardinality(r) \in wrong
    BY <2>4, <2>6
  <2>8. m <= Cardinality(r)
    <3> HIDE DEF wrong, r
    <3> QED BY <2>1, <2>7
  <2> QED
    BY <2>4, <2>8
<1>3. Cardinality(S) \in Nat
  BY FS_CardinalityType
<1>4. h[S] = 0
  BY <1>2, <1>3
<1> QED
  BY <1>4 DEF h, Total

\* The sums are determined by the summands.
LEMMA SumsAgree ==
  ASSUME NEW S, IsFiniteSet(S), NEW f, NEW g, \A j \in S : f[j] = g[j],
         NEW h, NEW k,
         \A s \in SUBSET S : h[s] = SumStep(f, h, s) /\ k[s] = SumStep(g, k, s)
  PROVE  \A s \in SUBSET S : h[s] = k[s]
<1> DEFINE wrong == {n \in Nat : \E s \in SUBSET S : Cardinality(s) = n /\ h[s] # k[s]}
<1>1. wrong = {}
  <2> SUFFICES ASSUME wrong # {} PROVE FALSE
    OBVIOUS
  <2>1. PICK m \in wrong : \A n \in wrong : m <= n
    <3>1. wrong \in SUBSET Nat
      OBVIOUS
    <3> HIDE DEF wrong
    <3> QED
      BY <3>1, LeastNat
  <2>2. PICK s \in SUBSET S : Cardinality(s) = m /\ h[s] # k[s]
    BY <2>1
  <2>3. s # {}
    BY <2>2 DEF SumStep
  <2> DEFINE r == s \ {Pick(s)}
  <2>4. /\ Pick(s) \in S /\ r \in SUBSET S /\ Cardinality(r) \in Nat
        /\ Cardinality(r) = m - 1 /\ m \in Nat
    BY <2>2, <2>3, PickedOut
  <2>5. h[s] = f[Pick(s)] + h[r] /\ k[s] = g[Pick(s)] + k[r]
    BY <2>3 DEF SumStep
  <2>6. h[r] # k[r]
    BY <2>2, <2>4, <2>5
  <2>7. Cardinality(r) \in wrong
    BY <2>4, <2>6
  <2>8. m <= Cardinality(r)
    <3> HIDE DEF wrong, r
    <3> QED BY <2>1, <2>7
  <2> QED
    BY <2>4, <2>8
<1>2. \A s \in SUBSET S : Cardinality(s) \in Nat
  BY FS_Subset, FS_CardinalityType
<1> QED
  BY <1>1, <1>2

\* The total of what agrees on S, however it is computed.
LEMMA TotalsAgree ==
  ASSUME NEW S, IsFiniteSet(S), NEW f, NEW g, \A j \in S : f[j] = g[j],
         NEW T \in SUBSET S
  PROVE  /\ Sums(f, S)[T] = Total(g, T)
         /\ Total(f, T) = Total(g, T)
<1>1. IsFiniteSet(T)
  BY FS_Subset
<1>2. \A s \in SUBSET S : Sums(f, S)[s] = SumStep(f, Sums(f, S), s)
  BY SumOver
<1>3. \A s \in SUBSET T : Sums(g, T)[s] = SumStep(g, Sums(g, T), s)
  BY <1>1, SumOver
<1>4. \A s \in SUBSET T : Sums(f, T)[s] = SumStep(f, Sums(f, T), s)
  BY <1>1, SumOver
<1>5. SUBSET T \subseteq SUBSET S /\ \A j \in T : f[j] = g[j]
  OBVIOUS
<1>6. \A s \in SUBSET T : Sums(f, S)[s] = Sums(g, T)[s]
  <2> DEFINE h == Sums(f, S)
             k == Sums(g, T)
  <2>1. \A s \in SUBSET T : h[s] = SumStep(f, h, s) /\ k[s] = SumStep(g, k, s)
    BY <1>2, <1>3, <1>5
  <2> HIDE DEF h, k
  <2>2. \A s \in SUBSET T : h[s] = k[s]
    BY <1>1, <1>5, <2>1, SumsAgree
  <2> QED
    BY <2>2 DEF h, k
<1>7. \A s \in SUBSET T : Sums(f, T)[s] = Sums(g, T)[s]
  <2> DEFINE h == Sums(f, T)
             k == Sums(g, T)
  <2>1. \A s \in SUBSET T : h[s] = SumStep(f, h, s) /\ k[s] = SumStep(g, k, s)
    BY <1>3, <1>4
  <2> HIDE DEF h, k
  <2>2. \A s \in SUBSET T : h[s] = k[s]
    BY <1>1, <1>5, <2>1, SumsAgree
  <2> QED
    BY <2>2 DEF h, k
<1> QED
  BY <1>6, <1>7 DEF Total

\* A member can be taken out of a sum, whichever it is.
LEMMA SumsTakeOut ==
  ASSUME NEW S, IsFiniteSet(S), NEW f \in [S -> Nat]
  PROVE  \A s \in SUBSET S : \A i \in s : Sums(f, S)[s] = f[i] + Sums(f, S)[s \ {i}]
<1> DEFINE h == Sums(f, S)
           Right(s) == \A i \in s : h[s] = f[i] + h[s \ {i}]
           wrong == {n \in Nat : \E s \in SUBSET S : Cardinality(s) = n /\ ~ Right(s)}
<1>1. \A s \in SUBSET S : h[s] = SumStep(f, h, s)
  BY SumOver
<1>2. \A s \in SUBSET S : h[s] \in Nat
  BY SumsAreNat
<1> HIDE DEF h
<1>3. wrong = {}
  <2> SUFFICES ASSUME wrong # {} PROVE FALSE
    OBVIOUS
  <2>1. PICK m \in wrong : \A k \in wrong : m <= k
    <3>1. wrong \in SUBSET Nat
      OBVIOUS
    <3> HIDE DEF wrong
    <3> QED
      BY <3>1, LeastNat
  <2>2. PICK s \in SUBSET S : Cardinality(s) = m /\ ~ Right(s)
    BY <2>1
  <2>3. PICK i \in s : h[s] # f[i] + h[s \ {i}]
    BY <2>2
  <2> DEFINE p == Pick(s)
             r == s \ {p}
             q == s \ {i}
  <2>4. /\ p \in s /\ r \in SUBSET S /\ Cardinality(r) \in Nat
        /\ Cardinality(r) = m - 1 /\ m \in Nat
    BY <2>2, <2>3, PickedOut
  <2>5. h[s] = f[p] + h[r]
    BY <1>1, <2>3 DEF SumStep
  <2>6. p # i
    BY <2>3, <2>5
  <2>7. /\ q \in SUBSET S /\ Cardinality(q) = m - 1
    <3>1. IsFiniteSet(s)
      BY FS_Subset
    <3> QED
      BY <2>2, <2>3, <3>1, FS_RemoveElement
  <2>8. Cardinality(r) \notin wrong
    <3> HIDE DEF wrong, r
    <3> QED BY <2>1, <2>4
  <2>9. Cardinality(q) \notin wrong
    <3> HIDE DEF wrong, q, r
    <3> QED BY <2>1, <2>4, <2>7
  <2>10. Right(r) /\ Right(q)
    <3> HIDE DEF Right, r, q
    <3> QED BY <2>4, <2>7, <2>8, <2>9
  <2>11. h[r] = f[i] + h[r \ {i}] /\ h[q] = f[p] + h[q \ {p}]
    BY <2>3, <2>4, <2>6, <2>10
  <2>12. r \ {i} = q \ {p} /\ r \ {i} \in SUBSET S
    OBVIOUS
  <2>13. /\ f[p] \in Nat /\ f[i] \in Nat /\ h[r \ {i}] \in Nat
    BY <1>2, <2>3, <2>4, <2>12
  <2>14. h[q] = f[p] + h[r \ {i}]
    BY <2>11, <2>12
  <2>15. ASSUME NEW a, NEW b, NEW c, NEW d \in Nat, NEW x \in Nat, NEW y \in Nat,
                a = x + b, b = y + d, c = x + d
         PROVE  a = y + c
    BY <2>15
  <2>16. h[s] = f[i] + h[q]
    BY <2>5, <2>11, <2>13, <2>14, <2>15
  <2> QED
    BY <2>3, <2>16
<1>4. \A s \in SUBSET S : Right(s)
  <2>1. \A s \in SUBSET S : Cardinality(s) \in Nat
    BY FS_Subset, FS_CardinalityType
  <2> HIDE DEF Right
  <2> QED
    BY <1>3, <2>1
<1> QED
  BY <1>4 DEF h

\* One more member adds its summand.
LEMMA TotalExtends ==
  ASSUME NEW S, IsFiniteSet(S), NEW i, i \notin S,
         NEW f \in [S \cup {i} -> Nat], NEW g, \A j \in S : g[j] = f[j]
  PROVE  Total(f, S \cup {i}) = Total(g, S) + f[i] /\ Total(g, S) \in Nat
<1> DEFINE U == S \cup {i}
<1>1. IsFiniteSet(U) /\ U \in SUBSET U /\ i \in U /\ S \in SUBSET U /\ U \ {i} = S
  BY FS_AddElement
<1>2. Sums(f, U)[U] = f[i] + Sums(f, U)[S]
  <2> HIDE DEF U
  <2>1. f \in [U -> Nat]
    BY DEF U
  <2>2. Sums(f, U)[U] = f[i] + Sums(f, U)[U \ {i}]
    BY <1>1, <2>1, SumsTakeOut
  <2> QED
    BY <1>1, <2>2
<1>3. Sums(f, U)[S] = Total(g, S)
  <2>1. Sums(f, U)[S] = Total(f, S)
    BY <1>1, TotalsAgree
  <2>2. Total(f, S) = Total(g, S)
    BY TotalsAgree
  <2> QED
    BY <2>1, <2>2
<1>4. Sums(f, U)[S] \in Nat
  BY <1>1, SumsAreNat
<1>5. f[i] \in Nat
  OBVIOUS
<1>6. ASSUME NEW a, NEW b \in Nat, NEW c \in Nat, a = b + c PROVE a = c + b
  BY <1>6
<1> QED
  BY <1>2, <1>3, <1>4, <1>5 DEF Total

---------------------------------------------------------------------------
(* The quota of an API key *)

\* What one process relies on, whatever the others and Redis do.
CountsTyped ==
  /\ used \in [Inst -> Nat] /\ keyRow \in [Inst -> Nat] /\ life \in [Inst -> Nat]
  /\ writes \in [Inst -> SUBSET Nat]
  /\ sync \in [Inst -> Nat] /\ counter \in Nat

\* The count in memory covers every unit this process granted: a unit is granted by
\* moving the count, a reconcile only raises it, and a restart forgets both.
CountCovers == \A i \in Inst : life[i] <= used[i]

QuotaInv == CountsTyped /\ CountCovers /\ Key!ProcessBound

LEMMA QuotaInit ==
  ASSUME Quota \in Nat, Key!Init
  PROVE  QuotaInv
BY DEF Key!Init, QuotaInv, CountsTyped, CountCovers, Key!ProcessBound, Key!NoSync

\* A reconcile never lowers the count.
LEMMA RaiseNeverLowers ==
  ASSUME NEW local \in Nat, NEW total \in Nat
  PROVE  Key!Raise(local, total) \in Nat /\ Key!Raise(local, total) >= local
BY DEF Key!Raise

LEMMA QuotaStep ==
  ASSUME Quota \in Nat, QuotaInv, [Key!Next]_Key!vars
  PROVE  QuotaInv'
<1> USE DEF QuotaInv, CountsTyped, CountCovers, Key!ProcessBound
<1>1. CASE UNCHANGED Key!vars
  BY <1>1 DEF Key!vars
<1>2. ASSUME NEW i \in Inst, Key!CheckAndConsume(i)
      PROVE  QuotaInv'
  <2>1. used' = [used EXCEPT ![i] = used[i] + 1] /\ UNCHANGED <<keyRow, counter, sync>>
    BY <1>2 DEF Key!CheckAndConsume
  <2>2. CASE Key!Grant(used[i] + 1)
    <3>1. /\ life' = [life EXCEPT ![i] = @ + 1]
          /\ writes' = [writes EXCEPT ![i] = @ \cup {used[i] + 1}]
      BY <1>2, <2>2 DEF Key!CheckAndConsume
    <3>2. life[i] + 1 <= used[i] + 1 /\ life[i] + 1 <= Quota
      BY <2>2 DEF Key!Grant
    <3> QED
      BY <2>1, <3>1, <3>2
  <2>3. CASE ~Key!Grant(used[i] + 1)
    <3>1. UNCHANGED <<writes, life>>
      BY <1>2, <2>3 DEF Key!CheckAndConsume
    <3> QED
      BY <2>1, <3>1
  <2> QED
    BY <2>2, <2>3
<1>3. ASSUME NEW i \in Inst, Key!WriteRow(i)
      PROVE  QuotaInv'
  BY <1>3 DEF Key!WriteRow
<1>4. ASSUME NEW i \in Inst, Key!IncrBy(i)
      PROVE  QuotaInv'
  BY <1>4 DEF Key!IncrBy
<1>5. ASSUME NEW i \in Inst, Key!SyncRead(i)
      PROVE  QuotaInv'
  BY <1>5 DEF Key!SyncRead
<1>6. ASSUME NEW i \in Inst, Key!SyncApply(i)
      PROVE  QuotaInv'
  <2>1. /\ used' = [used EXCEPT ![i] = Key!Raise(used[i], sync[i])]
        /\ sync' = [sync EXCEPT ![i] = Key!NoSync]
        /\ UNCHANGED <<keyRow, writes, counter, life>>
    BY <1>6 DEF Key!SyncApply
  <2>2. Key!Raise(used[i], sync[i]) \in Nat /\ Key!Raise(used[i], sync[i]) >= life[i]
    BY RaiseNeverLowers
  <2> QED
    BY <2>1, <2>2 DEF Key!NoSync
<1>7. ASSUME NEW i \in Inst, Key!SetActive(i)
      PROVE  QuotaInv'
  BY <1>7 DEF Key!SetActive
<1>8. ASSUME NEW i \in Inst, Key!Crash(i)
      PROVE  QuotaInv'
  BY <1>8 DEF Key!Crash, Key!NoSync
<1> QED
  BY <1>1, <1>2, <1>3, <1>4, <1>5, <1>6, <1>7, <1>8 DEF Key!Next, Key!Syncs

\* One process never grants more than the quota between two restarts, with any number
\* of instances, lost increments and totals read late (check_and_consume moves the
\* count before it grants, and sync_usage_from_redis keeps the maximum).
THEOREM ProcessNeverOverGrants ==
  ASSUME Quota \in Nat
  PROVE  Key!Spec => []Key!ProcessBound
<1>1. Key!Init => QuotaInv
  BY QuotaInit
<1>2. QuotaInv /\ [Key!Next]_Key!vars => QuotaInv'
  BY QuotaStep
<1>3. QuotaInv => Key!ProcessBound
  BY DEF QuotaInv
<1> QED
  BY <1>1, <1>2, <1>3, PTL DEF Key!Spec

\* The units of a fleet: nothing is made up, and nothing is counted twice.
UnitsInv == /\ incrs \in [Inst -> Nat] /\ counter \in Nat /\ lost \in Nat /\ granted \in Nat
            /\ counter + lost + Total(incrs, Inst) = granted

\* UnitsCountedOnce adds up with the library's operator, which is defined that way.
LEMMA UnitsAsTotal ==
  Key!UnitsCountedOnce <=> counter + lost + Total(incrs, Inst) = granted
BY DEF Key!UnitsCountedOnce, Key!MapThenSumSet, Key!MapThenFoldSet, Pick, SumStep, Sums, Total

LEMMA UnitsInit ==
  ASSUME IsFiniteSet(Inst), Key!Init
  PROVE  UnitsInv
<1>1. incrs = [i \in Inst |-> 0] /\ counter = 0 /\ lost = 0 /\ granted = 0
  BY DEF Key!Init
<1>2. Total(incrs, Inst) = 0
  BY <1>1, TotalOfZeros
<1> QED
  BY <1>1, <1>2 DEF UnitsInv

LEMMA UnitsStep ==
  ASSUME IsFiniteSet(Inst), UnitsInv, [Key!Next]_Key!vars
  PROVE  UnitsInv'
<1>0. /\ incrs \in [Inst -> Nat] /\ counter \in Nat /\ lost \in Nat /\ granted \in Nat
      /\ counter + lost + Total(incrs, Inst) = granted
  BY DEF UnitsInv
<1>1. ASSUME NEW i \in Inst, NEW n \in Nat, incrs' = [incrs EXCEPT ![i] = n],
             counter' \in Nat, lost' \in Nat, granted' \in Nat,
             counter' + lost' + n + granted = counter + lost + incrs[i] + granted'
      PROVE  UnitsInv'
  <2>1. /\ incrs' \in [Inst -> Nat] /\ incrs'[i] = n
        /\ \A j \in Inst : j # i => incrs'[j] = incrs[j]
    BY <1>0, <1>1
  <2>2. /\ Total(incrs, Inst) \in Nat /\ Total(incrs', Inst) \in Nat
        /\ Total(incrs', Inst) + incrs[i] = Total(incrs, Inst) + incrs'[i]
    BY <1>0, <2>1, TotalIsNat, TotalChanges
  <2>3. incrs[i] \in Nat
    BY <1>0
  <2>4. counter' + lost' + Total(incrs', Inst) = granted'
    BY <1>0, <1>1, <2>1, <2>2, <2>3
  <2> QED
    BY <1>1, <2>1, <2>4 DEF UnitsInv
<1>2. ASSUME UNCHANGED <<incrs, counter, lost, granted>>
      PROVE  UnitsInv'
  BY <1>2 DEF UnitsInv
<1>3. ASSUME NEW i \in Inst, Key!CheckAndConsume(i)
      PROVE  UnitsInv'
  <2>1. UNCHANGED <<counter, lost>>
    BY <1>3 DEF Key!CheckAndConsume
  <2>2. CASE Key!Grant(used[i] + 1)
    <3>1. incrs' = [incrs EXCEPT ![i] = incrs[i] + 1] /\ granted' = granted + 1
      BY <1>3, <2>2 DEF Key!CheckAndConsume
    <3>2. /\ incrs[i] \in Nat /\ incrs[i] + 1 \in Nat
          /\ counter' \in Nat /\ lost' \in Nat /\ granted' \in Nat
      BY <1>0, <2>1, <3>1
    <3>3. counter' + lost' + (incrs[i] + 1) + granted = counter + lost + incrs[i] + granted'
      BY <1>0, <2>1, <3>1, <3>2
    <3> QED
      BY <1>1, <3>1, <3>2, <3>3
  <2>3. CASE ~Key!Grant(used[i] + 1)
    <3>1. UNCHANGED <<incrs, granted>>
      BY <1>3, <2>3 DEF Key!CheckAndConsume
    <3> QED
      BY <1>2, <2>1, <3>1
  <2> QED
    BY <2>2, <2>3
<1>4. ASSUME NEW i \in Inst, Key!IncrBy(i)
      PROVE  UnitsInv'
  <2>1. /\ incrs[i] > 0 /\ incrs' = [incrs EXCEPT ![i] = incrs[i] - 1] /\ UNCHANGED granted
        /\ \/ counter' = counter + 1 /\ lost' = lost
           \/ lost' = lost + 1 /\ counter' = counter
    BY <1>4 DEF Key!IncrBy
  <2>2. /\ incrs[i] \in Nat /\ incrs[i] - 1 \in Nat
        /\ counter' \in Nat /\ lost' \in Nat /\ granted' \in Nat
    BY <1>0, <2>1
  <2>3. counter' + lost' + (incrs[i] - 1) + granted = counter + lost + incrs[i] + granted'
    BY <1>0, <2>1, <2>2
  <2> QED
    BY <1>1, <2>1, <2>2, <2>3
<1>5. ASSUME NEW i \in Inst, Key!Crash(i)
      PROVE  UnitsInv'
  <2>1. /\ incrs' = [incrs EXCEPT ![i] = 0] /\ lost' = lost + incrs[i]
        /\ UNCHANGED <<counter, granted>>
    BY <1>5 DEF Key!Crash
  <2>2. incrs[i] \in Nat /\ counter' \in Nat /\ lost' \in Nat /\ granted' \in Nat
    BY <1>0, <2>1
  <2>3. counter' + lost' + 0 + granted = counter + lost + incrs[i] + granted'
    BY <1>0, <2>1, <2>2
  <2> QED
    BY <1>1, <2>1, <2>2, <2>3
<1>6. ASSUME NEW i \in Inst, Key!WriteRow(i) \/ Key!Syncs(i) \/ Key!SetActive(i)
      PROVE  UnitsInv'
  <2>1. UNCHANGED <<incrs, counter, lost, granted>>
    BY <1>6 DEF Key!WriteRow, Key!Syncs, Key!SyncRead, Key!SyncApply, Key!SetActive
  <2> QED
    BY <1>2, <2>1
<1>7. CASE UNCHANGED Key!vars
  BY <1>2, <1>7 DEF Key!vars
<1> QED
  BY <1>3, <1>4, <1>5, <1>6, <1>7 DEF Key!Next

\* What Redis has counted, what spawned tasks still have to add and what was lost with a
\* command or a process make up exactly what check_and_consume granted, for any fleet:
\* a refused request spawns no increment, and a reconcile adds to no counter.
THEOREM UnitsAreCountedOnce ==
  ASSUME IsFiniteSet(Inst)
  PROVE  Key!Spec => []Key!UnitsCountedOnce
<1>1. Key!Init => UnitsInv
  BY UnitsInit
<1>2. UnitsInv /\ [Key!Next]_Key!vars => UnitsInv'
  BY UnitsStep
<1>3. UnitsInv => Key!UnitsCountedOnce
  BY UnitsAsTotal DEF UnitsInv
<1> QED
  BY <1>1, <1>2, <1>3, PTL DEF Key!Spec

---------------------------------------------------------------------------
(* The rates of the overview *)

LogParameters == /\ Window \in Nat \ {0} /\ Recent \in Nat /\ Recent < Window
                 /\ MaxEntries \in Nat \ {0} /\ MaxSeconds \in Nat /\ Outcomes # {}

\* SumFunction is defined that way.
LEMMA SumFunctionIsTotal ==
  ASSUME NEW n
  PROVE  Log!SumFunction(n) = Total(n, DOMAIN n)
BY DEF Log!SumFunction, Log!SumFunctionOnSet, Log!FoldFunctionOnSet, Log!MapThenFoldSet,
       Pick, SumStep, Sums, Total

LEMMA TotalOfNone ==
  ASSUME NEW n
  PROVE  Total(n, {}) = 0
<1>1. IsFiniteSet({}) /\ {} \in SUBSET {}
  BY FS_EmptySet
<1>2. Sums(n, {})[{}] = SumStep(n, Sums(n, {}), {})
  BY <1>1, SumOver
<1> QED
  BY <1>2 DEF SumStep, Total

\* Seconds are naturals, no bucket is of a second to come, and counts are naturals.
LogTyped ==
  /\ second \in Nat /\ Window < second
  /\ entries \in Seq(Outcomes) /\ Len(entries) <= MaxEntries
  /\ IsFiniteSet(DOMAIN buckets) /\ DOMAIN buckets \subseteq 1..second
  /\ \A at \in DOMAIN buckets : buckets[at] \in [Log!Fields -> Nat]
  /\ IsFiniteSet(written)
  /\ \A w \in written : w[3] \in [Log!Fields -> Nat]

\* A request takes its second from the clock and records itself once.
RecordedOnce ==
  /\ serving \in [Reqs -> [pc : {"new", "ready", "done"}, out : Outcomes, ts : 0..second,
                          accounts : Seq({"account"})]]
  /\ \A r \in Reqs : serving[r].pc = "ready" => serving[r].ts # 0
  /\ \A w \in written : w[1] \in Reqs /\ serving[w[1]].pc = "done"

\* In seconds whose buckets no record that is still to come can drop, the buckets count
\* what was recorded: a record is never newer than the clock.
Live(at) == at + Window > second
CountsAgree ==
  \A S \in SUBSET Nat : (\A at \in S : Live(at)) => Log!TotalOver(S) = Log!Recorded(S)

LogInv == LogTyped /\ RecordedOnce /\ CountsAgree

LEMMA LogInit ==
  ASSUME LogParameters, Log!Init
  PROVE  LogInv
<1>1. /\ second = Window + 1 /\ entries = << >> /\ written = {}
      /\ serving = [r \in Reqs |-> Log!Idle] /\ DOMAIN buckets = {}
  BY DEF Log!Init, Log!Start
<1>2. LogTyped
  BY <1>1, FS_EmptySet DEF LogTyped, LogParameters
<1>3. RecordedOnce
  <2>1. Log!Idle \in [pc : {"new"}, out : Outcomes, ts : {0}, accounts : {<< >>}]
    BY DEF Log!Idle, LogParameters
  <2>2. << >> \in Seq({"account"}) /\ 0 \in 0..second
    BY <1>1 DEF LogParameters
  <2> QED
    BY <1>1, <2>1, <2>2 DEF RecordedOnce
<1>4. ASSUME NEW S \in SUBSET Nat
      PROVE  Log!TotalOver(S) = Log!Recorded(S)
  <2>1. ASSUME NEW f \in Log!Fields
        PROVE  /\ Log!SumFunction([at \in S \cap DOMAIN buckets |-> buckets[at][f]]) = 0
               /\ Log!SumFunction([w \in {w \in written : w[2] \in S} |-> w[3][f]]) = 0
    <3>1. S \cap DOMAIN buckets = {} /\ {w \in written : w[2] \in S} = {}
      BY <1>1
    <3>2. ASSUME NEW n, DOMAIN n = {} PROVE Log!SumFunction(n) = 0
      BY <3>2, SumFunctionIsTotal, TotalOfNone
    <3> QED
      BY <3>1, <3>2
  <2> QED
    BY <2>1 DEF Log!TotalOver, Log!Recorded
<1> QED
  BY <1>2, <1>3, <1>4 DEF LogInv, CountsAgree

\* A response counts once, in naturals.
LEMMA CountsAreNat ==
  ASSUME NEW out, NEW accounts
  PROVE  Log!CountsOf(out, accounts) \in [Log!Fields -> Nat]
BY DEF Log!CountsOf, Log!Fields

\* What Record writes, and that the clock of the request keeps its record in the live
\* seconds apart from the buckets that it drops.
LEMMA RecordWrites ==
  ASSUME LogParameters, LogInv, NEW r \in Reqs, Log!Record(r)
  PROVE  \E ts \in 1..second, c \in [Log!Fields -> Nat] :
           /\ buckets' = Log!Bucketed(ts, c)
           /\ written' = written \cup {<<r, ts, c>>} /\ <<r, ts, c>> \notin written
           /\ DOMAIN buckets' = {at \in DOMAIN buckets : at + Window > ts} \cup {ts}
<1> DEFINE ts == serving[r].ts
           c == Log!CountsOf(serving[r].out, serving[r].accounts)
<1>1. ts \in 1..second /\ c \in [Log!Fields -> Nat]
  <2>1. serving[r].pc = "ready"
    BY DEF Log!Record
  <2>2. ts \in 0..second /\ ts # 0
    BY <2>1 DEF LogInv, RecordedOnce
  <2>3. c \in [Log!Fields -> Nat]
    BY CountsAreNat
  <2> QED
    BY <2>2, <2>3 DEF LogInv, LogTyped
<1>2. /\ buckets' = Log!Bucketed(ts, c)
      /\ written' = written \cup {<<r, ts, c>>}
  BY DEF Log!Record
<1>3. <<r, ts, c>> \notin written
  <2>1. serving[r].pc # "done"
    BY DEF Log!Record
  <2> HIDE DEF ts, c
  <2> QED
    BY <2>1 DEF LogInv, RecordedOnce
<1>4. DOMAIN buckets' = {at \in DOMAIN buckets : at + Window > ts} \cup {ts}
  <2> HIDE DEF ts, c
  <2> QED
    BY <1>2 DEF Log!Bucketed, Log!Kept
<1> HIDE DEF ts, c
<1> QED
  BY <1>1, <1>2, <1>3, <1>4

\* The bucket of the record's second grows by its counts, wherever the bucket is.
LEMMA BucketsGrow ==
  ASSUME LogParameters, LogTyped, NEW ts \in 1..second, NEW c \in [Log!Fields -> Nat],
         buckets' = Log!Bucketed(ts, c), NEW S \in SUBSET Nat, \A at \in S : Live(at),
         NEW f \in Log!Fields
  PROVE  Log!TotalOver(S)'[f] = Log!TotalOver(S)[f] + (IF ts \in S THEN c[f] ELSE 0)
<1> DEFINE D == S \cap DOMAIN buckets
           E == S \cap DOMAIN buckets'
           old == [at \in D |-> buckets[at][f]]
           new == [at \in E |-> buckets'[at][f]]
<1>1. /\ Log!TotalOver(S)[f] = Total(old, D)
      /\ Log!TotalOver(S)'[f] = Total(new, E)
  <2>1. DOMAIN old = D /\ DOMAIN new = E
    OBVIOUS
  <2> HIDE DEF old, new
  <2>2. Log!SumFunction(old) = Total(old, D) /\ Log!SumFunction(new) = Total(new, E)
    BY <2>1, SumFunctionIsTotal
  <2>3. Log!TotalOver(S)[f] = Log!SumFunction(old)
    BY DEF old, Log!TotalOver
  <2>4. Log!TotalOver(S)'[f] = Log!SumFunction(new)
    BY DEF new, Log!TotalOver
  <2> QED
    BY <2>2, <2>3, <2>4
<1>2. IsFiniteSet(D) /\ old \in [D -> Nat] /\ ts \in Nat /\ c[f] \in Nat
  <2>1. IsFiniteSet(D)
    BY FS_Subset DEF LogTyped
  <2>2. \A at \in D : old[at] \in Nat
    BY DEF LogTyped
  <2>3. ts \in Nat
    BY DEF LogTyped
  <2> QED
    BY <2>1, <2>2, <2>3
<1>3. \A at \in D : at + Window > ts
  BY DEF Live, LogTyped, LogParameters
<1>4. E = D \cup (S \cap {ts})
  BY <1>3 DEF Log!Bucketed, Log!Kept
<1>5. \A at \in D : at # ts => new[at] = old[at]
  BY <1>3, <1>4 DEF Log!Bucketed, Log!Kept
<1>6. \A at \in D : at = ts => new[at] = old[at] + c[f]
  BY <1>3, <1>4 DEF Log!Bucketed, Log!Kept, Log!Plus
<1>7. ts \in S /\ ts \notin D => ts \in E /\ new[ts] = c[f]
  BY <1>4 DEF Log!Bucketed, Log!Kept
<1>8. Total(old, D) \in Nat
  BY <1>2, TotalIsNat
<1>9. CASE ts \notin S
  <2>1. E = D /\ \A at \in D : new[at] = old[at]
    BY <1>4, <1>5, <1>9
  <2>2. Total(new, D) = Total(old, D)
    <3> HIDE DEF old, new, D, E
    <3> QED BY <1>2, <2>1, TotalsAgree
  <2> QED
    BY <1>1, <1>8, <1>9, <2>1, <2>2
<1>10. CASE ts \in D
  <2>1. E = D /\ new \in [D -> Nat]
    <3>1. E = D
      BY <1>4, <1>10
    <3>2. ASSUME NEW at \in D PROVE new[at] \in Nat
      <4> HIDE DEF old, new, D, E
      <4>1. old[at] \in Nat
        BY <1>2
      <4> QED
        BY <1>2, <1>5, <1>6, <4>1
    <3> QED
      BY <3>1, <3>2
  <2>2. Total(new, D) + old[ts] = Total(old, D) + new[ts]
    <3>1. new \in [D -> Nat]
      BY <2>1
    <3>2. \A at \in D : at # ts => new[at] = old[at]
      BY <1>5
    <3> HIDE DEF old, new, D, E
    <3>3. IsFiniteSet(D) /\ old \in [D -> Nat]
      BY <1>2
    <3>4. ASSUME NEW i \in D, \A j \in D : j # i => new[j] = old[j]
          PROVE  Total(new, D) + old[i] = Total(old, D) + new[i]
      BY <3>1, <3>3, <3>4, TotalChanges
    <3> QED
      BY <1>10, <3>2, <3>4
  <2>3. /\ new[ts] = old[ts] + c[f] /\ old[ts] \in Nat
        /\ Total(new, D) \in Nat
    <3>1. Total(new, D) \in Nat
      <4> HIDE DEF old, new, D, E
      <4> QED BY <1>2, <2>1, TotalIsNat
    <3> QED
      BY <1>2, <1>6, <1>10, <3>1
  <2>4. Total(new, D) = Total(old, D) + c[f]
    <3> HIDE DEF old, new, D, E
    <3> QED BY <1>2, <1>8, <2>2, <2>3
  <2> QED
    BY <1>1, <1>10, <2>1, <2>4
<1>11. CASE ts \in S /\ ts \notin D
  <2>1. E = D \cup {ts} /\ new[ts] = c[f] /\ new \in [D \cup {ts} -> Nat]
    <3>1. E = D \cup {ts} /\ new[ts] = c[f]
      BY <1>4, <1>7, <1>11
    <3>2. \A at \in E : new[at] \in Nat
      BY <1>2, <1>5, <1>11, <3>1
    <3> QED
      BY <3>1, <3>2
  <2>2. \A at \in D : old[at] = new[at]
    BY <1>5, <1>11
  <2>3. Total(new, D \cup {ts}) = Total(old, D) + new[ts]
    <3> HIDE DEF old, new, D, E
    <3> QED BY <1>2, <1>11, <2>1, <2>2, TotalExtends
  <2> QED
    BY <1>1, <1>11, <2>1, <2>3
<1> QED
  BY <1>9, <1>10, <1>11

\* So does what was recorded in the second.
LEMMA RecordsGrow ==
  ASSUME LogTyped, NEW r, NEW ts, NEW c \in [Log!Fields -> Nat],
         written' = written \cup {<<r, ts, c>>}, <<r, ts, c>> \notin written,
         NEW S \in SUBSET Nat, NEW f \in Log!Fields
  PROVE  Log!Recorded(S)'[f] = Log!Recorded(S)[f] + (IF ts \in S THEN c[f] ELSE 0)
<1> DEFINE D == {w \in written : w[2] \in S}
           E == {w \in written' : w[2] \in S}
           old == [w \in D |-> w[3][f]]
           new == [w \in E |-> w[3][f]]
           x == <<r, ts, c>>
<1>1. /\ Log!Recorded(S)[f] = Total(old, D)
      /\ Log!Recorded(S)'[f] = Total(new, E)
  <2>1. DOMAIN old = D /\ DOMAIN new = E
    OBVIOUS
  <2> HIDE DEF old, new
  <2>2. Log!SumFunction(old) = Total(old, D) /\ Log!SumFunction(new) = Total(new, E)
    BY <2>1, SumFunctionIsTotal
  <2>3. Log!Recorded(S)[f] = Log!SumFunction(old)
    BY DEF old, Log!Recorded
  <2>4. Log!Recorded(S)'[f] = Log!SumFunction(new)
    BY DEF new, Log!Recorded
  <2> QED
    BY <2>2, <2>3, <2>4
<1>2. IsFiniteSet(D) /\ old \in [D -> Nat] /\ c[f] \in Nat
  <2>1. IsFiniteSet(D)
    BY FS_Subset DEF LogTyped
  <2> QED
    BY <2>1 DEF LogTyped
<1>3. Total(old, D) \in Nat
  BY <1>2, TotalIsNat
<1>4. CASE ts \notin S
  <2>1. E = D /\ new = old
    BY <1>4
  <2>2. Total(new, E) = Total(old, D)
    <3> HIDE DEF old, new, D, E
    <3> QED BY <2>1
  <2> QED
    BY <1>1, <1>3, <1>4, <2>2
<1>5. CASE ts \in S
  <2>1. E = D \cup {x} /\ x \notin D
    BY <1>5
  <2>2. new[x] = c[f] /\ \A w \in D : old[w] = new[w]
    BY <2>1
  <2>3. new \in [D \cup {x} -> Nat]
    <3>1. \A w \in E : new[w] \in Nat
      BY <1>2, <2>1, <2>2
    <3> QED
      BY <2>1, <3>1
  <2>4. Total(new, D \cup {x}) = Total(old, D) + new[x]
    <3> HIDE DEF old, new, D, E, x
    <3> QED BY <1>2, <2>1, <2>2, <2>3, TotalExtends
  <2> QED
    BY <1>1, <1>5, <2>1, <2>2, <2>4
<1> QED
  BY <1>4, <1>5

LEMMA RecordCounts ==
  ASSUME LogParameters, LogInv, NEW r \in Reqs, Log!Record(r)
  PROVE  CountsAgree'
<1>1. PICK ts \in 1..second, c \in [Log!Fields -> Nat] :
           /\ buckets' = Log!Bucketed(ts, c)
           /\ written' = written \cup {<<r, ts, c>>} /\ <<r, ts, c>> \notin written
  BY RecordWrites
<1>2. LogTyped /\ CountsAgree /\ second' = second
  BY DEF LogInv, Log!Record
<1>3. ASSUME NEW S \in SUBSET Nat, \A at \in S : Live(at)
      PROVE  Log!TotalOver(S)' = Log!Recorded(S)'
  <2>1. Log!TotalOver(S) = Log!Recorded(S)
    BY <1>2, <1>3 DEF CountsAgree
  <2>2. ASSUME NEW f \in Log!Fields
        PROVE  Log!TotalOver(S)'[f] = Log!Recorded(S)'[f]
    <3>1. Log!TotalOver(S)'[f] = Log!TotalOver(S)[f] + (IF ts \in S THEN c[f] ELSE 0)
      <4>1. LogTyped /\ buckets' = Log!Bucketed(ts, c) /\ \A at \in S : Live(at)
        BY <1>1, <1>2, <1>3
      <4> QED
        BY <4>1, BucketsGrow
    <3>2. Log!Recorded(S)'[f] = Log!Recorded(S)[f] + (IF ts \in S THEN c[f] ELSE 0)
      BY <1>1, <1>2, RecordsGrow
    <3> QED
      BY <2>1, <3>1, <3>2
  <2> QED
    BY <2>2 DEF Log!TotalOver, Log!Recorded
<1>4. ASSUME NEW S \in SUBSET Nat, (\A at \in S : Live(at))'
      PROVE  Log!TotalOver(S)' = Log!Recorded(S)'
  <2>1. \A at \in S : Live(at)
    BY <1>2, <1>4 DEF Live
  <2> QED
    BY <1>3, <2>1
<1> QED
  BY <1>4 DEF CountsAgree

LEMMA RecordTyped ==
  ASSUME LogParameters, LogInv, NEW r \in Reqs, Log!Record(r)
  PROVE  LogTyped'
<1>1. PICK ts \in 1..second, c \in [Log!Fields -> Nat] :
           /\ buckets' = Log!Bucketed(ts, c)
           /\ written' = written \cup {<<r, ts, c>>}
           /\ DOMAIN buckets' = {at \in DOMAIN buckets : at + Window > ts} \cup {ts}
  BY RecordWrites
<1>2. LogTyped /\ second' = second
  BY DEF LogInv, Log!Record
<1>3. entries' \in Seq(Outcomes) /\ Len(entries') <= MaxEntries
  <2>1. entries' = Log!Logged(serving[r].out) /\ serving[r].pc = "ready"
    BY DEF Log!Record
  <2>2. serving[r].out \in Outcomes
    BY <2>1 DEF LogInv, RecordedOnce
  <2>3. entries \in Seq(Outcomes) /\ Len(entries) <= MaxEntries /\ MaxEntries \in Nat \ {0}
    BY <1>2 DEF LogTyped, LogParameters
  <2>4. CASE Len(entries) >= MaxEntries
    <3>1. entries # << >>
      BY <2>3, <2>4
    <3>2. Tail(entries) \in Seq(Outcomes) /\ Len(Tail(entries)) = Len(entries) - 1
      BY <2>3, <3>1
    <3>3. entries' = Append(Tail(entries), serving[r].out)
      BY <2>1, <2>4 DEF Log!Logged
    <3> QED
      BY <2>2, <2>3, <3>2, <3>3
  <2>5. CASE ~ (Len(entries) >= MaxEntries)
    <3>1. entries' = Append(entries, serving[r].out)
      BY <2>1, <2>5 DEF Log!Logged
    <3> QED
      BY <2>2, <2>3, <2>5, <3>1
  <2> QED
    BY <2>4, <2>5
<1>4. IsFiniteSet(DOMAIN buckets') /\ DOMAIN buckets' \subseteq 1..second
  <2>1. IsFiniteSet({at \in DOMAIN buckets : at + Window > ts})
    BY <1>2, FS_Subset DEF LogTyped
  <2>2. IsFiniteSet({at \in DOMAIN buckets : at + Window > ts} \cup {ts})
    BY <2>1, FS_AddElement
  <2>3. DOMAIN buckets' \subseteq 1..second
    BY <1>1, <1>2 DEF LogTyped
  <2> QED
    BY <1>1, <2>2, <2>3
<1>5. ASSUME NEW at \in DOMAIN buckets' PROVE buckets'[at] \in [Log!Fields -> Nat]
  <2>1. CASE at # ts
    BY <1>1, <1>2, <2>1 DEF Log!Bucketed, LogTyped
  <2>2. CASE at = ts
    BY <1>1, <1>2, <2>2 DEF Log!Bucketed, Log!Plus, LogTyped
  <2> QED
    BY <2>1, <2>2
<1>6. IsFiniteSet(written') /\ \A w \in written' : w[3] \in [Log!Fields -> Nat]
  <2>1. IsFiniteSet(written')
    BY <1>1, <1>2, FS_AddElement DEF LogTyped
  <2>2. \A w \in written' : w[3] \in [Log!Fields -> Nat]
    BY <1>1, <1>2 DEF LogTyped
  <2> QED
    BY <2>1, <2>2
<1> QED
  BY <1>2, <1>3, <1>4, <1>5, <1>6 DEF LogTyped

LEMMA LogStep ==
  ASSUME LogParameters, LogInv, [Log!Next]_Log!vars
  PROVE  LogInv'
<1>1. CASE UNCHANGED Log!vars
  <2>1. UNCHANGED <<second, serving, entries, buckets, written>>
    BY <1>1 DEF Log!vars
  <2>2. LogTyped' /\ RecordedOnce'
    BY <2>1 DEF LogInv, LogTyped, RecordedOnce
  <2>3. CountsAgree'
    BY <2>1 DEF LogInv, CountsAgree, Live, Log!TotalOver, Log!Recorded
  <2> QED
    BY <2>2, <2>3 DEF LogInv
<1>2. ASSUME NEW r \in Reqs, Log!NoteAccount(r) \/ Log!Served(r)
      PROVE  LogInv'
  <2>1. UNCHANGED <<second, entries, buckets, written>>
    BY <1>2 DEF Log!NoteAccount, Log!Served
  <2>2. LogTyped' /\ CountsAgree'
    BY <2>1 DEF LogInv, LogTyped, CountsAgree, Live, Log!TotalOver, Log!Recorded
  <2>3. PICK s \in [pc : {"new", "ready"}, out : Outcomes, ts : 0..second,
                    accounts : Seq({"account"})] :
             /\ serving' = [serving EXCEPT ![r] = s]
             /\ s.pc = "ready" => s.ts # 0
    <3>1. /\ serving[r] \in [pc : {"new"}, out : Outcomes, ts : 0..second,
                             accounts : Seq({"account"})]
      BY <1>2 DEF LogInv, RecordedOnce, Log!NoteAccount, Log!Served
    <3>2. CASE Log!NoteAccount(r)
      <4> DEFINE s == [serving[r] EXCEPT !.accounts = Append(@, "account")]
      <4>1. serving' = [serving EXCEPT ![r] = s]
        BY <3>2 DEF Log!NoteAccount
      <4>2. Append(serving[r].accounts, "account") \in Seq({"account"})
        BY <3>1
      <4>3. s \in [pc : {"new", "ready"}, out : Outcomes, ts : 0..second,
                  accounts : Seq({"account"})] /\ s.pc = "new"
        BY <3>1, <4>2
      <4> HIDE DEF s
      <4> QED
        BY <4>1, <4>3
    <3>3. CASE Log!Served(r)
      <4>1. PICK o \in Outcomes :
               serving' = [serving EXCEPT ![r].pc = "ready", ![r].out = o, ![r].ts = second]
        BY <3>3 DEF Log!Served
      <4> DEFINE s == [serving[r] EXCEPT !.pc = "ready", !.out = o, !.ts = second]
      <4>2. serving' = [serving EXCEPT ![r] = s]
        BY <3>1, <4>1 DEF LogInv, RecordedOnce
      <4>3. second \in 0..second /\ second # 0
        BY DEF LogInv, LogTyped, LogParameters
      <4>4. s \in [pc : {"new", "ready"}, out : Outcomes, ts : 0..second,
                  accounts : Seq({"account"})] /\ s.ts # 0
        BY <3>1, <4>3
      <4> HIDE DEF s
      <4> QED
        BY <4>2, <4>4
    <3> QED
      BY <1>2, <3>2, <3>3
  <2>4. serving[r].pc = "new"
    BY <1>2 DEF Log!NoteAccount, Log!Served
  <2>5. RecordedOnce'
    BY <2>1, <2>3, <2>4 DEF LogInv, RecordedOnce
  <2> QED
    BY <2>2, <2>5 DEF LogInv
<1>3. ASSUME NEW r \in Reqs, Log!Record(r) PROVE LogInv'
  <2>1. RecordedOnce'
    <3>1. /\ serving' = [serving EXCEPT ![r] = [Log!Idle EXCEPT !.pc = "done"]]
          /\ \A w \in written' : w \in written \/ w[1] = r
          /\ second' = second
      BY <1>3 DEF Log!Record
    <3>2. second \in Nat
      BY DEF LogInv, LogTyped
    <3>3. [Log!Idle EXCEPT !.pc = "done"] \in [pc : {"done"}, out : Outcomes, ts : 0..second,
                                               accounts : Seq({"account"})]
      <4>1. << >> \in Seq({"account"}) /\ 0 \in 0..second
        BY <3>2
      <4> QED
        BY <4>1 DEF Log!Idle, LogParameters
    <3> DEFINE s == [Log!Idle EXCEPT !.pc = "done"]
    <3>4. s.pc = "done"
      BY <3>3
    <3> HIDE DEF s
    <3> QED
      BY <3>1, <3>3, <3>4 DEF LogInv, RecordedOnce, s
  <2> QED
    BY <1>3, <2>1, RecordTyped, RecordCounts DEF LogInv
<1>4. CASE Log!SecondPasses
  <2>1. second' = second + 1 /\ UNCHANGED <<serving, entries, buckets, written>>
    BY <1>4 DEF Log!SecondPasses
  <2>2. second \in Nat /\ Window \in Nat
    BY DEF LogInv, LogTyped, LogParameters
  <2>3. LogTyped'
    BY <2>1, <2>2 DEF LogInv, LogTyped
  <2>4. RecordedOnce'
    BY <2>1, <2>2 DEF LogInv, RecordedOnce
  <2>5. ASSUME NEW S \in SUBSET Nat, (\A at \in S : Live(at))'
        PROVE  Log!TotalOver(S)' = Log!Recorded(S)'
    <3>1. \A at \in S : Live(at)
      BY <2>1, <2>2, <2>5 DEF Live
    <3>2. Log!TotalOver(S) = Log!Recorded(S)
      BY <3>1 DEF LogInv, CountsAgree
    <3> QED
      BY <2>1, <3>2 DEF Log!TotalOver, Log!Recorded
  <2>6. CountsAgree'
    BY <2>5 DEF CountsAgree
  <2> QED
    BY <2>3, <2>4, <2>6 DEF LogInv
<1> QED
  BY <1>1, <1>2, <1>3, <1>4 DEF Log!Next

\* What the overview adds up lies in the live seconds.
LEMMA WindowIsLive ==
  ASSUME LogParameters, LogTyped
  PROVE  \A S \in {Log!LastMinute, Log!JustNow} \cup {{at} : at \in Log!LastMinute} :
           S \in SUBSET Nat /\ \A at \in S : Live(at)
<1>1. /\ second \in Nat /\ Window \in Nat /\ Recent \in Nat /\ Recent < Window
      /\ Window < second
  BY DEF LogParameters, LogTyped
<1>2. \A at \in Log!LastMinute : at \in Nat /\ Live(at)
  BY <1>1 DEF Log!LastMinute, Live
<1>3. \A at \in Log!JustNow : at \in Nat /\ Live(at)
  BY <1>1 DEF Log!JustNow, Live
<1> QED
  BY <1>2, <1>3

\* However the records of concurrent requests interleave with the clock, the averages, the
\* present rate and the history count every record once, in its second.
THEOREM RatesHold ==
  ASSUME LogParameters
  PROVE  Log!Spec => []Log!RatesExact
<1>1. Log!Init => LogInv
  BY LogInit
<1>2. LogInv /\ [Log!Next]_Log!vars => LogInv'
  BY LogStep
<1>3. LogInv => Log!RatesExact
  <2> SUFFICES ASSUME LogInv PROVE Log!RatesExact
    OBVIOUS
  <2>1. \A S \in {Log!LastMinute, Log!JustNow} \cup {{at} : at \in Log!LastMinute} :
           Log!TotalOver(S) = Log!Recorded(S)
    BY WindowIsLive DEF LogInv, CountsAgree
  <2> QED
    BY <2>1 DEF Log!RatesExact
<1> QED
  BY <1>1, <1>2, <1>3, PTL DEF Log!Spec

\* The log stays within its length and the buckets are of seconds that have come.
THEOREM LogTypeCorrect ==
  ASSUME LogParameters
  PROVE  Log!Spec => []Log!TypeOK
<1>1. Log!Init => LogInv
  BY LogInit
<1>2. LogInv /\ [Log!Next]_Log!vars => LogInv'
  BY LogStep
<1>3. LogInv => Log!TypeOK
  BY DEF LogInv, LogTyped, RecordedOnce, Log!TypeOK
<1> QED
  BY <1>1, <1>2, <1>3, PTL DEF Log!Spec

---------------------------------------------------------------------------
(* The types of the three limits *)

\* Strikes are counted for refusals: each refused request makes at most one.
Struck == {r \in Requests : request[r].pc = "strike"}
StrikesCounted ==
  /\ IsFiniteSet(Requests) /\ MaxRefusals \in Nat /\ MaxTime \in Nat
  /\ refusals \in Nat /\ refusals <= MaxRefusals
  /\ strikes + Cardinality(Struck) <= refusals
  /\ \A r \in Requests : request[r].strike <= MaxRefusals /\ request[r].now <= time
  /\ 1 <= time /\ time <= MaxTime

PauseBounds == /\ IsFiniteSet(Requests) /\ MaxRefusals \in Nat /\ MaxTime \in Nat \ {0}

LEMMA StrikesInit ==
  ASSUME PauseBounds, Init
  PROVE  StrikesCounted
<1>1. Struck = {}
  BY DEF Init, Struck, Idle
<1>2. Cardinality(Struck) = 0
  BY <1>1, FS_EmptySet
<1> QED
  BY <1>2 DEF Init, StrikesCounted, PauseBounds, Idle

\* A request that stops being struck, or becomes so, changes the count by one.
LEMMA StruckMoves ==
  ASSUME StrikesCounted, PauseTyped, NEW r \in Requests,
         \A q \in Requests \ {r} : request'[q].pc = request[q].pc
  PROVE  /\ Cardinality(Struck) \in Nat /\ Cardinality(Struck') \in Nat
         /\ request[r].pc = "strike" /\ request'[r].pc # "strike"
              => Cardinality(Struck') = Cardinality(Struck) - 1
         /\ request[r].pc # "strike" /\ request'[r].pc = "strike"
              => Cardinality(Struck') = Cardinality(Struck) + 1
         /\ (request[r].pc = "strike") = (request'[r].pc = "strike")
              => Cardinality(Struck') = Cardinality(Struck)
<1>1. IsFiniteSet(Struck) /\ IsFiniteSet(Struck')
  BY FS_Subset DEF Struck, StrikesCounted
<1>2. Cardinality(Struck) \in Nat /\ Cardinality(Struck') \in Nat
  BY <1>1, FS_CardinalityType
<1>3. CASE request[r].pc = "strike" /\ request'[r].pc # "strike"
  <2>1. Struck' = Struck \ {r} /\ r \in Struck
    BY <1>3 DEF Struck
  <2> QED
    BY <1>1, <1>2, <1>3, <2>1, FS_RemoveElement
<1>4. CASE request[r].pc # "strike" /\ request'[r].pc = "strike"
  <2>1. Struck' = Struck \cup {r} /\ r \notin Struck
    BY <1>4 DEF Struck
  <2> QED
    BY <1>1, <1>2, <1>4, <2>1, FS_AddElement
<1>5. CASE (request[r].pc = "strike") = (request'[r].pc = "strike")
  <2>1. Struck' = Struck
    BY <1>5 DEF Struck
  <2> QED
    BY <1>2, <1>5, <2>1
<1> QED
  BY <1>3, <1>4, <1>5

LEMMA StrikesStep ==
  ASSUME PauseParameters, PauseInv, StrikesCounted, [Next]_vars
  PROVE  StrikesCounted'
<1>1. PauseTyped
  BY DEF PauseInv
<1>2. /\ IsFiniteSet(Requests) /\ MaxRefusals \in Nat /\ MaxTime \in Nat
      /\ refusals \in Nat /\ refusals <= MaxRefusals /\ strikes \in Nat /\ time \in Nat
      /\ strikes + Cardinality(Struck) <= refusals
      /\ 1 <= time /\ time <= MaxTime
  BY <1>1 DEF StrikesCounted, PauseTyped
<1>3. CASE UNCHANGED vars
  BY <1>3 DEF vars, StrikesCounted, Struck
<1>4. ASSUME NEW r \in Requests, Send(r) \/ Answered(r) \/ Extend(r) \/ Persist(r)
      PROVE  StrikesCounted'
  <2>1. /\ UNCHANGED <<time, strikes, refusals>>
        /\ request[r].pc # "strike" /\ request'[r].pc # "strike"
        /\ request'[r].strike \in {0, request[r].strike}
        /\ request'[r].now \in {0, request[r].now}
        /\ \A q \in Requests \ {r} : request'[q] = request[q]
    <3> USE <1>1 DEF PauseTyped
    <3>1. CASE Send(r)
      BY <3>1 DEF Send
    <3>2. CASE Answered(r)
      BY <3>2 DEF Answered, Idle
    <3>3. CASE Extend(r)
      BY <3>3 DEF Extend
    <3>4. CASE Persist(r)
      BY <3>4 DEF Persist, Idle
    <3> QED
      BY <1>4, <3>1, <3>2, <3>3, <3>4
  <2>2. Cardinality(Struck') = Cardinality(Struck)
    BY <1>1, <2>1, StruckMoves
  <2>3. \A q \in Requests : request'[q].strike <= MaxRefusals /\ request'[q].now <= time
    BY <1>2, <2>1 DEF StrikesCounted
  <2> QED
    BY <1>2, <2>1, <2>2, <2>3 DEF StrikesCounted
<1>5. ASSUME NEW r \in Requests, Refused(r) PROVE StrikesCounted'
  <2>1. /\ UNCHANGED <<time, strikes>> /\ refusals < MaxRefusals /\ refusals' = refusals + 1
        /\ request[r].pc = "sent" /\ request'[r].pc = "strike"
        /\ request'[r].strike = 0 /\ request'[r].now = time
        /\ \A q \in Requests \ {r} : request'[q] = request[q]
    BY <1>1, <1>5 DEF PauseTyped, Refused
  <2>2. Cardinality(Struck') = Cardinality(Struck) + 1 /\ Cardinality(Struck) \in Nat
    BY <1>1, <2>1, StruckMoves
  <2>3. \A q \in Requests : request'[q].strike <= MaxRefusals /\ request'[q].now <= time
    BY <1>2, <2>1 DEF StrikesCounted
  <2>4. refusals' \in Nat /\ refusals' <= MaxRefusals
        /\ strikes' + Cardinality(Struck') <= refusals'
    BY <1>2, <2>1, <2>2
  <2> QED
    BY <1>2, <2>1, <2>3, <2>4 DEF StrikesCounted
<1>6. ASSUME NEW r \in Requests, Strike(r) PROVE StrikesCounted'
  <2> DEFINE q == request[r]
             n == IF q.now < q.previous THEN Max({strikes, 1})
                  ELSE IF q.previous > 0 /\ q.now - q.previous <= Forgive THEN strikes + 1
                  ELSE 1
  <2>1. /\ q.pc = "strike" /\ UNCHANGED <<time, refusals>>
        /\ request' = [request EXCEPT ![r].pc = "extend", ![r].strike = n]
        /\ strikes' = IF q.now < q.previous THEN strikes ELSE n
    BY <1>6 DEF Strike
  <2>2. n \in {strikes, strikes + 1, 1}
    BY <1>2, MaxOfTwo
  <2> HIDE DEF n
  <2>3. /\ request'[r].pc = "extend" /\ request'[r].strike = n
        /\ request'[r].now = request[r].now
        /\ \A p \in Requests \ {r} : request'[p] = request[p]
    BY <1>1, <2>1 DEF PauseTyped
  <2>4. Cardinality(Struck') = Cardinality(Struck) - 1 /\ Cardinality(Struck) \in Nat
        /\ Cardinality(Struck') \in Nat
    BY <1>1, <2>1, <2>3, StruckMoves
  <2>5. strikes' \in {strikes, strikes + 1, 1}
    BY <2>1, <2>2
  <2> HIDE DEF q
  <2>6. n <= MaxRefusals /\ strikes' + Cardinality(Struck') <= refusals
    BY <1>2, <2>2, <2>4, <2>5
  <2>7. \A p \in Requests : request'[p].strike <= MaxRefusals /\ request'[p].now <= time
    BY <1>2, <2>3, <2>6 DEF StrikesCounted
  <2> QED
    BY <1>2, <2>1, <2>6, <2>7 DEF StrikesCounted
<1>7. CASE Restart
  <2>1. UNCHANGED <<time, refusals>> /\ strikes' = 0 /\ request' = [r \in Requests |-> Idle]
    BY <1>7 DEF Restart
  <2>2. Struck' = {}
    BY <2>1 DEF Struck, Idle
  <2>3. Cardinality(Struck') = 0
    BY <2>2, FS_EmptySet
  <2>4. \A q \in Requests : request'[q].strike <= MaxRefusals /\ request'[q].now <= time
    BY <1>2, <2>1 DEF Idle
  <2> QED
    BY <1>2, <2>1, <2>3, <2>4 DEF StrikesCounted
<1>8. CASE Tick
  <2>1. time < MaxTime /\ time' = time + 1 /\ UNCHANGED <<strikes, refusals, request>>
    BY <1>8 DEF Tick
  <2>2. Struck' = Struck
    BY <2>1 DEF Struck
  <2>3. \A q \in Requests : request'[q].strike <= MaxRefusals /\ request'[q].now <= time'
    <3> SUFFICES ASSUME NEW q \in Requests
                 PROVE  request'[q].strike <= MaxRefusals /\ request'[q].now <= time'
      OBVIOUS
    <3>1. request[q].strike <= MaxRefusals /\ request[q].now <= time
      BY DEF StrikesCounted
    <3>2. request[q].now \in Nat
      BY <1>1 DEF PauseTyped
    <3> QED
      BY <1>2, <2>1, <3>1, <3>2
  <2> QED
    BY <1>2, <2>1, <2>2, <2>3 DEF StrikesCounted
<1> QED
  BY <1>3, <1>4, <1>5, <1>6, <1>7, <1>8 DEF Next

\* The clock, the deadlines and the requests have their types, and no burst of refusals
\* gives an account more strikes than there were refusals.
THEOREM PauseTypeCorrect ==
  ASSUME PauseParameters, PauseBounds
  PROVE  Spec => []TypeOK
<1>1. Init => PauseInv /\ StrikesCounted
  BY PauseInit, StrikesInit
<1>2. PauseInv /\ StrikesCounted /\ [Next]_vars => (PauseInv /\ StrikesCounted)'
  BY PauseStep, StrikesStep
<1>3. PauseInv /\ StrikesCounted => TypeOK
  BY DEF PauseInv, PauseTyped, StrikesCounted, TypeOK, Answers
<1> QED
  BY <1>1, <1>2, <1>3, PTL DEF Spec

\* The table is never ahead of the clock, and only a task holds the lock.
SentInTime == /\ lastSent \in [Kinds \X Webhooks -> 0..Alert!Never]
              /\ lock \in Alerters \cup {Alert!Free}

LEMMA SentStep ==
  ASSUME AlertParameters, ThrottleInv, SentInTime, [Alert!Next]_Alert!vars
  PROVE  SentInTime'
<1>1. AlertsTyped
  BY DEF ThrottleInv
<1>2. ASSUME NEW t \in Alerters, Alert!LookUp(t) PROVE SentInTime'
  BY <1>2 DEF Alert!LookUp, SentInTime
<1>3. ASSUME NEW t \in Alerters, Alert!Record(t) PROVE SentInTime'
  <2> DEFINE key == <<alert[t].kind, alert[t].url>>
  <2>1. lock' = Alert!Free
        /\ (lastSent' = lastSent \/ lastSent' = [lastSent EXCEPT ![key] = clock])
    BY <1>3 DEF Alert!Record
  <2>2. clock \in 0..Alert!Never
    BY <1>1 DEF AlertsTyped, Alert!Never, AlertParameters
  <2> QED
    BY <2>1, <2>2 DEF SentInTime
<1>4. ASSUME UNCHANGED <<lastSent, lock>> PROVE SentInTime'
  BY <1>4 DEF SentInTime
<1>5. CASE \/ \E t \in Alerters, k \in Kinds : Alert!Raise(t, k)
           \/ \E t \in Alerters : Alert!Post(t)
           \/ Alert!ChangeWebhook \/ Alert!TimePasses \/ UNCHANGED Alert!vars
  BY <1>4, <1>5 DEF Alert!Raise, Alert!Post, Alert!ChangeWebhook, Alert!TimePasses, Alert!vars
<1> QED
  BY <1>2, <1>3, <1>5 DEF Alert!Next

\* The table holds times that have come, and the mutex is free or some task's.
THEOREM AlertTypeCorrect ==
  ASSUME AlertParameters
  PROVE  Alert!Spec => []Alert!TypeOK
<1>1. Alert!Init => ThrottleInv /\ SentInTime
  <2>1. Alert!Init => SentInTime
    BY DEF Alert!Init, SentInTime, Alert!Never, AlertParameters
  <2> QED
    BY <2>1, ThrottleInit
<1>2. ThrottleInv /\ SentInTime /\ [Alert!Next]_Alert!vars => (ThrottleInv /\ SentInTime)'
  BY ThrottleStep, SentStep
<1>3. ThrottleInv /\ SentInTime => Alert!TypeOK
  BY DEF ThrottleInv, AlertsTyped, SentInTime, Alert!TypeOK, AlertParameters
<1> QED
  BY <1>1, <1>2, <1>3, PTL DEF Alert!Spec

LEMMA KeyFlagStep ==
  ASSUME active \in [Inst -> BOOLEAN], [Key!Next]_Key!vars
  PROVE  active' \in [Inst -> BOOLEAN]
<1>1. CASE UNCHANGED active
  BY <1>1
<1>2. CASE \E i \in Inst : Key!SetActive(i)
  BY <1>2 DEF Key!SetActive
<1> QED
  BY <1>1, <1>2 DEF Key!Next, Key!vars, Key!CheckAndConsume, Key!WriteRow, Key!IncrBy, Key!Syncs,
     Key!SyncRead, Key!SyncApply, Key!Crash

\* The counts of a key are naturals, in memory, in the row, on their way and in Redis.
THEOREM KeyTypeCorrect ==
  ASSUME Quota \in Nat, IsFiniteSet(Inst)
  PROVE  Key!Spec => []Key!TypeOK
<1> DEFINE Flags == active \in [Inst -> BOOLEAN]
<1>1. Key!Init => QuotaInv /\ UnitsInv /\ Flags
  <2>1. Key!Init => Flags
    BY DEF Key!Init
  <2> QED
    BY <2>1, QuotaInit, UnitsInit
<1>2. QuotaInv /\ UnitsInv /\ Flags /\ [Key!Next]_Key!vars => (QuotaInv /\ UnitsInv /\ Flags)'
  BY QuotaStep, UnitsStep, KeyFlagStep
<1>3. QuotaInv /\ UnitsInv /\ Flags => Key!TypeOK
  BY DEF QuotaInv, CountsTyped, UnitsInv, Key!TypeOK
<1> QED
  <2> HIDE DEF Flags
  <2> QED
    BY <1>1, <1>2, <1>3, PTL DEF Key!Spec

=============================================================================
