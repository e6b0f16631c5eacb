-------------------------- MODULE ComponentsProofs --------------------------
(***************************************************************************)
(* The components of Components, LiveComponents and ServiceParts, checked  *)
(* by TLAPS for every value of their constants.  The lockouts              *)
(* (LockoutGuard), the uptime history (AccountUptime), the preview checks  *)
(* (AccountHealth) and the settings (SettingsSync) are proved about here,  *)
(* under the names they have in the compositions; the proofs of the others *)
(* are those of ThrottleProofs, CacheProofs, ProxyProofs,                  *)
(* TokenRefreshProofs, PlaybackQueueProofs and AccountPoolProofs,          *)
(* instantiated.  From them follow the properties of the compositions: a   *)
(* behaviour about a component is one of that component, and no other      *)
(* component ever moves in it.                                             *)
(***************************************************************************)
EXTENDS Components, LiveComponents, ServiceParts, FiniteSetTheorems, WellFoundedInduction, TLAPS

-----------------------------------------------------------------------------
(* A set of naturals, and the counting of the instances                    *)

\* A set of naturals has a least member.
LEMMA LeastNat ==
  ASSUME NEW S \in SUBSET Nat, S # {}
  PROVE  \E m \in S : \A k \in S : m <= k
<1> DEFINE R == OpToRel(<, Nat)
<1>1. IsWellFoundedOn(R, Nat)
  BY NatLessThanWellFounded
<1>2. PICK m \in S : \A k \in S : ~ (<<k, m>> \in R)
  <2> HIDE DEF R
  <2> QED BY <1>1, WFMin
<1>3. \A k \in S : ~ (k < m)
  BY <1>2 DEF OpToRel
<1> QED
  BY <1>3

\* The instances of FiniteSets count as this module does.
LEMMA LockoutCounts == \A S : Lockout!Cardinality(S) = Cardinality(S)
BY DEF Lockout!Cardinality, Cardinality
LEMMA UptimeCounts == \A S : Uptime!Cardinality(S) = Cardinality(S)
BY DEF Uptime!Cardinality, Cardinality

-----------------------------------------------------------------------------
(* LockoutGuard                                                            *)

\* The constants of auth_guard.rs and scanner_guard.rs are positive.
LockoutParameters == /\ MaxReq \in Nat /\ LockoutTime \in Nat \ {0}
                     /\ Limit \in Nat \ {0} /\ LockoutWindow \in Nat \ {0} /\ LockTime \in Nat \ {0}
                     /\ MaxIps \in Nat \ {0}

Activity == [events : Seq(Nat), until : Nat, seen : Nat, known : BOOLEAN]
TableTyped(tb) == tb \in [Addresses -> Activity]

LockoutTyped == /\ lockoutClock \in Nat \ {0} /\ lockoutCleaned \in Nat
                /\ TableTyped(lockoutTable)
                /\ lockoutReq \in [Lockout!Req -> [pc : {"new", "check", "judge", "done"},
                                    ip : Addresses \cup {"none"}, now : Nat]]
                /\ lockoutHist \in [Addresses -> Seq(Nat)] /\ lockoutSince \in [Addresses -> Nat]

\* A request read the clock in the past.
ReadPast == \A r \in Lockout!Req : lockoutReq[r].pc \in {"check", "judge"} =>
              lockoutReq[r].ip \in Addresses /\ lockoutReq[r].now <= lockoutClock

\* The table is bounded.
Bounded(tb) == IsFiniteSet(Lockout!Known(tb)) /\ Cardinality(Lockout!Known(tb)) <= MaxIps

\* Events are recorded in the order of the clock.
InOrder(h) == /\ \A k \in 1..Len(h) : h[k] <= lockoutClock
              /\ \A k, l \in 1..Len(h) : k <= l => h[k] <= h[l]

\* The events of the table are the last recorded ones, each read before it was recorded.
LastOnes(events, h) ==
  /\ Len(events) <= Len(h)
  /\ \A j \in 1..Len(events) : events[j] <= h[Len(h) - Len(events) + j]

RecentEvents(h, t) == {k \in 1..Len(h) : h[k] + LockoutWindow > t}

GuardInv == /\ LockoutTyped /\ ReadPast /\ Bounded(lockoutTable)
            /\ \A ip \in Addresses : InOrder(lockoutHist[ip]) /\ LastOnes(lockoutTable[ip].events,
                 lockoutHist[ip])
            /\ Lockout!LockEarned

-----------------------------------------------------------------------------
(* Sequences                                                               *)

\* Dropping the front of the queue keeps its end; what comes first is in the window.
LEMMA InWindowSuffix ==
  ASSUME NEW events \in Seq(Nat), NEW now \in Nat
  PROVE  /\ Lockout!InWindow(events, now) \in Seq(Nat)
         /\ Len(Lockout!InWindow(events, now)) <= Len(events)
         /\ \A j \in 1..Len(Lockout!InWindow(events, now)) :
              Lockout!InWindow(events, now)[j] = events[Len(events) - Len(Lockout!InWindow(events, now)) + j]
         /\ Len(Lockout!InWindow(events, now)) > 0 => Lockout!Elapsed(now,
              Lockout!InWindow(events, now)[1]) < LockoutWindow
<1> DEFINE keep == {k \in 1..Len(events) : Lockout!Elapsed(now, events[k]) < LockoutWindow}
           first == CHOOSE k \in keep : \A l \in keep : k <= l
<1>0. Len(events) \in Nat
  OBVIOUS
<1>1. CASE keep = {}
  BY <1>0, <1>1 DEF Lockout!InWindow
<1>2. CASE keep # {}
  <2>1. \E k \in keep : \A l \in keep : k <= l
    <3>1. keep \subseteq Nat
      OBVIOUS
    <3> QED
      BY <1>2, <3>1, LeastNat
  <2>2. first \in keep /\ first \in 1..Len(events)
    BY <2>1
  <2>3. Lockout!Elapsed(now, events[first]) < LockoutWindow
    BY <2>2
  <2> DEFINE w == SubSeq(events, first, Len(events))
  <2>4. Lockout!InWindow(events, now) = w
    BY <1>2 DEF Lockout!InWindow
  <2> HIDE DEF keep, first
  <2>5. /\ w \in Seq(Nat) /\ Len(w) = Len(events) - first + 1
        /\ \A j \in 1..Len(w) : w[j] = events[first + j - 1]
    BY <1>0, <2>2
  <2> QED
    BY <1>0, <2>2, <2>3, <2>4, <2>5
<1> QED
  BY <1>1, <1>2

LEMMA InTail ==
  ASSUME NEW m \in Nat, NEW n \in Nat, NEW k \in Nat, m <= n, n - m + 1 <= k, k <= n
  PROVE  k \in 1..n /\ m > 0 /\ 1 \in 1..m /\ n - m + 1 \in 1..n
OBVIOUS

LEMMA StillRecent ==
  ASSUME LockoutParameters, NEW now \in Nat, NEW a \in Nat, NEW b \in Nat, NEW c \in Nat,
         Lockout!Elapsed(now, a) < LockoutWindow, a <= b, b <= c
  PROVE  c + LockoutWindow > now
BY DEF Lockout!Elapsed, LockoutParameters

\* The counted event keeps the queue aligned with the history; every event counted with
\* it was recorded less than a window before.
LEMMA CountAligns ==
  ASSUME LockoutParameters, lockoutClock \in Nat,
         NEW events \in Seq(Nat), NEW h \in Seq(Nat), LastOnes(events, h), InOrder(h),
         NEW now \in Nat, now <= lockoutClock,
         NEW ev, ev = Append(Lockout!InWindow(events, now), now),
         NEW g, g = Append(h, lockoutClock)
  PROVE  /\ ev \in Seq(Nat) /\ g \in Seq(Nat) /\ Len(g) = Len(h) + 1
         /\ InOrder(g) /\ LastOnes(ev, g)
         /\ \A k \in (Len(g) - Len(ev) + 1)..Len(g) : g[k] + LockoutWindow > now
<1> DEFINE w == Lockout!InWindow(events, now)
<1>1. /\ w \in Seq(Nat) /\ Len(w) <= Len(events)
      /\ \A j \in 1..Len(w) : w[j] = events[Len(events) - Len(w) + j]
      /\ Len(w) > 0 => Lockout!Elapsed(now, w[1]) < LockoutWindow
  BY InWindowSuffix
<1> HIDE DEF w
<1>2. Len(h) \in Nat /\ Len(events) \in Nat /\ Len(w) \in Nat /\ Len(events) <= Len(h)
  BY <1>1 DEF LastOnes
<1>3. /\ ev \in Seq(Nat) /\ Len(ev) = Len(w) + 1 /\ ev[Len(ev)] = now
      /\ \A j \in 1..Len(w) : ev[j] = w[j]
  BY <1>1 DEF w
<1>4. /\ g \in Seq(Nat) /\ Len(g) = Len(h) + 1 /\ g[Len(g)] = lockoutClock
      /\ \A k \in 1..Len(h) : g[k] = h[k]
  OBVIOUS
<1>5. \A k \in 1..Len(h) : h[k] \in Nat /\ h[k] <= lockoutClock
  BY DEF InOrder
<1>51. \A j \in 1..Len(w) : w[j] \in Nat
  BY <1>1
<1>6. InOrder(g)
  <2>1. \A k \in 1..Len(g) : k \in 1..Len(h) \/ k = Len(g)
    BY <1>2, <1>4
  <2>2. \A k \in 1..Len(g) : g[k] <= lockoutClock
    BY <1>4, <1>5, <2>1
  <2>3. \A k, l \in 1..Len(g) : k <= l => g[k] <= g[l]
    <3> SUFFICES ASSUME NEW k \in 1..Len(g), NEW l \in 1..Len(g), k <= l
                 PROVE  g[k] <= g[l]
      OBVIOUS
    <3>1. CASE l = Len(g)
      BY <1>4, <2>2, <3>1
    <3>2. CASE l # Len(g)
      <4>1. k \in 1..Len(h) /\ l \in 1..Len(h)
        BY <1>2, <1>4, <3>2
      <4> QED
        BY <1>4, <4>1 DEF InOrder
    <3> QED
      BY <3>1, <3>2
  <2> QED
    BY <2>2, <2>3 DEF InOrder
<1>7. \A j \in 1..Len(w) : w[j] <= h[Len(h) - Len(w) + j]
  <2> SUFFICES ASSUME NEW j \in 1..Len(w)
               PROVE  w[j] <= h[Len(h) - Len(w) + j]
    OBVIOUS
  <2> DEFINE i == Len(events) - Len(w) + j
  <2>1. i \in 1..Len(events) /\ w[j] = events[i] /\ Len(h) - Len(events) + i = Len(h) - Len(w) + j
    BY <1>1, <1>2
  <2> HIDE DEF i
  <2>2. events[i] <= h[Len(h) - Len(events) + i]
    BY <2>1 DEF LastOnes
  <2> QED
    BY <2>1, <2>2
<1>8. PICK m \in Nat, n \in Nat : /\ m = Len(w) /\ n = Len(h) /\ m <= n
                                 /\ Len(ev) = m + 1 /\ Len(g) = n + 1
  BY <1>1, <1>2, <1>3, <1>4
<1>9. LastOnes(ev, g)
  <2>1. Len(ev) <= Len(g)
    BY <1>8
  <2>2. ASSUME NEW j \in 1..Len(ev)
        PROVE  ev[j] <= g[Len(g) - Len(ev) + j]
    <3>1. j \in Nat /\ 1 <= j /\ j <= m + 1 /\ Len(g) - Len(ev) + j = (n - m) + j
      BY <1>8
    <3>2. CASE j = m + 1
      <4>1. (n - m) + j = n + 1
        BY <3>2
      <4>2. ev[j] = now /\ g[(n - m) + j] = lockoutClock
        BY <1>3, <1>4, <1>8, <3>2, <4>1
      <4> QED
        BY <3>1, <4>2
    <3>3. CASE j # m + 1
      <4>1. j \in 1..m /\ (n - m) + j \in 1..n
        BY <1>8, <3>1, <3>3
      <4>2. ev[j] = w[j] /\ g[(n - m) + j] = h[(n - m) + j] /\ w[j] <= h[(n - m) + j]
        BY <1>3, <1>4, <1>7, <1>8, <4>1
      <4> QED
        BY <3>1, <4>2
    <3> QED
      BY <3>2, <3>3
  <2> QED
    BY <2>1, <2>2 DEF LastOnes
<1>10. ASSUME NEW k \in (Len(g) - Len(ev) + 1)..Len(g)
       PROVE  g[k] + LockoutWindow > now
  <2>1. k \in Nat /\ n - m + 1 <= k /\ k <= n + 1
    BY <1>8
  <2>2. CASE k = n + 1
    <3>1. g[k] = lockoutClock
      BY <1>4, <1>8, <2>2
    <3> QED
      BY <3>1 DEF LockoutParameters
  <2>3. CASE k # n + 1
    <3>0. m <= n /\ k <= n
      BY <1>8, <2>1, <2>3
    <3>1. k \in 1..n /\ m > 0 /\ 1 \in 1..m /\ n - m + 1 \in 1..n
      BY <2>1, <3>0, InTail
    <3>2. g[k] = h[k] /\ h[k] \in Nat /\ h[n - m + 1] \in Nat /\ h[n - m + 1] <= h[k]
      BY <1>4, <1>5, <1>8, <2>1, <3>1 DEF InOrder
    <3>3. w[1] <= h[Len(h) - Len(w) + 1]
      BY <1>7, <1>8, <3>1
    <3>4. w[1] \in Nat /\ w[1] <= h[n - m + 1] /\ Lockout!Elapsed(now, w[1]) < LockoutWindow
      <4>1. w[1] \in Nat
        BY <1>51, <1>8, <3>1
      <4>2. Lockout!Elapsed(now, w[1]) < LockoutWindow
        BY <1>1, <1>8, <3>1
      <4>3. w[1] <= h[n - m + 1]
        BY <1>8, <3>3
      <4> QED
        BY <4>1, <4>2, <4>3
    <3> QED
      BY <3>2, <3>4, StillRecent
  <2> QED
    BY <2>2, <2>3
<1> QED
  BY <1>3, <1>4, <1>6, <1>9, <1>10

\* A tail whose members are all recent is counted in full.
LEMMA TailCounts ==
  ASSUME NEW g \in Seq(Nat), NEW n \in Nat, n <= Len(g), NEW now \in Nat,
         \A k \in (Len(g) - n + 1)..Len(g) : g[k] + LockoutWindow > now
  PROVE  Cardinality(RecentEvents(g, now)) >= n
<1>1. Len(g) \in Nat
  OBVIOUS
<1> DEFINE T == (Len(g) - n + 1)..Len(g)
<1>2. IsFiniteSet(1..Len(g))
  BY <1>1, FS_Interval
<1>3. RecentEvents(g, now) \in SUBSET (1..Len(g))
  BY DEF RecentEvents
<1>4. IsFiniteSet(RecentEvents(g, now))
  BY <1>2, <1>3, FS_Subset
<1>5. T \in SUBSET RecentEvents(g, now)
  BY <1>1 DEF RecentEvents
<1>6. Cardinality(T) <= Cardinality(RecentEvents(g, now))
  BY <1>4, <1>5, FS_Subset
<1>7. Cardinality(T) = n
  BY <1>1, FS_Interval
<1> QED
  BY <1>4, <1>6, <1>7, FS_CardinalityType

-----------------------------------------------------------------------------
(* Tables                                                                  *)

\* A table in which some addresses were forgotten.
Reduced(tb) == /\ TableTyped(tb)
               /\ \A ip \in Addresses : tb[ip] = lockoutTable[ip] \/ tb[ip] = Lockout!Nobody

LEMMA NobodyTyped ==
  /\ Lockout!Nobody \in Activity /\ Lockout!Nobody.events = << >> /\ Lockout!Nobody.until = 0
  /\ Lockout!Nobody.known = FALSE /\ Lockout!Nobody.events \in Seq(Nat)
       /\ Len(Lockout!Nobody.events) = 0
BY DEF Lockout!Nobody, Activity

LEMMA ReducedSound ==
  ASSUME LockoutParameters, GuardInv, NEW tb, Reduced(tb)
  PROVE  /\ Lockout!Known(tb) \subseteq Lockout!Known(lockoutTable) /\ Bounded(tb)
         /\ \A ip \in Addresses : /\ tb[ip] \in Activity
                                  /\ LastOnes(tb[ip].events, lockoutHist[ip])
                                  /\ tb[ip].until # 0 => tb[ip] = lockoutTable[ip]
<1>1. Lockout!Known(tb) \subseteq Lockout!Known(lockoutTable)
  BY NobodyTyped DEF Lockout!Known, Reduced
<1>2. IsFiniteSet(Lockout!Known(lockoutTable)) /\ Cardinality(Lockout!Known(lockoutTable)) <= MaxIps
  BY DEF GuardInv, Bounded
<1>3. IsFiniteSet(Lockout!Known(tb)) /\ Cardinality(Lockout!Known(tb))
        <= Cardinality(Lockout!Known(lockoutTable))
  BY <1>1, <1>2, FS_Subset
<1>4. Cardinality(Lockout!Known(tb)) <= MaxIps
  <2>1. Cardinality(Lockout!Known(tb)) \in Nat /\ Cardinality(Lockout!Known(lockoutTable)) \in Nat
    BY <1>2, <1>3, FS_CardinalityType
  <2> QED
    BY <1>2, <1>3, <2>1 DEF LockoutParameters
<1>5. ASSUME NEW ip \in Addresses
      PROVE  LastOnes(tb[ip].events, lockoutHist[ip])
  <2>1. CASE tb[ip] = lockoutTable[ip]
    BY <2>1 DEF GuardInv
  <2>2. CASE tb[ip] = Lockout!Nobody
    <3>1. lockoutHist[ip] \in Seq(Nat)
      BY DEF GuardInv, LockoutTyped
    <3> QED
      BY <2>2, <3>1, NobodyTyped DEF LastOnes
  <2> QED
    BY <2>1, <2>2 DEF Reduced
<1>6. \A ip \in Addresses : tb[ip] \in Activity /\ (tb[ip].until # 0 => tb[ip] = lockoutTable[ip])
  BY NobodyTyped DEF Reduced, TableTyped
<1> QED
  BY <1>1, <1>3, <1>4, <1>5, <1>6 DEF Bounded

LEMMA TableReduced ==
  ASSUME GuardInv
  PROVE  Reduced(lockoutTable)
BY DEF GuardInv, LockoutTyped, Reduced

\* Forgetting one more address.
LEMMA ForgetReduces ==
  ASSUME NEW tb, Reduced(tb), NEW ip \in Addresses
  PROVE  Reduced([tb EXCEPT ![ip] = Lockout!Nobody])
<1> DEFINE t2 == [tb EXCEPT ![ip] = Lockout!Nobody]
<1>1. tb \in [Addresses -> Activity]
  BY DEF Reduced, TableTyped
<1>2. t2 \in [Addresses -> Activity]
  BY <1>1, NobodyTyped
<1>3. \A q \in Addresses : t2[q] = tb[q] \/ t2[q] = Lockout!Nobody
  BY <1>1
<1> HIDE DEF t2
<1>4. Reduced(t2)
  BY <1>2, <1>3 DEF Reduced, TableTyped
<1> QED
  BY <1>4 DEF t2

\* A cleanup keeps every lock that runs.
LEMMA CleanupReduces ==
  ASSUME GuardInv, NEW now
  PROVE  /\ Reduced(Lockout!Cleanup(lockoutTable, now))
         /\ \A ip \in Addresses : Lockout!Locked(lockoutTable, ip, now)
              => Lockout!Cleanup(lockoutTable, now)[ip] = lockoutTable[ip]
<1>1. lockoutTable \in [Addresses -> Activity]
  BY DEF GuardInv, LockoutTyped, TableTyped
<1>2. \A ip \in Addresses : /\ Lockout!Cleanup(lockoutTable, now)[ip] = lockoutTable[ip]
                                 \/ Lockout!Cleanup(lockoutTable, now)[ip] = Lockout!Nobody
                            /\ Lockout!Locked(lockoutTable, ip, now)
                                 => Lockout!Cleanup(lockoutTable, now)[ip] = lockoutTable[ip]
  BY DEF Lockout!Cleanup
<1>3. Lockout!Cleanup(lockoutTable, now) \in [Addresses -> Activity]
  BY <1>1, NobodyTyped DEF Lockout!Cleanup
<1> QED
  BY <1>2, <1>3 DEF Reduced, TableTyped

\* An expired lock goes; afterwards the address is locked now, or not at all.
LEMMA UnlockReduces ==
  ASSUME NEW tb, Reduced(tb), NEW ip \in Addresses, NEW now
  PROVE  /\ Reduced(Lockout!Unlock(tb, ip, now))
         /\ ~Lockout!Locked(tb, ip, now) => Lockout!Unlock(tb, ip, now)[ip].until = 0
         /\ \A q \in Addresses : q # ip \/ Lockout!Locked(tb, q, now)
              => Lockout!Unlock(tb, ip, now)[q] = tb[q]
<1>1. tb \in [Addresses -> Activity]
  BY DEF Reduced, TableTyped
<1>2. CASE tb[ip].until # 0 /\ ~Lockout!Locked(tb, ip, now)
  <2>1. Lockout!Unlock(tb, ip, now) = [tb EXCEPT ![ip] = Lockout!Nobody]
    BY <1>2 DEF Lockout!Unlock
  <2>2. Reduced(Lockout!Unlock(tb, ip, now))
    BY <2>1, ForgetReduces
  <2> QED
    BY <1>1, <1>2, <2>1, <2>2, NobodyTyped
<1>3. CASE ~(tb[ip].until # 0 /\ ~Lockout!Locked(tb, ip, now))
  BY <1>3 DEF Lockout!Unlock
<1> QED
  BY <1>2, <1>3

\* The event of an address for which there is room, and which is not locked.
LEMMA RecordKeeps ==
  ASSUME LockoutParameters, GuardInv, NEW tb, Reduced(tb), NEW ip \in Addresses, NEW now \in Nat,
         now <= lockoutClock, tb[ip].until = 0,
         tb[ip].known \/ Cardinality(Lockout!Known(tb)) < MaxIps,
         lockoutTable' = Lockout!Record(tb, ip, now),
         lockoutHist' = [lockoutHist EXCEPT ![ip] = Append(@, lockoutClock)],
         lockoutSince' = [lockoutSince EXCEPT ![ip] = IF Lockout!Locked(lockoutTable', ip, now)
           THEN now ELSE @],
         lockoutClock' = lockoutClock
  PROVE  /\ TableTyped(lockoutTable)' /\ Bounded(lockoutTable)'
         /\ lockoutHist' \in [Addresses -> Seq(Nat)] /\ lockoutSince' \in [Addresses -> Nat]
         /\ \A q \in Addresses : InOrder(lockoutHist[q])' /\ LastOnes(lockoutTable[q].events,
              lockoutHist[q])'
         /\ Lockout!LockEarned'
         /\ \A q \in Addresses : q # ip => lockoutTable'[q] = tb[q]
<1> DEFINE ev == Append(Lockout!InWindow(tb[ip].events, now), now)
           g == Append(lockoutHist[ip], lockoutClock)
           locks == Len(ev) >= Limit
           entry == IF locks
                    THEN [events |-> << >>, until |-> now + LockTime, seen |-> now, known |-> TRUE]
                    ELSE [events |-> ev, until |-> tb[ip].until, seen |-> now, known |-> TRUE]
<1>1. /\ lockoutClock \in Nat /\ lockoutHist \in [Addresses -> Seq(Nat)]
           /\ lockoutSince \in [Addresses -> Nat]
      /\ tb \in [Addresses -> Activity] /\ InOrder(lockoutHist[ip])
  BY DEF GuardInv, LockoutTyped, Reduced, TableTyped
<1>2. /\ Bounded(tb) /\ LastOnes(tb[ip].events, lockoutHist[ip]) /\ tb[ip] \in Activity
      /\ \A q \in Addresses : LastOnes(tb[q].events, lockoutHist[q]) /\ (tb[q].until # 0
           => tb[q] = lockoutTable[q])
  BY ReducedSound
<1>3. tb[ip].events \in Seq(Nat) /\ lockoutHist[ip] \in Seq(Nat)
  BY <1>1, <1>2 DEF Activity
<1>4. /\ ev \in Seq(Nat) /\ g \in Seq(Nat) /\ Len(g) = Len(lockoutHist[ip]) + 1
      /\ InOrder(g) /\ LastOnes(ev, g)
      /\ \A k \in (Len(g) - Len(ev) + 1)..Len(g) : g[k] + LockoutWindow > now
  BY <1>1, <1>2, <1>3, CountAligns
<1>5. lockoutTable' = [tb EXCEPT ![ip] = entry]
  BY DEF Lockout!Record
<1>6. lockoutHist' = [lockoutHist EXCEPT ![ip] = g]
  BY <1>1
<1>7. now + LockTime \in Nat /\ now + LockTime > now /\ now + LockTime # 0
  BY DEF LockoutParameters
<1>8. /\ entry \in Activity /\ entry.known = TRUE
      /\ entry.until = IF locks THEN now + LockTime ELSE 0
      /\ entry.events = IF locks THEN << >> ELSE ev
  BY <1>2, <1>4, <1>7 DEF Activity
<1> HIDE DEF ev, g, locks, entry
<1>9. /\ lockoutTable' \in [Addresses -> Activity] /\ lockoutTable'[ip] = entry
      /\ \A q \in Addresses : q # ip => lockoutTable'[q] = tb[q]
  BY <1>1, <1>5, <1>8
<1>10. lockoutHist' \in [Addresses -> Seq(Nat)] /\ lockoutHist'[ip] = g
         /\ \A q \in Addresses : q # ip => lockoutHist'[q] = lockoutHist[q]
  BY <1>1, <1>4, <1>6
<1>11. /\ lockoutSince' \in [Addresses -> Nat] /\ \A q \in Addresses : q # ip
            => lockoutSince'[q] = lockoutSince[q]
       /\ locks => lockoutSince'[ip] = now
  BY <1>1, <1>7, <1>8, <1>9 DEF Lockout!Locked
<1>12. Bounded(lockoutTable)'
  <2>1. Lockout!Known(lockoutTable') = Lockout!Known(tb) \cup {ip}
    BY <1>8, <1>9 DEF Lockout!Known
  <2>2. IsFiniteSet(Lockout!Known(tb)) /\ Cardinality(Lockout!Known(tb)) \in Nat
          /\ Cardinality(Lockout!Known(tb)) <= MaxIps
    BY <1>2, FS_CardinalityType DEF Bounded
  <2>3. /\ IsFiniteSet(Lockout!Known(tb) \cup {ip})
        /\ Cardinality(Lockout!Known(tb) \cup {ip}) = IF ip \in Lockout!Known(tb)
             THEN Cardinality(Lockout!Known(tb))
                                              ELSE Cardinality(Lockout!Known(tb)) + 1
    BY <2>2, FS_AddElement
  <2>4. ip \in Lockout!Known(tb) <=> tb[ip].known
    BY DEF Lockout!Known
  <2>5. Cardinality(Lockout!Known(tb) \cup {ip}) <= MaxIps
    BY <2>2, <2>3, <2>4 DEF LockoutParameters
  <2>6. Bounded(lockoutTable')
    BY <2>1, <2>3, <2>5 DEF Bounded
  <2> QED
    BY <2>6 DEF Bounded, Lockout!Known
<1>13. ASSUME NEW q \in Addresses
       PROVE  InOrder(lockoutHist[q])' /\ LastOnes(lockoutTable[q].events, lockoutHist[q])'
  <2>1. CASE q = ip
    <3>1. InOrder(lockoutHist'[q]) /\ LastOnes(lockoutTable'[q].events, lockoutHist'[q])
      <4>1. CASE locks
        <5>1. lockoutTable'[q].events = << >> /\ lockoutHist'[q] = g
          BY <1>8, <1>9, <1>10, <2>1, <4>1
        <5>2. LastOnes(<< >>, g)
          BY <1>4 DEF LastOnes
        <5> QED
          BY <1>4, <5>1, <5>2
      <4>2. CASE ~locks
        BY <1>4, <1>8, <1>9, <1>10, <2>1, <4>2
      <4> QED
        BY <4>1, <4>2
    <3> QED
      BY <3>1 DEF InOrder, LastOnes
  <2>2. CASE q # ip
    <3>1. InOrder(lockoutHist'[q]) /\ LastOnes(lockoutTable'[q].events, lockoutHist'[q])
      BY <1>2, <1>9, <1>10, <2>2 DEF GuardInv
    <3> QED
      BY <3>1 DEF InOrder, LastOnes
  <2> QED
    BY <2>1, <2>2
<1>14. Lockout!LockEarned'
  <2> SUFFICES ASSUME NEW q \in Addresses, lockoutTable'[q].until # 0
               PROVE  Cardinality(RecentEvents(lockoutHist'[q], lockoutSince'[q])) >= Limit
    BY LockoutCounts DEF Lockout!LockEarned, RecentEvents
  <2>1. CASE q = ip
    <3>1. locks
      BY <1>8, <1>9, <2>1
    <3>2. Len(ev) \in Nat /\ Len(ev) <= Len(g) /\ Len(ev) >= Limit
      BY <1>4, <3>1 DEF LastOnes, locks
    <3>3. Cardinality(RecentEvents(g, now)) >= Len(ev)
      BY <1>4, <3>2, TailCounts
    <3>4. RecentEvents(g, now) \in SUBSET (1..Len(g)) /\ Len(g) \in Nat
      BY <1>4 DEF RecentEvents
    <3>5. Cardinality(RecentEvents(g, now)) \in Nat
      <4>1. IsFiniteSet(1..Len(g))
        BY <3>4, FS_Interval
      <4>2. IsFiniteSet(RecentEvents(g, now))
        BY <3>4, <4>1, FS_Subset
      <4> QED
        BY <4>2, FS_CardinalityType
    <3>6. Cardinality(RecentEvents(g, now)) >= Limit
      BY <3>2, <3>3, <3>5 DEF LockoutParameters
    <3> QED
      BY <1>10, <1>11, <2>1, <3>1, <3>6
  <2>2. CASE q # ip
    <3>1. lockoutTable[q].until # 0 /\ lockoutHist'[q] = lockoutHist[q]
            /\ lockoutSince'[q] = lockoutSince[q]
      BY <1>2, <1>9, <1>10, <1>11, <2>2
    <3> QED
      BY LockoutCounts, <3>1 DEF GuardInv, Lockout!LockEarned, RecentEvents
  <2> QED
    BY <2>1, <2>2
<1>15. TableTyped(lockoutTable)'
  BY <1>9 DEF TableTyped
<1> QED
  BY <1>9, <1>10, <1>11, <1>12, <1>13, <1>14, <1>15

LEMMA CountKeeps ==
  ASSUME LockoutParameters, GuardInv, NEW tb, Reduced(tb), NEW ip \in Addresses, NEW now \in Nat,
         now <= lockoutClock, tb[ip].until = 0, Lockout!Count(tb, ip, now),
           lockoutClock' = lockoutClock
  PROVE  /\ TableTyped(lockoutTable)' /\ Bounded(lockoutTable)'
         /\ lockoutHist' \in [Addresses -> Seq(Nat)] /\ lockoutSince' \in [Addresses -> Nat]
         /\ \A q \in Addresses : InOrder(lockoutHist[q])' /\ LastOnes(lockoutTable[q].events,
              lockoutHist[q])'
         /\ Lockout!LockEarned'
         /\ \A q \in Addresses : q # ip => \/ lockoutTable'[q] = tb[q]
                                           \/ Lockout!Full(tb, ip) /\ q \in Lockout!Victims(tb)
<1>1. /\ lockoutHist' = [lockoutHist EXCEPT ![ip] = Append(@, lockoutClock)]
      /\ lockoutSince' = [lockoutSince EXCEPT ![ip] = IF Lockout!Locked(lockoutTable', ip, now)
           THEN now ELSE @]
  BY DEF Lockout!Count
<1>2. tb \in [Addresses -> Activity] /\ IsFiniteSet(Lockout!Known(tb))
        /\ Cardinality(Lockout!Known(tb)) <= MaxIps
  BY ReducedSound DEF Reduced, TableTyped, Bounded
<1>3. Cardinality(Lockout!Known(tb)) \in Nat
  BY <1>2, FS_CardinalityType
<1>4. ASSUME Lockout!Full(tb, ip), NEW v \in Lockout!Victims(tb),
        lockoutTable' = Lockout!Record([tb EXCEPT ![v] = Lockout!Nobody], ip, now)
      PROVE  /\ TableTyped(lockoutTable)' /\ Bounded(lockoutTable)'
             /\ lockoutHist' \in [Addresses -> Seq(Nat)] /\ lockoutSince' \in [Addresses -> Nat]
             /\ \A q \in Addresses : InOrder(lockoutHist[q])' /\ LastOnes(lockoutTable[q].events,
                  lockoutHist[q])'
             /\ Lockout!LockEarned'
             /\ \A q \in Addresses : q # ip => \/ lockoutTable'[q] = tb[q]
                                               \/ Lockout!Full(tb, ip) /\ q \in Lockout!Victims(tb)
  <2>1. v \in Addresses /\ tb[v].known
    BY <1>4 DEF Lockout!Victims, Lockout!Oldest, Lockout!Known
  <2>2. ~tb[ip].known /\ v # ip
    BY LockoutCounts, <1>4, <2>1 DEF Lockout!Full
  <2> DEFINE t2 == [tb EXCEPT ![v] = Lockout!Nobody]
  <2>3. Reduced(t2)
    BY <2>1, ForgetReduces
  <2>4. t2[ip] = tb[ip] /\ \A q \in Addresses : q # v => t2[q] = tb[q]
    BY <1>2, <2>2
  <2>5. t2[v] = Lockout!Nobody
    BY <1>2, <2>1
  <2> HIDE DEF t2
  <2>6. Lockout!Known(t2) = Lockout!Known(tb) \ {v} /\ v \in Lockout!Known(tb)
    BY <2>1, <2>4, <2>5, NobodyTyped DEF Lockout!Known
  <2>7. Cardinality(Lockout!Known(t2)) = Cardinality(Lockout!Known(tb)) - 1
    BY <1>2, <2>6, FS_RemoveElement
  <2>8. Cardinality(Lockout!Known(t2)) < MaxIps
    BY <1>2, <1>3, <2>7 DEF LockoutParameters
  <2>9. lockoutTable' = Lockout!Record(t2, ip, now) /\ t2[ip].until = 0
    BY <1>4, <2>4 DEF t2
  <2>10. /\ TableTyped(lockoutTable)' /\ Bounded(lockoutTable)'
         /\ lockoutHist' \in [Addresses -> Seq(Nat)] /\ lockoutSince' \in [Addresses -> Nat]
         /\ \A q \in Addresses : InOrder(lockoutHist[q])' /\ LastOnes(lockoutTable[q].events,
              lockoutHist[q])'
         /\ Lockout!LockEarned'
         /\ \A q \in Addresses : q # ip => lockoutTable'[q] = t2[q]
    BY <1>1, <2>3, <2>8, <2>9, RecordKeeps
  <2>11. \A q \in Addresses : q # ip => \/ lockoutTable'[q] = tb[q]
                                        \/ Lockout!Full(tb, ip) /\ q \in Lockout!Victims(tb)
    BY <1>4, <2>4, <2>10
  <2> QED
    BY <2>10, <2>11
<1>5. CASE ~Lockout!Full(tb, ip) /\ lockoutTable' = Lockout!Record(tb, ip, now)
  <2>1. tb[ip].known \/ Cardinality(Lockout!Known(tb)) < MaxIps
    BY LockoutCounts, <1>3, <1>5 DEF Lockout!Full, LockoutParameters
  <2> QED
    BY <1>1, <1>5, <2>1, RecordKeeps
<1> QED
  BY <1>4, <1>5 DEF Lockout!Count

-----------------------------------------------------------------------------
(* One lemma per group of actions                                          *)

\* A request that is answered, or goes on, keeps the time it read.
LEMMA RequestKeeps ==
  ASSUME GuardInv, NEW r \in Lockout!Req, lockoutClock' = lockoutClock,
         Lockout!Answered(r) \/ (lockoutReq[r].pc = "check"
           /\ lockoutReq' = [lockoutReq EXCEPT ![r].pc = "judge"])
  PROVE  /\ lockoutReq' \in [Lockout!Req -> [pc : {"new", "check", "judge", "done"},
                              ip : Addresses \cup {"none"}, now : Nat]]
         /\ ReadPast'
<1>1. lockoutReq \in [Lockout!Req -> [pc : {"new", "check", "judge", "done"},
                      ip : Addresses \cup {"none"}, now : Nat]]
  BY DEF GuardInv, LockoutTyped
<1>2. CASE Lockout!Answered(r)
  <2>1. lockoutReq' = [lockoutReq EXCEPT ![r] = [pc |-> "done", ip |-> "none", now |-> 0]]
    BY <1>2 DEF Lockout!Answered, Lockout!Fresh
  <2> QED
    BY <1>1, <2>1 DEF GuardInv, ReadPast
<1>3. CASE lockoutReq[r].pc = "check" /\ lockoutReq' = [lockoutReq EXCEPT ![r].pc = "judge"]
  <2>1. /\ lockoutReq'[r].ip = lockoutReq[r].ip /\ lockoutReq'[r].now = lockoutReq[r].now
        /\ \A q \in Lockout!Req : q # r => lockoutReq'[q] = lockoutReq[q]
    BY <1>1, <1>3
  <2>2. lockoutReq' \in [Lockout!Req -> [pc : {"new", "check", "judge", "done"},
                         ip : Addresses \cup {"none"}, now : Nat]]
    BY <1>1, <1>3
  <2>3. ReadPast'
    BY <1>3, <2>1 DEF GuardInv, ReadPast
  <2> QED
    BY <2>2, <2>3
<1> QED
  BY <1>2, <1>3

\* A step that at most forgets addresses.
LEMMA ForgettingKeeps ==
  ASSUME LockoutParameters, GuardInv, Reduced(lockoutTable'), UNCHANGED <<lockoutClock,
    lockoutHist, lockoutSince>>,
         lockoutCleaned' \in Nat, ReadPast',
         lockoutReq' \in [Lockout!Req -> [pc : {"new", "check", "judge", "done"},
                          ip : Addresses \cup {"none"}, now : Nat]]
  PROVE  GuardInv'
<1>1. /\ TableTyped(lockoutTable') /\ Bounded(lockoutTable')
      /\ \A ip \in Addresses : /\ LastOnes(lockoutTable'[ip].events, lockoutHist[ip])
                               /\ lockoutTable'[ip].until # 0
                                    => lockoutTable'[ip] = lockoutTable[ip]
  BY ReducedSound DEF Reduced
<1>2. LockoutTyped'
  BY <1>1 DEF GuardInv, LockoutTyped, TableTyped
<1>3. Bounded(lockoutTable)'
  BY <1>1 DEF Bounded, Lockout!Known
<1>4. \A ip \in Addresses : InOrder(lockoutHist[ip])' /\ LastOnes(lockoutTable[ip].events,
        lockoutHist[ip])'
  <2>1. ASSUME NEW ip \in Addresses
        PROVE  InOrder(lockoutHist[ip])'
    BY DEF GuardInv, InOrder
  <2>2. ASSUME NEW ip \in Addresses
        PROVE  LastOnes(lockoutTable[ip].events, lockoutHist[ip])'
    BY <1>1 DEF LastOnes
  <2> QED
    BY <2>1, <2>2
<1>5. Lockout!LockEarned'
  BY LockoutCounts, <1>1 DEF GuardInv, Lockout!LockEarned
<1> QED
  BY <1>2, <1>3, <1>4, <1>5 DEF GuardInv

LEMMA ArriveKeeps ==
  ASSUME LockoutParameters, GuardInv, NEW r \in Lockout!Req, Lockout!Arrive(r)
  PROVE  GuardInv'
<1>1. PICK ip \in Addresses : lockoutReq' = [lockoutReq EXCEPT ![r] = [pc |-> "check", ip |-> ip, now |-> lockoutClock]]
  BY DEF Lockout!Arrive
<1>2. UNCHANGED <<lockoutClock, lockoutTable, lockoutCleaned, lockoutHist, lockoutSince>>
  BY DEF Lockout!Arrive
<1>3. lockoutReq' \in [Lockout!Req -> [pc : {"new", "check", "judge", "done"},
                       ip : Addresses \cup {"none"}, now : Nat]]
  BY <1>1 DEF GuardInv, LockoutTyped
<1>4. ReadPast'
  BY <1>1, <1>2 DEF GuardInv, LockoutTyped, ReadPast
<1>5. Reduced(lockoutTable')
  BY <1>2, TableReduced
<1>6. lockoutCleaned' \in Nat
  BY <1>2 DEF GuardInv, LockoutTyped
<1> QED
  BY <1>2, <1>3, <1>4, <1>5, <1>6, ForgettingKeeps

LEMMA AdminCheckKeeps ==
  ASSUME LockoutParameters, GuardInv, NEW r \in Lockout!Req, Lockout!AdminCheck(r)
    \/ Lockout!NoCredential(r)
  PROVE  GuardInv'
<1>1. /\ UNCHANGED <<lockoutClock, lockoutCleaned, lockoutHist, lockoutSince>>
      /\ Lockout!Answered(r) \/ (lockoutReq[r].pc = "check"
           /\ lockoutReq' = [lockoutReq EXCEPT ![r].pc = "judge"])
  BY DEF Lockout!AdminCheck, Lockout!NoCredential
<1>2. lockoutReq[r].ip \in Addresses
  BY DEF Lockout!AdminCheck, Lockout!NoCredential, GuardInv, ReadPast
<1>3. lockoutTable' = lockoutTable \/ lockoutTable' = Lockout!Unlock(lockoutTable,
        lockoutReq[r].ip, lockoutReq[r].now)
  BY DEF Lockout!AdminCheck, Lockout!NoCredential
<1>4. Reduced(lockoutTable')
  BY <1>2, <1>3, TableReduced, UnlockReduces
<1>5. lockoutCleaned' \in Nat
  BY <1>1 DEF GuardInv, LockoutTyped
<1> QED
  BY <1>1, <1>4, <1>5, RequestKeeps, ForgettingKeeps

\* A correct credential forgets the address and its history.
LEMMA SucceededKeeps ==
  ASSUME LockoutParameters, GuardInv, NEW r \in Lockout!Req, Lockout!Succeeded(r)
  PROVE  GuardInv'
<1> DEFINE ip == lockoutReq[r].ip
<1>1. /\ lockoutTable' = [lockoutTable EXCEPT ![ip] = Lockout!Nobody]
           /\ lockoutHist' = [lockoutHist EXCEPT ![ip] = << >>]
      /\ Lockout!Answered(r) /\ UNCHANGED <<lockoutClock, lockoutCleaned, lockoutSince>>
  BY DEF Lockout!Succeeded
<1>2. ip \in Addresses
  BY DEF Lockout!Succeeded, GuardInv, ReadPast
<1>3. lockoutTable \in [Addresses -> Activity] /\ lockoutHist \in [Addresses -> Seq(Nat)]
  BY DEF GuardInv, LockoutTyped, TableTyped
<1> HIDE DEF ip
<1>4. Reduced(lockoutTable')
  BY <1>1, <1>2, TableReduced, ForgetReduces
<1>5. /\ TableTyped(lockoutTable') /\ Bounded(lockoutTable')
      /\ \A q \in Addresses : LastOnes(lockoutTable'[q].events, lockoutHist[q])
  BY <1>4, ReducedSound DEF Reduced
<1>6. << >> \in Seq(Nat)
  OBVIOUS
<1>7. /\ lockoutHist' \in [Addresses -> Seq(Nat)] /\ lockoutHist'[ip] = << >>
      /\ \A q \in Addresses : q # ip => lockoutHist'[q] = lockoutHist[q]
  BY <1>1, <1>2, <1>3, <1>6
<1>8. lockoutTable'[ip] = Lockout!Nobody /\ \A q \in Addresses : q # ip
        => lockoutTable'[q] = lockoutTable[q]
  BY <1>1, <1>2, <1>3
<1>9. LockoutTyped' /\ ReadPast'
  BY <1>1, <1>5, <1>7, RequestKeeps DEF GuardInv, LockoutTyped, TableTyped
<1>10. Bounded(lockoutTable)'
  BY <1>5 DEF Bounded, Lockout!Known
<1>11. ASSUME NEW q \in Addresses
       PROVE  InOrder(lockoutHist[q])' /\ LastOnes(lockoutTable[q].events, lockoutHist[q])'
  <2>1. InOrder(lockoutHist'[q]) /\ LastOnes(lockoutTable'[q].events, lockoutHist'[q])
    <3>1. CASE q = ip
      <4>1. InOrder(<< >>)
        BY DEF InOrder
      <4>2. LastOnes(<< >>, << >>)
        BY DEF LastOnes
      <4> QED
        BY <1>7, <1>8, <3>1, <4>1, <4>2, NobodyTyped
    <3>2. CASE q # ip
      BY <1>5, <1>7, <3>2 DEF GuardInv
    <3> QED
      BY <3>1, <3>2
  <2> QED
    BY <1>1, <2>1 DEF InOrder, LastOnes
<1>12. Lockout!LockEarned'
  <2> SUFFICES ASSUME NEW q \in Addresses, lockoutTable'[q].until # 0
               PROVE  Cardinality(RecentEvents(lockoutHist'[q], lockoutSince'[q])) >= Limit
    BY LockoutCounts DEF Lockout!LockEarned, RecentEvents
  <2>1. q # ip
    BY <1>8, NobodyTyped
  <2> QED
    BY LockoutCounts, <1>1, <1>7, <1>8, <2>1 DEF GuardInv, Lockout!LockEarned, RecentEvents
<1> QED
  BY <1>9, <1>10, <1>11, <1>12 DEF GuardInv

\* What failed() and the scanner's check start from: the table after the cleanup.
Cleaned(now) == IF Lockout!CleanupDue(now) THEN Lockout!Cleanup(lockoutTable, now) ELSE lockoutTable

LEMMA CleanedReduces ==
  ASSUME GuardInv, NEW now
  PROVE  /\ Reduced(Cleaned(now))
         /\ \A ip \in Addresses : Lockout!Locked(lockoutTable, ip, now)
              => Cleaned(now)[ip] = lockoutTable[ip]
BY TableReduced, CleanupReduces DEF Cleaned

\* failed() and the scanner's check, as one: answer, forget an expired lock, or count.
Answers(r) ==
  LET ip  == lockoutReq[r].ip
      now == lockoutReq[r].now
  IN  /\ lockoutReq[r].pc \in {"check", "judge"}
      /\ lockoutCleaned' \in {now, lockoutCleaned} /\ lockoutClock' = lockoutClock
           /\ Lockout!Answered(r)
      /\ \/ lockoutTable' = Cleaned(now) /\ UNCHANGED <<lockoutHist, lockoutSince>>
         \/ /\ ~Lockout!Locked(Cleaned(now), ip, now)
            /\ lockoutTable' = Lockout!Unlock(Cleaned(now), ip, now)
            /\ UNCHANGED <<lockoutHist, lockoutSince>>
         \/ /\ ~Lockout!Locked(Cleaned(now), ip, now)
            /\ Lockout!Count(Lockout!Unlock(Cleaned(now), ip, now), ip, now)

LEMMA BothAnswer ==
  ASSUME NEW r \in Lockout!Req, Lockout!Failed(r) \/ Lockout!ScannerCheck(r)
  PROVE  Answers(r)
<1>1. CASE Lockout!Failed(r)
  BY <1>1 DEF Lockout!Failed, Answers, Cleaned
<1>2. CASE Lockout!ScannerCheck(r)
  BY <1>2 DEF Lockout!ScannerCheck, Answers, Cleaned
<1> QED
  BY <1>1, <1>2

LEMMA AnswersKeep ==
  ASSUME LockoutParameters, GuardInv, NEW r \in Lockout!Req, Answers(r)
  PROVE  GuardInv'
<1> DEFINE ip == lockoutReq[r].ip
           now == lockoutReq[r].now
           tb == Cleaned(now)
           t2 == Lockout!Unlock(tb, ip, now)
<1>1. lockoutReq[r].pc \in {"check", "judge"} /\ lockoutCleaned' \in {now, lockoutCleaned}
        /\ lockoutClock' = lockoutClock /\ Lockout!Answered(r)
  BY DEF Answers
<1>2. ip \in Addresses /\ now \in Nat /\ now <= lockoutClock /\ lockoutCleaned \in Nat
  BY <1>1 DEF GuardInv, LockoutTyped, ReadPast
<1>3. Reduced(tb) /\ Reduced(t2) /\ (~Lockout!Locked(tb, ip, now) => t2[ip].until = 0)
  BY <1>2, CleanedReduces, UnlockReduces
<1>4. /\ lockoutReq' \in [Lockout!Req -> [pc : {"new", "check", "judge", "done"},
                           ip : Addresses \cup {"none"}, now : Nat]]
      /\ ReadPast' /\ lockoutCleaned' \in Nat
  BY <1>1, <1>2, RequestKeeps
<1>5. \/ lockoutTable' \in {tb, t2} /\ UNCHANGED <<lockoutHist, lockoutSince>>
      \/ ~Lockout!Locked(tb, ip, now) /\ Lockout!Count(t2, ip, now)
  BY DEF Answers
<1> HIDE DEF ip, now, tb, t2
<1>6. CASE lockoutTable' \in {tb, t2} /\ UNCHANGED <<lockoutHist, lockoutSince>>
  BY <1>1, <1>3, <1>4, <1>6, ForgettingKeeps
<1>7. CASE ~Lockout!Locked(tb, ip, now) /\ Lockout!Count(t2, ip, now)
  <2>1. /\ TableTyped(lockoutTable)' /\ Bounded(lockoutTable)'
        /\ lockoutHist' \in [Addresses -> Seq(Nat)] /\ lockoutSince' \in [Addresses -> Nat]
        /\ \A q \in Addresses : InOrder(lockoutHist[q])' /\ LastOnes(lockoutTable[q].events,
             lockoutHist[q])'
        /\ Lockout!LockEarned'
    BY <1>1, <1>2, <1>3, <1>7, CountKeeps
  <2>2. LockoutTyped'
    BY <1>1, <1>4, <2>1 DEF GuardInv, LockoutTyped
  <2> QED
    BY <1>4, <2>1, <2>2 DEF GuardInv
<1> QED
  BY <1>5, <1>6, <1>7

LEMMA TimeKeeps ==
  ASSUME LockoutParameters, GuardInv, Lockout!TimePasses
  PROVE  GuardInv'
<1>1. lockoutClock' = lockoutClock + 1 /\ UNCHANGED <<lockoutTable, lockoutCleaned, lockoutReq,
        lockoutHist, lockoutSince>>
  BY DEF Lockout!TimePasses
<1>2. LockoutTyped'
  BY <1>1 DEF GuardInv, LockoutTyped, TableTyped
<1>3. ReadPast'
  BY <1>1 DEF GuardInv, LockoutTyped, ReadPast
<1>4. Bounded(lockoutTable)' /\ Lockout!LockEarned'
  BY LockoutCounts, <1>1 DEF GuardInv, Bounded, Lockout!Known, Lockout!LockEarned
<1>5. ASSUME NEW q \in Addresses
      PROVE  InOrder(lockoutHist[q])' /\ LastOnes(lockoutTable[q].events, lockoutHist[q])'
  <2>1. lockoutClock \in Nat /\ lockoutHist[q] \in Seq(Nat) /\ InOrder(lockoutHist[q])
          /\ LastOnes(lockoutTable[q].events, lockoutHist[q])
    BY DEF GuardInv, LockoutTyped
  <2>2. LastOnes(lockoutTable[q].events, lockoutHist[q])'
    BY <1>1, <2>1 DEF LastOnes
  <2>3. \A k \in 1..Len(lockoutHist[q]) : lockoutHist[q][k] \in Nat /\ lockoutHist[q][k]
          <= lockoutClock'
    BY <1>1, <2>1 DEF InOrder
  <2>4. InOrder(lockoutHist[q])'
    BY <1>1, <2>1, <2>3 DEF InOrder
  <2> QED
    BY <2>2, <2>4
<1> QED
  BY <1>2, <1>3, <1>4, <1>5 DEF GuardInv

LEMMA GuardInit ==
  ASSUME LockoutParameters, Lockout!Init
  PROVE  GuardInv
<1>1. << >> \in Seq(Nat)
  OBVIOUS
<1>2. lockoutTable = [ip \in Addresses |-> Lockout!Nobody]
        /\ lockoutHist = [ip \in Addresses |-> << >>] /\ lockoutClock = 1
  BY DEF Lockout!Init
<1>3. LockoutTyped
  BY <1>1, <1>2, NobodyTyped DEF Lockout!Init, LockoutTyped, TableTyped, Lockout!Fresh
<1>4. ReadPast
  BY DEF Lockout!Init, ReadPast, Lockout!Fresh
<1>5. Lockout!Known(lockoutTable) = {}
  BY <1>2, NobodyTyped DEF Lockout!Known
<1>6. Bounded(lockoutTable)
  BY <1>5, FS_EmptySet DEF Bounded, LockoutParameters
<1>7. InOrder(<< >>) /\ LastOnes(<< >>, << >>)
  BY DEF InOrder, LastOnes
<1>8. Lockout!LockEarned
  BY LockoutCounts, <1>2, NobodyTyped DEF Lockout!LockEarned
<1> QED
  BY <1>2, <1>3, <1>4, <1>6, <1>7, <1>8, NobodyTyped DEF GuardInv

LEMMA GuardStep ==
  ASSUME LockoutParameters, GuardInv, [Lockout!Next]_Lockout!vars
  PROVE  GuardInv'
<1>1. ASSUME NEW r \in Lockout!Req, Lockout!Arrive(r)
      PROVE  GuardInv'
  BY <1>1, ArriveKeeps
<1>2. ASSUME NEW r \in Lockout!Req, Lockout!AdminCheck(r) \/ Lockout!NoCredential(r)
      PROVE  GuardInv'
  BY <1>2, AdminCheckKeeps
<1>3. ASSUME NEW r \in Lockout!Req, Lockout!Succeeded(r)
      PROVE  GuardInv'
  BY <1>3, SucceededKeeps
<1>4. ASSUME NEW r \in Lockout!Req, Lockout!Failed(r) \/ Lockout!ScannerCheck(r)
      PROVE  GuardInv'
  BY <1>4, BothAnswer, AnswersKeep
<1>5. CASE Lockout!TimePasses
  BY <1>5, TimeKeeps
<1>6. CASE UNCHANGED Lockout!vars
  BY <1>6 DEF Lockout!vars, GuardInv, LockoutTyped, TableTyped, ReadPast, Bounded,
     Lockout!Known, InOrder, LastOnes,
              Lockout!LockEarned
<1> QED
  BY <1>1, <1>2, <1>3, <1>4, <1>5, <1>6 DEF Lockout!Next

LEMMA GuardInvariant ==
  ASSUME LockoutParameters
  PROVE  Lockout!Spec => []GuardInv
<1>1. Lockout!Init => GuardInv
  BY GuardInit
<1>2. GuardInv /\ [Lockout!Next]_Lockout!vars => GuardInv'
  BY GuardStep
<1> QED
  BY <1>1, <1>2, PTL DEF Lockout!Spec

-----------------------------------------------------------------------------
(* What a lock survives                                                    *)

\* Room is made from a table without a running lock to spare only when every address
\* in it is locked: the cleanup before took nobody, or there would be room.
LEMMA EvictionOfLocked ==
  ASSUME LockoutParameters, GuardInv, NEW tb, Reduced(tb), NEW ip \in Addresses,
         NEW q \in Lockout!Victims(tb), Lockout!Full(tb, ip), tb[q].until # 0
  PROVE  \A o \in Lockout!Known(lockoutTable) : lockoutTable[o].until # 0
<1> DEFINE free == {p \in Lockout!Known(tb) : tb[p].until = 0}
<1>1. free = {}
  BY DEF Lockout!Victims, Lockout!Oldest
<1>2. \A o \in Lockout!Known(tb) : tb[o].until # 0
  BY <1>1
<1>3. /\ Lockout!Known(tb) \subseteq Lockout!Known(lockoutTable) /\ Bounded(tb)
      /\ \A p \in Addresses : tb[p].until # 0 => tb[p] = lockoutTable[p]
  BY ReducedSound
<1>4. IsFiniteSet(Lockout!Known(lockoutTable)) /\ Cardinality(Lockout!Known(lockoutTable)) <= MaxIps
  BY DEF GuardInv, Bounded
<1>5. Cardinality(Lockout!Known(tb)) >= MaxIps
  BY LockoutCounts DEF Lockout!Full
<1>6. Cardinality(Lockout!Known(tb)) <= Cardinality(Lockout!Known(lockoutTable))
  BY <1>3, <1>4, FS_Subset
<1>7. Cardinality(Lockout!Known(tb)) \in Nat /\ Cardinality(Lockout!Known(lockoutTable)) \in Nat
  BY <1>3, <1>4, FS_CardinalityType DEF Bounded
<1>8. Cardinality(Lockout!Known(lockoutTable)) = Cardinality(Lockout!Known(tb))
  BY <1>4, <1>5, <1>6, <1>7 DEF LockoutParameters
<1>9. Lockout!Known(lockoutTable) = Lockout!Known(tb)
  BY <1>3, <1>4, <1>8, FS_Subset
<1> QED
  BY <1>2, <1>3, <1>9 DEF Lockout!Known

LEMMA AnswersKeepLocks ==
  ASSUME LockoutParameters, GuardInv, NEW r \in Lockout!Req, Answers(r),
         NEW q \in Addresses, Lockout!Locked(lockoutTable, q, lockoutClock),
           ~Lockout!Locked(lockoutTable', q, lockoutClock)
  PROVE  \A o \in Lockout!Known(lockoutTable) \cup {q} : lockoutTable[o].until # 0
<1> DEFINE ip == lockoutReq[r].ip
           now == lockoutReq[r].now
           tb == Cleaned(now)
           t2 == Lockout!Unlock(tb, ip, now)
<1>1. lockoutReq[r].pc \in {"check", "judge"} /\ lockoutClock' = lockoutClock
  BY DEF Answers
<1>2. ip \in Addresses /\ now \in Nat /\ now <= lockoutClock /\ lockoutClock \in Nat
  BY <1>1 DEF GuardInv, LockoutTyped, ReadPast
<1>3. lockoutTable[q].until \in Nat /\ lockoutTable[q].until > lockoutClock
  BY DEF GuardInv, LockoutTyped, TableTyped, Activity, Lockout!Locked
<1>4. Lockout!Locked(lockoutTable, q, now)
  BY <1>2, <1>3 DEF Lockout!Locked
<1>5. Reduced(tb) /\ tb[q] = lockoutTable[q]
  BY <1>4, CleanedReduces
<1>6. Lockout!Locked(tb, q, now)
  BY <1>4, <1>5 DEF Lockout!Locked
<1>7. Reduced(t2) /\ t2[q] = lockoutTable[q] /\ (~Lockout!Locked(tb, ip, now) => t2[ip].until = 0)
  BY <1>2, <1>5, <1>6, UnlockReduces
<1>8. lockoutTable'[q] # lockoutTable[q]
  BY DEF Lockout!Locked
<1>9. lockoutTable' \in {tb, t2} \/ (~Lockout!Locked(tb, ip, now) /\ Lockout!Count(t2, ip, now))
  BY DEF Answers
<1> HIDE DEF ip, now, tb, t2
<1>10. ~Lockout!Locked(tb, ip, now) /\ Lockout!Count(t2, ip, now)
  BY <1>5, <1>7, <1>8, <1>9
<1>11. q # ip
  BY <1>6, <1>10
<1>12. lockoutTable'[q] = t2[q] \/ (Lockout!Full(t2, ip) /\ q \in Lockout!Victims(t2))
  BY <1>1, <1>2, <1>7, <1>10, <1>11, CountKeeps
<1>13. Lockout!Full(t2, ip) /\ q \in Lockout!Victims(t2)
  BY <1>7, <1>8, <1>12
<1>14. lockoutTable[q].until # 0 /\ t2[q].until # 0
  BY <1>2, <1>3, <1>7
<1>15. \A o \in Lockout!Known(lockoutTable) : lockoutTable[o].until # 0
  BY <1>2, <1>7, <1>13, <1>14, EvictionOfLocked
<1> QED
  BY <1>14, <1>15

LEMMA StepKeepsLocks ==
  ASSUME LockoutParameters, GuardInv, [Lockout!Next]_Lockout!vars
  PROVE  Lockout!KeepsLocks
<1> SUFFICES ASSUME NEW q \in Addresses, Lockout!Locked(lockoutTable, q, lockoutClock),
      ~Lockout!Locked(lockoutTable', q, lockoutClock)
             PROVE  \/ \E r \in Lockout!Req : lockoutReq[r].ip = q /\ Lockout!Succeeded(r)
                    \/ \A o \in Lockout!Known(lockoutTable) \cup {q} : lockoutTable[o].until # 0
  BY DEF Lockout!KeepsLocks
<1>1. lockoutTable'[q] # lockoutTable[q]
  BY DEF Lockout!Locked
<1>2. ASSUME NEW r \in Lockout!Req, Lockout!AdminCheck(r)
      PROVE  FALSE
  <2>1. lockoutReq[r].ip \in Addresses /\ lockoutReq[r].now \in Nat /\ lockoutReq[r].now
          <= lockoutClock /\ lockoutClock \in Nat
    BY <1>2 DEF Lockout!AdminCheck, GuardInv, LockoutTyped, ReadPast
  <2>2. lockoutTable[q].until \in Nat /\ lockoutTable[q].until > lockoutClock
    BY DEF GuardInv, LockoutTyped, TableTyped, Activity, Lockout!Locked
  <2>3. Lockout!Locked(lockoutTable, q, lockoutReq[r].now)
    BY <2>1, <2>2 DEF Lockout!Locked
  <2>4. lockoutTable'[q] = lockoutTable[q]
    BY <1>2, <2>1, <2>3, TableReduced, UnlockReduces DEF Lockout!AdminCheck
  <2> QED
    BY <1>1, <2>4
<1>3. ASSUME NEW r \in Lockout!Req, Lockout!Succeeded(r)
      PROVE  \E x \in Lockout!Req : lockoutReq[x].ip = q /\ Lockout!Succeeded(x)
  <2>1. lockoutTable' = [lockoutTable EXCEPT ![lockoutReq[r].ip] = Lockout!Nobody]
    BY <1>3 DEF Lockout!Succeeded
  <2>2. lockoutReq[r].ip = q
    BY <1>1, <2>1 DEF GuardInv, LockoutTyped, TableTyped
  <2> QED
    BY <1>3, <2>2
<1>4. ASSUME NEW r \in Lockout!Req, Lockout!Failed(r) \/ Lockout!ScannerCheck(r)
      PROVE  \A o \in Lockout!Known(lockoutTable) \cup {q} : lockoutTable[o].until # 0
  BY <1>4, BothAnswer, AnswersKeepLocks
<1>5. ASSUME NEW r \in Lockout!Req, Lockout!Arrive(r) \/ Lockout!NoCredential(r)
      PROVE  FALSE
  BY <1>1, <1>5 DEF Lockout!Arrive, Lockout!NoCredential
<1>6. CASE Lockout!TimePasses \/ UNCHANGED Lockout!vars
  BY <1>1, <1>6 DEF Lockout!TimePasses, Lockout!vars
<1> QED
  BY <1>2, <1>3, <1>4, <1>5, <1>6 DEF Lockout!Next

-----------------------------------------------------------------------------
(* Types: no time that is kept lies ahead of the clock                     *)

\* What the table keeps of an address was read by time t.
ReadBy(a, t) == /\ \A k \in 1..Len(a.events) : a.events[k] \in 1..t
                /\ a.until <= t + LockTime /\ a.seen <= t

Dated == /\ lockoutWhich \in Guards /\ lockoutClock \in 1..LockoutTime
              /\ lockoutCleaned \in 1..lockoutClock
         /\ \A ip \in Addresses : /\ ReadBy(lockoutTable[ip], lockoutClock)
                                  /\ \A k \in 1..Len(lockoutHist[ip]) : lockoutHist[ip][k] \in 1..lockoutClock
                                  /\ lockoutSince[ip] <= lockoutClock
         /\ \A r \in Lockout!Req : /\ lockoutReq[r].now <= lockoutClock
                                   /\ lockoutReq[r].pc \in {"check", "judge"}
                                        => lockoutReq[r].now # 0

LEMMA NobodyRead ==
  ASSUME NEW t \in Nat, LockoutParameters
  PROVE  ReadBy(Lockout!Nobody, t)
BY DEF Lockout!Nobody, ReadBy, LockoutParameters

LEMMA ReducedRead ==
  ASSUME LockoutParameters, GuardInv, Dated, NEW tb, Reduced(tb)
  PROVE  \A ip \in Addresses : ReadBy(tb[ip], lockoutClock)
<1>1. lockoutClock \in Nat
  BY DEF GuardInv, LockoutTyped
<1> QED
  BY <1>1, NobodyRead DEF Reduced, Dated

LEMMA ReadLater ==
  ASSUME LockoutParameters, NEW a \in Activity, NEW t \in Nat, ReadBy(a, t)
  PROVE  ReadBy(a, t + 1)
<1>1. \A k \in 1..Len(a.events) : a.events[k] \in 1..(t + 1)
  BY DEF ReadBy
<1>2. a.until <= (t + 1) + LockTime /\ a.seen <= t + 1
  BY DEF ReadBy, Activity, LockoutParameters
<1> QED
  BY <1>1, <1>2 DEF ReadBy

\* The counted event is as old as its request.
LEMMA RecordRead ==
  ASSUME LockoutParameters, NEW tb \in [Addresses -> Activity], NEW ip \in Addresses,
    NEW now \in Nat,
         NEW t \in Nat, now # 0, now <= t, \A q \in Addresses : ReadBy(tb[q], t)
  PROVE  \A q \in Addresses : ReadBy(Lockout!Record(tb, ip, now)[q], t)
<1> DEFINE old == tb[ip].events
           win == Lockout!InWindow(old, now)
           ev == Append(win, now)
           locked == [events |-> << >>, until |-> now + LockTime, seen |-> now, known |-> TRUE]
           open == [events |-> ev, until |-> tb[ip].until, seen |-> now, known |-> TRUE]
<1>1. old \in Seq(Nat) /\ tb[ip] \in Activity /\ ReadBy(tb[ip], t)
  BY DEF Activity
<1>2. /\ win \in Seq(Nat) /\ Len(win) <= Len(old)
      /\ \A j \in 1..Len(win) : win[j] = old[Len(old) - Len(win) + j]
  BY <1>1, InWindowSuffix
<1>3. \A j \in 1..Len(old) : old[j] \in 1..t
  BY <1>1 DEF ReadBy
<1> HIDE DEF old, win
<1>4. Len(win) \in Nat /\ Len(old) \in Nat
  BY <1>1, <1>2
<1>5. ASSUME NEW j \in 1..Len(win)
      PROVE  win[j] \in 1..t
  <2>1. Len(old) - Len(win) + j \in 1..Len(old)
    BY <1>2, <1>4
  <2> QED
    BY <1>2, <1>3, <2>1
<1>6. /\ Len(ev) = Len(win) + 1 /\ ev[Len(win) + 1] = now
      /\ \A j \in 1..Len(win) : ev[j] = win[j]
  BY <1>2
<1>7. \A j \in 1..Len(ev) : ev[j] \in 1..t
  <2> SUFFICES ASSUME NEW j \in 1..Len(ev) PROVE ev[j] \in 1..t
    OBVIOUS
  <2> HIDE DEF ev
  <2>1. CASE j = Len(win) + 1
    BY <1>6, <2>1
  <2>2. CASE j # Len(win) + 1
    <3>1. j \in 1..Len(win)
      BY <1>4, <1>6, <2>2
    <3> QED
      BY <1>5, <1>6, <3>1
  <2> QED
    BY <2>1, <2>2
<1>8. now + LockTime <= t + LockTime
  BY DEF LockoutParameters
<1> HIDE DEF ev
<1>9. ReadBy(open, t)
  BY <1>1, <1>7 DEF ReadBy
<1>10. ReadBy(locked, t)
  BY <1>8 DEF ReadBy
<1>11. \E e \in {locked, open} : Lockout!Record(tb, ip, now) = [tb EXCEPT ![ip] = e]
  BY DEF Lockout!Record, ev, win, old
<1>12. PICK e \in {locked, open} : Lockout!Record(tb, ip, now) = [tb EXCEPT ![ip] = e]
  BY <1>11
<1>13. ReadBy(e, t)
  BY <1>9, <1>10, <1>12
<1> HIDE DEF locked, open
<1>14. Lockout!Record(tb, ip, now)[ip] = e /\ \A q \in Addresses : q # ip
         => Lockout!Record(tb, ip, now)[q] = tb[q]
  BY <1>12
<1> QED
  BY <1>13, <1>14

LEMMA CountDated ==
  ASSUME LockoutParameters, GuardInv, Dated, NEW tb, Reduced(tb), NEW ip \in Addresses,
    NEW now \in Nat,
         now # 0, now <= lockoutClock, Lockout!Count(tb, ip, now)
  PROVE  \A q \in Addresses : /\ ReadBy(lockoutTable'[q], lockoutClock)
                              /\ \A k \in 1..Len(lockoutHist'[q]) : lockoutHist'[q][k] \in 1..lockoutClock
                              /\ lockoutSince'[q] <= lockoutClock
<1>0. lockoutClock \in Nat /\ lockoutClock \in 1..lockoutClock
        /\ lockoutHist \in [Addresses -> Seq(Nat)] /\ lockoutSince \in [Addresses -> Nat]
  BY DEF GuardInv, LockoutTyped
<1>1. ASSUME NEW q \in Addresses PROVE ReadBy(lockoutTable'[q], lockoutClock)
  <2>1. PICK t2 : Reduced(t2) /\ lockoutTable' = Lockout!Record(t2, ip, now)
    <3>1. CASE Lockout!Full(tb, ip)
      <4>1. PICK v \in Lockout!Victims(tb) : lockoutTable' = Lockout!Record([tb EXCEPT ![v] = Lockout!Nobody], ip, now)
        BY <3>1 DEF Lockout!Count
      <4>2. v \in Addresses
        BY DEF Lockout!Victims, Lockout!Oldest, Lockout!Known
      <4> QED
        BY <4>1, <4>2, ForgetReduces
    <3>2. CASE ~Lockout!Full(tb, ip)
      BY <3>2 DEF Lockout!Count
    <3> QED
      BY <3>1, <3>2
  <2>2. t2 \in [Addresses -> Activity] /\ \A o \in Addresses : ReadBy(t2[o], lockoutClock)
    BY <2>1, ReducedRead DEF Reduced, TableTyped
  <2> QED
    BY <1>0, <2>1, <2>2, RecordRead
<1>2. ASSUME NEW q \in Addresses PROVE \A k \in 1..Len(lockoutHist'[q]) : lockoutHist'[q][k] \in 1..lockoutClock
  <2>1. lockoutHist' = [lockoutHist EXCEPT ![ip] = Append(lockoutHist[ip], lockoutClock)]
    BY DEF Lockout!Count
  <2>2. lockoutHist[q] \in Seq(Nat) /\ \A k \in 1..Len(lockoutHist[q]) : lockoutHist[q][k] \in 1..lockoutClock
    BY <1>0 DEF Dated
  <2>3. CASE q # ip
    <3>1. lockoutHist'[q] = lockoutHist[q]
      BY <1>0, <2>1, <2>3
    <3> QED
      BY <2>2, <3>1
  <2>4. CASE q = ip
    <3>1. lockoutHist'[q] = Append(lockoutHist[q], lockoutClock)
      BY <1>0, <2>1, <2>4
    <3> QED
      BY <1>0, <2>2, <3>1
  <2> QED
    BY <2>3, <2>4
<1>3. ASSUME NEW q \in Addresses PROVE lockoutSince'[q] <= lockoutClock
  <2>1. lockoutSince' = [lockoutSince EXCEPT ![ip] = IF Lockout!Locked(lockoutTable', ip, now)
          THEN now ELSE @]
    BY DEF Lockout!Count
  <2>2. lockoutSince'[q] \in {lockoutSince[q], now}
    BY <1>0, <2>1
  <2> QED
    BY <2>2 DEF Dated
<1> QED
  BY <1>1, <1>2, <1>3

\* A request that steps keeps its time, or ends.
LEMMA RequestDated ==
  ASSUME GuardInv, Dated, NEW r \in Lockout!Req, lockoutClock' = lockoutClock,
         Lockout!Answered(r) \/ (lockoutReq[r].pc = "check"
           /\ lockoutReq' = [lockoutReq EXCEPT ![r].pc = "judge"])
  PROVE  \A q \in Lockout!Req : /\ lockoutReq'[q].now <= lockoutClock
                                /\ lockoutReq'[q].pc \in {"check", "judge"}
                                     => lockoutReq'[q].now # 0
<1>1. lockoutReq \in [Lockout!Req -> [pc : {"new", "check", "judge", "done"},
                      ip : Addresses \cup {"none"}, now : Nat]] /\ lockoutClock \in Nat
  BY DEF GuardInv, LockoutTyped
<1>2. CASE Lockout!Answered(r)
  <2>1. lockoutReq' = [lockoutReq EXCEPT ![r] = [pc |-> "done", ip |-> "none", now |-> 0]]
    BY <1>2 DEF Lockout!Answered, Lockout!Fresh
  <2> QED
    BY <1>1, <2>1 DEF Dated
<1>3. CASE lockoutReq[r].pc = "check" /\ lockoutReq' = [lockoutReq EXCEPT ![r].pc = "judge"]
  <2>1. /\ lockoutReq'[r].now = lockoutReq[r].now
        /\ \A q \in Lockout!Req : q # r => lockoutReq'[q] = lockoutReq[q]
    BY <1>1, <1>3
  <2> QED
    BY <1>3, <2>1 DEF Dated
<1> QED
  BY <1>2, <1>3

\* A step that at most forgets addresses.
LEMMA ForgettingDated ==
  ASSUME LockoutParameters, GuardInv, Dated, Reduced(lockoutTable'), UNCHANGED <<lockoutWhich,
    lockoutClock, lockoutHist, lockoutSince>>,
         lockoutCleaned' \in 1..lockoutClock,
         \A q \in Lockout!Req : /\ lockoutReq'[q].now <= lockoutClock
                                /\ lockoutReq'[q].pc \in {"check", "judge"}
                                     => lockoutReq'[q].now # 0
  PROVE  Dated'
<1>1. \A ip \in Addresses : ReadBy(lockoutTable'[ip], lockoutClock)
  BY ReducedRead
<1>2. lockoutWhich' \in Guards /\ lockoutClock' \in 1..LockoutTime
        /\ lockoutCleaned' \in 1..lockoutClock'
  BY DEF Dated
<1>3. \A q \in Lockout!Req : /\ lockoutReq'[q].now <= lockoutClock'
                             /\ lockoutReq'[q].pc \in {"check", "judge"} => lockoutReq'[q].now # 0
  OBVIOUS
<1>4. \A ip \in Addresses : /\ \A k \in 1..Len(lockoutHist'[ip]) : lockoutHist'[ip][k] \in 1..lockoutClock'
                            /\ lockoutSince'[ip] <= lockoutClock'
  BY DEF Dated
<1>5. \A ip \in Addresses : ReadBy(lockoutTable[ip], lockoutClock)'
  BY <1>1 DEF ReadBy
<1> QED
  BY <1>2, <1>3, <1>4, <1>5 DEF Dated

LEMMA RequestsStayDated ==
  ASSUME LockoutParameters, GuardInv, Dated, NEW r \in Lockout!Req,
         Lockout!Arrive(r) \/ Lockout!AdminCheck(r) \/ Lockout!NoCredential(r)
  PROVE  Dated'
<1>0. lockoutClock \in Nat /\ lockoutCleaned \in 1..lockoutClock
  BY DEF GuardInv, LockoutTyped, Dated
<1>1. CASE Lockout!Arrive(r)
  <2>1. PICK ip \in Addresses : lockoutReq' = [lockoutReq EXCEPT ![r] = [pc |-> "check", ip |-> ip, now |-> lockoutClock]]
    BY <1>1 DEF Lockout!Arrive
  <2>2. UNCHANGED <<lockoutWhich, lockoutClock, lockoutTable, lockoutCleaned, lockoutHist,
          lockoutSince>>
    BY <1>1 DEF Lockout!Arrive
  <2>3. \A q \in Lockout!Req : /\ lockoutReq'[q].now <= lockoutClock
                               /\ lockoutReq'[q].pc \in {"check", "judge"} => lockoutReq'[q].now # 0
    BY <1>0, <2>1 DEF GuardInv, LockoutTyped, Dated
  <2>4. Reduced(lockoutTable')
    BY <2>2, TableReduced
  <2>5. lockoutCleaned' \in 1..lockoutClock
    BY <1>0, <2>2
  <2> QED
    BY <2>2, <2>3, <2>4, <2>5, ForgettingDated
<1>2. CASE Lockout!AdminCheck(r) \/ Lockout!NoCredential(r)
  <2>1. /\ UNCHANGED <<lockoutWhich, lockoutClock, lockoutCleaned, lockoutHist, lockoutSince>>
        /\ Lockout!Answered(r) \/ (lockoutReq[r].pc = "check"
             /\ lockoutReq' = [lockoutReq EXCEPT ![r].pc = "judge"])
    BY <1>2 DEF Lockout!AdminCheck, Lockout!NoCredential
  <2>2. lockoutReq[r].ip \in Addresses
    BY <1>2 DEF Lockout!AdminCheck, Lockout!NoCredential, GuardInv, ReadPast
  <2>3. lockoutTable' = lockoutTable \/ lockoutTable' = Lockout!Unlock(lockoutTable,
          lockoutReq[r].ip, lockoutReq[r].now)
    BY <1>2 DEF Lockout!AdminCheck, Lockout!NoCredential
  <2>4. Reduced(lockoutTable')
    BY <2>2, <2>3, TableReduced, UnlockReduces
  <2>5. lockoutCleaned' \in 1..lockoutClock
    BY <1>0, <2>1
  <2> QED
    BY <2>1, <2>4, <2>5, RequestDated, ForgettingDated
<1> QED
  BY <1>1, <1>2

LEMMA SucceededDated ==
  ASSUME LockoutParameters, GuardInv, Dated, NEW r \in Lockout!Req, Lockout!Succeeded(r)
  PROVE  Dated'
<1> DEFINE ip == lockoutReq[r].ip
<1>1. /\ lockoutTable' = [lockoutTable EXCEPT ![ip] = Lockout!Nobody]
           /\ lockoutHist' = [lockoutHist EXCEPT ![ip] = << >>]
      /\ Lockout!Answered(r) /\ UNCHANGED <<lockoutWhich, lockoutClock, lockoutCleaned,
           lockoutSince>>
  BY DEF Lockout!Succeeded
<1>2. ip \in Addresses
  BY DEF Lockout!Succeeded, GuardInv, ReadPast
<1>3. lockoutHist \in [Addresses -> Seq(Nat)]
  BY DEF GuardInv, LockoutTyped
<1> HIDE DEF ip
<1>4. \A q \in Addresses : ReadBy(lockoutTable'[q], lockoutClock)
  BY <1>1, <1>2, TableReduced, ForgetReduces, ReducedRead
<1>5. \A q \in Addresses : lockoutHist'[q] = lockoutHist[q] \/ lockoutHist'[q] = << >>
  BY <1>1, <1>2, <1>3
<1>6. \A q \in Addresses : \A k \in 1..Len(lockoutHist'[q]) : lockoutHist'[q][k] \in 1..lockoutClock
  BY <1>5 DEF Dated
<1>7. \A q \in Lockout!Req : /\ lockoutReq'[q].now <= lockoutClock
                             /\ lockoutReq'[q].pc \in {"check", "judge"} => lockoutReq'[q].now # 0
  BY <1>1, RequestDated
<1>8. \A q \in Addresses : ReadBy(lockoutTable[q], lockoutClock)'
  BY <1>1, <1>4 DEF ReadBy
<1> QED
  BY <1>1, <1>6, <1>7, <1>8 DEF Dated

LEMMA AnswersDated ==
  ASSUME LockoutParameters, GuardInv, Dated, NEW r \in Lockout!Req, Answers(r),
    lockoutWhich' = lockoutWhich
  PROVE  Dated'
<1> DEFINE ip == lockoutReq[r].ip
           now == lockoutReq[r].now
           tb == Cleaned(now)
           t2 == Lockout!Unlock(tb, ip, now)
<1>1. lockoutReq[r].pc \in {"check", "judge"} /\ lockoutCleaned' \in {now, lockoutCleaned}
        /\ lockoutClock' = lockoutClock /\ Lockout!Answered(r)
  BY DEF Answers
<1>2. ip \in Addresses /\ now \in Nat /\ now <= lockoutClock /\ now # 0
        /\ lockoutCleaned \in 1..lockoutClock
  BY <1>1 DEF GuardInv, LockoutTyped, ReadPast, Dated
<1>3. Reduced(tb) /\ Reduced(t2) /\ (~Lockout!Locked(tb, ip, now) => t2[ip].until = 0)
  BY <1>2, CleanedReduces, UnlockReduces
<1>4. \A q \in Lockout!Req : /\ lockoutReq'[q].now <= lockoutClock
                             /\ lockoutReq'[q].pc \in {"check", "judge"} => lockoutReq'[q].now # 0
  BY <1>1, RequestDated
<1>5. \/ lockoutTable' \in {tb, t2} /\ UNCHANGED <<lockoutHist, lockoutSince>>
      \/ ~Lockout!Locked(tb, ip, now) /\ Lockout!Count(t2, ip, now)
  BY DEF Answers
<1>6. lockoutCleaned' \in 1..lockoutClock
  BY <1>1, <1>2
<1> HIDE DEF ip, now, tb, t2
<1>7. CASE lockoutTable' \in {tb, t2} /\ UNCHANGED <<lockoutHist, lockoutSince>>
  BY <1>1, <1>3, <1>4, <1>6, <1>7, ForgettingDated
<1>8. CASE ~Lockout!Locked(tb, ip, now) /\ Lockout!Count(t2, ip, now)
  <2>1. \A q \in Addresses : /\ ReadBy(lockoutTable'[q], lockoutClock)
                             /\ \A k \in 1..Len(lockoutHist'[q]) : lockoutHist'[q][k] \in 1..lockoutClock
                             /\ lockoutSince'[q] <= lockoutClock
    BY <1>2, <1>3, <1>8, CountDated
  <2>2. \A q \in Addresses : ReadBy(lockoutTable[q], lockoutClock)'
    BY <1>1, <2>1 DEF ReadBy
  <2>3. lockoutWhich \in Guards /\ lockoutClock \in 1..LockoutTime
    BY DEF Dated
  <2> QED
    BY <1>1, <1>4, <1>6, <2>1, <2>2, <2>3 DEF Dated
<1> QED
  BY <1>5, <1>7, <1>8

LEMMA TimeDated ==
  ASSUME LockoutParameters, GuardInv, Dated, Lockout!TimePasses
  PROVE  Dated'
<1>1. lockoutClock < LockoutTime /\ lockoutClock' = lockoutClock + 1 /\ UNCHANGED <<lockoutWhich,
        lockoutTable, lockoutCleaned, lockoutReq, lockoutHist, lockoutSince>>
  BY DEF Lockout!TimePasses
<1>2. lockoutClock \in Nat /\ lockoutTable \in [Addresses -> Activity]
        /\ lockoutSince \in [Addresses -> Nat]
  BY DEF GuardInv, LockoutTyped, TableTyped
<1>3. \A ip \in Addresses : ReadBy(lockoutTable[ip], lockoutClock + 1)
  BY <1>2, ReadLater DEF Dated
<1>4. \A ip \in Addresses : ReadBy(lockoutTable[ip], lockoutClock)'
  BY <1>1, <1>3 DEF ReadBy
<1>5. lockoutWhich' \in Guards /\ lockoutClock' \in 1..LockoutTime
        /\ lockoutCleaned' \in 1..lockoutClock'
  BY <1>1, <1>2 DEF Dated, LockoutParameters
<1>6. \A ip \in Addresses : /\ \A k \in 1..Len(lockoutHist'[ip]) : lockoutHist'[ip][k] \in 1..lockoutClock'
                            /\ lockoutSince'[ip] <= lockoutClock'
  BY <1>1, <1>2 DEF Dated
<1>7. \A r \in Lockout!Req : /\ lockoutReq'[r].now <= lockoutClock'
                             /\ lockoutReq'[r].pc \in {"check", "judge"} => lockoutReq'[r].now # 0
  BY <1>1, <1>2 DEF Dated, GuardInv, LockoutTyped
<1> QED
  BY <1>4, <1>5, <1>6, <1>7 DEF Dated

LEMMA DatedInit ==
  ASSUME LockoutParameters, Lockout!Init
  PROVE  Dated
<1>1. /\ lockoutWhich \in Guards /\ lockoutClock = 1 /\ lockoutCleaned = 1
           /\ lockoutTable = [ip \in Addresses |-> Lockout!Nobody]
      /\ lockoutReq = [r \in Lockout!Req |-> Lockout!Fresh("new")]
      /\ lockoutHist = [ip \in Addresses |-> << >>] /\ lockoutSince = [ip \in Addresses |-> 0]
  BY DEF Lockout!Init
<1>2. \A ip \in Addresses : ReadBy(lockoutTable[ip], lockoutClock)
  BY <1>1, NobodyRead
<1> QED
  BY <1>1, <1>2 DEF Dated, Lockout!Fresh, LockoutParameters

LEMMA DatedStep ==
  ASSUME LockoutParameters, GuardInv, Dated, [Lockout!Next]_Lockout!vars
  PROVE  Dated'
<1>1. ASSUME NEW r \in Lockout!Req, Lockout!Arrive(r) \/ Lockout!AdminCheck(r)
        \/ Lockout!NoCredential(r)
      PROVE  Dated'
  BY <1>1, RequestsStayDated
<1>2. ASSUME NEW r \in Lockout!Req, Lockout!Succeeded(r)
      PROVE  Dated'
  BY <1>2, SucceededDated
<1>3. ASSUME NEW r \in Lockout!Req, Lockout!Failed(r) \/ Lockout!ScannerCheck(r)
      PROVE  Dated'
  <2>1. lockoutWhich' = lockoutWhich
    BY <1>3 DEF Lockout!Failed, Lockout!ScannerCheck
  <2> QED
    BY <1>3, <2>1, BothAnswer, AnswersDated
<1>4. CASE Lockout!TimePasses
  BY <1>4, TimeDated
<1>5. CASE UNCHANGED Lockout!vars
  BY <1>5 DEF Lockout!vars, Dated, ReadBy
<1> QED
  BY <1>1, <1>2, <1>3, <1>4, <1>5 DEF Lockout!Next

\* A sequence of times is one of times up to now.
LEMMA TimesUpTo ==
  ASSUME NEW s \in Seq(Nat), NEW t \in Nat, \A k \in 1..Len(s) : s[k] \in 1..t
  PROVE  s \in Seq(1..t)
OBVIOUS

\* However many addresses a client comes from, a guard keeps at most MAX_IPS of them:
\* failed() and check() make room before they add one.
THEOREM TableStaysBounded ==
  ASSUME LockoutParameters
  PROVE  Lockout!Spec => []Lockout!TableBound
<1>1. GuardInv => Lockout!TableBound
  BY LockoutCounts DEF GuardInv, Bounded, Lockout!TableBound
<1> QED
  BY <1>1, GuardInvariant, PTL

\* No address is locked for less than LIMIT events of its own within a window, although
\* concurrent requests record their events late, out of the order of the times they
\* read, and although only the front of the queue is ever dropped.
THEOREM LocksAreEarned ==
  ASSUME LockoutParameters
  PROVE  Lockout!Spec => []Lockout!LockEarned
<1>1. GuardInv => Lockout!LockEarned
  BY DEF GuardInv
<1> QED
  BY <1>1, GuardInvariant, PTL

\* A running lock is cut short only by a correct credential of the same address, or when
\* the table is full and nothing but locked addresses are in it: cleanups, expired locks
\* and the failures of others leave it alone, whatever time their requests read.
THEOREM LocksAreKept ==
  ASSUME LockoutParameters
  PROVE  Lockout!Spec => Lockout!LockKept
<1>1. GuardInv /\ [Lockout!Next]_Lockout!vars => [Lockout!KeepsLocks]_Lockout!vars
  BY StepKeepsLocks
<1> QED
  BY <1>1, GuardInvariant, PTL DEF Lockout!LockKept, Lockout!Spec

\* No time a guard keeps, of an event, a lock, an address or a request, is later than the
\* clock, so that every window and every lock is measured from the past.
THEOREM GuardTypeCorrect ==
  ASSUME LockoutParameters
  PROVE  Lockout!Spec => []Lockout!TypeOK
<1>1. Lockout!Init => GuardInv /\ Dated
  BY GuardInit, DatedInit
<1>2. GuardInv /\ Dated /\ [Lockout!Next]_Lockout!vars => (GuardInv /\ Dated)'
  BY GuardStep, DatedStep
<1>3. GuardInv /\ Dated => Lockout!TypeOK
  <2> SUFFICES ASSUME GuardInv, Dated PROVE Lockout!TypeOK
    OBVIOUS
  <2>1. ASSUME NEW ip \in Addresses
        PROVE  /\ lockoutTable[ip].events \in Seq(1..lockoutClock)
               /\ lockoutTable[ip].until \in 0..(lockoutClock + LockTime)
               /\ lockoutTable[ip].seen \in 0..lockoutClock /\ lockoutTable[ip].known \in BOOLEAN
               /\ lockoutHist[ip] \in Seq(1..lockoutClock) /\ lockoutSince[ip] \in 0..lockoutClock
    <3>1. lockoutClock \in Nat /\ lockoutTable[ip] \in Activity /\ lockoutHist[ip] \in Seq(Nat)
            /\ lockoutSince[ip] \in Nat
      BY DEF GuardInv, LockoutTyped, TableTyped
    <3>2. /\ ReadBy(lockoutTable[ip], lockoutClock) /\ lockoutSince[ip] <= lockoutClock
          /\ \A k \in 1..Len(lockoutHist[ip]) : lockoutHist[ip][k] \in 1..lockoutClock
      BY DEF Dated
    <3>3. lockoutHist[ip] \in Seq(1..lockoutClock)
      BY <3>1, <3>2, TimesUpTo
    <3>4. lockoutTable[ip].events \in Seq(Nat) /\ \A k \in 1..Len(lockoutTable[ip].events) : lockoutTable[ip].events[k] \in 1..lockoutClock
      BY <3>1, <3>2 DEF Activity, ReadBy
    <3>5. lockoutTable[ip].events \in Seq(1..lockoutClock)
      BY <3>1, <3>4, TimesUpTo
    <3>6. lockoutTable[ip].until \in 0..(lockoutClock + LockTime)
            /\ lockoutTable[ip].seen \in 0..lockoutClock
      BY <3>1, <3>2 DEF Activity, ReadBy, LockoutParameters
    <3>7. lockoutTable[ip].known \in BOOLEAN
      BY <3>1 DEF Activity
    <3> QED
      BY <3>1, <3>2, <3>3, <3>5, <3>6, <3>7
  <2>2. lockoutReq \in [Lockout!Req -> [pc : {"new", "check", "judge", "done"},
                        ip : Addresses \cup {"none"}, now : 0..LockoutTime]]
    <3>1. lockoutReq \in [Lockout!Req -> [pc : {"new", "check", "judge", "done"},
                          ip : Addresses \cup {"none"}, now : Nat]]
      BY DEF GuardInv, LockoutTyped
    <3>2. \A r \in Lockout!Req : lockoutReq[r].now \in 0..LockoutTime
      BY <3>1 DEF Dated, LockoutParameters
    <3> QED
      BY <3>1, <3>2
  <2> QED
    BY <2>1, <2>2 DEF Dated, Lockout!TypeOK
<1> QED
  BY <1>1, <1>2, <1>3, PTL DEF Lockout!Spec

-----------------------------------------------------------------------------
(* AccountUptime                                                           *)

\* The window and the clock are in seconds.
UptimeParameters == Span \in Nat

EventRec == [at : Nat, active : BOOLEAN, ready : BOOLEAN, expires : Nat]

\* The clock never turns transitions round.
InTime(s) == \A k, l \in 1..Len(s) : k <= l => s[k].at <= s[l].at

\* s is what remains of the transitions h at time t: the last of them, and if any is
\* missing the first that remains has left the window as well.
Remains(s, h, t) ==
  /\ s \in Seq(EventRec) /\ Len(s) <= Len(h)
  /\ \A k \in 1..Len(s) : s[k] = h[Len(h) - Len(s) + k]
  /\ Len(h) > 0 => Len(s) > 0
  /\ Len(s) < Len(h) => s[1].at + Span < t

UptimeTyped ==
  /\ uptimeNow \in Nat /\ uptimeLatest \in Nat /\ uptimeNow <= uptimeLatest
  /\ uptimeState \in [active : BOOLEAN, ready : BOOLEAN, expires : Nat]
  /\ uptimeEvents \in Seq(EventRec) /\ uptimeStored \in Seq(EventRec)
       /\ uptimeTruth \in Seq(EventRec)
  /\ uptimeDbErrors \in Nat /\ uptimeRestarts \in Nat

\* A restart after a failed write forgets transitions, and with them their order.
UptimeInv == /\ UptimeTyped
             /\ uptimeDbErrors = 0 \/ uptimeRestarts = 0 => InTime(uptimeTruth)
                  /\ Remains(uptimeEvents, uptimeTruth, uptimeLatest)
             /\ uptimeDbErrors = 0 => Remains(uptimeStored, uptimeTruth, uptimeLatest)

\* A part of 1..n that contains all below any of its members is 1..m.
LEMMA Initial ==
  ASSUME NEW n \in Nat, NEW S \in SUBSET (1..n),
         \A k \in S : \A j \in 1..k : j \in S
  PROVE  \E m \in 0..n : S = 1..m
<1> DEFINE above == {u \in 0..n : \A s \in S : s <= u}
<1>1. PICK m \in above : \A u \in above : m <= u
  <2>1. above \in SUBSET Nat /\ n \in above
    OBVIOUS
  <2> HIDE DEF above
  <2> QED
    BY <2>1, LeastNat
<1>2. m \in 0..n /\ \A s \in S : s <= m
  BY <1>1
<1>3. m = 0 \/ m \in S
  <2> SUFFICES ASSUME m # 0, m \notin S PROVE FALSE
    OBVIOUS
  <2>1. m - 1 \in 0..n /\ \A s \in S : s <= m - 1
    BY <1>2
  <2>2. m - 1 \in above
    BY <2>1
  <2>3. m <= m - 1
    <3> HIDE DEF above
    <3> QED
      BY <1>1, <2>2
  <2> QED
    BY <1>2, <2>3
<1>4. S \subseteq 1..m
  BY <1>2
<1>5. 1..m \subseteq S
  BY <1>2, <1>3
<1> QED
  BY <1>2, <1>4, <1>5

LEMMA GreatestUpTo ==
  ASSUME NEW m \in Nat, m > 0
  PROVE  Uptime!Max(1..m) = m
<1>1. m \in 1..m /\ \A y \in 1..m : m >= y
  OBVIOUS
<1>2. Uptime!Max(1..m) \in 1..m /\ \A y \in 1..m : Uptime!Max(1..m) >= y
  BY <1>1 DEF Uptime!Max
<1> QED
  BY <1>1, <1>2

LEMMA TimesOf ==
  ASSUME NEW s \in Seq(EventRec)
  PROVE  Len(s) \in Nat /\ \A k \in 1..Len(s) : s[k] \in EventRec /\ s[k].at \in Nat
<1>1. Len(s) \in Nat /\ \A k \in 1..Len(s) : s[k] \in EventRec
  OBVIOUS
<1>2. \A e \in EventRec : e.at \in Nat
  BY DEF EventRec
<1> QED
  BY <1>1, <1>2

\* Pruning an ordered history drops transitions from before the last one that had left
\* the window, and never the last transition.
LEMMA PruneCuts ==
  ASSUME UptimeParameters, uptimeNow \in Nat, NEW s \in Seq(EventRec), InTime(s)
  PROVE  \E c \in Nat : /\ c = 0 \/ (c < Len(s) /\ s[c + 1].at + Span < uptimeNow)
                        /\ Uptime!Prune(s) \in Seq(EventRec) /\ Len(Uptime!Prune(s)) = Len(s) - c
                        /\ \A k \in 1..Len(Uptime!Prune(s)) : Uptime!Prune(s)[k] = s[c + k]
<1>0. Len(s) \in Nat /\ \A k \in 1..Len(s) : s[k] \in EventRec /\ s[k].at \in Nat
  BY TimesOf
<1>1. PICK m \in 0..Len(s) : Uptime!Old(s) = 1..m
  <2>1. Uptime!Old(s) \in SUBSET (1..Len(s))
    BY DEF Uptime!Old
  <2>2. \A k \in Uptime!Old(s) : \A j \in 1..k : j \in Uptime!Old(s)
    <3> SUFFICES ASSUME NEW k \in Uptime!Old(s), NEW j \in 1..k PROVE j \in Uptime!Old(s)
      OBVIOUS
    <3>1. k \in 1..Len(s) /\ j \in 1..Len(s) /\ s[k].at + Span < uptimeNow
      BY <1>0 DEF Uptime!Old
    <3>2. s[j].at <= s[k].at
      BY <1>0, <3>1 DEF InTime
    <3>3. s[j].at + Span < uptimeNow
      BY <1>0, <3>1, <3>2 DEF UptimeParameters
    <3> QED
      BY <3>1, <3>3 DEF Uptime!Old
  <2> QED
    BY <1>0, <2>1, <2>2, Initial
<1>2. Cardinality(Uptime!Old(s)) = m
  BY <1>0, <1>1, FS_Interval
<1>3. CASE m > 1
  <2>1. m \in Uptime!Old(s) /\ m \in 1..Len(s)
    BY <1>0, <1>1, <1>3
  <2>2. s[m].at + Span < uptimeNow
    BY <2>1 DEF Uptime!Old
  <2>3. Uptime!Prune(s) = SubSeq(s, m, Len(s))
    BY UptimeCounts, <1>2, <1>3 DEF Uptime!Prune
  <2>4. /\ SubSeq(s, m, Len(s)) \in Seq(EventRec) /\ Len(SubSeq(s, m, Len(s))) = Len(s) - m + 1
        /\ \A k \in 1..(Len(s) - m + 1) : SubSeq(s, m, Len(s))[k] = s[m + k - 1]
    BY <1>0, <2>1
  <2>5. m - 1 \in Nat /\ m - 1 < Len(s) /\ m - 1 + 1 = m /\ Len(s) - (m - 1) = Len(s) - m + 1
    BY <1>0, <2>1
  <2>6. \A k \in 1..(Len(s) - m + 1) : SubSeq(s, m, Len(s))[k] = s[(m - 1) + k]
    <3>1. \A k \in 1..(Len(s) - m + 1) : m + k - 1 = (m - 1) + k
      BY <1>0, <2>1
    <3> QED
      BY <2>4, <3>1
  <2> QED
    BY <2>2, <2>3, <2>4, <2>5, <2>6
<1>4. CASE ~(m > 1)
  <2>1. Uptime!Prune(s) = s
    BY UptimeCounts, <1>2, <1>4 DEF Uptime!Prune
  <2> QED
    BY <1>0, <2>1
<1> QED
  BY <1>3, <1>4

LEMMA RemainsInTime ==
  ASSUME NEW h \in Seq(EventRec), InTime(h), NEW t, NEW s, Remains(s, h, t)
  PROVE  InTime(s)
<1>0. Len(s) \in Nat /\ Len(h) \in Nat /\ Len(s) <= Len(h)
  BY DEF Remains
<1> SUFFICES ASSUME NEW k \in 1..Len(s), NEW l \in 1..Len(s), k <= l
             PROVE  s[k].at <= s[l].at
  BY DEF InTime
<1>1. s[k] = h[Len(h) - Len(s) + k] /\ s[l] = h[Len(h) - Len(s) + l]
  BY DEF Remains
<1>2. /\ Len(h) - Len(s) + k \in 1..Len(h) /\ Len(h) - Len(s) + l \in 1..Len(h)
      /\ Len(h) - Len(s) + k <= Len(h) - Len(s) + l
  BY <1>0
<1> QED
  BY <1>1, <1>2 DEF InTime

LEMMA PruneRemains ==
  ASSUME UptimeParameters, uptimeNow \in Nat, NEW t \in Nat, uptimeNow <= t,
    NEW h \in Seq(EventRec), InTime(h),
         NEW s, Remains(s, h, t)
  PROVE  Remains(Uptime!Prune(s), h, t)
<1>0. /\ uptimeNow \in Nat /\ t \in Nat /\ uptimeNow <= t /\ h \in Seq(EventRec)
      /\ s \in Seq(EventRec) /\ Len(s) \in Nat /\ Len(h) \in Nat /\ Len(s) <= Len(h)
      /\ Span \in Nat
  BY DEF Remains, UptimeParameters
<1>1. InTime(s)
  BY <1>0, RemainsInTime
<1>2. PICK c \in Nat : /\ c = 0 \/ (c < Len(s) /\ s[c + 1].at + Span < uptimeNow)
                       /\ Uptime!Prune(s) \in Seq(EventRec) /\ Len(Uptime!Prune(s)) = Len(s) - c
                       /\ \A k \in 1..Len(Uptime!Prune(s)) : Uptime!Prune(s)[k] = s[c + k]
  BY <1>0, <1>1, PruneCuts
<1> DEFINE p == Uptime!Prune(s)
<1>3. p \in Seq(EventRec) /\ Len(p) = Len(s) - c /\ \A k \in 1..Len(p) : p[k] = s[c + k]
  BY <1>2
<1> HIDE DEF p
<1>4. Len(p) \in Nat /\ Len(p) <= Len(h)
  BY <1>0, <1>2, <1>3
<1>5. \A k \in 1..Len(p) : p[k] = h[Len(h) - Len(p) + k]
  <2> SUFFICES ASSUME NEW k \in 1..Len(p) PROVE p[k] = h[Len(h) - Len(p) + k]
    OBVIOUS
  <2>1. c + k \in 1..Len(s) /\ Len(h) - Len(s) + (c + k) = Len(h) - Len(p) + k
    BY <1>0, <1>3, <1>4
  <2> QED
    BY <1>3, <2>1 DEF Remains
<1>6. Len(h) > 0 => Len(p) > 0
  BY <1>0, <1>2, <1>3 DEF Remains
<1>7. ASSUME Len(p) < Len(h) PROVE p[1].at + Span < t
  <2>1. Len(p) > 0 /\ 1 \in 1..Len(p)
    BY <1>0, <1>4, <1>6, <1>7
  <2>2. p[1] = s[c + 1] /\ p[1] \in EventRec
    BY <1>3, <2>1
  <2>3. CASE c = 0
    <3>1. Len(s) < Len(h)
      BY <1>0, <1>3, <1>7, <2>3
    <3> QED
      BY <2>2, <2>3, <3>1 DEF Remains
  <2>4. CASE c # 0
    <3>1. p[1].at + Span < uptimeNow /\ p[1].at \in Nat
      BY <1>2, <2>2, <2>4 DEF EventRec
    <3> QED
      BY <1>0, <3>1
  <2> QED
    BY <2>3, <2>4
<1> QED
  BY <1>3, <1>4, <1>5, <1>6, <1>7 DEF Remains, p

-----------------------------------------------------------------------------
(* What the timeline shows                                                 *)

\* The events that have passed by time t are the first of an ordered history.
LEMMA Passed ==
  ASSUME NEW s \in Seq(EventRec), InTime(s), NEW t \in Int
  PROVE  \E m \in 0..Len(s) :
           /\ {k \in 1..Len(s) : s[k].at <= t} = 1..m
           /\ {k \in 1..Len(s) : \A j \in 1..k : s[j].at <= t} = 1..m
<1>0. Len(s) \in Nat /\ \A k \in 1..Len(s) : s[k].at \in Nat
  BY TimesOf
<1> DEFINE before == {k \in 1..Len(s) : s[k].at <= t}
           passed == {k \in 1..Len(s) : \A j \in 1..k : s[j].at <= t}
<1>1. \A k \in before : \A j \in 1..k : j \in before
  <2> SUFFICES ASSUME NEW k \in before, NEW j \in 1..k PROVE j \in before
    OBVIOUS
  <2>1. k \in 1..Len(s) /\ j \in 1..Len(s) /\ s[k].at <= t
    BY <1>0
  <2>2. s[j].at <= s[k].at /\ s[j].at \in Nat /\ s[k].at \in Nat
    BY <1>0, <2>1 DEF InTime
  <2> QED
    BY <2>1, <2>2
<1>2. PICK m \in 0..Len(s) : before = 1..m
  <2>1. before \in SUBSET (1..Len(s))
    OBVIOUS
  <2> HIDE DEF before
  <2> QED
    BY <1>0, <1>1, <2>1, Initial
<1>3. passed = before
  <2>1. passed \subseteq before
    BY <1>0
  <2>2. before \subseteq passed
    <3> SUFFICES ASSUME NEW k \in before PROVE k \in passed
      OBVIOUS
    <3>1. \A j \in 1..k : j \in before
      BY <1>1
    <3> QED
      BY <3>1
  <2> QED
    BY <2>1, <2>2
<1> QED
  BY <1>2, <1>3

\* Every second of a walk over what remains shows what was observed, or had left the
\* window.
LEMMA WalkTrue ==
  ASSUME UptimeParameters, UptimeTyped, InTime(uptimeTruth), NEW s, Remains(s, uptimeTruth,
    uptimeLatest),
         NEW first,
         NEW t \in DOMAIN Uptime!Walk(s, first), t \in Int
  PROVE  \/ Uptime!Walk(s, first)[t] = Uptime!TrueStatus(t)
         \/ Uptime!Walk(s, first)[t] = "unknown" /\ t + Span < uptimeLatest
<1>0. /\ uptimeTruth \in Seq(EventRec) /\ s \in Seq(EventRec) /\ uptimeLatest \in Nat
           /\ Span \in Nat
      /\ Len(s) \in Nat /\ Len(uptimeTruth) \in Nat /\ Len(s) <= Len(uptimeTruth) /\ InTime(s)
  <2>1. uptimeTruth \in Seq(EventRec) /\ s \in Seq(EventRec) /\ Len(s) <= Len(uptimeTruth)
    BY DEF UptimeTyped, Remains
  <2>2. InTime(s)
    BY RemainsInTime DEF UptimeTyped
  <2>3. Len(s) \in Nat /\ Len(uptimeTruth) \in Nat
    BY <2>1
  <2> QED
    BY <2>1, <2>2, <2>3 DEF UptimeTyped, UptimeParameters
<1>1. PICK n \in 0..Len(uptimeTruth) :
        /\ {k \in 1..Len(uptimeTruth) : uptimeTruth[k].at <= t} = 1..n
        /\ {k \in 1..Len(uptimeTruth) : \A j \in 1..k : uptimeTruth[j].at <= t} = 1..n
  BY <1>0, Passed
<1>2. PICK m \in 0..Len(s) : /\ {k \in 1..Len(s) : s[k].at <= t} = 1..m
                             /\ {k \in 1..Len(s) : \A j \in 1..k : s[j].at <= t} = 1..m
  BY <1>0, Passed
<1>3. Uptime!Walk(s, first)[t] = IF m = 0 THEN "unknown" ELSE Uptime!StatusAt(s[m], t)
  <2>1. t \in first..(uptimeNow - 1)
    BY DEF Uptime!Walk
  <2>2. Uptime!Walk(s, first)[t] = IF 1..m = {} THEN "unknown"
          ELSE Uptime!StatusAt(s[Uptime!Max(1..m)], t)
    BY <1>2, <2>1 DEF Uptime!Walk
  <2>3. CASE m = 0
    BY <2>2, <2>3
  <2>4. CASE m # 0
    <3>1. m \in Nat /\ m > 0 /\ 1 \in 1..m
      BY <1>0, <2>4
    <3>2. Uptime!Max(1..m) = m
      BY <3>1, GreatestUpTo
    <3> QED
      BY <2>2, <2>4, <3>1, <3>2
  <2> QED
    BY <2>3, <2>4
<1>4. Uptime!TrueStatus(t) = IF n = 0 THEN "unknown" ELSE Uptime!StatusAt(uptimeTruth[n], t)
  <2>2. Uptime!TrueStatus(t) = IF 1..n = {} THEN "unknown"
          ELSE Uptime!StatusAt(uptimeTruth[Uptime!Max(1..n)], t)
    BY <1>1 DEF Uptime!TrueStatus
  <2>3. CASE n = 0
    BY <2>2, <2>3
  <2>4. CASE n # 0
    <3>1. n \in Nat /\ n > 0 /\ 1 \in 1..n
      BY <1>0, <2>4
    <3>2. Uptime!Max(1..n) = n
      BY <3>1, GreatestUpTo
    <3> QED
      BY <2>2, <2>4, <3>1, <3>2
  <2> QED
    BY <2>3, <2>4
<1> DEFINE d == Len(uptimeTruth) - Len(s)
<1>5. d \in Nat /\ \A k \in 1..Len(s) : s[k] = uptimeTruth[d + k] /\ d + k \in 1..Len(uptimeTruth)
  BY <1>0 DEF Remains
<1>6. d + Len(s) = Len(uptimeTruth)
  BY <1>0
<1> HIDE DEF d
<1>7. \A k \in 1..Len(uptimeTruth) : uptimeTruth[k].at <= t <=> k <= n
  BY <1>0, <1>1
<1>8. \A k \in 1..Len(s) : s[k].at <= t <=> k <= m
  BY <1>0, <1>2
<1>9. CASE m # 0
  <2>1. m \in 1..Len(s) /\ s[m] = uptimeTruth[d + m] /\ d + m \in 1..Len(uptimeTruth)
    BY <1>0, <1>5, <1>9
  <2>2. d + m <= n
    BY <1>7, <1>8, <2>1
  <2>3. n <= d + m
    <3> SUFFICES ASSUME n > d + m PROVE FALSE
      BY <1>0, <2>1
    <3>1. m + 1 \in 1..Len(s) /\ d + (m + 1) <= n
      BY <1>0, <1>5, <1>6, <2>1
    <3>2. s[m + 1] = uptimeTruth[d + (m + 1)] /\ d + (m + 1) \in 1..Len(uptimeTruth)
      BY <1>5, <3>1
    <3>3. s[m + 1].at <= t
      BY <1>7, <3>1, <3>2
    <3>4. m + 1 <= m
      BY <1>8, <3>1, <3>3
    <3> QED
      BY <2>1, <3>4
  <2>4. n = d + m
    BY <1>0, <1>5, <2>1, <2>2, <2>3
  <2> QED
    BY <1>3, <1>4, <1>9, <2>1, <2>4
<1>10. CASE m = 0 /\ n = 0
  BY <1>3, <1>4, <1>10
<1>11. CASE m = 0 /\ n # 0
  <2>1. n \in 1..Len(uptimeTruth) /\ Len(uptimeTruth) > 0 /\ Len(s) > 0 /\ 1 \in 1..Len(s)
    BY <1>0, <1>11 DEF Remains
  <2>2. ~(s[1].at <= t) /\ s[1].at \in Nat
    BY <1>0, <1>8, <1>11, <2>1, TimesOf
  <2>3. d # 0
    <3> SUFFICES ASSUME d = 0 PROVE FALSE
      OBVIOUS
    <3>1. s[1] = uptimeTruth[1] /\ 1 \in 1..Len(uptimeTruth)
      BY <1>5, <2>1
    <3> QED
      BY <1>7, <2>1, <2>2, <3>1
  <2>4. Len(s) < Len(uptimeTruth)
    BY <1>0, <1>5, <1>6, <2>3
  <2>5. s[1].at + Span < uptimeLatest
    BY <2>4 DEF Remains
  <2>6. t + Span < uptimeLatest
    BY <1>0, <2>2, <2>5
  <2> QED
    BY <1>3, <1>11, <2>6
<1> QED
  BY <1>9, <1>10, <1>11

-----------------------------------------------------------------------------
(* The steps of the history                                                *)

\* What remains, with the next transition.
LEMMA AppendRemains ==
  ASSUME NEW t \in Nat, NEW h \in Seq(EventRec), NEW s, Remains(s, h, t), NEW e \in EventRec
  PROVE  Remains(Append(s, e), Append(h, e), t)
<1> DEFINE a == Append(s, e)
           g == Append(h, e)
<1>0. /\ s \in Seq(EventRec) /\ Len(s) \in Nat /\ Len(h) \in Nat /\ Len(s) <= Len(h)
  BY DEF Remains
<1>1. /\ a \in Seq(EventRec) /\ Len(a) = Len(s) + 1 /\ a[Len(s) + 1] = e
      /\ \A k \in 1..Len(s) : a[k] = s[k]
  BY <1>0
<1>2. /\ Len(g) = Len(h) + 1 /\ g[Len(h) + 1] = e
      /\ \A k \in 1..Len(h) : g[k] = h[k]
  BY <1>0
<1> HIDE DEF a, g
<1>3. ASSUME NEW k \in 1..Len(a) PROVE a[k] = g[Len(g) - Len(a) + k]
  <2>1. CASE k = Len(s) + 1
    <3>1. Len(g) - Len(a) + k = Len(h) + 1
      BY <1>0, <1>1, <1>2, <2>1
    <3> QED
      BY <1>1, <1>2, <2>1, <3>1
  <2>2. CASE k # Len(s) + 1
    <3>1. /\ k \in 1..Len(s) /\ Len(h) - Len(s) + k \in 1..Len(h)
          /\ Len(g) - Len(a) + k = Len(h) - Len(s) + k
      BY <1>0, <1>1, <1>2, <2>2
    <3> QED
      BY <1>1, <1>2, <3>1 DEF Remains
  <2> QED
    BY <2>1, <2>2
<1>4. ASSUME Len(a) < Len(g) PROVE a[1].at + Span < t
  <2>1. Len(s) < Len(h)
    BY <1>0, <1>1, <1>2, <1>4
  <2>2. Len(s) > 0 /\ 1 \in 1..Len(s)
    BY <1>0, <2>1 DEF Remains
  <2> QED
    BY <1>1, <2>1, <2>2 DEF Remains
<1>5. a \in Seq(EventRec) /\ Len(a) <= Len(g) /\ Len(a) > 0
  BY <1>0, <1>1, <1>2
<1>6. Remains(a, g, t)
  BY <1>3, <1>4, <1>5 DEF Remains
<1> QED
  BY <1>6 DEF a, g

\* An observation is of its time, or of the last transition's when the clock is set back.
LEMMA EventTyped ==
  ASSUME UptimeTyped, NEW s \in Seq(EventRec)
  PROVE  /\ Uptime!Event(s) \in EventRec
         /\ Len(s) > 0 => s[Len(s)].at <= Uptime!Event(s).at
<1>0. uptimeNow \in Nat /\ Len(s) \in Nat
  BY DEF UptimeTyped
<1>1. Uptime!Stamp(s) \in Nat /\ (Len(s) > 0 => s[Len(s)].at <= Uptime!Stamp(s))
  <2>1. CASE s = << >>
    BY <1>0, <2>1 DEF Uptime!Stamp
  <2>2. CASE s # << >>
    <3>1. Len(s) \in 1..Len(s)
      BY <1>0, <2>2
    <3>2. s[Len(s)].at \in Nat
      BY <3>1, TimesOf
    <3>3. Uptime!Last(s) = s[Len(s)]
      BY DEF Uptime!Last
    <3> QED
      BY <1>0, <2>2, <3>2, <3>3 DEF Uptime!Stamp
  <2> QED
    BY <2>1, <2>2
<1>2. /\ Uptime!Snapshot.active \in BOOLEAN /\ Uptime!Snapshot.ready \in BOOLEAN
           /\ Uptime!Snapshot.expires \in Nat
  <2>1. uptimeState.active \in BOOLEAN /\ uptimeState.ready \in BOOLEAN
          /\ uptimeState.expires \in Nat
    BY DEF UptimeTyped
  <2> QED
    BY <2>1 DEF Uptime!Snapshot, Uptime!Never
<1>3. Uptime!Event(s) \in EventRec /\ Uptime!Event(s).at = Uptime!Stamp(s)
  BY <1>1, <1>2 DEF Uptime!Event, EventRec
<1> QED
  BY <1>1, <1>3

LEMMA AppendInTime ==
  ASSUME NEW h \in Seq(EventRec), InTime(h), NEW t, NEW s, Remains(s, h, t), NEW e \in EventRec,
         Len(s) > 0 => s[Len(s)].at <= e.at
  PROVE  InTime(Append(h, e))
<1> DEFINE g == Append(h, e)
<1>0. /\ s \in Seq(EventRec) /\ Len(s) \in Nat /\ Len(h) \in Nat /\ Len(s) <= Len(h)
  BY DEF Remains
<1>1. ASSUME NEW k \in 1..Len(h) PROVE h[k].at <= e.at
  <2>1. Len(s) > 0 /\ Len(s) \in 1..Len(s)
    BY <1>0 DEF Remains
  <2>2. Len(h) - Len(s) + Len(s) = Len(h) /\ Len(h) \in 1..Len(h) /\ k <= Len(h)
    BY <1>0
  <2>3. s[Len(s)] = h[Len(h)]
    BY <2>1, <2>2 DEF Remains
  <2>4. h[k].at <= h[Len(h)].at
    BY <2>2 DEF InTime
  <2>5. h[k].at \in Nat /\ h[Len(h)].at \in Nat /\ e.at \in Nat
    BY <2>2, TimesOf DEF EventRec
  <2> QED
    BY <2>1, <2>3, <2>4, <2>5
<1>2. /\ Len(g) = Len(h) + 1 /\ g[Len(h) + 1] = e
      /\ \A k \in 1..Len(h) : g[k] = h[k]
  BY <1>0
<1> HIDE DEF g
<1>3. ASSUME NEW k \in 1..Len(g), NEW l \in 1..Len(g), k <= l
      PROVE  g[k].at <= g[l].at
  <2>1. CASE l # Len(h) + 1
    <3>1. k \in 1..Len(h) /\ l \in 1..Len(h)
      BY <1>0, <1>2, <1>3, <2>1
    <3> QED
      BY <1>2, <1>3, <3>1 DEF InTime
  <2>2. CASE l = Len(h) + 1 /\ k # l
    <3>1. k \in 1..Len(h)
      BY <1>0, <1>2, <2>2
    <3> QED
      BY <1>1, <1>2, <2>2, <3>1
  <2>3. CASE l = Len(h) + 1 /\ k = l
    <3>1. e.at <= e.at
      BY DEF EventRec
    <3> QED
      BY <1>2, <2>3, <3>1
  <2> QED
    BY <2>1, <2>2, <2>3
<1>4. InTime(g)
  BY <1>3 DEF InTime
<1> QED
  BY <1>4 DEF g

LEMMA PruneTyped ==
  ASSUME NEW s \in Seq(EventRec)
  PROVE  Uptime!Prune(s) \in Seq(EventRec)
<1>0. Len(s) \in Nat
  OBVIOUS
<1>1. Uptime!Old(s) \in SUBSET (1..Len(s))
  BY DEF Uptime!Old
<1>2. IsFiniteSet(1..Len(s)) /\ Cardinality(1..Len(s)) = Len(s)
  BY <1>0, FS_Interval
<1>3. Cardinality(Uptime!Old(s)) \in Nat /\ Cardinality(Uptime!Old(s)) <= Len(s)
  BY <1>1, <1>2, FS_Subset, FS_CardinalityType
<1>4. CASE Cardinality(Uptime!Old(s)) > 1
  <2> DEFINE c == Cardinality(Uptime!Old(s))
  <2>1. c \in Nat /\ c > 1 /\ c <= Len(s) /\ Uptime!Prune(s) = SubSeq(s, c, Len(s))
    BY UptimeCounts, <1>3, <1>4 DEF Uptime!Prune
  <2> HIDE DEF c
  <2>2. SubSeq(s, c, Len(s)) \in Seq(EventRec)
    BY <1>0, <2>1
  <2> QED
    BY <2>1, <2>2
<1>5. CASE ~(Cardinality(Uptime!Old(s)) > 1)
  BY UptimeCounts, <1>5 DEF Uptime!Prune
<1> QED
  BY <1>4, <1>5

\* An observation on a history and a table that remain.
LEMMA ObservedKeeps ==
  ASSUME UptimeParameters, UptimeInv, NEW s \in Seq(EventRec), NEW tb \in Seq(EventRec),
         Uptime!Observed(s, tb), UNCHANGED <<uptimeNow, uptimeState, uptimeLatest>>,
           uptimeRestarts' \in Nat,
         uptimeRestarts' = 0 => uptimeRestarts = 0,
         uptimeDbErrors = 0 => Remains(tb, uptimeTruth, uptimeLatest),
         uptimeDbErrors = 0 \/ uptimeRestarts' = 0 => Remains(s, uptimeTruth, uptimeLatest)
  PROVE  UptimeInv'
<1> DEFINE p == Uptime!Prune(s)
           e == Uptime!Event(p)
           sound == uptimeDbErrors = 0 \/ uptimeRestarts' = 0
<1>0. UptimeTyped /\ p \in Seq(EventRec)
  BY PruneTyped DEF UptimeInv
<1>a. /\ uptimeTruth \in Seq(EventRec) /\ uptimeNow \in Nat /\ uptimeLatest \in Nat /\ uptimeNow
           <= uptimeLatest
      /\ uptimeDbErrors \in Nat
  BY <1>0 DEF UptimeTyped
<1>b. e \in EventRec /\ (Len(p) > 0 => p[Len(p)].at <= e.at)
  <2> HIDE DEF p
  <2> QED
    BY <1>0, EventTyped
<1>1. sound => InTime(uptimeTruth) /\ Remains(p, uptimeTruth, uptimeLatest)
  <2> SUFFICES ASSUME sound PROVE InTime(uptimeTruth) /\ Remains(p, uptimeTruth, uptimeLatest)
    OBVIOUS
  <2>1. InTime(uptimeTruth) /\ Remains(s, uptimeTruth, uptimeLatest)
    BY DEF UptimeInv
  <2> QED
    BY <1>a, <2>1, PruneRemains
<1>2. CASE uptimeEvents' = p /\ uptimeStored' = tb /\ UNCHANGED <<uptimeTruth, uptimeDbErrors>>
  <2> HIDE DEF p, e
  <2>1. UptimeTyped'
    BY <1>0, <1>2 DEF UptimeTyped
  <2>2. uptimeDbErrors' = 0 \/ uptimeRestarts' = 0 => InTime(uptimeTruth')
          /\ Remains(uptimeEvents', uptimeTruth', uptimeLatest')
    BY <1>1, <1>2
  <2>3. uptimeDbErrors' = 0 => Remains(uptimeStored', uptimeTruth', uptimeLatest')
    BY <1>2
  <2> QED
    BY <2>1, <2>2, <2>3 DEF UptimeInv, InTime, Remains
<1>3. CASE /\ uptimeEvents' = Append(p, e) /\ uptimeTruth' = Append(uptimeTruth, e)
           /\ \/ uptimeStored' = Uptime!Inserted(tb, e) /\ UNCHANGED uptimeDbErrors
              \/ uptimeDbErrors' = uptimeDbErrors + 1 /\ uptimeStored' = tb
  <2> HIDE DEF p, e
  <2>1. /\ Append(tb, e) \in Seq(EventRec) /\ Append(p, e) \in Seq(EventRec)
        /\ Append(uptimeTruth, e) \in Seq(EventRec)
    BY <1>0, <1>a, <1>b
  <2>2. UptimeTyped'
    <3>1. uptimeStored' \in Seq(EventRec)
      BY <1>3, <2>1, PruneTyped DEF Uptime!Inserted
    <3>2. uptimeDbErrors' \in Nat
      BY <1>a, <1>3
    <3> QED
      BY <1>0, <1>3, <2>1, <3>1, <3>2 DEF UptimeTyped
  <2>3. uptimeDbErrors' = 0 => uptimeDbErrors = 0 /\ uptimeStored' = Uptime!Inserted(tb, e)
    BY <1>a, <1>3
  <2>4. sound => InTime(Append(uptimeTruth, e))
    BY <1>a, <1>b, <1>1, AppendInTime
  <2>5. uptimeDbErrors' = 0 \/ uptimeRestarts' = 0 => InTime(uptimeTruth')
          /\ Remains(uptimeEvents', uptimeTruth', uptimeLatest')
    <3> SUFFICES ASSUME uptimeDbErrors' = 0 \/ uptimeRestarts' = 0
                 PROVE  InTime(uptimeTruth') /\ Remains(uptimeEvents', uptimeTruth', uptimeLatest')
      OBVIOUS
    <3>1. sound
      BY <2>3
    <3>2. Remains(Append(p, e), Append(uptimeTruth, e), uptimeLatest)
      BY <1>a, <1>b, <1>1, <3>1, AppendRemains
    <3> QED
      BY <1>3, <2>4, <3>1, <3>2
  <2>6. uptimeDbErrors' = 0 => Remains(uptimeStored', uptimeTruth', uptimeLatest')
    <3> SUFFICES ASSUME uptimeDbErrors' = 0 PROVE Remains(uptimeStored', uptimeTruth',
          uptimeLatest')
      OBVIOUS
    <3>1. Remains(tb, uptimeTruth, uptimeLatest) /\ uptimeStored' = Uptime!Prune(Append(tb, e))
            /\ sound
      BY <2>3 DEF Uptime!Inserted
    <3>2. Remains(Append(tb, e), Append(uptimeTruth, e), uptimeLatest)
      BY <1>a, <1>b, <3>1, AppendRemains
    <3>3. Remains(Uptime!Prune(Append(tb, e)), Append(uptimeTruth, e), uptimeLatest)
      BY <1>a, <2>1, <2>4, <3>1, <3>2, PruneRemains
    <3> QED
      BY <1>3, <3>1, <3>3
  <2> QED
    BY <2>2, <2>5, <2>6 DEF UptimeInv, InTime, Remains
<1> QED
  BY <1>2, <1>3 DEF Uptime!Observed

LEMMA UptimeInit ==
  ASSUME Uptime!Init, UptimeParameters
  PROVE  UptimeInv
<1>1. << >> \in Seq(EventRec)
  OBVIOUS
<1>2. UptimeTyped
  BY <1>1 DEF Uptime!Init, UptimeTyped, Uptime!Start, Uptime!Never, UptimeParameters
<1>3. InTime(<< >>) /\ Remains(<< >>, << >>, uptimeLatest)
  BY <1>1 DEF InTime, Remains
<1> QED
  BY <1>2, <1>3 DEF Uptime!Init, UptimeInv

LEMMA UptimeStep ==
  ASSUME UptimeParameters, UptimeInv, [Uptime!Next]_Uptime!vars
  PROVE  UptimeInv'
<1>0. UptimeTyped
  BY DEF UptimeInv
<1>1. CASE UNCHANGED <<uptimeEvents, uptimeStored, uptimeTruth, uptimeDbErrors, uptimeRestarts>>
        /\ uptimeLatest' \in Nat
           /\ uptimeLatest <= uptimeLatest' /\ uptimeNow' \in Nat /\ uptimeNow' <= uptimeLatest'
           /\ uptimeState' \in [active : BOOLEAN, ready : BOOLEAN, expires : Nat]
  <2>1. UptimeTyped'
    BY <1>0, <1>1 DEF UptimeTyped
  <2>2. ASSUME NEW s, Remains(s, uptimeTruth, uptimeLatest) PROVE Remains(s, uptimeTruth,
          uptimeLatest')
    <3>1. ASSUME Len(s) < Len(uptimeTruth) PROVE s[1].at + Span < uptimeLatest'
      <4>1. s \in Seq(EventRec) /\ s[1].at + Span < uptimeLatest /\ Len(s) > 0
              /\ Len(uptimeTruth) \in Nat
            /\ Len(s) \in Nat
        BY <1>0, <2>2, <3>1 DEF Remains, UptimeTyped
      <4>2. 1 \in 1..Len(s)
        BY <4>1
      <4>3. s[1].at \in Nat
        BY <4>1, <4>2, TimesOf
      <4> QED
        BY <1>0, <1>1, <4>1, <4>3 DEF UptimeParameters, UptimeTyped
    <3> QED
      BY <2>2, <3>1 DEF Remains
  <2>3. uptimeDbErrors' = 0 \/ uptimeRestarts' = 0 => InTime(uptimeTruth')
          /\ Remains(uptimeEvents', uptimeTruth', uptimeLatest')
    BY <1>1, <2>2 DEF UptimeInv
  <2>4. uptimeDbErrors' = 0 => Remains(uptimeStored', uptimeTruth', uptimeLatest')
    BY <1>1, <2>2 DEF UptimeInv
  <2> QED
    BY <2>1, <2>3, <2>4 DEF UptimeInv, InTime, Remains
<1>2. CASE Uptime!StateChanges
  <2>1. /\ UNCHANGED <<uptimeNow, uptimeEvents, uptimeStored, uptimeTruth, uptimeLatest,
             uptimeDbErrors, uptimeRestarts>>
        /\ \E a, r \in BOOLEAN, x \in {uptimeNow + 1, uptimeNow + Span} :
             uptimeState' = [active |-> a, ready |-> r, expires |-> IF r THEN x ELSE Uptime!Never]
    BY <1>2 DEF Uptime!StateChanges
  <2>2. uptimeState' \in [active : BOOLEAN, ready : BOOLEAN, expires : Nat]
    BY <1>0, <2>1 DEF Uptime!Never, UptimeTyped, UptimeParameters
  <2>3. uptimeLatest' \in Nat /\ uptimeLatest <= uptimeLatest' /\ uptimeNow' \in Nat
          /\ uptimeNow' <= uptimeLatest'
    BY <1>0, <2>1 DEF UptimeTyped
  <2> QED
    BY <1>1, <2>1, <2>2, <2>3
<1>3. CASE Uptime!ObserveUptime
  <2>1. Uptime!Observed(uptimeEvents, uptimeStored) /\ UNCHANGED <<uptimeNow, uptimeState,
          uptimeLatest, uptimeRestarts>>
    BY <1>3 DEF Uptime!ObserveUptime
  <2>2. uptimeEvents \in Seq(EventRec) /\ uptimeStored \in Seq(EventRec) /\ uptimeRestarts' \in Nat
    BY <1>0, <2>1 DEF UptimeTyped
  <2>3. /\ uptimeDbErrors = 0 => Remains(uptimeStored, uptimeTruth, uptimeLatest)
        /\ uptimeDbErrors = 0 \/ uptimeRestarts' = 0 => Remains(uptimeEvents, uptimeTruth,
             uptimeLatest)
    BY <2>1 DEF UptimeInv
  <2> QED
    BY <2>1, <2>2, <2>3, ObservedKeeps
<1>4. CASE Uptime!ResetUptime
  <2> DEFINE e == Uptime!Event(<< >>)
  <2>1. /\ uptimeEvents' = <<e>> /\ uptimeStored' = <<e>> /\ uptimeTruth' = <<e>>
             /\ uptimeRestarts' = uptimeRestarts + 1
        /\ UNCHANGED <<uptimeNow, uptimeState, uptimeLatest, uptimeDbErrors>>
    BY <1>4 DEF Uptime!ResetUptime
  <2>2. e \in EventRec
    <3>1. << >> \in Seq(EventRec)
      OBVIOUS
    <3> QED
      BY <1>0, <3>1, EventTyped
  <2> HIDE DEF e
  <2>3. <<e>> \in Seq(EventRec) /\ Len(<<e>>) = 1 /\ <<e>>[1] = e /\ e.at <= e.at
    BY <2>2 DEF EventRec
  <2>4. InTime(<<e>>) /\ Remains(<<e>>, <<e>>, uptimeLatest)
    <3>1. InTime(<<e>>)
      BY <2>3 DEF InTime
    <3>2. Remains(<<e>>, <<e>>, uptimeLatest)
      BY <2>3 DEF Remains
    <3> QED
      BY <3>1, <3>2
  <2>5. UptimeTyped'
    BY <1>0, <2>1, <2>3 DEF UptimeTyped
  <2>6. InTime(uptimeTruth') /\ Remains(uptimeEvents', uptimeTruth', uptimeLatest')
          /\ Remains(uptimeStored', uptimeTruth', uptimeLatest')
    BY <2>1, <2>4
  <2> QED
    BY <2>5, <2>6 DEF UptimeInv, InTime, Remains
<1>5. CASE Uptime!LoadUptime
  <2>1. /\ Uptime!Observed(Uptime!Prune(uptimeStored), uptimeStored) /\ UNCHANGED <<uptimeNow,
             uptimeState, uptimeLatest>>
        /\ uptimeRestarts' = uptimeRestarts + 1
    BY <1>5 DEF Uptime!LoadUptime
  <2>2. /\ uptimeStored \in Seq(EventRec) /\ Uptime!Prune(uptimeStored) \in Seq(EventRec)
        /\ uptimeRestarts' \in Nat /\ uptimeRestarts' # 0
    BY <1>0, <2>1, PruneTyped DEF UptimeTyped
  <2>3. uptimeDbErrors = 0 => InTime(uptimeTruth) /\ Remains(uptimeStored, uptimeTruth,
          uptimeLatest)
    BY DEF UptimeInv
  <2>4. uptimeDbErrors = 0 => Remains(Uptime!Prune(uptimeStored), uptimeTruth, uptimeLatest)
    BY <1>0, <2>3, PruneRemains DEF UptimeTyped
  <2> QED
    BY <2>1, <2>2, <2>3, <2>4, ObservedKeeps
<1>6. CASE Uptime!ClockRuns
  <2>1. /\ uptimeNow' = uptimeNow + 1 /\ uptimeLatest' = Uptime!Max({uptimeLatest, uptimeNow'})
        /\ UNCHANGED <<uptimeState, uptimeEvents, uptimeStored, uptimeTruth, uptimeDbErrors,
             uptimeRestarts>>
    BY <1>6 DEF Uptime!ClockRuns
  <2>2. uptimeNow \in Nat /\ uptimeLatest \in Nat /\ uptimeNow' \in Nat
    BY <1>0, <2>1 DEF UptimeTyped
  <2>3. uptimeLatest' \in Nat /\ uptimeLatest <= uptimeLatest' /\ uptimeNow' <= uptimeLatest'
    <3>1. \E x \in {uptimeLatest, uptimeNow'} : \A y \in {uptimeLatest, uptimeNow'} : x >= y
      BY <2>2
    <3>2. Uptime!Max({uptimeLatest, uptimeNow'}) \in {uptimeLatest, uptimeNow'}
            /\ \A y \in {uptimeLatest, uptimeNow'} : Uptime!Max({uptimeLatest, uptimeNow'}) >= y
      BY <3>1 DEF Uptime!Max
    <3> QED
      BY <2>1, <2>2, <3>2
  <2> QED
    BY <1>0, <1>1, <2>1, <2>2, <2>3 DEF UptimeTyped
<1>7. CASE Uptime!ClockSetBack
  <2>1. /\ uptimeNow > Uptime!Start /\ uptimeNow' = uptimeNow - 1
        /\ UNCHANGED <<uptimeState, uptimeEvents, uptimeStored, uptimeTruth, uptimeLatest,
             uptimeDbErrors, uptimeRestarts>>
    BY <1>7 DEF Uptime!ClockSetBack
  <2>2. uptimeNow' \in Nat /\ uptimeLatest' \in Nat /\ uptimeLatest <= uptimeLatest'
          /\ uptimeNow' <= uptimeLatest'
    BY <1>0, <2>1 DEF UptimeTyped, Uptime!Start, UptimeParameters
  <2> QED
    BY <1>0, <1>1, <2>1, <2>2 DEF UptimeTyped
<1>8. CASE UNCHANGED Uptime!vars
  <2>1. UNCHANGED <<uptimeNow, uptimeState, uptimeEvents, uptimeStored, uptimeTruth, uptimeLatest,
          uptimeDbErrors, uptimeRestarts>>
    BY <1>8 DEF Uptime!vars
  <2>2. uptimeNow' \in Nat /\ uptimeLatest' \in Nat /\ uptimeLatest <= uptimeLatest'
          /\ uptimeNow' <= uptimeLatest'
    BY <1>0, <2>1 DEF UptimeTyped
  <2> QED
    BY <1>0, <1>1, <2>1, <2>2 DEF UptimeTyped
<1> QED
  BY <1>2, <1>3, <1>4, <1>5, <1>6, <1>7, <1>8 DEF Uptime!Next

\* Whatever is pruned, deduplicated or reset, and wherever the wall clock is set back to,
\* the panel shows for every second the state that observe_uptime saw the account in:
\* only the last transition before the window is needed, and it is the one that is kept.
THEOREM TimelinesAreTrue ==
  ASSUME UptimeParameters
  PROVE  Uptime!Spec => []Uptime!TimelineTrue
<1>1. Uptime!Init => UptimeInv
  BY UptimeInit
<1>2. UptimeInv /\ [Uptime!Next]_Uptime!vars => UptimeInv'
  BY UptimeStep
<1>3. UptimeInv => Uptime!TimelineTrue
  <2> SUFFICES ASSUME UptimeInv, uptimeDbErrors = 0 \/ uptimeRestarts = 0,
        NEW t \in DOMAIN Uptime!Summary
               PROVE  Uptime!Summary[t] \in {Uptime!TrueStatus(t)} \cup
                        (IF t + Span < uptimeLatest THEN {"unknown"} ELSE {})
    BY DEF Uptime!TimelineTrue
  <2>1. UptimeTyped /\ InTime(uptimeTruth) /\ Remains(uptimeEvents, uptimeTruth, uptimeLatest)
    BY DEF UptimeInv
  <2>2. Remains(Uptime!Prune(uptimeEvents), uptimeTruth, uptimeLatest)
    BY <2>1, PruneRemains DEF UptimeTyped
  <2>3. t \in Int
    BY <2>1 DEF Uptime!Summary, Uptime!Walk, UptimeTyped, UptimeParameters
  <2>4. \/ Uptime!Summary[t] = Uptime!TrueStatus(t)
        \/ Uptime!Summary[t] = "unknown" /\ t + Span < uptimeLatest
    BY <2>1, <2>2, <2>3, WalkTrue DEF Uptime!Summary
  <2> QED
    BY <2>4
<1> QED
  BY <1>1, <1>2, <1>3, PTL DEF Uptime!Spec

\* load_uptime draws the timeline the process that stopped would have drawn: the table
\* was pruned at other moments than memory, but never of a transition the window needs.
THEOREM RestartsAgree ==
  ASSUME UptimeParameters
  PROVE  Uptime!Spec => []Uptime!RestartAgrees
<1>1. Uptime!Init => UptimeInv
  BY UptimeInit
<1>2. UptimeInv /\ [Uptime!Next]_Uptime!vars => UptimeInv'
  BY UptimeStep
<1>3. UptimeInv => Uptime!RestartAgrees
  <2> SUFFICES ASSUME UptimeInv, uptimeDbErrors = 0,
        NEW t \in DOMAIN Uptime!Summary, t + Span >= uptimeLatest
               PROVE  Uptime!Walk(Uptime!Prune(uptimeStored),
                 uptimeNow - Span)[t] = Uptime!Summary[t]
    BY DEF Uptime!RestartAgrees
  <2>1. /\ UptimeTyped /\ InTime(uptimeTruth)
        /\ Remains(uptimeEvents, uptimeTruth, uptimeLatest) /\ Remains(uptimeStored, uptimeTruth,
             uptimeLatest)
    BY DEF UptimeInv
  <2>2. Remains(Uptime!Prune(uptimeEvents), uptimeTruth, uptimeLatest)
          /\ Remains(Uptime!Prune(uptimeStored), uptimeTruth, uptimeLatest)
    BY <2>1, PruneRemains DEF UptimeTyped
  <2>3. t \in Int /\ t \in DOMAIN Uptime!Walk(Uptime!Prune(uptimeStored), uptimeNow - Span)
    BY <2>1 DEF Uptime!Summary, Uptime!Walk, UptimeTyped, UptimeParameters
  <2>4. ~(t + Span < uptimeLatest)
    BY <2>1, <2>3 DEF UptimeTyped, UptimeParameters
  <2>5. Uptime!Summary[t] = Uptime!TrueStatus(t)
    BY <2>1, <2>2, <2>3, <2>4, WalkTrue DEF Uptime!Summary
  <2>6. Uptime!Walk(Uptime!Prune(uptimeStored), uptimeNow - Span)[t] = Uptime!TrueStatus(t)
    BY <2>1, <2>2, <2>3, <2>4, WalkTrue
  <2> QED
    BY <2>5, <2>6
<1> QED
  BY <1>1, <1>2, <1>3, PTL DEF Uptime!Spec

\* The transitions in memory carry times, and the clock is never ahead of the latest time
\* it showed.
THEOREM UptimeTypeCorrect ==
  ASSUME UptimeParameters
  PROVE  Uptime!Spec => []Uptime!TypeOK
<1>1. Uptime!Init => UptimeInv
  BY UptimeInit
<1>2. UptimeInv /\ [Uptime!Next]_Uptime!vars => UptimeInv'
  BY UptimeStep
<1>3. UptimeInv => Uptime!TypeOK
  <2> SUFFICES ASSUME UptimeInv PROVE Uptime!TypeOK
    OBVIOUS
  <2>1. \A k \in 1..Len(uptimeEvents) : uptimeEvents[k].at \in Nat
    BY TimesOf DEF UptimeInv, UptimeTyped
  <2> QED
    BY <2>1 DEF UptimeInv, UptimeTyped, Uptime!TypeOK
<1> QED
  BY <1>1, <1>2, <1>3, PTL DEF Uptime!Spec
-----------------------------------------------------------------------------
(* AccountHealth                                                           *)

\* The threshold of previews in traffic is at least one.
HealthParameters == TrafficLimit \in Nat \ {0}

\* A pass goes on to set_premium with what the probe said, never with a plan.
PassTyped ==
  /\ healthHeal \in [pc : {"idle", "premium", "note", "flag", "moved"},
                     got : {"none", "premium", "preview-only", "unknown", "free"}]
  /\ healthHeal.pc = "premium" => healthHeal.got \in {"premium", "preview-only", "unknown"}

LEMMA HealthPassTyped ==
  ASSUME HealthParameters, Health!TypeOK, PassTyped, Health!HealPass
  PROVE  Health!TypeOK' /\ PassTyped'
<1>1. CASE Health!Probe
  BY <1>1 DEF HealthParameters, Health!TypeOK, PassTyped, Health!Probe, Health!FullCheckDue
<1>2. CASE Health!SetPremium
  BY <1>2 DEF HealthParameters, Health!TypeOK, PassTyped, Health!SetPremium, Health!EndsStreak,
              Health!Idle
<1>3. CASE Health!NotePreviewCheck
  BY <1>3 DEF HealthParameters, Health!TypeOK, PassTyped, Health!NotePreviewCheck, Health!Idle
<1>4. CASE Health!Flag
  BY <1>4 DEF HealthParameters, Health!TypeOK, PassTyped, Health!Flag, Health!Idle
<1>5. CASE Health!Moved
  BY <1>5 DEF HealthParameters, Health!TypeOK, PassTyped, Health!Moved, Health!Idle
<1>6. CASE Health!CheckSubscription
  BY <1>6 DEF HealthParameters, Health!TypeOK, PassTyped, Health!CheckSubscription,
              Health!Subscription, Health!Idle
<1> QED
  BY <1>1, <1>2, <1>3, <1>4, <1>5, <1>6 DEF Health!HealPass

LEMMA HealthStepTyped ==
  ASSUME HealthParameters, Health!TypeOK, PassTyped, [Health!Next]_Health!vars
  PROVE  Health!TypeOK' /\ PassTyped'
<1>1. CASE Health!HealPass
  BY <1>1, HealthPassTyped
<1>2. CASE Health!ConfirmFull
  <2>1. UNCHANGED <<healthRowStreak, healthHeal>>
    BY <1>2 DEF Health!ConfirmFull
  <2>2. healthStatus' \in {healthStatus, "premium"} /\ healthStreak' \in {healthStreak, 0}
    BY <1>2 DEF Health!ConfirmFull
  <2>3. healthTraffic' = 0 /\ healthSaves' \subseteq healthSaves \cup {0}
    BY <1>2 DEF Health!ConfirmFull
  <2> QED
    BY <2>1, <2>2, <2>3 DEF HealthParameters, Health!TypeOK, PassTyped
<1>3. CASE Health!NoteTrafficPreview
  BY <1>3 DEF HealthParameters, Health!TypeOK, PassTyped, Health!NoteTrafficPreview
<1>4. CASE Health!SaveStreak
  BY <1>4 DEF HealthParameters, Health!TypeOK, PassTyped, Health!SaveStreak
<1>5. CASE Health!OwnerCatalog \/ Health!PlanChanges
  BY <1>5 DEF HealthParameters, Health!TypeOK, PassTyped, Health!OwnerCatalog,
     Health!PlanChanges
<1>6. CASE Health!Restart
  BY <1>6 DEF HealthParameters, Health!TypeOK, PassTyped, Health!Restart, Health!Idle
<1>7. CASE Health!MinutePasses \/ Health!HourPasses \/ Health!DayPasses
  BY <1>7 DEF HealthParameters, Health!TypeOK, PassTyped, Health!MinutePasses,
              Health!HourPasses, Health!DayPasses
<1>8. CASE UNCHANGED Health!vars
  BY <1>8 DEF Health!vars, Health!TypeOK, PassTyped
<1> QED
  BY <1>1, <1>2, <1>3, <1>4, <1>5, <1>6, <1>7, <1>8 DEF Health!Next

\* Concurrent answers, checks and restarts leave the premium status, the streaks and their
\* rows what the code can read: set_premium is never told a plan, and the streak of traffic
\* stays below the count at which note_traffic_preview starts it anew.
THEOREM HealthTypeCorrect ==
  ASSUME HealthParameters
  PROVE  Health!Spec => []Health!TypeOK
<1>1. Health!Init => Health!TypeOK /\ PassTyped
  BY DEF HealthParameters, Health!Init, Health!TypeOK, PassTyped, Health!Idle
<1>2. Health!TypeOK /\ PassTyped /\ [Health!Next]_Health!vars => Health!TypeOK' /\ PassTyped'
  BY HealthStepTyped
<1> QED
  BY <1>1, <1>2, PTL DEF Health!Spec

-----------------------------------------------------------------------------
(* SettingsSync                                                            *)

\* The settings are written in a fixed order, and the webhook is one of them.
SettingsParameters == /\ Largest \in Nat \ {0}
                      /\ Order \in Seq(Settings!Keys)
                      /\ Webhook \in Settings!Keys

\* What is on its way to SQLite or Redis, and what the tick read there.
Stored == Settings!Values \cup {Settings!Missing}
Writes == [key : Settings!Keys, value : Settings!Values]
ReadsTyped(p) == "got" \in DOMAIN p /\ p.got \in [Settings!Keys -> Stored]
TransfersTyped ==
  /\ settingsUpdate \in [Inst -> [pc : {"none", "save", "db", "redis"}, todo : Seq(Writes)]]
  /\ DOMAIN settingsPull = Inst
  /\ settingsPull = [i \in Inst |-> settingsPull[i]]
  /\ \A i \in Inst : ReadsTyped(settingsPull[i])
MemoryTyped == settingsMem \in [Inst -> [Settings!Keys -> Settings!Values]]
StoresTyped == /\ settingsRow \in [Inst -> [Settings!Keys -> Stored]]
               /\ settingsShared \in [Settings!Keys -> Stored]

LEMMA SettingValues ==
  ASSUME SettingsParameters
  PROVE  /\ 0 \in Settings!Values /\ Settings!Missing \in Nat
         /\ \A v \in Nat : Settings!Normalized(v) \in Settings!Values
         /\ Settings!Values \subseteq Nat /\ Stored \subseteq Nat
         /\ Settings!Values \subseteq Stored
         /\ Settings!Nothing \in [Settings!Keys -> Stored]
BY DEF SettingsParameters, Settings!Values, Settings!Missing, Settings!Normalized, Stored,
       Settings!Nothing

LEMMA AllEntries ==
  ASSUME SettingsParameters, MemoryTyped, NEW i \in Inst
  PROVE  Settings!Entries(i) \in Seq(Writes)
<1>1. /\ Len(Order) \in Nat /\ DOMAIN Order = 1..Len(Order)
      /\ \A n \in 1..Len(Order) : Order[n] \in Settings!Keys
  BY DEF SettingsParameters
<1>2. \A n \in 1..Len(Order) : [key |-> Order[n], value |-> settingsMem[i][Order[n]]] \in Writes
  BY <1>1 DEF MemoryTyped, Writes
<1> QED
  BY <1>1, <1>2 DEF Settings!Entries

LEMMA NoTransfer ==
  ASSUME SettingsParameters
  PROVE  /\ Settings!NoUpdate \in [pc : {"none", "save", "db", "redis"}, todo : Seq(Writes)]
         /\ ReadsTyped(Settings!NoPull)
BY SettingValues DEF Settings!NoUpdate, Settings!NoPull, ReadsTyped

LEMMA StartReads ==
  ASSUME SettingsParameters
  PROVE  ReadsTyped([Settings!NoPull EXCEPT !.pc = "seed", !.boot = TRUE])
BY SettingValues DEF Settings!NoPull, ReadsTyped

LEMMA OwnerTyped ==
  ASSUME SettingsParameters, MemoryTyped, StoresTyped, TransfersTyped, NEW i \in Inst,
         Settings!UpdateSettings(i) \/ Settings!SetWebhook(i)
  PROVE  MemoryTyped' /\ StoresTyped' /\ TransfersTyped'
<1>1. CASE Settings!UpdateSettings(i)
  <2>1. PICK sent \in Settings!Sent :
          /\ settingsMem' = [settingsMem EXCEPT ![i] = Settings!Applied(i, sent)]
          /\ settingsUpdate' \in {settingsUpdate, [settingsUpdate EXCEPT ![i].pc = "save"]}
    BY <1>1 DEF Settings!UpdateSettings
  <2>2. UNCHANGED <<settingsRow, settingsShared, settingsPull>>
    BY <1>1 DEF Settings!UpdateSettings
  <2>3. \A k \in Settings!Keys : sent[k] \in {1, Settings!Oversized, Settings!Absent, Settings!Invalid}
    BY <2>1 DEF Settings!Sent
  <2>4. \A k \in Settings!Keys : sent[k] \in Nat
    BY <2>3 DEF SettingsParameters, Settings!Oversized, Settings!Absent, Settings!Invalid
  <2>5. Settings!Applied(i, sent) \in [Settings!Keys -> Settings!Values]
    BY <2>4, SettingValues DEF Settings!Applied, MemoryTyped
  <2>6. MemoryTyped'
    BY <2>1, <2>5 DEF MemoryTyped
  <2>7. TransfersTyped'
    BY <2>1, <2>2 DEF TransfersTyped
  <2> QED
    BY <2>2, <2>6, <2>7 DEF StoresTyped
<1>2. CASE Settings!SetWebhook(i)
  <2>1. UNCHANGED <<settingsShared, settingsPull>>
    BY <1>2 DEF Settings!SetWebhook
  <2>2. CASE UNCHANGED <<settingsRow, settingsMem, settingsUpdate>>
    BY <2>1, <2>2 DEF MemoryTyped, StoresTyped, TransfersTyped
  <2>3. CASE \E v \in {0, 1} :
          /\ settingsRow' = [settingsRow EXCEPT ![i][Webhook] = v]
          /\ settingsMem' = [settingsMem EXCEPT ![i][Webhook] = v]
          /\ settingsUpdate' = [settingsUpdate EXCEPT ![i] =
               [pc |-> "redis", todo |-> <<[key |-> Webhook, value |-> v]>>]]
    <3>1. PICK v \in {0, 1} :
          /\ settingsRow' = [settingsRow EXCEPT ![i][Webhook] = v]
          /\ settingsMem' = [settingsMem EXCEPT ![i][Webhook] = v]
          /\ settingsUpdate' = [settingsUpdate EXCEPT ![i] =
               [pc |-> "redis", todo |-> <<[key |-> Webhook, value |-> v]>>]]
      BY <2>3
    <3>2. v \in Settings!Values
      BY <3>1 DEF SettingsParameters, Settings!Values
    <3>3. [key |-> Webhook, value |-> v] \in Writes
      BY <3>2 DEF Writes, SettingsParameters
    <3>4. <<[key |-> Webhook, value |-> v]>> \in Seq(Writes)
      BY <3>3
    <3>5. MemoryTyped' /\ StoresTyped'
      BY <2>1, <3>1, <3>2, SettingValues DEF MemoryTyped, StoresTyped
    <3>6. TransfersTyped'
      BY <2>1, <3>1, <3>4 DEF TransfersTyped
    <3> QED
      BY <3>5, <3>6
  <2> QED
    BY <1>2, <2>2, <2>3 DEF Settings!SetWebhook
<1> QED
  BY <1>1, <1>2

LEMMA SavingTyped ==
  ASSUME SettingsParameters, MemoryTyped, StoresTyped, TransfersTyped, NEW i \in Inst,
         Settings!Saving(i)
  PROVE  MemoryTyped' /\ StoresTyped' /\ TransfersTyped'
<1>1. CASE Settings!SaveBegins(i)
  <2>1. UNCHANGED <<settingsMem, settingsRow, settingsShared, settingsPull>>
    BY <1>1 DEF Settings!SaveBegins
  <2>2. \E u \in [pc : {"none", "save", "db", "redis"}, todo : Seq(Writes)] :
          settingsUpdate' = [settingsUpdate EXCEPT ![i] = u]
    BY <1>1, AllEntries, NoTransfer DEF Settings!SaveBegins
  <2> QED
    BY <2>1, <2>2 DEF MemoryTyped, StoresTyped, TransfersTyped
<1>2. CASE Settings!SaveToDb(i) \/ Settings!SaveToRedis(i)
  <2> DEFINE w == Head(settingsUpdate[i].todo)
  <2>1. UNCHANGED <<settingsMem, settingsPull>> /\ settingsUpdate[i].todo # << >>
        /\ settingsUpdate' = [settingsUpdate EXCEPT ![i].todo = Tail(@)]
    BY <1>2 DEF Settings!SaveToDb, Settings!SaveToRedis, Settings!OneWritten
  <2>2. settingsUpdate[i].todo \in Seq(Writes)
    BY DEF TransfersTyped
  <2>3. w \in Writes /\ Tail(settingsUpdate[i].todo) \in Seq(Writes)
    BY <2>1, <2>2
  <2>4. w.key \in Settings!Keys /\ w.value \in Stored
    BY <2>3, SettingValues DEF Writes
  <2>5. \/ settingsRow' = [settingsRow EXCEPT ![i][w.key] = w.value]
        \/ UNCHANGED settingsRow
    BY <1>2 DEF Settings!SaveToDb, Settings!SaveToRedis
  <2>6. \/ settingsShared' = [settingsShared EXCEPT ![w.key] = w.value]
        \/ UNCHANGED settingsShared
    BY <1>2 DEF Settings!SaveToDb, Settings!SaveToRedis, Settings!RedisSet
  <2>7. StoresTyped'
    <3> HIDE DEF w
    <3>1. settingsRow' \in [Inst -> [Settings!Keys -> Stored]]
      BY <2>4, <2>5 DEF StoresTyped
    <3>2. settingsShared' \in [Settings!Keys -> Stored]
      BY <2>4, <2>6 DEF StoresTyped
    <3> QED
      BY <3>1, <3>2 DEF StoresTyped
  <2>8. TransfersTyped'
    BY <2>1, <2>3 DEF TransfersTyped
  <2> QED
    BY <2>1, <2>7, <2>8 DEF MemoryTyped
<1> QED
  BY <1>1, <1>2 DEF Settings!Saving

LEMMA SyncingTyped ==
  ASSUME SettingsParameters, MemoryTyped, StoresTyped, TransfersTyped, NEW i \in Inst,
         Settings!Syncing(i)
  PROVE  MemoryTyped' /\ StoresTyped' /\ TransfersTyped'
<1>1. UNCHANGED <<settingsRow, settingsUpdate>>
  BY DEF Settings!Syncing, Settings!Mget, Settings!ApplyKv, Settings!Pulled, Settings!SeedReads,
         Settings!SeedOne
<1>2. ReadsTyped(settingsPull[i])
  BY DEF TransfersTyped
<1>3. \E p : ReadsTyped(p) /\ settingsPull' = [settingsPull EXCEPT ![i] = p]
  <2>1. CASE Settings!Mget(i)
    BY <1>2, <2>1, NoTransfer DEF Settings!Mget, ReadsTyped, StoresTyped, TransfersTyped
  <2>2. CASE Settings!ApplyKv(i) \/ Settings!Pulled(i)
    BY <1>2, <2>2, NoTransfer DEF Settings!ApplyKv, Settings!Pulled, ReadsTyped, TransfersTyped
  <2>3. CASE Settings!SeedReads(i) \/ Settings!SeedOne(i)
    BY <1>2, <2>3 DEF Settings!SeedReads, Settings!SeedOne, ReadsTyped, TransfersTyped
  <2> QED
    BY <2>1, <2>2, <2>3 DEF Settings!Syncing
<1>4. TransfersTyped'
  BY <1>1, <1>3 DEF TransfersTyped
<1>5. MemoryTyped'
  <2>1. CASE Settings!ApplyKv(i)
    <3> DEFINE k == Head(settingsPull[i].todo)
    <3>1. settingsMem' = [settingsMem EXCEPT ![i][k] = Settings!Normalized(settingsPull[i].got[k])]
      BY <2>1 DEF Settings!ApplyKv, Settings!Adopted
    <3>2. k \in Settings!Keys => Settings!Normalized(settingsPull[i].got[k]) \in Settings!Values
      BY <1>2, SettingValues DEF ReadsTyped
    <3> HIDE DEF k
    <3> QED
      BY <3>1, <3>2 DEF MemoryTyped
  <2>2. CASE UNCHANGED settingsMem
    BY <2>2 DEF MemoryTyped
  <2> QED
    BY <2>1, <2>2 DEF Settings!Syncing, Settings!Mget, Settings!Pulled, Settings!SeedReads,
                      Settings!SeedOne
<1>6. settingsShared' \in [Settings!Keys -> Stored]
  <2>1. CASE Settings!SeedOne(i)
    <3> DEFINE k == Head(settingsPull[i].todo)
    <3>1. \/ settingsShared' = [settingsShared EXCEPT ![k] =
                                  Settings!Seeded(settingsShared[k], settingsMem[i][k])]
          \/ UNCHANGED settingsShared
      BY <2>1 DEF Settings!SeedOne, Settings!RedisSet
    <3>2. k \in Settings!Keys =>
            Settings!Seeded(settingsShared[k], settingsMem[i][k]) \in Stored
      BY SettingValues DEF StoresTyped, MemoryTyped, Settings!Seeded
    <3> HIDE DEF k
    <3> QED
      BY <3>1, <3>2 DEF StoresTyped
  <2>2. CASE UNCHANGED settingsShared
    BY <2>2 DEF StoresTyped
  <2> QED
    BY <2>1, <2>2 DEF Settings!Syncing, Settings!Mget, Settings!ApplyKv, Settings!Pulled,
                      Settings!SeedReads
<1> QED
  BY <1>1, <1>4, <1>5, <1>6 DEF StoresTyped

LEMMA StartTyped ==
  ASSUME SettingsParameters, MemoryTyped, StoresTyped, TransfersTyped, NEW i \in Inst,
         Settings!Start(i)
  PROVE  MemoryTyped' /\ StoresTyped' /\ TransfersTyped'
<1>1. UNCHANGED <<settingsRow, settingsShared>>
  BY DEF Settings!Start
<1> DEFINE loaded == [k \in Settings!Keys |->
                        IF settingsRow[i][k] = Settings!Missing THEN 0
                        ELSE Settings!Normalized(settingsRow[i][k])]
<1>2. loaded \in [Settings!Keys -> Settings!Values]
  BY SettingValues DEF StoresTyped
<1>3. settingsMem' = [settingsMem EXCEPT ![i] = loaded]
  BY DEF Settings!Start
<1>4. MemoryTyped'
  <2> HIDE DEF loaded
  <2> QED
    BY <1>2, <1>3 DEF MemoryTyped
<1>5. ReadsTyped([Settings!NoPull EXCEPT !.pc = "seed", !.boot = TRUE])
  BY StartReads
<1>6. TransfersTyped'
  BY <1>5, NoTransfer DEF Settings!Start, TransfersTyped
<1> QED
  BY <1>1, <1>4, <1>6 DEF StoresTyped

LEMMA SettingsStepTyped ==
  ASSUME SettingsParameters, MemoryTyped, StoresTyped, TransfersTyped,
         [Settings!Next]_Settings!vars
  PROVE  MemoryTyped' /\ StoresTyped' /\ TransfersTyped'
<1>1. ASSUME NEW i \in Inst, Settings!UpdateSettings(i) \/ Settings!SetWebhook(i)
      PROVE  MemoryTyped' /\ StoresTyped' /\ TransfersTyped'
  BY <1>1, OwnerTyped
<1>2. CASE UNCHANGED Settings!vars
  BY <1>2 DEF Settings!vars, MemoryTyped, StoresTyped, TransfersTyped
<1> QED
  BY <1>1, <1>2, SavingTyped, SyncingTyped, StartTyped DEF Settings!Next

\* Every setting in memory, in SQLite and in Redis is absent or one the normalisation of
\* settings.rs lets through, on any number of instances.
THEOREM SettingsTypeCorrect ==
  ASSUME SettingsParameters
  PROVE  Settings!Spec => []Settings!TypeOK
<1>1. Settings!Init => MemoryTyped /\ StoresTyped /\ TransfersTyped
  <2> SUFFICES ASSUME Settings!Init PROVE MemoryTyped /\ StoresTyped /\ TransfersTyped
    OBVIOUS
  <2>1. MemoryTyped /\ StoresTyped
    BY SettingValues DEF Settings!Init, MemoryTyped, StoresTyped
  <2>2. ReadsTyped([Settings!NoPull EXCEPT !.pc = "seed", !.boot = TRUE])
    BY StartReads
  <2>3. TransfersTyped
    BY <2>2, NoTransfer DEF Settings!Init, TransfersTyped
  <2> QED
    BY <2>1, <2>3
<1>2. MemoryTyped /\ StoresTyped /\ TransfersTyped /\ [Settings!Next]_Settings!vars
        => MemoryTyped' /\ StoresTyped' /\ TransfersTyped'
  BY SettingsStepTyped
<1>3. MemoryTyped /\ StoresTyped /\ TransfersTyped => Settings!TypeOK
  BY DEF MemoryTyped, StoresTyped, TransfersTyped, Stored, Settings!TypeOK
<1> QED
  BY <1>1, <1>2, <1>3, PTL DEF Settings!Spec

\* seed_and_load uses SET NX.
THEOREM SeedsOverwriteNothing == Settings!Spec => Settings!SeedKeepsShared
<1>1. ASSUME [Settings!Next]_Settings!vars
      PROVE  [Settings!KeepsShared]_Settings!vars
  <2> SUFFICES ASSUME NEW k \in Settings!Keys, NEW i \in Inst, settingsPull[i].pc = "seeding",
                      settingsPull'[i] # settingsPull[i], settingsShared[k] # Settings!Missing
               PROVE  settingsShared'[k] = settingsShared[k]
    BY DEF Settings!KeepsShared
  <2>1. CASE UNCHANGED settingsShared
    BY <2>1
  <2>2. CASE \E j \in Inst : Settings!SeedOne(j)
    <3>1. PICK j \in Inst : Settings!SeedOne(j)
      BY <2>2
    <3> DEFINE l == Head(settingsPull[j].todo)
    <3>2. CASE settingsShared' = [settingsShared EXCEPT ![l] =
                                    Settings!Seeded(settingsShared[l], settingsMem[j][l])]
      <4> HIDE DEF l
      <4> QED
        BY <3>2 DEF Settings!Seeded
    <3> QED
      BY <2>1, <3>1, <3>2 DEF Settings!SeedOne, Settings!RedisSet
  <2>3. CASE \E j \in Inst : Settings!SaveToRedis(j)
    BY <2>3 DEF Settings!SaveToRedis
  <2> QED
    BY <1>1, <2>1, <2>2, <2>3 DEF Settings!Next, Settings!vars, Settings!Saving,
       Settings!Syncing, Settings!UpdateSettings, Settings!SetWebhook, Settings!SaveBegins,
       Settings!SaveToDb, Settings!Mget, Settings!ApplyKv, Settings!Pulled,
       Settings!SeedReads, Settings!Start
<1> QED
  BY <1>1, PTL DEF Settings!Spec, Settings!SeedKeepsShared

-----------------------------------------------------------------------------
(* The components that are proved about in modules of their own            *)

Throttles == INSTANCE ThrottleProofs WITH
  Requests <- Callers, MaxTime <- PauseTime,
  time <- pauseTime, until <- pauseUntil, strikes <- pauseStrikes, row <- pauseRow,
  request <- pauseRequest, refusals <- pauseRefusals, restarts <- pauseRestarts,
  dbErrors <- pauseDbErrors, owed <- pauseOwed,
  Alerters <- Callers, MaxClock <- AlertTime, webhook <- alertsWebhook,
  lastSent <- alertsLastSent, lock <- alertsLock, alert <- alertsAlert,
  posted <- alertsPosted, clock <- alertsClock, alerts <- alertsAlerts,
  changes <- alertsChanges,
  Window <- LogWindow, MaxSeconds <- LogTime, second <- logSecond, serving <- logServing,
  entries <- logEntries, buckets <- logBuckets, written <- logWritten,
  Quota <- Units, used <- quotaUsed, keyRow <- quotaRow, active <- quotaActive,
  writes <- quotaWrites, incrs <- quotaIncrs, counter <- quotaCounter,
  sync <- quotaSync, calls <- quotaCalls, flips <- quotaFlips, crashes <- quotaCrashes,
  lost <- quotaLost, life <- quotaLife, granted <- quotaGranted

Caches == INSTANCE CacheProofs WITH
  Calls <- Lookups, catalog <- identityCatalog, verdicts <- identityVerdicts,
  call <- identityCall,
  Req <- Fetchers, entry <- cacheEntry, neg <- cacheNeg, guard <- cacheGuard,
  made <- cacheMade, held <- cacheHeld, req <- cacheReq, bg <- cacheBg,
  ages <- cacheAges, clears <- cacheClears, fetches <- cacheFetches,
  excuses <- cacheExcuses

Egress == INSTANCE ProxyProofs WITH
  Tasks <- Callers, Lists <- ProxyLists, gen <- switchGen, list <- switchList,
  on <- switchOn, current <- switchCurrent, client <- switchClient,
  ready <- switchReady, fails <- switchFails, tried <- switchTried,
  rotating <- switchRotating, health <- switchHealth, admin <- switchAdmin,
  task <- switchTask, rot <- switchRot, updates <- switchUpdates, calls <- switchCalls,
  turns <- switchTurns,
  onAt <- routesOn, listOf <- routesList, bind <- routesBind,
  verified <- routesVerified, failures <- routesFailures, avoided <- routesAvoided,
  failed <- routesFailed, row <- routesRow, shared <- routesShared, job <- routesJob,
  due <- routesDue, routeHealth <- routesHealth, ops <- routesOps,
  routeFails <- routesFails, routeTurns <- routesTurns

Onboardings == INSTANCE TokenRefreshProofs WITH
  Entries <- TokenEntries,
  env <- onboardingEnv, accounts <- onboardingAccounts, boot <- onboardingBoot,
  importer <- onboardingImporter, mark <- onboardingMark, login <- onboardingLogin,
  newest <- onboardingIssued, unread <- onboardingUnread,
  rotations <- onboardingRotations, crashes <- onboardingCrashes,
  dbErrors <- onboardingDbErrors, imports <- onboardingImports,
  \* the tokens of one account are not among the components
  Caller <- {}, Heal <- 0, RequestsPerAccount <- 1, MaxIssued <- 1, MaxLocks <- 1,
  Fault <- {}, issued <- 0, expired <- 0, revoked <- 0, accepted <- 0, shared <- 0,
  token <- 0, rejected <- 0, refresh <- 0, cooling <- 0, paused <- 0, active <- 0,
  autoOff <- 0, lockNow <- 0, pc <- 0, lock <- 0, prev <- 0, tok <- 0, reply <- 0,
  attempt <- 0, refreshed <- 0, owner <- 0, refused <- 0

\* TokenRefresh asks this of its constants, which play no part here.
LEMMA NoTokens == Onboardings!TokenAssumption!:
<1>1. Onboardings!IsFiniteSet({})
  BY FS_EmptySet DEF IsFiniteSet, Onboardings!IsFiniteSet
<1> QED
  BY <1>1

LEMMA AlertsStarts ==
  ASSUME Init, part = "alerts"
  PROVE  Throttles!Alert!Init
BY DEF Init, Alerts!Init, Throttles!Alert!Init, Alerts!Never, Throttles!Alert!Never,
       Alerts!Free, Throttles!Alert!Free, Alerts!NoAlert, Throttles!Alert!NoAlert,
       Alerts!Disabled, Throttles!Alert!Disabled

LEMMA AlertsSteps ==
  ASSUME Alerts!Next
  PROVE  Throttles!Alert!Next
BY DEF Alerts!Next, Throttles!Alert!Next, Alerts!Raise, Throttles!Alert!Raise,
       Alerts!LookUp, Throttles!Alert!LookUp, Alerts!Record, Throttles!Alert!Record,
       Alerts!Post, Throttles!Alert!Post, Alerts!ChangeWebhook,
       Throttles!Alert!ChangeWebhook, Alerts!TimePasses, Throttles!Alert!TimePasses,
       Alerts!Disabled, Throttles!Alert!Disabled, Alerts!MayEnter,
       Throttles!Alert!MayEnter, Alerts!Never, Throttles!Alert!Never, Alerts!Free,
       Throttles!Alert!Free, Alerts!NoAlert, Throttles!Alert!NoAlert

LEMMA Alerts_TypeOK ==
  ASSUME Throttles!Alert!TypeOK
  PROVE  Alerts!TypeOK
BY DEF Alerts!TypeOK, Throttles!Alert!TypeOK, Alerts!Disabled,
       Throttles!Alert!Disabled, Alerts!Never, Throttles!Alert!Never, Alerts!Free,
       Throttles!Alert!Free

LEMMA Alerts_OnePerInterval ==
  ASSUME Throttles!Alert!OnePerInterval
  PROVE  Alerts!OnePerInterval
BY DEF Alerts!OnePerInterval, Throttles!Alert!OnePerInterval

LEMMA AlertsAlone ==
  ASSUME [Next]_vars, part = "alerts"
  PROVE  [Throttles!Alert!Next]_Throttles!Alert!vars /\ (part = "alerts")'
BY AlertsSteps
DEF Next, vars, LockoutMoves, SwitchMoves, RoutesMoves, LogMoves, UptimeMoves,
    PauseMoves, IdentityMoves, AlertsMoves, alertsVars, Throttles!Alert!vars

LEMMA PauseStarts ==
  ASSUME Init, part = "pause"
  PROVE  Throttles!Init
BY DEF Init, Pause!Init, Throttles!Init, Pause!Idle, Throttles!Idle

LEMMA PauseSteps ==
  ASSUME Pause!Next
  PROVE  Throttles!Next
BY DEF Pause!Next, Throttles!Next, Pause!Send, Throttles!Send, Pause!Answered,
       Throttles!Answered, Pause!Refused, Throttles!Refused, Pause!Strike,
       Throttles!Strike, Pause!Extend, Throttles!Extend, Pause!Persist,
       Throttles!Persist, Pause!Restart, Throttles!Restart, Pause!Tick, Throttles!Tick,
       Pause!Idle, Throttles!Idle, Pause!Max, Throttles!Max, Pause!Later,
       Throttles!Later, Pause!End, Throttles!End, Pause!PauseSecs, Throttles!PauseSecs,
       Pause!Min, Throttles!Min, Pause!Doubled, Throttles!Doubled

LEMMA Pause_TypeOK ==
  ASSUME Throttles!TypeOK
  PROVE  Pause!TypeOK
BY DEF Pause!TypeOK, Throttles!TypeOK

LEMMA Pause_RetryAfterKept ==
  ASSUME Throttles!RetryAfterKept
  PROVE  Pause!RetryAfterKept
BY DEF Pause!RetryAfterKept, Throttles!RetryAfterKept

LEMMA Pause_PauseBounded ==
  ASSUME Throttles!PauseBounded
  PROVE  Pause!PauseBounded
BY DEF Pause!PauseBounded, Throttles!PauseBounded, Pause!Max, Throttles!Max

LEMMA PauseAlone ==
  ASSUME [Next]_vars, part = "pause"
  PROVE  [Throttles!Next]_Throttles!vars /\ (part = "pause")'
BY PauseSteps
DEF Next, vars, LockoutMoves, SwitchMoves, RoutesMoves, LogMoves, UptimeMoves,
    PauseMoves, IdentityMoves, AlertsMoves, pauseVars, Throttles!vars

LEMMA LogStarts ==
  ASSUME Init, part = "log"
  PROVE  Throttles!Log!Init
BY DEF Init, Log!Init, Throttles!Log!Init, Log!Start, Throttles!Log!Start, Log!Idle,
       Throttles!Log!Idle

LEMMA LogSteps ==
  ASSUME Log!Next
  PROVE  Throttles!Log!Next
BY DEF Log!Next, Throttles!Log!Next, Log!NoteAccount, Throttles!Log!NoteAccount,
       Log!Served, Throttles!Log!Served, Log!Record, Throttles!Log!Record,
       Log!SecondPasses, Throttles!Log!SecondPasses, Log!CountsOf,
       Throttles!Log!CountsOf, Log!Logged, Throttles!Log!Logged, Log!Bucketed,
       Throttles!Log!Bucketed, Log!Idle, Throttles!Log!Idle, Log!Start,
       Throttles!Log!Start, Log!Traffic, Throttles!Log!Traffic, Log!Fields,
       Throttles!Log!Fields, Log!Kept, Throttles!Log!Kept, Log!Plus, Throttles!Log!Plus

LEMMA Log_TypeOK ==
  ASSUME Throttles!Log!TypeOK
  PROVE  Log!TypeOK
BY DEF Log!TypeOK, Throttles!Log!TypeOK

LEMMA Log_RatesExact ==
  ASSUME Throttles!Log!RatesExact
  PROVE  Log!RatesExact
BY DEF Log!RatesExact, Throttles!Log!RatesExact, Log!TotalOver,
       Throttles!Log!TotalOver, Log!LastMinute, Throttles!Log!LastMinute, Log!Recorded,
       Throttles!Log!Recorded, Log!JustNow, Throttles!Log!JustNow, Log!Fields,
       Throttles!Log!Fields, Log!SumFunction, Throttles!Log!SumFunction,
       Log!SumFunctionOnSet, Throttles!Log!SumFunctionOnSet, Log!FoldFunctionOnSet,
       Throttles!Log!FoldFunctionOnSet, Log!MapThenFoldSet, Throttles!Log!MapThenFoldSet

LEMMA LogAlone ==
  ASSUME [Next]_vars, part = "log"
  PROVE  [Throttles!Log!Next]_Throttles!Log!vars /\ (part = "log")'
BY LogSteps
DEF Next, vars, LockoutMoves, SwitchMoves, RoutesMoves, LogMoves, UptimeMoves,
    PauseMoves, IdentityMoves, AlertsMoves, logVars, Throttles!Log!vars

LEMMA IdentityStarts ==
  ASSUME Init, part = "identity"
  PROVE  Caches!Id!Init
BY DEF Init, Identity!Init, Caches!Id!Init, Identity!Pairs, Caches!Id!Pairs,
       Identity!NotCached, Caches!Id!NotCached, Identity!Fresh, Caches!Id!Fresh,
       Identity!Unread, Caches!Id!Unread

LEMMA IdentitySteps ==
  ASSUME Identity!Next
  PROVE  Caches!Id!Next
BY DEF Identity!Next, Caches!Id!Next, Identity!Play, Caches!Id!Play,
       Identity!CachedVerdict, Caches!Id!CachedVerdict, Identity!ReadWanted,
       Caches!Id!ReadWanted, Identity!ReadGot, Caches!Id!ReadGot, Identity!Unreadable,
       Caches!Id!Unreadable, Identity!Judge, Caches!Id!Judge, Identity!Answered,
       Caches!Id!Answered, Identity!Forgotten, Caches!Id!Forgotten, Identity!Fresh,
       Caches!Id!Fresh, Identity!Key, Caches!Id!Key, Identity!Goto, Caches!Id!Goto,
       Identity!NotCached, Caches!Id!NotCached, Identity!Unread, Caches!Id!Unread,
       Identity!Difference, Caches!Id!Difference, Identity!Cacheable,
       Caches!Id!Cacheable, Identity!Pairs, Caches!Id!Pairs

LEMMA Identity_TypeOK ==
  ASSUME Caches!Id!TypeOK
  PROVE  Identity!TypeOK
BY DEF Identity!TypeOK, Caches!Id!TypeOK, Identity!Pairs, Caches!Id!Pairs,
       Identity!Verdicts, Caches!Id!Verdicts, Identity!NotCached, Caches!Id!NotCached

LEMMA Identity_ServedIsRequested ==
  ASSUME Caches!Id!ServedIsRequested
  PROVE  Identity!ServedIsRequested
BY DEF Identity!ServedIsRequested, Caches!Id!ServedIsRequested, Identity!Difference,
       Caches!Id!Difference

LEMMA Identity_VerdictsCompared ==
  ASSUME Caches!Id!VerdictsCompared
  PROVE  Identity!VerdictsCompared
BY DEF Identity!VerdictsCompared, Caches!Id!VerdictsCompared, Identity!Difference,
       Caches!Id!Difference

LEMMA IdentityAlone ==
  ASSUME [Next]_vars, part = "identity"
  PROVE  [Caches!Id!Next]_Caches!Id!vars /\ (part = "identity")'
BY IdentitySteps
DEF Next, vars, LockoutMoves, SwitchMoves, RoutesMoves, LogMoves, UptimeMoves,
    PauseMoves, IdentityMoves, AlertsMoves, identityVars, Caches!Id!vars

LEMMA SwitchStarts ==
  ASSUME Init, part = "switch"
  PROVE  Egress!Init
BY DEF Init, Switch!Init, Egress!Init, Switch!None, Egress!None, Switch!Direct,
       Egress!Direct, Switch!Proxies, Egress!Proxies, Switch!NoUpdate, Egress!NoUpdate,
       Switch!Rest, Egress!Rest, Switch!NoRotation, Egress!NoRotation, Switch!Elements,
       Egress!Elements

LEMMA SwitchSteps ==
  ASSUME Switch!Next
  PROVE  Egress!Next
BY DEF Switch!Next, Egress!Next, Switch!UpdateProxies, Egress!UpdateProxies,
       Switch!Configuring, Egress!Configuring, Switch!Rotation, Egress!Rotation,
       Switch!Call, Egress!Call, Switch!Steps, Egress!Steps, Switch!ThrottleEnds,
       Egress!ThrottleEnds, Switch!HealthTurns, Egress!HealthTurns, Switch!switchVars,
       Egress!switchVars, Switch!ConfigureBegin, Egress!ConfigureBegin,
       Switch!ConfigureList, Egress!ConfigureList, Switch!ConfigureEnable,
       Egress!ConfigureEnable, Switch!ConfigureReady, Egress!ConfigureReady,
       Switch!RotatePick, Egress!RotatePick, Switch!RotateSwap, Egress!RotateSwap,
       Switch!RotateCheck, Egress!RotateCheck, Switch!None, Egress!None,
       Switch!ReadEnabled, Egress!ReadEnabled, Switch!ReadReady, Egress!ReadReady,
       Switch!ReadList, Egress!ReadList, Switch!GetWorkingProxy,
       Egress!GetWorkingProxy, Switch!SwapTo, Egress!SwapTo, Switch!ReadClient,
       Egress!ReadClient, Switch!Refuse, Egress!Refuse, Switch!AuthClient,
       Egress!AuthClient, Switch!ReplaceAuth, Egress!ReplaceAuth, Switch!NoteSuccess,
       Egress!NoteSuccess, Switch!NoteFailure, Egress!NoteFailure, Switch!Leave,
       Egress!Leave, Switch!boundVars, Egress!boundVars, Switch!Proxies,
       Egress!Proxies, Switch!Probing, Egress!Probing, Switch!Direct, Egress!Direct,
       Switch!NoUpdate, Egress!NoUpdate, Switch!Readable, Egress!Readable,
       Switch!NoRotation, Egress!NoRotation, Switch!After, Egress!After,
       Switch!Unlocked, Egress!Unlocked, Switch!MaySwap, Egress!MaySwap,
       Switch!Installed, Egress!Installed, Switch!Goto, Egress!Goto, Switch!Answer,
       Egress!Answer, Switch!Candidates, Egress!Candidates, Switch!Found, Egress!Found,
       Switch!Rest, Egress!Rest, Switch!Elements, Egress!Elements, Switch!Cardinality,
       Egress!Cardinality

LEMMA Switch_TypeOK ==
  ASSUME Egress!TypeOK
  PROVE  Switch!TypeOK
BY DEF Switch!TypeOK, Egress!TypeOK, Switch!Proxies, Egress!Proxies, Switch!None,
       Egress!None, Switch!Direct, Egress!Direct, Switch!Elements, Egress!Elements

LEMMA Switch_CurrentListed ==
  ASSUME Egress!CurrentListed
  PROVE  Switch!CurrentListed
BY DEF Switch!CurrentListed, Egress!CurrentListed, Switch!Unlocked, Egress!Unlocked,
       Switch!None, Egress!None, Switch!Direct, Egress!Direct, Switch!Elements,
       Egress!Elements

LEMMA Switch_ReadyIsProxied ==
  ASSUME Egress!ReadyIsProxied
  PROVE  Switch!ReadyIsProxied
BY DEF Switch!ReadyIsProxied, Egress!ReadyIsProxied, Switch!Unlocked, Egress!Unlocked,
       Switch!None, Egress!None

LEMMA Switch_FlagOwned ==
  ASSUME Egress!FlagOwned
  PROVE  Switch!FlagOwned
BY DEF Switch!FlagOwned, Egress!FlagOwned

LEMMA SwitchAlone ==
  ASSUME [Next]_vars, part = "switch"
  PROVE  [Egress!Next]_Egress!vars /\ (part = "switch")'
BY SwitchSteps
DEF Next, vars, LockoutMoves, SwitchMoves, RoutesMoves, LogMoves, UptimeMoves,
    PauseMoves, IdentityMoves, AlertsMoves, switchVars, Egress!vars

LEMMA RoutesStarts ==
  ASSUME Init, part = "routes"
  PROVE  Egress!Via!Init
BY DEF Init, Routes!Init, Egress!Via!Init, Routes!PerAccount, Egress!Via!PerAccount,
       Routes!None, Egress!Via!None, Routes!Idle, Egress!Via!Idle, Routes!AnyAcc,
       Egress!Via!AnyAcc

LEMMA RoutesSteps ==
  ASSUME Routes!Next
  PROVE  Egress!Via!Next
BY DEF Routes!Next, Egress!Via!Next, Routes!Locked, Egress!Via!Locked, Routes!SyncRead,
       Egress!Via!SyncRead, Routes!Configure, Egress!Via!Configure, Routes!Restart,
       Egress!Via!Restart, Routes!HealthTurns, Egress!Via!HealthTurns, Routes!Request,
       Egress!Via!Request, Routes!RotateAccount, Egress!Via!RotateAccount,
       Routes!ForgetAccount, Egress!Via!ForgetAccount, Routes!RetryDue,
       Egress!Via!RetryDue, Routes!Publish, Egress!Via!Publish, Routes!Choose,
       Egress!Via!Choose, Routes!Clear, Egress!Via!Clear, Routes!Cleared,
       Egress!Via!Cleared, Routes!Rebalance, Egress!Via!Rebalance, Routes!SyncOne,
       Egress!Via!SyncOne, Routes!Free, Egress!Via!Free, Routes!None, Egress!Via!None,
       Routes!Idle, Egress!Via!Idle, Routes!routeVars, Egress!Via!routeVars,
       Routes!Kept, Egress!Via!Kept, Routes!Loaded, Egress!Via!Loaded, Routes!UseBound,
       Egress!Via!UseBound, Routes!Unbound, Egress!Via!Unbound, Routes!NoteSuccessFor,
       Egress!Via!NoteSuccessFor, Routes!NoteFailureFor, Egress!Via!NoteFailureFor,
       Routes!Finish, Egress!Via!Finish, Routes!Best, Egress!Via!Best, Routes!Assign,
       Egress!Via!Assign, Routes!Movable, Egress!Via!Movable, Routes!Reconcile,
       Egress!Via!Reconcile, Routes!AnyAcc, Egress!Via!AnyAcc, Routes!Rank,
       Egress!Via!Rank, Routes!Upsert, Egress!Via!Upsert, Routes!Uses, Egress!Via!Uses,
       Routes!Cardinality, Egress!Via!Cardinality

LEMMA Routes_TypeOK ==
  ASSUME Egress!Via!TypeOK
  PROVE  Routes!TypeOK
BY DEF Routes!TypeOK, Egress!Via!TypeOK, Routes!MaybeProxy, Egress!Via!MaybeProxy,
       Routes!None, Egress!Via!None

LEMMA Routes_BoundListed ==
  ASSUME Egress!Via!BoundListed
  PROVE  Routes!BoundListed
BY DEF Routes!BoundListed, Egress!Via!BoundListed, Routes!None, Egress!Via!None

LEMMA Routes_RowFollows ==
  ASSUME Egress!Via!RowFollows
  PROVE  Routes!RowFollows
BY DEF Routes!RowFollows, Egress!Via!RowFollows, Routes!None, Egress!Via!None

LEMMA RoutesAlone ==
  ASSUME [Next]_vars, part = "routes"
  PROVE  [Egress!Via!Next]_Egress!Via!vars /\ (part = "routes")'
BY RoutesSteps
DEF Next, vars, LockoutMoves, SwitchMoves, RoutesMoves, LogMoves, UptimeMoves,
    PauseMoves, IdentityMoves, AlertsMoves, routesVars, Egress!Via!vars

LEMMA CacheStarts ==
  ASSUME LiveInit, part = "cache"
  PROVE  Caches!Init
BY DEF LiveInit, Cache!Init, Caches!Init

LEMMA CacheSteps ==
  ASSUME Cache!Next
  PROVE  Caches!Next
BY DEF Cache!Next, Caches!Next, Cache!Handles, Caches!Handles, Cache!Refreshes,
       Caches!Refreshes, Cache!Disconnect, Caches!Disconnect, Cache!EntryAges,
       Caches!EntryAges, Cache!NegativeAges, Caches!NegativeAges, Cache!GuardExpires,
       Caches!GuardExpires, Cache!InvalidateAll, Caches!InvalidateAll, Cache!Lookup,
       Caches!Lookup, Cache!LookupNegative, Caches!LookupNegative, Cache!TakeGuard,
       Caches!TakeGuard, Cache!Locked, Caches!Locked, Cache!Fetched, Caches!Fetched,
       Cache!RefreshStarts, Caches!RefreshStarts, Cache!RefreshEnds,
       Caches!RefreshEnds, Cache!Answered, Caches!Answered, Cache!MayAskAgain,
       Caches!MayAskAgain, Cache!GetGuard, Caches!GetGuard, Cache!Usable,
       Caches!Usable, Cache!NextGuard, Caches!NextGuard

LEMMA Cache_TypeOK ==
  ASSUME Caches!TypeOK
  PROVE  Cache!TypeOK
BY DEF Cache!TypeOK, Caches!TypeOK, Cache!Ages, Caches!Ages

LEMMA Cache_SingleFlight ==
  ASSUME Caches!SingleFlight
  PROVE  Cache!SingleFlight
BY DEF Cache!SingleFlight, Caches!SingleFlight, Cache!Cardinality, Caches!Cardinality

LEMMA Cache_FetchesJustified ==
  ASSUME Caches!FetchesJustified
  PROVE  Cache!FetchesJustified
BY DEF Cache!FetchesJustified, Caches!FetchesJustified

LEMMA CacheAlone ==
  ASSUME [LiveNext]_liveVars, part = "cache"
  PROVE  [Caches!Next]_Caches!vars /\ (part = "cache")'
BY CacheSteps
DEF LiveNext, liveVars, CacheMoves, QuotaMoves, HealthMoves, EgressMoves,
    SettingsMoves, OnboardingMoves, cacheVars, Caches!vars

LEMMA ApiKeyStarts ==
  ASSUME LiveInit, part = "quota"
  PROVE  Throttles!Key!Init
BY DEF LiveInit, ApiKey!Init, Throttles!Key!Init, ApiKey!NoSync, Throttles!Key!NoSync

LEMMA ApiKeySteps ==
  ASSUME ApiKey!Next
  PROVE  Throttles!Key!Next
BY DEF ApiKey!Next, Throttles!Key!Next, ApiKey!CheckAndConsume,
       Throttles!Key!CheckAndConsume, ApiKey!WriteRow, Throttles!Key!WriteRow,
       ApiKey!IncrBy, Throttles!Key!IncrBy, ApiKey!Syncs, Throttles!Key!Syncs,
       ApiKey!SetActive, Throttles!Key!SetActive, ApiKey!Crash, Throttles!Key!Crash,
       ApiKey!Gate, Throttles!Key!Gate, ApiKey!Grant, Throttles!Key!Grant,
       ApiKey!SyncRead, Throttles!Key!SyncRead, ApiKey!SyncApply,
       Throttles!Key!SyncApply, ApiKey!NoSync, Throttles!Key!NoSync, ApiKey!Raise,
       Throttles!Key!Raise

LEMMA ApiKey_TypeOK ==
  ASSUME Throttles!Key!TypeOK
  PROVE  ApiKey!TypeOK
BY DEF ApiKey!TypeOK, Throttles!Key!TypeOK

LEMMA ApiKey_UnitsCountedOnce ==
  ASSUME Throttles!Key!UnitsCountedOnce
  PROVE  ApiKey!UnitsCountedOnce
BY DEF ApiKey!UnitsCountedOnce, Throttles!Key!UnitsCountedOnce, ApiKey!MapThenSumSet,
       Throttles!Key!MapThenSumSet, ApiKey!MapThenFoldSet, Throttles!Key!MapThenFoldSet

LEMMA ApiKey_ProcessBound ==
  ASSUME Throttles!Key!ProcessBound
  PROVE  ApiKey!ProcessBound
BY DEF ApiKey!ProcessBound, Throttles!Key!ProcessBound

LEMMA ApiKeyAlone ==
  ASSUME [LiveNext]_liveVars, part = "quota"
  PROVE  [Throttles!Key!Next]_Throttles!Key!vars /\ (part = "quota")'
BY ApiKeySteps
DEF LiveNext, liveVars, CacheMoves, QuotaMoves, HealthMoves, EgressMoves,
    SettingsMoves, OnboardingMoves, quotaVars, Throttles!Key!vars

LEMMA OnboardingStarts ==
  ASSUME LiveInit, part = "onboarding"
  PROVE  Onboardings!Setup!Init
BY DEF LiveInit, Onboarding!Init, Onboardings!Setup!Init, Onboarding!Importers,
       Onboardings!Setup!Importers, Onboarding!Idle, Onboardings!Setup!Idle,
       Onboarding!Tasks, Onboardings!Setup!Tasks, Onboarding!Logins,
       Onboardings!Setup!Logins, Onboarding!NoLogin, Onboardings!Setup!NoLogin,
       Onboarding!Origins, Onboardings!Setup!Origins, Onboarding!ToSet,
       Onboardings!Setup!ToSet

LEMMA OnboardingSteps ==
  ASSUME Onboarding!Next
  PROVE  Onboardings!Setup!Next
BY DEF Onboarding!Next, Onboardings!Setup!Next, Onboarding!Boot,
       Onboardings!Setup!Boot, Onboarding!ImportAccounts,
       Onboardings!Setup!ImportAccounts, Onboarding!Endpoint,
       Onboardings!Setup!Endpoint, Onboarding!Restart, Onboardings!Setup!Restart,
       Onboarding!StartSetup, Onboardings!Setup!StartSetup, Onboarding!Logins,
       Onboardings!Setup!Logins, Onboarding!SignIn, Onboardings!Setup!SignIn,
       Onboarding!Loaded, Onboardings!Setup!Loaded, Onboarding!Rotate,
       Onboardings!Setup!Rotate, Onboarding!LoadFromDb, Onboardings!Setup!LoadFromDb,
       Onboarding!ImportTokenFile, Onboardings!Setup!ImportTokenFile,
       Onboarding!EnvironmentCatalog, Onboardings!Setup!EnvironmentCatalog,
       Onboarding!EnvironmentDefault, Onboardings!Setup!EnvironmentDefault,
       Onboarding!Serve, Onboardings!Setup!Serve, Onboarding!Entry,
       Onboardings!Setup!Entry, Onboarding!SetAccountCatalog,
       Onboardings!Setup!SetAccountCatalog, Onboarding!PoolTokens,
       Onboardings!Setup!PoolTokens, Onboarding!Unloaded, Onboardings!Setup!Unloaded,
       Onboarding!Importers, Onboardings!Setup!Importers, Onboarding!Idle,
       Onboardings!Setup!Idle, Onboarding!Tasks, Onboardings!Setup!Tasks,
       Onboarding!NoLogin, Onboardings!Setup!NoLogin, Onboarding!Poll,
       Onboardings!Setup!Poll, Onboarding!RefreshWithClient,
       Onboardings!Setup!RefreshWithClient, Onboarding!Add, Onboardings!Setup!Add,
       Onboarding!StoreRefreshed, Onboardings!Setup!StoreRefreshed, Onboarding!DbError,
       Onboardings!Setup!DbError, Onboarding!Known, Onboardings!Setup!Known,
       Onboarding!AddAccount, Onboardings!Setup!AddAccount, Onboarding!Marked,
       Onboardings!Setup!Marked, Onboarding!NewAccount, Onboardings!Setup!NewAccount,
       Onboarding!AddFails, Onboardings!Setup!AddFails, Onboarding!DeadlinePassed,
       Onboardings!Setup!DeadlinePassed, Onboarding!Moved, Onboardings!Setup!Moved,
       Onboarding!LoginStep, Onboardings!Setup!LoginStep, Onboarding!Proven,
       Onboardings!Setup!Proven, Onboarding!Unchanged, Onboardings!Setup!Unchanged,
       Onboarding!Fresh, Onboardings!Setup!Fresh

LEMMA Onboarding_TypeOK ==
  ASSUME Onboardings!Setup!TypeOK
  PROVE  Onboarding!TypeOK
BY DEF Onboarding!TypeOK, Onboardings!Setup!TypeOK, Onboarding!Tokens,
       Onboardings!Setup!Tokens, Onboarding!Unloaded, Onboardings!Setup!Unloaded,
       Onboarding!Tasks, Onboardings!Setup!Tasks, Onboarding!Logins,
       Onboardings!Setup!Logins, Onboarding!Origins, Onboardings!Setup!Origins,
       Onboarding!Importers, Onboardings!Setup!Importers, Onboarding!ToSet,
       Onboardings!Setup!ToSet

LEMMA Onboarding_SignInKeepsNewest ==
  ASSUME Onboardings!Setup!SignInKeepsNewest
  PROVE  Onboarding!SignInKeepsNewest
BY DEF Onboarding!SignInKeepsNewest, Onboardings!Setup!SignInKeepsNewest,
       Onboarding!Logins, Onboardings!Setup!Logins

LEMMA Onboarding_FileImportedOnce ==
  ASSUME Onboardings!Setup!FileImportedOnce
  PROVE  Onboarding!FileImportedOnce
BY DEF Onboarding!FileImportedOnce, Onboardings!Setup!FileImportedOnce,
       Onboarding!ToSet, Onboardings!Setup!ToSet

LEMMA OnboardingAlone ==
  ASSUME [LiveNext]_liveVars, part = "onboarding"
  PROVE  [Onboardings!Setup!Next]_Onboardings!Setup!vars /\ (part = "onboarding")'
BY OnboardingSteps
DEF LiveNext, liveVars, CacheMoves, QuotaMoves, HealthMoves, EgressMoves,
    SettingsMoves, OnboardingMoves, onboardingVars, Onboardings!Setup!vars

-----------------------------------------------------------------------------
(* The composition                                                         *)

\* No behaviour changes its component.
LEMMA PartStays ==
  ASSUME [Next]_vars
  PROVE  UNCHANGED part
BY DEF Next, vars, LockoutMoves, SwitchMoves, RoutesMoves, LogMoves, UptimeMoves, PauseMoves,
       IdentityMoves, AlertsMoves

LEMMA LockoutStarts ==
  ASSUME Init, part = "lockout"
  PROVE  Lockout!Init
BY DEF Init

LEMMA LockoutAlone ==
  ASSUME [Next]_vars, part = "lockout"
  PROVE  [Lockout!Next]_Lockout!vars /\ (part = "lockout")'
BY DEF Next, vars, LockoutMoves, SwitchMoves, RoutesMoves, LogMoves, UptimeMoves, PauseMoves,
       IdentityMoves, AlertsMoves, lockoutVars, Lockout!vars

LEMMA UptimeStarts ==
  ASSUME Init, part = "uptime"
  PROVE  Uptime!Init
BY DEF Init

LEMMA UptimeAlone ==
  ASSUME [Next]_vars, part = "uptime"
  PROVE  [Uptime!Next]_Uptime!vars /\ (part = "uptime")'
BY DEF Next, vars, LockoutMoves, SwitchMoves, RoutesMoves, LogMoves, UptimeMoves, PauseMoves,
       IdentityMoves, AlertsMoves, uptimeVars, Uptime!vars

\* auth_guard.rs and scanner_guard.rs in the server: the table of a guard stays bounded,
\* and every lock in it was earned, however requests and clock interleave.
THEOREM LocksAreSound ==
  ASSUME LockoutParameters
  PROVE  Spec => []LocksSound
<1>1. Lockout!Spec => []Lockout!TypeOK
  BY GuardTypeCorrect
<1>2. Lockout!Spec => []Lockout!TableBound
  BY TableStaysBounded
<1>3. Lockout!Spec => []Lockout!LockEarned
  BY LocksAreEarned
<1>4. Init /\ part = "lockout" => Lockout!Init
  BY LockoutStarts
<1>5. [Next]_vars /\ part = "lockout" => [Lockout!Next]_Lockout!vars /\ (part = "lockout")'
  BY LockoutAlone
<1>6. [Next]_vars /\ ~(part = "lockout") => ~(part = "lockout")'
  BY PartStays
<1>7. ASSUME Lockout!TypeOK, Lockout!TableBound, Lockout!LockEarned
      PROVE  LocksSound
  BY <1>7 DEF LocksSound
<1>8. ~(part = "lockout") => LocksSound
  BY DEF LocksSound
<1> QED
  BY <1>1, <1>2, <1>3, <1>4, <1>5, <1>6, <1>7, <1>8, PTL DEF Spec, Lockout!Spec

\* In the server, too, nothing ends a running lock early but a correct credential of its
\* address, or a table full of locked addresses.
THEOREM LocksStayKept ==
  ASSUME LockoutParameters
  PROVE  Spec => LockKept
<1>1. Lockout!Spec => Lockout!LockKept
  BY LocksAreKept
<1>2. Init /\ part = "lockout" => Lockout!Init
  BY LockoutStarts
<1>3. [Next]_vars /\ part = "lockout" => [Lockout!Next]_Lockout!vars /\ (part = "lockout")'
  BY LockoutAlone
<1>4. [Next]_vars /\ ~(part = "lockout") => ~(part = "lockout")'
  BY PartStays
<1>5. [Lockout!KeepsLocks]_Lockout!vars => [part = "lockout" => Lockout!KeepsLocks]_lockoutVars
  BY DEF Lockout!vars, lockoutVars
<1>6. ~(part = "lockout") => [part = "lockout" => Lockout!KeepsLocks]_lockoutVars
  OBVIOUS
<1> QED
  BY <1>1, <1>2, <1>3, <1>4, <1>5, <1>6, PTL DEF Spec, LockKept, Lockout!Spec, Lockout!LockKept

\* However configure, swap_to, the probes and the rotation interleave, the shared client
\* is Direct or a proxy of the list of the moment, "resolved" is said of a proxied client
\* only, and one rotation runs at a time.
THEOREM SwitchIsSound ==
  ASSUME Egress!Parameters, FailLimit \in Nat \ {0}
  PROVE  Spec => []SwitchSound
<1>1. Egress!Spec => []Egress!TypeOK
  BY Egress!SwitchTypeCorrect
<1>2. Egress!Spec => []Egress!CurrentListed
  BY Egress!OnlyListedProxies
<1>3. Egress!Spec => []Egress!ReadyIsProxied
  BY Egress!ReadyMeansProxied
<1>4. Egress!Spec => []Egress!FlagOwned
  BY Egress!OneRotation
<1>5. Init /\ part = "switch" => Egress!Init
  BY SwitchStarts
<1>6. [Next]_vars /\ part = "switch" => [Egress!Next]_Egress!vars /\ (part = "switch")'
  BY SwitchAlone
<1>7. [Next]_vars /\ ~(part = "switch") => ~(part = "switch")'
  BY PartStays
<1>8. ASSUME Egress!TypeOK, Egress!CurrentListed, Egress!ReadyIsProxied, Egress!FlagOwned
      PROVE  SwitchSound
  BY <1>8, Switch_TypeOK, Switch_CurrentListed, Switch_ReadyIsProxied, Switch_FlagOwned
     DEF SwitchSound
<1>9. ~(part = "switch") => SwitchSound
  BY DEF SwitchSound
<1> QED
  BY <1>1, <1>2, <1>3, <1>4, <1>5, <1>6, <1>7, <1>8, <1>9, PTL DEF Spec, Egress!Spec

\* An account of any instance is bound to a listed proxy or to none, and its row in
\* proxy_assignments names the proxy it is bound to, so that a restart finds it.
THEOREM BindingsAreSound ==
  ASSUME Egress!RouteParameters
  PROVE  Spec => []BindingsSound
<1>1. Egress!Via!Spec => []Egress!Via!TypeOK
  BY Egress!RoutesTypeCorrect
<1>2. Egress!Via!Spec => []Egress!Via!BoundListed
  BY Egress!AccountsUseListed
<1>3. Egress!Via!Spec => []Egress!Via!RowFollows
  BY Egress!RowsFollow
<1>4. Init /\ part = "routes" => Egress!Via!Init
  BY RoutesStarts
<1>5. [Next]_vars /\ part = "routes" => [Egress!Via!Next]_Egress!Via!vars /\ (part = "routes")'
  BY RoutesAlone
<1>6. [Next]_vars /\ ~(part = "routes") => ~(part = "routes")'
  BY PartStays
<1>7. ASSUME Egress!Via!TypeOK, Egress!Via!BoundListed, Egress!Via!RowFollows
      PROVE  BindingsSound
  BY <1>7, Routes_TypeOK, Routes_BoundListed, Routes_RowFollows DEF BindingsSound
<1>8. ~(part = "routes") => BindingsSound
  BY DEF BindingsSound
<1> QED
  BY <1>1, <1>2, <1>3, <1>4, <1>5, <1>6, <1>7, <1>8, PTL DEF Spec, Egress!Via!Spec

\* The rates of request_rates_at are those of what was recorded, for any number of requests
\* that record themselves late and out of order, although the log forgets its entries.
THEOREM RatesAreExact ==
  ASSUME Throttles!LogParameters
  PROVE  Spec => []RatesExact
<1>1. Throttles!Log!Spec => []Throttles!Log!TypeOK
  BY Throttles!LogTypeCorrect
<1>2. Throttles!Log!Spec => []Throttles!Log!RatesExact
  BY Throttles!RatesHold
<1>3. Init /\ part = "log" => Throttles!Log!Init
  BY LogStarts
<1>4. [Next]_vars /\ part = "log" => [Throttles!Log!Next]_Throttles!Log!vars /\ (part = "log")'
  BY LogAlone
<1>5. [Next]_vars /\ ~(part = "log") => ~(part = "log")'
  BY PartStays
<1>6. ASSUME Throttles!Log!TypeOK, Throttles!Log!RatesExact
      PROVE  RatesExact
  BY <1>6, Log_TypeOK, Log_RatesExact DEF RatesExact
<1>7. ~(part = "log") => RatesExact
  BY DEF RatesExact
<1> QED
  BY <1>1, <1>2, <1>3, <1>4, <1>5, <1>6, <1>7, PTL DEF Spec, Throttles!Log!Spec

\* The uptime the panel shows of an account is the one it had, before and after a restart.
THEOREM TimelinesStayTrue ==
  ASSUME UptimeParameters
  PROVE  Spec => []TimelinesTrue
<1>1. Uptime!Spec => []Uptime!TypeOK
  BY UptimeTypeCorrect
<1>2. Uptime!Spec => []Uptime!TimelineTrue
  BY TimelinesAreTrue
<1>3. Uptime!Spec => []Uptime!RestartAgrees
  BY RestartsAgree
<1>4. Init /\ part = "uptime" => Uptime!Init
  BY UptimeStarts
<1>5. [Next]_vars /\ part = "uptime" => [Uptime!Next]_Uptime!vars /\ (part = "uptime")'
  BY UptimeAlone
<1>6. [Next]_vars /\ ~(part = "uptime") => ~(part = "uptime")'
  BY PartStays
<1>7. ASSUME Uptime!TypeOK, Uptime!TimelineTrue, Uptime!RestartAgrees
      PROVE  TimelinesTrue
  BY <1>7 DEF TimelinesTrue
<1>8. ~(part = "uptime") => TimelinesTrue
  BY DEF TimelinesTrue
<1> QED
  BY <1>1, <1>2, <1>3, <1>4, <1>5, <1>6, <1>7, <1>8, PTL DEF Spec, Uptime!Spec

\* The pause of a rate-limited account covers every Retry-After it was given and is never
\* longer than its cap, across parallel refusals, failed writes and restarts.
THEOREM PausesStayKept ==
  ASSUME Throttles!PauseParameters, Throttles!PauseBounds
  PROVE  Spec => []PausesKept
<1>1. Throttles!Spec => []Throttles!TypeOK
  BY Throttles!PauseTypeCorrect
<1>2. Throttles!Spec => []Throttles!RetryAfterKept
  BY Throttles!PausesAreKept
<1>3. Throttles!Spec => []Throttles!PauseBounded
  BY Throttles!PausesAreBounded
<1>4. Init /\ part = "pause" => Throttles!Init
  BY PauseStarts
<1>5. [Next]_vars /\ part = "pause" => [Throttles!Next]_Throttles!vars /\ (part = "pause")'
  BY PauseAlone
<1>6. [Next]_vars /\ ~(part = "pause") => ~(part = "pause")'
  BY PartStays
<1>7. ASSUME Throttles!TypeOK, Throttles!RetryAfterKept, Throttles!PauseBounded
      PROVE  PausesKept
  BY <1>7, Pause_TypeOK, Pause_RetryAfterKept, Pause_PauseBounded DEF PausesKept
<1>8. ~(part = "pause") => PausesKept
  BY DEF PausesKept
<1> QED
  BY <1>1, <1>2, <1>3, <1>4, <1>5, <1>6, <1>7, <1>8, PTL DEF Spec, Throttles!Spec

\* No track is served for another recording, and none is refused as one unless the catalog
\* told the two apart, whatever catalog requests fail and whenever the cache is cleared.
THEOREM VerdictsAreSound ==
  ASSUME Tracks # {}
  PROVE  Spec => []VerdictsSound
<1>1. Caches!Id!Spec => []Caches!Id!TypeOK
  BY Caches!IdentityTypeCorrect
<1>2. Caches!Id!Spec => []Caches!Id!ServedIsRequested
  BY Caches!NeverAnotherRecording
<1>3. Caches!Id!Spec => []Caches!Id!VerdictsCompared
  BY Caches!RefusedOnlyIfDifferent
<1>4. Init /\ part = "identity" => Caches!Id!Init
  BY IdentityStarts
<1>5. [Next]_vars /\ part = "identity" => [Caches!Id!Next]_Caches!Id!vars /\ (part = "identity")'
  BY IdentityAlone
<1>6. [Next]_vars /\ ~(part = "identity") => ~(part = "identity")'
  BY PartStays
<1>7. ASSUME Caches!Id!TypeOK, Caches!Id!ServedIsRequested, Caches!Id!VerdictsCompared
      PROVE  VerdictsSound
  BY <1>7, Identity_TypeOK, Identity_ServedIsRequested, Identity_VerdictsCompared
     DEF VerdictsSound
<1>8. ~(part = "identity") => VerdictsSound
  BY DEF VerdictsSound
<1> QED
  BY <1>1, <1>2, <1>3, <1>4, <1>5, <1>6, <1>7, <1>8, PTL DEF Spec, Caches!Id!Spec

\* No webhook gets two alerts of a kind within MIN_INTERVAL_SECS, whoever raises them and
\* however often the webhook of the settings changes.
THEOREM OneAlertPerInterval ==
  ASSUME Throttles!AlertParameters
  PROVE  Spec => []OnePerInterval
<1>1. Throttles!Alert!Spec => []Throttles!Alert!TypeOK
  BY Throttles!AlertTypeCorrect
<1>2. Throttles!Alert!Spec => []Throttles!Alert!OnePerInterval
  BY Throttles!ThrottleHolds
<1>3. Init /\ part = "alerts" => Throttles!Alert!Init
  BY AlertsStarts
<1>4. [Next]_vars /\ part = "alerts" => [Throttles!Alert!Next]_Throttles!Alert!vars
        /\ (part = "alerts")'
  BY AlertsAlone
<1>5. [Next]_vars /\ ~(part = "alerts") => ~(part = "alerts")'
  BY PartStays
<1>6. ASSUME Throttles!Alert!TypeOK, Throttles!Alert!OnePerInterval
      PROVE  OnePerInterval
  BY <1>6, Alerts_TypeOK, Alerts_OnePerInterval DEF OnePerInterval
<1>7. ~(part = "alerts") => OnePerInterval
  BY DEF OnePerInterval
<1> QED
  BY <1>1, <1>2, <1>3, <1>4, <1>5, <1>6, <1>7, PTL DEF Spec, Throttles!Alert!Spec

-----------------------------------------------------------------------------
(* The composition of what must get somewhere                              *)

LEMMA LivePartStays ==
  ASSUME [LiveNext]_liveVars
  PROVE  UNCHANGED part
BY DEF LiveNext, liveVars, CacheMoves, QuotaMoves, HealthMoves, EgressMoves, SettingsMoves,
       OnboardingMoves

LEMMA HealthStarts ==
  ASSUME LiveInit, part = "health"
  PROVE  Health!Init
BY DEF LiveInit

LEMMA HealthAlone ==
  ASSUME [LiveNext]_liveVars, part = "health"
  PROVE  [Health!Next]_Health!vars /\ (part = "health")'
BY DEF LiveNext, liveVars, CacheMoves, QuotaMoves, HealthMoves, EgressMoves, SettingsMoves,
   OnboardingMoves, healthVars, Health!vars

LEMMA SettingsStarts ==
  ASSUME LiveInit, part = "settings"
  PROVE  Settings!Init
BY DEF LiveInit

LEMMA SettingsAlone ==
  ASSUME [LiveNext]_liveVars, part = "settings"
  PROVE  [Settings!Next]_Settings!vars /\ (part = "settings")'
BY DEF LiveNext, liveVars, CacheMoves, QuotaMoves, HealthMoves, EgressMoves, SettingsMoves,
   OnboardingMoves, settingsVars, Settings!vars

\* The egress of the accounts, in the second composition.
LEMMA EgressStarts ==
  ASSUME LiveInit, part = "routes"
  PROVE  Egress!Via!Init
BY DEF LiveInit, Routes!Init, Egress!Via!Init, Routes!PerAccount,
       Egress!Via!PerAccount, Routes!None, Egress!Via!None, Routes!Idle,
       Egress!Via!Idle, Routes!AnyAcc, Egress!Via!AnyAcc

LEMMA EgressAlone ==
  ASSUME [LiveNext]_liveVars, part = "routes"
  PROVE  [Egress!Via!Next]_Egress!Via!vars /\ (part = "routes")'
BY RoutesSteps
DEF LiveNext, liveVars, CacheMoves, QuotaMoves, HealthMoves, EgressMoves, SettingsMoves,
    OnboardingMoves, routesVars, Egress!Via!vars

LEMMA CountedInstances ==
  ASSUME IsFiniteSet(Inst)
  PROVE  Throttles!IsFiniteSet(Inst)
BY DEF IsFiniteSet, Throttles!IsFiniteSet

\* get_or_fetch sends one request at a time per guard, and fetches a key again only for a
\* reason, with any number of requests behind leaders that disconnect.
THEOREM FetchesAreSound ==
  ASSUME Caches!Bounds
  PROVE  LiveSpec => []FetchesSound
<1>1. Caches!Spec => []Caches!SingleFlight
  BY Caches!CallsShareGuards
<1>2. Caches!Spec => []Caches!FetchesJustified
  BY Caches!NoNeedlessFetch
<1>3. LiveInit /\ part = "cache" => Caches!Init
  BY CacheStarts
<1>4. [LiveNext]_liveVars /\ part = "cache" => [Caches!Next]_Caches!vars /\ (part = "cache")'
  BY CacheAlone
<1>5. [LiveNext]_liveVars /\ ~(part = "cache") => ~(part = "cache")'
  BY LivePartStays
<1>6. Caches!SingleFlight /\ Caches!FetchesJustified => FetchesSound
  BY Cache_SingleFlight, Cache_FetchesJustified DEF FetchesSound
<1>7. ~(part = "cache") => FetchesSound
  BY DEF FetchesSound
<1> QED
  BY <1>1, <1>2, <1>3, <1>4, <1>5, <1>6, <1>7, PTL DEF LiveSpec, Caches!Spec

\* Whatever increments are delayed or lost and whichever instance stops, no unit of a key
\* is counted twice and no process grants more than the quota.
THEOREM UnitsAreSound ==
  ASSUME Units \in Nat, IsFiniteSet(Inst)
  PROVE  LiveSpec => []UnitsSound
<1>1. Throttles!Key!Spec => []Throttles!Key!UnitsCountedOnce
  BY Throttles!UnitsAreCountedOnce, CountedInstances
<1>2. Throttles!Key!Spec => []Throttles!Key!ProcessBound
  BY Throttles!ProcessNeverOverGrants
<1>3. LiveInit /\ part = "quota" => Throttles!Key!Init
  BY ApiKeyStarts
<1>4. [LiveNext]_liveVars /\ part = "quota" => [Throttles!Key!Next]_Throttles!Key!vars
        /\ (part = "quota")'
  BY ApiKeyAlone
<1>5. [LiveNext]_liveVars /\ ~(part = "quota") => ~(part = "quota")'
  BY LivePartStays
<1>6. Throttles!Key!UnitsCountedOnce /\ Throttles!Key!ProcessBound => UnitsSound
  BY ApiKey_UnitsCountedOnce, ApiKey_ProcessBound DEF UnitsSound
<1>7. ~(part = "quota") => UnitsSound
  BY DEF UnitsSound
<1> QED
  BY <1>1, <1>2, <1>3, <1>4, <1>5, <1>6, <1>7, PTL DEF LiveSpec, Throttles!Key!Spec

LEMMA FileHasTokens ==
  ASSUME Onboardings!FileParameters
  PROVE  Onboardings!SetupParameters
BY DEF Onboardings!FileParameters

\* However the start-up, imports, sign-ins and rotations interleave and fail, a finished
\* sign-in left its newest refresh token, and the file gives no account twice.
THEOREM AccountsAreSound ==
  ASSUME Onboardings!FileParameters
  PROVE  LiveSpec => []AccountsSound
<1>1. Onboardings!Setup!Spec => []Onboardings!Setup!SignInKeepsNewest
  BY NoTokens, Onboardings!NewestIsKept, FileHasTokens
<1>2. Onboardings!Setup!Spec => []Onboardings!Setup!FileImportedOnce
  BY NoTokens, Onboardings!FileOnlyOnce
<1>3. LiveInit /\ part = "onboarding" => Onboardings!Setup!Init
  BY OnboardingStarts
<1>4. [LiveNext]_liveVars /\ part = "onboarding" => [Onboardings!Setup!Next]_Onboardings!Setup!vars /\ (part = "onboarding")'
  BY OnboardingAlone
<1>5. [LiveNext]_liveVars /\ ~(part = "onboarding") => ~(part = "onboarding")'
  BY LivePartStays
<1>6. Onboardings!Setup!SignInKeepsNewest /\ Onboardings!Setup!FileImportedOnce => AccountsSound
  BY Onboarding_SignInKeepsNewest, Onboarding_FileImportedOnce DEF AccountsSound
<1>7. ~(part = "onboarding") => AccountsSound
  BY DEF AccountsSound
<1> QED
  BY <1>1, <1>2, <1>3, <1>4, <1>5, <1>6, <1>7, PTL DEF LiveSpec, Onboardings!Setup!Spec

LEMMA CacheTyped ==
  ASSUME Caches!Bounds
  PROVE  LiveSpec => [](part = "cache" => Cache!TypeOK)
<1>1. Caches!Spec => []Caches!TypeOK
  BY Caches!CacheTypeCorrect
<1>2. LiveInit /\ part = "cache" => Caches!Init
  BY CacheStarts
<1>3. [LiveNext]_liveVars /\ part = "cache" => [Caches!Next]_Caches!vars /\ (part = "cache")'
  BY CacheAlone
<1>4. [LiveNext]_liveVars /\ ~(part = "cache") => ~(part = "cache")'
  BY LivePartStays
<1>5. Caches!TypeOK => (part = "cache" => Cache!TypeOK)
  BY Cache_TypeOK
<1>6. ~(part = "cache") => (part = "cache" => Cache!TypeOK)
  OBVIOUS
<1> QED
  BY <1>1, <1>2, <1>3, <1>4, <1>5, <1>6, PTL DEF LiveSpec, Caches!Spec

LEMMA ApiKeyTyped ==
  ASSUME Units \in Nat, IsFiniteSet(Inst)
  PROVE  LiveSpec => [](part = "quota" => ApiKey!TypeOK)
<1>1. Throttles!Key!Spec => []Throttles!Key!TypeOK
  BY Throttles!KeyTypeCorrect, CountedInstances
<1>2. LiveInit /\ part = "quota" => Throttles!Key!Init
  BY ApiKeyStarts
<1>3. [LiveNext]_liveVars /\ part = "quota" => [Throttles!Key!Next]_Throttles!Key!vars
        /\ (part = "quota")'
  BY ApiKeyAlone
<1>4. [LiveNext]_liveVars /\ ~(part = "quota") => ~(part = "quota")'
  BY LivePartStays
<1>5. Throttles!Key!TypeOK => (part = "quota" => ApiKey!TypeOK)
  BY ApiKey_TypeOK
<1>6. ~(part = "quota") => (part = "quota" => ApiKey!TypeOK)
  OBVIOUS
<1> QED
  BY <1>1, <1>2, <1>3, <1>4, <1>5, <1>6, PTL DEF LiveSpec, Throttles!Key!Spec

LEMMA HealthTyped ==
  ASSUME HealthParameters
  PROVE  LiveSpec => [](part = "health" => Health!TypeOK)
<1>1. Health!Spec => []Health!TypeOK
  BY HealthTypeCorrect
<1>2. LiveInit /\ part = "health" => Health!Init
  BY HealthStarts
<1>3. [LiveNext]_liveVars /\ part = "health" => [Health!Next]_Health!vars /\ (part = "health")'
  BY HealthAlone
<1>4. [LiveNext]_liveVars /\ ~(part = "health") => ~(part = "health")'
  BY LivePartStays
<1>5. Health!TypeOK => (part = "health" => Health!TypeOK)
  OBVIOUS
<1>6. ~(part = "health") => (part = "health" => Health!TypeOK)
  OBVIOUS
<1> QED
  BY <1>1, <1>2, <1>3, <1>4, <1>5, <1>6, PTL DEF LiveSpec, Health!Spec

LEMMA EgressTyped ==
  ASSUME Egress!RouteParameters
  PROVE  LiveSpec => [](part = "routes" => Routes!TypeOK)
<1>1. Egress!Via!Spec => []Egress!Via!TypeOK
  BY Egress!RoutesTypeCorrect
<1>2. LiveInit /\ part = "routes" => Egress!Via!Init
  BY EgressStarts
<1>3. [LiveNext]_liveVars /\ part = "routes" => [Egress!Via!Next]_Egress!Via!vars
        /\ (part = "routes")'
  BY EgressAlone
<1>4. [LiveNext]_liveVars /\ ~(part = "routes") => ~(part = "routes")'
  BY LivePartStays
<1>5. Egress!Via!TypeOK => (part = "routes" => Routes!TypeOK)
  BY Routes_TypeOK
<1>6. ~(part = "routes") => (part = "routes" => Routes!TypeOK)
  OBVIOUS
<1> QED
  BY <1>1, <1>2, <1>3, <1>4, <1>5, <1>6, PTL DEF LiveSpec, Egress!Via!Spec

LEMMA SettingsTyped ==
  ASSUME SettingsParameters
  PROVE  LiveSpec => [](part = "settings" => Settings!TypeOK)
<1>1. Settings!Spec => []Settings!TypeOK
  BY SettingsTypeCorrect
<1>2. LiveInit /\ part = "settings" => Settings!Init
  BY SettingsStarts
<1>3. [LiveNext]_liveVars /\ part = "settings" => [Settings!Next]_Settings!vars
        /\ (part = "settings")'
  BY SettingsAlone
<1>4. [LiveNext]_liveVars /\ ~(part = "settings") => ~(part = "settings")'
  BY LivePartStays
<1>5. Settings!TypeOK => (part = "settings" => Settings!TypeOK)
  OBVIOUS
<1>6. ~(part = "settings") => (part = "settings" => Settings!TypeOK)
  OBVIOUS
<1> QED
  BY <1>1, <1>2, <1>3, <1>4, <1>5, <1>6, PTL DEF LiveSpec, Settings!Spec

LEMMA OnboardingTyped ==
  ASSUME Onboardings!SetupParameters
  PROVE  LiveSpec => [](part = "onboarding" => Onboarding!TypeOK)
<1>1. Onboardings!Setup!Spec => []Onboardings!Setup!TypeOK
  BY NoTokens, Onboardings!SetupTypeCorrect
<1>2. LiveInit /\ part = "onboarding" => Onboardings!Setup!Init
  BY OnboardingStarts
<1>3. [LiveNext]_liveVars /\ part = "onboarding" => [Onboardings!Setup!Next]_Onboardings!Setup!vars /\ (part = "onboarding")'
  BY OnboardingAlone
<1>4. [LiveNext]_liveVars /\ ~(part = "onboarding") => ~(part = "onboarding")'
  BY LivePartStays
<1>5. Onboardings!Setup!TypeOK => (part = "onboarding" => Onboarding!TypeOK)
  BY Onboarding_TypeOK
<1>6. ~(part = "onboarding") => (part = "onboarding" => Onboarding!TypeOK)
  OBVIOUS
<1> QED
  BY <1>1, <1>2, <1>3, <1>4, <1>5, <1>6, PTL DEF LiveSpec, Onboardings!Setup!Spec

\* Every variable of a component that runs keeps its type.
THEOREM TypesStayOK ==
  ASSUME Caches!Bounds, Units \in Nat, IsFiniteSet(Inst), HealthParameters,
         Egress!RouteParameters, SettingsParameters, Onboardings!SetupParameters
  PROVE  LiveSpec => []TypesOK
<1>1. LiveSpec => [](part = "cache" => Cache!TypeOK)
  BY CacheTyped
<1>2. LiveSpec => [](part = "quota" => ApiKey!TypeOK)
  BY ApiKeyTyped
<1>3. LiveSpec => [](part = "health" => Health!TypeOK)
  BY HealthTyped
<1>4. LiveSpec => [](part = "routes" => Routes!TypeOK)
  BY EgressTyped
<1>5. LiveSpec => [](part = "settings" => Settings!TypeOK)
  BY SettingsTyped
<1>6. LiveSpec => [](part = "onboarding" => Onboarding!TypeOK)
  BY OnboardingTyped
<1> QED
  BY <1>1, <1>2, <1>3, <1>4, <1>5, <1>6, PTL DEF TypesOK

-----------------------------------------------------------------------------
(* The playback queue and the pool under it                                *)

Queues == INSTANCE PlaybackQueueProofs WITH
  Track <- QueueTracks, pool <- queuePool,
  perAccount <- queuePerAccount, endpoint <- queueEndpoint, inflight <- queueInflight,
  jobs <- queueJobs, results <- queueResults, waiters <- queueWaiters,
  permit <- queuePermit, pc <- queuePc, seen <- queueSeen, keyed <- queueKeyed,
  client <- queueClient

Leases == INSTANCE AccountPoolProofs WITH
  gen <- poolGen, catalog <- poolCatalog, status <- poolStatus,
  inflight <- poolInflight, slots <- poolSlots, resting <- poolResting,
  picks <- poolPicks, setting <- poolSetting, pc <- poolPc, rules <- poolRules,
  held <- poolHeld, failed <- poolFailed, maxTry <- poolMaxTry, first <- poolFirst,
  hits <- poolHits, limited <- poolLimited, second <- poolSecond,
  notified <- poolNotified, late <- poolLate, full <- poolFull,
  after429 <- poolAfter429

BackupLeases == INSTANCE AccountPoolProofs WITH
  Account <- Backups, Track <- {}, Meta <- BackupMeta, Limits <- BackupLimits,
  PerHour <- BackupPerHour, MaxGen <- BackupMaxGen, Events <- BackupEvents,
  gen <- poolGen, catalog <- poolCatalog, status <- poolStatus,
  inflight <- poolInflight, slots <- poolSlots, resting <- poolResting,
  picks <- poolPicks, setting <- poolSetting, pc <- poolPc, rules <- poolRules,
  held <- poolHeld, failed <- poolFailed, maxTry <- poolMaxTry, first <- poolFirst,
  hits <- poolHits, limited <- poolLimited, second <- poolSecond,
  notified <- poolNotified, late <- poolLate, full <- poolFull,
  after429 <- poolAfter429

LEMMA QueueParameters == Queues!QueueAssumption!:
BY ServiceAssumption DEF IsFiniteSet, Queues!IsFiniteSet

LEMMA PoolParametersHold == Leases!PoolParameters
BY ServiceAssumption DEF Pool!PoolParameters, Leases!PoolParameters, Pool!IsFiniteSet,
   Leases!IsFiniteSet, Pool!Request, Leases!Request, Pool!AnyEvent, Leases!AnyEvent

LEMMA BackupParametersHold == BackupLeases!PoolParameters
BY ServiceAssumption DEF Failover!PoolParameters, BackupLeases!PoolParameters,
   Failover!IsFiniteSet, BackupLeases!IsFiniteSet, Failover!Request,
   BackupLeases!Request, Failover!AnyEvent, BackupLeases!AnyEvent

LEMMA QueueStarts ==
  ASSUME ServiceInit, service = "queue"
  PROVE  Queues!Init
BY DEF ServiceInit, Queue!Init, Queues!Init, Queue!NoJob, Queues!NoJob,
       Queue!NotFinished, Queues!NotFinished

LEMMA QueueSteps ==
  ASSUME Queue!Next
  PROVE  Queues!Next
BY DEF Queue!Next, Queues!Next, Queue!Environment, Queues!Environment, Queue!TaskStep,
       Queues!TaskStep, Queue!ClientStep, Queues!ClientStep, Queue!ClearQueue,
       Queues!ClearQueue, Queue!Reap, Queues!Reap, Queue!CacheExpires,
       Queues!CacheExpires, Queue!ClearCache, Queues!ClearCache, Queue!Tick,
       Queues!Tick, Queue!PoolChanges, Queues!PoolChanges, Queue!SettingChanges,
       Queues!SettingChanges, Queue!HandlerReadsCapacity, Queues!HandlerReadsCapacity,
       Queue!HandlerTriesSlot, Queues!HandlerTriesSlot, Queue!Enqueue, Queues!Enqueue,
       Queue!Spawn, Queues!Spawn, Queue!WorkerChecks, Queues!WorkerChecks,
       Queue!WorkerReadsCapacity, Queues!WorkerReadsCapacity, Queue!WorkerTriesSlot,
       Queues!WorkerTriesSlot, Queue!Park, Queues!Park, Queue!SlotWaitElapsed,
       Queues!SlotWaitElapsed, Queue!Start, Queues!Start, Queue!OpOutcome,
       Queues!OpOutcome, Queue!HandlerOpEnds, Queues!HandlerOpEnds, Queue!WorkerOpEnds,
       Queues!WorkerOpEnds, Queue!Finish, Queues!Finish, Queue!Release, Queues!Release,
       Queue!Dispatch, Queues!Dispatch, Queue!Disconnect, Queues!Disconnect,
       Queue!Poll, Queues!Poll, Queue!Abandon, Queues!Abandon, Queue!Cancel,
       Queues!Cancel, Queue!Prune, Queues!Prune, Queue!Live, Queues!Live, Queue!Ended,
       Queues!Ended, Queue!env, Queues!env, Queue!gate, Queues!gate, Queue!task,
       Queues!task, Queue!AgeJob, Queues!AgeJob, Queue!table, Queues!table,
       Queue!Capacity, Queues!Capacity, Queue!TryAcquire, Queues!TryAcquire,
       Queue!OverCapacity, Queues!OverCapacity, Queue!Cardinality, Queues!Cardinality,
       Queue!Pending, Queues!Pending, Queue!NewJob, Queues!NewJob, Queue!Touched,
       Queues!Touched, Queue!CacheAnswer, Queues!CacheAnswer, Queue!PruneJob,
       Queues!PruneJob, Queue!Smaller, Queues!Smaller, Queue!AtLeastOne,
       Queues!AtLeastOne, Queue!MAX_QUEUE_FACTOR, Queues!MAX_QUEUE_FACTOR,
       Queue!NotFinished, Queues!NotFinished, Queue!NoJob, Queues!NoJob

LEMMA Queue_QueueBound ==
  ASSUME Queues!QueueBound
  PROVE  Queue!QueueBound
BY DEF Queue!QueueBound, Queues!QueueBound, Queue!WithinSomeGate,
       Queues!WithinSomeGate, Queue!Cardinality, Queues!Cardinality, Queue!Pending,
       Queues!Pending, Queue!AtLeastOne, Queues!AtLeastOne, Queue!Capacity,
       Queues!Capacity, Queue!Smaller, Queues!Smaller

LEMMA QueueAlone ==
  ASSUME [ServiceNext]_serviceVars, service = "queue"
  PROVE  [Queues!Next]_Queues!vars /\ (service = "queue")'
BY QueueSteps
DEF ServiceNext, serviceVars, QueueMoves, PoolMoves, FailoverMoves, queueVars,
    Queues!vars

LEMMA PoolStarts ==
  ASSUME ServiceInit, service = "pool"
  PROVE  Leases!Init
BY DEF ServiceInit, Pool!Init, Leases!Init, Pool!Object, Leases!Object, Pool!Kind,
       Leases!Kind, Pool!Request, Leases!Request, Pool!None, Leases!None

LEMMA PoolSteps ==
  ASSUME Pool!Next
  PROVE  Leases!Next
BY DEF Pool!Next, Leases!Next, Pool!Request, Leases!Request, Pool!RequestStep,
       Leases!RequestStep, Pool!Surroundings, Leases!Surroundings, Pool!TrackStarts,
       Leases!TrackStarts, Pool!MetaStarts, Leases!MetaStarts, Pool!Register,
       Leases!Register, Pool!TryLease, Leases!TryLease, Pool!Sleep, Leases!Sleep,
       Pool!TimerFires, Leases!TimerFires, Pool!LeaseEnds, Leases!LeaseEnds,
       Pool!LeaseFails, Leases!LeaseFails, Pool!LeaseRateLimited,
       Leases!LeaseRateLimited, Pool!ClaimSlot, Leases!ClaimSlot, Pool!SlotEnds,
       Leases!SlotEnds, Pool!SlotRateLimited, Leases!SlotRateLimited, Pool!SlotFails,
       Leases!SlotFails, Pool!Disconnect, Leases!Disconnect, Pool!WaitOver,
       Leases!WaitOver, Pool!RestEnds, Leases!RestEnds, Pool!HourPasses,
       Leases!HourPasses, Pool!StatusChanges, Leases!StatusChanges,
       Pool!SetAccountCatalog, Leases!SetAccountCatalog, Pool!UpdateAccount,
       Leases!UpdateAccount, Pool!AdoptRecord, Leases!AdoptRecord, Pool!ChangeSettings,
       Leases!ChangeSettings, Pool!EnterPool, Leases!EnterPool, Pool!pool, Leases!pool,
       Pool!waiting, Leases!waiting, Pool!loop, Leases!loop, Pool!Eligible,
       Leases!Eligible, Pool!Current, Leases!Current, Pool!KindOf, Leases!KindOf,
       Pool!NoteSelection, Leases!NoteSelection, Pool!Usable, Leases!Usable,
       Pool!PoolInflight, Leases!PoolInflight, Pool!DropLease, Leases!DropLease,
       Pool!Exhausted, Leases!Exhausted, Pool!Cardinality, Leases!Cardinality,
       Pool!Begin, Leases!Begin, Pool!Pause, Leases!Pause, Pool!Schedule,
       Leases!Schedule, Pool!CatalogReady, Leases!CatalogReady, Pool!SlotFree,
       Leases!SlotFree, Pool!OverflowToPool, Leases!OverflowToPool, Pool!DropSlot,
       Leases!DropSlot, Pool!CarryOver, Leases!CarryOver, Pool!PlaybackCount,
       Leases!PlaybackCount, Pool!None, Leases!None, Pool!Notify, Leases!Notify

LEMMA Pool_TypeOK ==
  ASSUME Leases!TypeOK
  PROVE  Pool!TypeOK
BY DEF Pool!TypeOK, Leases!TypeOK, Pool!Object, Leases!Object, Pool!Kind, Leases!Kind,
       Pool!Request, Leases!Request, Pool!None, Leases!None

LEMMA Pool_CountersExact ==
  ASSUME Leases!CountersExact
  PROVE  Pool!CountersExact
BY DEF Pool!CountersExact, Leases!CountersExact, Pool!Object, Leases!Object, Pool!Kind,
       Leases!Kind, Pool!Cardinality, Leases!Cardinality, Pool!PoolHolders,
       Leases!PoolHolders, Pool!KindOf, Leases!KindOf, Pool!SlotHolders,
       Leases!SlotHolders, Pool!Request, Leases!Request

LEMMA Pool_LimitRespected ==
  ASSUME Leases!LimitRespected
  PROVE  Pool!LimitRespected
BY DEF Pool!LimitRespected, Leases!LimitRespected, Pool!Object, Leases!Object,
       Pool!PoolHolders, Leases!PoolHolders, Pool!SlotHolders, Leases!SlotHolders,
       Pool!Cardinality, Leases!Cardinality, Pool!Request, Leases!Request

LEMMA Pool_NoMissedRelease ==
  ASSUME Leases!NoMissedRelease
  PROVE  Pool!NoMissedRelease
BY DEF Pool!NoMissedRelease, Leases!NoMissedRelease, Pool!Request, Leases!Request,
       Pool!PoolInflight, Leases!PoolInflight

LEMMA Pool_FallbacksBounded ==
  ASSUME Leases!FallbacksBounded
  PROVE  Pool!FallbacksBounded
BY DEF Pool!FallbacksBounded, Leases!FallbacksBounded, Pool!Request, Leases!Request

LEMMA PoolAlone ==
  ASSUME [ServiceNext]_serviceVars, service = "pool"
  PROVE  [Leases!Next]_Leases!vars /\ (service = "pool")'
BY PoolSteps
DEF ServiceNext, serviceVars, QueueMoves, PoolMoves, FailoverMoves, poolVars,
    Leases!vars

LEMMA FailoverStarts ==
  ASSUME ServiceInit, service = "failover"
  PROVE  BackupLeases!Init
BY DEF ServiceInit, Failover!Init, BackupLeases!Init, Failover!Object,
       BackupLeases!Object, Failover!Kind, BackupLeases!Kind, Failover!Request,
       BackupLeases!Request, Failover!None, BackupLeases!None

LEMMA FailoverSteps ==
  ASSUME Failover!Next
  PROVE  BackupLeases!Next
BY DEF Failover!Next, BackupLeases!Next, Failover!Request, BackupLeases!Request,
       Failover!RequestStep, BackupLeases!RequestStep, Failover!Surroundings,
       BackupLeases!Surroundings, Failover!TrackStarts, BackupLeases!TrackStarts,
       Failover!MetaStarts, BackupLeases!MetaStarts, Failover!Register,
       BackupLeases!Register, Failover!TryLease, BackupLeases!TryLease, Failover!Sleep,
       BackupLeases!Sleep, Failover!TimerFires, BackupLeases!TimerFires,
       Failover!LeaseEnds, BackupLeases!LeaseEnds, Failover!LeaseFails,
       BackupLeases!LeaseFails, Failover!LeaseRateLimited,
       BackupLeases!LeaseRateLimited, Failover!ClaimSlot, BackupLeases!ClaimSlot,
       Failover!SlotEnds, BackupLeases!SlotEnds, Failover!SlotRateLimited,
       BackupLeases!SlotRateLimited, Failover!SlotFails, BackupLeases!SlotFails,
       Failover!Disconnect, BackupLeases!Disconnect, Failover!WaitOver,
       BackupLeases!WaitOver, Failover!RestEnds, BackupLeases!RestEnds,
       Failover!HourPasses, BackupLeases!HourPasses, Failover!StatusChanges,
       BackupLeases!StatusChanges, Failover!SetAccountCatalog,
       BackupLeases!SetAccountCatalog, Failover!UpdateAccount,
       BackupLeases!UpdateAccount, Failover!AdoptRecord, BackupLeases!AdoptRecord,
       Failover!ChangeSettings, BackupLeases!ChangeSettings, Failover!EnterPool,
       BackupLeases!EnterPool, Failover!pool, BackupLeases!pool, Failover!waiting,
       BackupLeases!waiting, Failover!loop, BackupLeases!loop, Failover!Eligible,
       BackupLeases!Eligible, Failover!Current, BackupLeases!Current, Failover!KindOf,
       BackupLeases!KindOf, Failover!NoteSelection, BackupLeases!NoteSelection,
       Failover!Usable, BackupLeases!Usable, Failover!PoolInflight,
       BackupLeases!PoolInflight, Failover!DropLease, BackupLeases!DropLease,
       Failover!Exhausted, BackupLeases!Exhausted, Failover!Cardinality,
       BackupLeases!Cardinality, Failover!Begin, BackupLeases!Begin, Failover!Pause,
       BackupLeases!Pause, Failover!Schedule, BackupLeases!Schedule,
       Failover!CatalogReady, BackupLeases!CatalogReady, Failover!SlotFree,
       BackupLeases!SlotFree, Failover!OverflowToPool, BackupLeases!OverflowToPool,
       Failover!DropSlot, BackupLeases!DropSlot, Failover!CarryOver,
       BackupLeases!CarryOver, Failover!PlaybackCount, BackupLeases!PlaybackCount,
       Failover!None, BackupLeases!None, Failover!Notify, BackupLeases!Notify

LEMMA Failover_TypeOK ==
  ASSUME BackupLeases!TypeOK
  PROVE  Failover!TypeOK
BY DEF Failover!TypeOK, BackupLeases!TypeOK, Failover!Object, BackupLeases!Object,
       Failover!Kind, BackupLeases!Kind, Failover!Request, BackupLeases!Request,
       Failover!None, BackupLeases!None

LEMMA Failover_CountersExact ==
  ASSUME BackupLeases!CountersExact
  PROVE  Failover!CountersExact
BY DEF Failover!CountersExact, BackupLeases!CountersExact, Failover!Object,
       BackupLeases!Object, Failover!Kind, BackupLeases!Kind, Failover!Cardinality,
       BackupLeases!Cardinality, Failover!PoolHolders, BackupLeases!PoolHolders,
       Failover!KindOf, BackupLeases!KindOf, Failover!SlotHolders,
       BackupLeases!SlotHolders, Failover!Request, BackupLeases!Request

LEMMA Failover_LimitRespected ==
  ASSUME BackupLeases!LimitRespected
  PROVE  Failover!LimitRespected
BY DEF Failover!LimitRespected, BackupLeases!LimitRespected, Failover!Object,
       BackupLeases!Object, Failover!PoolHolders, BackupLeases!PoolHolders,
       Failover!SlotHolders, BackupLeases!SlotHolders, Failover!Cardinality,
       BackupLeases!Cardinality, Failover!Request, BackupLeases!Request

LEMMA Failover_NoMissedRelease ==
  ASSUME BackupLeases!NoMissedRelease
  PROVE  Failover!NoMissedRelease
BY DEF Failover!NoMissedRelease, BackupLeases!NoMissedRelease, Failover!Request,
       BackupLeases!Request, Failover!PoolInflight, BackupLeases!PoolInflight

LEMMA Failover_FallbacksBounded ==
  ASSUME BackupLeases!FallbacksBounded
  PROVE  Failover!FallbacksBounded
BY DEF Failover!FallbacksBounded, BackupLeases!FallbacksBounded, Failover!Request,
       BackupLeases!Request

LEMMA FailoverAlone ==
  ASSUME [ServiceNext]_serviceVars, service = "failover"
  PROVE  [BackupLeases!Next]_BackupLeases!vars /\ (service = "failover")'
BY FailoverSteps
DEF ServiceNext, serviceVars, QueueMoves, PoolMoves, FailoverMoves, poolVars,
    BackupLeases!vars

LEMMA ServiceStays ==
  ASSUME [ServiceNext]_serviceVars
  PROVE  UNCHANGED service
BY DEF ServiceNext, serviceVars, QueueMoves, PoolMoves, FailoverMoves

\* enqueue_playback, as it runs under the workers of the pool: the pending jobs never exceed
\* what a gate that was open allows, for any number of handlers.
THEOREM QueueStaysBounded == ServiceSpec => []QueueBound
<1>1. Queues!Spec => []Queues!QueueBound
  BY QueueParameters, Queues!QueueNeverLonger
<1>2. ServiceInit /\ service = "queue" => Queues!Init
  BY QueueStarts
<1>3. [ServiceNext]_serviceVars /\ service = "queue"
        => [Queues!Next]_Queues!vars /\ (service = "queue")'
  BY QueueAlone
<1>4. [ServiceNext]_serviceVars /\ ~(service = "queue") => ~(service = "queue")'
  BY ServiceStays
<1>5. Queues!QueueBound => QueueBound
  BY Queue_QueueBound DEF QueueBound
<1>6. ~(service = "queue") => QueueBound
  BY DEF QueueBound
<1> QED
  BY <1>1, <1>2, <1>3, <1>4, <1>5, <1>6, PTL DEF ServiceSpec, Queues!Spec

LEMMA PoolExact == ServiceSpec => [](service = "pool" => Pool!TypeOK /\ Pool!CountersExact
  /\ Pool!LimitRespected)
<1>1. Leases!Spec => [](Leases!TypeOK /\ Leases!CountersExact)
  BY PoolParametersHold, Leases!CountersAreExact
<1>2. Leases!Spec => []Leases!LimitRespected
  BY PoolParametersHold, Leases!LimitsHold
<1>3. ServiceInit /\ service = "pool" => Leases!Init
  BY PoolStarts
<1>4. [ServiceNext]_serviceVars /\ service = "pool"
        => [Leases!Next]_Leases!vars /\ (service = "pool")'
  BY PoolAlone
<1>5. [ServiceNext]_serviceVars /\ ~(service = "pool") => ~(service = "pool")'
  BY ServiceStays
<1>6. /\ (Leases!TypeOK /\ Leases!CountersExact)
        /\ Leases!LimitRespected
      => (service = "pool" => Pool!TypeOK /\ Pool!CountersExact /\ Pool!LimitRespected)
  BY Pool_TypeOK, Pool_CountersExact, Pool_LimitRespected
<1>7. ~(service = "pool") => (service = "pool" => Pool!TypeOK /\ Pool!CountersExact
        /\ Pool!LimitRespected)
  OBVIOUS
<1> QED
  BY <1>1, <1>2, <1>3, <1>4, <1>5, <1>6, <1>7, PTL DEF ServiceSpec, Leases!Spec

LEMMA FailoverExact == ServiceSpec => [](service = "failover" => Failover!TypeOK
  /\ Failover!CountersExact /\ Failover!LimitRespected)
<1>1. BackupLeases!Spec => [](BackupLeases!TypeOK /\ BackupLeases!CountersExact)
  BY BackupParametersHold, BackupLeases!CountersAreExact
<1>2. BackupLeases!Spec => []BackupLeases!LimitRespected
  BY BackupParametersHold, BackupLeases!LimitsHold
<1>3. ServiceInit /\ service = "failover" => BackupLeases!Init
  BY FailoverStarts
<1>4. [ServiceNext]_serviceVars /\ service = "failover"
        => [BackupLeases!Next]_BackupLeases!vars /\ (service = "failover")'
  BY FailoverAlone
<1>5. [ServiceNext]_serviceVars /\ ~(service = "failover") => ~(service = "failover")'
  BY ServiceStays
<1>6. /\ (BackupLeases!TypeOK /\ BackupLeases!CountersExact)
        /\ BackupLeases!LimitRespected
      => (service = "failover" => Failover!TypeOK /\ Failover!CountersExact
        /\ Failover!LimitRespected)
  BY Failover_TypeOK, Failover_CountersExact, Failover_LimitRespected
<1>7. ~(service = "failover") => (service = "failover" => Failover!TypeOK
        /\ Failover!CountersExact /\ Failover!LimitRespected)
  OBVIOUS
<1> QED
  BY <1>1, <1>2, <1>3, <1>4, <1>5, <1>6, <1>7, PTL DEF ServiceSpec, BackupLeases!Spec

\* The counters of select_for_streaming and of the playback slots are the requests they count,
\* and no account object serves more of them than the widest limit, through edits, failed
\* attempts, failovers and clients that go away.
THEOREM LeasesAreSound == ServiceSpec => []LeasesSound
<1>1. ServiceSpec => [](service = "pool" => Pool!TypeOK /\ Pool!CountersExact
        /\ Pool!LimitRespected)
  BY PoolExact
<1>2. ServiceSpec => [](service = "failover" => Failover!TypeOK /\ Failover!CountersExact
        /\ Failover!LimitRespected)
  BY FailoverExact
<1> QED
  BY <1>1, <1>2, PTL DEF LeasesSound

LEMMA PoolWoken == ServiceSpec => [](service = "pool" => Pool!NoMissedRelease)
<1>1. Leases!Spec => []Leases!NoMissedRelease
  BY PoolParametersHold, Leases!NoReleaseMissed
<1>2. ServiceInit /\ service = "pool" => Leases!Init
  BY PoolStarts
<1>3. [ServiceNext]_serviceVars /\ service = "pool"
        => [Leases!Next]_Leases!vars /\ (service = "pool")'
  BY PoolAlone
<1>4. [ServiceNext]_serviceVars /\ ~(service = "pool") => ~(service = "pool")'
  BY ServiceStays
<1>5. Leases!NoMissedRelease => (service = "pool" => Pool!NoMissedRelease)
  BY Pool_NoMissedRelease
<1>6. ~(service = "pool") => (service = "pool" => Pool!NoMissedRelease)
  OBVIOUS
<1> QED
  BY <1>1, <1>2, <1>3, <1>4, <1>5, <1>6, PTL DEF ServiceSpec, Leases!Spec

LEMMA FailoverWoken == ServiceSpec => [](service = "failover" => Failover!NoMissedRelease)
<1>1. BackupLeases!Spec => []BackupLeases!NoMissedRelease
  BY BackupParametersHold, BackupLeases!NoReleaseMissed
<1>2. ServiceInit /\ service = "failover" => BackupLeases!Init
  BY FailoverStarts
<1>3. [ServiceNext]_serviceVars /\ service = "failover"
        => [BackupLeases!Next]_BackupLeases!vars /\ (service = "failover")'
  BY FailoverAlone
<1>4. [ServiceNext]_serviceVars /\ ~(service = "failover") => ~(service = "failover")'
  BY ServiceStays
<1>5. BackupLeases!NoMissedRelease => (service = "failover" => Failover!NoMissedRelease)
  BY Failover_NoMissedRelease
<1>6. ~(service = "failover") => (service = "failover" => Failover!NoMissedRelease)
  OBVIOUS
<1> QED
  BY <1>1, <1>2, <1>3, <1>4, <1>5, <1>6, PTL DEF ServiceSpec, BackupLeases!Spec

\* A request that goes to sleep on released has not missed the release of a slot since it
\* found all accounts full.
THEOREM ReleasesAreNotMissed == ServiceSpec => []PoolNoMissedRelease
<1>1. ServiceSpec => [](service = "pool" => Pool!NoMissedRelease)
  BY PoolWoken
<1>2. ServiceSpec => [](service = "failover" => Failover!NoMissedRelease)
  BY FailoverWoken
<1> QED
  BY <1>1, <1>2, PTL DEF PoolNoMissedRelease

LEMMA PoolLimited ==
  ASSUME Fallbacks >= 1
  PROVE  ServiceSpec => [](service = "pool" => Pool!FallbacksBounded)
<1>1. Leases!Spec => []Leases!FallbacksBounded
  BY PoolParametersHold, Leases!FallbacksHold
<1>2. ServiceInit /\ service = "pool" => Leases!Init
  BY PoolStarts
<1>3. [ServiceNext]_serviceVars /\ service = "pool"
        => [Leases!Next]_Leases!vars /\ (service = "pool")'
  BY PoolAlone
<1>4. [ServiceNext]_serviceVars /\ ~(service = "pool") => ~(service = "pool")'
  BY ServiceStays
<1>5. Leases!FallbacksBounded => (service = "pool" => Pool!FallbacksBounded)
  BY Pool_FallbacksBounded
<1>6. ~(service = "pool") => (service = "pool" => Pool!FallbacksBounded)
  OBVIOUS
<1> QED
  BY <1>1, <1>2, <1>3, <1>4, <1>5, <1>6, PTL DEF ServiceSpec, Leases!Spec

LEMMA FailoverLimited ==
  ASSUME Fallbacks >= 1
  PROVE  ServiceSpec => [](service = "failover" => Failover!FallbacksBounded)
<1>1. BackupLeases!Spec => []BackupLeases!FallbacksBounded
  BY BackupParametersHold, BackupLeases!FallbacksHold
<1>2. ServiceInit /\ service = "failover" => BackupLeases!Init
  BY FailoverStarts
<1>3. [ServiceNext]_serviceVars /\ service = "failover"
        => [BackupLeases!Next]_BackupLeases!vars /\ (service = "failover")'
  BY FailoverAlone
<1>4. [ServiceNext]_serviceVars /\ ~(service = "failover") => ~(service = "failover")'
  BY ServiceStays
<1>5. BackupLeases!FallbacksBounded => (service = "failover" => Failover!FallbacksBounded)
  BY Failover_FallbacksBounded
<1>6. ~(service = "failover") => (service = "failover" => Failover!FallbacksBounded)
  OBVIOUS
<1> QED
  BY <1>1, <1>2, <1>3, <1>4, <1>5, <1>6, PTL DEF ServiceSpec, BackupLeases!Spec

\* After a 429 a request tries at most RATE_LIMIT_FALLBACKS more accounts, in the pool whose
\* requests compete and in the one whose request fails over.
THEOREM FallbacksAreBounded ==
  ASSUME Fallbacks >= 1
  PROVE  ServiceSpec => []PoolFallbacksBounded
<1>1. ServiceSpec => [](service = "pool" => Pool!FallbacksBounded)
  BY PoolLimited
<1>2. ServiceSpec => [](service = "failover" => Failover!FallbacksBounded)
  BY FailoverLimited
<1> QED
  BY <1>1, <1>2, PTL DEF PoolFallbacksBounded

=============================================================================
