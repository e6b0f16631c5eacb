----------------------------- MODULE CacheProofs -----------------------------
(***************************************************************************)
(* The two caches of cache.rs, checked by TLAPS: the in-flight guard of    *)
(* ResponseCache for any number of requests, guards and ageing steps, and  *)
(* the verdicts of TrackIdentity for any tracks, recordings and calls.     *)
(***************************************************************************)
EXTENDS ResponseCache, FiniteSetTheorems, TLAPS

CONSTANTS Tracks, Recordings, Tolerance, Calls
VARIABLES catalog, verdicts, call
Id == INSTANCE TrackIdentity

-----------------------------------------------------------------------------
(* ResponseCache                                                           *)

Bounds == MaxAges \in Nat /\ MaxGuards \in Nat /\ MaxClears \in Nat

-----------------------------------------------------------------------------
(* The invariant                                                           *)

\* Whoever holds or waits for a guard has one that was created.
GuardsMade == /\ guard <= made
              /\ \A r \in Req : req[r].pc \in {"wait", "fetch"} => req[r].guard \in 1..made
              /\ \A r \in Req : bg[r].pc = "fetch" => bg[r].guard \in 1..made
              /\ \A r \in Req : req[r].pc = "start" => bg[r].pc = "none"

Leads(r, g) == req[r].pc = "fetch" /\ req[r].guard = g
Renews(r, g) == bg[r].pc = "fetch" /\ bg[r].guard = g

\* A guard that is held has one holder: a request that leads or a refresh.
OneHolder ==
  /\ \A r \in Req : \A g \in 1..made : Leads(r, g) \/ Renews(r, g) => g \in held
  /\ \A r, q \in Req : \A g \in 1..made : Leads(r, g) /\ Leads(q, g) => r = q
  /\ \A r, q \in Req : \A g \in 1..made : Renews(r, g) /\ Renews(q, g) => r = q
  /\ \A r, q \in Req : \A g \in 1..made : ~(Leads(r, g) /\ Renews(q, g))

\* While no answer is usable, one call is still due for every guard that no request
\* leads under, and one for the guard that comes next.
Unled == {g \in 1..made : \A r \in Req : ~Leads(r, g)}
Due == Cardinality(Unled) + NextGuard
Entitled == /\ FetchesJustified
            /\ ~Usable => fetches + Due <= excuses

CacheInv == TypeOK /\ GuardsMade /\ OneHolder /\ Entitled

-----------------------------------------------------------------------------
LEMMA CacheInit ==
  ASSUME Bounds, Init
  PROVE  CacheInv
<1>1. made = 0 /\ guard = 0 /\ held = {} /\ fetches = 0
  BY DEF Init
<1>2. TypeOK
  BY <1>1 DEF Init, TypeOK, Ages, Bounds
<1>3. GuardsMade /\ OneHolder
  BY <1>1 DEF Init, GuardsMade, OneHolder, Leads, Renews
<1>4. Unled = {}
  BY <1>1 DEF Unled
<1>5. Due = 1
  BY <1>1, <1>4, FS_EmptySet DEF Due, NextGuard
<1>6. Entitled
  BY <1>1, <1>5 DEF Init, Entitled, FetchesJustified, Usable
<1> QED
  BY <1>2, <1>3, <1>6 DEF CacheInv

\* What is due is a count.
LEMMA DueNat ==
  ASSUME TypeOK
  PROVE  /\ IsFiniteSet(Unled) /\ Cardinality(Unled) \in Nat /\ Cardinality(Unled) <= made
         /\ NextGuard \in 0..1 /\ Due \in Nat /\ Due <= made + NextGuard
<1>1. made \in Nat
  BY DEF TypeOK
<1>2. IsFiniteSet(1..made) /\ Cardinality(1..made) = made
  BY <1>1, FS_Interval
<1>3. Unled \in SUBSET (1..made)
  BY DEF Unled
<1>4. IsFiniteSet(Unled) /\ Cardinality(Unled) <= made
  BY <1>2, <1>3, FS_Subset
<1>5. Cardinality(Unled) \in Nat
  BY <1>4, FS_CardinalityType
<1>6. NextGuard \in 0..1
  BY DEF NextGuard
<1> QED
  BY <1>1, <1>4, <1>5, <1>6 DEF Due

\* Taking the guard of the key: it is the current one, or new.
LEMMA GetGuardMakes ==
  ASSUME Bounds, CacheInv, NEW g \in 1..MaxGuards, GetGuard(g)
  PROVE  /\ g \in 1..made' /\ guard' = g
         /\ guard' \in 0..MaxGuards /\ made' \in 0..MaxGuards /\ made <= made'
         /\ \/ g \in 1..made /\ made' = made /\ guard # 0
            \/ g = made + 1 /\ made' = g /\ guard = 0
<1>1. guard \in 0..MaxGuards /\ made \in 0..MaxGuards /\ guard <= made
  BY DEF CacheInv, TypeOK, GuardsMade
<1> QED
  BY <1>1 DEF GetGuard, Bounds

\* A step that leaves every leader and the guards alone keeps what is due.
LEMMA DueKept ==
  ASSUME made' = made, guard' = guard,
         \A r \in Req : \A g \in 1..made : Leads(r, g)' <=> Leads(r, g)
  PROVE  Due' = Due
<1>1. Unled' = Unled
  BY DEF Unled
<1> QED
  BY <1>1 DEF Due, NextGuard

\* Holders that only leave, and free what they held, keep OneHolder.
LEMMA HoldersLeave ==
  ASSUME OneHolder,
         \A r \in Req : \A g \in 1..made' :
           /\ Leads(r, g)' => g \in 1..made /\ Leads(r, g) /\ g \in held'
           /\ Renews(r, g)' => g \in 1..made /\ Renews(r, g) /\ g \in held'
  PROVE  OneHolder'
<1>1. \A r \in Req : \A g \in 1..made' : Leads(r, g)' \/ Renews(r, g)' => g \in held'
  OBVIOUS
<1>2. \A r, q \in Req : \A g \in 1..made' : Leads(r, g)' /\ Leads(q, g)' => r = q
  BY DEF OneHolder
<1>3. \A r, q \in Req : \A g \in 1..made' : Renews(r, g)' /\ Renews(q, g)' => r = q
  BY DEF OneHolder
<1>4. \A r, q \in Req : \A g \in 1..made' : ~(Leads(r, g)' /\ Renews(q, g)')
  BY DEF OneHolder
<1> QED
  BY <1>1, <1>2, <1>3, <1>4 DEF OneHolder

-----------------------------------------------------------------------------
(* One lemma per group of actions                                          *)

\* Looking an answer up, and finding one behind the lock, move neither guards nor
\* fetches.
LEMMA RequestMoves ==
  ASSUME Bounds, CacheInv, NEW r \in Req, NEW pc \in {"negative", "guard", "done"},
         req[r].pc # "fetch", req' = [req EXCEPT ![r].pc = pc],
         bg' = bg \/ (bg' = [bg EXCEPT ![r].pc = "guard"] /\ bg[r].pc # "fetch"),
         UNCHANGED <<entry, neg, guard, made, held, clears, ages, fetches, excuses>>
  PROVE  CacheInv'
<1>1. TypeOK /\ GuardsMade /\ OneHolder /\ Entitled
  BY DEF CacheInv
<1>2. /\ req \in [Req -> [pc : {"start", "negative", "guard", "wait", "fetch", "done"},
                          guard : 0..MaxGuards]]
      /\ bg \in [Req -> [pc : {"none", "guard", "fetch", "done"}, guard : 0..MaxGuards]]
  BY <1>1 DEF TypeOK
<1>3. req' \in [Req -> [pc : {"start", "negative", "guard", "wait", "fetch", "done"},
                        guard : 0..MaxGuards]]
  BY <1>2
<1>4. bg' \in [Req -> [pc : {"none", "guard", "fetch", "done"}, guard : 0..MaxGuards]]
  BY <1>2
<1>5. TypeOK'
  BY <1>1, <1>3, <1>4 DEF TypeOK
<1>6. \A q \in Req : /\ req'[q].pc \in {"wait", "fetch"} => req'[q] = req[q]
                     /\ req[q].pc = "fetch" => req'[q] = req[q]
                     /\ bg'[q].pc = "fetch" => bg'[q] = bg[q]
                     /\ bg[q].pc = "fetch" => bg'[q] = bg[q]
  BY <1>2
<1>7. /\ made' = made /\ guard' = guard /\ held' = held
      /\ \A q \in Req : \A g \in 1..made : Leads(q, g)' <=> Leads(q, g)
      /\ \A q \in Req : \A g \in 1..made : Renews(q, g)' <=> Renews(q, g)
  BY <1>6 DEF Leads, Renews
<1>8. GuardsMade'
  <2>1. req'[r].pc # "start" /\ \A q \in Req : q # r => req'[q] = req[q] /\ bg'[q] = bg[q]
    BY <1>2
  <2> QED
    BY <1>1, <1>6, <1>7, <2>1 DEF GuardsMade
<1>9. OneHolder'
  BY <1>1, <1>7, HoldersLeave DEF OneHolder
<1>10. Due' = Due
  BY <1>7, DueKept
<1>11. Usable' <=> Usable
  BY DEF Usable
<1>12. Entitled'
  BY <1>1, <1>10, <1>11 DEF Entitled, FetchesJustified
<1> QED
  BY <1>5, <1>8, <1>9, <1>12 DEF CacheInv

LEMMA LookupKeeps ==
  ASSUME Bounds, CacheInv, NEW r \in Req, Lookup(r) \/ LookupNegative(r)
  PROVE  CacheInv'
<1>1. /\ UNCHANGED <<entry, neg, guard, made, held, clears, ages, fetches, excuses>>
      /\ req[r].pc # "fetch"
  BY DEF Lookup, LookupNegative
<1>2. PICK pc \in {"negative", "guard", "done"} : req' = [req EXCEPT ![r].pc = pc]
  BY DEF Lookup, LookupNegative, Answered
<1>3. bg' = bg \/ (bg' = [bg EXCEPT ![r].pc = "guard"] /\ bg[r].pc # "fetch")
  BY DEF Lookup, LookupNegative, CacheInv, GuardsMade
<1> QED
  BY <1>1, <1>2, <1>3, RequestMoves

LEMMA TakeGuardKeeps ==
  ASSUME Bounds, CacheInv, NEW r \in Req, TakeGuard(r)
  PROVE  CacheInv'
<1>1. TypeOK /\ GuardsMade /\ OneHolder /\ Entitled
  BY DEF CacheInv
<1>2. PICK h \in 1..MaxGuards :
        GetGuard(h) /\ req' = [req EXCEPT ![r].pc = "wait", ![r].guard = h]
  BY DEF TakeGuard
<1>3. /\ req[r].pc = "guard"
      /\ UNCHANGED <<entry, neg, held, bg, clears, ages, fetches, excuses>>
  BY DEF TakeGuard
<1>4. /\ req \in [Req -> [pc : {"start", "negative", "guard", "wait", "fetch", "done"},
                          guard : 0..MaxGuards]]
      /\ made \in 0..MaxGuards /\ guard \in 0..MaxGuards /\ held \subseteq 1..made
  BY <1>1 DEF TypeOK
<1>5. /\ h \in 1..made' /\ guard' = h
      /\ guard' \in 0..MaxGuards /\ made' \in 0..MaxGuards /\ made <= made'
      /\ \/ h \in 1..made /\ made' = made /\ guard # 0
         \/ h = made + 1 /\ made' = h /\ guard = 0
  BY <1>2, GetGuardMakes
<1>6. held \subseteq 1..made'
  BY <1>4, <1>5
<1>7. req' \in [Req -> [pc : {"start", "negative", "guard", "wait", "fetch", "done"},
                        guard : 0..MaxGuards]]
  <2>1. h \in 0..MaxGuards
    BY DEF Bounds
  <2> QED
    BY <1>2, <1>4, <2>1
<1>8. TypeOK'
  BY <1>1, <1>3, <1>5, <1>6, <1>7 DEF TypeOK
<1>9. /\ req'[r].pc = "wait" /\ req'[r].guard = h
      /\ \A q \in Req : q # r => req'[q] = req[q]
  BY <1>2, <1>4
<1>10. GuardsMade'
  BY <1>1, <1>3, <1>4, <1>5, <1>9 DEF GuardsMade
<1>11. \A q \in Req : \A g \in 1..made' : Leads(q, g)' => g \in 1..made /\ Leads(q, g)
  BY <1>1, <1>9 DEF Leads, GuardsMade
<1>12. \A q \in Req : \A g \in 1..made' : Renews(q, g)' => g \in 1..made /\ Renews(q, g)
  BY <1>1, <1>3 DEF Renews, GuardsMade
<1>13. OneHolder'
  BY <1>1, <1>3, <1>11, <1>12, HoldersLeave DEF OneHolder
<1>14. \A q \in Req : \A g \in 1..made : Leads(q, g)' <=> Leads(q, g)
  BY <1>3, <1>9 DEF Leads
<1>15. Due' = Due
  <2>1. CASE made' = made /\ guard # 0
    <3>1. Unled' = Unled
      BY <1>14, <2>1 DEF Unled
    <3> QED
      BY <1>5, <2>1, <3>1 DEF Due, NextGuard
  <2>2. CASE h = made + 1 /\ made' = h /\ guard = 0
    <3>1. \A q \in Req : ~Leads(q, h)'
      BY <1>4, <1>11, <2>2
    <3>2. Unled' = Unled \cup {h}
      BY <1>4, <1>14, <2>2, <3>1 DEF Unled
    <3>3. h \notin Unled
      BY <1>4, <2>2 DEF Unled
    <3>4. Cardinality(Unled') = Cardinality(Unled) + 1
      BY <1>1, <3>2, <3>3, DueNat, FS_AddElement
    <3>5. NextGuard = 1 /\ NextGuard' = 0
      BY <1>5, <2>2 DEF NextGuard
    <3> QED
      BY <1>1, <3>4, <3>5, DueNat DEF Due
  <2> QED
    BY <1>5, <2>1, <2>2
<1>16. Usable' <=> Usable
  BY <1>3 DEF Usable
<1>17. Entitled'
  BY <1>1, <1>3, <1>15, <1>16 DEF Entitled, FetchesJustified
<1> QED
  BY <1>8, <1>10, <1>13, <1>17 DEF CacheInv

\* Behind the lock: a usable answer is served, else the request leads under its guard.
LEMMA LockedKeeps ==
  ASSUME Bounds, CacheInv, NEW r \in Req, Locked(r)
  PROVE  CacheInv'
<1>1. TypeOK /\ GuardsMade /\ OneHolder /\ Entitled
  BY DEF CacheInv
<1>2. /\ req[r].pc = "wait" /\ req[r].guard \notin held
      /\ UNCHANGED <<entry, neg, guard, made, bg, clears, ages, excuses>>
  BY DEF Locked
<1>3. CASE req' = [req EXCEPT ![r].pc = "done"] /\ UNCHANGED <<held, fetches>>
  BY <1>2, <1>3, RequestMoves
<1>4. CASE /\ ~Usable
           /\ req' = [req EXCEPT ![r].pc = "fetch"]
           /\ held' = held \cup {req[r].guard} /\ fetches' = fetches + 1
  <2> DEFINE h == req[r].guard
  <2>1. /\ req \in [Req -> [pc : {"start", "negative", "guard", "wait", "fetch", "done"},
                            guard : 0..MaxGuards]]
        /\ made \in 0..MaxGuards /\ held \subseteq 1..made /\ fetches \in Nat /\ excuses \in Nat
    BY <1>1 DEF TypeOK
  <2>2. h \in 1..made /\ h \notin held
    BY <1>1, <1>2 DEF GuardsMade
  <2>3. req' \in [Req -> [pc : {"start", "negative", "guard", "wait", "fetch", "done"},
                          guard : 0..MaxGuards]]
    BY <1>4, <2>1
  <2>4. TypeOK'
    BY <1>1, <1>2, <1>4, <2>2, <2>3 DEF TypeOK
  <2>5. /\ req'[r].pc = "fetch" /\ req'[r].guard = h
        /\ \A q \in Req : q # r => req'[q] = req[q]
    BY <1>4, <2>1
  <2>6. GuardsMade'
    BY <1>1, <1>2, <2>2, <2>5 DEF GuardsMade
  <2>7. \A q \in Req : \A g \in 1..made : Leads(q, g)' <=> Leads(q, g) \/ (q = r /\ g = h)
    BY <1>2, <2>2, <2>5 DEF Leads
  <2>8. \A q \in Req : \A g \in 1..made : Renews(q, g)' <=> Renews(q, g)
    BY <1>2 DEF Renews
  <2>9. \A q \in Req : ~Leads(q, h) /\ ~Renews(q, h)
    BY <1>1, <2>2 DEF OneHolder
  <2>10. OneHolder'
    <3>1. \A q \in Req : \A g \in 1..made' : Leads(q, g)' \/ Renews(q, g)' => g \in held'
      BY <1>1, <1>2, <1>4, <2>7, <2>8 DEF OneHolder
    <3>2. \A p, q \in Req : \A g \in 1..made' : Leads(p, g)' /\ Leads(q, g)' => p = q
      BY <1>1, <1>2, <2>7, <2>9 DEF OneHolder
    <3>3. \A p, q \in Req : \A g \in 1..made' : Renews(p, g)' /\ Renews(q, g)' => p = q
      BY <1>1, <1>2, <2>8 DEF OneHolder
    <3>4. \A p, q \in Req : \A g \in 1..made' : ~(Leads(p, g)' /\ Renews(q, g)')
      BY <1>1, <1>2, <2>7, <2>8, <2>9 DEF OneHolder
    <3> QED
      BY <3>1, <3>2, <3>3, <3>4 DEF OneHolder
  <2>11. h \in Unled /\ Unled' = Unled \ {h}
    BY <1>2, <2>2, <2>7, <2>9 DEF Unled
  <2>12. Cardinality(Unled') = Cardinality(Unled) - 1
    BY <1>1, <2>11, DueNat, FS_RemoveElement
  <2>13. Due' = Due - 1
    BY <1>1, <1>2, <2>12, DueNat DEF Due, NextGuard
  <2>14. Due \in Nat /\ fetches + Due <= excuses
    BY <1>1, <1>4, DueNat DEF Entitled
  <2>15. Due >= 1
    BY <1>1, <2>12, <2>4, DueNat, <1>2, <2>11, FS_EmptySet DEF Due
  <2>16. Usable' <=> Usable
    BY <1>2 DEF Usable
  <2>17. fetches' \in Nat /\ excuses' = excuses /\ fetches' = fetches + 1
    BY <1>2, <1>4, <2>1
  <2>18. Entitled'
    BY <2>1, <2>13, <2>14, <2>15, <2>16, <2>17 DEF Entitled, FetchesJustified
  <2> QED
    BY <2>4, <2>6, <2>10, <2>18 DEF CacheInv
<1> QED
  BY <1>3, <1>4 DEF Locked, Answered, Usable

\* A leader lets go of its guard: it leaves a usable answer, or one more call is due.
LEMMA LeaderLeaves ==
  ASSUME Bounds, CacheInv, NEW r \in Req,
         req[r].pc = "fetch", req' = [req EXCEPT ![r].pc = "done"],
         held' = held \ {req[r].guard},
         UNCHANGED <<guard, made, bg, clears, ages, fetches>>,
         entry' \in Ages, neg' \in {"none", "valid", "expired"},
         \/ Usable' /\ excuses' = excuses
         \/ (Usable' <=> Usable) /\ excuses' = excuses + 1
  PROVE  CacheInv'
<1> DEFINE h == req[r].guard
<1>1. TypeOK /\ GuardsMade /\ OneHolder /\ Entitled
  BY DEF CacheInv
<1>2. /\ req \in [Req -> [pc : {"start", "negative", "guard", "wait", "fetch", "done"},
                          guard : 0..MaxGuards]]
      /\ made \in 0..MaxGuards /\ held \subseteq 1..made /\ fetches \in Nat /\ excuses \in Nat
  BY <1>1 DEF TypeOK
<1>3. h \in 1..made /\ made' = made /\ guard' = guard
  BY <1>1 DEF GuardsMade
<1>4. req' \in [Req -> [pc : {"start", "negative", "guard", "wait", "fetch", "done"},
                        guard : 0..MaxGuards]]
  BY <1>2
<1>5. held' \subseteq 1..made' /\ excuses' \in Nat
  BY <1>2, <1>3
<1>6. TypeOK'
  BY <1>1, <1>4, <1>5 DEF TypeOK
<1>7. req'[r].pc = "done" /\ \A q \in Req : q # r => req'[q] = req[q]
  BY <1>2
<1>8. GuardsMade'
  BY <1>1, <1>3, <1>7 DEF GuardsMade
<1>9. \A q \in Req : \A g \in 1..made : Leads(q, g)' <=> Leads(q, g) /\ q # r
  BY <1>7 DEF Leads
<1>10. \A q \in Req : \A g \in 1..made : Renews(q, g)' <=> Renews(q, g)
  BY DEF Renews
<1>11. Leads(r, h)
  BY DEF Leads
<1>12. OneHolder'
  <2>1. \A q \in Req : \A g \in 1..made' : Leads(q, g)' => Leads(q, g) /\ g \in held'
    BY <1>1, <1>3, <1>9, <1>11 DEF OneHolder
  <2>2. \A q \in Req : \A g \in 1..made' : Renews(q, g)' => Renews(q, g) /\ g \in held'
    BY <1>1, <1>3, <1>10, <1>11 DEF OneHolder
  <2> QED
    BY <1>1, <1>3, <2>1, <2>2, HoldersLeave
<1>13. h \notin Unled /\ Unled' = Unled \cup {h}
  <2>1. \A q \in Req : q # r => ~Leads(q, h)
    BY <1>1, <1>3, <1>11 DEF OneHolder
  <2>2. \A q \in Req : \A g \in 1..made : g # h /\ Leads(q, g) => q # r
    BY DEF Leads
  <2>3. \A g \in 1..made :
          (\A q \in Req : ~Leads(q, g)') <=> (\A q \in Req : ~Leads(q, g)) \/ g = h
    BY <1>3, <1>9, <2>1, <2>2
  <2>4. h \notin Unled
    BY <1>11 DEF Unled
  <2> QED
    BY <1>3, <2>3, <2>4 DEF Unled
<1>14. Cardinality(Unled') = Cardinality(Unled) + 1
  BY <1>1, <1>13, DueNat, FS_AddElement
<1>15. NextGuard' = NextGuard
  BY <1>3 DEF NextGuard
<1>16. Due' = Due + 1 /\ Due \in Nat
  BY <1>1, <1>14, <1>15, DueNat DEF Due
<1>17. fetches <= excuses /\ (~Usable => fetches + Due <= excuses)
  BY <1>1 DEF Entitled, FetchesJustified
<1>18. fetches' <= excuses' /\ (~Usable' => fetches' + Due' <= excuses')
  <2>1. ~Usable' => ~Usable /\ excuses' = excuses + 1
    OBVIOUS
  <2> QED
    BY <1>2, <1>16, <1>17, <2>1
<1>19. Entitled'
  BY <1>18 DEF Entitled, FetchesJustified
<1> QED
  BY <1>6, <1>8, <1>12, <1>19 DEF CacheInv

LEMMA FetchedKeeps ==
  ASSUME Bounds, CacheInv, NEW r \in Req, Fetched(r)
  PROVE  CacheInv'
<1>1. /\ req[r].pc = "fetch" /\ req' = [req EXCEPT ![r].pc = "done"]
      /\ held' = held \ {req[r].guard} /\ UNCHANGED <<guard, made, bg, clears, ages, fetches>>
  BY DEF Fetched, Answered
<1>2. \/ entry' = "fresh" /\ UNCHANGED <<neg, excuses>>
      \/ neg' = "valid" /\ UNCHANGED <<entry, excuses>>
      \/ excuses' = excuses + 1 /\ UNCHANGED <<entry, neg>>
  BY DEF Fetched
<1>3. entry' \in Ages /\ neg' \in {"none", "valid", "expired"}
  BY <1>2 DEF CacheInv, TypeOK, Ages
<1>4. \/ Usable' /\ excuses' = excuses
      \/ (Usable' <=> Usable) /\ excuses' = excuses + 1
  BY <1>2 DEF Usable
<1> QED
  BY <1>1, <1>3, <1>4, LeaderLeaves

\* A client that goes away while it waits holds nothing; a leader frees its guard.
LEMMA DisconnectKeeps ==
  ASSUME Bounds, CacheInv, NEW r \in Req, Disconnect(r)
  PROVE  CacheInv'
<1>1. /\ req[r].pc \in {"wait", "fetch"} /\ req' = [req EXCEPT ![r].pc = "done"]
      /\ UNCHANGED <<entry, neg, guard, made, bg, clears, ages, fetches>>
  BY DEF Disconnect, Answered
<1>2. excuses \in Nat
  BY DEF CacheInv, TypeOK
<1>3. CASE req[r].pc = "wait"
  <2>1. held' = held /\ excuses' = excuses
    BY <1>2, <1>3 DEF Disconnect
  <2> QED
    BY <1>1, <1>3, <2>1, RequestMoves
<1>4. CASE req[r].pc = "fetch"
  <2>1. held' = held \ {req[r].guard} /\ excuses' = excuses + 1
    BY <1>4 DEF Disconnect
  <2>2. entry' \in Ages /\ neg' \in {"none", "valid", "expired"} /\ (Usable' <=> Usable)
    BY <1>1 DEF CacheInv, TypeOK, Usable
  <2> QED
    BY <1>1, <1>4, <2>1, <2>2, LeaderLeaves
<1> QED
  BY <1>1, <1>3, <1>4

\* A refresh takes a guard that is free, or gives up; its call is one of its own.
LEMMA RefreshStartsKeeps ==
  ASSUME Bounds, CacheInv, NEW r \in Req, RefreshStarts(r)
  PROVE  CacheInv'
<1>1. TypeOK /\ GuardsMade /\ OneHolder /\ Entitled
  BY DEF CacheInv
<1>2. PICK h \in 1..MaxGuards :
        /\ GetGuard(h)
        /\ IF h \in held
           THEN /\ bg' = [bg EXCEPT ![r].pc = "done"]
                /\ UNCHANGED <<held, fetches, excuses>>
           ELSE /\ bg' = [bg EXCEPT ![r] = [pc |-> "fetch", guard |-> h]]
                /\ held' = held \cup {h}
                /\ fetches' = fetches + 1
                /\ excuses' = excuses + 1
  BY DEF RefreshStarts
<1>3. bg[r].pc = "guard" /\ UNCHANGED <<entry, neg, req, clears, ages>>
  BY DEF RefreshStarts
<1>4. /\ bg \in [Req -> [pc : {"none", "guard", "fetch", "done"}, guard : 0..MaxGuards]]
      /\ made \in 0..MaxGuards /\ guard \in 0..MaxGuards /\ held \subseteq 1..made
      /\ fetches \in Nat /\ excuses \in Nat
  BY <1>1 DEF TypeOK
<1>5. /\ h \in 1..made' /\ guard' = h
      /\ guard' \in 0..MaxGuards /\ made' \in 0..MaxGuards /\ made <= made'
      /\ \/ h \in 1..made /\ made' = made /\ guard # 0
         \/ h = made + 1 /\ made' = h /\ guard = 0
  BY <1>2, GetGuardMakes
<1>6. h \in 0..MaxGuards
  BY DEF Bounds
<1>7. bg' \in [Req -> [pc : {"none", "guard", "fetch", "done"}, guard : 0..MaxGuards]]
  BY <1>2, <1>4, <1>6
<1>8. held' \subseteq 1..made' /\ fetches' \in Nat /\ excuses' \in Nat
  BY <1>2, <1>4, <1>5
<1>9. TypeOK'
  BY <1>1, <1>3, <1>5, <1>7, <1>8 DEF TypeOK
<1>10. \A q \in Req : q # r => bg'[q] = bg[q]
  BY <1>2, <1>4
<1>11. \/ h \in held /\ bg'[r].pc = "done"
       \/ h \notin held /\ bg'[r] = [pc |-> "fetch", guard |-> h]
  BY <1>2, <1>4
<1>12. bg'[r].pc = "fetch" => bg'[r].guard = h
  BY <1>11
<1>13. GuardsMade'
  BY <1>1, <1>3, <1>4, <1>5, <1>10, <1>12 DEF GuardsMade
<1>14. \A q \in Req : \A g \in 1..made' : Leads(q, g)' <=> g \in 1..made /\ Leads(q, g)
  BY <1>1, <1>3, <1>4, <1>5 DEF Leads, GuardsMade
<1>15. \A q \in Req : \A g \in 1..made' :
         Renews(q, g)' => \/ g \in 1..made /\ Renews(q, g)
                          \/ q = r /\ g = h /\ h \notin held
  BY <1>1, <1>3, <1>4, <1>5, <1>10, <1>11 DEF Renews, GuardsMade
<1>16. OneHolder'
  <2>1. \A g \in held : g \in held'
    BY <1>2
  <2>2. h \notin held => h \in held'
    BY <1>2
  <2>3. \A q \in Req : \A g \in 1..made' : Leads(q, g)' \/ Renews(q, g)' => g \in held'
    BY <1>1, <1>14, <1>15, <2>1, <2>2 DEF OneHolder
  <2>4. \A p, q \in Req : \A g \in 1..made' : Leads(p, g)' /\ Leads(q, g)' => p = q
    BY <1>1, <1>14 DEF OneHolder
  <2>5. \A q \in Req : \A g \in 1..made : Renews(q, g) => g \in held
    BY <1>1 DEF OneHolder
  <2>6. \A p, q \in Req : \A g \in 1..made' : Renews(p, g)' /\ Renews(q, g)' => p = q
    BY <1>1, <1>15, <2>5 DEF OneHolder
  <2>7. \A p, q \in Req : \A g \in 1..made' : ~(Leads(p, g)' /\ Renews(q, g)')
    BY <1>1, <1>14, <1>15 DEF OneHolder
  <2> QED
    BY <2>3, <2>4, <2>6, <2>7 DEF OneHolder
<1>17. Due' = Due
  <2>1. CASE made' = made /\ guard # 0
    <3>1. Unled' = Unled
      BY <1>14, <2>1 DEF Unled
    <3> QED
      BY <1>5, <2>1, <3>1 DEF Due, NextGuard
  <2>2. CASE h = made + 1 /\ made' = h /\ guard = 0
    <3>1. \A q \in Req : ~Leads(q, h)'
      BY <1>4, <1>14, <2>2
    <3>2. Unled' = Unled \cup {h}
      BY <1>4, <1>14, <2>2, <3>1 DEF Unled
    <3>3. h \notin Unled
      BY <1>4, <2>2 DEF Unled
    <3>4. Cardinality(Unled') = Cardinality(Unled) + 1
      BY <1>1, <3>2, <3>3, DueNat, FS_AddElement
    <3>5. NextGuard = 1 /\ NextGuard' = 0
      BY <1>5, <2>2 DEF NextGuard
    <3> QED
      BY <1>1, <3>4, <3>5, DueNat DEF Due
  <2> QED
    BY <1>5, <2>1, <2>2
<1>18. Usable' <=> Usable
  BY <1>3 DEF Usable
<1>19. \/ fetches' = fetches /\ excuses' = excuses
       \/ fetches' = fetches + 1 /\ excuses' = excuses + 1
  BY <1>2
<1>20. Due \in Nat /\ fetches <= excuses /\ (~Usable => fetches + Due <= excuses)
  BY <1>1, DueNat DEF Entitled, FetchesJustified
<1>21. fetches' <= excuses' /\ (~Usable' => fetches' + Due' <= excuses')
  BY <1>4, <1>17, <1>18, <1>19, <1>20
<1> QED
  BY <1>9, <1>13, <1>16, <1>21 DEF CacheInv, Entitled, FetchesJustified

LEMMA RefreshEndsKeeps ==
  ASSUME Bounds, CacheInv, NEW r \in Req, RefreshEnds(r)
  PROVE  CacheInv'
<1> DEFINE h == bg[r].guard
<1>1. TypeOK /\ GuardsMade /\ OneHolder /\ Entitled
  BY DEF CacheInv
<1>2. /\ bg[r].pc = "fetch" /\ bg' = [bg EXCEPT ![r].pc = "done"]
      /\ held' = held \ {h} /\ entry' \in {"fresh", entry}
      /\ UNCHANGED <<neg, guard, made, req, clears, ages, fetches, excuses>>
  BY DEF RefreshEnds
<1>3. /\ bg \in [Req -> [pc : {"none", "guard", "fetch", "done"}, guard : 0..MaxGuards]]
      /\ held \subseteq 1..made
  BY <1>1 DEF TypeOK
<1>4. bg' \in [Req -> [pc : {"none", "guard", "fetch", "done"}, guard : 0..MaxGuards]]
  BY <1>2, <1>3
<1>5. entry' \in Ages /\ held' \subseteq 1..made'
  BY <1>1, <1>2, <1>3 DEF TypeOK, Ages
<1>6. TypeOK'
  BY <1>1, <1>2, <1>4, <1>5 DEF TypeOK
<1>7. bg'[r].pc = "done" /\ \A q \in Req : q # r => bg'[q] = bg[q]
  BY <1>2, <1>3
<1>8. GuardsMade'
  BY <1>1, <1>2, <1>7 DEF GuardsMade
<1>9. h \in 1..made /\ Renews(r, h)
  BY <1>1, <1>2 DEF GuardsMade, Renews
<1>10. \A q \in Req : \A g \in 1..made : Leads(q, g)' <=> Leads(q, g)
  BY <1>2 DEF Leads
<1>11. \A q \in Req : \A g \in 1..made : Renews(q, g)' => Renews(q, g) /\ q # r
  BY <1>7 DEF Renews
<1>12. OneHolder'
  <2>1. \A q \in Req : \A g \in 1..made' : Leads(q, g)' => Leads(q, g) /\ g \in held'
    BY <1>1, <1>2, <1>9, <1>10 DEF OneHolder
  <2>2. \A q \in Req : \A g \in 1..made' : Renews(q, g)' => Renews(q, g) /\ g \in held'
    BY <1>1, <1>2, <1>9, <1>11 DEF OneHolder
  <2> QED
    BY <1>1, <1>2, <2>1, <2>2, HoldersLeave
<1>13. Due' = Due
  BY <1>2, <1>10, DueKept
<1>14. ~Usable' => ~Usable
  BY <1>2 DEF Usable
<1>15. Entitled'
  BY <1>1, <1>2, <1>13, <1>14 DEF Entitled, FetchesJustified
<1> QED
  BY <1>6, <1>8, <1>12, <1>15 DEF CacheInv

\* Time and the owner: what makes the last usable answer go gives every guard a call.
LEMMA AnswersGo ==
  ASSUME Bounds, CacheInv, EntryAges \/ NegativeAges \/ InvalidateAll
  PROVE  CacheInv'
<1>1. TypeOK /\ GuardsMade /\ OneHolder /\ Entitled
  BY DEF CacheInv
<1>2. MayAskAgain /\ UNCHANGED <<guard, made, held, req, bg, fetches>>
  BY DEF EntryAges, NegativeAges, InvalidateAll
<1>3. entry' \in Ages /\ neg' \in {"none", "valid", "expired"}
  BY <1>1 DEF EntryAges, NegativeAges, InvalidateAll, TypeOK, Ages
<1>4. ages' \in 0..MaxAges /\ clears' \in 0..MaxClears
  BY <1>1 DEF EntryAges, NegativeAges, InvalidateAll, TypeOK, Bounds
<1>5. made \in Nat /\ fetches \in Nat /\ excuses \in Nat /\ NextGuard \in 0..1
      /\ Due \in Nat /\ Due <= made + NextGuard
  BY <1>1, DueNat DEF TypeOK
<1>6. excuses' \in Nat
  BY <1>2, <1>5 DEF MayAskAgain
<1>7. TypeOK'
  BY <1>1, <1>2, <1>3, <1>4, <1>6 DEF TypeOK
<1>8. GuardsMade'
  BY <1>1, <1>2 DEF GuardsMade
<1>9. \A q \in Req : \A g \in 1..made : Leads(q, g)' <=> Leads(q, g)
  BY <1>2 DEF Leads
<1>10. \A q \in Req : \A g \in 1..made : Renews(q, g)' <=> Renews(q, g)
  BY <1>2 DEF Renews
<1>11. OneHolder'
  <2>1. \A q \in Req : \A g \in 1..made' : Leads(q, g)' => Leads(q, g) /\ g \in held'
    BY <1>1, <1>2, <1>9 DEF OneHolder
  <2>2. \A q \in Req : \A g \in 1..made' : Renews(q, g)' => Renews(q, g) /\ g \in held'
    BY <1>1, <1>2, <1>10 DEF OneHolder
  <2> QED
    BY <1>1, <1>2, <2>1, <2>2, HoldersLeave
<1>12. Due' = Due
  BY <1>2, <1>9, DueKept
<1>13. fetches <= excuses /\ (~Usable => fetches + Due <= excuses)
  BY <1>1 DEF Entitled, FetchesJustified
<1>14. fetches' <= excuses' /\ (~Usable' => fetches' + Due' <= excuses')
  <2>1. CASE Usable /\ ~Usable'
    <3>1. excuses' = excuses + (made + NextGuard)
      BY <1>2, <2>1 DEF MayAskAgain
    <3> QED
      BY <1>2, <1>5, <1>12, <1>13, <3>1
  <2>2. CASE ~(Usable /\ ~Usable')
    <3>1. excuses' = excuses
      BY <1>2, <1>5, <2>2 DEF MayAskAgain
    <3> QED
      BY <1>2, <1>5, <1>12, <1>13, <2>2, <3>1
  <2> QED
    BY <2>1, <2>2
<1> QED
  BY <1>7, <1>8, <1>11, <1>14 DEF CacheInv, Entitled, FetchesJustified

LEMMA GuardExpiresKeeps ==
  ASSUME Bounds, CacheInv, GuardExpires
  PROVE  CacheInv'
<1>1. TypeOK /\ GuardsMade /\ OneHolder /\ Entitled
  BY DEF CacheInv
<1>2. /\ guard # 0 /\ guard' = 0 /\ excuses' = excuses + 1
      /\ UNCHANGED <<entry, neg, made, held, req, bg, clears, ages, fetches>>
  BY DEF GuardExpires
<1>3. TypeOK'
  BY <1>1, <1>2 DEF TypeOK, Bounds
<1>4. GuardsMade'
  BY <1>1, <1>2 DEF GuardsMade, TypeOK
<1>5. \A q \in Req : \A g \in 1..made : Leads(q, g)' <=> Leads(q, g)
  BY <1>2 DEF Leads
<1>6. \A q \in Req : \A g \in 1..made : Renews(q, g)' <=> Renews(q, g)
  BY <1>2 DEF Renews
<1>7. OneHolder'
  <2>1. \A q \in Req : \A g \in 1..made' : Leads(q, g)' => Leads(q, g) /\ g \in held'
    BY <1>1, <1>2, <1>5 DEF OneHolder
  <2>2. \A q \in Req : \A g \in 1..made' : Renews(q, g)' => Renews(q, g) /\ g \in held'
    BY <1>1, <1>2, <1>6 DEF OneHolder
  <2> QED
    BY <1>1, <1>2, <2>1, <2>2, HoldersLeave
<1>8. Unled' = Unled
  BY <1>2, <1>5 DEF Unled
<1>9. NextGuard = 0 /\ NextGuard' = 1
  BY <1>2 DEF NextGuard
<1>10. Due' = Due + 1 /\ Due \in Nat
  BY <1>1, <1>8, <1>9, DueNat DEF Due
<1>11. (Usable' <=> Usable) /\ fetches \in Nat /\ excuses \in Nat
  BY <1>1, <1>2 DEF Usable, TypeOK
<1>12. Entitled'
  BY <1>1, <1>2, <1>10, <1>11 DEF Entitled, FetchesJustified
<1> QED
  BY <1>3, <1>4, <1>7, <1>12 DEF CacheInv

LEMMA CacheStep ==
  ASSUME Bounds, CacheInv, [Next]_vars
  PROVE  CacheInv'
<1>1. ASSUME NEW r \in Req, Handles(r)
      PROVE  CacheInv'
  BY <1>1, LookupKeeps, TakeGuardKeeps, LockedKeeps, FetchedKeeps DEF Handles
<1>2. ASSUME NEW r \in Req, Refreshes(r)
      PROVE  CacheInv'
  BY <1>2, RefreshStartsKeeps, RefreshEndsKeeps DEF Refreshes
<1>3. ASSUME NEW r \in Req, Disconnect(r)
      PROVE  CacheInv'
  BY <1>3, DisconnectKeeps
<1>4. CASE EntryAges \/ NegativeAges \/ InvalidateAll
  BY <1>4, AnswersGo
<1>5. CASE GuardExpires
  BY <1>5, GuardExpiresKeeps
<1>6. CASE UNCHANGED vars
  BY <1>6 DEF vars, CacheInv, TypeOK, GuardsMade, OneHolder, Leads, Renews, Entitled,
              FetchesJustified, Due, Unled, NextGuard, Usable
<1> QED
  BY <1>1, <1>2, <1>3, <1>4, <1>5, <1>6 DEF Next

LEMMA CacheInvariant ==
  ASSUME Bounds
  PROVE  Spec => []CacheInv
<1>1. Init => CacheInv
  BY CacheInit
<1>2. CacheInv /\ [Next]_vars => CacheInv'
  BY CacheStep
<1> QED
  BY <1>1, <1>2, PTL DEF Spec

\* Tasks with guards of their own are as many as their guards.
LEMMA OneEach ==
  ASSUME NEW S, NEW T, NEW n \in Nat, NEW f \in [S -> 1..n],
         \A x, y \in S : f[x] = f[y] => x = y,
         T = {f[x] : x \in S}
  PROVE  T \subseteq 1..n /\ IsFiniteSet(T) /\ Cardinality(S) = Cardinality(T)
<1>1. IsFiniteSet(1..n)
  BY FS_Interval
<1>2. T \subseteq 1..n
  OBVIOUS
<1>3. IsFiniteSet(T)
  BY <1>1, <1>2, FS_Subset
<1>4. f \in Injection(S, 1..n)
  BY DEF Injection, IsInjective
<1>5. IsFiniteSet(S)
  BY <1>1, <1>4, FS_Injection
<1>6. f \in [S -> T]
  OBVIOUS
<1>7. f \in Bijection(S, T)
  BY <1>6 DEF Bijection, Injection, Surjection, IsInjective
<1>8. ExistsBijection(S, T)
  BY <1>7 DEF ExistsBijection
<1>9. Cardinality(S) = Cardinality(T)
  BY <1>5, <1>8, FS_Bijection
<1> QED
  BY <1>2, <1>3, <1>9

\* There are never more upstream calls under way than guards were created, however many
\* requests for the key arrive and refreshes run: every call holds the guard it was
\* started under, and leaves it only when it ends (cache_responses, refresh_stale).
THEOREM CallsShareGuards ==
  ASSUME Bounds
  PROVE  Spec => []SingleFlight
<1>1. CacheInv => SingleFlight
  <2> SUFFICES ASSUME CacheInv
               PROVE  SingleFlight
    OBVIOUS
  <2> DEFINE L == {r \in Req : req[r].pc = "fetch"}
             B == {r \in Req : bg[r].pc = "fetch"}
             f == [r \in L |-> req[r].guard]
             b == [r \in B |-> bg[r].guard]
             F == {f[r] : r \in L}
             G == {b[r] : r \in B}
  <2>1. made \in Nat
    BY DEF CacheInv, TypeOK
  <2>2. /\ \A r \in L : r \in Req /\ req[r].guard \in 1..made /\ Leads(r, req[r].guard)
        /\ \A r \in B : r \in Req /\ bg[r].guard \in 1..made /\ Renews(r, bg[r].guard)
    BY DEF CacheInv, GuardsMade, Leads, Renews
  <2>3. f \in [L -> 1..made] /\ b \in [B -> 1..made]
    BY <2>2
  <2>4. \A p, q \in L : f[p] = f[q] => p = q
    BY <2>2 DEF CacheInv, OneHolder
  <2>5. \A p, q \in B : b[p] = b[q] => p = q
    BY <2>2 DEF CacheInv, OneHolder
  <2>6. \A p \in L : \A q \in B : f[p] # b[q]
    BY <2>2 DEF CacheInv, OneHolder
  <2>7. /\ F \subseteq 1..made /\ IsFiniteSet(F) /\ Cardinality(L) = Cardinality(F)
        /\ G \subseteq 1..made /\ IsFiniteSet(G) /\ Cardinality(B) = Cardinality(G)
        /\ F \cap G = {}
    <3> HIDE DEF f, b, L, B
    <3>1. F \subseteq 1..made /\ IsFiniteSet(F) /\ Cardinality(L) = Cardinality(F)
      BY <2>1, <2>3, <2>4, OneEach
    <3>2. G \subseteq 1..made /\ IsFiniteSet(G) /\ Cardinality(B) = Cardinality(G)
      BY <2>1, <2>3, <2>5, OneEach
    <3>3. F \cap G = {}
      BY <2>6
    <3> QED
      BY <3>1, <3>2, <3>3
  <2> HIDE DEF F, G, L, B
  <2>8. /\ Cardinality(F) \in Nat /\ Cardinality(G) \in Nat
        /\ Cardinality(F \cup G) = Cardinality(F) + Cardinality(G)
    <3>1. Cardinality(F \cup G) = Cardinality(F) + Cardinality(G) - Cardinality(F \cap G)
      BY <2>7, FS_Union
    <3>2. Cardinality(F) \in Nat /\ Cardinality(G) \in Nat
      BY <2>7, FS_CardinalityType
    <3>3. Cardinality(F \cap G) = 0
      <4>1. F \cap G = {}
        BY <2>7
      <4> QED
        BY <4>1, FS_EmptySet
    <3> QED
      BY <3>1, <3>2, <3>3
  <2>9. Cardinality(F \cup G) <= made
    <3>1. IsFiniteSet(1..made) /\ Cardinality(1..made) = made
      BY <2>1, FS_Interval
    <3>2. F \cup G \in SUBSET (1..made)
      BY <2>7
    <3> QED
      BY <3>1, <3>2, FS_Subset
  <2> QED
    BY <2>7, <2>8, <2>9 DEF SingleFlight, L, B
<1> QED
  BY <1>1, CacheInvariant, PTL

\* No answer that was cached is asked for twice: at any moment the calls made are covered
\* by the events that left requests without a usable answer, one for each guard they may
\* queue at.  The re-check behind the lock is what makes it so: a request that waited
\* leads only while no answer is usable.
THEOREM NoNeedlessFetch ==
  ASSUME Bounds
  PROVE  Spec => []FetchesJustified
<1>1. CacheInv => FetchesJustified
  BY DEF CacheInv, Entitled
<1> QED
  BY <1>1, CacheInvariant, PTL

-----------------------------------------------------------------------------
(* TrackIdentity                                                           *)

CallRec == [pc : {"idle", "compare", "read", "unknown", "served", "differs", "refused"},
            asked : Tracks, seen : Tracks,
            wanted : Recordings \cup {Id!Unread}, got : Recordings \cup {Id!Unread}]

IdentityTyped == /\ catalog \in [Tracks -> Recordings]
                 /\ verdicts \in [Id!Pairs -> {Id!NotCached, "same", "differs"}]
                 /\ call \in [Calls -> CallRec]

Compared(asked, seen) == Id!Difference(catalog[asked], catalog[seen])

\* A verdict in the cache is the outcome of the comparison, whoever left it there.
VerdictsTrue == \A x, y \in Tracks : verdicts[<<x, y>>] \in {Id!NotCached, Compared(x, y)}

\* What a call has read is what the catalog says of the track it read.
ReadsTrue == \A c \in Calls : /\ call[c].wanted \in {Id!Unread, catalog[call[c].asked]}
                              /\ call[c].got \in {Id!Unread, catalog[call[c].seen]}

IdentityInv == /\ IdentityTyped /\ VerdictsTrue /\ ReadsTrue
               /\ Id!ServedIsRequested /\ Id!VerdictsCompared

LEMMA DifferenceValues ==
  ASSUME NEW x, NEW y
  PROVE  Id!Difference(x, y) \in {"same", "differs"}
BY DEF Id!Difference

LEMMA FreshTyped ==
  ASSUME Tracks # {}
  PROVE  Id!Fresh \in CallRec
<1>1. (CHOOSE t \in Tracks : TRUE) \in Tracks
  OBVIOUS
<1> QED
  BY <1>1 DEF Id!Fresh, CallRec

LEMMA IdentityInit ==
  ASSUME Tracks # {}, Id!Init
  PROVE  IdentityInv
<1>1. IdentityTyped
  BY FreshTyped DEF Id!Init, IdentityTyped
<1>2. VerdictsTrue
  BY DEF Id!Init, VerdictsTrue, Id!Pairs
<1>3. ReadsTrue /\ Id!ServedIsRequested /\ Id!VerdictsCompared
  BY DEF Id!Init, ReadsTrue, Id!ServedIsRequested, Id!VerdictsCompared, Id!Fresh
<1> QED
  BY <1>1, <1>2, <1>3 DEF IdentityInv

\* A step of one call that keeps the cache: its record must stay truthful.
LEMMA CallMoves ==
  ASSUME IdentityInv, NEW c \in Calls, NEW r \in CallRec,
         call' = [call EXCEPT ![c] = r], UNCHANGED <<catalog, verdicts>>,
         r.wanted \in {Id!Unread, catalog[r.asked]}, r.got \in {Id!Unread, catalog[r.seen]},
         r.pc = "served" => Compared(r.asked, r.seen) = "same",
         r.pc = "differs" => Compared(r.asked, r.seen) = "differs"
  PROVE  IdentityInv'
<1> USE DEF IdentityInv
<1>1. call'[c] = r /\ \A d \in Calls : d # c => call'[d] = call[d]
  BY DEF IdentityTyped
<1>2. IdentityTyped'
  BY DEF IdentityTyped
<1>3. VerdictsTrue'
  BY DEF VerdictsTrue, Compared
<1>4. ReadsTrue'
  BY <1>1 DEF ReadsTrue
<1>5. Id!ServedIsRequested' /\ Id!VerdictsCompared'
  BY <1>1 DEF Id!ServedIsRequested, Id!VerdictsCompared, Compared
<1> QED
  BY <1>2, <1>3, <1>4, <1>5

LEMMA ReadingKeeps ==
  ASSUME Tracks # {}, IdentityInv, NEW c \in Calls,
         Id!Play(c) \/ Id!CachedVerdict(c) \/ Id!ReadWanted(c) \/ Id!ReadGot(c)
         \/ Id!Unreadable(c) \/ Id!Answered(c)
  PROVE  IdentityInv'
<1> USE DEF IdentityInv
<1>1. /\ call[c] \in CallRec
      /\ call[c].asked \in Tracks /\ call[c].seen \in Tracks
      /\ catalog[call[c].asked] \in Recordings /\ catalog[call[c].seen] \in Recordings
      /\ call[c].wanted \in {Id!Unread, catalog[call[c].asked]}
      /\ call[c].got \in {Id!Unread, catalog[call[c].seen]}
  BY DEF IdentityTyped, ReadsTrue, CallRec
<1>2. UNCHANGED <<catalog, verdicts>>
  BY DEF Id!Play, Id!CachedVerdict, Id!ReadWanted, Id!ReadGot, Id!Unreadable,
         Id!Answered
<1>3. ASSUME NEW pc \in {"read", "unknown", "served", "differs"}, Id!Goto(c, pc),
             pc = "served" => Compared(call[c].asked, call[c].seen) = "same",
             pc = "differs" => Compared(call[c].asked, call[c].seen) = "differs"
      PROVE  IdentityInv'
  <2> DEFINE r == [call[c] EXCEPT !.pc = pc]
  <2>1. r \in CallRec
    BY <1>1 DEF CallRec
  <2>2. /\ r.pc = pc /\ r.asked = call[c].asked /\ r.seen = call[c].seen
        /\ r.wanted = call[c].wanted /\ r.got = call[c].got
    BY <1>1 DEF CallRec
  <2>3. call' = [call EXCEPT ![c] = r]
    BY <1>3 DEF Id!Goto
  <2> HIDE DEF r
  <2> QED
    BY <1>1, <1>2, <1>3, <2>1, <2>2, <2>3, CallMoves
<1>4. CASE Id!Play(c)
  <2>1. PICK asked \in Tracks, seen \in Tracks :
          call' = [call EXCEPT ![c] = [Id!Fresh EXCEPT !.pc = "compare", !.asked = asked,
                                                    !.seen = seen]]
    BY <1>4 DEF Id!Play
  <2> DEFINE r == [Id!Fresh EXCEPT !.pc = "compare", !.asked = asked, !.seen = seen]
  <2>2. r \in CallRec
    BY FreshTyped DEF CallRec
  <2>3. r.wanted = Id!Unread /\ r.got = Id!Unread /\ r.pc = "compare"
    BY DEF Id!Fresh
  <2> HIDE DEF r
  <2> QED
    BY <1>2, <2>1, <2>2, <2>3, CallMoves DEF r
<1>5. CASE Id!CachedVerdict(c)
  <2> DEFINE v == verdicts[<<call[c].asked, call[c].seen>>]
  <2>1. v \in {Id!NotCached, Compared(call[c].asked, call[c].seen)}
    BY <1>1 DEF VerdictsTrue
  <2>2. Compared(call[c].asked, call[c].seen) \in {"same", "differs"}
    BY DifferenceValues DEF Compared
  <2> DEFINE w == CASE v = Id!NotCached -> "read"
                     [] v = "same" -> "served"
                     [] OTHER -> "differs"
  <2>3. Id!Goto(c, w)
    BY <1>5 DEF Id!CachedVerdict, Id!Key
  <2>8. /\ v = Id!NotCached => w = "read"
        /\ (v = "same" /\ v # Id!NotCached) => w = "served"
        /\ (v # "same" /\ v # Id!NotCached) => w = "differs"
    BY DEF Id!NotCached
  <2> HIDE DEF v, w
  <2>4. CASE v = Id!NotCached
    <3>1. w = "read"
      BY <2>8, <2>4
    <3>2. Id!Goto(c, "read")
      BY <2>3, <3>1, Zenon
    <3> QED
      BY <1>3, <3>2
  <2>5. CASE v = "same" /\ v # Id!NotCached
    <3>1. w = "served"
      BY <2>8, <2>5
    <3>2. Id!Goto(c, "served")
      BY <2>3, <3>1, Zenon
    <3> QED
      BY <1>3, <2>1, <2>5, <3>2 DEF v
  <2>6. CASE v # "same" /\ v # Id!NotCached
    <3>1. w = "differs"
      BY <2>8, <2>6
    <3>2. Id!Goto(c, "differs")
      BY <2>3, <3>1, Zenon
    <3> QED
      BY <1>3, <2>1, <2>2, <2>6, <3>2 DEF v
  <2> QED
    BY <2>4, <2>5, <2>6
<1>6. CASE Id!ReadWanted(c)
  <2> DEFINE r == [call[c] EXCEPT !.wanted = catalog[call[c].asked]]
  <2>1. r \in CallRec
    BY <1>1 DEF CallRec
  <2>2. /\ r.pc = "read" /\ r.asked = call[c].asked /\ r.seen = call[c].seen
        /\ r.wanted = catalog[call[c].asked] /\ r.got = call[c].got
    BY <1>1, <1>6 DEF CallRec, Id!ReadWanted
  <2>3. call' = [call EXCEPT ![c] = r]
    BY <1>6 DEF Id!ReadWanted
  <2> HIDE DEF r
  <2> QED
    BY <1>1, <1>2, <2>1, <2>2, <2>3, CallMoves
<1>7. CASE Id!ReadGot(c)
  <2> DEFINE r == [call[c] EXCEPT !.got = catalog[call[c].seen]]
  <2>1. r \in CallRec
    BY <1>1 DEF CallRec
  <2>2. /\ r.pc = "read" /\ r.asked = call[c].asked /\ r.seen = call[c].seen
        /\ r.wanted = call[c].wanted /\ r.got = catalog[call[c].seen]
    BY <1>1, <1>7 DEF CallRec, Id!ReadGot
  <2>3. call' = [call EXCEPT ![c] = r]
    BY <1>7 DEF Id!ReadGot
  <2> HIDE DEF r
  <2> QED
    BY <1>1, <1>2, <2>1, <2>2, <2>3, CallMoves
<1>8. CASE Id!Unreadable(c)
  BY <1>3, <1>8 DEF Id!Unreadable
<1>9. CASE Id!Answered(c)
  <2>1. call' = [call EXCEPT ![c] = Id!Fresh]
    BY <1>9 DEF Id!Answered
  <2>2. Id!Fresh.wanted = Id!Unread /\ Id!Fresh.got = Id!Unread /\ Id!Fresh.pc = "idle"
    BY DEF Id!Fresh
  <2> QED
    BY <1>2, <2>1, <2>2, FreshTyped, CallMoves
<1> QED
  BY <1>4, <1>5, <1>6, <1>7, <1>8, <1>9

\* A call that read both recordings judges by the catalog and leaves that verdict; one
\* that did not leaves none and serves nothing.
LEMMA JudgeKeeps ==
  ASSUME IdentityInv, NEW c \in Calls, Id!Judge(c)
  PROVE  IdentityInv'
<1> USE DEF IdentityInv
<1> DEFINE known == Id!Unread \notin {call[c].wanted, call[c].got}
           v == IF known THEN Id!Difference(call[c].wanted, call[c].got) ELSE "differs"
           next == IF v = "same" THEN "served" ELSE IF known THEN "differs" ELSE "refused"
           r == [call[c] EXCEPT !.pc = next]
<1>1. /\ call[c] \in CallRec /\ call[c].asked \in Tracks /\ call[c].seen \in Tracks
      /\ call[c].wanted \in {Id!Unread, catalog[call[c].asked]}
      /\ call[c].got \in {Id!Unread, catalog[call[c].seen]}
  BY DEF IdentityTyped, ReadsTrue, CallRec
<1>2. /\ UNCHANGED catalog /\ call' = [call EXCEPT ![c] = r]
      /\ verdicts' = IF known THEN [verdicts EXCEPT ![<<call[c].asked, call[c].seen>>] = v]
                     ELSE verdicts
  BY DEF Id!Judge, Id!Goto, Id!Cacheable, Id!Key
<1>3. known => v = Compared(call[c].asked, call[c].seen)
  BY <1>1 DEF Compared
<1>4. v \in {"same", "differs"} /\ (~known => v = "differs")
  BY DifferenceValues
<1>5. r \in CallRec
  BY <1>1 DEF CallRec
<1>6. /\ r.pc = next /\ r.asked = call[c].asked /\ r.seen = call[c].seen
      /\ r.wanted = call[c].wanted /\ r.got = call[c].got
  BY <1>1 DEF CallRec
<1>7. /\ next = "served" => Compared(r.asked, r.seen) = "same"
      /\ next = "differs" => Compared(r.asked, r.seen) = "differs"
  BY <1>3, <1>4, <1>6
<1> HIDE DEF known, v, next, r
<1>8. call'[c] = r /\ \A d \in Calls : d # c => call'[d] = call[d]
  BY <1>2 DEF IdentityTyped
<1>9. IdentityTyped'
  BY <1>1, <1>2, <1>4, <1>5 DEF IdentityTyped, Id!Pairs
<1>10. VerdictsTrue'
  <2>1. CASE known
    <3>1. verdicts' = [verdicts EXCEPT ![<<call[c].asked, call[c].seen>>] = v]
      BY <1>2, <2>1
    <3> SUFFICES ASSUME NEW x \in Tracks, NEW y \in Tracks
                 PROVE  verdicts'[<<x, y>>] \in {Id!NotCached, Compared(x, y)'}
      BY DEF VerdictsTrue
    <3>2. Compared(x, y)' = Compared(x, y)
      BY <1>2 DEF Compared
    <3>3. CASE x = call[c].asked /\ y = call[c].seen
      BY <1>3, <2>1, <3>1, <3>2, <3>3 DEF IdentityTyped, Id!Pairs
    <3>4. CASE ~(x = call[c].asked /\ y = call[c].seen)
      <4>1. verdicts'[<<x, y>>] = verdicts[<<x, y>>]
        BY <3>1, <3>4 DEF IdentityTyped, Id!Pairs
      <4> QED
        BY <3>2, <4>1 DEF VerdictsTrue
    <3> QED
      BY <3>3, <3>4
  <2>2. CASE ~known
    BY <1>2, <2>2 DEF VerdictsTrue, Compared
  <2> QED
    BY <2>1, <2>2
<1>11. ReadsTrue'
  BY <1>1, <1>2, <1>6, <1>8 DEF ReadsTrue
<1>12. Id!ServedIsRequested' /\ Id!VerdictsCompared'
  BY <1>2, <1>6, <1>7, <1>8 DEF Id!ServedIsRequested, Id!VerdictsCompared, Compared
<1> QED
  BY <1>9, <1>10, <1>11, <1>12

LEMMA IdentityStep ==
  ASSUME Tracks # {}, IdentityInv, [Id!Next]_Id!vars
  PROVE  IdentityInv'
<1>1. ASSUME NEW c \in Calls,
             Id!Play(c) \/ Id!CachedVerdict(c) \/ Id!ReadWanted(c) \/ Id!ReadGot(c)
             \/ Id!Unreadable(c) \/ Id!Answered(c)
      PROVE  IdentityInv'
  BY <1>1, ReadingKeeps
<1>2. ASSUME NEW c \in Calls, Id!Judge(c)
      PROVE  IdentityInv'
  BY <1>2, JudgeKeeps
<1>3. CASE Id!Forgotten
  <2>1. PICK k \in Id!Pairs : verdicts' = [verdicts EXCEPT ![k] = Id!NotCached]
    BY <1>3 DEF Id!Forgotten
  <2>2. UNCHANGED <<catalog, call>>
    BY <1>3 DEF Id!Forgotten
  <2>3. IdentityTyped'
    BY <2>1, <2>2 DEF IdentityInv, IdentityTyped
  <2>4. \A x, y \in Tracks : verdicts'[<<x, y>>] \in {Id!NotCached, verdicts[<<x, y>>]}
    BY <2>1 DEF IdentityInv, IdentityTyped, Id!Pairs
  <2> QED
    BY <2>2, <2>3, <2>4 DEF IdentityInv, VerdictsTrue, ReadsTrue, Id!ServedIsRequested,
                            Id!VerdictsCompared, Compared
<1>4. CASE UNCHANGED Id!vars
  BY <1>4 DEF Id!vars, IdentityInv, IdentityTyped, VerdictsTrue, ReadsTrue,
              Id!ServedIsRequested, Id!VerdictsCompared, Compared
<1> QED
  BY <1>1, <1>2, <1>3, <1>4 DEF Id!Next

\* "Never serve track Y for track X": whatever fills, clears or races for the cache, audio
\* served under another id is of the recording that was asked for.
THEOREM NeverAnotherRecording ==
  ASSUME Tracks # {}
  PROVE  Id!Spec => []Id!ServedIsRequested
<1>1. Id!Init => IdentityInv
  BY IdentityInit
<1>2. IdentityInv /\ [Id!Next]_Id!vars => IdentityInv'
  BY IdentityStep
<1>3. IdentityInv => Id!ServedIsRequested
  BY DEF IdentityInv
<1> QED
  BY <1>1, <1>2, <1>3, PTL DEF Id!Spec

\* A re-release is refused for good only when its recording differs: a lookup that failed
\* leaves no verdict, so the next request looks again.
THEOREM RefusedOnlyIfDifferent ==
  ASSUME Tracks # {}
  PROVE  Id!Spec => []Id!VerdictsCompared
<1>1. Id!Init => IdentityInv
  BY IdentityInit
<1>2. IdentityInv /\ [Id!Next]_Id!vars => IdentityInv'
  BY IdentityStep
<1>3. IdentityInv => Id!VerdictsCompared
  BY DEF IdentityInv
<1> QED
  BY <1>1, <1>2, <1>3, PTL DEF Id!Spec

\* Every call names two tracks of the catalogue, and the cache holds verdicts on pairs.
THEOREM IdentityTypeCorrect ==
  ASSUME Tracks # {}
  PROVE  Id!Spec => []Id!TypeOK
<1>1. Id!Init => IdentityInv
  BY IdentityInit
<1>2. IdentityInv /\ [Id!Next]_Id!vars => IdentityInv'
  BY IdentityStep
<1>3. IdentityInv => Id!TypeOK
  BY DEF IdentityInv, IdentityTyped, CallRec, Id!TypeOK, Id!Verdicts
<1> QED
  BY <1>1, <1>2, <1>3, PTL DEF Id!Spec

\* Requests and refreshes are where their handlers can be, and guards are numbered in the
\* order in which they were created.
THEOREM CacheTypeCorrect ==
  ASSUME Bounds
  PROVE  Spec => []TypeOK
<1>1. CacheInv => TypeOK
  BY DEF CacheInv
<1> QED
  BY <1>1, CacheInvariant, PTL

=============================================================================
