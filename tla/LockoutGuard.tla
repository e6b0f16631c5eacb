---------------------------- MODULE LockoutGuard ----------------------------
(***************************************************************************)
(* The two per-address lockouts: AdminAuthGuard (auth_guard.rs) counts     *)
(* wrong admin credentials, ScannerGuard (scanner_guard.rs) counts requests*)
(* to scanner paths.  Both keep, under one mutex, a bounded table of       *)
(* addresses with a sliding window of events and a lock that expires.      *)
(* The variable `which` says whose table a behaviour is about.             *)
(*                                                                         *)
(* A request takes its time once, before it first asks the guard, and uses *)
(* it for every later call: between check and failed or clear other        *)
(* requests step, and the clock moves on.  Sessions are signed cookies and *)
(* leave no state; a valid one is a correct credential here.               *)
(***************************************************************************)
EXTENDS Naturals, Sequences, FiniteSets

CONSTANTS Ips,
          MaxReq,    \* requests, numbered in their order of arrival
          Guards,    \* subset of {"admin", "scanner"}
          Limit,     \* FAILURE_LIMIT / PROBE_LIMIT
          Window,    \* FAILURE_WINDOW / PROBE_WINDOW
          LockTime,  \* LOCK_DURATION / BAN_DURATION
          MaxIps,    \* MAX_IPS
          MaxTime    \* bound on the clock

VARIABLES which, clock,
          table,    \* [Ips -> activity or Nobody]
          cleaned,  \* last_cleanup
          req,      \* [Req -> [pc, ip, now]]
          hist,     \* history: [Ips -> Seq of recording times since the last clear]
          since     \* history: [Ips -> captured time of the request that locked]

vars == <<which, clock, table, cleaned, req, hist, since>>

Req == 1..MaxReq
Nobody == [events |-> << >>, until |-> 0, seen |-> 0, known |-> FALSE]
Elapsed(now, t) == IF now > t THEN now - t ELSE 0     \* duration_since saturates
Known(tb) == {ip \in Ips : tb[ip].known}
Locked(tb, ip, now) == tb[ip].until > now
Oldest(tb, S) == {ip \in S : \A o \in S : tb[ip].seen <= tb[o].seen}

---------------------------------------------------------------------------
(* The pieces of AdminAuthGuard::failed and ScannerGuard::check.           *)

\* At most once per window: addresses neither locked nor seen lately go.
CleanupDue(now) == Elapsed(now, cleaned) >= Window
Cleanup(tb, now) ==
  [ip \in Ips |-> IF Locked(tb, ip, now) \/ Elapsed(now, tb[ip].seen) < Window
                  THEN tb[ip] ELSE Nobody]

\* An expired lock starts with a clean count.
Unlock(tb, ip, now) ==
  IF tb[ip].until # 0 /\ ~Locked(tb, ip, now) THEN [tb EXCEPT ![ip] = Nobody] ELSE tb

\* Room for a new address: the one unseen for longest goes, unlocked ones first.
Victims_AnyOldest(tb) == Oldest(tb, Known(tb))
Victims(tb) ==
  LET free == {ip \in Known(tb) : tb[ip].until = 0}
  IN  IF free # {} THEN Oldest(tb, free) ELSE Oldest(tb, Known(tb))

Full(tb, ip) == ~tb[ip].known /\ Cardinality(Known(tb)) >= MaxIps

\* Only the front of the queue is dropped, as long as it is out of the window.
InWindow_KeepsAll(events, now) == events
InWindow(events, now) ==
  LET keep == {k \in 1..Len(events) : Elapsed(now, events[k]) < Window}
  IN  IF keep = {} THEN << >>
      ELSE SubSeq(events, CHOOSE k \in keep : \A l \in keep : k <= l, Len(events))

\* The event is counted; the one that reaches the limit starts the lock.
Record(tb, ip, now) ==
  LET events == Append(InWindow(tb[ip].events, now), now)
  IN  [tb EXCEPT ![ip] =
        IF Len(events) >= Limit
        THEN [events |-> << >>, until |-> now + LockTime, seen |-> now, known |-> TRUE]
        ELSE [events |-> events, until |-> tb[ip].until, seen |-> now, known |-> TRUE]]

\* Room, then the count.  With equal last_seen any of the oldest may be chosen.
Count(tb, ip, now) ==
  /\ \/ Full(tb, ip) /\ \E v \in Victims(tb) :
                          table' = Record([tb EXCEPT ![v] = Nobody], ip, now)
     \/ ~Full(tb, ip) /\ table' = Record(tb, ip, now)
  /\ hist' = [hist EXCEPT ![ip] = Append(@, clock)]
  /\ since' = [since EXCEPT ![ip] = IF Locked(table', ip, now) THEN now ELSE @]

---------------------------------------------------------------------------
Fresh(pc) == [pc |-> pc, ip |-> "none", now |-> 0]
Answered(r) == req' = [req EXCEPT ![r] = Fresh("done")]

\* A request arrives and reads the clock.
Arrive(r) ==
  /\ req[r].pc = "new"
  /\ \A q \in 1..(r - 1) : req[q].pc # "new"
  /\ \E ip \in Ips : req' = [req EXCEPT ![r] = [pc |-> "check", ip |-> ip, now |-> clock]]
  /\ UNCHANGED <<which, clock, table, cleaned, hist, since>>

\* AdminAuthGuard::check of login, admin_auth and enforce_api_key.
AdminCheck(r) ==
  LET ip == req[r].ip
  IN  /\ which = "admin"
      /\ req[r].pc = "check"
      /\ table' = Unlock(table, ip, req[r].now)
      /\ IF Locked(table, ip, req[r].now) THEN Answered(r)
         ELSE req' = [req EXCEPT ![r].pc = "judge"]
      /\ UNCHANGED <<which, clock, cleaned, hist, since>>

\* A correct key or a valid session: earlier mistakes are forgotten, a lock that
\* started since the check included.
Succeeded(r) ==
  /\ which = "admin"
  /\ req[r].pc = "judge"
  /\ table' = [table EXCEPT ![req[r].ip] = Nobody]
  /\ hist' = [hist EXCEPT ![req[r].ip] = << >>]
  /\ Answered(r)
  /\ UNCHANGED <<which, clock, cleaned, since>>

\* No credential at all is refused and not counted.
NoCredential(r) ==
  /\ which = "admin"
  /\ req[r].pc = "judge"
  /\ Answered(r)
  /\ UNCHANGED <<which, clock, table, cleaned, hist, since>>

\* AdminAuthGuard::failed: a lock that started since the check answers first.
Failed(r) ==
  LET ip  == req[r].ip
      now == req[r].now
      tb  == IF CleanupDue(now) THEN Cleanup(table, now) ELSE table
  IN  /\ which = "admin"
      /\ req[r].pc = "judge"
      /\ cleaned' = IF CleanupDue(now) THEN now ELSE cleaned
      /\ IF Locked(tb, ip, now) THEN table' = tb /\ UNCHANGED <<hist, since>>
         ELSE Count(Unlock(tb, ip, now), ip, now)
      /\ Answered(r)
      /\ UNCHANGED <<which, clock>>

\* ScannerGuard::check, one critical section: clean up, answer a ban, count.
ScannerCheck(r) ==
  LET ip  == req[r].ip
      now == req[r].now
      tb  == IF CleanupDue(now) THEN Cleanup(table, now) ELSE table
  IN  /\ which = "scanner"
      /\ req[r].pc = "check"
      /\ cleaned' = IF CleanupDue(now) THEN now ELSE cleaned
      /\ \/ Locked(tb, ip, now) /\ table' = tb /\ UNCHANGED <<hist, since>>
         \/ /\ ~Locked(tb, ip, now)      \* an ordinary path
            /\ table' = Unlock(tb, ip, now)
            /\ UNCHANGED <<hist, since>>
         \/ /\ ~Locked(tb, ip, now)      \* is_scanner_path
            /\ Count(Unlock(tb, ip, now), ip, now)
      /\ Answered(r)
      /\ UNCHANGED <<which, clock>>

TimePasses == /\ clock < MaxTime
              /\ clock' = clock + 1
              /\ UNCHANGED <<which, table, cleaned, req, hist, since>>

---------------------------------------------------------------------------
Init == /\ which \in Guards
        /\ clock = 1
        /\ table = [ip \in Ips |-> Nobody]
        /\ cleaned = 1
        /\ req = [r \in Req |-> Fresh("new")]
        /\ hist = [ip \in Ips |-> << >>]
        /\ since = [ip \in Ips |-> 0]

Next == \/ \E r \in Req : \/ Arrive(r) \/ AdminCheck(r) \/ Succeeded(r)
                          \/ NoCredential(r) \/ Failed(r) \/ ScannerCheck(r)
        \/ TimePasses

Spec == Init /\ [][Next]_vars

---------------------------------------------------------------------------
TypeOK ==
  /\ which \in Guards /\ clock \in 1..MaxTime /\ cleaned \in 1..clock
  /\ \A ip \in Ips : /\ table[ip].events \in Seq(1..clock)
                     /\ table[ip].until \in 0..(clock + LockTime)
                     /\ table[ip].seen \in 0..clock /\ table[ip].known \in BOOLEAN
                     /\ hist[ip] \in Seq(1..clock) /\ since[ip] \in 0..clock
  /\ req \in [Req -> [pc : {"new", "check", "judge", "done"},
                      ip : Ips \cup {"none"}, now : 0..MaxTime]]

\* The table never outgrows MAX_IPS, whatever rotation of addresses comes in.
TableBound == Cardinality(Known(table)) <= MaxIps

\* A lock is earned: LIMIT events of this address were recorded later than one
\* window before the request that locked it read the clock, however the recording
\* of several requests interleaved and whatever cleanups and evictions happened.
LockEarned ==
  \A ip \in Ips :
    table[ip].until # 0 =>
      Cardinality({k \in 1..Len(hist[ip]) : hist[ip][k] + Window > since[ip]}) >= Limit

\* A running lock ends early only by a correct credential from the same address,
\* or when the table is full of locked addresses and a new one needs room.
KeepsLocks ==
  \A ip \in Ips :
    Locked(table, ip, clock) /\ ~Locked(table', ip, clock) =>
      \/ \E r \in Req : req[r].ip = ip /\ Succeeded(r)
      \/ \A o \in Known(table) \cup {ip} : table[o].until # 0

LockKept == [][KeepsLocks]_vars

=============================================================================
