---------------------------- MODULE TokenRefresh ----------------------------
(***************************************************************************)
(* The access token of one account: TokenManager (src/token_manager.rs),   *)
(* the requests that use the token (src/tidal_client.rs), the auto-heal    *)
(* loop (src/autoheal.rs) and the on/off state they drive                  *)
(* (src/account_manager.rs).                                               *)
(*                                                                         *)
(* Access tokens and refresh tokens are numbered in the order Tidal issues *)
(* them; 0 is "none". Tidal is external: it grants, refuses, rotates the   *)
(* refresh token with a grant (the old one is then no longer accepted),    *)
(* revokes tokens, or answers with an error.                               *)
(*                                                                         *)
(* The lock of an account is an entry of a moka cache with a time to live: *)
(* tasks keep the object they fetched, so after an expiry two objects may  *)
(* stand for the same account.                                             *)
(***************************************************************************)
EXTENDS Integers, FiniteSets

CONSTANTS
  Caller,       \* requests that use the account, each served once
  Heal,         \* the auto-heal loop's task for this account
  RequestsPerAccount, \* requests_per_account: attempts of one request on the account
  MaxIssued,    \* bound on the access tokens Tidal issues
  MaxLocks,     \* bound on the lock objects the cache ever holds
  Fault         \* what may go wrong in a run, a subset of AnyFault

AnyFault == {"lock_ttl", "redis_write", "lost_reply"}

ASSUME TokenAssumption ==
  /\ IsFiniteSet(Caller)
  /\ Heal \notin Caller
  /\ RequestsPerAccount \in Nat \ {0}
  /\ MaxIssued \in Nat \ {0}
  /\ MaxLocks \in Nat \ {0}
  /\ Fault \subseteq AnyFault

Task == Caller \cup {Heal}

VARIABLES
  issued,       \* Tidal: access tokens issued so far
  expired,      \* Tidal: tokens 1 .. expired are past their expiry
  revoked,      \* Tidal: tokens withdrawn before their expiry
  accepted,     \* Tidal: the refresh token it accepts, 0 once the grant is withdrawn
  shared,       \* Redis: the access token advertised for the account
  token,        \* account.access_token
  rejected,     \* account.rejected_access_token
  refresh,      \* account.refresh_token()
  cooling,      \* heal_next_retry lies in the future
  paused,       \* rate_limit_remaining is Some
  active,       \* is_active
  autoOff,      \* auto_disabled
  lockNow,      \* the lock object the cache currently holds for the account
  pc,           \* where each task stands
  lock,         \* the lock object each task fetched
  prev,         \* `previous` of refresh(): the token generation the task complains about
  tok,          \* the access token the task uses
  reply,        \* Tidal's answer to the task's token request
  attempt,      \* attempt counter of a request
  refreshed,    \* refreshed_after_401 of a request
  owner,        \* history: the owner's last explicit choice, "on" or "off"
  refused       \* history: tokens that drew a 401 here

server  == <<issued, expired, revoked, accepted>>
account == <<token, rejected, refresh, cooling, paused, active, autoOff>>
tries   == <<attempt, refreshed>>
local   == <<lock, prev, tok, reply, attempt, refreshed>>
vars    == <<issued, expired, revoked, accepted, shared, token, rejected, refresh, cooling,
             paused, active, autoOff, lockNow, pc, lock, prev, tok, reply, attempt,
             refreshed, owner, refused>>

NoReply == [kind |-> "none", token |-> 0, refresh |-> 0, sent |-> 0]
Reply == [kind : {"none", "granted", "invalid_grant", "error", "429"},
          token : 0 .. MaxIssued, refresh : 0 .. MaxIssued, sent : 0 .. MaxIssued]

\* The refresh is under way: waiting for the lock, or holding it.
Critical == {"locked", "redis", "request", "replied"}
Refreshing == {"wait"} \cup Critical

\* cached_token: present, not expired, not rejected.
Cached == token # 0 /\ token > expired /\ token # rejected

\* What Tidal accepts as a bearer token.
Accepts(t) == t \in 1 .. issued /\ t > expired /\ t \notin revoked

-----------------------------------------------------------------------------
(* Entering and leaving refresh() *)

\* The lock object is fetched from the cache here and awaited in LockTaken.
EnterRefresh(c, previous) ==
  /\ pc' = [pc EXCEPT ![c] = "wait"]
  /\ lock' = [lock EXCEPT ![c] = lockNow]
  /\ prev' = [prev EXCEPT ![c] = previous]

\* refresh() returns Ok(t): get_token hands the token out, a retry after a 401
\* goes through get_token again, auto-heal clears the system-disabled state.
Returns(c, t) ==
  /\ pc' = [pc EXCEPT ![c] = IF c = Heal THEN "healed" ELSE IF prev[c] = 0 THEN "use" ELSE "ask"]
  /\ tok' = [tok EXCEPT ![c] = IF c # Heal /\ prev[c] = 0 THEN t ELSE 0]
  /\ prev' = [prev EXCEPT ![c] = 0]
  /\ reply' = [reply EXCEPT ![c] = NoReply]
  /\ lock' = [lock EXCEPT ![c] = 0]

\* refresh() returns Err, or its future is dropped.
Leaves(c) ==
  /\ pc' = [pc EXCEPT ![c] = IF c = Heal THEN "idle" ELSE "failed"]
  /\ tok' = [tok EXCEPT ![c] = 0]
  /\ prev' = [prev EXCEPT ![c] = 0]
  /\ reply' = [reply EXCEPT ![c] = NoReply]
  /\ lock' = [lock EXCEPT ![c] = 0]

\* Seeded fault: the owner's choice is not looked at.
SetSystemDisabled_Unconditional(off) == active' = ~off /\ autoOff' = off

\* set_system_disabled: only from on or system-disabled, respectively only from
\* system-disabled; an explicit owner OFF is left alone.
SetSystemDisabled(off) ==
  IF IF off THEN active \/ autoOff ELSE autoOff
  THEN active' = ~off /\ autoOff' = off
  ELSE UNCHANGED <<active, autoOff>>

-----------------------------------------------------------------------------
(* A request and its token *)

\* get_token: the pause first, then the cached token, then refresh().
Ask(c) ==
  /\ pc[c] = "ask"
  /\ \/ /\ paused
        /\ Leaves(c)
     \/ /\ ~paused /\ Cached
        /\ pc' = [pc EXCEPT ![c] = "use"]
        /\ tok' = [tok EXCEPT ![c] = token]
        /\ UNCHANGED <<lock, prev, reply>>
     \/ /\ ~paused /\ ~Cached
        /\ EnterRefresh(c, 0)
        /\ UNCHANGED <<tok, reply>>
  /\ UNCHANGED <<server, shared, account, lockNow, tries, owner, refused>>

\* Tidal takes the token and the request is served.
Served(c) ==
  /\ pc[c] = "use"
  /\ Accepts(tok[c])
  /\ pc' = [pc EXCEPT ![c] = "done"]
  /\ tok' = [tok EXCEPT ![c] = 0]
  /\ UNCHANGED <<server, shared, account, lockNow, lock, prev, reply, tries, owner, refused>>

\* Any other outcome: a 403 or a 5xx is retried on the account while attempts
\* are left; otherwise, and on a transport error, a 404 or another status, the
\* request is through with the account. A 429 pauses it as well.
UseFails(c) ==
  /\ pc[c] = "use"
  /\ \/ /\ attempt[c] + 1 < RequestsPerAccount
        /\ pc' = [pc EXCEPT ![c] = "ask"]
        /\ tok' = [tok EXCEPT ![c] = 0]
        /\ attempt' = [attempt EXCEPT ![c] = @ + 1]
        /\ UNCHANGED <<paused, lock, prev, reply>>
     \/ /\ paused' \in {paused, TRUE}
        /\ Leaves(c)
        /\ UNCHANGED attempt
  /\ UNCHANGED <<server, shared, token, rejected, refresh, cooling, active, autoOff, lockNow,
                 refreshed, owner, refused>>

\* reject_access_token: only if it is still the installed token.
RejectAccessToken(t) == rejected' = IF token = t THEN t ELSE rejected

\* Tidal answers 401. The first one leads to a refresh while attempts are left;
\* after a refresh the token is given up and the next refresh is deferred
\* (reject_refreshed_token).
Unauthorized(c) ==
  /\ pc[c] = "use"
  /\ ~Accepts(tok[c])
  /\ \/ /\ ~refreshed[c] /\ attempt[c] + 1 < RequestsPerAccount
        /\ RejectAccessToken(tok[c])
        /\ refused' = refused \cup {tok[c]}
        /\ EnterRefresh(c, tok[c])
        /\ attempt' = [attempt EXCEPT ![c] = @ + 1]
        /\ refreshed' = [refreshed EXCEPT ![c] = TRUE]
        /\ tok' = [tok EXCEPT ![c] = 0]
        /\ UNCHANGED <<cooling, reply>>
     \/ /\ ~refreshed[c] /\ attempt[c] + 1 = RequestsPerAccount
        /\ Leaves(c)
        /\ UNCHANGED <<rejected, cooling, refused, tries>>
     \/ /\ refreshed[c]
        /\ RejectAccessToken(tok[c])
        /\ refused' = refused \cup {tok[c]}
        /\ cooling' = TRUE
        /\ Leaves(c)
        /\ UNCHANGED tries
  /\ UNCHANGED <<server, shared, token, refresh, paused, active, autoOff, lockNow, owner>>

-----------------------------------------------------------------------------
(* refresh() *)

\* Seeded fault: the lock is not waited for.
LockTaken_NoWait(c) ==
  /\ pc[c] = "wait"
  /\ pc' = [pc EXCEPT ![c] = "locked"]
  /\ UNCHANGED <<server, shared, account, lockNow, local, owner, refused>>

LockTaken(c) ==
  /\ pc[c] = "wait"
  /\ \A d \in Task : pc[d] \in Critical => lock[d] # lock[c]
  /\ pc' = [pc EXCEPT ![c] = "locked"]
  /\ UNCHANGED <<server, shared, account, lockNow, local, owner, refused>>

\* Under the lock: somebody else may have renewed the token; a pause or the
\* refresh cooldown stops the task.
Recheck(c) ==
  /\ pc[c] = "locked"
  /\ \/ /\ Cached /\ token # prev[c]
        /\ Returns(c, token)
     \/ /\ ~(Cached /\ token # prev[c])
        /\ paused \/ cooling
        /\ Leaves(c)
     \/ /\ ~(Cached /\ token # prev[c])
        /\ ~paused /\ ~cooling
        /\ pc' = [pc EXCEPT ![c] = "redis"]
        /\ UNCHANGED <<lock, prev, tok, reply>>
  /\ UNCHANGED <<server, shared, account, lockNow, tries, owner, refused>>

SharedUsable(c) ==
  shared # 0 /\ shared > expired /\ shared # prev[c] /\ shared # rejected

\* Seeded fault: Redis is not asked whether it still advertises the rejected one.
SharedToken_AnyFresh(c) ==
  /\ pc[c] = "redis"
  /\ \/ /\ shared # 0 /\ shared > expired
        /\ token' = shared
        /\ Returns(c, shared)
     \/ /\ ~(shared # 0 /\ shared > expired)
        /\ pc' = [pc EXCEPT ![c] = "request"]
        /\ UNCHANGED <<token, lock, prev, tok, reply>>
  /\ UNCHANGED <<server, shared, rejected, refresh, cooling, paused, active, autoOff, lockNow,
                 tries, owner, refused>>

\* shared_token: adopt the token Redis advertises, or go on to Tidal; a usable
\* token is missed when Redis does not answer or the token is in its last 60 s.
SharedToken(c) ==
  /\ pc[c] = "redis"
  /\ \/ /\ SharedUsable(c)
        /\ token' = shared
        /\ Returns(c, shared)
     \/ /\ pc' = [pc EXCEPT ![c] = "request"]
        /\ UNCHANGED <<token, lock, prev, tok, reply>>
  /\ UNCHANGED <<server, shared, rejected, refresh, cooling, paused, active, autoOff, lockNow,
                 tries, owner, refused>>

\* Tidal's token endpoint handles the request; it may rotate the refresh token.
TidalAnswers(c) ==
  /\ pc[c] = "request"
  /\ pc' = [pc EXCEPT ![c] = "replied"]
  /\ \/ /\ refresh = accepted /\ issued < MaxIssued
        /\ issued' = issued + 1
        /\ accepted' \in {accepted, accepted + 1}
        /\ reply' = [reply EXCEPT ![c] = [kind |-> "granted", token |-> issued + 1,
                                          refresh |-> accepted', sent |-> refresh]]
     \/ /\ refresh # accepted
        /\ reply' = [reply EXCEPT ![c] = [NoReply EXCEPT !.kind = "invalid_grant"]]
        /\ UNCHANGED <<issued, accepted>>
     \/ /\ \E k \in {"error", "429"} :
             reply' = [reply EXCEPT ![c] = [NoReply EXCEPT !.kind = k]]
        /\ UNCHANGED <<issued, accepted>>
  /\ UNCHANGED <<expired, revoked, shared, account, lockNow, lock, prev, tok, tries, owner,
                 refused>>

\* Seeded fault: the rotated refresh token is not kept.
StoreGrant_KeepsOldRefresh(c) ==
  /\ pc[c] = "replied" /\ reply[c].kind = "granted"
  /\ token' = reply[c].token
  /\ cooling' = FALSE
  /\ shared' = reply[c].token
  /\ Returns(c, reply[c].token)
  /\ UNCHANGED <<server, rejected, refresh, paused, active, autoOff, lockNow, tries, owner, refused>>

\* store_refreshed_credentials: refused when the account's refresh token is no
\* longer the one that was sent.
StoreRefreshedCredentials(c) ==
  /\ refresh = reply[c].sent
  /\ token' = reply[c].token
  /\ refresh' = reply[c].refresh

\* The grant is stored, then written to Redis, which may fail or be cut off by
\* the deadline or the client. Success clears the cooldown.
StoreGrant(c) ==
  /\ pc[c] = "replied" /\ reply[c].kind = "granted"
  /\ \/ /\ StoreRefreshedCredentials(c)
        /\ \/ /\ cooling' = FALSE
              /\ shared' = reply[c].token \/ ("redis_write" \in Fault /\ shared' = shared)
              /\ Returns(c, reply[c].token)
           \/ /\ "redis_write" \in Fault
              /\ cooling' = TRUE \/ (c \in Caller /\ cooling' = cooling)
              /\ UNCHANGED shared
              /\ Leaves(c)
     \/ /\ refresh # reply[c].sent
        /\ cooling' = TRUE
        /\ Leaves(c)
        /\ UNCHANGED <<token, refresh, shared>>
  /\ UNCHANGED <<server, rejected, paused, active, autoOff, lockNow, tries, owner, refused>>

\* An OAuth credential error disables the account and defers the next attempt.
CredentialError(c) ==
  /\ pc[c] = "replied" /\ reply[c].kind = "invalid_grant"
  /\ SetSystemDisabled(TRUE)
  /\ cooling' = TRUE
  /\ Leaves(c)
  /\ UNCHANGED <<server, shared, token, rejected, refresh, paused, lockNow, tries, owner,
                 refused>>

\* Any other error: a further attempt of the cycle, or the cooldown. A 429
\* pauses the account as well.
TemporaryError(c) ==
  /\ pc[c] = "replied" /\ reply[c].kind \in {"error", "429"}
  /\ paused' = (paused \/ reply[c].kind = "429")
  /\ \/ /\ pc' = [pc EXCEPT ![c] = "request"]
        /\ reply' = [reply EXCEPT ![c] = NoReply]
        /\ UNCHANGED <<cooling, lock, prev, tok>>
     \/ /\ cooling' = TRUE
        /\ Leaves(c)
  /\ UNCHANGED <<server, shared, token, rejected, refresh, active, autoOff, lockNow, tries,
                 owner, refused>>

ReplyPending(c) == pc[c] = "replied" /\ reply[c].kind = "granted"

\* Seeded fault: no deadline around the cycle.
CycleTimesOut_Never(c) == FALSE /\ pc[c] = "request" /\ UNCHANGED vars

\* The cycle's 45 s are over, the transport fails, or the answer is lost: garbled,
\* or not stored by the database ("lost_reply").
CycleTimesOut(c) ==
  /\ pc[c] \in {"request", "replied"}
  /\ ReplyPending(c) => "lost_reply" \in Fault
  /\ cooling' = TRUE
  /\ Leaves(c)
  /\ UNCHANGED <<server, shared, token, rejected, refresh, paused, active, autoOff, lockNow,
                 tries, owner, refused>>

\* The client goes away and the handler's future is dropped, lock included.
Disconnect(c) ==
  /\ c \in Caller /\ pc[c] \in {"ask", "use"} \cup Refreshing
  /\ ReplyPending(c) => "lost_reply" \in Fault
  /\ Leaves(c)
  /\ UNCHANGED <<server, shared, account, lockNow, tries, owner, refused>>

-----------------------------------------------------------------------------
(* The auto-heal loop, the owner, Tidal and the clocks *)

\* One pass over the account; whether an active account's token is within 300 s
\* of its expiry is left open.
HealPass ==
  /\ pc[Heal] = "idle"
  /\ active \/ autoOff
  /\ ~cooling /\ ~paused
  /\ EnterRefresh(Heal, token)
  /\ UNCHANGED <<server, shared, account, lockNow, tok, reply, tries, owner, refused>>

HealRecovers ==
  /\ pc[Heal] = "healed"
  /\ SetSystemDisabled(FALSE)
  /\ pc' = [pc EXCEPT ![Heal] = "idle"]
  /\ UNCHANGED <<server, shared, token, rejected, refresh, cooling, paused, lockNow, local, owner,
                 refused>>

\* set_account_active: owner intent wins and clears the backoff.
SetAccountActive(on) ==
  /\ active' = on
  /\ autoOff' = FALSE
  /\ cooling' = FALSE
  /\ owner' = IF on THEN "on" ELSE "off"
  /\ UNCHANGED <<server, shared, token, rejected, refresh, paused, lockNow, pc, local, refused>>

\* Cooldowns and pauses end; metadata and playback traffic may pause the account.
ClockRuns ==
  /\ \/ cooling /\ cooling' = FALSE /\ UNCHANGED paused
     \/ paused' = ~paused /\ UNCHANGED cooling
  /\ UNCHANGED <<server, shared, token, rejected, refresh, active, autoOff, lockNow, pc, local,
                 owner, refused>>

TokenExpires ==
  /\ expired < issued
  /\ expired' = expired + 1
  /\ UNCHANGED <<issued, revoked, accepted, shared, account, lockNow, pc, local, owner, refused>>

\* Tidal withdraws an access token, or the whole grant.
TidalRevokes ==
  /\ \/ /\ \E t \in (expired + 1) .. issued : revoked' = revoked \cup {t}
        /\ UNCHANGED accepted
     \/ /\ accepted' = 0
        /\ UNCHANGED revoked
  /\ UNCHANGED <<issued, expired, shared, account, lockNow, pc, local, owner, refused>>

\* The lock entry reaches its time to live; the next refresh creates another.
LockExpires ==
  /\ "lock_ttl" \in Fault
  /\ lockNow < MaxLocks
  /\ lockNow' = lockNow + 1
  /\ UNCHANGED <<server, shared, account, pc, local, owner, refused>>

-----------------------------------------------------------------------------
Init ==
  /\ issued = 1 /\ expired = 0 /\ revoked = {} /\ accepted = 1
  /\ shared \in {0, 1}
  /\ token \in {0, 1} /\ rejected = 0 /\ refresh = 1
  /\ cooling = FALSE /\ paused = FALSE
  /\ active = TRUE /\ autoOff = FALSE
  /\ lockNow = 1
  /\ pc = [c \in Task |-> IF c = Heal THEN "idle" ELSE "ask"]
  /\ lock = [c \in Task |-> 0]
  /\ prev = [c \in Task |-> 0]
  /\ tok = [c \in Task |-> 0]
  /\ reply = [c \in Task |-> NoReply]
  /\ attempt = [c \in Task |-> 0]
  /\ refreshed = [c \in Task |-> FALSE]
  /\ owner = "on"
  /\ refused = {}

RefreshStep(c) ==
  \/ Recheck(c)
  \/ SharedToken(c)
  \/ StoreGrant(c)
  \/ CredentialError(c)
  \/ TemporaryError(c)

CallerStep(c) == Ask(c) \/ Served(c) \/ UseFails(c) \/ Unauthorized(c)

Environment ==
  \/ HealPass
  \/ HealRecovers
  \/ \E on \in BOOLEAN : SetAccountActive(on)
  \/ ClockRuns
  \/ TokenExpires
  \/ TidalRevokes
  \/ LockExpires

Next ==
  \/ Environment
  \/ \E c \in Task : LockTaken(c) \/ RefreshStep(c) \/ TidalAnswers(c) \/ CycleTimesOut(c)
  \/ \E c \in Caller : CallerStep(c) \/ Disconnect(c)

Spec == Init /\ [][Next]_vars

\* Ready tasks are polled, tokio's Mutex queues its waiters in order of arrival
\* (so a waiter that is never given the lock is excluded: SF), and a cycle is
\* bounded by its 45 s. Nothing is assumed of Tidal's token endpoint.
Fairness ==
  /\ \A c \in Task : /\ SF_vars(LockTaken(c))
                     /\ WF_vars(RefreshStep(c))
                     /\ WF_vars(CycleTimesOut(c))
  /\ \A c \in Caller : WF_vars(CallerStep(c))
  /\ WF_vars(HealRecovers)

FairSpec == Spec /\ Fairness

-----------------------------------------------------------------------------
(* Properties *)

\* Every variable has its type: AccountState and the locals of refresh().
TypeOK ==
  /\ issued \in 1 .. MaxIssued /\ expired \in 0 .. issued /\ revoked \subseteq 1 .. issued
  /\ accepted \in 0 .. MaxIssued /\ shared \in 0 .. issued
  /\ token \in 0 .. issued /\ rejected \in 0 .. issued /\ refresh \in 1 .. MaxIssued
  /\ {cooling, paused, active, autoOff} \subseteq BOOLEAN
  /\ lockNow \in 1 .. MaxLocks
  /\ pc \in [Task -> {"ask", "use", "done", "failed", "idle", "healed"} \cup Refreshing]
  /\ pc[Heal] \in {"idle", "healed"} \cup Refreshing
  /\ lock \in [Task -> 0 .. MaxLocks]
  /\ prev \in [Task -> 0 .. issued]
  /\ tok \in [Task -> 0 .. issued]
  /\ reply \in [Task -> Reply]
  /\ attempt \in [Task -> 0 .. RequestsPerAccount - 1]
  /\ refreshed \in [Task -> BOOLEAN]
  /\ owner \in {"on", "off"}
  /\ refused \subseteq 1 .. issued

\* "Per-account refreshes are already coalesced by the lock above" (refresh):
\* no two tasks talk to the token endpoint for the account at the same time.
OneRefreshAtATime ==
  \A c, d \in Task : pc[c] \in Critical /\ pc[d] \in Critical => c = d

\* "A 401 invalidates only the token used for that request, never a newer token
\* another request has already installed" (refresh_after_unauthorized): the
\* installed token is marked rejected only if Tidal really refuses it.
LateRejectHarmless == token # 0 /\ rejected = token => ~Accepts(token)

\* Every variable has its type; while no lock expires, the per-account lock of refresh
\* lets one request cycle run at a time; and a 401 that arrives late, for an old token,
\* leaves the token installed since alone.
RefreshesExclusive == TypeOK /\ OneRefreshAtATime /\ LateRejectHarmless

\* The system switches the account off only when Tidal withdrew the grant: the
\* tasks never present a refresh token that one of them has already traded in.
DisabledOnlyByTidal == autoOff => accepted = 0

\* "Explicit owner OFF is never reactivated" (auto-heal), whatever refresh was
\* under way when the owner switched the account off.
OwnerOffWins == owner = "off" => ~active /\ ~autoOff

\* "Do not reuse a token rejected by Tidal, even if Redis still advertises it"
\* (shared_token): no step installs or hands out a token that has drawn a 401 here.
NeverReused ==
  [][/\ token' # token => token' \notin refused
     /\ \A c \in Caller : tok'[c] # tok[c] => tok'[c] \notin refused]_vars

\* Every request gets its answer: nobody waits for ever for the lock, and a
\* refresh ends by its deadline.
CallersAnswered == \A c \in Caller : <>(pc[c] \in {"done", "failed"})
=============================================================================
