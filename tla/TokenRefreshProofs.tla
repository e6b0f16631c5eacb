-------------------------- MODULE TokenRefreshProofs --------------------------
(***************************************************************************)
(* The access token of an account for any number of requests, tokens and   *)
(* lock objects, checked by TLAPS. Every theorem says which faults it      *)
(* excludes; Tidal, the owner and the clocks may do anything in all of     *)
(* them.  Then the ways of an account into the pool (AccountOnboarding)    *)
(* for any number of sign-ins, files and imports.                          *)
(***************************************************************************)
EXTENDS TokenRefresh, Sequences, TLAPS

PcVals == {"ask", "use", "done", "failed", "idle", "healed"} \cup Refreshing

\* The locals of refresh() and of a request; a token in use was handed out, and an
\* answer is kept only until its task has acted on it.
LocalsTyped ==
  /\ pc \in [Task -> PcVals]
  /\ pc[Heal] \in {"idle", "healed"} \cup Refreshing
  /\ lock \in [Task -> 0 .. MaxLocks]
  /\ prev \in [Task -> 0 .. issued]
  /\ tok \in [Task -> 0 .. issued]
  /\ reply \in [Task -> Reply]
  /\ \A c \in Task : pc[c] = "use" => tok[c] # 0
  /\ \A c \in Task : reply[c].kind # "none" => pc[c] = "replied"
  /\ \A c \in Task : reply[c].kind = "granted" =>
       reply[c].token \in 1 .. issued /\ reply[c].refresh \in 1 .. issued

\* What Tidal, Redis and the account hold.
ServerTyped ==
  /\ issued \in 1 .. MaxIssued /\ expired \in 0 .. issued /\ revoked \subseteq 1 .. issued
  /\ accepted \in 0 .. issued /\ shared \in 0 .. issued
FlagsTyped == {cooling, paused, active, autoOff} \subseteq BOOLEAN
AccountTyped ==
  /\ FlagsTyped
  /\ token \in 0 .. issued /\ rejected \in 0 .. issued /\ refresh \in 1 .. issued
  /\ lockNow \in 1 .. MaxLocks
  /\ attempt \in [Task -> 0 .. RequestsPerAccount - 1]
  /\ refreshed \in [Task -> BOOLEAN]
  /\ owner \in {"on", "off"}
  /\ refused \subseteq 1 .. issued

TypeInv == ServerTyped /\ AccountTyped /\ LocalsTyped

LEMMA TypeInvImplies == TypeInv => TypeOK
BY TokenAssumption DEF TypeInv, ServerTyped, AccountTyped, LocalsTyped, FlagsTyped, TypeOK, PcVals

LEMMA ReplyTypes ==
  /\ NoReply \in Reply /\ NoReply.kind = "none"
  /\ \A k \in {"invalid_grant", "error", "429"} :
       /\ [NoReply EXCEPT !.kind = k] \in Reply
       /\ [NoReply EXCEPT !.kind = k].kind = k
BY TokenAssumption DEF NoReply, Reply

LEMMA InitTyped == Init => TypeInv
<1> SUFFICES ASSUME Init PROVE TypeInv
  OBVIOUS
<1>1. ServerTyped
  BY TokenAssumption DEF Init, ServerTyped
<1>2. AccountTyped
  <2>1. /\ attempt \in [Task -> 0 .. RequestsPerAccount - 1]
        /\ lockNow \in 1 .. MaxLocks
    BY TokenAssumption DEF Init
  <2>2. refreshed \in [Task -> BOOLEAN]
    BY DEF Init
  <2>3. FlagsTyped
    BY Zenon DEF Init, FlagsTyped
  <2>4. /\ token \in 0 .. issued /\ rejected \in 0 .. issued /\ refresh \in 1 .. issued
        /\ owner \in {"on", "off"} /\ refused \subseteq 1 .. issued
    BY DEF Init
  <2> QED
    BY <2>1, <2>2, <2>3, <2>4 DEF AccountTyped
<1>3. /\ pc \in [Task -> PcVals] /\ pc[Heal] = "idle"
      /\ \A c \in Task : pc[c] # "use"
  BY DEF Init, PcVals, Task
<1>4. LocalsTyped
  BY <1>3, TokenAssumption, ReplyTypes DEF Init, LocalsTyped
<1> QED
  BY <1>1, <1>2, <1>4 DEF TypeInv

----------------------------------------------------------------------------
(* What entering and leaving refresh() does to the locals *)

LEMMA EnterTyped ==
  ASSUME TypeInv, NEW c \in Task, NEW previous \in 0 .. issued, pc[c] \notin Critical,
         EnterRefresh(c, previous), UNCHANGED <<issued, tok, reply>>
  PROVE  LocalsTyped'
<1> USE DEF TypeInv, LocalsTyped, PcVals, Refreshing, Critical
<1>1. lockNow \in 0 .. MaxLocks
  BY TokenAssumption DEF AccountTyped
<1>2. reply[c].kind = "none"
  BY DEF Reply
<1> QED
  BY <1>1, <1>2 DEF EnterRefresh

LEMMA LeavesTyped ==
  ASSUME TypeInv, NEW c \in Task, Leaves(c), UNCHANGED issued
  PROVE  LocalsTyped'
<1> USE DEF TypeInv, LocalsTyped, PcVals, Refreshing, Critical
<1>1. 0 \in 0 .. MaxLocks /\ 0 \in 0 .. issued
  BY TokenAssumption DEF ServerTyped
<1> QED
  BY <1>1, ReplyTypes DEF Leaves

LEMMA ReturnsTyped ==
  ASSUME TypeInv, NEW c \in Task, NEW t \in 1 .. issued, Returns(c, t), UNCHANGED issued
  PROVE  LocalsTyped'
<1> USE DEF TypeInv, LocalsTyped, PcVals, Refreshing, Critical
<1>1. 0 \in 0 .. MaxLocks /\ 0 \in 0 .. issued
  BY TokenAssumption DEF ServerTyped
<1> QED
  BY <1>1, ReplyTypes DEF Returns

----------------------------------------------------------------------------
(* Type correctness, one step per action *)

\* The steps of a request and of refresh() that are its own.
TaskStep(c) ==
  \/ LockTaken(c) \/ Recheck(c) \/ SharedToken(c) \/ TidalAnswers(c) \/ StoreGrant(c)
  \/ CredentialError(c) \/ TemporaryError(c) \/ CycleTimesOut(c)
RequestStep(c) == Ask(c) \/ Served(c) \/ UseFails(c) \/ Unauthorized(c) \/ Disconnect(c)

LEMMA FlagsStep ==
  ASSUME FlagsTyped, [Next]_vars
  PROVE  FlagsTyped'
<1> USE DEF FlagsTyped, SetSystemDisabled
<1>1. ASSUME NEW c \in Task, TaskStep(c) PROVE FlagsTyped'
  <2>1. CASE LockTaken(c) \/ Recheck(c) \/ SharedToken(c) \/ TidalAnswers(c)
    BY <2>1, Zenon DEF LockTaken, Recheck, SharedToken, TidalAnswers, account
  <2>2. CASE StoreGrant(c)
    BY <2>2, Zenon DEF StoreGrant
  <2>3. CASE CredentialError(c) \/ CycleTimesOut(c)
    BY <2>3, Zenon DEF CredentialError, CycleTimesOut
  <2>4. CASE TemporaryError(c)
    BY <2>4, Zenon DEF TemporaryError
  <2> QED
    BY <1>1, <2>1, <2>2, <2>3, <2>4 DEF TaskStep
<1>2. ASSUME NEW c \in Caller, RequestStep(c) PROVE FlagsTyped'
  <2>1. CASE Ask(c) \/ Served(c) \/ Disconnect(c)
    BY <2>1, Zenon DEF Ask, Served, Disconnect, account
  <2>2. CASE UseFails(c)
    BY <2>2, Zenon DEF UseFails
  <2>3. CASE Unauthorized(c)
    BY <2>3, Zenon DEF Unauthorized
  <2> QED
    BY <1>2, <2>1, <2>2, <2>3 DEF RequestStep
<1>3. CASE HealPass \/ TokenExpires \/ TidalRevokes \/ LockExpires
  BY <1>3, Zenon DEF HealPass, TokenExpires, TidalRevokes, LockExpires, account
<1>4. CASE HealRecovers
  BY <1>4, Zenon DEF HealRecovers
<1>5. ASSUME NEW on \in BOOLEAN, SetAccountActive(on) PROVE FlagsTyped'
  BY <1>5, Zenon DEF SetAccountActive
<1>6. CASE ClockRuns
  BY <1>6, Zenon DEF ClockRuns
<1>7. CASE UNCHANGED vars
  BY <1>7 DEF vars
<1> QED
  BY <1>1, <1>2, <1>3, <1>4, <1>5, <1>6, <1>7
     DEF Next, Environment, RefreshStep, CallerStep, TaskStep, RequestStep

LEMMA TaskTyped ==
  ASSUME TypeInv, NEW c \in Task, TaskStep(c), FlagsTyped'
  PROVE  TypeInv'
<1> USE DEF TypeInv, ServerTyped, AccountTyped, server, account, tries, local
<1>1. CASE LockTaken(c)
  <2>1. UNCHANGED <<server, shared, account, lockNow, local, owner, refused>>
    BY <1>1 DEF LockTaken
  <2>2. LocalsTyped'
    BY <1>1 DEF LockTaken, LocalsTyped, PcVals, Refreshing, Critical
  <2> QED
    BY <2>1, <2>2
<1>2. CASE Recheck(c)
  <2>1. UNCHANGED <<server, shared, account, lockNow, tries, owner, refused>>
    BY <1>2 DEF Recheck
  <2>2. CASE Cached /\ Returns(c, token)
    <3>1. token \in 1 .. issued
      BY <2>2 DEF Cached
    <3> QED
      BY <2>1, <2>2, <3>1, ReturnsTyped
  <2>3. CASE Leaves(c)
    BY <2>1, <2>3, LeavesTyped
  <2>4. CASE pc[c] = "locked" /\ pc' = [pc EXCEPT ![c] = "redis"] /\ UNCHANGED <<lock, prev, tok, reply>>
    <3>1. LocalsTyped'
      BY <2>1, <2>4 DEF LocalsTyped, PcVals, Refreshing, Critical
    <3> QED
      BY <2>1, <3>1
  <2> QED
    BY <1>2, <2>2, <2>3, <2>4 DEF Recheck
<1>3. CASE SharedToken(c)
  <2>1. UNCHANGED <<server, shared, rejected, refresh, lockNow, tries, owner, refused>>
    BY <1>3 DEF SharedToken
  <2>2. CASE SharedUsable(c) /\ token' = shared /\ Returns(c, shared)
    <3>1. shared \in 1 .. issued
      BY <2>2 DEF SharedUsable
    <3>2. LocalsTyped'
      BY <2>1, <2>2, <3>1, ReturnsTyped
    <3> QED
      BY <2>1, <2>2, <3>1, <3>2
  <2>3. CASE pc[c] = "redis" /\ pc' = [pc EXCEPT ![c] = "request"] /\ UNCHANGED <<token, lock, prev, tok, reply>>
    <3>1. LocalsTyped'
      BY <2>1, <2>3 DEF LocalsTyped, PcVals, Refreshing, Critical
    <3> QED
      BY <2>1, <2>3, <3>1
  <2> QED
    BY <1>3, <2>2, <2>3 DEF SharedToken
<1>4. CASE TidalAnswers(c)
  <2>1. /\ UNCHANGED <<expired, revoked, shared, account, lockNow, lock, prev, tok, tries, owner,
                       refused>>
        /\ pc[c] = "request" /\ pc' = [pc EXCEPT ![c] = "replied"]
    BY <1>4 DEF TidalAnswers
  <2>2. CASE /\ refresh = accepted /\ issued < MaxIssued /\ issued' = issued + 1
             /\ accepted' \in {accepted, accepted + 1}
             /\ reply' = [reply EXCEPT ![c] = [kind |-> "granted", token |-> issued + 1,
                                               refresh |-> accepted', sent |-> refresh]]
    <3> DEFINE r == [kind |-> "granted", token |-> issued + 1, refresh |-> accepted', sent |-> refresh]
    <3>1. ServerTyped'
      BY <2>1, <2>2, TokenAssumption
    <3>2. AccountTyped'
      BY <2>1, <2>2, TokenAssumption
    <3>3. r \in Reply /\ r.token \in 1 .. issued' /\ r.refresh \in 1 .. issued'
      BY <2>2, TokenAssumption DEF Reply
    <3>4. /\ pc' \in [Task -> PcVals] /\ pc'[Heal] \in {"idle", "healed"} \cup Refreshing
          /\ \A d \in Task : pc'[d] = "use" => pc[d] = "use"
          /\ \A d \in Task : d # c => pc'[d] = pc[d]
          /\ pc'[c] = "replied"
      BY <2>1 DEF LocalsTyped, PcVals, Refreshing, Critical
    <3>5. /\ reply' \in [Task -> Reply] /\ reply'[c] = r
          /\ \A d \in Task : d # c => reply'[d] = reply[d]
      BY <2>2, <3>3 DEF LocalsTyped
    <3> HIDE DEF r
    <3>6. /\ lock' \in [Task -> 0 .. MaxLocks] /\ prev' \in [Task -> 0 .. issued']
          /\ tok' \in [Task -> 0 .. issued']
      BY <2>1, <2>2 DEF LocalsTyped
    <3>7. \A d \in Task : reply'[d].kind = "granted" =>
            reply'[d].token \in 1 .. issued' /\ reply'[d].refresh \in 1 .. issued'
      BY <2>2, <3>3, <3>5 DEF LocalsTyped
    <3>8. LocalsTyped'
      BY <2>1, <3>4, <3>5, <3>6, <3>7 DEF LocalsTyped
    <3> QED
      BY <3>1, <3>2, <3>8
  <2>3. CASE \E k \in {"invalid_grant", "error", "429"} :
               /\ reply' = [reply EXCEPT ![c] = [NoReply EXCEPT !.kind = k]]
               /\ UNCHANGED <<issued, accepted>>
    <3>1. PICK k \in {"invalid_grant", "error", "429"} :
            reply' = [reply EXCEPT ![c] = [NoReply EXCEPT !.kind = k]] /\ UNCHANGED <<issued, accepted>>
      BY <2>3
    <3> DEFINE r == [NoReply EXCEPT !.kind = k]
    <3>2. r \in Reply /\ r.kind = k
      BY ReplyTypes
    <3>3. reply' = [reply EXCEPT ![c] = r]
      BY <3>1
    <3> HIDE DEF r
    <3>4. LocalsTyped'
      BY <2>1, <3>1, <3>2, <3>3 DEF LocalsTyped, PcVals, Refreshing, Critical
    <3> QED
      BY <2>1, <3>1, <3>4
  <2> QED
    BY <1>4, <2>2, <2>3 DEF TidalAnswers
<1>5. CASE StoreGrant(c)
  <2>1. /\ UNCHANGED <<server, rejected, lockNow, tries, owner, refused>>
        /\ reply[c].token \in 1 .. issued /\ reply[c].refresh \in 1 .. issued
    BY <1>5 DEF StoreGrant, LocalsTyped
  <2>2. /\ token' \in {token, reply[c].token} /\ refresh' \in {refresh, reply[c].refresh}
        /\ shared' \in {shared, reply[c].token}
        /\ Returns(c, reply[c].token) \/ Leaves(c)
    BY <1>5 DEF StoreGrant, StoreRefreshedCredentials
  <2>3. LocalsTyped'
    BY <2>1, <2>2, ReturnsTyped, LeavesTyped
  <2> QED
    BY <2>1, <2>2, <2>3
<1>6. CASE CredentialError(c) \/ CycleTimesOut(c)
  <2>1. /\ UNCHANGED <<server, shared, token, rejected, refresh, lockNow, tries, owner, refused>>
        /\ Leaves(c)
    BY <1>6 DEF CredentialError, CycleTimesOut
  <2> QED
    BY <2>1, LeavesTyped
<1>7. CASE TemporaryError(c)
  <2>1. UNCHANGED <<server, shared, token, rejected, refresh, lockNow, tries, owner, refused>>
    BY <1>7 DEF TemporaryError
  <2>2. CASE Leaves(c)
    BY <2>1, <2>2, LeavesTyped
  <2>3. CASE /\ pc[c] = "replied" /\ pc' = [pc EXCEPT ![c] = "request"]
             /\ reply' = [reply EXCEPT ![c] = NoReply] /\ UNCHANGED <<lock, prev, tok>>
    <3>1. LocalsTyped'
      BY <2>1, <2>3, ReplyTypes DEF LocalsTyped, PcVals, Refreshing, Critical
    <3> QED
      BY <2>1, <3>1
  <2> QED
    BY <1>7, <2>2, <2>3 DEF TemporaryError
<1> QED
  BY <1>1, <1>2, <1>3, <1>4, <1>5, <1>6, <1>7 DEF TaskStep

LEMMA RequestTyped ==
  ASSUME TypeInv, NEW c \in Caller, RequestStep(c), FlagsTyped'
  PROVE  TypeInv'
<1> USE DEF TypeInv, ServerTyped, AccountTyped, server, account, tries, local
<1>0. c \in Task /\ 0 \in 0 .. issued /\ tok[c] \in 0 .. issued
  BY DEF Task, LocalsTyped
<1>1. CASE Ask(c)
  <2>1. UNCHANGED <<server, shared, account, lockNow, tries, owner, refused>> /\ pc[c] = "ask"
    BY <1>1 DEF Ask
  <2>2. CASE Leaves(c)
    BY <1>0, <2>1, <2>2, LeavesTyped
  <2>3. CASE /\ Cached /\ pc' = [pc EXCEPT ![c] = "use"] /\ tok' = [tok EXCEPT ![c] = token]
             /\ UNCHANGED <<lock, prev, reply>>
    <3>1. token \in 1 .. issued
      BY <2>3 DEF Cached
    <3>2. c # Heal
      BY TokenAssumption
    <3>3. reply[c].kind = "none"
      BY <1>0, <2>1 DEF LocalsTyped
    <3>4. LocalsTyped'
      BY <1>0, <2>1, <2>3, <3>1, <3>2, <3>3 DEF LocalsTyped, PcVals
    <3> QED
      BY <2>1, <3>4
  <2>4. CASE EnterRefresh(c, 0) /\ UNCHANGED <<tok, reply>>
    <3>1. LocalsTyped'
      BY <1>0, <2>1, <2>4, EnterTyped DEF Critical
    <3> QED
      BY <2>1, <3>1
  <2> QED
    BY <1>1, <2>2, <2>3, <2>4 DEF Ask
<1>2. CASE Served(c)
  <2>1. /\ UNCHANGED <<server, shared, account, lockNow, lock, prev, reply, tries, owner, refused>>
        /\ pc[c] = "use" /\ pc' = [pc EXCEPT ![c] = "done"] /\ tok' = [tok EXCEPT ![c] = 0]
    BY <1>2 DEF Served
  <2>2. c # Heal
    BY TokenAssumption
  <2>3. LocalsTyped'
    BY <1>0, <2>1, <2>2 DEF LocalsTyped, PcVals
  <2> QED
    BY <2>1, <2>3
<1>3. CASE UseFails(c)
  <2>1. UNCHANGED <<server, shared, token, rejected, refresh, lockNow, refreshed, owner, refused>>
    BY <1>3 DEF UseFails
  <2>2. CASE Leaves(c) /\ UNCHANGED attempt
    BY <1>0, <2>1, <2>2, LeavesTyped
  <2>3. CASE /\ pc[c] = "use" /\ attempt[c] + 1 < RequestsPerAccount
             /\ pc' = [pc EXCEPT ![c] = "ask"] /\ tok' = [tok EXCEPT ![c] = 0]
             /\ attempt' = [attempt EXCEPT ![c] = @ + 1] /\ UNCHANGED <<lock, prev, reply>>
    <3>1. attempt' \in [Task -> 0 .. RequestsPerAccount - 1]
      BY <1>0, <2>3, TokenAssumption
    <3>2. c # Heal
      BY TokenAssumption
    <3>3. LocalsTyped'
      BY <1>0, <2>1, <2>3, <3>2 DEF LocalsTyped, PcVals
    <3> QED
      BY <2>1, <3>1, <3>3
  <2> QED
    BY <1>3, <2>2, <2>3 DEF UseFails
<1>4. CASE Unauthorized(c)
  <2>1. /\ UNCHANGED <<server, shared, token, refresh, lockNow, owner>>
        /\ pc[c] = "use" /\ tok[c] \in 1 .. issued
    BY <1>0, <1>4 DEF Unauthorized, LocalsTyped
  <2>2. rejected' \in 0 .. issued /\ refused' \subseteq 1 .. issued
    BY <1>4, <2>1 DEF Unauthorized, RejectAccessToken
  <2>3. CASE Leaves(c) /\ UNCHANGED tries
    BY <1>0, <2>1, <2>2, <2>3, LeavesTyped
  <2>4. CASE /\ attempt[c] + 1 < RequestsPerAccount /\ EnterRefresh(c, tok[c])
             /\ attempt' = [attempt EXCEPT ![c] = @ + 1]
             /\ refreshed' = [refreshed EXCEPT ![c] = TRUE]
             /\ tok' = [tok EXCEPT ![c] = 0] /\ UNCHANGED reply
    <3>1. /\ attempt' \in [Task -> 0 .. RequestsPerAccount - 1]
      BY <1>0, <2>4, TokenAssumption
    <3>2. refreshed' \in [Task -> BOOLEAN]
      BY <1>0, <2>4
    <3>3. lockNow \in 0 .. MaxLocks
      BY TokenAssumption
    <3>4. LocalsTyped'
      BY <1>0, <2>1, <2>4, <3>3 DEF EnterRefresh, LocalsTyped, PcVals, Refreshing, Critical
    <3> QED
      BY <2>1, <2>2, <3>1, <3>2, <3>4
  <2> QED
    BY <1>4, <2>3, <2>4 DEF Unauthorized
<1>5. CASE Disconnect(c)
  <2>1. UNCHANGED <<server, shared, account, lockNow, tries, owner, refused>> /\ Leaves(c)
    BY <1>5 DEF Disconnect
  <2> QED
    BY <1>0, <2>1, LeavesTyped
<1> QED
  BY <1>1, <1>2, <1>3, <1>4, <1>5 DEF RequestStep

LEMMA EnvironmentTyped ==
  ASSUME TypeInv, Environment, FlagsTyped'
  PROVE  TypeInv'
<1> USE DEF TypeInv, ServerTyped, AccountTyped, server, account, tries, local
<1>0. Heal \in Task
  BY DEF Task
<1>1. CASE HealPass
  <2>1. /\ UNCHANGED <<server, shared, account, lockNow, tok, reply, tries, owner, refused>>
        /\ pc[Heal] = "idle" /\ EnterRefresh(Heal, token)
    BY <1>1 DEF HealPass
  <2>2. LocalsTyped'
    BY <1>0, <2>1, EnterTyped DEF Critical
  <2> QED
    BY <2>1, <2>2
<1>2. CASE HealRecovers
  <2>1. /\ UNCHANGED <<server, shared, token, rejected, refresh, lockNow, local, owner, refused>>
        /\ pc[Heal] = "healed" /\ pc' = [pc EXCEPT ![Heal] = "idle"]
    BY <1>2 DEF HealRecovers
  <2>2. LocalsTyped'
    BY <1>0, <2>1 DEF LocalsTyped, PcVals
  <2> QED
    BY <2>1, <2>2
<1>3. ASSUME NEW on \in BOOLEAN, SetAccountActive(on) PROVE TypeInv'
  <2>1. /\ UNCHANGED <<server, shared, token, rejected, refresh, lockNow, pc, local, refused>>
        /\ owner' \in {"on", "off"}
    BY <1>3 DEF SetAccountActive
  <2>2. LocalsTyped'
    BY <2>1 DEF LocalsTyped
  <2> QED
    BY <2>1, <2>2
<1>4. CASE ClockRuns
  <2>1. UNCHANGED <<server, shared, token, rejected, refresh, lockNow, pc, local, owner, refused>>
    BY <1>4 DEF ClockRuns
  <2>2. LocalsTyped'
    BY <2>1 DEF LocalsTyped
  <2> QED
    BY <2>1, <2>2
<1>5. CASE TokenExpires
  <2>1. /\ UNCHANGED <<issued, revoked, accepted, shared, account, lockNow, pc, local, owner, refused>>
        /\ expired' \in 0 .. issued
    BY <1>5 DEF TokenExpires
  <2>2. LocalsTyped'
    BY <2>1 DEF LocalsTyped
  <2> QED
    BY <2>1, <2>2
<1>6. CASE TidalRevokes
  <2>1. UNCHANGED <<issued, expired, shared, account, lockNow, pc, local, owner, refused>>
    BY <1>6 DEF TidalRevokes
  <2>2. accepted' \in 0 .. issued
    BY <1>6 DEF TidalRevokes
  <2>3. \A t \in (expired + 1) .. issued : t \in 1 .. issued
    OBVIOUS
  <2>4. revoked' \subseteq 1 .. issued
    BY <1>6, <2>3 DEF TidalRevokes
  <2>5. LocalsTyped'
    BY <2>1 DEF LocalsTyped
  <2> QED
    BY <2>1, <2>2, <2>4, <2>5
<1>7. CASE LockExpires
  <2>1. /\ UNCHANGED <<server, shared, account, pc, local, owner, refused>>
        /\ lockNow' \in 1 .. MaxLocks
    BY <1>7, TokenAssumption DEF LockExpires
  <2>2. LocalsTyped'
    BY <2>1 DEF LocalsTyped
  <2> QED
    BY <2>1, <2>2
<1> QED
  BY <1>1, <1>2, <1>3, <1>4, <1>5, <1>6, <1>7 DEF Environment

LEMMA TypeStep ==
  ASSUME TypeInv, [Next]_vars
  PROVE  TypeInv'
<1>1. FlagsTyped'
  BY FlagsStep DEF TypeInv, AccountTyped
<1>2. CASE Environment
  BY <1>1, <1>2, EnvironmentTyped
<1>3. ASSUME NEW c \in Task, TaskStep(c) PROVE TypeInv'
  BY <1>1, <1>3, TaskTyped
<1>4. ASSUME NEW c \in Caller, RequestStep(c) PROVE TypeInv'
  BY <1>1, <1>4, RequestTyped
<1>5. CASE UNCHANGED vars
  BY <1>5 DEF TypeInv, ServerTyped, AccountTyped, FlagsTyped, LocalsTyped, vars
<1> QED
  BY <1>2, <1>3, <1>4, <1>5 DEF Next, RefreshStep, CallerStep, TaskStep, RequestStep

\* AccountState and the locals of refresh() keep their types: in particular no refused
\* token is 0 and a granted refresh token is one Tidal issued, whatever fails.
THEOREM TypeCorrect == Spec => []TypeOK
<1>1. Init => TypeInv
  BY InitTyped
<1>2. TypeInv /\ [Next]_vars => TypeInv'
  BY TypeStep
<1>3. TypeInv => TypeOK
  BY TypeInvImplies
<1> QED
  BY <1>1, <1>2, <1>3, PTL DEF Spec

----------------------------------------------------------------------------
(* The lock of an account *)

\* Two tasks that talk to the token endpoint hold different lock objects.
OnePerLock ==
  \A c, d \in Task : pc[c] \in Critical /\ pc[d] \in Critical /\ lock[c] = lock[d] => c = d

\* While the entry of the cache stays, every refresh waits for the same object.
LockCurrent == \A c \in Task : pc[c] \in Refreshing => lock[c] = lockNow

\* Whatever the step, a task is in refresh() on the lock object it had before, or it
\* has just fetched the current one; only LockTaken brings it into the critical section.
LockMoves ==
  \A d \in Task :
    /\ pc'[d] \in Refreshing => \/ pc[d] \in Refreshing /\ lock'[d] = lock[d]
                                \/ pc'[d] = "wait" /\ lock'[d] = lockNow
    /\ pc'[d] \in Critical => \/ pc[d] \in Critical /\ lock'[d] = lock[d]
                              \/ LockTaken(d)

LEMMA LockStep ==
  ASSUME TypeInv, [Next]_vars
  PROVE  LockMoves
<1> USE DEF TypeInv, LocalsTyped, Refreshing, Critical, LockMoves
<1>1. ASSUME NEW c \in Task, Leaves(c) PROVE LockMoves
  BY <1>1 DEF Leaves
<1>2. ASSUME NEW c \in Task, NEW t, Returns(c, t) PROVE LockMoves
  BY <1>2 DEF Returns
<1>3. ASSUME NEW c \in Task, NEW t, EnterRefresh(c, t) PROVE LockMoves
  BY <1>3 DEF EnterRefresh
<1>4. ASSUME NEW c \in Task, LockTaken(c) PROVE LockMoves
  <2>1. /\ pc[c] = "wait" /\ pc' = [pc EXCEPT ![c] = "locked"] /\ lock' = lock
    BY <1>4 DEF LockTaken, local
  <2>2. \A d \in Task : d # c => pc'[d] = pc[d]
    BY <2>1
  <2> QED
    BY <1>4, <2>1, <2>2
<1>5. ASSUME NEW c \in Task, NEW p \in Critical, pc[c] \in Critical, pc' = [pc EXCEPT ![c] = p],
             lock' = lock
      PROVE  LockMoves
  BY <1>5
<1>6. ASSUME NEW c \in Task, NEW p, p \notin Refreshing, pc' = [pc EXCEPT ![c] = p], lock' = lock
      PROVE  LockMoves
  BY <1>6
<1>7. ASSUME UNCHANGED <<pc, lock>> PROVE LockMoves
  BY <1>7
<1> HIDE DEF TypeInv, LocalsTyped, LockMoves
<1>8. ASSUME NEW c \in Task, TaskStep(c) PROVE LockMoves
  <2>1. CASE Recheck(c) \/ SharedToken(c) \/ TidalAnswers(c)
    BY <1>1, <1>2, <1>5, <2>1 DEF Recheck, SharedToken, TidalAnswers
  <2>2. CASE StoreGrant(c) \/ CredentialError(c) \/ CycleTimesOut(c)
    BY <1>1, <1>2, <2>2 DEF StoreGrant, CredentialError, CycleTimesOut
  <2>3. CASE TemporaryError(c)
    BY <1>1, <1>5, <2>3 DEF TemporaryError
  <2> QED
    BY <1>4, <1>8, <2>1, <2>2, <2>3 DEF TaskStep
<1>9. ASSUME NEW c \in Caller, RequestStep(c) PROVE LockMoves
  <2>0. c \in Task
    BY DEF Task
  <2>1. CASE Ask(c)
    BY <1>1, <1>3, <1>6, <2>0, <2>1 DEF Ask
  <2>2. CASE Served(c)
    BY <1>6, <2>0, <2>2 DEF Served
  <2>3. CASE UseFails(c)
    BY <1>1, <1>6, <2>0, <2>3 DEF UseFails
  <2>4. CASE Unauthorized(c)
    BY <1>1, <1>3, <2>0, <2>4 DEF Unauthorized
  <2>5. CASE Disconnect(c)
    BY <1>1, <2>0, <2>5 DEF Disconnect
  <2> QED
    BY <1>9, <2>1, <2>2, <2>3, <2>4, <2>5 DEF RequestStep
<1>10. CASE Environment
  <2>1. Heal \in Task
    BY DEF Task
  <2>2. CASE HealPass
    <3>1. EnterRefresh(Heal, token)
      BY <2>2 DEF HealPass
    <3> QED
      BY <1>3, <2>1, <3>1
  <2>3. CASE HealRecovers
    <3>1. pc' = [pc EXCEPT ![Heal] = "idle"] /\ lock' = lock
      BY <2>3 DEF HealRecovers, local
    <3> QED
      BY <1>6, <2>1, <3>1
  <2>4. ASSUME NEW on \in BOOLEAN, SetAccountActive(on) PROVE LockMoves
    <3>1. UNCHANGED <<pc, lock>>
      BY <2>4 DEF SetAccountActive, local
    <3> QED
      BY <1>7, <3>1
  <2>5. CASE ClockRuns \/ TokenExpires \/ TidalRevokes \/ LockExpires
    <3>1. UNCHANGED <<pc, lock>>
      BY <2>5 DEF ClockRuns, TokenExpires, TidalRevokes, LockExpires, local
    <3> QED
      BY <1>7, <3>1
  <2> QED
    BY <1>10, <2>2, <2>3, <2>4, <2>5 DEF Environment
<1>11. CASE UNCHANGED vars
  BY <1>7, <1>11 DEF vars
<1> QED
  BY <1>8, <1>9, <1>10, <1>11 DEF Next, RefreshStep, CallerStep, TaskStep, RequestStep

LEMMA OnePerLockStep ==
  ASSUME TypeInv, OnePerLock, [Next]_vars
  PROVE  OnePerLock'
<1>1. SUFFICES ASSUME NEW c \in Task, NEW d \in Task, c # d,
                      pc'[c] \in Critical, pc'[d] \in Critical, lock'[c] = lock'[d]
               PROVE  FALSE
  BY DEF OnePerLock
<1>2. ASSUME NEW e \in Task, NEW f \in Task, e # f, LockTaken(e), pc'[f] \in Critical,
             lock'[e] = lock'[f]
      PROVE  FALSE
  <2>1. /\ pc[e] = "wait" /\ \A g \in Task : pc[g] \in Critical => lock[g] # lock[e]
        /\ pc' = [pc EXCEPT ![e] = "locked"] /\ lock' = lock
    BY <1>2 DEF LockTaken, local
  <2>2. pc[f] = pc'[f]
    BY <1>2, <2>1 DEF TypeInv, LocalsTyped
  <2> QED
    BY <1>2, <2>1, <2>2
<1>3. CASE LockTaken(c) \/ LockTaken(d)
  BY <1>1, <1>2, <1>3
<1>4. CASE ~LockTaken(c) /\ ~LockTaken(d)
  BY <1>1, <1>4, LockStep DEF LockMoves, OnePerLock
<1> QED
  BY <1>3, <1>4

LEMMA LockCurrentStep ==
  ASSUME "lock_ttl" \notin Fault, TypeInv, LockCurrent, [Next]_vars
  PROVE  LockCurrent'
<1>1. lockNow' = lockNow
  BY DEF Next, vars, Environment, HealPass, HealRecovers, SetAccountActive, ClockRuns,
         TokenExpires, TidalRevokes, LockExpires, LockTaken, RefreshStep, Recheck, SharedToken,
         StoreGrant, CredentialError, TemporaryError, TidalAnswers, CycleTimesOut, CallerStep,
         Ask, Served, UseFails, Unauthorized, Disconnect
<1> QED
  BY <1>1, LockStep DEF LockMoves, LockCurrent, Refreshing

\* The lock of refresh: tasks that talk to Tidal's token endpoint at the same time do so
\* under different lock objects, expired entries included.
THEOREM OneRefreshPerLock == Spec => []OnePerLock
<1>1. Init => TypeInv /\ OnePerLock
  BY InitTyped, TokenAssumption DEF Init, OnePerLock, Critical
<1>2. TypeInv /\ OnePerLock /\ [Next]_vars => TypeInv' /\ OnePerLock'
  BY TypeStep, OnePerLockStep
<1> QED
  BY <1>1, <1>2, PTL DEF Spec

----------------------------------------------------------------------------
(* The rejected token *)

\* The token marked as rejected is one Tidal refuses; Tidal never takes it back.
RejectedRefused == rejected # 0 => ~Accepts(rejected)

\* What Tidal refuses of the tokens it has issued it goes on refusing.
LEMMA RefusalStays ==
  ASSUME TypeInv, [Next]_vars, NEW t \in 1 .. issued, ~Accepts(t)
  PROVE  ~Accepts(t)'
<1> USE DEF TypeInv, ServerTyped, Accepts
<1>1. CASE UNCHANGED <<issued, expired, revoked>>
  BY <1>1
<1>2. CASE issued' = issued + 1 /\ UNCHANGED <<expired, revoked>>
  BY <1>2
<1>3. CASE expired' = expired + 1 /\ UNCHANGED <<issued, revoked>>
  BY <1>3
<1>4. CASE revoked \subseteq revoked' /\ UNCHANGED <<issued, expired>>
  BY <1>4
<1> QED
  BY <1>1, <1>2, <1>3, <1>4
     DEF Next, vars, Environment, HealPass, HealRecovers, SetAccountActive, ClockRuns,
         TokenExpires, TidalRevokes, LockExpires, LockTaken, RefreshStep, Recheck, SharedToken,
         StoreGrant, CredentialError, TemporaryError, TidalAnswers, CycleTimesOut, CallerStep,
         Ask, Served, UseFails, Unauthorized, Disconnect, server

LEMMA RejectedStep ==
  ASSUME TypeInv, RejectedRefused, [Next]_vars
  PROVE  RejectedRefused'
<1>1. CASE rejected' = rejected
  <2>1. rejected \in 0 .. issued
    BY DEF TypeInv, AccountTyped
  <2> QED
    BY <1>1, <2>1, RefusalStays DEF RejectedRefused
<1>2. ASSUME NEW c \in Caller, Unauthorized(c) PROVE RejectedRefused'
  <2>1. tok[c] \in 0 .. issued /\ rejected \in 0 .. issued /\ ~Accepts(tok[c])
    BY <1>2 DEF Unauthorized, TypeInv, AccountTyped, LocalsTyped, Task
  <2>2. rejected' \in {rejected, tok[c]}
    BY <1>2 DEF Unauthorized, RejectAccessToken
  <2> QED
    BY <2>1, <2>2, RefusalStays DEF RejectedRefused
<1>3. rejected' = rejected \/ \E c \in Caller : Unauthorized(c)
  BY DEF Next, vars, Environment, HealPass, HealRecovers, SetAccountActive, ClockRuns,
         TokenExpires, TidalRevokes, LockExpires, LockTaken, RefreshStep, Recheck, SharedToken,
         StoreGrant, CredentialError, TemporaryError, TidalAnswers, CycleTimesOut, CallerStep,
         Ask, Served, UseFails, Disconnect, account
<1> QED
  BY <1>1, <1>2, <1>3

\* A late 401 is harmless: the installed token is marked rejected only when Tidal really
\* refuses it, whatever was installed since the token of the request was handed out.
THEOREM LateRejects == Spec => []LateRejectHarmless
<1>1. Init => TypeInv /\ RejectedRefused
  BY InitTyped DEF Init, RejectedRefused
<1>2. TypeInv /\ RejectedRefused /\ [Next]_vars => TypeInv' /\ RejectedRefused'
  BY TypeStep, RejectedStep
<1>3. TypeInv /\ RejectedRefused => LateRejectHarmless
  BY DEF RejectedRefused, LateRejectHarmless
<1> QED
  BY <1>1, <1>2, <1>3, PTL DEF Spec

\* While the lock's entry does not expire, one refresh of the account runs at a time, with
\* every variable typed and late 401s harmless.
THEOREM Exclusive ==
  ASSUME "lock_ttl" \notin Fault
  PROVE  Spec => []RefreshesExclusive
<1>1. Init => TypeInv /\ OnePerLock /\ LockCurrent /\ RejectedRefused
  BY InitTyped, TokenAssumption
     DEF Init, OnePerLock, LockCurrent, RejectedRefused, Critical, Refreshing
<1>2. TypeInv /\ OnePerLock /\ LockCurrent /\ RejectedRefused /\ [Next]_vars
        => (TypeInv /\ OnePerLock /\ LockCurrent /\ RejectedRefused)'
  BY TypeStep, OnePerLockStep, LockCurrentStep, RejectedStep
<1>3. TypeInv /\ OnePerLock /\ LockCurrent /\ RejectedRefused => RefreshesExclusive
  BY TypeInvImplies DEF OnePerLock, LockCurrent, RejectedRefused, Refreshing, RefreshesExclusive,
                        OneRefreshAtATime, LateRejectHarmless
<1> QED
  BY <1>1, <1>2, <1>3, PTL DEF Spec

----------------------------------------------------------------------------
(* The owner's choice *)

\* "Explicit owner OFF is never reactivated", whatever refresh, recovery or credential
\* error was under way when the owner switched the account off, and whatever fails.
THEOREM OwnerWins == Spec => []OwnerOffWins
<1>1. Init => OwnerOffWins
  BY DEF Init, OwnerOffWins
<1>2. ASSUME OwnerOffWins, [Next]_vars PROVE OwnerOffWins'
  <2> USE DEF OwnerOffWins
  <2>1. CASE UNCHANGED <<active, autoOff, owner>>
    BY <1>2, <2>1, Zenon
  <2>2. CASE (SetSystemDisabled(TRUE) \/ SetSystemDisabled(FALSE)) /\ owner' = owner
    BY <1>2, <2>2, Zenon DEF SetSystemDisabled
  <2>3. ASSUME NEW on \in BOOLEAN, SetAccountActive(on) PROVE OwnerOffWins'
    <3>1. active' = on /\ autoOff' = FALSE /\ owner' = IF on THEN "on" ELSE "off"
      BY <2>3 DEF SetAccountActive
    <3>2. CASE on = TRUE
      BY <3>1, <3>2
    <3>3. CASE on = FALSE
      BY <3>1, <3>3, Zenon
    <3> QED
      BY <3>2, <3>3
  <2>4. ASSUME NEW c \in Task, TaskStep(c) PROVE OwnerOffWins'
    <3>1. CASE CredentialError(c)
      BY <2>2, <3>1 DEF CredentialError
    <3>2. CASE ~CredentialError(c)
      <4>1. UNCHANGED <<active, autoOff, owner>>
        BY <2>4, <3>2 DEF TaskStep, LockTaken, Recheck, SharedToken, TidalAnswers, StoreGrant,
                          TemporaryError, CycleTimesOut, account
      <4> QED
        BY <2>1, <4>1
    <3> QED
      BY <3>1, <3>2
  <2>5. ASSUME NEW c \in Caller, RequestStep(c) PROVE OwnerOffWins'
    <3>1. UNCHANGED <<active, autoOff, owner>>
      BY <2>5 DEF RequestStep, Ask, Served, UseFails, Unauthorized, Disconnect, account
    <3> QED
      BY <2>1, <3>1
  <2>6. CASE HealPass \/ ClockRuns \/ TokenExpires \/ TidalRevokes \/ LockExpires
    <3>1. UNCHANGED <<active, autoOff, owner>>
      BY <2>6 DEF HealPass, ClockRuns, TokenExpires, TidalRevokes, LockExpires, account
    <3> QED
      BY <2>1, <3>1
  <2>7. CASE HealRecovers
    BY <2>2, <2>7 DEF HealRecovers
  <2>8. CASE UNCHANGED vars
    BY <2>1, <2>8 DEF vars
  <2> QED
    BY <1>2, <2>3, <2>4, <2>5, <2>6, <2>7, <2>8
       DEF Next, Environment, RefreshStep, CallerStep, TaskStep, RequestStep
<1> QED
  BY <1>1, <1>2, PTL DEF Spec

----------------------------------------------------------------------------
(* The chain of refresh tokens *)

\* The account's refresh token is the one Tidal accepts, or the next one is on its way to
\* it, until Tidal withdraws the grant; only then is a refresh token refused.
GrantChain ==
  /\ \A c \in Task : reply[c].kind = "granted" =>
       reply[c].sent = refresh /\ accepted \in {0, reply[c].refresh}
  /\ \A c \in Task : reply[c].kind = "invalid_grant" => accepted = 0
  /\ accepted \in {0, refresh} \/ \E c \in Task : reply[c].kind = "granted"
  /\ autoOff => accepted = 0

ChainInv == TypeInv /\ OnePerLock /\ LockCurrent /\ GrantChain

\* At most one task has asked Tidal and not yet acted on the answer.
LEMMA OneUnderWay ==
  ASSUME TypeInv, OnePerLock, LockCurrent, NEW c \in Task, NEW d \in Task,
         pc[c] \in Critical, reply[d].kind # "none"
  PROVE  c = d
BY DEF TypeInv, LocalsTyped, OnePerLock, LockCurrent, Refreshing, Critical

LEMMA ChainQuiet ==
  ASSUME GrantChain, UNCHANGED <<accepted, refresh>>,
         autoOff' => (autoOff \/ accepted = 0),
         \A d \in Task : \/ reply'[d] = reply[d]
                         \/ reply'[d].kind \notin {"granted", "invalid_grant"}
                              /\ reply[d].kind # "granted"
  PROVE  GrantChain'
<1>1. accepted \in {0, refresh} \/ \E c \in Task : reply'[c].kind = "granted"
  BY DEF GrantChain
<1>2. autoOff' => accepted = 0
  BY Zenon DEF GrantChain
<1>3. \A c \in Task : reply'[c].kind = "granted" =>
         reply'[c].sent = refresh /\ accepted \in {0, reply'[c].refresh}
  BY DEF GrantChain
<1>4. \A c \in Task : reply'[c].kind = "invalid_grant" => accepted = 0
  BY DEF GrantChain
<1> QED
  BY <1>1, <1>2, <1>3, <1>4, Zenon DEF GrantChain

LEMMA ChainStep ==
  ASSUME Fault \cap {"lock_ttl", "lost_reply"} = {}, ChainInv, [Next]_vars
  PROVE  GrantChain'
<1> USE DEF ChainInv
<1>0. NoReply.kind = "none" /\ reply \in [Task -> Reply]
  BY ReplyTypes DEF TypeInv, LocalsTyped
<1>1. ASSUME UNCHANGED <<accepted, refresh, autoOff, reply>> PROVE GrantChain'
  BY <1>1, ChainQuiet
<1>2. ASSUME NEW c \in Task, UNCHANGED <<accepted, refresh>>, autoOff' => (autoOff \/ accepted = 0),
             Leaves(c) \/ (\E t : Returns(c, t)) \/ reply' = [reply EXCEPT ![c] = NoReply],
             reply[c].kind # "granted"
      PROVE  GrantChain'
  <2>1. reply' = [reply EXCEPT ![c] = NoReply]
    BY <1>2 DEF Leaves, Returns
  <2> QED
    BY <1>0, <1>2, <2>1, ChainQuiet
<1>3. ASSUME NEW c \in Task, TaskStep(c) PROVE GrantChain'
  <2> USE DEF server, account, local
  <2>1. CASE LockTaken(c)
    BY <1>1, <2>1 DEF LockTaken
  <2>2. CASE Recheck(c) \/ SharedToken(c)
    <3>1. UNCHANGED <<accepted, refresh, autoOff>> /\ pc[c] \in {"locked", "redis"}
      BY <2>2 DEF Recheck, SharedToken
    <3>2. reply[c].kind # "granted"
      BY <3>1 DEF TypeInv, LocalsTyped
    <3>3. reply' = reply \/ Leaves(c) \/ \E t : Returns(c, t)
      BY <2>2 DEF Recheck, SharedToken
    <3>4. autoOff' => (autoOff \/ accepted = 0)
      BY <3>1, Zenon
    <3> QED
      BY <1>1, <1>2, <3>1, <3>2, <3>3, <3>4
  <2>3. CASE TidalAnswers(c)
    <3>1. /\ pc[c] = "request" /\ UNCHANGED <<refresh, autoOff>>
          /\ \A d \in Task : reply[d].kind = "none"
      BY <2>3, OneUnderWay DEF TidalAnswers, TypeInv, LocalsTyped, Critical
    <3>2. accepted \in {0, refresh} /\ refresh >= 1
      BY <3>1 DEF GrantChain, TypeInv, AccountTyped
    <3>3. CASE /\ refresh = accepted
               /\ reply' = [reply EXCEPT ![c] = [kind |-> "granted", token |-> issued + 1,
                                                 refresh |-> accepted', sent |-> refresh]]
      <4>1. reply'[c].kind = "granted" /\ reply'[c].sent = refresh /\ reply'[c].refresh = accepted'
        BY <1>0, <3>3
      <4>2. \A d \in Task : d # c => reply'[d].kind = "none"
        BY <1>0, <3>1, <3>3
      <4>3. ~autoOff'
        BY <3>1, <3>2, <3>3 DEF GrantChain
      <4> QED
        BY <3>1, <4>1, <4>2, <4>3 DEF GrantChain
    <3>4. CASE /\ refresh # accepted
               /\ reply' = [reply EXCEPT ![c] = [NoReply EXCEPT !.kind = "invalid_grant"]]
               /\ accepted' = accepted
      <4>1. accepted = 0
        BY <3>2, <3>4
      <4>2. reply'[c].kind # "granted" /\ \A d \in Task : d # c => reply'[d].kind = "none"
        BY <1>0, <3>1, <3>4, ReplyTypes
      <4> QED
        BY <3>1, <3>4, <4>1, <4>2, Zenon DEF GrantChain
    <3>5. ASSUME NEW k \in {"error", "429"},
                 reply' = [reply EXCEPT ![c] = [NoReply EXCEPT !.kind = k]], accepted' = accepted
          PROVE  GrantChain'
      <4>1. \A d \in Task : reply'[d].kind \notin {"granted", "invalid_grant"}
        BY <1>0, <3>1, <3>5, ReplyTypes
      <4>2. autoOff' => (autoOff \/ accepted = 0)
        BY <3>1, Zenon
      <4> QED
        BY <3>1, <3>5, <4>1, <4>2, ChainQuiet
    <3> QED
      BY <2>3, <3>3, <3>4, <3>5 DEF TidalAnswers
  <2>4. CASE StoreGrant(c)
    <3>1. /\ pc[c] = "replied" /\ reply[c].kind = "granted" /\ UNCHANGED <<accepted, autoOff>>
          /\ \A d \in Task : d # c => reply[d].kind = "none"
      BY <2>4, OneUnderWay DEF StoreGrant, Critical
    <3>2. reply[c].sent = refresh /\ accepted \in {0, reply[c].refresh}
      BY <3>1 DEF GrantChain
    <3>3. refresh' = reply[c].refresh /\ reply' = [reply EXCEPT ![c] = NoReply]
      BY <2>4, <3>2 DEF StoreGrant, StoreRefreshedCredentials, Returns, Leaves
    <3>4. \A d \in Task : reply'[d].kind = "none"
      BY <1>0, <3>1, <3>3
    <3>5. accepted' \in {0, refresh'}
      BY <3>1, <3>2, <3>3
    <3>6. autoOff' => accepted' = 0
      BY <3>1, Zenon DEF GrantChain
    <3> QED
      BY <3>4, <3>5, <3>6 DEF GrantChain
  <2>5. CASE CredentialError(c)
    <3>1. /\ UNCHANGED <<accepted, refresh>> /\ reply[c].kind = "invalid_grant" /\ Leaves(c)
      BY <2>5 DEF CredentialError
    <3>2. accepted = 0
      BY <3>1 DEF GrantChain
    <3> QED
      BY <1>2, <3>1, <3>2
  <2>6. CASE TemporaryError(c)
    <3>1. /\ UNCHANGED <<accepted, refresh, autoOff>> /\ reply[c].kind # "granted"
          /\ Leaves(c) \/ reply' = [reply EXCEPT ![c] = NoReply]
      BY <2>6 DEF TemporaryError
    <3>2. autoOff' => (autoOff \/ accepted = 0)
      BY <3>1, Zenon
    <3> QED
      BY <1>2, <3>1, <3>2
  <2>7. CASE CycleTimesOut(c)
    <3>1. /\ UNCHANGED <<accepted, refresh, autoOff>> /\ Leaves(c) /\ ~ReplyPending(c)
          /\ pc[c] \in {"request", "replied"}
      BY <2>7 DEF CycleTimesOut
    <3>2. reply[c].kind # "granted"
      BY <3>1 DEF ReplyPending, TypeInv, LocalsTyped
    <3>3. autoOff' => (autoOff \/ accepted = 0)
      BY <3>1, Zenon
    <3> QED
      BY <1>2, <3>1, <3>2, <3>3
  <2> QED
    BY <1>3, <2>1, <2>2, <2>3, <2>4, <2>5, <2>6, <2>7 DEF TaskStep
<1>4. ASSUME NEW c \in Caller, RequestStep(c) PROVE GrantChain'
  <2> USE DEF server, account
  <2>0. c \in Task
    BY DEF Task
  <2>1. UNCHANGED <<accepted, refresh, autoOff>>
    BY <1>4 DEF RequestStep, Ask, Served, UseFails, Unauthorized, Disconnect
  <2>2. reply' = reply \/ Leaves(c)
    BY <1>4 DEF RequestStep, Ask, Served, UseFails, Unauthorized, Disconnect
  <2>3. reply[c].kind # "granted"
    <3>1. ~ReplyPending(c)
      BY <1>4 DEF RequestStep, Ask, Served, UseFails, Unauthorized, Disconnect, ReplyPending
    <3> QED
      BY <2>0, <3>1 DEF ReplyPending, TypeInv, LocalsTyped
  <2>4. autoOff' => (autoOff \/ accepted = 0)
    BY <2>1, Zenon
  <2> QED
    BY <1>1, <1>2, <2>0, <2>1, <2>2, <2>3, <2>4
<1>5. CASE Environment
  <2> USE DEF server, account, local
  <2>1. CASE HealPass \/ ClockRuns \/ TokenExpires \/ LockExpires
    BY <1>1, <2>1 DEF HealPass, ClockRuns, TokenExpires, LockExpires
  <2>2. CASE HealRecovers
    <3>1. UNCHANGED <<accepted, refresh, reply>> /\ SetSystemDisabled(FALSE)
      BY <2>2 DEF HealRecovers
    <3>2. autoOff' => (autoOff \/ accepted = 0)
      BY <3>1, Zenon DEF SetSystemDisabled
    <3> QED
      BY <3>1, <3>2, ChainQuiet
  <2>3. ASSUME NEW on \in BOOLEAN, SetAccountActive(on) PROVE GrantChain'
    <3>1. UNCHANGED <<accepted, refresh, reply>> /\ ~autoOff'
      BY <2>3 DEF SetAccountActive
    <3> QED
      BY <3>1, ChainQuiet
  <2>4. CASE TidalRevokes
    <3>1. UNCHANGED <<refresh, autoOff, reply>> /\ accepted' \in {0, accepted}
      BY <2>4 DEF TidalRevokes
    <3>2. CASE accepted' = accepted
      BY <1>1, <3>1, <3>2
    <3>3. CASE accepted' = 0
      BY <3>1, <3>3 DEF GrantChain
    <3> QED
      BY <3>1, <3>2, <3>3
  <2> QED
    BY <1>5, <2>1, <2>2, <2>3, <2>4 DEF Environment
<1>6. CASE UNCHANGED vars
  BY <1>1, <1>6 DEF vars
<1> QED
  BY <1>3, <1>4, <1>5, <1>6 DEF Next, RefreshStep, CallerStep, TaskStep, RequestStep

\* The system switches an account off only when Tidal has withdrawn its grant, provided
\* that no lock entry expires during a refresh and no granted answer is lost: then no
\* task presents a refresh token that another has traded in. Lost writes to Redis, and
\* errors and 429s of the token endpoint, do no harm.
THEOREM OnlyTidalDisables ==
  ASSUME Fault \cap {"lock_ttl", "lost_reply"} = {}
  PROVE  Spec => []DisabledOnlyByTidal
<1>1. Init => ChainInv
  <2> SUFFICES ASSUME Init PROVE ChainInv
    OBVIOUS
  <2>1. TypeInv /\ \A c \in Task : reply[c].kind = "none"
    BY InitTyped, ReplyTypes DEF Init
  <2>2. OnePerLock /\ LockCurrent
    BY DEF Init, OnePerLock, LockCurrent, Critical, Refreshing
  <2>3. GrantChain
    BY <2>1 DEF Init, GrantChain
  <2> QED
    BY <2>1, <2>2, <2>3 DEF ChainInv
<1>2. ChainInv /\ [Next]_vars => ChainInv'
  BY TypeStep, OnePerLockStep, LockCurrentStep, ChainStep DEF ChainInv
<1>3. ChainInv => DisabledOnlyByTidal
  BY DEF ChainInv, GrantChain, DisabledOnlyByTidal
<1> QED
  BY <1>1, <1>2, <1>3, PTL DEF Spec

----------------------------------------------------------------------------
(* Tokens that drew a 401 *)

\* The installed token is marked once it is refused, Redis advertises no other one, and a
\* token that Tidal has granted is new to everybody until the grant is stored.
FreshTokens ==
  /\ token \in refused => token = rejected
  /\ token # 0 => shared \in {0, token}
  /\ token = 0 => refused = {} /\ \A c \in Task : tok[c] = 0
  /\ \A c \in Task : reply[c].kind = "granted" =>
       /\ reply[c].token \notin refused \cup {token, shared}
       /\ \A d \in Task : tok[d] # reply[c].token
       /\ \A d \in Task : d # c /\ reply[d].kind = "granted" => reply[d].token # reply[c].token

\* What NeverReused says of a step.
NoReuse ==
  /\ token' # token => token' \notin refused
  /\ \A c \in Caller : tok'[c] # tok[c] => tok'[c] \notin refused

\* A step that installs no token and stores no grant; it may hand out the cached token.
QuietTokens ==
  /\ UNCHANGED <<token, shared, rejected, refused>>
  /\ \A d \in Task : tok'[d] \in {tok[d], 0} \/ (Cached /\ tok'[d] = token)
  /\ \A d \in Task : reply'[d] = reply[d] \/ reply'[d].kind = "none"

LEMMA QuietFresh ==
  ASSUME TypeInv, FreshTokens, QuietTokens
  PROVE  FreshTokens' /\ NoReuse
<1>1. NoReuse
  BY DEF NoReuse, FreshTokens, QuietTokens, TypeInv, AccountTyped, Cached, Task
<1>2. \A c \in Task : reply'[c].kind = "granted" => reply[c].kind = "granted" /\ reply'[c] = reply[c]
  BY DEF QuietTokens
<1>3. \A c \in Task : reply[c].kind = "granted" => reply[c].token \in 1 .. issued
  BY DEF TypeInv, LocalsTyped
<1>4. \A c \in Task : reply'[c].kind = "granted" =>
        /\ reply'[c].token \notin refused' \cup {token', shared'}
        /\ \A d \in Task : tok'[d] # reply'[c].token
  BY <1>2, <1>3 DEF FreshTokens, QuietTokens
<1>5. \A c \in Task, d \in Task :
        reply'[c].kind = "granted" /\ d # c /\ reply'[d].kind = "granted"
          => reply'[d].token # reply'[c].token
  BY <1>2 DEF FreshTokens
<1>6. /\ token' \in refused' => token' = rejected'
      /\ token' # 0 => shared' \in {0, token'}
      /\ token' = 0 => refused' = {} /\ \A c \in Task : tok'[c] = 0
  BY DEF FreshTokens, QuietTokens, Cached
<1> QED
  BY <1>1, <1>4, <1>5, <1>6 DEF FreshTokens

\* Leaving refresh() and getting the cached token from it are quiet.
LEMMA LeavesQuiet ==
  ASSUME TypeInv, NEW c \in Task, UNCHANGED <<token, shared, rejected, refused>>,
         Leaves(c) \/ (Cached /\ Returns(c, token))
  PROVE  QuietTokens
<1>1. reply' = [reply EXCEPT ![c] = NoReply]
  BY DEF Leaves, Returns
<1>2. \A d \in Task : reply'[d] = reply[d] \/ reply'[d].kind = "none"
  BY <1>1, ReplyTypes DEF TypeInv, LocalsTyped
<1>3. \A d \in Task : tok'[d] \in {tok[d], 0} \/ (Cached /\ tok'[d] = token)
  BY DEF TypeInv, LocalsTyped, Leaves, Returns
<1> QED
  BY <1>2, <1>3 DEF QuietTokens

LEMMA SharedFresh ==
  ASSUME TypeInv, FreshTokens, NEW c \in Task, SharedToken(c)
  PROVE  FreshTokens' /\ NoReuse
<1> USE DEF TypeInv, LocalsTyped, ServerTyped, AccountTyped
<1>1. UNCHANGED <<shared, rejected, refused>>
  BY DEF SharedToken
<1>2. CASE UNCHANGED <<token, tok, reply>>
  BY <1>1, <1>2, QuietFresh DEF QuietTokens
<1>3. CASE SharedUsable(c) /\ token' = shared /\ Returns(c, shared)
  <2>1. shared # 0 /\ shared # rejected /\ (token # 0 => shared = token)
    BY <1>3 DEF SharedUsable, FreshTokens
  <2>2. shared \notin refused
    BY <2>1 DEF FreshTokens
  <2>3. \A d \in Task : tok'[d] \in {tok[d], 0, shared}
    BY <1>3 DEF Returns
  <2>4. reply' = [reply EXCEPT ![c] = NoReply]
    BY <1>3 DEF Returns
  <2>5. \A d \in Task : reply'[d] = reply[d] \/ reply'[d].kind = "none"
    BY <2>4, ReplyTypes
  <2>6. NoReuse
    BY <1>3, <2>2, <2>3 DEF NoReuse, Task
  <2>7. \A d \in Task : reply'[d].kind = "granted" =>
          /\ reply'[d] = reply[d] /\ reply[d].kind = "granted" /\ reply[d].token \in 1 .. issued
    BY <2>5
  <2>8. \A d \in Task : reply'[d].kind = "granted" =>
          /\ reply'[d].token \notin refused' \cup {token', shared'}
          /\ \A e \in Task : tok'[e] # reply'[d].token
    BY <1>1, <1>3, <2>3, <2>7 DEF FreshTokens
  <2>9. \A d \in Task, e \in Task :
          reply'[d].kind = "granted" /\ e # d /\ reply'[e].kind = "granted"
            => reply'[e].token # reply'[d].token
    BY <2>7 DEF FreshTokens
  <2> QED
    BY <1>1, <1>3, <2>1, <2>2, <2>6, <2>8, <2>9 DEF FreshTokens
<1> QED
  BY <1>2, <1>3 DEF SharedToken

LEMMA AnswerFresh ==
  ASSUME TypeInv, FreshTokens, NEW c \in Task, TidalAnswers(c)
  PROVE  FreshTokens' /\ NoReuse
<1> USE DEF TypeInv, LocalsTyped, ServerTyped, AccountTyped
<1>1. UNCHANGED <<token, shared, rejected, refused, tok>>
  BY DEF TidalAnswers, account
<1>2. NoReuse
  BY <1>1 DEF NoReuse
<1>3. CASE reply' = [reply EXCEPT ![c] = [kind |-> "granted", token |-> issued + 1,
                                          refresh |-> accepted', sent |-> refresh]]
  <2>1. reply'[c].token = issued + 1 /\ \A d \in Task : d # c => reply'[d] = reply[d]
    BY <1>3
  <2>2. \A d \in Task : d # c /\ reply[d].kind = "granted" => reply[d].token \in 1 .. issued
    OBVIOUS
  <2>3. issued + 1 \notin refused \cup {token, shared} /\ \A d \in Task : tok[d] # issued + 1
    OBVIOUS
  <2>4. \A d \in Task : reply'[d].kind = "granted" =>
          /\ reply'[d].token \notin refused' \cup {token', shared'}
          /\ \A e \in Task : tok'[e] # reply'[d].token
    BY <1>1, <2>1, <2>3 DEF FreshTokens
  <2>5. \A d \in Task, e \in Task :
          reply'[d].kind = "granted" /\ e # d /\ reply'[e].kind = "granted"
            => reply'[e].token # reply'[d].token
    BY <2>1, <2>2 DEF FreshTokens
  <2> QED
    BY <1>1, <1>2, <2>4, <2>5 DEF FreshTokens
<1>4. CASE \E k \in {"invalid_grant", "error", "429"} :
             reply' = [reply EXCEPT ![c] = [NoReply EXCEPT !.kind = k]]
  <2>1. \A d \in Task : reply'[d].kind = "granted" => reply'[d] = reply[d]
    BY <1>4, ReplyTypes
  <2>2. \A d \in Task : reply'[d].kind = "granted" =>
          /\ reply'[d].token \notin refused' \cup {token', shared'}
          /\ \A e \in Task : tok'[e] # reply'[d].token
    BY <1>1, <2>1 DEF FreshTokens
  <2>3. \A d \in Task, e \in Task :
          reply'[d].kind = "granted" /\ e # d /\ reply'[e].kind = "granted"
            => reply'[e].token # reply'[d].token
    BY <2>1 DEF FreshTokens
  <2> QED
    BY <1>1, <1>2, <2>2, <2>3 DEF FreshTokens
<1> QED
  BY <1>3, <1>4 DEF TidalAnswers

LEMMA GrantFresh ==
  ASSUME "redis_write" \notin Fault, TypeInv, FreshTokens, NEW c \in Task, StoreGrant(c)
  PROVE  FreshTokens' /\ NoReuse
<1> USE DEF TypeInv, LocalsTyped, ServerTyped, AccountTyped
<1>1. UNCHANGED <<rejected, refused>> /\ reply[c].kind = "granted"
  BY DEF StoreGrant
<1>2. CASE UNCHANGED <<token, shared>> /\ Leaves(c)
  BY <1>1, <1>2, LeavesQuiet, QuietFresh
<1>3. CASE token' = reply[c].token /\ shared' = reply[c].token /\ Returns(c, reply[c].token)
  <2> DEFINE t == reply[c].token
  <2>1. /\ t \in 1 .. issued /\ t \notin refused
        /\ \A d \in Task : d # c /\ reply[d].kind = "granted" => reply[d].token # t
    BY <1>1 DEF FreshTokens
  <2>2. \A d \in Task : tok'[d] \in {tok[d], 0, t}
    BY <1>3 DEF Returns
  <2>3. reply' = [reply EXCEPT ![c] = NoReply]
    BY <1>3 DEF Returns
  <2>4. \A d \in Task : reply'[d].kind = "granted" =>
          d # c /\ reply'[d] = reply[d] /\ reply[d].kind = "granted" /\ reply[d].token \in 1 .. issued
    BY <2>3, ReplyTypes
  <2>5. NoReuse
    BY <1>3, <2>1, <2>2 DEF NoReuse, Task
  <2>6. \A d \in Task : reply'[d].kind = "granted" =>
          /\ reply'[d].token \notin refused' \cup {token', shared'}
          /\ \A e \in Task : tok'[e] # reply'[d].token
    BY <1>1, <1>3, <2>1, <2>2, <2>4 DEF FreshTokens
  <2>7. \A d \in Task, e \in Task :
          reply'[d].kind = "granted" /\ e # d /\ reply'[e].kind = "granted"
            => reply'[e].token # reply'[d].token
    BY <2>4 DEF FreshTokens
  <2> QED
    BY <1>1, <1>3, <2>1, <2>5, <2>6, <2>7 DEF FreshTokens
<1> QED
  BY <1>2, <1>3 DEF StoreGrant, StoreRefreshedCredentials

LEMMA UnauthorizedFresh ==
  ASSUME TypeInv, FreshTokens, NEW c \in Caller, Unauthorized(c)
  PROVE  FreshTokens' /\ NoReuse
<1> USE DEF TypeInv, LocalsTyped, ServerTyped, AccountTyped
<1>0. c \in Task
  BY DEF Task
<1>1. UNCHANGED <<token, shared>> /\ tok[c] \in 1 .. issued
  BY <1>0 DEF Unauthorized
<1>2. CASE UNCHANGED <<rejected, refused>> /\ Leaves(c)
  BY <1>0, <1>1, <1>2, LeavesQuiet, QuietFresh
<1>3. CASE /\ rejected' = IF token = tok[c] THEN tok[c] ELSE rejected
           /\ refused' = refused \cup {tok[c]}
           /\ \A d \in Task : tok'[d] \in {tok[d], 0}
           /\ \A d \in Task : reply'[d] = reply[d] \/ reply'[d].kind = "none"
  <2>1. token # 0
    BY <1>0, <1>1 DEF FreshTokens
  <2>2. NoReuse
    BY <1>1, <1>3 DEF NoReuse, Task
  <2>3. \A d \in Task : reply'[d].kind = "granted" =>
          reply'[d] = reply[d] /\ reply[d].kind = "granted" /\ reply[d].token \in 1 .. issued
    BY <1>3
  <2>4. \A d \in Task : reply'[d].kind = "granted" =>
          /\ reply'[d].token \notin refused' \cup {token', shared'}
          /\ \A e \in Task : tok'[e] # reply'[d].token
    BY <1>0, <1>1, <1>3, <2>3 DEF FreshTokens
  <2>5. \A d \in Task, e \in Task :
          reply'[d].kind = "granted" /\ e # d /\ reply'[e].kind = "granted"
            => reply'[e].token # reply'[d].token
    BY <2>3 DEF FreshTokens
  <2> QED
    BY <1>1, <1>3, <2>1, <2>2, <2>4, <2>5 DEF FreshTokens
<1>4. Leaves(c) \/ (tok' = [tok EXCEPT ![c] = 0] /\ reply' = reply)
  BY DEF Unauthorized
<1>5. /\ \A d \in Task : tok'[d] \in {tok[d], 0}
      /\ \A d \in Task : reply'[d] = reply[d] \/ reply'[d].kind = "none"
  BY <1>0, <1>4, ReplyTypes DEF Leaves
<1> QED
  BY <1>2, <1>3, <1>5 DEF Unauthorized, RejectAccessToken

LEMMA FreshStep ==
  ASSUME "redis_write" \notin Fault, TypeInv, FreshTokens, [Next]_vars
  PROVE  FreshTokens' /\ NoReuse
<1> DEFINE Goal == FreshTokens' /\ NoReuse
<1>1. ASSUME UNCHANGED <<token, shared, rejected, refused, tok, reply>> PROVE Goal
  BY <1>1, QuietFresh DEF QuietTokens
<1>2. ASSUME NEW c \in Task, UNCHANGED <<token, shared, rejected, refused>>,
             Leaves(c) \/ (Cached /\ Returns(c, token))
      PROVE  Goal
  BY <1>2, LeavesQuiet, QuietFresh
<1>3. ASSUME NEW c \in Task, TaskStep(c) PROVE Goal
  <2> USE DEF account, local
  <2>1. CASE SharedToken(c)
    BY <2>1, SharedFresh
  <2>2. CASE TidalAnswers(c)
    BY <2>2, AnswerFresh
  <2>3. CASE StoreGrant(c)
    BY <2>3, GrantFresh
  <2>4. CASE LockTaken(c)
    BY <1>1, <2>4 DEF LockTaken
  <2>5. CASE Recheck(c)
    BY <1>1, <1>2, <2>5 DEF Recheck
  <2>6. CASE CredentialError(c) \/ CycleTimesOut(c)
    BY <1>2, <2>6 DEF CredentialError, CycleTimesOut
  <2>7. CASE TemporaryError(c)
    <3>1. UNCHANGED <<token, shared, rejected, refused>>
      BY <2>7 DEF TemporaryError
    <3>2. CASE Leaves(c)
      BY <1>2, <3>1, <3>2
    <3>3. CASE reply' = [reply EXCEPT ![c] = NoReply] /\ tok' = tok
      <4>1. \A d \in Task : reply'[d] = reply[d] \/ reply'[d].kind = "none"
        BY <3>3, ReplyTypes DEF TypeInv, LocalsTyped
      <4> QED
        BY <3>1, <3>3, <4>1, QuietFresh DEF QuietTokens
    <3> QED
      BY <2>7, <3>2, <3>3 DEF TemporaryError
  <2> QED
    BY <1>3, <2>1, <2>2, <2>3, <2>4, <2>5, <2>6, <2>7 DEF TaskStep
<1>4. ASSUME NEW c \in Caller, RequestStep(c) PROVE Goal
  <2> USE DEF account
  <2>0. c \in Task
    BY DEF Task
  <2>1. CASE Unauthorized(c)
    BY <2>1, UnauthorizedFresh
  <2>2. CASE ~Unauthorized(c)
    <3>1. UNCHANGED <<token, shared, rejected, refused>>
      BY <1>4, <2>2 DEF RequestStep, Ask, Served, UseFails, Disconnect
    <3>2. \/ Leaves(c)
          \/ /\ UNCHANGED reply
             /\ \/ tok' = tok \/ tok' = [tok EXCEPT ![c] = 0]
                \/ Cached /\ tok' = [tok EXCEPT ![c] = token]
      BY <1>4, <2>2 DEF RequestStep, Ask, Served, UseFails, Disconnect
    <3>3. CASE Leaves(c)
      BY <1>2, <2>0, <3>1, <3>3
    <3>4. CASE ~Leaves(c)
      <4>1. \A d \in Task : tok'[d] \in {tok[d], 0} \/ (Cached /\ tok'[d] = token)
        BY <2>0, <3>2, <3>4 DEF TypeInv, LocalsTyped
      <4> QED
        BY <3>1, <3>2, <3>4, <4>1, QuietFresh DEF QuietTokens
    <3> QED
      BY <3>3, <3>4
  <2> QED
    BY <2>1, <2>2
<1>5. CASE Environment \/ UNCHANGED vars
  <2>1. UNCHANGED <<token, shared, rejected, refused, tok, reply>>
    BY <1>5 DEF vars, Environment, HealPass, HealRecovers, SetAccountActive, ClockRuns,
                TokenExpires, TidalRevokes, LockExpires, account, local
  <2> QED
    BY <1>1, <2>1
<1> QED
  BY <1>3, <1>4, <1>5 DEF Next, RefreshStep, CallerStep, TaskStep, RequestStep

\* No step installs or hands out a token that has drawn a 401 here, whichever tasks
\* refresh meanwhile, while every granted token reaches Redis: lock entries may expire
\* and granted answers may be lost.
THEOREM RefusedStaysRefused ==
  ASSUME "redis_write" \notin Fault
  PROVE  Spec => NeverReused
<1>1. Init => TypeInv /\ FreshTokens
  <2> SUFFICES ASSUME Init PROVE TypeInv /\ FreshTokens
    OBVIOUS
  <2>1. \A c \in Task : reply[c].kind = "none" /\ tok[c] = 0
    BY ReplyTypes DEF Init
  <2>2. refused = {} /\ (token # 0 => shared \in {0, token})
    BY DEF Init
  <2> QED
    BY InitTyped, <2>1, <2>2 DEF FreshTokens
<1>2. TypeInv /\ FreshTokens /\ [Next]_vars => (TypeInv /\ FreshTokens)' /\ [NoReuse]_vars
  BY TypeStep, FreshStep
<1>3. [][NoReuse]_vars => NeverReused
  BY DEF NoReuse, NeverReused
<1> QED
  BY <1>1, <1>2, <1>3, PTL DEF Spec


---------------------------------------------------------------------------
(* How accounts come into the pool (AccountOnboarding)                     *)

CONSTANTS Entries, Posted, Installations, Sessions,
          MaxPolls, MaxRotations, MaxCrashes, MaxDbErrors, MaxImports
VARIABLES env, accounts, boot, importer, mark, login, newest, unread,
          rotations, crashes, dbErrors, imports
Setup == INSTANCE AccountOnboarding WITH issued <- newest

\* What the imports bring: entries whose tokens no sign-in of ours was given.
FileEntries == Setup!ToSet(Entries) \cup Setup!ToSet(Posted)
SetupParameters ==
  /\ Entries \in Seq(FileEntries) /\ Posted \in Seq(FileEntries)
  /\ \A e \in FileEntries : e.origin \notin Setup!Logins /\ e.catalog \in BOOLEAN
  /\ {"env catalog", "env default"} \cap Sessions = {}
  /\ MaxPolls \in Nat /\ MaxRotations \in Nat

LEMMA SetupBounds ==
  ASSUME SetupParameters
  PROVE  MaxPolls \in Nat /\ MaxRotations \in Nat
BY DEF SetupParameters

Credential == [token : Setup!Tokens, catalog : BOOLEAN]
AccountRec == [row : Credential, mem : Credential \cup {Setup!Unloaded}]
SignInPc == {"none", "poll", "refresh", "add", "store", "complete", "error", "gone"}
SignInRec == [pc : SignInPc, polls : Nat, catalog : BOOLEAN,
              token : Setup!Tokens \cup {<< >>}, account : Nat]
ImportRec == [todo : Seq(FileEntries), seen : SUBSET Setup!Tokens]

SetupTyped ==
  /\ accounts \in Seq(AccountRec)
  /\ boot \in {"load", "import", "file", "default", "auto", "up"}
  /\ importer \in [Setup!Importers -> ImportRec]
  /\ login \in [Setup!Logins -> SignInRec]
  /\ newest \in [Setup!Origins -> Nat]
  /\ \A o \in Setup!Origins : newest[o] <= rotations + 1
  /\ rotations \in Nat /\ rotations <= MaxRotations

\* Only accounts in the pool are about to be flagged.
MarksLoaded ==
  /\ mark \in [Setup!Tasks -> Nat]
  /\ \A t \in Setup!Tasks : mark[t] # 0 => mark[t] \in Setup!Loaded

\* Before the database is loaded nothing adds accounts, and nobody signs in before the
\* server is up.
QuietBoot ==
  /\ boot = "load" => /\ \A t \in Setup!Tasks : mark[t] = 0
                      /\ \A w \in Setup!Importers : importer[w].todo = << >>
  /\ boot # "up" => \A s \in Setup!Logins : login[s].pc \in {"none", "gone"}

\* The token of a sign-in is the newest one, wherever it is; until the account is added
\* the pool has none of it, and afterwards one account.
OutOfPool(s) == \A a \in Setup!Loaded : accounts[a].mem.token[1] # s
Nowhere(s) == /\ OutOfPool(s)
              /\ \A a \in DOMAIN accounts : accounts[a].row.token[1] # s
Current(s) ==
  LET n == login[s].account
  IN  /\ n \in Setup!Loaded
      /\ accounts[n].mem.token = <<s, newest[s]>>
      /\ accounts[n].row.token = <<s, newest[s]>>
      /\ \A a \in Setup!Loaded : accounts[a].mem.token[1] = s => a = n
SignIn(s) ==
  /\ login[s].pc = "none" => Nowhere(s)
  /\ login[s].pc \in {"poll", "refresh", "add"} => OutOfPool(s)
  /\ login[s].pc = "add" => login[s].token = <<s, newest[s]>>
  /\ login[s].pc \in {"store", "complete"} => Current(s)

SetupInv == /\ SetupTyped /\ MarksLoaded /\ QuietBoot
            /\ \A s \in Setup!Logins : SignIn(s)

---------------------------------------------------------------------------
LEMMA OriginTypes ==
  ASSUME SetupParameters
  PROVE  /\ Setup!Logins \subseteq Setup!Origins
         /\ \A e \in FileEntries : e.origin \in Setup!Origins
         /\ \A o \in {"env catalog", "env default"} :
              o \in Setup!Origins /\ o \notin Setup!Logins
         /\ 0 \in 0 .. MaxRotations + 1
         /\ Setup!Unloaded \notin Credential
         /\ \A t \in Setup!Tokens : /\ t[1] \in Setup!Origins /\ t[2] \in 0 .. MaxRotations + 1
                                    /\ t = <<t[1], t[2]>>
<1>1. Setup!Logins \subseteq Setup!Origins /\ \A e \in FileEntries : e.origin \in Setup!Origins
  BY DEF Setup!Origins, FileEntries
<1>2. \A o \in {"env catalog", "env default"} : o \in Setup!Origins /\ o \notin Setup!Logins
  BY DEF SetupParameters, Setup!Origins, Setup!Logins
<1>3. 0 \in 0 .. MaxRotations + 1
  BY SetupBounds
<1>4. Setup!Unloaded \notin Credential
  <2>1. \A o, g : <<o, g>> # << >>
    <3> TAKE o, g
    <3>1. Len(<<o, g>>) = 2 /\ Len(<< >>) = 0
      OBVIOUS
    <3> QED
      BY <3>1
  <2>2. << >> \notin Setup!Tokens
    BY <2>1 DEF Setup!Tokens
  <2> QED
    BY <2>2 DEF Setup!Unloaded, Credential
<1>5. \A t \in Setup!Tokens : /\ t[1] \in Setup!Origins /\ t[2] \in 0 .. MaxRotations + 1
                              /\ t = <<t[1], t[2]>>
  BY DEF Setup!Tokens
<1> QED
  BY <1>1, <1>2, <1>3, <1>4, <1>5

LEMMA SetupInit ==
  ASSUME SetupParameters, Setup!Init
  PROVE  SetupInv
<1>1. SetupTyped
  <2>1. accounts \in Seq(AccountRec) /\ boot = "load"
    BY DEF Setup!Init
  <2>2. importer \in [Setup!Importers -> ImportRec]
    BY DEF Setup!Init, Setup!Idle, ImportRec
  <2>3. login \in [Setup!Logins -> SignInRec]
    BY DEF Setup!Init, Setup!NoLogin, SignInRec, SignInPc
  <2>4. newest \in [Setup!Origins -> Nat] /\ rotations = 0
        /\ \A o \in Setup!Origins : newest[o] <= rotations + 1
    BY DEF Setup!Init
  <2> QED
    BY <2>1, <2>2, <2>3, <2>4, SetupBounds DEF SetupTyped
<1>2. MarksLoaded /\ QuietBoot
  <2>1. \A t \in Setup!Tasks : mark[t] = 0
    BY DEF Setup!Init
  <2>2. mark \in [Setup!Tasks -> Nat]
    BY DEF Setup!Init
  <2>3. \A w \in Setup!Importers : importer[w].todo = << >>
    BY DEF Setup!Init, Setup!Idle
  <2>4. \A s \in Setup!Logins : login[s].pc = "none"
    BY DEF Setup!Init, Setup!NoLogin
  <2> QED
    BY <2>1, <2>2, <2>3, <2>4 DEF MarksLoaded, QuietBoot
<1>3. \A s \in Setup!Logins : SignIn(s)
  BY DEF Setup!Init, SignIn, Nowhere, OutOfPool, Setup!Loaded, Setup!NoLogin
<1> QED
  BY <1>1, <1>2, <1>3 DEF SetupInv

---------------------------------------------------------------------------
(* The accounts *)

LEMMA AccountTypes ==
  ASSUME SetupTyped
  PROVE  /\ DOMAIN accounts = 1 .. Len(accounts) /\ Len(accounts) \in Nat
         /\ Setup!Loaded \subseteq DOMAIN accounts
         /\ \A a \in DOMAIN accounts : /\ accounts[a] \in AccountRec
                                       /\ accounts[a].row \in Credential
                                       /\ accounts[a].row.token \in Setup!Tokens
         /\ \A a \in Setup!Loaded : /\ accounts[a].mem \in Credential
                                    /\ accounts[a].mem.token \in Setup!Tokens
<1>1. /\ DOMAIN accounts = 1 .. Len(accounts) /\ Len(accounts) \in Nat
      /\ \A a \in DOMAIN accounts : accounts[a] \in AccountRec
  BY DEF SetupTyped
<1> QED
  BY <1>1 DEF AccountRec, Credential, Setup!Loaded

\* An account is added at the end.
LEMMA Appended ==
  ASSUME SetupTyped, NEW rec \in AccountRec, accounts' = Append(accounts, rec)
  PROVE  /\ accounts' \in Seq(AccountRec)
         /\ DOMAIN accounts' = DOMAIN accounts \cup {Setup!NewAccount}
         /\ Setup!NewAccount \notin DOMAIN accounts /\ Setup!NewAccount \in Nat \ {0}
         /\ \A a \in DOMAIN accounts : accounts'[a] = accounts[a]
         /\ accounts'[Setup!NewAccount] = rec
         /\ Setup!Loaded' = Setup!Loaded \cup
                            (IF rec.mem = Setup!Unloaded THEN {} ELSE {Setup!NewAccount})
<1>1. accounts \in Seq(AccountRec)
  BY DEF SetupTyped
<1>2. accounts' \in Seq(AccountRec)
  BY <1>1
<1>3. DOMAIN accounts = 1 .. Len(accounts) /\ Len(accounts) \in Nat
  BY <1>1
<1>4. DOMAIN accounts' = 1 .. Len(accounts) + 1
  BY <1>1
<1>5. /\ \A a \in DOMAIN accounts : accounts'[a] = accounts[a]
      /\ accounts'[Len(accounts) + 1] = rec
  BY <1>1
<1>6. /\ DOMAIN accounts' = DOMAIN accounts \cup {Len(accounts) + 1}
      /\ Len(accounts) + 1 \notin DOMAIN accounts /\ Len(accounts) + 1 \in Nat \ {0}
  BY <1>3, <1>4
<1>7. Setup!Loaded' = Setup!Loaded \cup
                      (IF rec.mem = Setup!Unloaded THEN {} ELSE {Len(accounts) + 1})
  BY <1>5, <1>6 DEF Setup!Loaded
<1> QED
  BY <1>2, <1>5, <1>6, <1>7 DEF Setup!NewAccount

\* Steps that leave all tokens where they are leave all sign-ins as they are.
LEMMA SameTokens ==
  ASSUME SetupInv, login' = login, newest' = newest,
         DOMAIN accounts' = DOMAIN accounts, Setup!Loaded' = Setup!Loaded,
         \A a \in DOMAIN accounts : accounts'[a].row.token = accounts[a].row.token,
         \A a \in Setup!Loaded : accounts'[a].mem.token = accounts[a].mem.token
  PROVE  \A s \in Setup!Logins : SignIn(s)'
<1> TAKE s \in Setup!Logins
<1>1. SignIn(s) /\ Setup!Loaded \subseteq DOMAIN accounts
  BY AccountTypes DEF SetupInv
<1>2. OutOfPool(s) => OutOfPool(s)'
  BY DEF OutOfPool
<1>3. Nowhere(s) => Nowhere(s)'
  BY <1>2 DEF Nowhere
<1>4. Current(s) => Current(s)'
  BY <1>1 DEF Current
<1> QED
  BY <1>1, <1>2, <1>3, <1>4 DEF SignIn

LEMMA Unmoved ==
  ASSUME SetupInv, UNCHANGED <<accounts, login, newest>>
  PROVE  \A s \in Setup!Logins : SignIn(s)'
BY SameTokens DEF Setup!Loaded

\* An account of another origin is no sign-in's, whether all of it is added or only
\* the row.
LEMMA ForeignAdded ==
  ASSUME SetupInv, UNCHANGED <<login, newest>>, NEW rec \in AccountRec,
         accounts' = Append(accounts, rec),
         rec.row.token[1] \notin Setup!Logins,
         rec.mem = Setup!Unloaded \/ rec.mem.token[1] \notin Setup!Logins
  PROVE  \A s \in Setup!Logins : SignIn(s)'
<1> TAKE s \in Setup!Logins
<1>0. SetupTyped /\ SignIn(s)
  BY DEF SetupInv
<1>1. Setup!Loaded \subseteq DOMAIN accounts
  BY <1>0, AccountTypes
<1> DEFINE n == Setup!NewAccount
<1>2. /\ DOMAIN accounts' = DOMAIN accounts \cup {n}
      /\ n \notin DOMAIN accounts
      /\ \A a \in DOMAIN accounts : accounts'[a] = accounts[a]
      /\ accounts'[n] = rec
      /\ Setup!Loaded' = Setup!Loaded \cup (IF rec.mem = Setup!Unloaded THEN {} ELSE {n})
  BY <1>0, Appended
<1> HIDE DEF n
<1>3. \A a \in Setup!Loaded' : a \in Setup!Loaded \/ (a = n /\ accounts'[a].mem.token[1] # s)
  BY <1>2
<1>4. OutOfPool(s) => OutOfPool(s)'
  BY <1>1, <1>2, <1>3 DEF OutOfPool
<1>5. Nowhere(s) => Nowhere(s)'
  BY <1>2, <1>4 DEF Nowhere
<1>6. Current(s) => Current(s)'
  BY <1>1, <1>2, <1>3 DEF Current
<1> QED
  BY <1>0, <1>4, <1>5, <1>6 DEF SignIn

\* AddAccount and AddFails append one account or none.
LEMMA FreshTypes ==
  ASSUME SetupParameters, NEW t \in Setup!Tokens
  PROVE  /\ Setup!Fresh(t) \in Credential /\ Setup!Fresh(t) # Setup!Unloaded
         /\ Setup!Fresh(t).token = t
         /\ [row |-> Setup!Fresh(t), mem |-> Setup!Fresh(t)] \in AccountRec
         /\ [row |-> Setup!Fresh(t), mem |-> Setup!Unloaded] \in AccountRec
<1>1. Setup!Fresh(t) \in Credential /\ Setup!Fresh(t).token = t
  BY DEF Setup!Fresh, Credential
<1>2. Setup!Unloaded \notin Credential
  BY OriginTypes
<1> QED
  BY <1>1, <1>2 DEF AccountRec

LEMMA ForeignSteps ==
  ASSUME SetupParameters, SetupInv, UNCHANGED <<login, newest>>,
         NEW t \in Setup!Tokens, t[1] \notin Setup!Logins,
         Setup!AddAccount(t) \/ Setup!AddFails(t) \/ UNCHANGED accounts
  PROVE  /\ accounts' \in Seq(AccountRec) /\ Setup!Loaded \subseteq Setup!Loaded'
         /\ Setup!AddAccount(t) => Setup!NewAccount \in Setup!Loaded' \cap Nat
         /\ \A s \in Setup!Logins : SignIn(s)'
<1>0. SetupTyped /\ Setup!Loaded \subseteq DOMAIN accounts
  BY AccountTypes DEF SetupInv
<1>1. CASE UNCHANGED accounts
  <2>1. ~ Setup!AddAccount(t)
    <3> SUFFICES ASSUME accounts' = Append(accounts, [row |-> Setup!Fresh(t), mem |-> Setup!Fresh(t)])
                 PROVE  FALSE
      BY DEF Setup!AddAccount
    <3> QED
      BY <1>0, <1>1, FreshTypes, Appended
  <2>2. Setup!Loaded' = Setup!Loaded
    BY <1>1 DEF Setup!Loaded
  <2> QED
    BY <1>0, <1>1, <2>1, <2>2, Unmoved DEF SetupTyped
<1>2. CASE accounts' = Append(accounts, [row |-> Setup!Fresh(t), mem |-> Setup!Fresh(t)])
  <2> DEFINE rec == [row |-> Setup!Fresh(t), mem |-> Setup!Fresh(t)]
  <2>1. /\ rec \in AccountRec /\ rec.row.token = t /\ rec.mem.token = t
        /\ rec.mem # Setup!Unloaded /\ accounts' = Append(accounts, rec)
    BY <1>2, FreshTypes
  <2> HIDE DEF rec
  <2> QED
    BY <1>0, <2>1, Appended, ForeignAdded
<1>3. CASE accounts' = Append(accounts, [row |-> Setup!Fresh(t), mem |-> Setup!Unloaded])
  <2> DEFINE rec == [row |-> Setup!Fresh(t), mem |-> Setup!Unloaded]
  <2>1. /\ rec \in AccountRec /\ rec.row.token = t
        /\ rec.mem = Setup!Unloaded /\ accounts' = Append(accounts, rec)
    BY <1>3, FreshTypes
  <2>2. ~ Setup!AddAccount(t)
    <3> SUFFICES ASSUME accounts' = Append(accounts, [row |-> Setup!Fresh(t), mem |-> Setup!Fresh(t)])
                 PROVE  FALSE
      BY DEF Setup!AddAccount
    <3> DEFINE whole == [row |-> Setup!Fresh(t), mem |-> Setup!Fresh(t)]
    <3>1. whole \in AccountRec /\ whole.mem # Setup!Unloaded /\ accounts' = Append(accounts, whole)
      BY FreshTypes
    <3> HIDE DEF whole, rec
    <3>2. accounts'[Setup!NewAccount] = whole
      BY <1>0, <3>1, Appended
    <3>3. accounts'[Setup!NewAccount] = rec
      BY <1>0, <2>1, Appended
    <3> QED
      BY <2>1, <3>1, <3>2, <3>3
  <2> HIDE DEF rec
  <2> QED
    BY <1>0, <2>1, <2>2, Appended, ForeignAdded
<1> QED
  BY <1>1, <1>2, <1>3 DEF Setup!AddAccount, Setup!AddFails

---------------------------------------------------------------------------
(* Start-up and imports *)

LEMMA KnownTokens ==
  ASSUME SetupTyped
  PROVE  Setup!PoolTokens \subseteq Setup!Tokens /\ Setup!Known \subseteq Setup!Tokens
BY AccountTypes DEF Setup!PoolTokens, Setup!Known

LEMMA LoadFromDbStep ==
  ASSUME SetupParameters, SetupInv, Setup!LoadFromDb
  PROVE  SetupInv'
<1>0. SetupTyped /\ boot = "load" /\ boot' = "import" /\ UNCHANGED <<importer, mark, login, newest, rotations>>
  BY DEF SetupInv, Setup!LoadFromDb
<1>1. PICK read \in 0 .. Len(accounts) :
        accounts' = [a \in DOMAIN accounts |->
                       [accounts[a] EXCEPT !.mem = IF a <= read THEN accounts[a].row ELSE Setup!Unloaded]]
  BY DEF Setup!LoadFromDb
<1>2. DOMAIN accounts' = DOMAIN accounts
  BY <1>1
<1>3. \A a \in DOMAIN accounts :
        /\ accounts'[a] \in AccountRec /\ accounts'[a].row = accounts[a].row
        /\ accounts'[a].mem \in {accounts[a].row, Setup!Unloaded}
  BY <1>0, <1>1, AccountTypes DEF AccountRec
<1>4. accounts' \in Seq(AccountRec)
  <2>1. DOMAIN accounts = 1 .. Len(accounts) /\ Len(accounts) \in Nat
    BY <1>0, AccountTypes
  <2>2. accounts' \in [1 .. Len(accounts) -> AccountRec]
    BY <1>1, <1>3, <2>1
  <2> QED
    BY <2>1, <2>2
<1>5. SetupTyped'
  BY <1>0, <1>4 DEF SetupTyped
<1>6. MarksLoaded' /\ QuietBoot'
  BY <1>0 DEF SetupInv, MarksLoaded, QuietBoot
<1>7. \A s \in Setup!Logins : SignIn(s)'
  <2> TAKE s \in Setup!Logins
  <2>1. login[s].pc \in {"none", "gone"} /\ SignIn(s) /\ login' = login
    BY <1>0 DEF SetupInv, QuietBoot
  <2>2. Nowhere(s) => Nowhere(s)'
    BY <1>2, <1>3 DEF Nowhere, OutOfPool, Setup!Loaded
  <2> QED
    BY <2>1, <2>2 DEF SignIn
<1> QED
  BY <1>5, <1>6, <1>7 DEF SetupInv

LEMMA ImportStep ==
  ASSUME SetupParameters, SetupInv, Setup!ImportTokenFile \/ Setup!ImportAccounts
  PROVE  SetupInv'
<1>0. SetupTyped /\ UNCHANGED <<accounts, mark, login, newest, rotations>>
  BY DEF SetupInv, Setup!ImportTokenFile, Setup!ImportAccounts
<1>1. Entries \in Seq(FileEntries) /\ Posted \in Seq(FileEntries) /\ << >> \in Seq(FileEntries)
  <2>1. Entries \in Seq(FileEntries) /\ Posted \in Seq(FileEntries)
    BY Zenon DEF SetupParameters
  <2> QED
    BY <2>1
<1>2. \E w \in Setup!Importers, q \in ImportRec : importer' = [importer EXCEPT ![w] = q]
  <2>1. CASE Setup!ImportTokenFile
    <3> DEFINE q == [todo |-> IF "token file" \in env THEN Entries ELSE << >>, seen |-> Setup!Known]
    <3>1. q \in ImportRec
      BY <1>0, <1>1, KnownTokens DEF ImportRec
    <3> QED
      BY <2>1, <3>1 DEF Setup!ImportTokenFile, Setup!Importers
  <2>2. CASE Setup!ImportAccounts
    <3> DEFINE q == [todo |-> Posted, seen |-> Setup!PoolTokens]
    <3>1. q \in ImportRec
      BY <1>0, <1>1, KnownTokens DEF ImportRec
    <3> QED
      BY <2>2, <3>1 DEF Setup!ImportAccounts, Setup!Importers
  <2> QED
    BY <2>1, <2>2
<1>3. /\ boot' \in {"load", "import", "file", "default", "auto", "up"}
      /\ boot' # "load" /\ (boot' # "up" => boot # "up")
  BY DEF Setup!ImportTokenFile, Setup!ImportAccounts
<1>4. SetupTyped'
  BY <1>0, <1>2, <1>3 DEF SetupTyped
<1>5. MarksLoaded' /\ QuietBoot'
  BY <1>0, <1>3 DEF SetupInv, MarksLoaded, QuietBoot, Setup!Loaded
<1> QED
  BY <1>0, <1>4, <1>5, Unmoved DEF SetupInv

\* An account that a step adds may be flagged next.
LEMMA Flagged ==
  ASSUME SetupInv, Setup!Loaded \subseteq Setup!Loaded',
         \/ UNCHANGED mark
         \/ \E t \in Setup!Tasks, wanted \in BOOLEAN :
              Setup!Marked(t, wanted, Setup!NewAccount) /\ Setup!NewAccount \in Setup!Loaded' \cap Nat
  PROVE  MarksLoaded'
<1>1. MarksLoaded
  BY DEF SetupInv
<1>2. CASE UNCHANGED mark
  BY <1>1, <1>2 DEF MarksLoaded
<1>3. CASE ~ UNCHANGED mark
  <2>1. PICK t \in Setup!Tasks : /\ mark' = [mark EXCEPT ![t] = Setup!NewAccount]
                                 /\ Setup!NewAccount \in Setup!Loaded' \cap Nat
    BY <1>3 DEF Setup!Marked
  <2> QED
    BY <1>1, <2>1 DEF MarksLoaded
<1> QED
  BY <1>2, <1>3

LEMMA EntryStep ==
  ASSUME SetupParameters, SetupInv, NEW who \in Setup!Importers, Setup!Entry(who)
  PROVE  SetupInv'
<1> DEFINE e == Head(importer[who].todo)
           t == <<e.origin, 0>>
<1>0. /\ SetupTyped /\ MarksLoaded /\ QuietBoot
      /\ UNCHANGED <<boot, login, newest, rotations>> /\ importer[who].todo # << >>
  BY DEF SetupInv, Setup!Entry
<1>1. importer[who] \in ImportRec /\ importer[who].todo \in Seq(FileEntries)
  BY <1>0 DEF SetupTyped, ImportRec
<1>2. e \in FileEntries /\ Tail(importer[who].todo) \in Seq(FileEntries)
  BY <1>0, <1>1
<1>3. t \in Setup!Tokens /\ t[1] \notin Setup!Logins /\ e.catalog \in BOOLEAN
  BY <1>2, OriginTypes DEF SetupParameters, Setup!Tokens
<1>4. boot # "load"
  BY <1>0 DEF QuietBoot
<1>5. Setup!AddAccount(t) \/ Setup!AddFails(t) \/ UNCHANGED accounts
  BY DEF Setup!Entry
<1>6. \/ UNCHANGED mark
      \/ Setup!AddAccount(t) /\ Setup!Marked(who, e.catalog, Setup!NewAccount)
  BY DEF Setup!Entry
<1>7. \E known \in SUBSET Setup!Tokens :
        importer' = [importer EXCEPT ![who] = [todo |-> Tail(@.todo), seen |-> known]]
  <2>1. importer[who].seen \in SUBSET Setup!Tokens
    BY <1>1 DEF ImportRec
  <2>2. importer[who].seen \cup {t} \in SUBSET Setup!Tokens
    BY <1>3, <2>1
  <2> HIDE DEF t
  <2>3. \/ importer' = [importer EXCEPT ![who] = [todo |-> Tail(@.todo), seen |-> importer[who].seen]]
        \/ importer' = [importer EXCEPT ![who] = [todo |-> Tail(@.todo), seen |-> importer[who].seen \cup {t}]]
    BY DEF Setup!Entry, t
  <2> QED
    BY <2>1, <2>2, <2>3
<1> HIDE DEF e, t
<1>8. /\ accounts' \in Seq(AccountRec) /\ Setup!Loaded \subseteq Setup!Loaded'
      /\ Setup!AddAccount(t) => Setup!NewAccount \in Setup!Loaded' \cap Nat
      /\ \A s \in Setup!Logins : SignIn(s)'
  BY <1>0, <1>3, <1>5, ForeignSteps
<1>9. MarksLoaded'
  <2>1. who \in Setup!Tasks
    BY DEF Setup!Tasks
  <2> QED
    BY <1>3, <1>6, <1>8, <2>1, Flagged
<1>10. importer' \in [Setup!Importers -> ImportRec]
  <2>1. PICK known \in SUBSET Setup!Tokens :
          importer' = [importer EXCEPT ![who] = [todo |-> Tail(@.todo), seen |-> known]]
    BY <1>7
  <2>2. [todo |-> Tail(importer[who].todo), seen |-> known] \in ImportRec
    BY <1>2 DEF ImportRec
  <2> QED
    BY <1>0, <2>1, <2>2 DEF SetupTyped
<1>11. SetupTyped'
  BY <1>0, <1>8, <1>10 DEF SetupTyped
<1>12. QuietBoot'
  BY <1>0, <1>4 DEF QuietBoot
<1> QED
  BY <1>8, <1>9, <1>11, <1>12 DEF SetupInv

LEMMA EnvironmentStep ==
  ASSUME SetupParameters, SetupInv, Setup!EnvironmentCatalog \/ Setup!EnvironmentDefault
  PROVE  SetupInv'
<1>0. /\ SetupTyped /\ MarksLoaded /\ QuietBoot /\ boot \in {"file", "default"}
      /\ boot' \in {"default", "auto"} /\ UNCHANGED <<importer, login, newest, rotations>>
  BY DEF SetupInv, Setup!EnvironmentCatalog, Setup!EnvironmentDefault
<1>1. \E o \in {"env catalog", "env default"} :
        /\ Setup!AddAccount(<<o, 0>>) \/ Setup!AddFails(<<o, 0>>) \/ UNCHANGED accounts
        /\ \/ UNCHANGED mark
           \/ Setup!AddAccount(<<o, 0>>) /\ Setup!Marked("env", TRUE, Setup!NewAccount)
  BY DEF Setup!EnvironmentCatalog, Setup!EnvironmentDefault
<1>2. PICK o \in {"env catalog", "env default"} :
        /\ Setup!AddAccount(<<o, 0>>) \/ Setup!AddFails(<<o, 0>>) \/ UNCHANGED accounts
        /\ \/ UNCHANGED mark
           \/ Setup!AddAccount(<<o, 0>>) /\ Setup!Marked("env", TRUE, Setup!NewAccount)
  BY <1>1
<1>3. <<o, 0>> \in Setup!Tokens /\ <<o, 0>>[1] \notin Setup!Logins
  BY OriginTypes DEF Setup!Tokens
<1>4. /\ accounts' \in Seq(AccountRec) /\ Setup!Loaded \subseteq Setup!Loaded'
      /\ Setup!AddAccount(<<o, 0>>) => Setup!NewAccount \in Setup!Loaded' \cap Nat
      /\ \A s \in Setup!Logins : SignIn(s)'
  BY <1>0, <1>2, <1>3, ForeignSteps
<1>5. MarksLoaded'
  <2>1. "env" \in Setup!Tasks
    BY DEF Setup!Tasks
  <2> QED
    BY <1>2, <1>4, <2>1, Flagged
<1>6. SetupTyped'
  BY <1>0, <1>4 DEF SetupTyped
<1>7. QuietBoot'
  BY <1>0 DEF QuietBoot
<1> QED
  BY <1>4, <1>5, <1>6, <1>7 DEF SetupInv

\* AUTO_SETUP signs in when nothing was loaded: whatever it left before is not in the
\* pool.
LEMMA ServeStep ==
  ASSUME SetupParameters, SetupInv, Setup!Serve
  PROVE  SetupInv'
<1>0. /\ SetupTyped /\ MarksLoaded /\ boot' = "up"
      /\ UNCHANGED <<accounts, importer, mark, newest, rotations>>
  BY DEF SetupInv, Setup!Serve
<1>1. CASE UNCHANGED login
  BY <1>0, <1>1, Unmoved DEF SetupInv, SetupTyped, MarksLoaded, QuietBoot, Setup!Loaded
<1>2. CASE Setup!Loaded = {} /\ login' = [login EXCEPT !["auto"].pc = "poll"]
  <2>1. login' \in [Setup!Logins -> SignInRec]
    BY <1>0, <1>2 DEF SetupTyped, SignInRec, SignInPc
  <2>2. SetupTyped' /\ MarksLoaded' /\ QuietBoot'
    BY <1>0, <2>1 DEF SetupTyped, MarksLoaded, QuietBoot, Setup!Loaded
  <2>3. ASSUME NEW s \in Setup!Logins PROVE SignIn(s)'
    <3>1. SignIn(s) /\ Setup!Loaded' = {}
      BY <1>0, <1>2 DEF SetupInv, Setup!Loaded
    <3>2. s = "auto" => login'[s].pc = "poll"
      BY <1>0, <1>2 DEF SetupTyped, SignInRec
    <3>3. s # "auto" => login'[s] = login[s]
      BY <1>0, <1>2 DEF SetupTyped
    <3>4. OutOfPool(s)'
      BY <3>1 DEF OutOfPool
    <3>5. Nowhere(s) => Nowhere(s)'
      BY <1>0, <3>4 DEF Nowhere
    <3>6. ~ Current(s)
      BY <1>2 DEF Current
    <3> QED
      BY <1>0, <3>1, <3>2, <3>3, <3>4, <3>5, <3>6 DEF SignIn
  <2> QED
    BY <2>2, <2>3 DEF SetupInv
<1> QED
  BY <1>1, <1>2 DEF Setup!Serve

---------------------------------------------------------------------------
(* Sign-ins *)

\* A step that flags an account of the pool as catalog moves no token.
LEMMA FlagTokens ==
  ASSUME SetupParameters, SetupInv, NEW t \in Setup!Tasks, Setup!SetAccountCatalog(t)
  PROVE  /\ accounts' \in Seq(AccountRec) /\ DOMAIN accounts' = DOMAIN accounts
         /\ Setup!Loaded' = Setup!Loaded
         /\ \A a \in DOMAIN accounts : /\ accounts'[a].row.token = accounts[a].row.token
                                       /\ accounts'[a].mem.token = accounts[a].mem.token
<1> DEFINE n == mark[t]
<1>0. /\ SetupTyped /\ MarksLoaded /\ QuietBoot /\ n # 0
      /\ UNCHANGED <<boot, importer, login, newest, rotations>>
      /\ mark' = [mark EXCEPT ![t] = 0]
  BY DEF SetupInv, Setup!SetAccountCatalog
<1>1. n \in Setup!Loaded /\ n \in DOMAIN accounts
  BY <1>0, AccountTypes DEF MarksLoaded
<1>2. \/ accounts' = [accounts EXCEPT ![n].mem.catalog = TRUE, ![n].row.catalog = TRUE]
      \/ accounts' = [accounts EXCEPT ![n].mem.catalog = TRUE]
  BY DEF Setup!SetAccountCatalog
<1> HIDE DEF n
<1>3. accounts[n] \in AccountRec /\ accounts[n].mem \in Credential
  BY <1>0, <1>1, AccountTypes
<1>4. PICK rec \in AccountRec : /\ accounts' = [accounts EXCEPT ![n] = rec]
                                /\ rec.mem \in Credential
                                /\ rec.mem.token = accounts[n].mem.token
                                /\ rec.row.token = accounts[n].row.token
  <2>1. CASE accounts' = [accounts EXCEPT ![n].mem.catalog = TRUE]
    <3> DEFINE q == [accounts[n] EXCEPT !.mem.catalog = TRUE]
    <3>1. q \in AccountRec /\ q.mem \in Credential
          /\ q.mem.token = accounts[n].mem.token /\ q.row.token = accounts[n].row.token
      BY <1>3 DEF AccountRec, Credential
    <3> QED
      BY <2>1, <3>1
  <2>2. CASE accounts' = [accounts EXCEPT ![n].mem.catalog = TRUE, ![n].row.catalog = TRUE]
    <3> DEFINE q == [accounts[n] EXCEPT !.mem.catalog = TRUE, !.row.catalog = TRUE]
    <3>1. q \in AccountRec /\ q.mem \in Credential
          /\ q.mem.token = accounts[n].mem.token /\ q.row.token = accounts[n].row.token
      BY <1>3 DEF AccountRec, Credential
    <3>2. accounts' = [accounts EXCEPT ![n] = q]
      BY <2>2
    <3> HIDE DEF q
    <3> QED
      BY <3>1, <3>2
  <2> QED
    BY <1>2, <2>1, <2>2
<1>5. /\ DOMAIN accounts' = DOMAIN accounts
      /\ accounts'[n] = rec /\ \A a \in DOMAIN accounts \ {n} : accounts'[a] = accounts[a]
      /\ accounts' \in Seq(AccountRec)
  BY <1>0, <1>1, <1>4 DEF SetupTyped
<1>6. rec.mem # Setup!Unloaded
  BY <1>4, OriginTypes
<1>7. Setup!Loaded' = Setup!Loaded
  BY <1>1, <1>5, <1>6 DEF Setup!Loaded
<1> QED
  BY <1>4, <1>5, <1>7

LEMMA FlagStep ==
  ASSUME SetupParameters, SetupInv, NEW t \in Setup!Tasks, Setup!SetAccountCatalog(t)
  PROVE  SetupInv'
<1>0. /\ SetupTyped /\ MarksLoaded /\ QuietBoot /\ Setup!Loaded \subseteq DOMAIN accounts
      /\ UNCHANGED <<boot, importer, login, newest, rotations>>
      /\ mark' = [mark EXCEPT ![t] = 0]
  BY AccountTypes DEF SetupInv, Setup!SetAccountCatalog
<1>1. /\ accounts' \in Seq(AccountRec) /\ DOMAIN accounts' = DOMAIN accounts
      /\ Setup!Loaded' = Setup!Loaded
      /\ \A a \in DOMAIN accounts : /\ accounts'[a].row.token = accounts[a].row.token
                                    /\ accounts'[a].mem.token = accounts[a].mem.token
  BY FlagTokens
<1>2. \A s \in Setup!Logins : SignIn(s)'
  BY <1>0, <1>1, SameTokens
<1>3. SetupTyped'
  BY <1>0, <1>1 DEF SetupTyped
<1>4. MarksLoaded' /\ QuietBoot'
  BY <1>0, <1>1 DEF MarksLoaded, QuietBoot
<1> QED
  BY <1>2, <1>3, <1>4 DEF SetupInv

\* A step of one sign-in that leaves the pool and the marks alone.
LEMMA OneSignIn ==
  ASSUME SetupInv, NEW s \in Setup!Logins, NEW q \in SignInRec,
         login' = [login EXCEPT ![s] = q], boot = "up" \/ q.pc \in {"none", "gone"},
         UNCHANGED <<accounts, boot, importer, mark, rotations>>,
         newest' \in [Setup!Origins -> Nat],
         \A o \in Setup!Origins : newest'[o] <= rotations + 1,
         \A o \in Setup!Logins \ {s} : newest'[o] = newest[o],
         SignIn(s)'
  PROVE  SetupInv'
<1>0. SetupTyped /\ MarksLoaded /\ QuietBoot
  BY DEF SetupInv
<1>1. SetupTyped'
  BY <1>0 DEF SetupTyped
<1>2. MarksLoaded' /\ QuietBoot'
  BY <1>0 DEF MarksLoaded, QuietBoot, Setup!Loaded, SetupTyped
<1>3. ASSUME NEW o \in Setup!Logins \ {s} PROVE SignIn(o)'
  <2>1. SignIn(o) /\ login'[o] = login[o] /\ newest'[o] = newest[o]
    BY <1>0 DEF SetupInv, SetupTyped
  <2>2. Setup!Loaded' = Setup!Loaded
    BY DEF Setup!Loaded
  <2>3. /\ OutOfPool(o) => OutOfPool(o)'
        /\ Nowhere(o) => Nowhere(o)'
        /\ Current(o) => Current(o)'
    BY <2>1, <2>2 DEF OutOfPool, Nowhere, Current
  <2> QED
    BY <2>1, <2>3 DEF SignIn
<1> QED
  BY <1>1, <1>2, <1>3 DEF SetupInv

\* Where it is, a sign-in that is under way runs on a server that is up.
LEMMA UnderWay ==
  ASSUME SetupInv, NEW s \in Setup!Logins, login[s].pc \notin {"none", "gone"}
  PROVE  boot = "up" /\ login[s] \in SignInRec
BY DEF SetupInv, QuietBoot, SetupTyped

LEMMA StartSetupStep ==
  ASSUME SetupParameters, SetupInv, NEW s \in Sessions, Setup!StartSetup(s)
  PROVE  SetupInv'
<1>0. /\ SetupTyped /\ s \in Setup!Logins /\ SignIn(s) /\ boot = "up" /\ login[s].pc = "none"
      /\ UNCHANGED <<accounts, boot, importer, mark, newest, rotations>>
  BY DEF SetupInv, Setup!StartSetup, Setup!Logins
<1>1. PICK catalog \in BOOLEAN : login' = [login EXCEPT ![s].pc = "poll", ![s].catalog = catalog]
  BY DEF Setup!StartSetup
<1> DEFINE q == [login[s] EXCEPT !.pc = "poll", !.catalog = catalog]
<1>2. q \in SignInRec /\ q.pc = "poll" /\ login' = [login EXCEPT ![s] = q]
  BY <1>0, <1>1 DEF SetupTyped, SignInRec, SignInPc
<1> HIDE DEF q
<1>3. login'[s].pc = "poll"
  BY <1>0, <1>2 DEF SetupTyped
<1>4. OutOfPool(s)'
  BY <1>0 DEF SignIn, Nowhere, OutOfPool, Setup!Loaded
<1>5. SignIn(s)'
  BY <1>3, <1>4 DEF SignIn
<1> QED
  BY <1>0, <1>2, <1>5, OneSignIn DEF SetupTyped

\* A sign-in that ends without an account promises nothing.
LEMMA SignInEnds ==
  ASSUME SetupInv, NEW s \in Setup!Logins, login[s].pc \notin {"none", "gone"},
         Setup!Moved(s, "error"),
         UNCHANGED <<accounts, boot, importer, mark, newest, rotations>>
  PROVE  SetupInv'
<1>0. SetupTyped /\ boot = "up" /\ login[s] \in SignInRec
  BY UnderWay DEF SetupInv
<1> DEFINE q == [login[s] EXCEPT !.pc = "error"]
<1>1. q \in SignInRec /\ q.pc = "error" /\ login' = [login EXCEPT ![s] = q]
  BY <1>0 DEF SignInRec, SignInPc, Setup!Moved, Setup!LoginStep
<1> HIDE DEF q
<1>2. SignIn(s)'
  BY <1>0, <1>1 DEF SignIn, SetupTyped
<1> QED
  BY <1>0, <1>1, <1>2, OneSignIn DEF SetupTyped

\* Tidal grants the sign-in a token, or a newer one: nobody has one of it yet.
LEMMA Granted ==
  ASSUME SetupParameters, SetupInv, NEW s \in Setup!Logins,
         login[s].pc \in {"poll", "refresh"}, NEW g \in {0, 1}, NEW next \in {"refresh", "add"},
         Setup!LoginStep(s, [login[s] EXCEPT !.token = <<s, g>>, !.pc = next]),
         newest' = [newest EXCEPT ![s] = g],
         UNCHANGED <<accounts, boot, importer, mark, rotations>>
  PROVE  SetupInv'
<1>0. /\ SetupTyped /\ SignIn(s) /\ boot = "up" /\ login[s] \in SignInRec
      /\ s \in Setup!Origins /\ MaxRotations \in Nat
  BY UnderWay, OriginTypes, SetupBounds DEF SetupInv
<1>1. <<s, g>> \in Setup!Tokens
  BY <1>0 DEF Setup!Tokens
<1> DEFINE q == [login[s] EXCEPT !.token = <<s, g>>, !.pc = next]
<1>2. q \in SignInRec /\ q.pc = next /\ q.token = <<s, g>> /\ login' = [login EXCEPT ![s] = q]
  BY <1>0, <1>1 DEF SignInRec, SignInPc, Setup!LoginStep
<1> HIDE DEF q
<1>3. /\ newest' \in [Setup!Origins -> Nat] /\ newest'[s] = g
      /\ \A o \in Setup!Origins : newest'[o] <= rotations + 1
      /\ \A o \in Setup!Logins \ {s} : newest'[o] = newest[o]
  <2>1. /\ newest \in [Setup!Origins -> Nat] /\ rotations \in Nat
        /\ \A o \in Setup!Origins : newest[o] <= rotations + 1
        /\ Setup!Logins \subseteq Setup!Origins
    BY <1>0, OriginTypes DEF SetupTyped
  <2>2. g \in Nat /\ g <= rotations + 1
    BY <2>1
  <2> QED
    BY <1>0, <2>1, <2>2
<1>4. login'[s] = q
  BY <1>0, <1>2 DEF SetupTyped
<1>5. OutOfPool(s)'
  BY <1>0 DEF SignIn, OutOfPool, Setup!Loaded
<1>6. SignIn(s)'
  BY <1>2, <1>3, <1>4, <1>5 DEF SignIn
<1> QED
  BY <1>0, <1>2, <1>3, <1>6, OneSignIn

LEMMA PollStep ==
  ASSUME SetupParameters, SetupInv, NEW s \in Setup!Logins, Setup!Poll(s)
  PROVE  SetupInv'
<1>0. /\ SetupTyped /\ SignIn(s) /\ login[s].pc = "poll" /\ boot = "up" /\ login[s] \in SignInRec
      /\ UNCHANGED <<accounts, boot, importer, mark, rotations>>
  BY UnderWay DEF SetupInv, Setup!Poll
<1>1. CASE Setup!Moved(s, "error") /\ UNCHANGED newest
  BY <1>0, <1>1, SignInEnds
<1>2. CASE /\ Setup!LoginStep(s, [login[s] EXCEPT !.polls = (@ + 1) % (MaxPolls + 1)])
           /\ UNCHANGED newest
  <2> DEFINE q == [login[s] EXCEPT !.polls = (login[s].polls + 1) % (MaxPolls + 1)]
  <2>1. (login[s].polls + 1) % (MaxPolls + 1) \in Nat
    <3>1. login[s].polls \in Nat /\ MaxPolls \in Nat
      BY <1>0, SetupBounds DEF SignInRec
    <3> QED
      BY <3>1
  <2>2. q \in SignInRec /\ q.pc = "poll" /\ login' = [login EXCEPT ![s] = q]
    BY <1>0, <1>2, <2>1 DEF SignInRec, Setup!LoginStep
  <2> HIDE DEF q
  <2>3. login'[s] = q
    BY <1>0, <2>2 DEF SetupTyped
  <2>4. SignIn(s)'
    BY <1>0, <2>2, <2>3 DEF SignIn, OutOfPool, Setup!Loaded
  <2> QED
    BY <1>0, <1>2, <2>2, <2>4, OneSignIn DEF SetupTyped
<1>3. CASE /\ newest' = [newest EXCEPT ![s] = 0]
           /\ Setup!LoginStep(s, [login[s] EXCEPT !.token = <<s, 0>>,
                                                  !.pc = IF s \in Sessions THEN "refresh" ELSE "add"])
  <2> DEFINE next == IF s \in Sessions THEN "refresh" ELSE "add"
  <2>1. next \in {"refresh", "add"}
    OBVIOUS
  <2>2. Setup!LoginStep(s, [login[s] EXCEPT !.token = <<s, 0>>, !.pc = next])
    BY <1>3
  <2> HIDE DEF next
  <2> QED
    BY <1>0, <1>3, <2>1, <2>2, Granted
<1> QED
  BY <1>1, <1>2, <1>3 DEF Setup!Poll

LEMMA ProveStep ==
  ASSUME SetupParameters, SetupInv, NEW s \in Setup!Logins, Setup!RefreshWithClient(s)
  PROVE  SetupInv'
<1>0. login[s].pc = "refresh" /\ UNCHANGED <<accounts, boot, importer, mark, rotations>>
  BY DEF Setup!RefreshWithClient
<1>1. CASE Setup!Moved(s, "error") /\ UNCHANGED newest
  BY <1>0, <1>1, SignInEnds
<1>2. CASE \E g \in {0, 1} :
             /\ newest' = [newest EXCEPT ![s] = g]
             /\ Setup!LoginStep(s, [login[s] EXCEPT !.pc = "add", !.token = <<s, g>>])
  <2>1. PICK g \in {0, 1} :
             /\ newest' = [newest EXCEPT ![s] = g]
             /\ Setup!LoginStep(s, [login[s] EXCEPT !.pc = "add", !.token = <<s, g>>])
    BY <1>2
  <2>2. [login[s] EXCEPT !.pc = "add", !.token = <<s, g>>]
          = [login[s] EXCEPT !.token = <<s, g>>, !.pc = "add"]
    BY <1>0, UnderWay DEF SignInRec
  <2>3. Setup!LoginStep(s, [login[s] EXCEPT !.token = <<s, g>>, !.pc = "add"])
    BY <2>1, <2>2
  <2> QED
    BY <1>0, <2>1, <2>3, Granted
<1> QED
  BY <1>1, <1>2 DEF Setup!RefreshWithClient, Setup!Proven

\* The account is added with the newest token of its sign-in, and it is the first.
LEMMA AddStep ==
  ASSUME SetupParameters, SetupInv, NEW s \in Setup!Logins, Setup!Add(s)
  PROVE  SetupInv'
<1> DEFINE t == login[s].token
           n == Setup!NewAccount
<1>0. /\ SetupTyped /\ MarksLoaded /\ QuietBoot /\ login[s].pc = "add" /\ boot = "up"
      /\ login[s] \in SignInRec /\ OutOfPool(s) /\ t = <<s, newest[s]>> /\ t \in Setup!Tokens
      /\ UNCHANGED <<boot, importer, newest, rotations>>
  <2>1. /\ SetupTyped /\ MarksLoaded /\ QuietBoot /\ login[s].pc = "add" /\ SignIn(s)
        /\ UNCHANGED <<boot, importer, newest, rotations>>
    BY DEF SetupInv, Setup!Add
  <2>2. boot = "up" /\ login[s] \in SignInRec
    BY <2>1, UnderWay
  <2>3. OutOfPool(s) /\ t = <<s, newest[s]>>
    BY <2>1 DEF SignIn
  <2>4. newest[s] \in 0 .. MaxRotations + 1
    <3>1. s \in Setup!Origins /\ MaxRotations \in Nat
      BY OriginTypes, SetupBounds
    <3>2. /\ newest[s] \in Nat /\ rotations \in Nat
          /\ newest[s] <= rotations + 1 /\ rotations <= MaxRotations
      BY <2>1, <3>1 DEF SetupTyped
    <3> QED
      BY <3>1, <3>2
  <2>5. t \in Setup!Tokens
    BY <2>3, <2>4, OriginTypes DEF Setup!Tokens
  <2> QED
    BY <2>1, <2>2, <2>3, <2>5
<1> HIDE DEF t
<1>a. Setup!Loaded \subseteq DOMAIN accounts
  BY <1>0, AccountTypes
<1>1. CASE /\ Setup!AddAccount(t)
           /\ Setup!Marked(s, login[s].catalog, Setup!NewAccount)
           /\ Setup!LoginStep(s, [login[s] EXCEPT !.pc = "store", !.account = Setup!NewAccount])
  <2> DEFINE rec == [row |-> Setup!Fresh(t), mem |-> Setup!Fresh(t)]
  <2>1. /\ rec \in AccountRec /\ rec.row.token = t /\ rec.mem.token = t
        /\ rec.mem # Setup!Unloaded /\ accounts' = Append(accounts, rec)
    BY <1>0, <1>1, FreshTypes DEF Setup!AddAccount
  <2> HIDE DEF rec
  <2>2. /\ accounts' \in Seq(AccountRec)
        /\ DOMAIN accounts' = DOMAIN accounts \cup {n}
        /\ n \notin DOMAIN accounts /\ n \in Nat \ {0}
        /\ \A a \in DOMAIN accounts : accounts'[a] = accounts[a]
        /\ accounts'[n] = rec
        /\ Setup!Loaded' = Setup!Loaded \cup {n}
    BY <1>0, <2>1, Appended
  <2> HIDE DEF n
  <2> DEFINE q == [login[s] EXCEPT !.pc = "store", !.account = n]
  <2>3. q \in SignInRec /\ q.pc = "store" /\ q.account = n /\ login' = [login EXCEPT ![s] = q]
    BY <1>0, <1>1, <2>2 DEF SignInRec, SignInPc, Setup!LoginStep, n
  <2> HIDE DEF q
  <2>4. login'[s] = q /\ login' \in [Setup!Logins -> SignInRec]
        /\ \A o \in Setup!Logins \ {s} : login'[o] = login[o]
    BY <1>0, <2>3 DEF SetupTyped
  <2>5. SetupTyped'
    BY <1>0, <2>2, <2>4 DEF SetupTyped
  <2>6. MarksLoaded'
    <3>1. login[s].catalog \in BOOLEAN /\ s \in Setup!Tasks
      BY <1>0 DEF SignInRec, Setup!Tasks
    <3> QED
      BY <1>1, <2>2, <3>1, Flagged DEF n
  <2>7. QuietBoot'
    BY <1>0 DEF QuietBoot
  <2>8. SignIn(s)'
    <3>1. accounts'[n].mem.token = <<s, newest'[s]>> /\ accounts'[n].row.token = <<s, newest'[s]>>
      BY <1>0, <2>1, <2>2
    <3>2. \A a \in Setup!Loaded' : accounts'[a].mem.token[1] = s => a = n
      BY <1>0, <1>a, <2>2 DEF OutOfPool
    <3> QED
      BY <2>2, <2>3, <2>4, <3>1, <3>2 DEF SignIn, Current
  <2>9. ASSUME NEW o \in Setup!Logins \ {s} PROVE SignIn(o)'
    <3>1. SignIn(o) /\ login'[o] = login[o]
      BY <2>4 DEF SetupInv
    <3>2. accounts'[n].mem.token[1] # o /\ accounts'[n].row.token[1] # o
      BY <1>0, <2>1, <2>2
    <3>3. OutOfPool(o) => OutOfPool(o)'
      BY <1>a, <2>2, <3>2 DEF OutOfPool
    <3>4. Nowhere(o) => Nowhere(o)'
      BY <2>2, <3>2, <3>3 DEF Nowhere
    <3>5. Current(o) => Current(o)'
      BY <1>0, <1>a, <2>2, <3>1, <3>2 DEF Current
    <3> QED
      BY <1>0, <3>1, <3>3, <3>4, <3>5 DEF SignIn
  <2> QED
    BY <2>5, <2>6, <2>7, <2>8, <2>9 DEF SetupInv
<1>2. CASE Setup!AddFails(t) /\ UNCHANGED mark /\ Setup!Moved(s, "error")
  <2> DEFINE q == [login[s] EXCEPT !.pc = "error"]
  <2>1. q \in SignInRec /\ q.pc = "error" /\ login' = [login EXCEPT ![s] = q]
    BY <1>0, <1>2 DEF SignInRec, SignInPc, Setup!Moved, Setup!LoginStep
  <2> HIDE DEF q
  <2>2. login'[s].pc = "error" /\ login' \in [Setup!Logins -> SignInRec]
        /\ \A o \in Setup!Logins \ {s} : login'[o] = login[o]
    BY <1>0, <2>1 DEF SetupTyped
  <2>3. CASE UNCHANGED accounts
    BY <1>0, <1>2, <2>1, <2>3, SignInEnds
  <2>4. CASE accounts' = Append(accounts, [row |-> Setup!Fresh(t), mem |-> Setup!Unloaded])
    <3> DEFINE rec == [row |-> Setup!Fresh(t), mem |-> Setup!Unloaded]
    <3>1. /\ rec \in AccountRec /\ rec.row.token = t
          /\ rec.mem = Setup!Unloaded /\ accounts' = Append(accounts, rec)
      BY <1>0, <2>4, FreshTypes
    <3> HIDE DEF rec
    <3>2. /\ accounts' \in Seq(AccountRec)
          /\ DOMAIN accounts' = DOMAIN accounts \cup {n}
          /\ \A a \in DOMAIN accounts : accounts'[a] = accounts[a]
          /\ accounts'[n] = rec
          /\ Setup!Loaded' = Setup!Loaded
      BY <1>0, <3>1, Appended
    <3> HIDE DEF n
    <3>3. SetupTyped'
      BY <1>0, <2>2, <3>2 DEF SetupTyped
    <3>4. MarksLoaded' /\ QuietBoot'
      BY <1>0, <1>2, <3>2 DEF MarksLoaded, QuietBoot
    <3>5. SignIn(s)'
      BY <2>2 DEF SignIn
    <3>6. ASSUME NEW o \in Setup!Logins \ {s} PROVE SignIn(o)'
      <4>1. SignIn(o) /\ login'[o] = login[o]
        BY <2>2 DEF SetupInv
      <4>2. accounts'[n].row.token[1] # o
        BY <1>0, <3>1, <3>2
      <4>3. OutOfPool(o) => OutOfPool(o)'
        BY <1>a, <3>2 DEF OutOfPool
      <4>4. Nowhere(o) => Nowhere(o)'
        BY <3>2, <4>2, <4>3 DEF Nowhere
      <4>5. Current(o) => Current(o)'
        BY <1>0, <1>a, <3>2, <4>1 DEF Current
      <4> QED
        BY <1>0, <4>1, <4>3, <4>4, <4>5 DEF SignIn
    <3> QED
      BY <3>3, <3>4, <3>5, <3>6 DEF SetupInv
  <2> QED
    BY <1>2, <2>3, <2>4 DEF Setup!AddFails
<1> QED
  BY <1>1, <1>2 DEF Setup!Add, t

\* What store_refreshed_credentials writes is what is there, or it writes nothing.
LEMMA StoreKeeps ==
  ASSUME SetupParameters, SetupInv, NEW s \in Setup!Logins, Setup!StoreRefreshed(s)
  PROVE  /\ UNCHANGED accounts /\ Current(s)
         /\ login[s].pc = "store" /\ boot = "up" /\ login[s] \in SignInRec
<1> DEFINE n == login[s].account
<1>0. /\ SetupTyped /\ SignIn(s) /\ login[s].pc = "store" /\ boot = "up"
      /\ login[s] \in SignInRec /\ UNCHANGED <<boot, importer, mark, newest, rotations>>
  <2>1. login[s].pc = "store" /\ UNCHANGED <<boot, importer, mark, newest, rotations>>
    BY DEF Setup!StoreRefreshed
  <2> QED
    BY <2>1, UnderWay DEF SetupInv
<1>1. Current(s) /\ n \in DOMAIN accounts
  BY <1>0, AccountTypes DEF SignIn, Current
<1>2. accounts[n] \in AccountRec /\ accounts[n].mem \in Credential /\ accounts[n].row \in Credential
      /\ accounts[n].mem.token = <<s, newest[s]>> /\ accounts[n].row.token = <<s, newest[s]>>
  BY <1>0, <1>1, AccountTypes DEF Current
<1>3. UNCHANGED accounts
  <2>1. CASE /\ Setup!Unchanged(s)
             /\ accounts' = [accounts EXCEPT ![n].mem.token = login[s].token,
                                             ![n].row.token = login[s].token]
    <3>1. login[s].token = accounts[n].mem.token /\ login[s].token = accounts[n].row.token
      BY <1>2, <2>1 DEF Setup!Unchanged
    <3> DEFINE q == [accounts[n] EXCEPT !.mem.token = login[s].token, !.row.token = login[s].token]
    <3>2. q = accounts[n]
      BY <1>2, <3>1 DEF AccountRec, Credential
    <3>3. accounts' = [accounts EXCEPT ![n] = q]
      BY <2>1
    <3> HIDE DEF q, n
    <3> QED
      BY <1>0, <1>1, <3>2, <3>3 DEF SetupTyped
  <2> QED
    BY <2>1 DEF Setup!StoreRefreshed
<1> QED
  BY <1>0, <1>1, <1>3

LEMMA StoreStep ==
  ASSUME SetupParameters, SetupInv, NEW s \in Setup!Logins, Setup!StoreRefreshed(s)
  PROVE  SetupInv'
<1>0. /\ SetupTyped /\ Current(s) /\ login[s].pc = "store" /\ boot = "up" /\ login[s] \in SignInRec
      /\ UNCHANGED <<accounts, boot, importer, mark, newest, rotations>>
  BY StoreKeeps DEF SetupInv, Setup!StoreRefreshed
<1> DEFINE q == [login[s] EXCEPT !.pc = "complete"]
<1>4. q \in SignInRec /\ q.pc = "complete" /\ q.account = login[s].account
      /\ login' = [login EXCEPT ![s] = q]
  BY <1>0 DEF SignInRec, SignInPc, Setup!StoreRefreshed, Setup!Moved, Setup!LoginStep
<1> HIDE DEF q
<1>5. login'[s] = q
  BY <1>0, <1>4 DEF SetupTyped
<1>6. SignIn(s)'
  BY <1>0, <1>4, <1>5 DEF SignIn, Current, Setup!Loaded
<1> QED
  BY <1>0, <1>4, <1>6, OneSignIn DEF SetupTyped

---------------------------------------------------------------------------
(* Around them *)

\* A rotation moves the account and what Tidal issued together.
LEMMA RotateStep ==
  ASSUME SetupParameters, SetupInv, NEW a \in Setup!Loaded, Setup!Rotate(a)
  PROVE  SetupInv'
<1> DEFINE o == accounts[a].mem.token[1]
           t == <<o, newest[o] + 1>>
<1>0. /\ SetupTyped /\ MarksLoaded /\ QuietBoot /\ rotations < MaxRotations
      /\ rotations' = rotations + 1 /\ UNCHANGED <<boot, importer, mark, login>>
      /\ newest' = [newest EXCEPT ![o] = newest[o] + 1]
      /\ accounts' = [accounts EXCEPT ![a].mem.token = t, ![a].row.token = t]
  BY DEF SetupInv, Setup!Rotate
<1>1. /\ a \in DOMAIN accounts /\ accounts[a] \in AccountRec /\ accounts[a].mem \in Credential
      /\ accounts[a].mem.token \in Setup!Tokens
  BY <1>0, AccountTypes
<1>2. o \in Setup!Origins
  BY <1>1, OriginTypes
<1>3. t \in Setup!Tokens /\ t[1] = o
  <2>1. /\ newest[o] \in Nat /\ rotations \in Nat /\ MaxRotations \in Nat
        /\ newest[o] <= rotations + 1 /\ rotations < MaxRotations
    BY <1>0, <1>2, SetupBounds DEF SetupTyped
  <2>2. newest[o] + 1 \in 0 .. MaxRotations + 1
    BY <2>1
  <2> HIDE DEF o
  <2> QED
    BY <1>2, <2>2 DEF Setup!Tokens
<1>4. /\ newest' \in [Setup!Origins -> Nat] /\ newest'[o] = newest[o] + 1
      /\ \A p \in Setup!Origins \ {o} : newest'[p] = newest[p]
      /\ \A p \in Setup!Origins : newest'[p] <= rotations' + 1
      /\ rotations' \in Nat /\ rotations' <= MaxRotations
  <2>1. /\ newest \in [Setup!Origins -> Nat] /\ rotations \in Nat /\ MaxRotations \in Nat
        /\ \A p \in Setup!Origins : newest[p] <= rotations + 1
    BY <1>0, SetupBounds DEF SetupTyped
  <2> HIDE DEF o
  <2>2. /\ newest' \in [Setup!Origins -> Nat] /\ newest'[o] = newest[o] + 1
        /\ \A p \in Setup!Origins \ {o} : newest'[p] = newest[p]
    BY <1>0, <1>2, <2>1
  <2>3. rotations' \in Nat /\ rotations' <= MaxRotations
    BY <1>0, <2>1
  <2>4. ASSUME NEW p \in Setup!Origins PROVE newest'[p] <= rotations' + 1
    <3>1. newest[p] \in Nat /\ newest[p] <= rotations + 1 /\ newest'[p] \in {newest[p], newest[p] + 1}
      BY <2>1, <2>2
    <3> QED
      BY <1>0, <2>1, <3>1
  <2> QED
    BY <2>2, <2>3, <2>4
<1>5. PICK rec \in AccountRec : /\ accounts' = [accounts EXCEPT ![a] = rec]
                                /\ rec.mem \in Credential
                                /\ rec.mem.token = t /\ rec.row.token = t
  <2> HIDE DEF t
  <2> DEFINE q == [accounts[a] EXCEPT !.mem.token = t, !.row.token = t]
  <2>1. q \in AccountRec /\ q.mem \in Credential /\ q.mem.token = t /\ q.row.token = t
    BY <1>1, <1>3 DEF AccountRec, Credential
  <2>2. accounts' = [accounts EXCEPT ![a] = q]
    BY <1>0
  <2> HIDE DEF q
  <2> QED
    BY <2>1, <2>2
<1>6. /\ DOMAIN accounts' = DOMAIN accounts
      /\ accounts'[a] = rec /\ \A b \in DOMAIN accounts \ {a} : accounts'[b] = accounts[b]
      /\ accounts' \in Seq(AccountRec)
  <2>1. accounts \in Seq(AccountRec)
    BY <1>0 DEF SetupTyped
  <2> QED
    BY <1>1, <1>5, <2>1
<1>7. Setup!Loaded' = Setup!Loaded /\ Setup!Loaded \subseteq DOMAIN accounts
  <2>1. rec.mem # Setup!Unloaded
    BY <1>5, OriginTypes
  <2> QED
    BY <1>0, <1>1, <1>6, <2>1, AccountTypes DEF Setup!Loaded
<1>8. SetupTyped'
  BY <1>0, <1>4, <1>6 DEF SetupTyped
<1>9. MarksLoaded' /\ QuietBoot'
  BY <1>0, <1>7 DEF MarksLoaded, QuietBoot
<1>10. ASSUME NEW s \in Setup!Logins PROVE SignIn(s)'
  <2>1. SignIn(s) /\ login'[s] = login[s] /\ s \in Setup!Origins
    BY <1>0, OriginTypes DEF SetupInv
  <2>2. rec.mem.token = <<o, newest'[o]>> /\ rec.row.token = <<o, newest'[o]>> /\ rec.mem.token[1] = o
    BY <1>3, <1>4, <1>5
  <2>3. OutOfPool(s) => o # s
    BY DEF OutOfPool
  <2>4. accounts[a].mem.token[1] = o
    OBVIOUS
  <2> HIDE DEF o, t
  <2>5. OutOfPool(s) => OutOfPool(s)' /\ newest'[s] = newest[s]
    BY <1>4, <1>6, <1>7, <2>1, <2>2, <2>3 DEF OutOfPool
  <2>6. Nowhere(s) => Nowhere(s)'
    <3>1. rec.row.token[1] = o
      BY <2>2
    <3> QED
      BY <1>6, <2>3, <2>5, <3>1 DEF Nowhere
  <2>7. Current(s) => Current(s)'
    <3> SUFFICES ASSUME Current(s) PROVE Current(s)'
      OBVIOUS
    <3>1. CASE o = s
      <4>1. a = login[s].account
        BY <2>4, <3>1 DEF Current
      <4> QED
        BY <1>6, <1>7, <2>1, <2>2, <3>1, <4>1 DEF Current
    <3>2. CASE o # s
      <4>1. a # login[s].account
        BY <2>4, <3>2 DEF Current
      <4>2. newest'[s] = newest[s]
        BY <1>4, <2>1, <3>2
      <4>3. \A b \in Setup!Loaded : accounts'[b].mem.token[1] = s => b # a
        BY <1>6, <2>2, <3>2
      <4> QED
        BY <1>6, <1>7, <2>1, <4>1, <4>2, <4>3 DEF Current
    <3> QED
      BY <3>1, <3>2
  <2> QED
    BY <2>1, <2>5, <2>6, <2>7 DEF SignIn
<1> QED
  BY <1>8, <1>9, <1>10 DEF SetupInv

\* A crash takes the sessions and the pool; what nobody signed in for is in no row.
LEMMA RestartStep ==
  ASSUME SetupParameters, SetupInv, Setup!Restart
  PROVE  SetupInv'
<1>0. SetupTyped /\ boot' = "load" /\ UNCHANGED <<newest, rotations>>
  BY DEF SetupInv, Setup!Restart
<1>1. /\ DOMAIN accounts' = DOMAIN accounts
      /\ \A a \in DOMAIN accounts : /\ accounts'[a] \in AccountRec
                                    /\ accounts'[a].row = accounts[a].row
                                    /\ accounts'[a].mem = Setup!Unloaded
  <2>1. accounts' = [a \in DOMAIN accounts |-> [accounts[a] EXCEPT !.mem = Setup!Unloaded]]
    BY DEF Setup!Restart
  <2>2. \A a \in DOMAIN accounts : accounts[a] \in AccountRec
    BY <1>0, AccountTypes
  <2> QED
    BY <2>1, <2>2 DEF AccountRec
<1>2. accounts' \in Seq(AccountRec)
  <2>1. DOMAIN accounts = 1 .. Len(accounts) /\ Len(accounts) \in Nat
    BY <1>0, AccountTypes
  <2>2. accounts' = [a \in DOMAIN accounts |-> [accounts[a] EXCEPT !.mem = Setup!Unloaded]]
    BY DEF Setup!Restart
  <2>3. accounts' \in [1 .. Len(accounts) -> AccountRec]
    BY <1>1, <2>1, <2>2
  <2> QED
    BY <2>1, <2>3
<1>3. Setup!Loaded' = {}
  BY <1>1 DEF Setup!Loaded
<1>4. /\ importer' \in [Setup!Importers -> ImportRec]
      /\ \A w \in Setup!Importers : importer'[w].todo = << >>
  BY DEF Setup!Restart, Setup!Idle, ImportRec
<1>5. mark' \in [Setup!Tasks -> Nat] /\ \A t \in Setup!Tasks : mark'[t] = 0
  BY DEF Setup!Restart
<1>6. /\ login' \in [Setup!Logins -> SignInRec]
      /\ \A s \in Setup!Logins : /\ login'[s].pc \in {"none", "gone"}
                                 /\ login'[s].pc = "none" => login[s].pc = "none"
  <2>1. Setup!NoLogin \in SignInRec /\ Setup!NoLogin.pc = "none"
    BY DEF Setup!NoLogin, SignInRec, SignInPc
  <2>2. [Setup!NoLogin EXCEPT !.pc = "gone"] \in SignInRec
        /\ [Setup!NoLogin EXCEPT !.pc = "gone"].pc = "gone"
    BY <2>1 DEF SignInRec, SignInPc
  <2> QED
    BY <2>1, <2>2 DEF Setup!Restart
<1>7. SetupTyped'
  BY <1>0, <1>2, <1>4, <1>6 DEF SetupTyped
<1>8. MarksLoaded' /\ QuietBoot'
  BY <1>0, <1>4, <1>5, <1>6 DEF MarksLoaded, QuietBoot
<1>9. ASSUME NEW s \in Setup!Logins PROVE SignIn(s)'
  <2>1. SignIn(s)
    BY DEF SetupInv
  <2>2. Nowhere(s) => Nowhere(s)'
    BY <1>1, <1>3 DEF Nowhere, OutOfPool
  <2> QED
    BY <1>6, <2>1, <2>2 DEF SignIn
<1> QED
  BY <1>7, <1>8, <1>9 DEF SetupInv

LEMMA SetupStep ==
  ASSUME SetupParameters, SetupInv, [Setup!Next]_Setup!vars
  PROVE  SetupInv'
<1>1. CASE Setup!Boot
  BY <1>1, LoadFromDbStep, ImportStep, EnvironmentStep, ServeStep, EntryStep, FlagStep
     DEF Setup!Boot, Setup!Importers, Setup!Tasks
<1>2. CASE Setup!ImportAccounts \/ Setup!Endpoint
  BY <1>2, ImportStep, EntryStep, FlagStep DEF Setup!Endpoint, Setup!Importers, Setup!Tasks
<1>3. CASE Setup!Restart
  BY <1>3, RestartStep
<1>4. CASE \E s \in Sessions : Setup!StartSetup(s)
  BY <1>4, StartSetupStep
<1>5. ASSUME NEW s \in Setup!Logins, Setup!SignIn(s) PROVE SetupInv'
  <2>1. s \in Setup!Tasks
    BY DEF Setup!Tasks
  <2> QED
    BY <1>5, <2>1, PollStep, ProveStep, AddStep, FlagStep, StoreStep DEF Setup!SignIn
<1>6. CASE \E a \in Setup!Loaded : Setup!Rotate(a)
  BY <1>6, RotateStep
<1>7. CASE UNCHANGED Setup!vars
  <2>1. UNCHANGED <<accounts, boot, importer, mark, login, newest, rotations>>
    BY <1>7 DEF Setup!vars
  <2>2. \A s \in Setup!Logins : SignIn(s)'
    BY <2>1, Unmoved
  <2> QED
    BY <2>1, <2>2 DEF SetupInv, SetupTyped, MarksLoaded, QuietBoot, Setup!Loaded
<1> QED
  BY <1>1, <1>2, <1>3, <1>4, <1>5, <1>6, <1>7 DEF Setup!Next

\* A complete sign-in has left the newest refresh token that Tidal issued for it in the
\* database, with any number of sign-ins, rotations, imports and failed inserts (a crash
\* forgets the session), although the background refresher may rotate the token between
\* add_account and store_refreshed_credentials.
THEOREM NewestIsKept ==
  ASSUME SetupParameters
  PROVE  Setup!Spec => []Setup!SignInKeepsNewest
<1>1. Setup!Init => SetupInv
  BY SetupInit
<1>2. SetupInv /\ [Setup!Next]_Setup!vars => SetupInv'
  BY SetupStep
<1>3. SetupInv => Setup!SignInKeepsNewest
  BY DEF SetupInv, SignIn, Current, Setup!SignInKeepsNewest
<1> QED
  BY <1>1, <1>2, <1>3, PTL DEF Setup!Spec

---------------------------------------------------------------------------
(* The token file *)

\* A file names each token once, and none of the environment's.
FileParameters ==
  /\ SetupParameters
  /\ \A j, k \in DOMAIN Entries : Entries[j].origin = Entries[k].origin => j = k
  /\ \A e \in Setup!ToSet(Entries) : e.origin \notin {"env catalog", "env default"}

FileOrigins == {e.origin : e \in Setup!ToSet(Entries)}
FromFile(a) == accounts[a].row.token[1] \in FileOrigins

\* The import knows every row of the entries it has yet to look at.
ImportSees ==
  LET q == importer["file"]
  IN  /\ \A j, k \in DOMAIN q.todo : q.todo[j].origin = q.todo[k].origin => j = k
      /\ \A k \in DOMAIN q.todo : q.todo[k].origin \in FileOrigins
      /\ \A k \in DOMAIN q.todo, a \in DOMAIN accounts :
           accounts[a].row.token[1] = q.todo[k].origin => <<q.todo[k].origin, 0>> \in q.seen

RowsOnce ==
  /\ \A a \in DOMAIN accounts : FromFile(a) => accounts[a].row.token[2] = 0
  /\ \A a, b \in DOMAIN accounts :
       FromFile(a) /\ accounts[a].row.token[1] = accounts[b].row.token[1] => a = b

BeforeImport ==
  /\ boot \in {"load", "import"} => /\ importer["file"].todo = << >>
                                    /\ \A t \in Setup!Tasks : mark[t] = 0
  /\ boot = "import" => \A a \in DOMAIN accounts : accounts[a].mem = accounts[a].row

FileOnce == ImportSees /\ RowsOnce /\ BeforeImport /\ importer["endpoint"].todo = << >>

Calm == rotations = 0 /\ imports = 0 /\ ~unread
FileInv == imports \in Nat /\ (Calm => FileOnce)

\* Steps that move no token of a row, once the import has begun.
LEMMA RowsAlike ==
  ASSUME FileOnce, UNCHANGED importer, boot' \notin {"load", "import"},
         DOMAIN accounts' = DOMAIN accounts,
         \A a \in DOMAIN accounts : accounts'[a].row.token = accounts[a].row.token
  PROVE  FileOnce'
<1>1. ImportSees'
  BY DEF FileOnce, ImportSees
<1>2. RowsOnce'
  BY DEF FileOnce, RowsOnce, FromFile
<1> QED
  BY <1>1, <1>2 DEF FileOnce, BeforeImport

\* A row that is not of the file.
LEMMA ForeignRow ==
  ASSUME SetupTyped, FileOnce, UNCHANGED importer, boot' \notin {"load", "import"},
         NEW rec \in AccountRec, accounts' = Append(accounts, rec),
         rec.row.token[1] \notin FileOrigins
  PROVE  FileOnce'
<1> DEFINE n == Setup!NewAccount
<1>1. /\ DOMAIN accounts' = DOMAIN accounts \cup {n}
      /\ n \notin DOMAIN accounts
      /\ \A a \in DOMAIN accounts : accounts'[a] = accounts[a]
      /\ accounts'[n] = rec
  BY Appended
<1> HIDE DEF n
<1>2. ImportSees'
  <2> DEFINE q == importer["file"]
  <2>1. /\ \A k \in DOMAIN q.todo : q.todo[k].origin \in FileOrigins
        /\ \A j, k \in DOMAIN q.todo : q.todo[j].origin = q.todo[k].origin => j = k
        /\ \A k \in DOMAIN q.todo, a \in DOMAIN accounts :
             accounts[a].row.token[1] = q.todo[k].origin => <<q.todo[k].origin, 0>> \in q.seen
    BY DEF FileOnce, ImportSees
  <2>2. q' = q
    OBVIOUS
  <2> HIDE DEF q
  <2>3. ASSUME NEW k \in DOMAIN q.todo, NEW a \in DOMAIN accounts',
               accounts'[a].row.token[1] = q.todo[k].origin
        PROVE  <<q.todo[k].origin, 0>> \in q.seen
    <3>1. a # n
      BY <1>1, <2>1, <2>3
    <3> QED
      BY <1>1, <2>1, <2>3, <3>1
  <2>4. /\ \A k \in DOMAIN q'.todo : q'.todo[k].origin \in FileOrigins
        /\ \A j, k \in DOMAIN q'.todo : q'.todo[j].origin = q'.todo[k].origin => j = k
        /\ \A k \in DOMAIN q'.todo, a \in DOMAIN accounts' :
             accounts'[a].row.token[1] = q'.todo[k].origin => <<q'.todo[k].origin, 0>> \in q'.seen
    BY <2>1, <2>2, <2>3
  <2> QED
    BY <2>4 DEF ImportSees, q
<1>3. RowsOnce'
  BY <1>1 DEF FileOnce, RowsOnce, FromFile
<1> QED
  BY <1>2, <1>3 DEF FileOnce, BeforeImport

LEMMA ForeignRows ==
  ASSUME SetupParameters, SetupTyped, FileOnce, UNCHANGED importer, boot' \notin {"load", "import"},
         NEW t \in Setup!Tokens, t[1] \notin FileOrigins,
         Setup!AddAccount(t) \/ Setup!AddFails(t) \/ UNCHANGED accounts
  PROVE  FileOnce'
<1>1. CASE UNCHANGED accounts
  BY <1>1, RowsAlike
<1>2. ASSUME NEW rec \in AccountRec, rec.row = Setup!Fresh(t), accounts' = Append(accounts, rec)
      PROVE  FileOnce'
  BY <1>2, FreshTypes, ForeignRow
<1>3. /\ [row |-> Setup!Fresh(t), mem |-> Setup!Fresh(t)] \in AccountRec
      /\ [row |-> Setup!Fresh(t), mem |-> Setup!Unloaded] \in AccountRec
  BY FreshTypes
<1> QED
  BY <1>1, <1>2, <1>3 DEF Setup!AddAccount, Setup!AddFails

LEMMA FileLoad ==
  ASSUME FileParameters, SetupInv, FileOnce, Setup!LoadFromDb, ~unread'
  PROVE  FileOnce'
<1>1. /\ SetupTyped /\ boot = "load" /\ boot' = "import" /\ UNCHANGED <<importer, mark>>
  BY DEF SetupInv, Setup!LoadFromDb
<1>2. /\ DOMAIN accounts = 1 .. Len(accounts)
      /\ \A a \in DOMAIN accounts : accounts[a] \in AccountRec
  BY <1>1, AccountTypes
<1>3. accounts' = [a \in DOMAIN accounts |->
                     [accounts[a] EXCEPT !.mem = IF a <= Len(accounts) THEN accounts[a].row ELSE Setup!Unloaded]]
  BY DEF Setup!LoadFromDb
<1>4. /\ DOMAIN accounts' = DOMAIN accounts
      /\ \A a \in DOMAIN accounts : /\ accounts'[a].row = accounts[a].row
                                    /\ accounts'[a].mem = accounts[a].row
  BY <1>2, <1>3 DEF AccountRec
<1>5. ImportSees' /\ RowsOnce'
  BY <1>1, <1>4 DEF FileOnce, ImportSees, RowsOnce, FromFile
<1> QED
  BY <1>1, <1>4, <1>5 DEF FileOnce, BeforeImport

\* The pool has every row when the import looks at it.
LEMMA FileImportBegins ==
  ASSUME FileParameters, SetupInv, FileOnce, Setup!ImportTokenFile
  PROVE  FileOnce'
<1> DEFINE q == [todo |-> IF "token file" \in env THEN Entries ELSE << >>, seen |-> Setup!Known]
<1>1. /\ SetupTyped /\ boot = "import" /\ boot' = "file" /\ UNCHANGED <<accounts, mark>>
      /\ importer'["file"] = q /\ importer'["endpoint"] = importer["endpoint"]
  BY DEF SetupInv, SetupTyped, Setup!ImportTokenFile, Setup!Importers
<1>2. ASSUME NEW a \in DOMAIN accounts, FromFile(a)
      PROVE  <<accounts[a].row.token[1], 0>> \in Setup!Known
  <2>1. accounts[a].mem = accounts[a].row
    BY <1>1 DEF FileOnce, BeforeImport
  <2>2. accounts[a].row \in Credential /\ accounts[a].row.token \in Setup!Tokens
    BY <1>1, AccountTypes
  <2>3. a \in Setup!Loaded
    BY <1>1, <2>1, <2>2, OriginTypes DEF Setup!Loaded, FileParameters
  <2>4. accounts[a].row.token = <<accounts[a].row.token[1], accounts[a].row.token[2]>>
    BY <2>2, OriginTypes DEF FileParameters
  <2>5. accounts[a].row.token[2] = 0
    BY <1>2 DEF FileOnce, RowsOnce
  <2>6. accounts[a].row.token \in Setup!Known
    BY <2>1, <2>3 DEF Setup!Known, Setup!PoolTokens
  <2> QED
    BY <2>4, <2>5, <2>6
<1>3. /\ \A j, k \in DOMAIN q.todo : q.todo[j].origin = q.todo[k].origin => j = k
      /\ \A k \in DOMAIN q.todo : q.todo[k].origin \in FileOrigins
  <2>1. CASE q.todo = Entries
    <3>1. \A j, k \in DOMAIN Entries : Entries[j].origin = Entries[k].origin => j = k
      BY DEF FileParameters
    <3>2. \A k \in DOMAIN Entries : Entries[k].origin \in FileOrigins
      BY DEF FileOrigins, Setup!ToSet
    <3> HIDE DEF q
    <3> QED
      BY <2>1, <3>1, <3>2
  <2>2. CASE q.todo = << >>
    <3>1. DOMAIN q.todo = {}
      <4> HIDE DEF q
      <4> QED
        BY <2>2
    <3> HIDE DEF q
    <3> QED
      BY <3>1
  <2> QED
    BY <2>1, <2>2
<1>4. q.seen = Setup!Known
  OBVIOUS
<1> HIDE DEF q
<1>5. ImportSees'
  BY <1>1, <1>2, <1>3, <1>4 DEF ImportSees, FromFile
<1>6. RowsOnce'
  BY <1>1 DEF FileOnce, RowsOnce, FromFile
<1> QED
  BY <1>1, <1>5, <1>6 DEF FileOnce, BeforeImport

\* An entry whose token the import has not seen has no row.
LEMMA FileEntry ==
  ASSUME FileParameters, SetupInv, FileOnce, Setup!Entry("file")
  PROVE  FileOnce'
<1> DEFINE q == importer["file"]
           e == Head(q.todo)
           t == <<e.origin, 0>>
           n == Setup!NewAccount
<1>0. /\ SetupTyped /\ "file" \in Setup!Importers /\ q.todo # << >> /\ q \in ImportRec
      /\ q.todo \in Seq(FileEntries) /\ boot' = boot /\ SetupParameters
  <2>1. SetupTyped /\ "file" \in Setup!Importers /\ q.todo # << >> /\ boot' = boot
    BY DEF SetupInv, Setup!Importers, Setup!Entry
  <2>2. q \in ImportRec
    BY <2>1 DEF SetupTyped
  <2> QED
    BY <2>1, <2>2 DEF ImportRec, FileParameters
<1>1. boot' \notin {"load", "import"}
  BY <1>0 DEF FileOnce, BeforeImport
<1>2. /\ DOMAIN q.todo = 1 .. Len(q.todo) /\ Len(q.todo) \in Nat \ {0} /\ e = q.todo[1]
      /\ 1 \in DOMAIN q.todo
      /\ DOMAIN Tail(q.todo) = 1 .. Len(q.todo) - 1
      /\ \A k \in DOMAIN Tail(q.todo) : Tail(q.todo)[k] = q.todo[k + 1] /\ k + 1 \in DOMAIN q.todo
  <2> DEFINE z == q.todo
  <2>1. z \in Seq(FileEntries) /\ z # << >>
    BY <1>0
  <2> HIDE DEF z
  <2>2. /\ DOMAIN z = 1 .. Len(z) /\ Len(z) \in Nat \ {0} /\ Head(z) = z[1] /\ 1 \in DOMAIN z
        /\ DOMAIN Tail(z) = 1 .. Len(z) - 1
        /\ \A k \in DOMAIN Tail(z) : Tail(z)[k] = z[k + 1] /\ k + 1 \in DOMAIN z
    BY <2>1
  <2> QED
    BY <2>2 DEF z
<1>3. /\ importer'["endpoint"] = importer["endpoint"]
      /\ importer'["file"].todo = Tail(q.todo) /\ q.seen \subseteq importer'["file"].seen
  <2>1. \/ importer' = [importer EXCEPT !["file"] = [todo |-> Tail(@.todo), seen |-> @.seen]]
        \/ importer' = [importer EXCEPT !["file"] = [todo |-> Tail(@.todo), seen |-> @.seen \cup {t}]]
    BY DEF Setup!Entry
  <2>2. importer \in [Setup!Importers -> ImportRec] /\ "endpoint" # "file"
    BY <1>0 DEF SetupTyped
  <2>3. \E known : /\ importer' = [importer EXCEPT !["file"] = [todo |-> Tail(q.todo), seen |-> known]]
                   /\ q.seen \subseteq known
    BY <2>1
  <2> HIDE DEF q
  <2> QED
    BY <1>0, <2>2, <2>3
<1>4. t \in Setup!Tokens /\ e.origin \in FileOrigins
  <2>1. e \in FileEntries
    BY <1>0, <1>2
  <2>2. e.origin \in FileOrigins
    BY <1>2 DEF FileOnce, ImportSees
  <2> QED
    BY <1>0, <2>1, <2>2, OriginTypes DEF Setup!Tokens
<1>5. /\ \A j, k \in DOMAIN Tail(q.todo) : Tail(q.todo)[j].origin = Tail(q.todo)[k].origin => j = k
      /\ \A k \in DOMAIN Tail(q.todo) : /\ Tail(q.todo)[k].origin \in FileOrigins
                                        /\ Tail(q.todo)[k].origin # e.origin
  <2>1. \A j, k \in DOMAIN q.todo : q.todo[j].origin = q.todo[k].origin => j = k
    BY DEF FileOnce, ImportSees
  <2>2. \A k \in DOMAIN q.todo : q.todo[k].origin \in FileOrigins
    BY DEF FileOnce, ImportSees
  <2> HIDE DEF q, e
  <2>3. ASSUME NEW j \in DOMAIN Tail(q.todo), NEW k \in DOMAIN Tail(q.todo),
               Tail(q.todo)[j].origin = Tail(q.todo)[k].origin
        PROVE  j = k
    <3>1. j + 1 = k + 1
      BY <1>2, <2>1, <2>3
    <3>2. j \in Nat /\ k \in Nat
      BY <1>2
    <3> QED
      BY <3>1, <3>2
  <2>4. ASSUME NEW k \in DOMAIN Tail(q.todo)
        PROVE  Tail(q.todo)[k].origin \in FileOrigins /\ Tail(q.todo)[k].origin # e.origin
    <3>1. k \in Nat \ {0}
      BY <1>2
    <3>2. k + 1 # 1
      BY <3>1
    <3> QED
      BY <1>2, <2>1, <2>2, <3>2
  <2> QED
    BY <2>3, <2>4
<1>6. \A k \in DOMAIN Tail(q.todo), a \in DOMAIN accounts :
        accounts[a].row.token[1] = Tail(q.todo)[k].origin =>
          <<Tail(q.todo)[k].origin, 0>> \in importer'["file"].seen
  <2>1. \A k \in DOMAIN q.todo, a \in DOMAIN accounts :
          accounts[a].row.token[1] = q.todo[k].origin => <<q.todo[k].origin, 0>> \in q.seen
    BY DEF FileOnce, ImportSees
  <2> HIDE DEF q
  <2> QED
    BY <1>2, <1>3, <2>1
<1>7. t \notin q.seen => \A a \in DOMAIN accounts : accounts[a].row.token[1] # e.origin
  BY <1>2 DEF FileOnce, ImportSees
<1>8. \/ UNCHANGED accounts
      \/ t \notin q.seen /\ (Setup!AddAccount(t) \/ Setup!AddFails(t))
  BY DEF Setup!Entry
<1>9. CASE UNCHANGED accounts
  <2>1. ImportSees'
    BY <1>3, <1>5, <1>6, <1>9 DEF ImportSees
  <2> QED
    BY <1>1, <1>3, <1>9, <2>1 DEF FileOnce, BeforeImport, RowsOnce, FromFile
<1>10. ASSUME NEW rec \in AccountRec, rec.row.token = t, accounts' = Append(accounts, rec),
              t \notin q.seen
       PROVE  FileOnce'
  <2>1. /\ DOMAIN accounts' = DOMAIN accounts \cup {n}
        /\ n \notin DOMAIN accounts
        /\ \A a \in DOMAIN accounts : accounts'[a] = accounts[a]
        /\ accounts'[n] = rec
    BY <1>0, <1>10, Appended
  <2>2. rec.row.token[1] = e.origin /\ rec.row.token[2] = 0
    BY <1>10
  <2> HIDE DEF n, t, e, q
  <2>3. ImportSees'
    BY <1>3, <1>5, <1>6, <2>1, <2>2 DEF ImportSees
  <2>4. RowsOnce'
    BY <1>7, <1>10, <2>1, <2>2 DEF FileOnce, RowsOnce, FromFile
  <2> QED
    BY <1>1, <1>3, <2>3, <2>4 DEF FileOnce, BeforeImport
<1> HIDE DEF t, q, e
<1>11. /\ [row |-> Setup!Fresh(t), mem |-> Setup!Fresh(t)] \in AccountRec
       /\ [row |-> Setup!Fresh(t), mem |-> Setup!Unloaded] \in AccountRec
       /\ Setup!Fresh(t).token = t
  BY <1>0, <1>4, FreshTypes
<1> QED
  BY <1>8, <1>9, <1>10, <1>11 DEF Setup!AddAccount, Setup!AddFails

LEMMA FileRestart ==
  ASSUME SetupInv, FileOnce, Setup!Restart
  PROVE  FileOnce'
<1>1. SetupTyped /\ boot' = "load"
  BY DEF SetupInv, Setup!Restart
<1>2. /\ importer'["file"].todo = << >> /\ importer'["endpoint"].todo = << >>
      /\ \A t \in Setup!Tasks : mark'[t] = 0
  BY DEF Setup!Restart, Setup!Idle, Setup!Importers
<1>3. /\ DOMAIN accounts' = DOMAIN accounts
      /\ \A a \in DOMAIN accounts : accounts'[a].row = accounts[a].row
  <2>1. accounts' = [a \in DOMAIN accounts |-> [accounts[a] EXCEPT !.mem = Setup!Unloaded]]
    BY DEF Setup!Restart
  <2>2. \A a \in DOMAIN accounts : accounts[a] \in AccountRec
    BY <1>1, AccountTypes
  <2> QED
    BY <2>1, <2>2 DEF AccountRec
<1>4. ImportSees'
  BY <1>2 DEF ImportSees
<1>5. RowsOnce'
  BY <1>3 DEF FileOnce, RowsOnce, FromFile
<1> QED
  BY <1>1, <1>2, <1>4, <1>5 DEF FileOnce, BeforeImport

LEMMA CountedUp ==
  ASSUME NEW n \in Nat, NEW m, m = n + 1
  PROVE  m \in Nat /\ m # 0
OBVIOUS

\* Nothing else brings a token of the file while nothing is rotated or imported by hand.
LEMMA FileStep ==
  ASSUME FileParameters, SetupInv, FileInv, [Setup!Next]_Setup!vars
  PROVE  FileInv'
<1>0. /\ SetupParameters /\ SetupTyped /\ imports \in Nat /\ rotations \in Nat
      /\ \A s \in Setup!Logins : s \notin FileOrigins
      /\ "env catalog" \notin FileOrigins /\ "env default" \notin FileOrigins
  BY DEF FileParameters, SetupParameters, FileInv, SetupInv, SetupTyped, FileOrigins, FileEntries
<1>1. CASE Setup!ImportAccounts
  <2>1. imports' = imports + 1
    BY <1>1 DEF Setup!ImportAccounts
  <2>2. imports' \in Nat /\ imports' # 0
    BY <1>0, <2>1, CountedUp, Zenon
  <2> QED
    BY <2>2 DEF FileInv, Calm
<1>2. CASE \E a \in Setup!Loaded : Setup!Rotate(a)
  <2>1. rotations' = rotations + 1 /\ imports' = imports
    BY <1>2 DEF Setup!Rotate
  <2>2. rotations' # 0 /\ imports' \in Nat
    BY <1>0, <2>1, CountedUp, Zenon
  <2> QED
    BY <2>2 DEF FileInv, Calm
<1> DEFINE Others ==
      \/ Setup!Boot \/ Setup!Endpoint \/ Setup!Restart \/ UNCHANGED Setup!vars
      \/ \E s \in Sessions : Setup!StartSetup(s)
      \/ \E s \in Setup!Logins : Setup!SignIn(s)
<1>3. CASE Others
  <2>1. UNCHANGED <<rotations, imports>> /\ (UNCHANGED unread \/ unread' = TRUE)
    <3>1. CASE Setup!Boot \/ Setup!Endpoint
      <4>1. CASE Setup!LoadFromDb
        BY <4>1 DEF Setup!LoadFromDb
      <4>2. CASE Setup!ImportTokenFile \/ Setup!EnvironmentCatalog \/ Setup!EnvironmentDefault \/ Setup!Serve
        BY <4>2 DEF Setup!ImportTokenFile, Setup!EnvironmentCatalog, Setup!EnvironmentDefault, Setup!Serve
      <4>3. ASSUME NEW t, Setup!SetAccountCatalog(t) \/ Setup!Entry(t)
            PROVE  UNCHANGED <<rotations, imports, unread>>
        BY <4>3 DEF Setup!SetAccountCatalog, Setup!Entry
      <4> QED
        BY <3>1, <4>1, <4>2, <4>3 DEF Setup!Boot, Setup!Endpoint
    <3>2. CASE Setup!Restart \/ UNCHANGED Setup!vars \/ \E s \in Sessions : Setup!StartSetup(s)
      BY <3>2 DEF Setup!Restart, Setup!vars, Setup!StartSetup
    <3>3. ASSUME NEW s \in Setup!Logins, Setup!SignIn(s)
          PROVE  UNCHANGED <<rotations, imports, unread>>
      <4>1. CASE Setup!Poll(s)
        BY <4>1 DEF Setup!Poll
      <4>2. CASE Setup!RefreshWithClient(s) \/ Setup!Add(s) \/ Setup!SetAccountCatalog(s)
        BY <4>2 DEF Setup!RefreshWithClient, Setup!Add, Setup!SetAccountCatalog
      <4>3. CASE Setup!StoreRefreshed(s)
        BY <4>3 DEF Setup!StoreRefreshed
      <4> QED
        BY <3>3, <4>1, <4>2, <4>3 DEF Setup!SignIn
    <3> QED
      BY <1>3, <3>1, <3>2, <3>3
  <2> SUFFICES ASSUME Calm, ~unread' PROVE FileOnce'
    <3>1. imports' \in Nat /\ (Calm' => Calm /\ ~unread')
      <4>1. CASE UNCHANGED unread
        BY <1>0, <2>1, <4>1 DEF Calm
      <4>2. CASE unread' = TRUE
        BY <1>0, <2>1, <4>2 DEF Calm
      <4> QED
        BY <2>1, <4>1, <4>2
    <3> QED
      BY <3>1 DEF FileInv
  <2>2. FileOnce
    BY DEF FileInv
  <2>3. CASE Setup!LoadFromDb
    BY <2>2, <2>3, FileLoad
  <2>4. CASE Setup!ImportTokenFile
    BY <2>2, <2>4, FileImportBegins
  <2>5. CASE Setup!Entry("file")
    BY <2>2, <2>5, FileEntry
  <2>6. CASE Setup!Entry("endpoint")
    BY <2>2, <2>6 DEF FileOnce, Setup!Entry
  <2>7. CASE Setup!EnvironmentCatalog \/ Setup!EnvironmentDefault
    <3>1. \E o \in {"env catalog", "env default"} :
            Setup!AddAccount(<<o, 0>>) \/ Setup!AddFails(<<o, 0>>) \/ UNCHANGED accounts
      BY <2>7 DEF Setup!EnvironmentCatalog, Setup!EnvironmentDefault
    <3>2. PICK o \in {"env catalog", "env default"} :
            Setup!AddAccount(<<o, 0>>) \/ Setup!AddFails(<<o, 0>>) \/ UNCHANGED accounts
      BY <3>1
    <3>3. UNCHANGED importer /\ boot' \in {"default", "auto"}
      BY <2>7 DEF Setup!EnvironmentCatalog, Setup!EnvironmentDefault
    <3>4. <<o, 0>> \in Setup!Tokens /\ <<o, 0>>[1] \notin FileOrigins
      BY <1>0, OriginTypes DEF Setup!Tokens
    <3> QED
      BY <1>0, <2>2, <3>2, <3>3, <3>4, ForeignRows
  <2>8. CASE Setup!Serve
    <3>1. UNCHANGED <<accounts, importer>> /\ boot' = "up"
      BY <2>8 DEF Setup!Serve
    <3> QED
      BY <2>2, <3>1, RowsAlike
  <2>9. ASSUME NEW t \in Setup!Tasks, Setup!SetAccountCatalog(t) PROVE FileOnce'
    <3>1. UNCHANGED <<importer, boot>> /\ mark[t] # 0
      BY <2>9 DEF Setup!SetAccountCatalog
    <3>2. boot \notin {"load", "import"}
      BY <2>2, <3>1 DEF FileOnce, BeforeImport
    <3>3. /\ DOMAIN accounts' = DOMAIN accounts
          /\ \A a \in DOMAIN accounts : accounts'[a].row.token = accounts[a].row.token
      BY <1>0, <2>9, FlagTokens
    <3> QED
      BY <2>2, <3>1, <3>2, <3>3, RowsAlike
  <2>10. CASE Setup!Restart
    BY <2>2, <2>10, FileRestart
  <2>11. CASE UNCHANGED Setup!vars
    BY <2>2, <2>11 DEF Setup!vars, FileOnce, ImportSees, RowsOnce, FromFile, BeforeImport
  <2>12. ASSUME NEW s \in Setup!Logins,
                Setup!StartSetup(s) \/ Setup!Poll(s) \/ Setup!RefreshWithClient(s)
                  \/ Setup!StoreRefreshed(s)
         PROVE  FileOnce'
    <3>1. UNCHANGED <<importer, boot>>
      BY <2>12 DEF Setup!StartSetup, Setup!Poll, Setup!RefreshWithClient, Setup!StoreRefreshed
    <3>2. UNCHANGED accounts /\ boot = "up"
      <4>1. CASE Setup!StartSetup(s)
        BY <4>1 DEF Setup!StartSetup
      <4>2. CASE Setup!Poll(s) \/ Setup!RefreshWithClient(s)
        <5>1. UNCHANGED accounts /\ login[s].pc \in {"poll", "refresh"}
          BY <4>2 DEF Setup!Poll, Setup!RefreshWithClient
        <5> QED
          BY <5>1, UnderWay
      <4>3. CASE Setup!StoreRefreshed(s)
        BY <1>0, <4>3, StoreKeeps
      <4> QED
        BY <2>12, <4>1, <4>2, <4>3
    <3> QED
      BY <2>2, <3>1, <3>2, RowsAlike
  <2>13. ASSUME NEW s \in Setup!Logins, Setup!Add(s) PROVE FileOnce'
    <3>1. /\ UNCHANGED <<importer, boot>> /\ login[s].pc = "add"
          /\ Setup!AddAccount(login[s].token) \/ Setup!AddFails(login[s].token)
      BY <2>13 DEF Setup!Add
    <3>2. boot = "up" /\ login[s].token = <<s, newest[s]>>
      BY <3>1, UnderWay DEF SetupInv, SignIn
    <3>3. login[s].token \in Setup!Tokens
      <4>1. login[s] \in SignInRec
        BY <3>1, UnderWay
      <4>2. login[s].token # << >>
        <5>1. Len(<<s, newest[s]>>) = 2 /\ Len(<< >>) = 0
          OBVIOUS
        <5> QED
          BY <3>2, <5>1
      <4> QED
        BY <4>1, <4>2 DEF SignInRec
    <3>4. login[s].token[1] \notin FileOrigins
      <4>1. login[s].token[1] = s
        BY <3>2
      <4> QED
        BY <1>0, <4>1
    <3> QED
      BY <1>0, <2>2, <3>1, <3>2, <3>3, <3>4, ForeignRows
  <2>14. Sessions \subseteq Setup!Logins /\ Setup!Logins \subseteq Setup!Tasks
         /\ {"file", "env", "endpoint"} \subseteq Setup!Tasks
    BY DEF Setup!Logins, Setup!Tasks, Setup!Importers
  <2>15. CASE Setup!Boot \/ Setup!Endpoint
    BY <2>3, <2>4, <2>5, <2>6, <2>7, <2>8, <2>9, <2>14, <2>15 DEF Setup!Boot, Setup!Endpoint
  <2>16. ASSUME NEW s \in Setup!Logins, Setup!SignIn(s) PROVE FileOnce'
    BY <2>9, <2>12, <2>13, <2>14, <2>16 DEF Setup!SignIn
  <2>17. ASSUME NEW s \in Sessions, Setup!StartSetup(s) PROVE FileOnce'
    BY <2>12, <2>14, <2>17
  <2> QED
    BY <1>3, <2>10, <2>11, <2>15, <2>16, <2>17
<1> QED
  BY <1>1, <1>2, <1>3 DEF Setup!Next

\* The token file gives each of its entries one account, wherever the process stops and
\* whichever insert fails: the import skips what the pool has, and the pool has every row
\* when it begins.
THEOREM FileOnlyOnce ==
  ASSUME FileParameters
  PROVE  Setup!Spec => []Setup!FileImportedOnce
<1>0. SetupParameters
  BY DEF FileParameters
<1>1. Setup!Init => SetupInv /\ FileInv
  <2> SUFFICES ASSUME Setup!Init PROVE SetupInv /\ FileInv
    OBVIOUS
  <2>1. SetupInv
    BY <1>0, SetupInit
  <2>2. /\ accounts = << >> /\ boot = "load" /\ imports = 0
        /\ \A t \in Setup!Tasks : mark[t] = 0
        /\ importer["file"].todo = << >> /\ importer["endpoint"].todo = << >>
    BY DEF Setup!Init, Setup!Idle, Setup!Importers
  <2>3. DOMAIN accounts = {}
    BY <2>2
  <2> QED
    BY <2>1, <2>2, <2>3 DEF FileInv, FileOnce, ImportSees, RowsOnce, BeforeImport
<1>2. SetupInv /\ FileInv /\ [Setup!Next]_Setup!vars => SetupInv' /\ FileInv'
  BY <1>0, SetupStep, FileStep
<1>3. FileInv => Setup!FileImportedOnce
  BY DEF FileInv, Calm, FileOnce, RowsOnce, FromFile, FileOrigins, Setup!FileImportedOnce
<1> QED
  BY <1>1, <1>2, <1>3, PTL DEF Setup!Spec

\* Accounts, sign-ins and marks keep their types, and no token is newer than Tidal's
\* last, with any number of sessions and entries.
THEOREM SetupTypeCorrect ==
  ASSUME SetupParameters
  PROVE  Setup!Spec => []Setup!TypeOK
<1>1. Setup!Init => SetupInv
  BY SetupInit
<1>2. SetupInv /\ [Setup!Next]_Setup!vars => SetupInv'
  BY SetupStep
<1>3. SetupInv => Setup!TypeOK
  <2> SUFFICES ASSUME SetupInv PROVE Setup!TypeOK
    OBVIOUS
  <2>1. SetupTyped /\ MarksLoaded
    BY DEF SetupInv
  <2>2. \A a \in DOMAIN accounts : /\ accounts[a].row.token \in Setup!Tokens
                                   /\ accounts[a].mem = Setup!Unloaded
                                        \/ accounts[a].mem.token \in Setup!Tokens
    BY <2>1, AccountTypes DEF Setup!Loaded
  <2>3. mark \in [Setup!Tasks -> 0 .. Len(accounts)]
    <3>1. \A t \in Setup!Tasks : mark[t] = 0 \/ mark[t] \in 1 .. Len(accounts)
      BY <2>1, AccountTypes DEF MarksLoaded
    <3>2. Len(accounts) \in Nat
      BY <2>1, AccountTypes
    <3> QED
      BY <2>1, <3>1, <3>2 DEF MarksLoaded
  <2>4. newest \in [Setup!Origins -> 0 .. MaxRotations + 1]
    <3>1. \A o \in Setup!Origins : newest[o] \in Nat /\ newest[o] <= MaxRotations + 1
      <4> TAKE o \in Setup!Origins
      <4>1. /\ newest[o] \in Nat /\ rotations \in Nat /\ MaxRotations \in Nat
            /\ newest[o] <= rotations + 1 /\ rotations <= MaxRotations
        BY <2>1, SetupBounds DEF SetupTyped
      <4> QED
        BY <4>1
    <3> QED
      BY <2>1, <3>1, SetupBounds DEF SetupTyped
  <2>5. /\ \A s \in Setup!Logins : login[s].pc \in SignInPc
        /\ boot \in {"load", "import", "file", "default", "auto", "up"}
    BY <2>1 DEF SetupTyped, SignInRec
  <2> QED
    BY <2>2, <2>3, <2>4, <2>5 DEF Setup!TypeOK, SignInPc
<1> QED
  BY <1>1, <1>2, <1>3, PTL DEF Setup!Spec
=============================================================================
