-------------------------- MODULE AccountOnboarding --------------------------
(***************************************************************************)
(* How accounts come into the pool: the start-up sequence of main.rs (load *)
(* the database, import the token file, the accounts of the environment,   *)
(* AUTO_SETUP), an import through the admin panel, and device-code         *)
(* sign-ins, each a task of its own that polls Tidal, proves the token     *)
(* with a refresh, and stores the account in several steps.  Meanwhile     *)
(* the background refresher rotates the refresh token of whatever is in    *)
(* the pool, and the process may stop at any point.                        *)
(*                                                                         *)
(* A refresh token is <<origin, generation>>: who first handed it out and  *)
(* how often it has been rotated since.  Each account is a database row    *)
(* and, when loaded, an object in memory.                                  *)
(***************************************************************************)
EXTENDS Naturals, Sequences, SequencesExt

CONSTANTS Entries,      \* the token file: <<[origin, catalog], ...>>
          Posted,       \* what an owner posts to the import endpoint, likewise
          Installations,    \* what an installation may set: sets of "token file",
                            \* "catalog", "default" (the environment), "AUTO_SETUP"
          Sessions,     \* the sign-ins owners start
          MaxPolls,     \* polls before the 600 s deadline; the counter wraps there
          MaxRotations, MaxCrashes, MaxDbErrors, MaxImports

VARIABLES env,        \* what the installation sets, one of Installations
          accounts,   \* <<[row: token and catalog, mem: the same or Unloaded], ...>>
          boot,       \* where the start-up sequence is; "up" when it serves
          importer,   \* [who -> [todo, seen]]: the file's import and the endpoint's
          mark,       \* [task -> account it is about to flag as catalog, or 0]
          login,      \* [Logins -> [pc, polls, catalog, token, account]]
          issued,     \* [origin -> newest generation Tidal has issued]
          unread,     \* history: some start could not read all rows
          rotations, crashes, dbErrors, imports

vars == <<env, accounts, boot, importer, mark, login, issued, unread, rotations, crashes, dbErrors, imports>>

Importers == {"file", "endpoint"}
Logins == Sessions \cup {"auto"}
Tasks == Importers \cup {"env"} \cup Logins
Origins == {e.origin : e \in ToSet(Entries) \cup ToSet(Posted)} \cup {"env catalog", "env default"} \cup Logins
Unloaded == [token |-> << >>, catalog |-> FALSE]
NoLogin == [pc |-> "none", polls |-> 0, catalog |-> FALSE, token |-> << >>, account |-> 0]
Idle == [todo |-> << >>, seen |-> {}]

Loaded == {a \in DOMAIN accounts : accounts[a].mem # Unloaded}
PoolTokens == {accounts[a].mem.token : a \in Loaded}

DbError == dbErrors < MaxDbErrors /\ dbErrors' = dbErrors + 1

---------------------------------------------------------------------------
(* AccountManager: add_account and set_account_catalog.                    *)

\* The row and then its metrics row; only then the pool.  When the second insert
\* fails the first one stays, with nothing in memory.
Fresh(token) == [token |-> token, catalog |-> FALSE]
NewAccount == Len(accounts) + 1    \* the account that is added
AddAccount(token) ==
  /\ accounts' = Append(accounts, [row |-> Fresh(token), mem |-> Fresh(token)])
  /\ UNCHANGED dbErrors
AddFails(token) ==
  /\ DbError
  /\ \/ accounts' = Append(accounts, [row |-> Fresh(token), mem |-> Unloaded])
     \/ UNCHANGED accounts

\* The object in memory is flagged first; a failed row write leaves it so.
SetAccountCatalog(task) ==
  /\ mark[task] # 0
  /\ mark' = [mark EXCEPT ![task] = 0]
  /\ \/ /\ accounts' = [accounts EXCEPT ![mark[task]].mem.catalog = TRUE,
                                        ![mark[task]].row.catalog = TRUE]
        /\ UNCHANGED dbErrors
     \/ DbError /\ accounts' = [accounts EXCEPT ![mark[task]].mem.catalog = TRUE]
  /\ UNCHANGED <<env, unread, boot, importer, login, issued, rotations, crashes, imports>>

Marked(task, wanted, a) == mark' = IF wanted THEN [mark EXCEPT ![task] = a] ELSE mark

---------------------------------------------------------------------------
(* Start-up.                                                               *)

\* What the file's import takes for known: the refresh tokens of the pool.
Known == PoolTokens

\* load_from_db: on an error the accounts read before it are in the pool.
LoadFromDb ==
  /\ boot = "load"
  /\ \E read \in 0..Len(accounts) :
       /\ IF read = Len(accounts) THEN UNCHANGED <<unread, dbErrors>> ELSE DbError /\ unread' = TRUE
       /\ accounts' = [a \in DOMAIN accounts |->
                         [accounts[a] EXCEPT !.mem = IF a <= read THEN accounts[a].row ELSE Unloaded]]
  /\ boot' = "import"
  /\ UNCHANGED <<env, importer, mark, login, issued, rotations, crashes, imports>>

ImportTokenFile ==
  /\ boot = "import"
  /\ boot' = "file"
  /\ importer' = [importer EXCEPT !["file"] = [todo |-> IF "token file" \in env THEN Entries ELSE << >>,
                                             seen |-> Known]]
  /\ UNCHANGED <<env, unread, accounts, mark, login, issued, rotations, crashes, dbErrors, imports>>

\* The loop of either import over its entries; only the file's adds to what it has seen.
Entry(who) ==
  LET e == Head(importer[who].todo)
      token == <<e.origin, 0>>
      Step(known) == importer' = [importer EXCEPT ![who] = [todo |-> Tail(@.todo), seen |-> known]]
      seen == importer[who].seen
  IN  /\ importer[who].todo # << >> /\ mark[who] = 0
      /\ \/ /\ token \in seen
            /\ Step(seen)
            /\ UNCHANGED <<accounts, mark, dbErrors>>
         \/ /\ token \notin seen
            /\ \/ /\ AddAccount(token)
                  /\ Marked(who, e.catalog, NewAccount)
                  /\ Step(IF who = "file" THEN seen \cup {token} ELSE seen)
               \/ AddFails(token) /\ UNCHANGED mark /\ Step(seen)
      /\ UNCHANGED <<env, unread, boot, login, issued, rotations, crashes, imports>>

EnvironmentCatalog ==
  /\ boot = "file" /\ importer["file"].todo = << >> /\ mark["file"] = 0
  /\ boot' = "default"
  /\ IF "catalog" \in env /\ ~ \E a \in Loaded : accounts[a].mem.catalog
     THEN \/ AddAccount(<<"env catalog", 0>>) /\ Marked("env", TRUE, NewAccount)
          \/ AddFails(<<"env catalog", 0>>) /\ UNCHANGED mark
     ELSE UNCHANGED <<accounts, mark, dbErrors>>
  /\ UNCHANGED <<env, unread, importer, login, issued, rotations, crashes, imports>>

EnvironmentDefault ==
  /\ boot = "default" /\ mark["env"] = 0
  /\ boot' = "auto"
  /\ IF "default" \in env /\ Loaded = {}
     THEN /\ AddAccount(<<"env default", 0>>) \/ AddFails(<<"env default", 0>>)
          /\ UNCHANGED mark
     ELSE UNCHANGED <<accounts, mark, dbErrors>>
  /\ UNCHANGED <<env, unread, importer, login, issued, rotations, crashes, imports>>

Serve ==
  /\ boot = "auto"
  /\ boot' = "up"
  /\ login' = IF "AUTO_SETUP" \in env /\ Loaded = {} THEN [login EXCEPT !["auto"].pc = "poll"] ELSE login
  /\ UNCHANGED <<env, unread, accounts, importer, mark, issued, rotations, crashes, dbErrors, imports>>

Boot == \/ LoadFromDb \/ ImportTokenFile \/ EnvironmentCatalog \/ EnvironmentDefault \/ Serve
        \/ Entry("file") \/ SetAccountCatalog("file") \/ SetAccountCatalog("env")

\* import_accounts of the admin panel.
ImportAccounts ==
  /\ boot = "up" /\ importer["endpoint"].todo = << >> /\ mark["endpoint"] = 0
  /\ imports < MaxImports /\ imports' = imports + 1
  /\ importer' = [importer EXCEPT !["endpoint"] = [todo |-> Posted, seen |-> PoolTokens]]
  /\ UNCHANGED <<env, unread, accounts, boot, mark, login, issued, rotations, crashes, dbErrors>>

Endpoint == Entry("endpoint") \/ SetAccountCatalog("endpoint")

---------------------------------------------------------------------------
(* Device-code sign-in: start_setup, its task, and run_setup ("auto").     *)

StartSetup(s) ==
  /\ boot = "up" /\ login[s].pc = "none"
  /\ \E catalog \in BOOLEAN : login' = [login EXCEPT ![s].pc = "poll", ![s].catalog = catalog]
  /\ UNCHANGED <<env, unread, accounts, boot, importer, mark, issued, rotations, crashes, dbErrors, imports>>

LoginStep(s, session) == login' = [login EXCEPT ![s] = session]
Moved(s, pc) == LoginStep(s, [login[s] EXCEPT !.pc = pc])

\* Signed out by the deadline, by an error, or (for a session) by a final answer.
DeadlinePassed_Never(s) == FALSE
DeadlinePassed(s) == login[s].polls = MaxPolls
Poll(s) ==
  /\ login[s].pc = "poll"
  /\ IF DeadlinePassed(s)
     THEN Moved(s, "error") /\ UNCHANGED issued
     ELSE \/ /\ LoginStep(s, [login[s] EXCEPT !.polls = (@ + 1) % (MaxPolls + 1)])   \* 400, 429: not yet
             /\ UNCHANGED issued
          \/ Moved(s, "error") /\ UNCHANGED issued
          \/ /\ issued' = [issued EXCEPT ![s] = 0]
             /\ LoginStep(s, [login[s] EXCEPT !.token = <<s, 0>>,
                                           !.pc = IF s \in Sessions THEN "refresh" ELSE "add"])
  /\ UNCHANGED <<env, unread, accounts, boot, importer, mark, rotations, crashes, dbErrors, imports>>

\* The token the account is stored with: the rotated one when the refresh rotated it.
Proven(signed, answered) == answered

\* refresh_with_client; Tidal rotates the token or leaves it.
RefreshWithClient(s) ==
  /\ login[s].pc = "refresh"
  /\ \/ Moved(s, "error") /\ UNCHANGED issued
     \/ \E generation \in {0, 1} :
          /\ issued' = [issued EXCEPT ![s] = generation]
          /\ LoginStep(s, [login[s] EXCEPT !.pc = "add", !.token = Proven(@, <<s, generation>>)])
  /\ UNCHANGED <<env, unread, accounts, boot, importer, mark, rotations, crashes, dbErrors, imports>>

Add(s) ==
  /\ login[s].pc = "add"
  /\ \/ /\ AddAccount(login[s].token)
        /\ Marked(s, login[s].catalog, NewAccount)
        /\ LoginStep(s, [login[s] EXCEPT !.pc = "store", !.account = NewAccount])
     \/ AddFails(login[s].token) /\ UNCHANGED mark /\ Moved(s, "error")
  /\ UNCHANGED <<env, unread, boot, importer, issued, rotations, crashes, imports>>

\* store_refreshed_credentials keeps the token it is given, and only while the pool
\* still has that token.  It may fail; the sign-in is complete either way.
Unchanged_Unchecked(s) == TRUE
Unchanged(s) == accounts[login[s].account].mem.token = login[s].token
StoreRefreshed(s) ==
  /\ login[s].pc = "store" /\ mark[s] = 0
  /\ Moved(s, "complete")
  /\ \/ /\ Unchanged(s)
        /\ accounts' = [accounts EXCEPT ![login[s].account].mem.token = login[s].token,
                                        ![login[s].account].row.token = login[s].token]
        /\ UNCHANGED dbErrors
     \/ ~Unchanged(s) /\ UNCHANGED <<accounts, dbErrors>>
     \/ DbError /\ UNCHANGED accounts
  /\ UNCHANGED <<env, unread, boot, importer, mark, issued, rotations, crashes, imports>>

SignIn(s) == Poll(s) \/ RefreshWithClient(s) \/ Add(s) \/ SetAccountCatalog(s) \/ StoreRefreshed(s)

---------------------------------------------------------------------------
(* Around them.                                                            *)

\* The background refresher (TokenRefresh.tla) renews an account of the pool.
Rotate(a) ==
  LET origin == accounts[a].mem.token[1]
      newest == <<origin, issued[origin] + 1>>
  IN  /\ boot = "up"
      /\ rotations < MaxRotations /\ rotations' = rotations + 1
      /\ accounts[a].mem.token[2] = issued[origin]      \* Tidal takes no older token
      /\ issued' = [issued EXCEPT ![origin] = @ + 1]
      /\ accounts' = [accounts EXCEPT ![a].mem.token = newest, ![a].row.token = newest]
      /\ UNCHANGED <<env, unread, boot, importer, mark, login, crashes, dbErrors, imports>>

\* Sessions, imports and the pool are gone; the database and the token file are not.
Restart ==
  /\ crashes < MaxCrashes /\ crashes' = crashes + 1
  /\ boot' = "load"
  /\ accounts' = [a \in DOMAIN accounts |-> [accounts[a] EXCEPT !.mem = Unloaded]]
  /\ importer' = [w \in Importers |-> Idle]
  /\ mark' = [t \in Tasks |-> 0]
  /\ login' = [s \in Logins |-> IF login[s].pc = "none" THEN NoLogin ELSE [NoLogin EXCEPT !.pc = "gone"]]
  /\ UNCHANGED <<env, unread, issued, rotations, dbErrors, imports>>

Init ==
  /\ env \in Installations
  /\ accounts = << >>
  /\ boot = "load"
  /\ importer = [w \in Importers |-> Idle]
  /\ mark = [t \in Tasks |-> 0]
  /\ login = [s \in Logins |-> NoLogin]
  /\ issued = [o \in Origins |-> 0]
  /\ unread = FALSE
  /\ rotations = 0 /\ crashes = 0 /\ dbErrors = 0 /\ imports = 0

Next == \/ Boot \/ ImportAccounts \/ Endpoint \/ Restart
        \/ \E s \in Sessions : StartSetup(s)
        \/ \E s \in Logins : SignIn(s)
        \/ \E a \in Loaded : Rotate(a)
Spec == Init /\ [][Next]_vars
\* The start-up sequence and every sign-in's task keep running.
Fairness == WF_vars(Boot) /\ WF_vars(Endpoint) /\ \A s \in Logins : WF_vars(SignIn(s))
FairSpec == Spec /\ Fairness

---------------------------------------------------------------------------
Tokens == Origins \X (0..MaxRotations + 1)
TypeOK ==
  /\ \A a \in DOMAIN accounts : /\ accounts[a].row.token \in Tokens
                                /\ accounts[a].mem = Unloaded \/ accounts[a].mem.token \in Tokens
  /\ boot \in {"load", "import", "file", "default", "auto", "up"}
  /\ mark \in [Tasks -> 0..Len(accounts)]
  /\ \A s \in Logins : login[s].pc \in {"none", "poll", "refresh", "add", "store", "complete", "error", "gone"}
  /\ issued \in [Origins -> 0..MaxRotations + 1]

\* A sign-in that is complete has left the newest token Tidal issued for it in the
\* database, though the account could be refreshed from the moment it was in the pool.
SignInKeepsNewest ==
  \A s \in Logins : login[s].pc = "complete" =>
    accounts[login[s].account].row.token = <<s, issued[s]>>

\* Wherever the process stops and whichever insert fails, the token file gives each of
\* its entries one account - as long as each start could read the database, no token was
\* rotated, and nobody imported the same token by hand.
FileImportedOnce ==
  rotations = 0 /\ imports = 0 /\ ~unread =>
    \A e \in ToSet(Entries), a, b \in DOMAIN accounts :
      accounts[a].row.token[1] = e.origin /\ accounts[b].row.token[1] = e.origin => a = b

\* Every sign-in ends: it is answered, or the 600 s deadline ends it.
NoneWaits == \A s \in Logins : login[s].pc # "poll"
SignInsEnd == <>[]NoneWaits

=============================================================================
