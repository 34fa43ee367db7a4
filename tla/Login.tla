------------------------------- MODULE Login -------------------------------
(***************************************************************************)
(* Logging in to an account: the loop that walks from whatever credentials *)
(* are left to a Minecraft access token (BackendState::login), the four    *)
(* calls around it (login_flow with and without an account,                *)
(* noninteractive_login_flow, get_minecraft_profile), the semaphore they   *)
(* share, the system's secret storage, the cache of profiles and the list  *)
(* of accounts.                                                            *)
(*                                                                         *)
(* The handler handles one message at a time; profile tasks are spawned    *)
(* and run beside it.  A step of a call lasts from one await to the next.  *)
(*                                                                         *)
(* Data: an account is a model value, and credentials are the set of the   *)
(* tokens that are there and have not expired (stage() clears the expired  *)
(* ones, and nothing else looks at them).  How many of the stored tokens   *)
(* are still good is chosen when they are read.  What a service answers,   *)
(* whether the user goes through with it, and whether the secret storage   *)
(* can be opened (found out once, in a OnceCell) are all free.             *)
(***************************************************************************)
EXTENDS Integers, Sequences

CONSTANTS
  Account,   \* the accounts, by uuid
  Handler,   \* the loop that handles messages, one after the other
  Profilers, \* the spawned tasks that want a profile (GetAccountSkin, -Capes)
  None,
  MaxCalls   \* bound: the messages handled and the tasks spawned in a behaviour

Caller == {Handler} \cup Profilers

VARIABLES
  login_semaphore,  \* who has the permit (the head), and who waits for it
  storage_opens,    \* can the secret storage be opened?
  secret_storage,   \* the credentials in it
  cached_profiles,  \* the accounts whose cached profile is less than 5 minutes old
  accounts,
  selected_account,
  call,             \* what each caller is doing
  calls             \* the messages handled and tasks spawned so far

vars == <<login_semaphore, storage_opens, secret_storage, cached_profiles, accounts, selected_account,
          call, calls>>

-----------------------------------------------------------------------------
(* The stages of a login, and the token each of them uses. *)

AuthStage == 0 .. 5
Initial == 0
AccessToken == 5
Uses == <<"msa_refresh", "msa_access", "xbl", "xsts", "access_token">>
Token == {Uses[i] : i \in 1 .. 5}

\* The furthest stage there is a token for.
stage(creds) == CHOOSE s \in AuthStage : /\ s = Initial \/ Uses[s] \in creds
                                         /\ \A t \in 1 .. 5 : Uses[t] \in creds => t <= s

\* What the loop makes of the stage `now` after the one before.
verdict(c, now) ==
  CASE c.last = None                             -> "go"
    [] c.last # None /\ now = c.last             -> "same"
    [] c.last # None /\ now > c.last             -> "go"
    [] c.last # None /\ now < c.last             -> IF c.allow_backwards THEN "go" ELSE "backwards"

\* bug: going backwards stays allowed after a step forwards
backwards_always(c, now) == c.allow_backwards
\* A step forwards settles it: from then on the login may not go back.
backwards_allowed(c, now) == c.allow_backwards /\ (c.last = None \/ now <= c.last)

\* What the credentials become when the service accepts the token of stage s:
\* Microsoft may or may not hand out a new refresh token.
Granted(creds, s) ==
  IF s \in {0, 1} THEN {(creds \ {"msa_refresh"}) \cup {"msa_access"} \cup r : r \in {{}, {"msa_refresh"}}}
                  ELSE {creds \cup {Uses[s + 1]}}

\* bug: a refused token is kept
refused_kept(creds, s) == creds
\* A refused token is dropped.
refused(creds, s) == creds \ {Uses[s]}

-----------------------------------------------------------------------------
Idle == [pc |-> "idle", kind |-> None, account |-> None, creds |-> {}, base |-> {}, last |-> None,
         using |-> None, allow_backwards |-> TRUE, aged |-> FALSE, error |-> None, profile |-> None]

Interactive == {"login", "add"}

\* LoginError, as far as it matters; "auth_flow" stands for both
\* LoginStageErrorBackwards and LoginStageErrorDidntChange.
Error == {"auth_flow", "service", "connection"}

\* None is nothing else: no account, no stage, no error, no kind of call.
ASSUME LoginAssumption ==
  /\ Handler \notin Profilers
  /\ None \notin Account /\ None \notin AuthStage /\ None \notin Error
  /\ None \notin {"login", "add", "silent", "profile"}
  /\ MaxCalls \in Nat

Call == [pc : {"idle", "acquire", "read", "check", "send", "answer", "fail", "store", "write", "post"},
         kind : {"login", "add", "silent", "profile", None}, account : Account \cup {None},
         creds : SUBSET Token, base : SUBSET Token, last : AuthStage \cup {None},
         using : AuthStage \cup {None}, allow_backwards : BOOLEAN, aged : BOOLEAN,
         error : Error \cup {None}, profile : Account \cup {None}]

Init ==
  /\ login_semaphore = <<>>
  /\ storage_opens \in BOOLEAN
  /\ secret_storage = [a \in Account |-> IF storage_opens THEN Token ELSE {}]
  /\ cached_profiles = {}
  /\ accounts \in SUBSET Account
  /\ selected_account \in accounts \cup {None}
  /\ call = [p \in Caller |-> Idle]
  /\ calls = 0

Stored(a) == IF a = None THEN {} ELSE secret_storage[a]

At(p, pc) == call[p].pc = pc
GoTo(p, pc) == call' = [call EXCEPT ![p].pc = pc]

\* The call is over, and its permit goes to the first that waits.
Return(p) ==
  /\ call' = [call EXCEPT ![p] = Idle]
  /\ login_semaphore' = Tail(login_semaphore)

\* The call has a profile and a token, and the permit is dropped; the handler
\* of SetAccountSkin and SetAccountCape goes on to use the token.
ReturnProfile(p) ==
  IF call[p].kind = "silent"
    THEN /\ call' = [call EXCEPT ![p] = [Idle EXCEPT !.pc = "post", !.account = call[p].account]]
         /\ login_semaphore' = Tail(login_semaphore)
    ELSE Return(p)

\* bug: a call that finds the permit taken goes on without it
permit_or_not(p) == TRUE
\* Nobody has the permit, and nobody waits for it.
permit(p) == login_semaphore = <<>>

\* A call begins, and takes the permit or waits for it.  get_minecraft_profile
\* returns at once when the profile is cached.
Begin(p, kind, a) ==
  /\ At(p, "idle")
  /\ calls < MaxCalls
  /\ calls' = calls + 1
  /\ IF kind = "profile" /\ a \in cached_profiles
       THEN UNCHANGED <<call, login_semaphore>>
       ELSE /\ call' = [call EXCEPT ![p] = [Idle EXCEPT !.pc = IF permit(p) THEN "read" ELSE "acquire",
                                                        !.kind = kind, !.account = a]]
            /\ login_semaphore' = Append(login_semaphore, p)
  /\ UNCHANGED <<storage_opens, secret_storage, cached_profiles, accounts, selected_account>>

\* Login, AddNewAccount and a launch; SetAccountSkin and SetAccountCape.  A
\* launch logs in to an account of the list, or to none when there is none.
HandleLogin ==
  \/ \E a \in Account, kind \in {"login", "silent"} : Begin(Handler, kind, a)
  \/ Begin(Handler, "add", None)

WantProfile(p) == \E a \in Account : Begin(p, "profile", a)

\* bug: a profile that was cached meanwhile is asked for again
needed_always(p) == TRUE
\* get_minecraft_profile has still no use for the cache.
still_needed(p) == ~ (call[p].kind = "profile" /\ call[p].account \in cached_profiles)

\* The permit arrives; get_minecraft_profile looks at the cache once more.
Acquired(p) ==
  /\ At(p, "acquire")
  /\ Head(login_semaphore) = p
  /\ IF still_needed(p) THEN GoTo(p, "read") /\ UNCHANGED login_semaphore ELSE Return(p)
  /\ UNCHANGED <<storage_opens, secret_storage, cached_profiles, accounts, selected_account, calls>>

\* The stored credentials are read: some tokens have expired, or they cannot
\* be read at all (or there are none).  A valid access token with a cached profile is enough for
\* login_flow and noninteractive_login_flow.
ReadCredentials(p) ==
  /\ At(p, "read")
  /\ storage_opens \/ call[p].kind = "add"
  /\ \E creds \in SUBSET Stored(call[p].account) :
       /\ creds = {} \/ Stored(call[p].account) \cap {"msa_refresh"} \subseteq creds
       /\ IF "access_token" \in creds /\ call[p].kind # "profile" /\ call[p].account \in cached_profiles
            THEN ReturnProfile(p)
            ELSE /\ call' = [call EXCEPT ![p].pc = "check", ![p].creds = creds,
                                         ![p].base = Stored(call[p].account)]
                 /\ UNCHANGED login_semaphore
  /\ UNCHANGED <<storage_opens, secret_storage, cached_profiles, accounts, selected_account, calls>>

\* The top of the loop: is this stage one the loop may go on with?
CheckStage(p) ==
  /\ At(p, "check")
  /\ LET c == call[p]
         now == stage(c.creds)
     IN IF verdict(c, now) = "go"
          THEN call' = [call EXCEPT ![p].pc = "send", ![p].last = now,
                                    ![p].allow_backwards = backwards_allowed(c, now)]
          ELSE call' = [call EXCEPT ![p].pc = "fail", ![p].error = "auth_flow"]
  /\ UNCHANGED <<login_semaphore, storage_opens, secret_storage, cached_profiles, accounts, selected_account, calls>>

\* The stage is computed a second time, and its request is sent.  With no
\* token left a call without a user is over (NeedsUserInteraction).
SendRequest(p) ==
  /\ At(p, "send")
  /\ LET now == stage(call[p].creds)
     IN IF now = Initial /\ call[p].kind \notin Interactive
          THEN Return(p)
          ELSE /\ call' = [call EXCEPT ![p].pc = "answer", ![p].using = now]
               /\ UNCHANGED login_semaphore
  /\ UNCHANGED <<storage_opens, secret_storage, cached_profiles, accounts, selected_account, calls>>

\* The user cancels: seen at the top of the loop, and while the browser is open.
Cancel(p) ==
  /\ call[p].kind \in Interactive
  /\ At(p, "check") \/ (At(p, "answer") /\ call[p].using = Initial)
  /\ Return(p)
  /\ UNCHANGED <<storage_opens, secret_storage, cached_profiles, accounts, selected_account, calls>>

\* The service accepts the token.
Accepted(p) ==
  /\ At(p, "answer")
  /\ IF call[p].using = AccessToken
       THEN \E a \in Account : call' = [call EXCEPT ![p].pc = "store", ![p].profile = a]
       ELSE \E creds \in Granted(call[p].creds, call[p].using) :
              call' = [call EXCEPT ![p].pc = "check", ![p].creds = creds]
  /\ UNCHANGED <<login_semaphore, storage_opens, secret_storage, cached_profiles, accounts, selected_account, calls>>

\* The service refuses the token: it is dropped and the loop tries the one
\* before, as long as the login has not made a step forwards.
Refused(p) ==
  /\ At(p, "answer")
  /\ LET c == call[p]
     IN IF c.allow_backwards /\ c.using # Initial
          THEN call' = [call EXCEPT ![p].pc = "check", ![p].creds = refused(c.creds, c.using)]
          ELSE call' = [call EXCEPT ![p].pc = "fail", ![p].error = "service"]
  /\ UNCHANGED <<login_semaphore, storage_opens, secret_storage, cached_profiles, accounts, selected_account, calls>>

\* The service cannot be reached: the login fails at once.
Unreachable(p) ==
  /\ At(p, "answer")
  /\ call' = [call EXCEPT ![p].pc = "fail", ![p].error = "connection"]
  /\ UNCHANGED <<login_semaphore, storage_opens, secret_storage, cached_profiles, accounts, selected_account, calls>>

\* A login that failed, for whatever reason, deletes the stored credentials,
\* if the secret storage lets it.
Fail(p) ==
  /\ At(p, "fail") /\ storage_opens
  /\ secret_storage' \in {secret_storage} \cup
       {[secret_storage EXCEPT ![a] = {}] : a \in {call[p].account} \ {None}}
  /\ Return(p)
  /\ UNCHANGED <<storage_opens, cached_profiles, accounts, selected_account, calls>>

\* The profile is cached; when it is not the one of the account that was
\* asked for, the credentials of that account are deleted.
Store(p) ==
  /\ At(p, "store") /\ storage_opens
  /\ cached_profiles' = cached_profiles \cup {call[p].profile}
  /\ secret_storage' \in {secret_storage} \cup
       {[secret_storage EXCEPT ![a] = {}] : a \in {call[p].account} \ {None, call[p].profile}}
  /\ call' = [call EXCEPT ![p].pc = "write"]
  /\ UNCHANGED <<login_semaphore, storage_opens, accounts, selected_account, calls>>

update_account_info(a, select) ==
  /\ accounts' = accounts \cup {a}
  /\ selected_account' = IF select THEN a ELSE selected_account

\* The account is entered in the list, and the credentials are written under
\* it, if the secret storage lets them.
WriteCredentials(p) ==
  /\ At(p, "write")
  /\ update_account_info(call[p].profile, call[p].kind \in Interactive)
  /\ \/ secret_storage' = [secret_storage EXCEPT ![call[p].profile] = call[p].creds]
     \/ UNCHANGED secret_storage
  /\ ReturnProfile(p)
  /\ UNCHANGED <<storage_opens, cached_profiles, calls>>

\* The skin or the cape is changed, or not: the answer holds a newer profile,
\* which is cached without the permit.
PostProfile(p) ==
  /\ At(p, "post")
  /\ cached_profiles' \in {cached_profiles, cached_profiles \cup {call[p].account}}
  /\ call' = [call EXCEPT ![p] = Idle]
  /\ UNCHANGED <<login_semaphore, storage_opens, secret_storage, accounts, selected_account, calls>>

\* The secret storage cannot be opened: the call is given up where it is.
NoStorage(p) ==
  /\ ~ storage_opens
  /\ \/ At(p, "read") /\ call[p].kind # "add"
     \/ At(p, "fail")
     \/ At(p, "store")
  /\ Return(p)
  /\ UNCHANGED <<storage_opens, secret_storage, cached_profiles, accounts, selected_account, calls>>

-----------------------------------------------------------------------------
(* The other messages about accounts, and time. *)

\* The selection once account a is gone.
selected_without(a) == IF selected_account = a THEN None ELSE selected_account

DeleteAccount(a) ==
  /\ At(Handler, "idle")
  /\ calls < MaxCalls
  /\ calls' = calls + 1
  /\ accounts' = accounts \ {a}
  /\ selected_account' = selected_without(a)
  /\ UNCHANGED <<login_semaphore, storage_opens, secret_storage, cached_profiles, call>>

AddOfflineAccount(a) ==
  /\ At(Handler, "idle")
  /\ calls < MaxCalls
  /\ calls' = calls + 1
  /\ update_account_info(a, TRUE)
  /\ UNCHANGED <<login_semaphore, storage_opens, secret_storage, cached_profiles, call>>

SelectAccount(a) ==
  /\ At(Handler, "idle")
  /\ calls < MaxCalls
  /\ calls' = calls + 1
  /\ a \in accounts /\ selected_account # a
  /\ selected_account' = a
  /\ UNCHANGED <<login_semaphore, storage_opens, secret_storage, cached_profiles, accounts, call>>

\* A token expires while a login is on its way.  A refresh token has no expiry.
Expire(p, t) ==
  /\ call[p].pc \in {"check", "send", "answer"}
  /\ t \in call[p].creds \ {"msa_refresh"}
  /\ call' = [call EXCEPT ![p].creds = @ \ {t}, ![p].aged = TRUE]
  /\ UNCHANGED <<login_semaphore, storage_opens, secret_storage, cached_profiles, accounts, selected_account, calls>>

\* A cached profile is five minutes old.
ExpireProfile(a) ==
  /\ a \in cached_profiles
  /\ cached_profiles' = cached_profiles \ {a}
  /\ UNCHANGED <<login_semaphore, storage_opens, secret_storage, accounts, selected_account, call, calls>>

-----------------------------------------------------------------------------
Advance(p) ==
  \/ Acquired(p) \/ ReadCredentials(p) \/ CheckStage(p) \/ SendRequest(p) \/ Cancel(p)
  \/ Accepted(p) \/ Refused(p) \/ Unreachable(p)
  \/ Fail(p) \/ Store(p) \/ WriteCredentials(p) \/ PostProfile(p) \/ NoStorage(p)

Next ==
  \/ HandleLogin
  \/ \E p \in Profilers : WantProfile(p)
  \/ \E p \in Caller : Advance(p) \/ \E t \in Token : Expire(p, t)
  \/ \E a \in Account : DeleteAccount(a) \/ AddOfflineAccount(a) \/ SelectAccount(a) \/ ExpireProfile(a)

\* A task that can go on does; a service answers or the connection fails; the
\* user who is asked to log in does so or cancels.
Fairness == \A p \in Caller : WF_vars(Advance(p))

Spec == Init /\ [][Next]_vars
FairSpec == Spec /\ Fairness

-----------------------------------------------------------------------------
(* Properties. *)

\* The callers that run a login: they work on credentials they have read.
LoggingIn == {p \in Caller : call[p].pc \in {"check", "send", "answer", "fail", "store"}}

\* Type correctness of the login state.
TypeOK ==
  /\ login_semaphore \in Seq(Caller)
  /\ storage_opens \in BOOLEAN
  /\ secret_storage \in [Account -> SUBSET Token]
  /\ cached_profiles \subseteq Account
  /\ accounts \subseteq Account
  /\ selected_account \in Account \cup {None}
  /\ call \in [Caller -> Call]
  /\ calls \in 0 .. MaxCalls

\* A login works on the credentials the storage holds: nobody else replaces or
\* deletes them between its read and its own write, so that no login writes
\* back tokens that another has already traded for newer ones (the semaphore,
\* and the way get_minecraft_profile takes it, backend_handler.rs:1743-1753).
CredentialsAreCurrent == \A p \in LoggingIn : call[p].base = Stored(call[p].account)

\* The two errors the code calls "most likely a bug with the auth flow"
\* (backend.rs:488, 493) only come up when a token expired while the login was
\* running: the loop itself, whatever the services answer and whatever tokens
\* it started from, never repeats a stage and never goes back after a step
\* forwards.
NoAuthFlowBug == \A p \in Caller : call[p].error = "auth_flow" => call[p].aged

\* A task that waited for another login does not log in again for a profile
\* the other has brought (backend_handler.rs:1748-1752).
NoRepeatedLogin ==
  [][\A p \in Profilers :
       ~ At(p, "read") /\ At(p, "read")' => call'[p].account \notin cached_profiles]_vars

\* Every call returns and gives the permit on: no answer of the services, no
\* failure of the storage and no expiry keeps a login in its loop.
EveryCallReturns == \A p \in Caller : call[p].pc # "idle" ~> call[p].pc = "idle"
=============================================================================
