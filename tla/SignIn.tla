------------------------------- MODULE SignIn -------------------------------
(***************************************************************************)
(* How a session signs in to an account and keeps, or loses, that login:    *)
(* crates/e6ircd/src/core/handler/sasl.rs, the parts of registration.rs and  *)
(* services.rs that wait for a credential check, admin.rs's ends of sessions *)
(* and the verdict epochs of core/state.rs.                                 *)
(*                                                                         *)
(* A check is queued by the session's shard, read by a task of the database  *)
(* worker and answered to the shard; meanwhile the store may change.  A      *)
(* change reaches the first shard (Input::Admin) and from there the others,  *)
(* each in its own time.  Revocations of issued credentials are announced by *)
(* the store to a listener that may be disconnected and then reads again     *)
(* what live sessions hold (account_authority.rs; how the listener finds     *)
(* account changes is AccountAuthority's subject, here they all arrive).     *)
(*                                                                         *)
(* One account, with a password and one issued credential (an app password   *)
(* or a personal access token).  The account a REGISTER creates is another.  *)
(* Labels, numerics, rate limits by address and the SASL payload's chunks    *)
(* are left out; "refused" stands for a wrong password, a throttled account  *)
(* and a store that cannot answer, which the core treats alike.             *)
(***************************************************************************)
EXTENDS Integers, Sequences, FiniteSets

CONSTANTS
    Conns,
    Shards,             \* 1 .. n; Input::Admin is handled by shard 1
    Home,               \* the shard of a session
    Welcomed,           \* the sessions that have registered before we look
    Does,               \* the commands a client sends
    Uses,               \* the credentials it has
    BeforeConnect,      \* Config::registration_before_connect
    MaxAttempts,        \* the credential budget of a connection
    MaxTrouble          \* bound: changes of the account, connections the listener loses

ASSUME SignInAssumption ==
    /\ IsFiniteSet(Conns)
    /\ Shards \subseteq Nat /\ 1 \in Shards /\ Home \in [Conns -> Shards]
    /\ Welcomed \subseteq Conns
    /\ Does \in [Conns -> SUBSET {"connect", "sasl", "identify", "logout", "register",
                              "nickserv", "quit"}]
    /\ Uses \in [Conns -> SUBSET {"password", "issued"}]
    /\ BeforeConnect \in BOOLEAN
    /\ MaxAttempts \in [Conns -> Nat] /\ MaxTrouble \in Nat

VARIABLES
    session,        \* Session: what its shard keeps
    login,          \* Session::login
    checks,         \* credential checks on their way to the store and back
    shard,          \* per shard: suspended_accounts, credential_epoch, credentials_ended
    inbox,          \* events shard 1 has broadcast to each other shard
    held,           \* SignedInCredentials: sessions the issued credential signed in
    store,          \* the account's rows
    due,            \* changes on their way to the core
    listener,       \* the revocation listener
    trouble         \* counted for the bound

vars == <<session, login, checks, shard, inbox, held, store, due, listener, trouble>>

NoLogin == [how |-> "none"]
Credentials == {"password", "issued"}
Ends == {"account", "issued", "every"}      \* EndedSignIns
Creations == {"Register", "NickServ"}       \* AccountOrigin: checks that create an account

\* A session that has connected and negotiates the sasl capability, and one that
\* is gone.
Opened ==
    [on |-> TRUE, registered |-> FALSE, negotiating |-> TRUE, named |-> FALSE,
     sasl |-> "Idle", saslVerify |-> FALSE, identify |-> FALSE, register |-> FALSE,
     epoch |-> 0, attempts |-> 0, awaits |-> 0, skipped |-> FALSE]
Closed == [Opened EXCEPT !.on = FALSE]

Init ==
    /\ session = [c \in Conns |->
         IF c \in Welcomed
         THEN [Opened EXCEPT !.negotiating = FALSE, !.named = TRUE, !.registered = TRUE]
         ELSE Opened]
    /\ login = [c \in Conns |-> NoLogin]
    /\ checks = {}
    /\ shard = [s \in Shards |-> [suspended |-> FALSE, epoch |-> 0, ended |-> [e \in Ends |-> 0]]]
    /\ inbox = [s \in Shards |-> <<>>]
    /\ held = 0
    /\ store = [password |-> 1, issued |-> TRUE, suspended |-> FALSE]
    /\ due = <<>>
    /\ listener = [state |-> "up", answered |-> {}, held |-> FALSE]
    /\ trouble = 0

-----------------------------------------------------------------------------
\* Logins

IsIssued(l) == l.how = "issued"

\* mutant: a login that ends or is replaced keeps its credential held
MutHeldWith(c, new) == held + (IF IsIssued(new) THEN 1 ELSE 0)

\* set_account and clear_account: the previous login lets go of its credential.
HeldWith(c, new) ==
    held + (IF IsIssued(new) THEN 1 ELSE 0) - (IF IsIssued(login[c]) THEN 1 ELSE 0)

SetLogin(c, new) ==
    /\ login' = [login EXCEPT ![c] = new]
    /\ held' = HeldWith(c, new)

\* close: the session is gone, its checks are answered to nobody.
Gone(ss, c) == [ss EXCEPT ![c] = Closed]

-----------------------------------------------------------------------------
\* maybe_complete_registration: held while a SASL check is in flight; an
\* unfinished exchange is aborted.

\* mutant: an exchange the client never finished holds registration open
MutReady(r) == r.on /\ ~r.registered /\ ~r.negotiating /\ r.named /\ r.sasl = "Idle"

Ready(r) == r.on /\ ~r.registered /\ ~r.negotiating /\ r.named /\ ~r.saslVerify

\* What becomes of the session r.  A server ban refuses it, and the requirement
\* of a login where its address is covered by one (refuse_unauthenticated).
Completed(r) ==
    IF ~Ready(r) THEN {r}
    ELSE LET idle == [r EXCEPT !.skipped = FALSE, !.sasl = IF @ = "Pending" THEN "Idle" ELSE @]
         IN  {[idle EXCEPT !.registered = TRUE], Closed}

\* The session becomes one of rs, with the login l unless it was closed.
Become(c, rs, l) ==
    \E r \in rs :
        /\ session' = [session EXCEPT ![c] = r]
        /\ SetLogin(c, IF r.on THEN l ELSE NoLogin)

Quietly == UNCHANGED <<shard, inbox, store, due, listener, trouble>>

-----------------------------------------------------------------------------
\* The client's commands

\* NICK and USER, CAP END
Named(c) ==
    /\ session[c].on /\ ~session[c].registered
    /\ Become(c, Completed([session[c] EXCEPT !.named = TRUE]), login[c])
    /\ UNCHANGED checks /\ Quietly

CapEnd(c) ==
    /\ session[c].on /\ ~session[c].registered /\ session[c].negotiating
    /\ Become(c, Completed([session[c] EXCEPT !.negotiating = FALSE]), login[c])
    /\ UNCHANGED checks /\ Quietly

\* cmd_authenticate, by the state it finds.  Nothing for a session that is
\* logged in.
Authenticate(c) == session[c].on /\ login[c] = NoLogin

AuthStart(c) ==
    /\ Authenticate(c) /\ session[c].sasl = "Idle"
    /\ session' = [session EXCEPT ![c].sasl = "Pending"]
    /\ UNCHANGED <<login, held, checks>> /\ Quietly

\* AUTHENTICATE *, or any line while the credential is checked
AuthAbort(c) ==
    /\ Authenticate(c) /\ session[c].sasl # "Idle"
    /\ session' = [session EXCEPT ![c].sasl = "Idle",
                                   ![c].awaits = IF session[c].sasl = "Verifying" THEN 0 ELSE @]
    /\ UNCHANGED <<login, held, checks>> /\ Quietly

\* credential_attempt_ok
Spend(c) == [session EXCEPT ![c].attempts = @ + 1]
OverBudget(c) == session[c].attempts >= MaxAttempts[c]

\* credential_check_queued; history: the client awaits this check's verdict
Queued(c) ==
    [Spend(c) EXCEPT ![c].epoch = shard[Home[c]].epoch, ![c].awaits = session[c].attempts + 1]

Check(c, origin, cred) ==
    [conn |-> c, origin |-> origin, cred |-> cred, version |-> store.password,
     attempt |-> session[c].attempts + 1, state |-> "queued"]

\* mutant: a check of an attempt that was aborted does not count
MutOutstanding(c) == session[c].sasl = "Verifying" \/ session[c].identify

\* One credential check at a time per connection.
Outstanding(c) == session[c].saslVerify \/ session[c].identify

\* A command that spends an attempt: the budget is spent and the session closed;
\* nothing was queued (a malformed payload, a full queue) and it is failed; or the
\* check k is queued and it is r.
Attempt(c, failed, r, k) ==
    \/ /\ OverBudget(c)
       /\ session' = Gone(session, c)
       /\ SetLogin(c, NoLogin)
       /\ UNCHANGED checks
    \/ /\ ~OverBudget(c)
       /\ session' = [session EXCEPT ![c] = failed]
       /\ UNCHANGED <<login, held, checks>>
    \/ /\ ~OverBudget(c)
       /\ session' = [session EXCEPT ![c] = r]
       /\ checks' = checks \cup {k}
       /\ UNCHANGED <<login, held>>

\* The payload that completes the exchange.
AuthPayload(c, cred) ==
    /\ Authenticate(c) /\ session[c].sasl = "Pending"
    /\ \/ /\ Outstanding(c)
          /\ session' = [session EXCEPT ![c].sasl = "Idle"]
          /\ UNCHANGED <<login, held, checks>>
       \/ /\ ~Outstanding(c)
          /\ Attempt(c, [Spend(c)[c] EXCEPT !.sasl = "Idle"],
                     [Queued(c)[c] EXCEPT !.sasl = "Verifying", !.saslVerify = TRUE],
                     Check(c, "Sasl", cred))
    /\ Quietly

\* nickserv_identify
Identify(c, cred) ==
    /\ session[c].on /\ session[c].registered /\ ~Outstanding(c)
    /\ Attempt(c, Spend(c)[c], [Queued(c)[c] EXCEPT !.identify = TRUE],
               Check(c, "Identify", cred))
    /\ Quietly

\* NickServ LOGOUT
Logout(c) ==
    /\ session[c].on /\ session[c].registered /\ login[c] # NoLogin
    /\ SetLogin(c, NoLogin)
    /\ UNCHANGED <<session, checks>> /\ Quietly

\* cmd_register: one at a time, and of a connection that has registered unless the
\* configuration allows it before.
Register(c) ==
    /\ session[c].on /\ (session[c].registered \/ BeforeConnect)
    /\ login[c] = NoLogin /\ ~session[c].register
    /\ Attempt(c, Spend(c)[c], [Spend(c)[c] EXCEPT !.register = TRUE],
               Check(c, "Register", "password"))
    /\ Quietly

\* nickserv_register: nothing marks it as under way.
NickServRegister(c) ==
    /\ session[c].on /\ session[c].registered /\ login[c] = NoLogin
    /\ Attempt(c, Spend(c)[c], Spend(c)[c], Check(c, "NickServ", "password"))
    /\ Quietly

\* QUIT, a lost connection, a token that expired
Close(c) ==
    /\ session[c].on
    /\ session' = Gone(session, c)
    /\ SetLogin(c, NoLogin)
    /\ UNCHANGED checks /\ Quietly

-----------------------------------------------------------------------------
\* The database worker: reads the store, then answers

Stands(l) ==
    CASE l.how = "none" -> TRUE
      [] l.how = "created" -> TRUE
      [] l.how = "password" -> l.version = store.password /\ ~store.suspended
      [] l.how = "issued" -> store.issued /\ ~store.suspended

\* handle_verify, handle_create_account: verified, or refused for any reason.
CheckRead(k) ==
    /\ k \in checks /\ k.state = "queued"
    /\ \E verdict \in {"verified", "refused"} :
         /\ verdict = "verified" /\ k.origin \notin Creations =>
                Stands([how |-> k.cred, version |-> k.version])
         /\ checks' = (checks \ {k}) \cup {[k EXCEPT !.state = verdict]}
    /\ UNCHANGED <<session, login, held>> /\ Quietly

\* stale_verdict
Stale(k) ==
    LET s == shard[Home[k.conn]]
        since(e) == s.ended[e] > session[k.conn].epoch
    IN  since("account") \/ (k.cred = "issued" /\ since("issued")) \/ since("every")

Denied(k) == k.state = "verified" /\ (shard[Home[k.conn]].suspended \/ Stale(k))

\* What db_reply leaves of the session, before registration is considered: the
\* outstanding mark goes, and an answer for an abandoned attempt changes no more.
Answered(r, origin) ==
    IF origin = "Sasl"
    THEN [r EXCEPT !.saslVerify = FALSE, !.awaits = 0, !.sasl = IF @ = "Verifying" THEN "Idle" ELSE @]
    ELSE [r EXCEPT !.identify = FALSE, !.awaits = 0]

NewLogin(k) == [how |-> k.cred, version |-> k.version, attempt |-> k.attempt]
Abandoned(k) == k.origin = "Sasl" /\ session[k.conn].sasl # "Verifying"

\* db_reply of a credential verdict.  Both early returns, of a denial and of a
\* verdict for an abandoned attempt, leave registration where it was.
VerdictLands(k) ==
    LET c == k.conn
        r == Answered(session[c], k.origin)
        early == Denied(k) \/ (k.state = "verified" /\ Abandoned(k))
    IN  /\ k \in checks /\ k.state # "queued" /\ k.origin \notin Creations
        /\ checks' = checks \ {k}
        /\ IF ~session[c].on THEN UNCHANGED <<session, login, held>>
           ELSE IF early
           THEN Become(c, {[r EXCEPT !.skipped = TRUE]}, login[c])
           ELSE LET l == IF k.state = "verified" THEN NewLogin(k) ELSE login[c]
                IN  Become(c, Completed(r), l)
        /\ UNCHANGED <<shard, inbox, store, due, listener, trouble>>

\* db_reply of AccountCreated, AccountExists or AccountRegisterUnavailable
CreationLands(k) ==
    LET c == k.conn
    IN  /\ k \in checks /\ k.state # "queued" /\ k.origin \in Creations
        /\ checks' = checks \ {k}
        /\ IF ~session[c].on THEN UNCHANGED <<session, login, held>>
           ELSE /\ session' = [session EXCEPT ![c].register = @ /\ k.origin # "Register"]
                /\ IF k.state = "verified" THEN SetLogin(c, [how |-> "created"])
                   ELSE UNCHANGED <<login, held>>
        /\ Quietly

-----------------------------------------------------------------------------
\* Changes of the account, committed to the store

Commit(change) ==
    /\ trouble < MaxTrouble
    /\ trouble' = trouble + 1
    /\ \/ change = "password" /\ store' = [store EXCEPT !.password = @ + 1]
       \/ change = "suspend" /\ ~store.suspended /\ store' = [store EXCEPT !.suspended = TRUE]
       \/ change = "reactivate" /\ store.suspended /\ store' = [store EXCEPT !.suspended = FALSE]
       \/ change = "revoke" /\ store.issued /\ store' = [store EXCEPT !.issued = FALSE]
    \* a revocation is heard while the listener is connected
    /\ due' = IF change = "revoke" /\ listener.state = "down" THEN due ELSE Append(due, change)
    /\ UNCHANGED <<session, login, checks, shard, inbox, held, listener>>

\* The sessions of a shard with a check outstanding
Waiting(s) == {c \in Conns : Home[c] = s /\ session[c].on /\ Outstanding(c)}

\* mutant: those the newest outstanding check predates
MutRemembered(s) ==
    [e \in Ends |->
        IF Waiting(s) = {} \/ \E c \in Waiting(s) : shard[s].ended[e] <= session[c].epoch
        THEN 0 ELSE shard[s].ended[e]]

\* credentials_ended, of what an outstanding check predates
Remembered(s) ==
    [e \in Ends |->
        IF \E c \in Waiting(s) : shard[s].ended[e] > session[c].epoch THEN shard[s].ended[e] ELSE 0]

\* end_credentials: a change is remembered for as long as a check that predates
\* it is outstanding on this shard.
EndCredentials(s, ended) ==
    LET epoch == shard[s].epoch + 1
    IN  [shard EXCEPT ![s].epoch = epoch,
                      ![s].ended = [Remembered(s) EXCEPT
                          ![ended] = IF Waiting(s) = {} THEN 0 ELSE epoch]]

\* disconnect_account, apply_credential_sessions_ended: every session of this
\* shard whose login it is, registered or not.
Struck(s, hows) == {c \in Conns : Home[c] = s /\ session[c].on /\ login[c].how \in hows}

CloseAll(cs) ==
    /\ session' = [c \in Conns |-> IF c \in cs THEN Gone(session, c)[c] ELSE session[c]]
    /\ login' = [c \in Conns |-> IF c \in cs THEN NoLogin ELSE login[c]]
    /\ held' = held - Cardinality({c \in cs : IsIssued(login[c])})

\* apply_account_suspension, apply_account_sessions_ended,
\* apply_credential_sessions_ended
ApplyAt(s, change) ==
    \/ /\ change = "suspend"
       /\ shard' = [shard EXCEPT ![s].suspended = TRUE]
       /\ CloseAll(Struck(s, Credentials))
    \/ /\ change = "reactivate"
       /\ shard' = [shard EXCEPT ![s].suspended = FALSE]
       /\ UNCHANGED <<session, login, held>>
    \/ /\ change = "password"
       /\ shard' = EndCredentials(s, "account")
       /\ CloseAll(Struck(s, Credentials))
    \/ /\ change = "revoke"
       /\ shard' = EndCredentials(s, "issued")
       /\ CloseAll(Struck(s, {"issued"}))

\* Input::Admin on shard 1, which broadcasts what it applied.
Apply ==
    /\ due # <<>>
    /\ due' = Tail(due)
    /\ ApplyAt(1, Head(due))
    /\ inbox' = [s \in Shards |-> IF s = 1 THEN inbox[s] ELSE Append(inbox[s], Head(due))]
    /\ UNCHANGED <<checks, store, listener, trouble>>

Applied(s) ==
    /\ inbox[s] # <<>>
    /\ inbox' = [inbox EXCEPT ![s] = Tail(@)]
    /\ ApplyAt(s, Head(inbox[s]))
    /\ UNCHANGED <<checks, store, due, listener, trouble>>

-----------------------------------------------------------------------------
\* The revocation listener

Listening(state) == [listener EXCEPT !.state = state]
ByListener == UNCHANGED <<session, login, checks, inbox, held, store>>

Lose ==
    /\ listener.state # "down" /\ trouble < MaxTrouble
    /\ trouble' = trouble + 1
    /\ listener' = [state |-> "down", answered |-> {}, held |-> FALSE]
    /\ UNCHANGED <<shard, due>> /\ ByListener

Reconnect ==
    /\ listener.state = "down"
    /\ listener' = Listening("refusing")
    /\ UNCHANGED <<shard, due, trouble>> /\ ByListener

\* refuse_verdicts_in_flight on shard s; the listener waits for every shard.
RefuseVerdicts(s) ==
    /\ listener.state = "refusing" /\ s \notin listener.answered
    /\ shard' = EndCredentials(s, "every")
    /\ listener' = [listener EXCEPT !.answered = @ \cup {s}]
    /\ UNCHANGED <<due, trouble>> /\ ByListener

EveryShardAnswered == listener.answered = Shards

\* resynchronize_credentials: which issued credentials live sessions hold, then
\* which of them are still stored.
ReadHeld ==
    /\ listener.state = "refusing" /\ EveryShardAnswered
    /\ listener' = [listener EXCEPT !.state = "held", !.held = held > 0]
    /\ UNCHANGED <<shard, due, trouble>> /\ ByListener

ReadStored ==
    /\ listener.state = "held"
    /\ due' = IF listener.held /\ ~store.issued THEN Append(due, "revoke") ELSE due
    /\ listener' = [state |-> "up", answered |-> {}, held |-> FALSE]
    /\ UNCHANGED <<shard, trouble>> /\ ByListener

-----------------------------------------------------------------------------
Client(c) ==
    \/ "connect" \in Does[c] /\ (Named(c) \/ CapEnd(c))
    \/ "sasl" \in Does[c] /\ (AuthStart(c) \/ AuthAbort(c))
    \/ "logout" \in Does[c] /\ Logout(c)
    \/ "register" \in Does[c] /\ Register(c)
    \/ "nickserv" \in Does[c] /\ NickServRegister(c)
    \/ "quit" \in Does[c] /\ Close(c)
    \/ \E cred \in Uses[c] :
         \/ "sasl" \in Does[c] /\ AuthPayload(c, cred)
         \/ "identify" \in Does[c] /\ Identify(c, cred)

Next ==
    \/ \E c \in Conns : Client(c)
    \/ \E k \in checks : CheckRead(k) \/ VerdictLands(k) \/ CreationLands(k)
    \/ \E change \in {"password", "suspend", "reactivate", "revoke"} : Commit(change)
    \/ Apply
    \/ \E s \in Shards : Applied(s) \/ RefuseVerdicts(s)
    \/ Lose \/ Reconnect \/ ReadHeld \/ ReadStored

Spec == Init /\ [][Next]_vars

-----------------------------------------------------------------------------
\* On its way to the shard of c.
Coming(c, change) ==
    \E q \in {due, inbox[Home[c]]} : \E i \in 1 .. Len(q) : q[i] = change

\* A session whose login no longer stands in the store is one whose end is on its
\* way: a credential verdict that crossed the change never outlives it
\* (stale_verdict, the suspension gate, refuse_verdicts_in_flight).
LoginStands ==
    \A c \in Conns : login[c].how \in Credentials =>
        /\ store.suspended => Coming(c, "suspend")
        /\ login[c].how = "password" /\ login[c].version < store.password => Coming(c, "password")
        /\ login[c].how = "issued" /\ ~store.issued =>
               \/ Coming(c, "revoke")
               \/ listener.state \in {"down", "refusing"}
               \/ listener.state = "held" /\ listener.held

\* The credentials the listener asks about are those live sessions signed in
\* with, over every way a login begins, is replaced and ends.
HeldIsExact == held = Cardinality({c \in Conns : session[c].on /\ IsIssued(login[c])})

\* A verdict signs in only for the check the client made last and did not abandon
\* (sasl_verify survives an abort so that verdicts cannot be crossed).
VerdictAnswersItsAttempt ==
    [][\A c \in Conns :
         login'[c] # login[c] /\ login'[c].how \in Credentials =>
             login'[c].attempt = session[c].awaits]_vars

\* Has given all that registration needs, and no check is in flight.
Waits(r) == r.on /\ ~r.registered /\ ~r.negotiating /\ r.named /\ ~r.saslVerify

\* A session that has given all that registration needs, with no check in
\* flight, is registered or refused: whatever it waited for, the verdict
\* re-invokes maybe_complete_registration.
RegistrationCompletes == \A c \in Conns : ~Waits(session[c])

\* It is, unless its verdict left db_reply by one of the early returns.
CompletesUnlessDropped == \A c \in Conns : Waits(session[c]) => session[c].skipped
=============================================================================
