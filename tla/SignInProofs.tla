---------------------------- MODULE SignInProofs ----------------------------
(***************************************************************************)
(* Signing in, for any number of sessions, shards and changes of the        *)
(* account: a login that no longer stands has its end on the way, a verdict *)
(* answers the attempt the client awaits, and the credentials the listener  *)
(* asks about are those live sessions hold.                                 *)
(***************************************************************************)
EXTENDS SignIn, FiniteSetTheorems, SequenceTheorems, TLAPS

Changes == {"password", "suspend", "reactivate", "revoke"}

Session ==
    [on : BOOLEAN, registered : BOOLEAN, negotiating : BOOLEAN, named : BOOLEAN,
     sasl : {"Idle", "Pending", "Verifying"}, saslVerify : BOOLEAN, identify : BOOLEAN,
     register : BOOLEAN, epoch : Nat, attempts : Nat, awaits : Nat, skipped : BOOLEAN]

Created == [how |-> "created"]
Logins == {NoLogin, Created} \cup [how : Credentials, version : Nat, attempt : Nat]

CredentialCheck ==
    [conn : Conns, origin : {"Sasl", "Identify"} \cup Creations, cred : Credentials,
     version : Nat, attempt : Nat, state : {"queued", "verified", "refused"}]

ShardState == [suspended : BOOLEAN, epoch : Nat, ended : [Ends -> Nat]]

ListenerState ==
    [state : {"up", "down", "refusing", "held"}, answered : SUBSET Shards, held : BOOLEAN]

SessionsTyped == session \in [Conns -> Session] /\ login \in [Conns -> Logins] /\ held \in Int

ChangesTyped ==
    /\ shard \in [Shards -> ShardState]
    /\ due \in Seq(Changes) /\ inbox \in [Shards -> Seq(Changes)]
    /\ store \in [password : Nat, issued : BOOLEAN, suspended : BOOLEAN]
    /\ listener \in ListenerState

TypeOK == SessionsTyped /\ checks \subseteq CredentialCheck /\ ChangesTyped

-----------------------------------------------------------------------------
\* What holds of a live session by itself.
Sound(r) ==
    /\ r.sasl = "Verifying" => r.saslVerify
    /\ ~(r.saslVerify /\ r.identify)
    /\ Waits(r) => r.skipped

\* Every live session, and one that is gone has no login.
SessionsSound ==
    \A c \in Conns : IF session[c].on THEN Sound(session[c]) ELSE login[c] = NoLogin

\* A credential check k of a live session: it is marked, and it is what the
\* client awaits unless it was abandoned.
Marked(k) ==
    /\ k.origin = "Sasl" => session[k.conn].saslVerify
    /\ k.origin = "Identify" => session[k.conn].identify
    /\ k.origin = "Identify" \/ session[k.conn].sasl = "Verifying" =>
           session[k.conn].awaits = k.attempt

Live(k) == k.origin \notin Creations /\ session[k.conn].on

ChecksMarked ==
    /\ \A k \in checks : Live(k) => Marked(k)
    /\ \A k, m \in checks : Live(k) /\ Live(m) /\ k.conn = m.conn => k = m

EpochsBehind == \A c \in Conns : session[c].on => session[c].epoch <= shard[Home[c]].epoch

\* A change that will end the login of c, or by which its verdict is stale.
Since(c, e) == shard[Home[c]].ended[e] > session[c].epoch

\* A verified check that no longer stands is stale, or the change is coming.
VerifiedStands ==
    \A k \in checks : Live(k) /\ k.state = "verified" =>
        /\ k.cred = "password" /\ k.version < store.password =>
               Coming(k.conn, "password") \/ Since(k.conn, "account")
        /\ k.cred = "issued" /\ ~store.issued =>
               \/ Coming(k.conn, "revoke") \/ Since(k.conn, "issued") \/ Since(k.conn, "every")
               \/ listener.state = "down"
               \/ listener.state = "refusing" /\ Home[k.conn] \notin listener.answered

DownForgets == listener.state = "down" => listener.answered = {}

\* The last word of a queue on suspension.
Suspends(q) ==
    \E i \in 1 .. Len(q) : q[i] = "suspend" /\ \A j \in 1 .. Len(q) : q[j] = "reactivate" => j < i
NeverReactivates(q) == \A i \in 1 .. Len(q) : q[i] # "reactivate"

\* A suspended account is suspended at a shard once it has heard everything.
SuspensionHeard(s) ==
    \/ Suspends(due)
    \/ NeverReactivates(due) /\ Suspends(inbox[s])
    \/ NeverReactivates(due) /\ NeverReactivates(inbox[s]) /\ shard[s].suspended

SuspensionOK ==
    /\ store.suspended => \A s \in Shards : SuspensionHeard(s)
    /\ inbox[1] = <<>>
    /\ \A c \in Conns : login[c].how \in Credentials => ~shard[Home[c]].suspended

\* A login a change has ended, other than by suspension.
LoginHolds ==
    \A c \in Conns :
        /\ login[c].how = "password" /\ login[c].version < store.password => Coming(c, "password")
        /\ login[c].how = "issued" /\ ~store.issued =>
               \/ Coming(c, "revoke")
               \/ listener.state \in {"down", "refusing"}
               \/ listener.state = "held" /\ listener.held

\* What the sessions, their logins and their checks keep; what the changes on
\* their way keep.
SessionsInv ==
    SessionsTyped /\ checks \subseteq CredentialCheck /\ SessionsSound /\ HeldIsExact /\ ChecksMarked

ChangesInv ==
    /\ ChangesTyped /\ EpochsBehind /\ VerifiedStands /\ DownForgets /\ SuspensionOK
    /\ LoginHolds

SignInInv == SessionsInv /\ ChangesInv

-----------------------------------------------------------------------------
\* The sessions that hold the issued credential.

Holders(f) == {c \in Conns : IsIssued(f[c])}

LEMMA HoldersFinite ==
    ASSUME NEW f
    PROVE  IsFiniteSet(Holders(f)) /\ Cardinality(Holders(f)) \in Nat
<1>1. Holders(f) \in SUBSET Conns
  BY DEF Holders
<1>2. IsFiniteSet(Holders(f))
  BY <1>1, FS_Subset, SignInAssumption
<1> QED
  BY <1>2, FS_CardinalityType

One(l) == IF IsIssued(l) THEN 1 ELSE 0

LEMMA HoldersChange ==
    ASSUME NEW f \in [Conns -> Logins], NEW c \in Conns, NEW l \in Logins
    PROVE  Cardinality(Holders([f EXCEPT ![c] = l])) = Cardinality(Holders(f)) + One(l) - One(f[c])
<1> DEFINE g == [f EXCEPT ![c] = l]
           R == Holders(f) \ {c}
<1>1. IsFiniteSet(R)
  BY HoldersFinite, FS_RemoveElement
<1>2. c \notin R /\ IsFiniteSet(R \cup {c}) /\ Cardinality(R \cup {c}) = Cardinality(R) + 1
  BY <1>1, FS_AddElement
<1>3. Cardinality(R) \in Nat
  BY <1>1, FS_CardinalityType
<1>4. Holders(g) = IF IsIssued(l) THEN R \cup {c} ELSE R
  BY DEF Holders
<1>5. Holders(f) = IF IsIssued(f[c]) THEN R \cup {c} ELSE R
  BY DEF Holders
<1>6. Cardinality(Holders(g)) = Cardinality(R) + One(l)
  BY <1>2, <1>3, <1>4 DEF One
<1>7. Cardinality(Holders(f)) = Cardinality(R) + One(f[c])
  BY <1>2, <1>3, <1>5 DEF One
<1> HIDE DEF g, R
<1>8. One(l) \in Nat /\ One(f[c]) \in Nat
  BY DEF One
<1> QED
  BY <1>3, <1>6, <1>7, <1>8 DEF g

\* A session that is gone holds nothing, so the count is that of the logins.
LEMMA HeldCount ==
    ASSUME SessionsSound
    PROVE  HeldIsExact <=> held = Cardinality(Holders(login))
<1>1. {c \in Conns : session[c].on /\ IsIssued(login[c])} = Holders(login)
  BY DEF SessionsSound, Holders, IsIssued, NoLogin
<1> QED
  BY <1>1 DEF HeldIsExact

LEMMA HeldCountNext ==
    ASSUME SessionsSound'
    PROVE  HeldIsExact' <=> held' = Cardinality(Holders(login'))
<1>1. {c \in Conns : session'[c].on /\ IsIssued(login'[c])} = Holders(login')
  BY DEF SessionsSound, Holders, IsIssued, NoLogin
<1> QED
  BY <1>1 DEF HeldIsExact

\* set_account and clear_account.
LEMMA SetLoginCounts ==
    ASSUME SessionsInv, SessionsSound', NEW c \in Conns, NEW l \in Logins, SetLogin(c, l)
    PROVE  HeldIsExact' /\ login' \in [Conns -> Logins] /\ held' \in Int
<1>1. held = Cardinality(Holders(login)) /\ login \in [Conns -> Logins]
  BY HeldCount DEF SessionsInv, SessionsTyped
<1>2. login' = [login EXCEPT ![c] = l] /\ held' = held + One(l) - One(login[c])
  BY DEF SetLogin, HeldWith, One
<1>3. held' = Cardinality(Holders(login'))
  BY <1>1, <1>2, HoldersChange
<1>4. held' \in Int
  BY <1>3, HoldersFinite
<1> QED
  BY <1>1, <1>2, <1>3, <1>4, HeldCountNext

\* disconnect_account and apply_credential_sessions_ended.
LEMMA CloseAllCounts ==
    ASSUME SessionsInv, SessionsSound', NEW cs \in SUBSET Conns, CloseAll(cs)
    PROVE  HeldIsExact' /\ login' \in [Conns -> Logins] /\ held' \in Int
<1>1. held = Cardinality(Holders(login)) /\ login \in [Conns -> Logins]
  BY HeldCount DEF SessionsInv, SessionsTyped
<1>2. /\ login' = [c \in Conns |-> IF c \in cs THEN NoLogin ELSE login[c]]
      /\ held' = held - Cardinality({c \in cs : IsIssued(login[c])})
  BY DEF CloseAll
<1>3. {c \in cs : IsIssued(login[c])} = Holders(login) \cap cs
  BY DEF Holders
<1>4. Holders(login') = Holders(login) \ cs
  BY <1>2 DEF Holders, IsIssued, NoLogin
<1>5. Cardinality(Holders(login) \ cs) = Cardinality(Holders(login)) - Cardinality(Holders(login) \cap cs)
  BY HoldersFinite, FS_Difference
<1>6. held' = Cardinality(Holders(login'))
  BY <1>1, <1>2, <1>3, <1>4, <1>5
<1>7. held' \in Int
  BY <1>6, HoldersFinite
<1>8. login' \in [Conns -> Logins]
  BY <1>1, <1>2 DEF Logins
<1> QED
  BY <1>6, <1>7, <1>8, HeldCountNext

-----------------------------------------------------------------------------
\* The sessions and their checks.

\* x is what is left of the session r by a step that queues no credential check
\* for it and answers none.
Kept(r, x) ==
    x.on =>
        /\ r.on /\ x.saslVerify = r.saslVerify /\ x.identify = r.identify /\ x.epoch = r.epoch
        /\ x.sasl = "Verifying" => r.sasl = "Verifying"
        /\ x.identify \/ x.sasl = "Verifying" => x.awaits = r.awaits

LEMMA ClosedSession == Closed \in Session /\ ~Closed.on /\ Opened \in Session
  BY DEF Closed, Opened, Session

\* maybe_complete_registration leaves a session that is closed, or does not
\* wait for registration.
LEMMA CompletedSession ==
    ASSUME NEW r \in Session, NEW x \in Completed(r)
    PROVE  /\ x \in Session
           /\ r.on => Kept(r, x)
           /\ x.on => /\ r.on /\ x.saslVerify = r.saslVerify /\ x.identify = r.identify
                      /\ x.epoch = r.epoch
                      /\ x.sasl = r.sasl \/ (r.sasl = "Pending" /\ x.sasl = "Idle")
                      /\ x.awaits = r.awaits /\ ~Waits(x)
<1>1. CASE ~Ready(r)
  <2>1. x = r
    BY <1>1 DEF Completed
  <2> QED
    BY <1>1, <2>1 DEF Ready, Waits, Kept
<1>2. CASE Ready(r) /\ x = Closed
  BY <1>2, ClosedSession DEF Kept
<1>3. CASE Ready(r) /\ x # Closed
  <2> DEFINE idle == [r EXCEPT !.skipped = FALSE, !.sasl = IF @ = "Pending" THEN "Idle" ELSE @]
  <2>1. x = [idle EXCEPT !.registered = TRUE]
    BY <1>3 DEF Completed
  <2>2. idle \in Session /\ x \in Session
    BY <2>1 DEF Session
  <2>3. /\ x.saslVerify = r.saslVerify /\ x.identify = r.identify /\ x.epoch = r.epoch
        /\ x.awaits = r.awaits /\ x.on = r.on /\ x.registered
        /\ x.sasl = IF r.sasl = "Pending" THEN "Idle" ELSE r.sasl
    BY <2>1 DEF Session
  <2> QED
    BY <1>3, <2>2, <2>3 DEF Ready, Waits, Kept
<1> QED
  BY <1>1, <1>2, <1>3

\* What such steps leave alone, as far as a change of the account is concerned:
\* nobody signs in, no session begins, no verdict is given.
CalmLogins ==
    \A d \in Conns : login'[d] = login[d] \/ login'[d].how \notin Credentials
CalmEpochs ==
    \A d \in Conns : session'[d].on =>
        session[d].on /\ session'[d].epoch \in {session[d].epoch, shard[Home[d]].epoch}
CalmChecks ==
    \A k \in checks' : Live(k)' /\ k.state = "verified" =>
        k \in checks /\ Live(k) /\ session'[k.conn].epoch = session[k.conn].epoch
Calm == CalmLogins /\ CalmEpochs /\ CalmChecks

LEMMA SessionFacts ==
    ASSUME SessionsInv, NEW c \in Conns
    PROVE  /\ session[c] \in Session /\ login[c] \in Logins
           /\ session[c].on => Sound(session[c])
  BY DEF SessionsInv, SessionsTyped, SessionsSound

LEMMA LoginKinds ==
    NoLogin \in Logins /\ Created \in Logins /\ NoLogin.how \notin Credentials
    /\ Created.how \notin Credentials
  BY DEF NoLogin, Created, Logins, Credentials

\* A step that gives one session another state and login, and adds no
\* credential check.
LEMMA MoveSessions ==
    ASSUME SessionsInv, NEW c \in Conns, NEW x \in Session,
           NEW l \in {login[c], NoLogin, Created},
           session' = [session EXCEPT ![c] = x], SetLogin(c, l),
           Kept(session[c], x), x.on => Sound(x), ~x.on => l = NoLogin,
           \A k \in checks' : k \in checks \/ (k \in CredentialCheck /\ k.origin \in Creations)
    PROVE  SessionsInv' /\ Calm
<1>1. session \in [Conns -> Session] /\ login \in [Conns -> Logins] /\ checks \subseteq CredentialCheck
  BY DEF SessionsInv, SessionsTyped
<1>2. /\ session' \in [Conns -> Session] /\ session'[c] = x
      /\ \A d \in Conns \ {c} : session'[d] = session[d]
  BY <1>1
<1>3. login' = [login EXCEPT ![c] = l] /\ l \in Logins
  BY <1>1, LoginKinds DEF SetLogin
<1>4. SessionsSound'
  BY <1>1, <1>2, <1>3 DEF SessionsInv, SessionsSound
<1>5. SessionsTyped' /\ HeldIsExact'
  BY <1>2, <1>3, <1>4, SetLoginCounts DEF SessionsTyped
<1>6. \A d \in Conns : Kept(session[d], session'[d])
  BY <1>2 DEF Kept
<1>7. checks' \subseteq CredentialCheck
  BY <1>1
<1>8. ChecksMarked'
  <2>1. ASSUME NEW k \in checks', Live(k)'
        PROVE  k \in checks /\ Live(k) /\ Kept(session[k.conn], session'[k.conn])
    <3>1. k \in checks /\ k.origin \notin Creations /\ session'[k.conn].on /\ k.conn \in Conns
      BY <1>1, <2>1 DEF Live, CredentialCheck
    <3>2. session[k.conn].on
      BY <1>6, <3>1 DEF Kept
    <3> QED
      BY <1>6, <3>1, <3>2 DEF Live
  <2>2. ASSUME NEW k \in checks', Live(k)'
        PROVE  Marked(k)'
    <3>1. k \in checks /\ Live(k) /\ Kept(session[k.conn], session'[k.conn]) /\ session'[k.conn].on
      BY <2>1, <2>2 DEF Live
    <3>2. Marked(k)
      BY <3>1 DEF SessionsInv, ChecksMarked
    <3> QED
      BY <3>1, <3>2 DEF Marked, Kept
  <2>3. ASSUME NEW k \in checks', NEW m \in checks', Live(k)', Live(m)', k.conn = m.conn
        PROVE  k = m
    <3>1. k \in checks /\ Live(k) /\ m \in checks /\ Live(m)
      BY <2>1, <2>3
    <3> QED
      BY <2>3, <3>1 DEF SessionsInv, ChecksMarked
  <2> QED
    BY <2>2, <2>3 DEF ChecksMarked
<1>9. CalmLogins
  BY <1>1, <1>3, LoginKinds DEF CalmLogins
<1>10. CalmEpochs
  BY <1>6 DEF CalmEpochs, Kept
<1>11. CalmChecks
  <2> SUFFICES ASSUME NEW k \in checks', Live(k)', k.state = "verified"
               PROVE  k \in checks /\ Live(k) /\ session'[k.conn].epoch = session[k.conn].epoch
    BY DEF CalmChecks
  <2>1. k \in checks /\ k.origin \notin Creations /\ session'[k.conn].on /\ k.conn \in Conns
    BY <1>1 DEF Live, CredentialCheck
  <2>2. Kept(session[k.conn], session'[k.conn])
    BY <1>6, <2>1
  <2> QED
    BY <2>1, <2>2 DEF Live, Kept
<1> QED
  BY <1>4, <1>5, <1>7, <1>8, <1>9, <1>10, <1>11 DEF SessionsInv, Calm

\* The same, of a step that leaves the logins alone.
LEMMA MoveSession ==
    ASSUME SessionsInv, NEW c \in Conns, NEW x \in Session,
           session' = [session EXCEPT ![c] = x], UNCHANGED <<login, held>>,
           Kept(session[c], x), x.on /\ Sound(x),
           \A k \in checks' : k \in checks \/ (k \in CredentialCheck /\ k.origin \in Creations)
    PROVE  SessionsInv' /\ Calm
<1>1. login \in [Conns -> Logins] /\ held \in Int
  BY DEF SessionsInv, SessionsTyped
<1>2. login' = [login EXCEPT ![c] = login[c]] /\ login[c] \in Logins
  BY <1>1
<1>3. held' = HeldWith(c, login[c])
  BY <1>1 DEF HeldWith
<1>4. SetLogin(c, login[c])
  BY <1>2, <1>3 DEF SetLogin
<1> QED
  BY <1>4, MoveSessions

\* The steps of a client that queue no credential check.
LEMMA NamedKeeps ==
    ASSUME SessionsInv, NEW c \in Conns, Named(c) \/ CapEnd(c)
    PROVE  SessionsInv' /\ Calm
<1>1. session[c] \in Session /\ session[c].on /\ Sound(session[c]) /\ UNCHANGED checks
  BY SessionFacts DEF Named, CapEnd
<1>2. PICK r \in Session : /\ r.on /\ Kept(session[c], r) /\ Become(c, Completed(r), login[c])
                           /\ r.sasl = session[c].sasl /\ r.saslVerify = session[c].saslVerify
                           /\ r.identify = session[c].identify
  <2>1. CASE Named(c)
    <3> DEFINE r == [session[c] EXCEPT !.named = TRUE]
    <3>1. Become(c, Completed(r), login[c])
      BY <2>1 DEF Named
    <3>2. /\ r \in Session /\ r.on /\ Kept(session[c], r)
          /\ r.sasl = session[c].sasl /\ r.saslVerify = session[c].saslVerify
          /\ r.identify = session[c].identify
      BY <1>1 DEF Session, Kept
    <3> QED
      BY <3>1, <3>2
  <2>2. CASE CapEnd(c)
    <3> DEFINE r == [session[c] EXCEPT !.negotiating = FALSE]
    <3>1. Become(c, Completed(r), login[c])
      BY <2>2 DEF CapEnd
    <3>2. /\ r \in Session /\ r.on /\ Kept(session[c], r)
          /\ r.sasl = session[c].sasl /\ r.saslVerify = session[c].saslVerify
          /\ r.identify = session[c].identify
      BY <1>1 DEF Session, Kept
    <3> QED
      BY <3>1, <3>2
  <2> QED
    BY <2>1, <2>2
<1>3. PICK x \in Completed(r) : /\ session' = [session EXCEPT ![c] = x]
                                /\ SetLogin(c, IF x.on THEN login[c] ELSE NoLogin)
  BY <1>2 DEF Become
<1>4. /\ x \in Session
      /\ x.on => /\ r.on /\ x.saslVerify = r.saslVerify /\ x.identify = r.identify
                 /\ x.epoch = r.epoch
                 /\ x.sasl = r.sasl \/ (r.sasl = "Pending" /\ x.sasl = "Idle")
                 /\ x.awaits = r.awaits /\ ~Waits(x)
  BY CompletedSession
<1>5. Kept(session[c], x)
  BY <1>2, <1>4 DEF Kept
<1>6. x.on => Sound(x)
  BY <1>1, <1>2, <1>4 DEF Sound
<1>7. \A k \in checks' : k \in checks \/ (k \in CredentialCheck /\ k.origin \in Creations)
  BY <1>1
<1>8. CASE x.on
  BY <1>3, <1>4, <1>5, <1>6, <1>7, <1>8, MoveSessions
<1>9. CASE ~x.on
  BY <1>3, <1>4, <1>5, <1>7, <1>9, MoveSessions
<1> QED
  BY <1>8, <1>9

LEMMA AuthStartKeeps ==
    ASSUME SessionsInv, NEW c \in Conns, AuthStart(c) \/ AuthAbort(c)
    PROVE  SessionsInv' /\ Calm
<1>1. /\ session[c] \in Session /\ session[c].on /\ Sound(session[c])
      /\ UNCHANGED <<login, held, checks>>
  BY SessionFacts DEF AuthStart, AuthAbort, Authenticate
<1>2. CASE AuthStart(c)
  <2> DEFINE x == [session[c] EXCEPT !.sasl = "Pending"]
  <2>1. session' = [session EXCEPT ![c] = x]
    BY <1>2 DEF AuthStart
  <2>2. x \in Session /\ Kept(session[c], x) /\ x.on /\ Sound(x)
    BY <1>1 DEF Session, Kept, Sound, Waits
  <2> QED
    BY <1>1, <2>1, <2>2, MoveSession
<1>3. CASE AuthAbort(c)
  <2> DEFINE x == [session[c] EXCEPT !.sasl = "Idle",
                                     !.awaits = IF session[c].sasl = "Verifying" THEN 0 ELSE @]
  <2>1. session' = [session EXCEPT ![c] = x]
    BY <1>3 DEF AuthAbort
  <2>2. /\ x.sasl = "Idle" /\ x.saslVerify = session[c].saslVerify /\ x.identify = session[c].identify
        /\ x.on = session[c].on /\ x.epoch = session[c].epoch /\ x.skipped = session[c].skipped
        /\ x.awaits = IF session[c].sasl = "Verifying" THEN 0 ELSE session[c].awaits
        /\ Waits(x) = Waits(session[c])
        /\ x \in Session
    BY <1>1 DEF Session, Waits
  <2>3. Kept(session[c], x) /\ x.on /\ Sound(x)
    BY <1>1, <2>2 DEF Kept, Sound
  <2> QED
    BY <1>1, <2>1, <2>2, <2>3, MoveSession
<1> QED
  BY <1>2, <1>3

LEMMA LogoutKeeps ==
    ASSUME SessionsInv, NEW c \in Conns, Logout(c)
    PROVE  SessionsInv' /\ Calm
<1>1. /\ session[c] \in Session /\ session[c].on /\ Sound(session[c])
      /\ UNCHANGED <<session, checks>> /\ SetLogin(c, NoLogin)
  BY SessionFacts DEF Logout
<1>2. session' = [session EXCEPT ![c] = session[c]]
  BY <1>1 DEF SessionsInv, SessionsTyped
<1>3. Kept(session[c], session[c])
  BY DEF Kept
<1> QED
  BY <1>1, <1>2, <1>3, MoveSessions

\* close
LEMMA GoneKeeps ==
    ASSUME SessionsInv, NEW c \in Conns, session' = Gone(session, c), SetLogin(c, NoLogin),
           \A k \in checks' : k \in checks \/ (k \in CredentialCheck /\ k.origin \in Creations)
    PROVE  SessionsInv' /\ Calm
<1>1. session' = [session EXCEPT ![c] = Closed]
  BY DEF Gone
<1>2. Kept(session[c], Closed)
  BY ClosedSession DEF Kept
<1> QED
  BY <1>1, <1>2, ClosedSession, MoveSessions

\* An attempt that was spent in vain.
LEMMA SpentSession ==
    ASSUME SessionsInv, NEW c \in Conns, session[c].on
    PROVE  /\ Spend(c)[c] \in Session /\ Spend(c)[c].on /\ Sound(Spend(c)[c])
           /\ Kept(session[c], Spend(c)[c])
           /\ Spend(c)[c] = [session[c] EXCEPT !.attempts = @ + 1]
<1>1. session[c] \in Session /\ Sound(session[c]) /\ session \in [Conns -> Session]
  BY SessionFacts DEF SessionsInv, SessionsTyped
<1>2. Spend(c)[c] = [session[c] EXCEPT !.attempts = @ + 1]
  BY <1>1 DEF Spend
<1> DEFINE x == [session[c] EXCEPT !.attempts = @ + 1]
<1>3. x \in Session /\ x.on /\ Sound(x) /\ Kept(session[c], x)
  BY <1>1 DEF Session, Sound, Waits, Kept
<1> QED
  BY <1>2, <1>3

\* Without an outstanding mark a session has no credential check.
LEMMA NoneOutstanding ==
    ASSUME SessionsInv, NEW c \in Conns, ~Outstanding(c)
    PROVE  \A k \in checks : Live(k) => k.conn # c
<1> SUFFICES ASSUME NEW k \in checks, Live(k), k.conn = c
             PROVE  FALSE
  OBVIOUS
<1>1. Marked(k) /\ k.origin \in {"Sasl", "Identify"}
  BY DEF SessionsInv, ChecksMarked, CredentialCheck, Live
<1> QED
  BY <1>1 DEF Marked, Outstanding

\* credential_check_queued: the one check of a session that had none.
LEMMA AskSession ==
    ASSUME SessionsInv, NEW c \in Conns, ~Outstanding(c), session[c].on,
           NEW x \in Session, x.on, Sound(x), x.epoch = shard[Home[c]].epoch,
           session' = [session EXCEPT ![c] = x], UNCHANGED <<login, held>>,
           NEW k \in CredentialCheck, k.conn = c, k.state = "queued", checks' = checks \cup {k},
           x.awaits = k.attempt,
           \/ k.origin = "Sasl" /\ x.saslVerify
           \/ k.origin = "Identify" /\ x.identify
    PROVE  SessionsInv' /\ Calm
<1>1. /\ session \in [Conns -> Session] /\ login \in [Conns -> Logins] /\ held \in Int
      /\ checks \subseteq CredentialCheck /\ SessionsSound /\ HeldIsExact
  BY DEF SessionsInv, SessionsTyped
<1>2. /\ session' \in [Conns -> Session] /\ session'[c] = x
      /\ \A d \in Conns \ {c} : session'[d] = session[d]
  BY <1>1
<1>3. SessionsSound'
  BY <1>1, <1>2 DEF SessionsSound
<1>4. SessionsTyped' /\ checks' \subseteq CredentialCheck
  BY <1>1, <1>2 DEF SessionsTyped
<1>5. HeldIsExact'
  <2>1. held = Cardinality(Holders(login))
    BY <1>1, HeldCount
  <2> QED
    BY <1>3, <2>1, HeldCountNext
<1>6. ASSUME NEW m \in checks', Live(m)', m # k
      PROVE  m \in checks /\ Live(m) /\ m.conn # c /\ session'[m.conn] = session[m.conn]
  <2>1. m \in checks /\ m.conn \in Conns
    BY <1>1, <1>6 DEF CredentialCheck
  <2>2. Live(m)
    BY <1>2, <1>6, <2>1 DEF Live
  <2> QED
    BY <1>2, <2>1, <2>2, NoneOutstanding
<1>7. ChecksMarked'
  <2>1. ASSUME NEW m \in checks', Live(m)'
        PROVE  Marked(m)'
    <3>1. CASE m = k
      BY <1>2, <3>1 DEF Marked
    <3>2. CASE m # k
      <4>1. Marked(m) /\ session'[m.conn] = session[m.conn]
        BY <1>6, <2>1, <3>2 DEF SessionsInv, ChecksMarked
      <4> QED
        BY <4>1 DEF Marked
    <3> QED
      BY <3>1, <3>2
  <2>2. ASSUME NEW m \in checks', NEW n \in checks', Live(m)', Live(n)', m.conn = n.conn
        PROVE  m = n
    BY <1>6, <2>2 DEF SessionsInv, ChecksMarked
  <2> QED
    BY <2>1, <2>2 DEF ChecksMarked
<1>8. CalmLogins /\ CalmEpochs
  BY <1>2 DEF CalmLogins, CalmEpochs
<1>9. CalmChecks
  BY <1>6 DEF CalmChecks
<1> QED
  BY <1>3, <1>4, <1>5, <1>7, <1>8, <1>9 DEF SessionsInv, Calm

\* The session as credential_check_queued leaves it.
LEMMA QueuedSession ==
    ASSUME SessionsInv, NEW c \in Conns, session[c].on, shard[Home[c]].epoch \in Nat
    PROVE  /\ Queued(c)[c] \in Session
           /\ Queued(c)[c] = [session[c] EXCEPT !.attempts = @ + 1, !.epoch = shard[Home[c]].epoch,
                                                !.awaits = session[c].attempts + 1]
<1>1. session[c] \in Session /\ session \in [Conns -> Session]
  BY SessionFacts DEF SessionsInv, SessionsTyped
<1>2. Queued(c)[c] = [session[c] EXCEPT !.attempts = @ + 1, !.epoch = shard[Home[c]].epoch,
                                        !.awaits = session[c].attempts + 1]
  BY <1>1 DEF Queued, Spend
<1>3. [session[c] EXCEPT !.attempts = @ + 1, !.epoch = shard[Home[c]].epoch,
                         !.awaits = session[c].attempts + 1] \in Session
  <2>1. \A r \in Session, e \in Nat :
            [r EXCEPT !.attempts = @ + 1, !.epoch = e, !.awaits = r.attempts + 1] \in Session
    <3>1. \A r \in Session, e, n \in Nat :
              [r EXCEPT !.attempts = n, !.epoch = e, !.awaits = n] \in Session
      BY DEF Session
    <3>2. \A r \in Session : r.attempts + 1 \in Nat
      BY DEF Session
    <3> QED
      BY <3>1, <3>2
  <2> QED
    BY <1>1, <2>1
<1> QED
  BY <1>2, <1>3

\* Its fields: what credential_check_queued writes, and what it leaves alone.
LEMMA QueuedFields ==
    ASSUME SessionsInv, NEW c \in Conns, session[c].on, shard[Home[c]].epoch \in Nat,
           NEW q, q = Queued(c)[c]
    PROVE  /\ q \in Session /\ q.on
           /\ q.registered = session[c].registered /\ q.sasl = session[c].sasl
           /\ q.saslVerify = session[c].saslVerify /\ q.identify = session[c].identify
           /\ q.epoch = shard[Home[c]].epoch /\ q.awaits = session[c].attempts + 1
<1>1. PICK r \in Session : r = session[c]
  BY SessionFacts
<1>2. PICK e : e = shard[Home[c]].epoch
  OBVIOUS
<1>3. PICK n : n = session[c].attempts + 1
  OBVIOUS
<1>4. q \in Session /\ q = [r EXCEPT !.attempts = @ + 1, !.epoch = e, !.awaits = n]
  BY <1>1, <1>2, <1>3, QueuedSession
<1>5. /\ q.on = r.on /\ q.registered = r.registered /\ q.sasl = r.sasl
      /\ q.saslVerify = r.saslVerify /\ q.identify = r.identify
  BY <1>4 DEF Session
<1>6. q.epoch = e /\ q.awaits = n
  BY <1>4 DEF Session
<1> QED
  BY <1>1, <1>2, <1>3, <1>4, <1>5, <1>6

LEMMA CheckType ==
    ASSUME SessionsInv, NEW c \in Conns, store.password \in Nat, NEW cred \in Credentials,
           NEW origin \in {"Sasl", "Identify"} \cup Creations
    PROVE  /\ Check(c, origin, cred) \in CredentialCheck
           /\ Check(c, origin, cred).conn = c /\ Check(c, origin, cred).origin = origin
           /\ Check(c, origin, cred).state = "queued"
           /\ Check(c, origin, cred).attempt = session[c].attempts + 1
<1>1. session[c].attempts \in Nat
  BY SessionFacts DEF Session
<1> QED
  BY <1>1 DEF Check, CredentialCheck

\* REGISTER, and NickServ's, whose session x keeps what a spent attempt leaves.
LEMMA CreateKeeps ==
    ASSUME SessionsInv, store.password \in Nat, NEW c \in Conns, session[c].on,
           NEW x \in Session, x.on /\ Sound(x) /\ Kept(session[c], x), NEW origin \in Creations,
           Attempt(c, Spend(c)[c], x, Check(c, origin, "password"))
    PROVE  SessionsInv' /\ Calm
<1> DEFINE k == Check(c, origin, "password")
<1>1. /\ Spend(c)[c] \in Session /\ Spend(c)[c].on /\ Sound(Spend(c)[c])
      /\ Kept(session[c], Spend(c)[c])
  BY SpentSession
<1>2. k \in CredentialCheck /\ k.origin \in Creations
  <2>1. "password" \in Credentials /\ origin \in {"Sasl", "Identify"} \cup Creations
    BY DEF Credentials
  <2> QED
    BY <2>1, CheckType
<1>3. Attempt(c, Spend(c)[c], x, k)
  OBVIOUS
<1> HIDE DEF k
<1>4. CASE session' = Gone(session, c) /\ SetLogin(c, NoLogin) /\ UNCHANGED checks
  BY <1>4, GoneKeeps
<1>5. CASE session' = [session EXCEPT ![c] = Spend(c)[c]] /\ UNCHANGED <<login, held, checks>>
  BY <1>1, <1>5, MoveSession
<1>6. CASE /\ session' = [session EXCEPT ![c] = x] /\ checks' = checks \cup {k}
           /\ UNCHANGED <<login, held>>
  <2>1. \A m \in checks' : m \in checks \/ (m \in CredentialCheck /\ m.origin \in Creations)
    BY <1>2, <1>6
  <2> QED
    BY <1>6, <2>1, MoveSession
<1> QED
  BY <1>3, <1>4, <1>5, <1>6 DEF Attempt

LEMMA RegisterKeeps ==
    ASSUME SessionsInv, store.password \in Nat, NEW c \in Conns, Register(c) \/ NickServRegister(c)
    PROVE  SessionsInv' /\ Calm
<1> DEFINE x == [Spend(c)[c] EXCEPT !.register = TRUE]
<1>1. session[c].on /\ {"Register", "NickServ"} = Creations
  BY DEF Register, NickServRegister, Creations
<1>2. /\ Spend(c)[c] \in Session /\ Spend(c)[c].on /\ Sound(Spend(c)[c])
      /\ Kept(session[c], Spend(c)[c])
  BY <1>1, SpentSession
<1>3. x \in Session /\ x.on /\ Sound(x) /\ Kept(session[c], x)
  BY <1>2 DEF Session, Sound, Waits, Kept
<1>4. CASE Register(c)
  <2>1. Attempt(c, Spend(c)[c], x, Check(c, "Register", "password"))
    BY <1>4 DEF Register
  <2> HIDE DEF x
  <2> QED
    BY <1>1, <1>3, <2>1, CreateKeeps
<1>5. CASE NickServRegister(c)
  <2>1. Attempt(c, Spend(c)[c], Spend(c)[c], Check(c, "NickServ", "password"))
    BY <1>5 DEF NickServRegister
  <2> QED
    BY <1>1, <1>2, <2>1, CreateKeeps
<1> QED
  BY <1>4, <1>5

LEMMA IdentifyKeeps ==
    ASSUME SessionsInv, store.password \in Nat, NEW c \in Conns, shard[Home[c]].epoch \in Nat,
           NEW cred \in Credentials, Identify(c, cred)
    PROVE  SessionsInv' /\ Calm
<1> DEFINE x == [Queued(c)[c] EXCEPT !.identify = TRUE]
           k == Check(c, "Identify", cred)
<1>1. /\ session[c].on /\ session[c].registered /\ ~Outstanding(c)
      /\ Attempt(c, Spend(c)[c], x, k)
  BY DEF Identify
<1>2. /\ Spend(c)[c] \in Session /\ Spend(c)[c].on /\ Sound(Spend(c)[c])
      /\ Kept(session[c], Spend(c)[c])
  BY <1>1, SpentSession
<1>3. /\ x \in Session /\ x.on /\ x.registered /\ x.identify /\ ~x.saslVerify
      /\ x.sasl = session[c].sasl /\ x.epoch = shard[Home[c]].epoch
      /\ x.awaits = session[c].attempts + 1
  <2>1. PICK q \in Session : q = Queued(c)[c]
    BY <1>1, QueuedSession
  <2>2. /\ q.on /\ q.registered = session[c].registered /\ q.sasl = session[c].sasl
        /\ q.saslVerify = session[c].saslVerify
        /\ q.epoch = shard[Home[c]].epoch /\ q.awaits = session[c].attempts + 1
    BY <1>1, <2>1, QueuedFields
  <2>3. session[c].registered /\ ~session[c].saslVerify
    BY <1>1 DEF Outstanding
  <2> QED
    BY <2>1, <2>2, <2>3 DEF Session
<1>4. Sound(x)
  BY <1>1, <1>3, SessionFacts DEF Sound, Waits, Outstanding
<1>5. /\ k \in CredentialCheck /\ k.origin = "Identify" /\ k.conn = c /\ k.state = "queued"
      /\ k.attempt = session[c].attempts + 1
  BY CheckType
<1> HIDE DEF x, k
<1>6. CASE session' = Gone(session, c) /\ SetLogin(c, NoLogin) /\ UNCHANGED checks
  BY <1>6, GoneKeeps
<1>7. CASE session' = [session EXCEPT ![c] = Spend(c)[c]] /\ UNCHANGED <<login, held, checks>>
  BY <1>2, <1>7, MoveSession
<1>8. CASE /\ session' = [session EXCEPT ![c] = x] /\ checks' = checks \cup {k}
           /\ UNCHANGED <<login, held>>
  BY <1>1, <1>3, <1>4, <1>5, <1>8, AskSession
<1> QED
  BY <1>1, <1>6, <1>7, <1>8 DEF Attempt

LEMMA AuthPayloadKeeps ==
    ASSUME SessionsInv, store.password \in Nat, NEW c \in Conns, shard[Home[c]].epoch \in Nat,
           NEW cred \in Credentials, AuthPayload(c, cred)
    PROVE  SessionsInv' /\ Calm
<1> DEFINE f == [Spend(c)[c] EXCEPT !.sasl = "Idle"]
           x == [Queued(c)[c] EXCEPT !.sasl = "Verifying", !.saslVerify = TRUE]
           k == Check(c, "Sasl", cred)
<1>1. session[c].on /\ session[c].sasl = "Pending" /\ session[c] \in Session /\ Sound(session[c])
  BY SessionFacts DEF AuthPayload, Authenticate
<1>2. CASE Outstanding(c)
  <2> DEFINE y == [session[c] EXCEPT !.sasl = "Idle"]
  <2>1. session' = [session EXCEPT ![c] = y] /\ UNCHANGED <<login, held, checks>>
    BY <1>2 DEF AuthPayload
  <2>2. y \in Session /\ y.on /\ Sound(y) /\ Kept(session[c], y)
    BY <1>1 DEF Session, Sound, Waits, Kept
  <2> QED
    BY <2>1, <2>2, MoveSession
<1>3. CASE ~Outstanding(c)
  <2>1. Attempt(c, f, x, k)
    BY <1>3 DEF AuthPayload
  <2>2. f \in Session /\ f.on /\ Sound(f) /\ Kept(session[c], f)
    <3>1. /\ Spend(c)[c] \in Session /\ Spend(c)[c].on /\ Sound(Spend(c)[c])
          /\ Kept(session[c], Spend(c)[c])
      BY <1>1, SpentSession
    <3> QED
      BY <3>1 DEF Session, Sound, Waits, Kept
  <2>3. /\ x \in Session /\ x.on /\ x.saslVerify /\ ~x.identify
        /\ x.epoch = shard[Home[c]].epoch /\ x.awaits = session[c].attempts + 1
    <3>1. PICK q \in Session : q = Queued(c)[c]
      BY <1>1, QueuedSession
    <3>2. /\ q.on /\ q.identify = session[c].identify
          /\ q.epoch = shard[Home[c]].epoch /\ q.awaits = session[c].attempts + 1
      BY <1>1, <3>1, QueuedFields
    <3>3. ~session[c].identify
      BY <1>3 DEF Outstanding
    <3> QED
      BY <3>1, <3>2, <3>3 DEF Session
  <2>4. Sound(x)
    BY <2>3 DEF Sound, Waits
  <2>5. /\ k \in CredentialCheck /\ k.origin = "Sasl" /\ k.conn = c /\ k.state = "queued"
        /\ k.attempt = session[c].attempts + 1
    BY CheckType
  <2> HIDE DEF f, x, k
  <2>6. CASE session' = Gone(session, c) /\ SetLogin(c, NoLogin) /\ UNCHANGED checks
    BY <2>6, GoneKeeps
  <2>7. CASE session' = [session EXCEPT ![c] = f] /\ UNCHANGED <<login, held, checks>>
    BY <2>2, <2>7, MoveSession
  <2>8. CASE /\ session' = [session EXCEPT ![c] = x] /\ checks' = checks \cup {k}
             /\ UNCHANGED <<login, held>>
    BY <1>1, <1>3, <2>3, <2>4, <2>5, <2>8, AskSession
  <2> QED
    BY <2>1, <2>6, <2>7, <2>8 DEF Attempt
<1> QED
  BY <1>2, <1>3

LEMMA ClientKeeps ==
    ASSUME SessionsInv, store.password \in Nat, NEW c \in Conns, shard[Home[c]].epoch \in Nat,
           Client(c)
    PROVE  SessionsInv' /\ Calm /\ Quietly
<1>1. Uses[c] \subseteq Credentials
  BY SignInAssumption DEF Credentials
<1>2. Quietly
  BY DEF Client, Named, CapEnd, AuthStart, AuthAbort, Logout, Register, NickServRegister, Close, AuthPayload, Identify
<1>3. CASE Close(c)
  BY <1>3, GoneKeeps DEF Close
<1> QED
  BY <1>1, <1>2, <1>3, NamedKeeps, AuthStartKeeps, LogoutKeeps, RegisterKeeps, AuthPayloadKeeps,
     IdentifyKeeps DEF Client

\* Steps that leave the sessions alone and answer checks to nobody.
LEMMA FewerChecks ==
    ASSUME SessionsInv, UNCHANGED <<session, login, held>>, checks' \subseteq checks
    PROVE  SessionsInv' /\ Calm
<1>1. SessionsTyped' /\ SessionsSound' /\ HeldIsExact' /\ checks' \subseteq CredentialCheck
  BY DEF SessionsInv, SessionsTyped, SessionsSound, HeldIsExact
<1>2. \A k \in checks' : k \in checks /\ (Live(k)' <=> Live(k)) /\ (Marked(k)' <=> Marked(k))
  BY DEF Live, Marked
<1>3. ChecksMarked'
  BY <1>2 DEF SessionsInv, ChecksMarked
<1>4. Calm
  BY <1>2 DEF Calm, CalmLogins, CalmEpochs, CalmChecks, Live
<1> QED
  BY <1>1, <1>3, <1>4 DEF SessionsInv

LEMMA CheckReadKeeps ==
    ASSUME SessionsInv, NEW k \in checks, CheckRead(k)
    PROVE  /\ SessionsInv' /\ CalmLogins /\ CalmEpochs
           /\ \A m \in checks' : Live(m)' /\ m.state = "verified" /\ m \notin checks =>
                  /\ Live(k) /\ m.conn = k.conn /\ m.cred = k.cred /\ m.version = k.version
                  /\ Stands([how |-> k.cred, version |-> k.version])
           /\ \A m \in checks : Live(m)' <=> Live(m)
<1>1. PICK v \in {"verified", "refused"} :
          /\ checks' = (checks \ {k}) \cup {[k EXCEPT !.state = v]}
          /\ v = "verified" /\ k.origin \notin Creations =>
                Stands([how |-> k.cred, version |-> k.version])
  BY DEF CheckRead
<1>2. UNCHANGED <<session, login, held>> /\ k \in CredentialCheck
  BY DEF CheckRead, SessionsInv
<1>3. PICK n : n = [k EXCEPT !.state = v]
  OBVIOUS
<1>4. /\ n \in CredentialCheck /\ n.conn = k.conn /\ n.origin = k.origin /\ n.attempt = k.attempt
      /\ n.cred = k.cred /\ n.version = k.version /\ n.state = v
  BY <1>2, <1>3 DEF CredentialCheck
<1>5. checks' = (checks \ {k}) \cup {n}
  BY <1>1, <1>3
<1>6. SessionsTyped' /\ SessionsSound' /\ HeldIsExact' /\ checks' \subseteq CredentialCheck
  BY <1>2, <1>4, <1>5 DEF SessionsInv, SessionsTyped, SessionsSound, HeldIsExact
<1>7. \A m : (Live(m)' <=> Live(m)) /\ (Marked(m)' <=> Marked(m))
  BY <1>2 DEF Live, Marked
<1>8. (Live(n) <=> Live(k)) /\ (Marked(n) <=> Marked(k))
  BY <1>4 DEF Live, Marked
<1>9. ChecksMarked'
  BY <1>4, <1>5, <1>7, <1>8 DEF SessionsInv, ChecksMarked
<1>10. CalmLogins /\ CalmEpochs
  BY <1>2 DEF CalmLogins, CalmEpochs
<1>11. ASSUME NEW m \in checks', Live(m)', m.state = "verified", m \notin checks
       PROVE  /\ Live(k) /\ m.conn = k.conn /\ m.cred = k.cred /\ m.version = k.version
              /\ Stands([how |-> k.cred, version |-> k.version])
  <2>1. m = n
    BY <1>5, <1>11
  <2> QED
    BY <1>1, <1>4, <1>7, <1>8, <1>11, <2>1 DEF Live
<1> QED
  BY <1>6, <1>7, <1>9, <1>10, <1>11 DEF SessionsInv

\* A verdict answers the one credential check of its session.
LEMMA AnswerSession ==
    ASSUME SessionsInv, NEW k \in checks, Live(k), checks' = checks \ {k},
           NEW x \in Session, NEW l \in Logins, session' = [session EXCEPT ![k.conn] = x],
           SetLogin(k.conn, l), x.on => Sound(x) /\ x.epoch = session[k.conn].epoch,
           ~x.on => l = NoLogin
    PROVE  SessionsInv' /\ CalmEpochs /\ CalmChecks
<1>1. /\ session \in [Conns -> Session] /\ login \in [Conns -> Logins]
      /\ checks \subseteq CredentialCheck /\ k.conn \in Conns /\ session[k.conn].on
  BY DEF SessionsInv, SessionsTyped, CredentialCheck, Live
<1>2. /\ session' \in [Conns -> Session] /\ session'[k.conn] = x
      /\ \A d \in Conns \ {k.conn} : session'[d] = session[d]
  BY <1>1
<1>3. login' = [login EXCEPT ![k.conn] = l]
  BY DEF SetLogin
<1>4. SessionsSound'
  BY <1>1, <1>2, <1>3 DEF SessionsInv, SessionsSound
<1>5. SessionsTyped' /\ HeldIsExact'
  BY <1>1, <1>2, <1>4, SetLoginCounts DEF SessionsTyped
<1>6. ASSUME NEW m \in checks', Live(m)'
      PROVE  m \in checks /\ Live(m) /\ session'[m.conn] = session[m.conn]
  <2>1. m \in checks /\ m # k /\ m.conn \in Conns
    BY <1>1 DEF CredentialCheck
  <2>2. CASE m.conn = k.conn
    <3>1. Live(m)
      BY <1>1, <1>6, <2>2 DEF Live
    <3> QED
      BY <2>1, <2>2, <3>1 DEF SessionsInv, ChecksMarked
  <2>3. CASE m.conn # k.conn
    BY <1>2, <1>6, <2>1, <2>3 DEF Live
  <2> QED
    BY <2>2, <2>3
<1>7. ChecksMarked'
  <2>1. ASSUME NEW m \in checks', Live(m)'
        PROVE  Marked(m)'
    <3>1. Marked(m) /\ session'[m.conn] = session[m.conn]
      BY <1>6, <2>1 DEF SessionsInv, ChecksMarked
    <3> QED
      BY <3>1 DEF Marked
  <2>2. ASSUME NEW m \in checks', NEW n \in checks', Live(m)', Live(n)', m.conn = n.conn
        PROVE  m = n
    BY <1>6, <2>2 DEF SessionsInv, ChecksMarked
  <2> QED
    BY <2>1, <2>2 DEF ChecksMarked
<1>8. CalmEpochs
  BY <1>1, <1>2 DEF CalmEpochs
<1>9. CalmChecks
  BY <1>6 DEF CalmChecks
<1>10. checks' \subseteq CredentialCheck
  BY <1>1
<1> QED
  BY <1>4, <1>5, <1>7, <1>8, <1>9, <1>10 DEF SessionsInv

\* The verdict k signs its session in.
SignsIn(k) ==
    /\ session[k.conn].on /\ k.state = "verified" /\ ~Denied(k) /\ ~Abandoned(k)
    /\ login' = [login EXCEPT ![k.conn] = NewLogin(k)]

LEMMA VerdictKeeps ==
    ASSUME SessionsInv, NEW k \in checks, VerdictLands(k)
    PROVE  /\ SessionsInv' /\ CalmEpochs /\ CalmChecks
           /\ CalmLogins \/ (Live(k) /\ SignsIn(k))
<1> DEFINE c == k.conn
           r == Answered(session[c], k.origin)
           early == Denied(k) \/ (k.state = "verified" /\ Abandoned(k))
           l == IF k.state = "verified" THEN NewLogin(k) ELSE login[c]
<1>1. checks' = checks \ {k} /\ k.origin \in {"Sasl", "Identify"} /\ k \in CredentialCheck /\ c \in Conns
  BY DEF VerdictLands, SessionsInv, CredentialCheck
<1>2. CASE ~session[c].on
  <2>1. UNCHANGED <<session, login, held>>
    BY <1>2 DEF VerdictLands
  <2> QED
    BY <1>1, <2>1, FewerChecks DEF Calm
<1>3. CASE session[c].on
  <2>1. Live(k) /\ session[c] \in Session /\ Sound(session[c]) /\ login[c] \in Logins
    BY <1>1, <1>3, SessionFacts DEF Live, Creations
  <2>2. Marked(k)
    BY <2>1 DEF SessionsInv, ChecksMarked
  <2>3. /\ r \in Session /\ r.on /\ r.epoch = session[c].epoch
        /\ r.sasl = "Verifying" => r.saslVerify
        /\ ~(r.saslVerify /\ r.identify)
    BY <1>1, <1>3, <2>1 DEF Answered, Session, Sound
  <2>4. NewLogin(k) \in Logins
    BY <1>1 DEF NewLogin, Logins, CredentialCheck
  <2>5. \A y \in Logins : SetLogin(c, y) => login' = [login EXCEPT ![c] = y]
    BY DEF SetLogin
  <2>6. login \in [Conns -> Logins]
    BY DEF SessionsInv, SessionsTyped
  <2>7. CASE early
    <3> DEFINE x == [r EXCEPT !.skipped = TRUE]
    <3>1. Become(c, {x}, login[c])
      BY <1>3, <2>7 DEF VerdictLands
    <3>2. x \in Session /\ x.on /\ Sound(x) /\ x.epoch = session[c].epoch
      BY <2>3 DEF Session, Sound
    <3> HIDE DEF x
    <3>3. session' = [session EXCEPT ![c] = x] /\ SetLogin(c, login[c])
      BY <3>1, <3>2 DEF Become
    <3>4. SessionsInv' /\ CalmEpochs /\ CalmChecks
      BY <1>1, <2>1, <3>2, <3>3, AnswerSession
    <3>5. CalmLogins
      BY <2>1, <2>5, <2>6, <3>3 DEF CalmLogins
    <3> QED
      BY <3>4, <3>5
  <2>8. CASE ~early
    <3>1. Become(c, Completed(r), l)
      BY <1>3, <2>8 DEF VerdictLands
    <3> HIDE DEF r
    <3>2. PICK x \in Completed(r) : /\ session' = [session EXCEPT ![c] = x]
                                    /\ SetLogin(c, IF x.on THEN l ELSE NoLogin)
      BY <3>1 DEF Become
    <3>3. /\ x \in Session
          /\ x.on => /\ x.saslVerify = r.saslVerify /\ x.identify = r.identify
                     /\ x.epoch = r.epoch /\ ~Waits(x)
                     /\ x.sasl = r.sasl \/ (r.sasl = "Pending" /\ x.sasl = "Idle")
      BY <2>3, <3>2, CompletedSession
    <3>4. x.on => Sound(x) /\ x.epoch = session[c].epoch
      BY <2>3, <3>3 DEF Sound
    <3>5. l \in Logins
      BY <2>1, <2>4
    <3> HIDE DEF l
    <3>6. PICK y \in Logins : y = IF x.on THEN l ELSE NoLogin
      BY <3>5, LoginKinds
    <3>7. SetLogin(c, y) /\ (~x.on => y = NoLogin)
      BY <3>2, <3>6
    <3>8. SessionsInv' /\ CalmEpochs /\ CalmChecks
      BY <1>1, <2>1, <3>2, <3>3, <3>4, <3>7, AnswerSession
    <3>9. login' = [login EXCEPT ![c] = y]
      BY <2>5, <3>7
    <3>10. CASE y = NoLogin \/ y = login[c]
      <4>1. CalmLogins
        BY <2>6, <3>9, <3>10, LoginKinds DEF CalmLogins
      <4> QED
        BY <3>8, <4>1
    <3>11. CASE y # NoLogin /\ y # login[c]
      <4>1. y = NewLogin(k) /\ k.state = "verified"
        BY <3>6, <3>11 DEF l
      <4>2. SignsIn(k)
        BY <1>3, <2>8, <3>9, <4>1 DEF SignsIn
      <4> QED
        BY <2>1, <3>8, <4>2
    <3> QED
      BY <3>10, <3>11
  <2> QED
    BY <2>7, <2>8
<1> QED
  BY <1>2, <1>3

LEMMA CreationKeeps ==
    ASSUME SessionsInv, NEW k \in checks, CreationLands(k)
    PROVE  SessionsInv' /\ Calm
<1> DEFINE c == k.conn
           x == [session[c] EXCEPT !.register = @ /\ k.origin # "Register"]
<1>1. checks' = checks \ {k} /\ c \in Conns
  BY DEF CreationLands, SessionsInv, CredentialCheck
<1>2. CASE ~session[c].on
  BY <1>1, <1>2, FewerChecks DEF CreationLands
<1>3. CASE session[c].on
  <2>1. session[c] \in Session /\ Sound(session[c])
    BY <1>1, <1>3, SessionFacts
  <2>2. session' = [session EXCEPT ![c] = x]
    BY <1>3 DEF CreationLands
  <2>3. x \in Session /\ x.on /\ Sound(x) /\ Kept(session[c], x)
    BY <1>3, <2>1 DEF Session, Sound, Waits, Kept
  <2> HIDE DEF x
  <2>4. CASE SetLogin(c, Created)
    BY <1>1, <2>2, <2>3, <2>4, MoveSessions
  <2>5. CASE UNCHANGED <<login, held>>
    BY <1>1, <2>2, <2>3, <2>5, MoveSession
  <2> QED
    BY <1>3, <2>4, <2>5 DEF CreationLands, Created
<1> QED
  BY <1>2, <1>3

\* A change that strikes the sessions cs.
LEMMA CloseAllKeeps ==
    ASSUME SessionsInv, NEW cs \in SUBSET Conns, CloseAll(cs), UNCHANGED checks
    PROVE  /\ SessionsInv'
           /\ \A d \in Conns : IF d \in cs THEN ~session'[d].on /\ login'[d] = NoLogin
                               ELSE session'[d] = session[d] /\ login'[d] = login[d]
<1>1. /\ session \in [Conns -> Session] /\ login \in [Conns -> Logins]
      /\ checks \subseteq CredentialCheck
  BY DEF SessionsInv, SessionsTyped
<1>2. /\ session' = [d \in Conns |-> IF d \in cs THEN Closed ELSE session[d]]
      /\ login' = [d \in Conns |-> IF d \in cs THEN NoLogin ELSE login[d]]
  BY <1>1 DEF CloseAll, Gone
<1>3. \A d \in Conns : IF d \in cs THEN ~session'[d].on /\ login'[d] = NoLogin
                       ELSE session'[d] = session[d] /\ login'[d] = login[d]
  BY <1>2, ClosedSession
<1>4. SessionsSound'
  BY <1>3 DEF SessionsInv, SessionsSound
<1>5. session' \in [Conns -> Session]
  BY <1>1, <1>2, ClosedSession
<1>6. SessionsTyped' /\ HeldIsExact'
  BY <1>4, <1>5, CloseAllCounts DEF SessionsTyped
<1>7. ASSUME NEW m \in checks', Live(m)'
      PROVE  m \in checks /\ Live(m) /\ session'[m.conn] = session[m.conn]
  <2>1. m \in checks /\ m.conn \in Conns
    BY <1>1 DEF CredentialCheck
  <2> QED
    BY <1>3, <1>7, <2>1 DEF Live
<1>8. ChecksMarked'
  <2>1. ASSUME NEW m \in checks', Live(m)'
        PROVE  Marked(m)'
    <3>1. Marked(m) /\ session'[m.conn] = session[m.conn]
      BY <1>7, <2>1 DEF SessionsInv, ChecksMarked
    <3> QED
      BY <3>1 DEF Marked
  <2>2. ASSUME NEW m \in checks', NEW n \in checks', Live(m)', Live(n)', m.conn = n.conn
        PROVE  m = n
    BY <1>7, <2>2 DEF SessionsInv, ChecksMarked
  <2> QED
    BY <2>1, <2>2 DEF ChecksMarked
<1>9. checks' \subseteq CredentialCheck
  BY <1>1
<1> QED
  BY <1>3, <1>4, <1>6, <1>8, <1>9 DEF SessionsInv

-----------------------------------------------------------------------------
\* The changes on their way.

Has(q, x) == \E i \in 1 .. Len(q) : q[i] = x

LEMMA ComingHas ==
    ASSUME NEW c, NEW x
    PROVE  Coming(c, x) <=> Has(due, x) \/ Has(inbox[Home[c]], x)
  BY DEF Coming, Has

LEMMA ComingHasNext ==
    ASSUME NEW c, NEW x
    PROVE  Coming(c, x)' <=> Has(due', x) \/ Has(inbox'[Home[c]], x)
  BY DEF Coming, Has

\* A queue that a change joins.
LEMMA QueueAppend ==
    ASSUME NEW q \in Seq(Changes), NEW e \in Changes
    PROVE  /\ Append(q, e) \in Seq(Changes) /\ Has(Append(q, e), e)
           /\ \A x : Has(q, x) => Has(Append(q, e), x)
           /\ e = "suspend" => Suspends(Append(q, e))
           /\ e # "reactivate" /\ Suspends(q) => Suspends(Append(q, e))
           /\ e # "reactivate" /\ NeverReactivates(q) => NeverReactivates(Append(q, e))
<1> DEFINE t == Append(q, e)
<1>1. /\ t \in Seq(Changes) /\ Len(t) = Len(q) + 1 /\ Len(q) \in Nat
      /\ \A i \in 1 .. Len(q) : t[i] = q[i]
      /\ t[Len(q) + 1] = e
  OBVIOUS
<1> HIDE DEF t
<1>2. \A i \in 1 .. Len(t) : i \in 1 .. Len(q) \/ i = Len(q) + 1
  BY <1>1
<1>3. /\ Len(q) + 1 \in 1 .. Len(t)
      /\ \A i \in 1 .. Len(q) : i \in 1 .. Len(t) /\ i < Len(q) + 1
  BY <1>1
<1>4. Has(t, e) /\ \A x : Has(q, x) => Has(t, x)
  BY <1>1, <1>3 DEF Has
<1>5. e = "suspend" => Suspends(t)
  <2> SUFFICES ASSUME e = "suspend"
               PROVE  Suspends(t)
    OBVIOUS
  <2>1. \A j \in 1 .. Len(t) : t[j] = "reactivate" => j < Len(q) + 1
    BY <1>1, <1>2, <1>3
  <2> QED
    BY <1>1, <1>3, <2>1 DEF Suspends
<1>6. ASSUME e # "reactivate", Suspends(q)
      PROVE  Suspends(t)
  <2>1. PICK i \in 1 .. Len(q) : q[i] = "suspend" /\ \A j \in 1 .. Len(q) : q[j] = "reactivate" => j < i
    BY <1>6 DEF Suspends
  <2>2. \A j \in 1 .. Len(t) : t[j] = "reactivate" => j < i
    BY <1>1, <1>2, <1>6, <2>1
  <2> QED
    BY <1>1, <1>3, <2>1, <2>2 DEF Suspends
<1>7. e # "reactivate" /\ NeverReactivates(q) => NeverReactivates(t)
  BY <1>1, <1>2 DEF NeverReactivates
<1> QED
  BY <1>1, <1>4, <1>5, <1>6, <1>7 DEF t

\* A queue whose first change is handled.
LEMMA QueueTail ==
    ASSUME NEW q \in Seq(Changes), q # <<>>
    PROVE  /\ Tail(q) \in Seq(Changes) /\ Head(q) \in Changes
           /\ \A x : Has(q, x) => x = Head(q) \/ Has(Tail(q), x)
           /\ Suspends(q) => \/ Suspends(Tail(q))
                             \/ Head(q) = "suspend" /\ NeverReactivates(Tail(q))
           /\ NeverReactivates(q) => NeverReactivates(Tail(q)) /\ Head(q) # "reactivate"
<1> DEFINE t == Tail(q)
<1>1. /\ t \in Seq(Changes) /\ Len(t) = Len(q) - 1 /\ Len(q) \in Nat /\ Len(q) >= 1
      /\ \A i \in 1 .. Len(t) : t[i] = q[i + 1]
      /\ Head(q) = q[1] /\ q[1] \in Changes
  OBVIOUS
<1> HIDE DEF t
<1>2. \A i \in 1 .. Len(t) : i + 1 \in 1 .. Len(q)
  BY <1>1
<1>3. ASSUME NEW i \in 1 .. Len(q), i # 1
      PROVE  i - 1 \in 1 .. Len(t) /\ t[i - 1] = q[i]
  <2>1. i - 1 \in 1 .. Len(t) /\ (i - 1) + 1 = i
    BY <1>1, <1>3
  <2>2. t[i - 1] = q[(i - 1) + 1]
    BY <1>1, <2>1
  <2> QED
    BY <2>1, <2>2
<1>4. 1 \in 1 .. Len(q)
  BY <1>1
<1>5. ASSUME NEW x, Has(q, x)
      PROVE  x = q[1] \/ Has(t, x)
  BY <1>3, <1>5 DEF Has
<1>6. ASSUME Suspends(q)
      PROVE  Suspends(t) \/ (q[1] = "suspend" /\ NeverReactivates(t))
  <2>1. PICK i \in 1 .. Len(q) : q[i] = "suspend" /\ \A j \in 1 .. Len(q) : q[j] = "reactivate" => j < i
    BY <1>6 DEF Suspends
  <2>2. CASE i = 1
    <3>1. \A j \in 1 .. Len(t) : ~(j + 1 < 1)
      BY <1>1
    <3> QED
      BY <1>1, <1>2, <2>1, <2>2, <3>1 DEF NeverReactivates
  <2>3. CASE i # 1
    <3>1. i - 1 \in 1 .. Len(t) /\ t[i - 1] = "suspend"
      BY <1>3, <2>1, <2>3
    <3>2. ASSUME NEW j \in 1 .. Len(t), t[j] = "reactivate"
          PROVE  j < i - 1
      <4>1. j + 1 < i
        BY <1>1, <1>2, <2>1, <3>2
      <4> QED
        BY <1>1, <4>1
    <3> QED
      BY <3>1, <3>2 DEF Suspends
  <2> QED
    BY <2>2, <2>3
<1>7. NeverReactivates(q) => NeverReactivates(t) /\ q[1] # "reactivate"
  BY <1>1, <1>2, <1>4 DEF NeverReactivates
<1> QED
  BY <1>1, <1>5, <1>6, <1>7 DEF t

LEMMA NoWordInEmpty == ~Suspends(<<>>) /\ NeverReactivates(<<>>) /\ \A x : ~Has(<<>>, x)
<1>1. Len(<<>>) = 0 /\ 1 .. 0 = {}
  OBVIOUS
<1> QED
  BY <1>1 DEF Suspends, NeverReactivates, Has

Unchanging == UNCHANGED <<shard, inbox, store, due, listener>>

\* Steps that change nothing of the account: their sessions and checks, and the
\* logins unless somebody signs in.
LEMMA CalmSessionsKeep ==
    ASSUME SignInInv, SessionsInv', CalmEpochs, CalmChecks, Unchanging
    PROVE  ChangesTyped' /\ DownForgets' /\ EpochsBehind' /\ VerifiedStands'
<1>1. ChangesTyped' /\ DownForgets'
  BY DEF SignInInv, ChangesInv, ChangesTyped, DownForgets, Unchanging
<1>2. EpochsBehind'
  <2>1. \A d \in Conns : shard[Home[d]].epoch \in Nat
    BY SignInAssumption DEF SignInInv, ChangesInv, ChangesTyped, ShardState
  <2> QED
    BY <2>1 DEF SignInInv, ChangesInv, EpochsBehind, CalmEpochs, Unchanging
<1>3. \A c \in Conns, x \in Changes : Coming(c, x)' <=> Coming(c, x)
  BY DEF Coming, Unchanging
<1>4. VerifiedStands'
  <2> SUFFICES ASSUME NEW k \in checks', Live(k)', k.state = "verified"
               PROVE  /\ k.cred = "password" /\ k.version < store.password =>
                             Coming(k.conn, "password") \/ Since(k.conn, "account")'
                      /\ k.cred = "issued" /\ ~store.issued =>
                             \/ Coming(k.conn, "revoke") \/ Since(k.conn, "issued")'
                             \/ Since(k.conn, "every")'
                             \/ listener.state = "down"
                             \/ listener.state = "refusing" /\ Home[k.conn] \notin listener.answered
    <3>1. \A k \in checks' : k.conn \in Conns
      BY DEF SessionsInv, CredentialCheck
    <3> QED
      BY <1>3, <3>1 DEF VerifiedStands, Changes, Unchanging
  <2>1. k \in checks /\ Live(k) /\ session'[k.conn].epoch = session[k.conn].epoch
    BY DEF CalmChecks
  <2>2. \A e : Since(k.conn, e)' <=> Since(k.conn, e)
    BY <2>1 DEF Since, Unchanging
  <2> QED
    BY <2>1, <2>2 DEF SignInInv, ChangesInv, VerifiedStands
<1> QED
  BY <1>1, <1>2, <1>4

LEMMA CalmLoginsKeep ==
    ASSUME SignInInv, CalmLogins, Unchanging
    PROVE  SuspensionOK' /\ LoginHolds'
<1>1. \A c \in Conns, x \in Changes : Coming(c, x)' <=> Coming(c, x)
  BY DEF Coming, Unchanging
<1>2. SuspensionOK'
  BY DEF SignInInv, ChangesInv, SuspensionOK, SuspensionHeard, CalmLogins, Unchanging
<1>3. LoginHolds'
  BY <1>1 DEF SignInInv, ChangesInv, LoginHolds, CalmLogins, Credentials, Changes, Unchanging
<1> QED
  BY <1>2, <1>3

LEMMA CalmKeeps ==
    ASSUME SignInInv, SessionsInv', Calm, Unchanging
    PROVE  SignInInv'
  BY CalmSessionsKeep, CalmLoginsKeep DEF Calm, SignInInv, ChangesInv

LEMMA QuietlyUnchanging == Quietly => Unchanging
  BY DEF Quietly, Unchanging

LEMMA NumbersTyped ==
    ASSUME SignInInv
    PROVE  /\ store.password \in Nat /\ store.issued \in BOOLEAN /\ store.suspended \in BOOLEAN
           /\ \A s \in Shards : /\ shard[s] \in ShardState /\ shard[s].epoch \in Nat
                                /\ \A e \in Ends : shard[s].ended[e] \in Nat
           /\ \A c \in Conns : Home[c] \in Shards /\ session[c].epoch \in Nat
<1>1. SessionsTyped /\ ChangesTyped
  BY DEF SignInInv, ChangesInv, SessionsInv
<1> QED
  BY <1>1, SignInAssumption DEF SessionsTyped, ChangesTyped, ShardState, Session

LEMMA ClientStep ==
    ASSUME SignInInv, NEW c \in Conns, Client(c)
    PROVE  SignInInv'
<1>1. SessionsInv' /\ Calm /\ Quietly
  BY ClientKeeps, NumbersTyped DEF SignInInv
<1> QED
  BY <1>1, QuietlyUnchanging, CalmKeeps

LEMMA CheckReadStep ==
    ASSUME SignInInv, NEW k \in checks, CheckRead(k)
    PROVE  SignInInv'
<1>1. /\ SessionsInv' /\ CalmLogins /\ CalmEpochs
      /\ \A m \in checks' : Live(m)' /\ m.state = "verified" /\ m \notin checks =>
             /\ Live(k) /\ m.conn = k.conn /\ m.cred = k.cred /\ m.version = k.version
             /\ Stands([how |-> k.cred, version |-> k.version])
      /\ \A m \in checks : Live(m)' <=> Live(m)
  BY CheckReadKeeps DEF SignInInv
<1>2. Unchanging /\ UNCHANGED session
  BY QuietlyUnchanging DEF CheckRead
<1>3. SuspensionOK' /\ LoginHolds'
  BY <1>1, <1>2, CalmLoginsKeep
<1>4. ChangesTyped' /\ DownForgets' /\ EpochsBehind'
  BY <1>2 DEF SignInInv, ChangesInv, ChangesTyped, DownForgets, EpochsBehind, Unchanging
<1>5. VerifiedStands'
  <2>1. \A c \in Conns : /\ \A x \in Changes : Coming(c, x)' <=> Coming(c, x)
                         /\ \A e \in Ends : Since(c, e)' <=> Since(c, e)
    BY <1>2 DEF Coming, Since, Unchanging
  <2>2. ASSUME NEW m \in checks', Live(m)', m.state = "verified", m \notin checks
        PROVE  /\ m.cred = "password" => ~(m.version < store.password)
               /\ m.cred = "issued" => store.issued
    <3>1. Stands([how |-> m.cred, version |-> m.version])
      BY <1>1, <2>2
    <3>2. m.cred = "password" => m.version = store.password
      BY <3>1 DEF Stands
    <3>3. m.cred = "issued" => store.issued
      BY <3>1 DEF Stands
    <3> QED
      BY <3>2, <3>3, NumbersTyped
  <2>3. \A m \in checks' : m.conn \in Conns
    BY <1>1 DEF SessionsInv, CredentialCheck
  <2> SUFFICES ASSUME NEW m \in checks', Live(m)', m.state = "verified"
               PROVE  /\ m.cred = "password" /\ m.version < store.password =>
                             Coming(m.conn, "password") \/ Since(m.conn, "account")
                      /\ m.cred = "issued" /\ ~store.issued =>
                             \/ Coming(m.conn, "revoke") \/ Since(m.conn, "issued")
                             \/ Since(m.conn, "every")
                             \/ listener.state = "down"
                             \/ listener.state = "refusing" /\ Home[m.conn] \notin listener.answered
    BY <1>2, <2>1, <2>3 DEF VerifiedStands, Changes, Ends, Unchanging
  <2>4. CASE m \in checks
    BY <1>1, <2>4 DEF SignInInv, ChangesInv, VerifiedStands
  <2>5. CASE m \notin checks
    BY <2>2, <2>5
  <2> QED
    BY <2>4, <2>5
<1> QED
  BY <1>1, <1>3, <1>4, <1>5 DEF SignInInv, ChangesInv

LEMMA VerdictStep ==
    ASSUME SignInInv, NEW k \in checks, VerdictLands(k)
    PROVE  SignInInv'
<1>1. /\ SessionsInv' /\ CalmEpochs /\ CalmChecks
      /\ CalmLogins \/ (Live(k) /\ SignsIn(k))
  BY VerdictKeeps DEF SignInInv
<1>2. Unchanging
  BY DEF VerdictLands, Unchanging
<1>3. ChangesTyped' /\ DownForgets' /\ EpochsBehind' /\ VerifiedStands'
  BY <1>1, <1>2, CalmSessionsKeep
<1>4. CASE CalmLogins
  BY <1>1, <1>2, <1>3, <1>4, CalmLoginsKeep DEF SignInInv, ChangesInv
<1>5. CASE Live(k) /\ SignsIn(k)
  <2> DEFINE c == k.conn
  <2>1. /\ k \in CredentialCheck /\ c \in Conns /\ login \in [Conns -> Logins]
        /\ login' = [login EXCEPT ![c] = NewLogin(k)]
        /\ k.state = "verified" /\ ~shard[Home[c]].suspended /\ ~Stale(k)
    BY <1>5 DEF SignInInv, SessionsInv, SessionsTyped, CredentialCheck, SignsIn, Denied
  <2>2. NewLogin(k).how = k.cred /\ NewLogin(k).version = k.version
    BY DEF NewLogin
  <2>3. login'[c] = NewLogin(k) /\ \A d \in Conns \ {c} : login'[d] = login[d]
    BY <2>1
  <2>4. ~Since(c, "account") /\ ~Since(c, "every") /\ (k.cred = "issued" => ~Since(c, "issued"))
    BY <2>1 DEF Stale, Since
  <2>5. \A d \in Conns, x \in Changes : Coming(d, x)' <=> Coming(d, x)
    BY <1>2 DEF Coming, Unchanging
  <2>6. SuspensionOK'
    BY <1>2, <2>1, <2>3 DEF SignInInv, ChangesInv, SuspensionOK, SuspensionHeard, Unchanging
  <2>7. /\ k.cred = "password" /\ k.version < store.password => Coming(c, "password")
        /\ k.cred = "issued" /\ ~store.issued =>
               Coming(c, "revoke") \/ listener.state \in {"down", "refusing"}
    BY <1>5, <2>1, <2>4 DEF SignInInv, ChangesInv, VerifiedStands
  <2>8. LoginHolds'
    BY <1>2, <2>1, <2>2, <2>3, <2>5, <2>7 DEF SignInInv, ChangesInv, LoginHolds, Changes, Unchanging
  <2> QED
    BY <1>1, <1>3, <2>6, <2>8 DEF SignInInv, ChangesInv
<1> QED
  BY <1>1, <1>4, <1>5

LEMMA CreationStep ==
    ASSUME SignInInv, NEW k \in checks, CreationLands(k)
    PROVE  SignInInv'
<1>1. SessionsInv' /\ Calm
  BY CreationKeeps DEF SignInInv
<1>2. Unchanging
  BY QuietlyUnchanging DEF CreationLands
<1> QED
  BY <1>1, <1>2, CalmKeeps

\* A step that leaves the sessions, the logins, the checks and the shards alone.
LEMMA Aloof ==
    ASSUME SignInInv, UNCHANGED <<session, login, held, checks>>
    PROVE  /\ SessionsInv' /\ \A k \in checks : Live(k)' <=> Live(k)
           /\ \A k \in checks : k.conn \in Conns
<1>1. SessionsInv' /\ \A k \in checks : Live(k)' <=> Live(k)
  BY FewerChecks DEF SignInInv, Live
<1> QED
  BY <1>1 DEF SignInInv, SessionsInv, CredentialCheck

LEMMA QueuesTyped ==
    ASSUME SignInInv
    PROVE  due \in Seq(Changes) /\ \A s \in Shards : inbox[s] \in Seq(Changes)
  BY DEF SignInInv, ChangesInv, ChangesTyped

LEMMA CommitStep ==
    ASSUME SignInInv, NEW change \in Changes, Commit(change)
    PROVE  SignInInv'
<1>1. UNCHANGED <<session, login, checks, shard, inbox, held, listener>>
  BY DEF Commit
<1>2. SessionsInv' /\ (\A k \in checks : Live(k)' <=> Live(k)) /\ \A k \in checks : k.conn \in Conns
  BY <1>1, Aloof
<1>3. /\ store' \in [password : Nat, issued : BOOLEAN, suspended : BOOLEAN]
      /\ store'.password = IF change = "password" THEN store.password + 1 ELSE store.password
      /\ store'.issued = (store.issued /\ change # "revoke")
      /\ store'.suspended = IF change \in {"suspend", "reactivate"} THEN change = "suspend"
                            ELSE store.suspended
  <2>1. store \in [password : Nat, issued : BOOLEAN, suspended : BOOLEAN]
    BY DEF SignInInv, ChangesInv, ChangesTyped
  <2>2. CASE change = "password"
    BY <2>1, <2>2 DEF Commit
  <2>3. CASE change = "suspend"
    BY <2>1, <2>3 DEF Commit
  <2>4. CASE change = "reactivate"
    BY <2>1, <2>4 DEF Commit
  <2>5. CASE change = "revoke"
    BY <2>1, <2>5 DEF Commit
  <2> QED
    BY <2>2, <2>3, <2>4, <2>5 DEF Changes
<1>4. due' = IF change = "revoke" /\ listener.state = "down" THEN due ELSE Append(due, change)
  BY DEF Commit
<1>5. due \in Seq(Changes) /\ due' \in Seq(Changes)
  BY <1>4, QueuesTyped, QueueAppend
<1>6. ChangesTyped' /\ DownForgets' /\ EpochsBehind'
  BY <1>1, <1>3, <1>5 DEF SignInInv, ChangesInv, ChangesTyped, DownForgets, EpochsBehind
<1>7. \A c \in Conns, x \in Changes : Coming(c, x) => Coming(c, x)'
  BY <1>1, <1>4, <1>5, QueueAppend, ComingHas, ComingHasNext
<1>8. \A c \in Conns : Coming(c, change)' \/ (change = "revoke" /\ listener.state = "down")
  BY <1>1, <1>4, <1>5, QueueAppend, ComingHasNext
<1>9. \A c \in Conns, e \in Ends : Since(c, e)' <=> Since(c, e)
  BY <1>1 DEF Since
<1>10. VerifiedStands'
  <2> SUFFICES ASSUME NEW k \in checks, Live(k), k.state = "verified"
               PROVE  /\ k.cred = "password" /\ k.version < store'.password =>
                             Coming(k.conn, "password")' \/ Since(k.conn, "account")
                      /\ k.cred = "issued" /\ ~store'.issued =>
                             \/ Coming(k.conn, "revoke")' \/ Since(k.conn, "issued")
                             \/ Since(k.conn, "every")
                             \/ listener.state = "down"
                             \/ listener.state = "refusing" /\ Home[k.conn] \notin listener.answered
    BY <1>1, <1>2, <1>9 DEF VerifiedStands, Ends
  <2>1. k.conn \in Conns
    BY <1>2
  <2>2. /\ k.cred = "password" /\ k.version < store.password =>
               Coming(k.conn, "password") \/ Since(k.conn, "account")
        /\ k.cred = "issued" /\ ~store.issued =>
               \/ Coming(k.conn, "revoke") \/ Since(k.conn, "issued") \/ Since(k.conn, "every")
               \/ listener.state = "down"
               \/ listener.state = "refusing" /\ Home[k.conn] \notin listener.answered
    BY DEF SignInInv, ChangesInv, VerifiedStands
  <2>3. CASE change = "password"
    BY <1>3, <1>7, <1>8, <2>1, <2>2, <2>3 DEF Changes
  <2>4. CASE change # "password"
    BY <1>3, <1>7, <1>8, <2>1, <2>2, <2>4 DEF Changes
  <2> QED
    BY <2>3, <2>4
<1>11. LoginHolds'
  <2> SUFFICES ASSUME NEW c \in Conns
               PROVE  /\ login[c].how = "password" /\ login[c].version < store'.password =>
                             Coming(c, "password")'
                      /\ login[c].how = "issued" /\ ~store'.issued =>
                             \/ Coming(c, "revoke")'
                             \/ listener.state \in {"down", "refusing"}
                             \/ listener.state = "held" /\ listener.held
    BY <1>1 DEF LoginHolds
  <2>1. /\ login[c].how = "password" /\ login[c].version < store.password => Coming(c, "password")
        /\ login[c].how = "issued" /\ ~store.issued =>
               \/ Coming(c, "revoke")
               \/ listener.state \in {"down", "refusing"}
               \/ listener.state = "held" /\ listener.held
    BY DEF SignInInv, ChangesInv, LoginHolds
  <2>2. CASE change = "password"
    BY <1>3, <1>7, <1>8, <2>1, <2>2 DEF Changes
  <2>3. CASE change # "password"
    BY <1>3, <1>7, <1>8, <2>1, <2>3 DEF Changes
  <2> QED
    BY <2>2, <2>3
<1>12. SuspensionOK'
  <2>1. inbox'[1] = <<>> /\ \A c \in Conns : login'[c].how \in Credentials => ~shard'[Home[c]].suspended
    BY <1>1 DEF SignInInv, ChangesInv, SuspensionOK
  <2>2. ASSUME store'.suspended, NEW s \in Shards
        PROVE  SuspensionHeard(s)'
    <3>1. CASE change = "suspend"
      <4>1. due' = Append(due, change) /\ Suspends(due')
        BY <1>4, <1>5, <3>1, QueueAppend
      <4> QED
        BY <4>1 DEF SuspensionHeard
    <3>2. CASE change # "suspend"
      <4>1. change # "reactivate" /\ store.suspended
        BY <1>3, <2>2, <3>2
      <4>2. SuspensionHeard(s)
        BY <4>1 DEF SignInInv, ChangesInv, SuspensionOK
      <4>3. (Suspends(due) => Suspends(due')) /\ (NeverReactivates(due) => NeverReactivates(due'))
        BY <1>4, <1>5, <4>1, QueueAppend
      <4> QED
        BY <1>1, <4>2, <4>3 DEF SuspensionHeard
    <3> QED
      BY <3>1, <3>2
  <2> QED
    BY <2>1, <2>2 DEF SuspensionOK
<1> QED
  BY <1>2, <1>6, <1>10, <1>11, <1>12 DEF SignInInv, ChangesInv

\* end_credentials: a check that is outstanding finds its verdict stale, by this
\* change and by those it was stale by.
LEMMA EndCredentialsKeeps ==
    ASSUME SignInInv, NEW s \in Shards, NEW e \in Ends, shard' = EndCredentials(s, e)
    PROVE  /\ shard' \in [Shards -> ShardState]
           /\ shard'[s].epoch = shard[s].epoch + 1 /\ shard'[s].suspended = shard[s].suspended
           /\ \A t \in Shards \ {s} : shard'[t] = shard[t]
           /\ \A c \in Waiting(s) :
                  /\ shard'[s].ended[e] > session[c].epoch
                  /\ \A f \in Ends : shard[s].ended[f] > session[c].epoch =>
                                     shard'[s].ended[f] > session[c].epoch
<1> DEFINE n == shard[s].epoch + 1
           m == [Remembered(s) EXCEPT ![e] = IF Waiting(s) = {} THEN 0 ELSE n]
<1>1. /\ shard \in [Shards -> ShardState] /\ shard[s] \in ShardState /\ n \in Nat
      /\ \A f \in Ends : shard[s].ended[f] \in Nat
      /\ \A c \in Conns : session[c].epoch \in Nat
  BY NumbersTyped DEF SignInInv, ChangesInv, ChangesTyped
<1>2. shard' = [shard EXCEPT ![s] = [shard[s] EXCEPT !.epoch = n, !.ended = m]]
  BY <1>1 DEF EndCredentials
<1>3. Remembered(s) \in [Ends -> Nat]
  BY <1>1 DEF Remembered
<1>4. /\ m \in [Ends -> Nat] /\ m[e] = (IF Waiting(s) = {} THEN 0 ELSE n)
      /\ \A f \in Ends \ {e} : m[f] = Remembered(s)[f]
  BY <1>1, <1>3
<1> HIDE DEF m, n
<1>5. /\ shard' \in [Shards -> ShardState] /\ shard'[s].epoch = n /\ shard'[s].ended = m
      /\ shard'[s].suspended = shard[s].suspended
      /\ \A t \in Shards \ {s} : shard'[t] = shard[t]
  <2>1. PICK v : v = [shard[s] EXCEPT !.epoch = n, !.ended = m]
    OBVIOUS
  <2>2. /\ v \in ShardState /\ v.epoch = n /\ v.ended = m
        /\ v.suspended = shard[s].suspended
    BY <1>1, <1>4, <2>1 DEF ShardState
  <2>3. shard' = [shard EXCEPT ![s] = v]
    BY <1>2, <2>1
  <2> QED
    BY <1>1, <2>2, <2>3
<1>6. ASSUME NEW c \in Waiting(s)
      PROVE  /\ m[e] > session[c].epoch
             /\ \A f \in Ends : shard[s].ended[f] > session[c].epoch => m[f] > session[c].epoch
  <2>1. c \in Conns /\ Home[c] = s /\ session[c].on
    BY DEF Waiting
  <2>2. session[c].epoch <= shard[s].epoch /\ shard[s].epoch \in Nat
    BY <2>1, NumbersTyped DEF SignInInv, ChangesInv, EpochsBehind
  <2>3. m[e] > session[c].epoch
    BY <1>1, <1>4, <2>1, <2>2 DEF n
  <2>4. ASSUME NEW f \in Ends, shard[s].ended[f] > session[c].epoch
        PROVE  m[f] > session[c].epoch
    <3>1. Remembered(s)[f] = shard[s].ended[f]
      BY <2>4 DEF Remembered
    <3> QED
      BY <1>4, <2>3, <2>4, <3>1
  <2> QED
    BY <2>3, <2>4
<1> QED
  BY <1>5, <1>6 DEF n

LEMMA LiveWaits ==
    ASSUME SignInInv, NEW k \in checks, Live(k)
    PROVE  k.conn \in Conns /\ k.conn \in Waiting(Home[k.conn])
<1>1. k \in CredentialCheck /\ Marked(k)
  BY DEF SignInInv, SessionsInv, ChecksMarked
<1> QED
  BY <1>1 DEF CredentialCheck, Marked, Live, Waiting, Outstanding

\* What a shard that hears of the change h leaves: no login the change ends, and
\* the outstanding verdicts stale.
LEMMA ApplyAtKeeps ==
    ASSUME SignInInv, NEW s \in Shards, NEW h \in Changes, ApplyAt(s, h), UNCHANGED checks
    PROVE  /\ SessionsInv' /\ shard' \in [Shards -> ShardState]
           /\ \A d \in Conns : /\ session'[d].on => session'[d] = session[d]
                               /\ login'[d] = login[d] \/ login'[d] = NoLogin
           /\ \A d \in Conns : Home[d] = s /\ login'[d].how \in Credentials =>
                  /\ h \notin {"suspend", "password"}
                  /\ h = "revoke" => login'[d].how # "issued"
           /\ \A t \in Shards \ {s} : shard'[t] = shard[t]
           /\ shard'[s].suspended = (IF h \in {"suspend", "reactivate"} THEN h = "suspend"
                                     ELSE shard[s].suspended)
           /\ shard'[s].epoch >= shard[s].epoch
           /\ \A c \in Waiting(s) :
                  /\ h = "password" => shard'[s].ended["account"] > session[c].epoch
                  /\ h = "revoke" => shard'[s].ended["issued"] > session[c].epoch
                  /\ \A f \in Ends : shard[s].ended[f] > session[c].epoch =>
                                     shard'[s].ended[f] > session[c].epoch
<1>0. /\ shard \in [Shards -> ShardState] /\ shard[s].epoch \in Nat
  BY NumbersTyped DEF SignInInv, ChangesInv, ChangesTyped
<1>1. ASSUME NEW hows \in SUBSET Credentials, CloseAll(Struck(s, hows))
      PROVE  /\ SessionsInv'
             /\ \A d \in Conns : /\ session'[d].on => session'[d] = session[d]
                                 /\ login'[d] = login[d] \/ login'[d] = NoLogin
             /\ \A d \in Conns : Home[d] = s => login'[d].how \notin hows
  <2>1. Struck(s, hows) \in SUBSET Conns
    BY DEF Struck
  <2>2. /\ SessionsInv'
        /\ \A d \in Conns : IF d \in Struck(s, hows) THEN ~session'[d].on /\ login'[d] = NoLogin
                            ELSE session'[d] = session[d] /\ login'[d] = login[d]
    BY <1>1, <2>1, CloseAllKeeps DEF SignInInv
  <2>3. ASSUME NEW d \in Conns, Home[d] = s, login'[d].how \in hows
        PROVE  FALSE
    <3>1. login'[d] # NoLogin
      BY <2>3, LoginKinds
    <3>2. d \notin Struck(s, hows) /\ login'[d] = login[d]
      BY <2>2, <3>1
    <3>3. session[d].on
      BY <3>1, <3>2 DEF SignInInv, SessionsInv, SessionsSound
    <3> QED
      BY <2>3, <3>2, <3>3 DEF Struck
  <2> QED
    BY <2>2, <2>3
<1>2. Credentials \in SUBSET Credentials /\ {"issued"} \in SUBSET Credentials
  BY DEF Credentials
<1>3. CASE h = "suspend"
  <2>1. shard' = [shard EXCEPT ![s].suspended = TRUE] /\ CloseAll(Struck(s, Credentials))
    BY <1>3 DEF ApplyAt
  <2>2. /\ shard' \in [Shards -> ShardState] /\ shard'[s].suspended = TRUE
        /\ shard'[s].epoch = shard[s].epoch /\ shard'[s].ended = shard[s].ended
        /\ \A t \in Shards \ {s} : shard'[t] = shard[t]
    BY <1>0, <2>1 DEF ShardState
  <2>3. shard'[s].epoch >= shard[s].epoch
    BY <1>0, <2>2
  <2>4. shard'[s].suspended = (IF h \in {"suspend", "reactivate"} THEN h = "suspend"
                                ELSE shard[s].suspended)
    BY <1>3, <2>2
  <2> QED
    BY <1>1, <1>2, <1>3, <2>1, <2>2, <2>3, <2>4
<1>4. CASE h = "reactivate"
  <2>1. shard' = [shard EXCEPT ![s].suspended = FALSE] /\ UNCHANGED <<session, login, held>>
    BY <1>4 DEF ApplyAt
  <2>2. /\ shard' \in [Shards -> ShardState] /\ shard'[s].suspended = FALSE
        /\ shard'[s].epoch = shard[s].epoch /\ shard'[s].ended = shard[s].ended
        /\ \A t \in Shards \ {s} : shard'[t] = shard[t]
    BY <1>0, <2>1 DEF ShardState
  <2>3. SessionsInv'
    BY <2>1, Aloof
  <2>4. shard'[s].epoch >= shard[s].epoch
    BY <1>0, <2>2
  <2>5. shard'[s].suspended = (IF h \in {"suspend", "reactivate"} THEN h = "suspend"
                                ELSE shard[s].suspended)
    BY <1>4, <2>2
  <2> QED
    BY <1>4, <2>1, <2>2, <2>3, <2>4, <2>5
<1>5. CASE h = "password"
  <2>1. shard' = EndCredentials(s, "account") /\ CloseAll(Struck(s, Credentials))
    BY <1>5 DEF ApplyAt
  <2>2. "account" \in Ends
    BY DEF Ends
  <2> QED
    BY <1>0, <1>1, <1>2, <1>5, <2>1, <2>2, EndCredentialsKeeps
<1>6. CASE h = "revoke"
  <2>1. shard' = EndCredentials(s, "issued") /\ CloseAll(Struck(s, {"issued"}))
    BY <1>6 DEF ApplyAt
  <2>2. "issued" \in Ends
    BY DEF Ends
  <2> QED
    BY <1>0, <1>1, <1>2, <1>6, <2>1, <2>2, EndCredentialsKeeps
<1> QED
  BY <1>3, <1>4, <1>5, <1>6 DEF Changes

\* A shard hears of a change; the queues move on.
LEMMA HearStep ==
    ASSUME SignInInv, NEW s \in Shards, NEW h \in Changes, ApplyAt(s, h),
           UNCHANGED <<checks, store, listener>>,
           due' \in Seq(Changes), inbox' \in [Shards -> Seq(Changes)], inbox'[1] = <<>>,
           \A d \in Conns, x \in Changes :
               Coming(d, x) => Coming(d, x)' \/ (Home[d] = s /\ x = h),
           store.suspended => \A t \in Shards : SuspensionHeard(t)'
    PROVE  SignInInv'
<1>1. /\ SessionsInv' /\ shard' \in [Shards -> ShardState]
      /\ \A d \in Conns : /\ session'[d].on => session'[d] = session[d]
                          /\ login'[d] = login[d] \/ login'[d] = NoLogin
      /\ \A d \in Conns : Home[d] = s /\ login'[d].how \in Credentials =>
             /\ h \notin {"suspend", "password"}
             /\ h = "revoke" => login'[d].how # "issued"
      /\ \A t \in Shards \ {s} : shard'[t] = shard[t]
      /\ shard'[s].suspended = (IF h \in {"suspend", "reactivate"} THEN h = "suspend"
                                ELSE shard[s].suspended)
      /\ shard'[s].epoch >= shard[s].epoch
  BY ApplyAtKeeps
<1>2. \A c \in Waiting(s) :
          /\ h = "password" => shard'[s].ended["account"] > session[c].epoch
          /\ h = "revoke" => shard'[s].ended["issued"] > session[c].epoch
          /\ \A f \in Ends : shard[s].ended[f] > session[c].epoch =>
                             shard'[s].ended[f] > session[c].epoch
  BY ApplyAtKeeps
<1>3. ChangesTyped' /\ DownForgets'
  BY <1>1 DEF SignInInv, ChangesInv, ChangesTyped, DownForgets
<1>4. EpochsBehind'
  <2> SUFFICES ASSUME NEW d \in Conns, session'[d].on
               PROVE  session'[d].epoch <= shard'[Home[d]].epoch
    BY DEF EpochsBehind
  <2>1. /\ session'[d] = session[d] /\ session[d].epoch <= shard[Home[d]].epoch
        /\ Home[d] \in Shards /\ session[d].epoch \in Nat
    BY <1>1, NumbersTyped DEF SignInInv, ChangesInv, EpochsBehind
  <2>2. CASE Home[d] = s
    <3>1. shard'[s].epoch \in Nat /\ shard[s].epoch \in Nat
      BY <1>1, NumbersTyped DEF ShardState
    <3> QED
      BY <1>1, <2>1, <2>2, <3>1
  <2>3. CASE Home[d] # s
    BY <1>1, <2>1, <2>3
  <2> QED
    BY <2>2, <2>3
<1>5. VerifiedStands'
  <2> SUFFICES ASSUME NEW k \in checks, Live(k)', k.state = "verified"
               PROVE  /\ k.cred = "password" /\ k.version < store.password =>
                             Coming(k.conn, "password")' \/ Since(k.conn, "account")'
                      /\ k.cred = "issued" /\ ~store.issued =>
                             \/ Coming(k.conn, "revoke")' \/ Since(k.conn, "issued")'
                             \/ Since(k.conn, "every")'
                             \/ listener.state = "down"
                             \/ listener.state = "refusing" /\ Home[k.conn] \notin listener.answered
    BY DEF VerifiedStands
  <2>1. k.conn \in Conns
    BY DEF SignInInv, SessionsInv, CredentialCheck
  <2>2. Live(k) /\ session'[k.conn] = session[k.conn]
    BY <1>1, <2>1 DEF Live
  <2>3. k.conn \in Waiting(Home[k.conn])
    BY <2>2, LiveWaits
  <2>4. \A f \in Ends : Since(k.conn, f) => Since(k.conn, f)'
    BY <1>1, <1>2, <2>1, <2>2, <2>3, NumbersTyped DEF Since
  <2>5. Home[k.conn] = s => /\ h = "password" => Since(k.conn, "account")'
                            /\ h = "revoke" => Since(k.conn, "issued")'
    BY <1>2, <2>2, <2>3 DEF Since
  <2>6. /\ k.cred = "password" /\ k.version < store.password =>
               Coming(k.conn, "password") \/ Since(k.conn, "account")
        /\ k.cred = "issued" /\ ~store.issued =>
               \/ Coming(k.conn, "revoke") \/ Since(k.conn, "issued") \/ Since(k.conn, "every")
               \/ listener.state = "down"
               \/ listener.state = "refusing" /\ Home[k.conn] \notin listener.answered
    BY <2>2 DEF SignInInv, ChangesInv, VerifiedStands
  <2>7. "password" \in Changes /\ "revoke" \in Changes /\ Ends = {"account", "issued", "every"}
    BY DEF Changes, Ends
  <2> QED
    BY <2>1, <2>4, <2>5, <2>6, <2>7
<1>6. SuspensionOK'
  <2> SUFFICES ASSUME NEW d \in Conns, login'[d].how \in Credentials
               PROVE  ~shard'[Home[d]].suspended
    BY DEF SuspensionOK
  <2>1. login'[d] = login[d] /\ Home[d] \in Shards
    BY <1>1, LoginKinds, NumbersTyped
  <2>2. ~shard[Home[d]].suspended
    BY <2>1 DEF SignInInv, ChangesInv, SuspensionOK
  <2> QED
    BY <1>1, <2>1, <2>2
<1>7. LoginHolds'
  <2> SUFFICES ASSUME NEW c \in Conns
               PROVE  /\ login'[c].how = "password" /\ login'[c].version < store.password =>
                             Coming(c, "password")'
                      /\ login'[c].how = "issued" /\ ~store.issued =>
                             \/ Coming(c, "revoke")'
                             \/ listener.state \in {"down", "refusing"}
                             \/ listener.state = "held" /\ listener.held
    BY DEF LoginHolds
  <2>1. CASE login'[c].how \in Credentials
    <3>1. login'[c] = login[c]
      BY <1>1, <2>1, LoginKinds
    <3>2. /\ login[c].how = "password" /\ login[c].version < store.password => Coming(c, "password")
          /\ login[c].how = "issued" /\ ~store.issued =>
                 \/ Coming(c, "revoke")
                 \/ listener.state \in {"down", "refusing"}
                 \/ listener.state = "held" /\ listener.held
      BY DEF SignInInv, ChangesInv, LoginHolds
    <3> QED
      BY <1>1, <2>1, <3>1, <3>2 DEF Changes
  <2>2. CASE login'[c].how \notin Credentials
    BY <2>2 DEF Credentials
  <2> QED
    BY <2>1, <2>2
<1> QED
  BY <1>1, <1>3, <1>4, <1>5, <1>6, <1>7 DEF SignInInv, ChangesInv

\* Input::Admin on the first shard.
LEMMA ApplyStep ==
    ASSUME SignInInv, Apply
    PROVE  SignInInv'
<1>1. PICK h : h = Head(due)
  OBVIOUS
<1>2. /\ due # <<>> /\ due' = Tail(due) /\ ApplyAt(1, h) /\ UNCHANGED <<checks, store, listener>>
      /\ inbox' = [s \in Shards |-> IF s = 1 THEN inbox[s] ELSE Append(inbox[s], h)]
  BY <1>1 DEF Apply
<1>3. due \in Seq(Changes) /\ (\A s \in Shards : inbox[s] \in Seq(Changes)) /\ 1 \in Shards
  BY QueuesTyped, SignInAssumption
<1>4. /\ due' \in Seq(Changes) /\ h \in Changes
      /\ \A x : Has(due, x) => x = h \/ Has(due', x)
      /\ Suspends(due) => Suspends(due') \/ (h = "suspend" /\ NeverReactivates(due'))
      /\ NeverReactivates(due) => NeverReactivates(due') /\ h # "reactivate"
  BY <1>1, <1>2, <1>3, QueueTail
<1>5. ASSUME NEW s \in Shards, s # 1
      PROVE  /\ inbox'[s] \in Seq(Changes) /\ Has(inbox'[s], h)
             /\ \A x : Has(inbox[s], x) => Has(inbox'[s], x)
             /\ h = "suspend" => Suspends(inbox'[s])
             /\ h # "reactivate" /\ Suspends(inbox[s]) => Suspends(inbox'[s])
             /\ h # "reactivate" /\ NeverReactivates(inbox[s]) => NeverReactivates(inbox'[s])
  <2>1. inbox'[s] = Append(inbox[s], h)
    BY <1>2, <1>5
  <2> QED
    BY <1>3, <1>4, <2>1, QueueAppend
<1>6. inbox'[1] = inbox[1] /\ inbox[1] = <<>>
  BY <1>2, <1>3 DEF SignInInv, ChangesInv, SuspensionOK
<1>7. inbox' \in [Shards -> Seq(Changes)]
  <2>1. \A s \in Shards : inbox'[s] \in Seq(Changes)
    BY <1>3, <1>5, <1>6
  <2> QED
    BY <1>2, <2>1
<1>8. \A d \in Conns, x \in Changes : Coming(d, x) => Coming(d, x)' \/ (Home[d] = 1 /\ x = h)
  <2> SUFFICES ASSUME NEW d \in Conns, NEW x \in Changes, Coming(d, x), ~(Home[d] = 1 /\ x = h)
               PROVE  Coming(d, x)'
    OBVIOUS
  <2>1. Home[d] \in Shards /\ (Has(due, x) \/ Has(inbox[Home[d]], x))
    BY ComingHas, NumbersTyped
  <2>2. Has(due', x) \/ Has(inbox'[Home[d]], x)
    BY <1>4, <1>5, <1>6, <2>1
  <2> QED
    BY <2>2, ComingHasNext
<1>9. ASSUME store.suspended, NEW t \in Shards
      PROVE  SuspensionHeard(t)'
  <2>1. SuspensionHeard(t)
    BY <1>9 DEF SignInInv, ChangesInv, SuspensionOK
  <2>2. /\ \A u \in Shards \ {1} : shard'[u] = shard[u]
        /\ shard'[1].suspended = (IF h \in {"suspend", "reactivate"} THEN h = "suspend"
                                  ELSE shard[1].suspended)
    BY <1>2, <1>3, <1>4, ApplyAtKeeps
  <2>3. CASE t = 1
    BY <1>4, <1>6, <2>1, <2>2, <2>3, NoWordInEmpty DEF SuspensionHeard
  <2>4. CASE t # 1
    BY <1>4, <1>5, <2>1, <2>2, <2>4 DEF SuspensionHeard
  <2> QED
    BY <2>3, <2>4
<1> QED
  BY <1>2, <1>3, <1>4, <1>6, <1>7, <1>8, <1>9, HearStep

\* The broadcast, on another shard.
LEMMA AppliedStep ==
    ASSUME SignInInv, NEW s \in Shards, Applied(s)
    PROVE  SignInInv'
<1>1. PICK h : h = Head(inbox[s])
  OBVIOUS
<1>2. /\ inbox[s] # <<>> /\ ApplyAt(s, h) /\ UNCHANGED <<checks, store, due, listener>>
      /\ inbox' = [inbox EXCEPT ![s] = Tail(inbox[s])]
  BY <1>1 DEF Applied
<1>3. /\ due \in Seq(Changes) /\ inbox \in [Shards -> Seq(Changes)] /\ inbox[s] \in Seq(Changes)
      /\ inbox[1] = <<>> /\ 1 \in Shards
  BY SignInAssumption DEF SignInInv, ChangesInv, ChangesTyped, SuspensionOK
<1>4. s # 1 /\ inbox'[1] = <<>>
  BY <1>2, <1>3
<1>5. PICK q : q = Tail(inbox[s])
  OBVIOUS
<1>6. /\ q \in Seq(Changes) /\ h \in Changes
      /\ \A x : Has(inbox[s], x) => x = h \/ Has(q, x)
      /\ Suspends(inbox[s]) => Suspends(q) \/ (h = "suspend" /\ NeverReactivates(q))
      /\ NeverReactivates(inbox[s]) => NeverReactivates(q) /\ h # "reactivate"
  BY <1>1, <1>2, <1>3, <1>5, QueueTail
<1>7. /\ inbox' \in [Shards -> Seq(Changes)] /\ inbox'[s] = q
      /\ \A t \in Shards \ {s} : inbox'[t] = inbox[t]
  BY <1>2, <1>3, <1>5, <1>6
<1>8. \A d \in Conns, x \in Changes : Coming(d, x) => Coming(d, x)' \/ (Home[d] = s /\ x = h)
  <2> SUFFICES ASSUME NEW d \in Conns, NEW x \in Changes, Coming(d, x), ~(Home[d] = s /\ x = h)
               PROVE  Coming(d, x)'
    OBVIOUS
  <2>1. Home[d] \in Shards /\ (Has(due, x) \/ Has(inbox[Home[d]], x))
    BY ComingHas, NumbersTyped
  <2>2. Has(due', x) \/ Has(inbox'[Home[d]], x)
    BY <1>2, <1>6, <1>7, <2>1
  <2> QED
    BY <2>2, ComingHasNext
<1>9. ASSUME store.suspended, NEW t \in Shards
      PROVE  SuspensionHeard(t)'
  <2>1. SuspensionHeard(t)
    BY <1>9 DEF SignInInv, ChangesInv, SuspensionOK
  <2>2. /\ \A u \in Shards \ {s} : shard'[u] = shard[u]
        /\ shard'[s].suspended = (IF h \in {"suspend", "reactivate"} THEN h = "suspend"
                                  ELSE shard[s].suspended)
    BY <1>2, <1>6, ApplyAtKeeps
  <2>3. CASE t = s
    BY <1>2, <1>6, <1>7, <2>1, <2>2, <2>3 DEF SuspensionHeard
  <2>4. CASE t # s
    BY <1>2, <1>7, <2>1, <2>2, <2>4 DEF SuspensionHeard
  <2> QED
    BY <2>3, <2>4
<1> QED
  BY <1>2, <1>3, <1>4, <1>6, <1>7, <1>8, <1>9, HearStep

\* The steps of the listener.
LEMMA RefuseStep ==
    ASSUME SignInInv, NEW s \in Shards, RefuseVerdicts(s)
    PROVE  SignInInv'
<1>1. /\ listener.state = "refusing" /\ shard' = EndCredentials(s, "every")
      /\ listener' = [listener EXCEPT !.answered = @ \cup {s}]
      /\ UNCHANGED <<session, login, checks, inbox, held, store, due>>
  BY DEF RefuseVerdicts, ByListener
<1>2. "every" \in Ends /\ Ends = {"account", "issued", "every"}
  BY DEF Ends
<1>3. /\ shard' \in [Shards -> ShardState]
      /\ shard'[s].epoch = shard[s].epoch + 1 /\ shard'[s].suspended = shard[s].suspended
      /\ \A t \in Shards \ {s} : shard'[t] = shard[t]
      /\ \A c \in Waiting(s) :
             /\ shard'[s].ended["every"] > session[c].epoch
             /\ \A f \in Ends : shard[s].ended[f] > session[c].epoch =>
                                shard'[s].ended[f] > session[c].epoch
  BY <1>1, <1>2, EndCredentialsKeeps
<1>4. SessionsInv' /\ (\A k \in checks : Live(k)' <=> Live(k)) /\ \A k \in checks : k.conn \in Conns
  BY <1>1, Aloof
<1>5. /\ listener' \in ListenerState
      /\ listener'.state = "refusing" /\ listener'.answered = listener.answered \cup {s}
  BY <1>1 DEF SignInInv, ChangesInv, ChangesTyped, ListenerState
<1>6. ChangesTyped' /\ DownForgets'
  BY <1>1, <1>3, <1>5 DEF SignInInv, ChangesInv, ChangesTyped, DownForgets
<1>7. EpochsBehind'
  <2> SUFFICES ASSUME NEW d \in Conns, session[d].on
               PROVE  session[d].epoch <= shard'[Home[d]].epoch
    BY <1>1 DEF EpochsBehind
  <2>1. /\ session[d].epoch <= shard[Home[d]].epoch /\ shard[Home[d]].epoch \in Nat
        /\ Home[d] \in Shards /\ session[d].epoch \in Nat
    BY NumbersTyped DEF SignInInv, ChangesInv, EpochsBehind
  <2>2. CASE Home[d] = s
    BY <1>3, <2>1, <2>2
  <2>3. CASE Home[d] # s
    BY <1>3, <2>1, <2>3
  <2> QED
    BY <2>2, <2>3
<1>8. \A c \in Conns, x \in Changes : Coming(c, x)' <=> Coming(c, x)
  BY <1>1 DEF Coming
<1>9. VerifiedStands'
  <2> SUFFICES ASSUME NEW k \in checks, Live(k), k.state = "verified"
               PROVE  /\ k.cred = "password" /\ k.version < store.password =>
                             Coming(k.conn, "password") \/ Since(k.conn, "account")'
                      /\ k.cred = "issued" /\ ~store.issued =>
                             \/ Coming(k.conn, "revoke") \/ Since(k.conn, "issued")'
                             \/ Since(k.conn, "every")'
                             \/ Home[k.conn] \notin listener'.answered
    BY <1>1, <1>4, <1>5, <1>8 DEF VerifiedStands, Changes
  <2>1. k.conn \in Waiting(Home[k.conn]) /\ k.conn \in Conns /\ Home[k.conn] \in Shards
    BY LiveWaits, NumbersTyped
  <2>2. \A f \in Ends : Since(k.conn, f) => Since(k.conn, f)'
    BY <1>1, <1>3, <2>1 DEF Since
  <2>3. Home[k.conn] = s => Since(k.conn, "every")'
    BY <1>1, <1>3, <2>1 DEF Since
  <2>4. /\ k.cred = "password" /\ k.version < store.password =>
               Coming(k.conn, "password") \/ Since(k.conn, "account")
        /\ k.cred = "issued" /\ ~store.issued =>
               \/ Coming(k.conn, "revoke") \/ Since(k.conn, "issued") \/ Since(k.conn, "every")
               \/ Home[k.conn] \notin listener.answered
    BY <1>1 DEF SignInInv, ChangesInv, VerifiedStands
  <2> QED
    BY <1>2, <1>5, <2>2, <2>3, <2>4
<1>10. SuspensionOK'
  <2>1. \A t \in Shards : shard'[t].suspended = shard[t].suspended
    BY <1>3
  <2>2. \A c \in Conns : Home[c] \in Shards
    BY NumbersTyped
  <2> QED
    BY <1>1, <2>1, <2>2 DEF SignInInv, ChangesInv, SuspensionOK, SuspensionHeard
<1>11. LoginHolds'
  BY <1>1, <1>5, <1>8 DEF SignInInv, ChangesInv, LoginHolds, Changes
<1> QED
  BY <1>4, <1>6, <1>7, <1>9, <1>10, <1>11 DEF SignInInv, ChangesInv

\* What the listener has yet to do about a revocation it may have missed: refuse
\* the verdicts of c, and ask which credentials are held and still stored.
WillRefuse(c) ==
    listener.state = "down" \/ (listener.state = "refusing" /\ Home[c] \notin listener.answered)
WillRead == listener.state \in {"down", "refusing"} \/ (listener.state = "held" /\ listener.held)

\* The steps of the listener that leave the shards alone: what is coming stays.
LEMMA ListenerKeeps ==
    ASSUME SignInInv, UNCHANGED <<session, login, checks, inbox, held, store, shard>>,
           listener' \in ListenerState, DownForgets', due' \in {due, Append(due, "revoke")},
           \A c \in Conns : WillRefuse(c) => WillRefuse(c)',
           \A c \in Conns : login[c].how = "issued" /\ ~store.issued /\ WillRead =>
                                Has(due', "revoke") \/ WillRead'
    PROVE  SignInInv'
<1>1. SessionsInv' /\ (\A k \in checks : Live(k)' <=> Live(k)) /\ \A k \in checks : k.conn \in Conns
  BY Aloof
<1>2. "revoke" \in Changes /\ "revoke" # "reactivate" /\ due \in Seq(Changes)
  BY QueuesTyped DEF Changes
<1>3. /\ due' \in Seq(Changes) /\ \A x : Has(due, x) => Has(due', x)
      /\ Suspends(due) => Suspends(due')
      /\ NeverReactivates(due) => NeverReactivates(due')
  BY <1>2, QueueAppend
<1>4. ChangesTyped' /\ EpochsBehind'
  BY <1>3 DEF SignInInv, ChangesInv, ChangesTyped, EpochsBehind
<1>5. \A c \in Conns, x \in Changes : Coming(c, x) => Coming(c, x)'
  BY <1>3, ComingHas, ComingHasNext
<1>6. \A c \in Conns : Has(due', "revoke") => Coming(c, "revoke")'
  BY ComingHasNext
<1>7. VerifiedStands'
  <2> SUFFICES ASSUME NEW k \in checks, Live(k), k.state = "verified"
               PROVE  /\ k.cred = "password" /\ k.version < store.password =>
                             Coming(k.conn, "password")' \/ Since(k.conn, "account")
                      /\ k.cred = "issued" /\ ~store.issued =>
                             \/ Coming(k.conn, "revoke")' \/ Since(k.conn, "issued")
                             \/ Since(k.conn, "every") \/ WillRefuse(k.conn)'
    BY <1>1 DEF VerifiedStands, Since, WillRefuse
  <2>1. k.conn \in Conns /\ "password" \in Changes
    BY <1>1 DEF Changes
  <2>2. /\ k.cred = "password" /\ k.version < store.password =>
               Coming(k.conn, "password") \/ Since(k.conn, "account")
        /\ k.cred = "issued" /\ ~store.issued =>
               \/ Coming(k.conn, "revoke") \/ Since(k.conn, "issued") \/ Since(k.conn, "every")
               \/ WillRefuse(k.conn)
    BY DEF SignInInv, ChangesInv, VerifiedStands, WillRefuse
  <2> QED
    BY <1>2, <1>5, <2>1, <2>2
<1>8. SuspensionOK'
  BY <1>3 DEF SignInInv, ChangesInv, SuspensionOK, SuspensionHeard
<1>9. LoginHolds'
  <2> SUFFICES ASSUME NEW c \in Conns
               PROVE  /\ login[c].how = "password" /\ login[c].version < store.password =>
                             Coming(c, "password")'
                      /\ login[c].how = "issued" /\ ~store.issued =>
                             Coming(c, "revoke")' \/ WillRead'
    BY DEF LoginHolds, WillRead
  <2>1. /\ login[c].how = "password" /\ login[c].version < store.password => Coming(c, "password")
        /\ login[c].how = "issued" /\ ~store.issued => Coming(c, "revoke") \/ WillRead
    BY DEF SignInInv, ChangesInv, LoginHolds, WillRead
  <2> QED
    BY <1>2, <1>5, <1>6, <2>1 DEF Changes
<1> QED
  BY <1>1, <1>4, <1>7, <1>8, <1>9 DEF SignInInv, ChangesInv

LEMMA ListenerStep ==
    ASSUME SignInInv, Lose \/ Reconnect \/ ReadHeld \/ ReadStored
    PROVE  SignInInv'
<1>0. /\ listener \in ListenerState /\ DownForgets /\ due \in Seq(Changes) /\ "revoke" \in Changes
  BY QueuesTyped DEF SignInInv, ChangesInv, ChangesTyped, Changes
<1>1. UNCHANGED <<session, login, checks, inbox, held, store, shard>>
  BY DEF Lose, Reconnect, ReadHeld, ReadStored, ByListener
<1>2. CASE Lose
  <2>1. listener' = [state |-> "down", answered |-> {}, held |-> FALSE] /\ due' = due
    BY <1>2 DEF Lose
  <2>2. listener' \in ListenerState /\ listener'.state = "down" /\ DownForgets'
    BY <2>1 DEF DownForgets, ListenerState
  <2>3. WillRead' /\ \A c \in Conns : WillRefuse(c)'
    BY <2>2 DEF WillRead, WillRefuse
  <2> QED
    BY <1>1, <2>1, <2>2, <2>3, ListenerKeeps
<1>3. CASE Reconnect
  <2>1. /\ listener.state = "down" /\ listener' = [listener EXCEPT !.state = "refusing"] /\ due' = due
        /\ listener.answered = {}
    BY <1>0, <1>3 DEF Reconnect, Listening, DownForgets
  <2>2. /\ listener' \in ListenerState /\ listener'.state = "refusing" /\ listener'.answered = {}
        /\ DownForgets'
    BY <1>0, <2>1 DEF DownForgets, ListenerState
  <2>3. WillRead' /\ \A c \in Conns : WillRefuse(c)'
    BY <2>2 DEF WillRead, WillRefuse
  <2> QED
    BY <1>1, <2>1, <2>2, <2>3, ListenerKeeps
<1>4. CASE ReadHeld
  <2>1. PICK b : b = (held > 0)
    OBVIOUS
  <2>2. /\ listener.state = "refusing" /\ listener.answered = Shards /\ due' = due
        /\ listener' = [listener EXCEPT !.state = "held", !.held = b]
    BY <1>4, <2>1, Zenon DEF ReadHeld, EveryShardAnswered
  <2>3. listener' \in ListenerState /\ listener'.state = "held" /\ listener'.held = b /\ DownForgets'
    <3>1. b \in BOOLEAN
      BY <2>1
    <3> QED
      BY <1>0, <2>2, <3>1 DEF DownForgets, ListenerState
  <2>4. \A c \in Conns : ~WillRefuse(c)
    BY <2>2, NumbersTyped DEF WillRefuse
  <2>5. ASSUME NEW c \in Conns, login[c].how = "issued"
        PROVE  WillRead'
    <3>1. held = Cardinality(Holders(login))
      BY HeldCount DEF SignInInv, SessionsInv
    <3>2. c \in Holders(login)
      BY <2>5 DEF Holders, IsIssued
    <3>3. IsFiniteSet(Holders(login)) /\ Cardinality(Holders(login)) \in Nat
      BY HoldersFinite
    <3>4. Cardinality(Holders(login)) # 0
      BY <3>2, <3>3, FS_EmptySet
    <3>5. held > 0
      BY <3>1, <3>3, <3>4
    <3> QED
      BY <2>1, <2>3, <3>5 DEF WillRead
  <2> QED
    BY <1>1, <2>2, <2>3, <2>4, <2>5, ListenerKeeps
<1>5. CASE ReadStored
  <2>1. /\ listener.state = "held"
        /\ due' = IF listener.held /\ ~store.issued THEN Append(due, "revoke") ELSE due
        /\ listener' = [state |-> "up", answered |-> {}, held |-> FALSE]
    BY <1>5 DEF ReadStored
  <2>2. /\ listener' \in ListenerState /\ DownForgets' /\ Has(Append(due, "revoke"), "revoke")
    BY <1>0, <2>1, QueueAppend DEF DownForgets, ListenerState
  <2>3. (\A c \in Conns : ~WillRefuse(c)) /\ (WillRead => listener.held)
    BY <2>1 DEF WillRefuse, WillRead
  <2>4. WillRead /\ ~store.issued => Has(due', "revoke")
    BY <2>1, <2>2, <2>3
  <2> QED
    BY <1>1, <2>1, <2>2, <2>3, <2>4, ListenerKeeps
<1> QED
  BY <1>2, <1>3, <1>4, <1>5

LEMMA SignInInit == Init => SignInInv
<1> SUFFICES ASSUME Init
             PROVE  SignInInv
  OBVIOUS
<1>1. /\ login = [c \in Conns |-> NoLogin] /\ checks = {} /\ held = 0 /\ due = <<>>
      /\ shard = [s \in Shards |-> [suspended |-> FALSE, epoch |-> 0, ended |-> [e \in Ends |-> 0]]]
      /\ inbox = [s \in Shards |-> <<>>]
      /\ store = [password |-> 1, issued |-> TRUE, suspended |-> FALSE]
      /\ listener = [state |-> "up", answered |-> {}, held |-> FALSE]
  BY DEF Init
<1>2. \A c \in Conns : /\ session[c] \in Session /\ session[c].on /\ session[c].epoch = 0
                       /\ Sound(session[c])
  <2>1. /\ Sound(Opened) /\ Opened.on /\ Opened.epoch = 0
        /\ LET w == [Opened EXCEPT !.negotiating = FALSE, !.named = TRUE, !.registered = TRUE]
           IN  w \in Session /\ Sound(w) /\ w.on /\ w.epoch = 0
    BY ClosedSession DEF Opened, Session, Sound, Waits
  <2> QED
    BY <2>1, ClosedSession DEF Init
<1>3. SessionsTyped
  <2>1. session \in [Conns -> Session]
    BY <1>2 DEF Init
  <2> QED
    BY <1>1, <2>1, LoginKinds DEF SessionsTyped
<1>4. SessionsSound /\ ChecksMarked
  BY <1>1, <1>2 DEF SessionsSound, ChecksMarked
<1>5. HeldIsExact
  <2>1. Holders(login) = {}
    BY <1>1 DEF Holders, IsIssued, NoLogin
  <2> QED
    BY <1>1, <1>4, <2>1, HeldCount, FS_EmptySet
<1>6. ChangesTyped
  <2>1. <<>> \in Seq(Changes)
    BY EmptySeq
  <2> QED
    BY <1>1, <2>1 DEF ChangesTyped, ShardState, ListenerState
<1>7. EpochsBehind
  BY <1>1, <1>2, SignInAssumption DEF EpochsBehind
<1>8. VerifiedStands /\ DownForgets /\ SuspensionOK /\ LoginHolds
  BY <1>1, SignInAssumption, LoginKinds
     DEF VerifiedStands, DownForgets, SuspensionOK, LoginHolds, Credentials
<1> QED
  BY <1>1, <1>3, <1>4, <1>5, <1>6, <1>7, <1>8 DEF SignInInv, SessionsInv, ChangesInv

\* Signing in keeps its invariant, over every command, verdict, change of the
\* account and reconnection of the listener.
THEOREM SignInInvariant == Spec => []SignInInv
<1>1. SignInInv /\ [Next]_vars => SignInInv'
  <2> SUFFICES ASSUME SignInInv, [Next]_vars
               PROVE  SignInInv'
    OBVIOUS
  <2>1. CASE UNCHANGED vars
    <3>1. SessionsInv' /\ Calm /\ Unchanging
      BY <2>1, FewerChecks DEF vars, Unchanging, SignInInv
    <3> QED
      BY <3>1, CalmKeeps
  <2>2. ASSUME NEW change \in {"password", "suspend", "reactivate", "revoke"}, Commit(change)
        PROVE  SignInInv'
    BY <2>2, CommitStep DEF Changes
  <2> QED
    BY <2>1, <2>2, ClientStep, CheckReadStep, VerdictStep, CreationStep, ApplyStep, AppliedStep,
       RefuseStep, ListenerStep DEF Next
<1> QED
  BY <1>1, SignInInit, PTL DEF Spec

\* A login that no longer stands in the store has its end on the way, whichever
\* verdicts and changes crossed (stale_verdict, refuse_verdicts_in_flight).
THEOREM LoginsStand == Spec => []LoginStands
<1>1. SignInInv => LoginStands
  <2> SUFFICES ASSUME SignInInv, NEW c \in Conns, login[c].how \in Credentials
               PROVE  /\ store.suspended => Coming(c, "suspend")
                      /\ login[c].how = "password" /\ login[c].version < store.password =>
                             Coming(c, "password")
                      /\ login[c].how = "issued" /\ ~store.issued =>
                             \/ Coming(c, "revoke")
                             \/ listener.state \in {"down", "refusing"}
                             \/ listener.state = "held" /\ listener.held
    BY DEF LoginStands
  <2>1. ASSUME store.suspended
        PROVE  Coming(c, "suspend")
    <3>1. SuspensionHeard(Home[c]) /\ ~shard[Home[c]].suspended
      BY <2>1, NumbersTyped DEF SignInInv, ChangesInv, SuspensionOK
    <3>2. Suspends(due) \/ Suspends(inbox[Home[c]])
      BY <3>1 DEF SuspensionHeard
    <3>3. Has(due, "suspend") \/ Has(inbox[Home[c]], "suspend")
      BY <3>2 DEF Suspends, Has
    <3> QED
      BY <3>3, ComingHas
  <2> QED
    BY <2>1 DEF SignInInv, ChangesInv, LoginHolds
<1> QED
  BY <1>1, SignInInvariant, PTL

\* The credentials the listener asks about are those live sessions signed in
\* with (SignedInCredentials).
THEOREM HeldStaysExact == Spec => []HeldIsExact
<1>1. SignInInv => HeldIsExact
  BY DEF SignInInv, SessionsInv
<1> QED
  BY <1>1, SignInInvariant, PTL

\* A session that waits for nothing is registered, unless its verdict left
\* db_reply by one of the early returns (maybe_complete_registration).
THEOREM RegistrationWaitsForAVerdict == Spec => []CompletesUnlessDropped
<1>1. SignInInv => CompletesUnlessDropped
  <2> SUFFICES ASSUME SignInInv, NEW c \in Conns, Waits(session[c])
               PROVE  session[c].skipped
    BY DEF CompletesUnlessDropped
  <2>1. session[c].on
    BY DEF Waits
  <2> QED
    BY <2>1 DEF SignInInv, SessionsInv, SessionsSound, Sound
<1> QED
  BY <1>1, SignInInvariant, PTL

\* A verdict signs in only for the attempt the client awaits (sasl_verify,
\* db_reply): a verdict of an aborted exchange, or of an earlier one, does not.
THEOREM VerdictsAnswer == Spec => VerdictAnswersItsAttempt
<1> DEFINE Step == \A c \in Conns :
             login'[c] # login[c] /\ login'[c].how \in Credentials =>
                 login'[c].attempt = session[c].awaits
<1>1. SignInInv /\ [Next]_vars => [Step]_vars
  <2> SUFFICES ASSUME SignInInv, Next
               PROVE  Step
    OBVIOUS
  <2>1. CalmLogins => Step
    BY DEF CalmLogins
  <2> HIDE DEF Step
  <2>2. ASSUME NEW k \in checks, VerdictLands(k)
        PROVE  Step
    <3>1. CalmLogins \/ (Live(k) /\ SignsIn(k))
      BY <2>2, VerdictKeeps DEF SignInInv
    <3>2. ASSUME Live(k), SignsIn(k)
          PROVE  Step
      <4>1. Marked(k) /\ k \in CredentialCheck /\ login \in [Conns -> Logins]
        BY <3>2 DEF SignInInv, SessionsInv, SessionsTyped, ChecksMarked
      <4>2. session[k.conn].awaits = k.attempt
        BY <3>2, <4>1 DEF Marked, SignsIn, Abandoned, CredentialCheck, Live
      <4>3. login'[k.conn] = NewLogin(k) /\ \A d \in Conns \ {k.conn} : login'[d] = login[d]
        BY <3>2, <4>1 DEF SignsIn, CredentialCheck
      <4>4. NewLogin(k).attempt = k.attempt
        BY DEF NewLogin
      <4> QED
        BY <4>2, <4>3, <4>4 DEF Step
    <3> QED
      BY <2>1, <3>1, <3>2
  <2>3. ASSUME NEW s \in Shards, NEW h, ApplyAt(s, h), UNCHANGED checks
        PROVE  CalmLogins
    <3>1. h \in Changes
      BY <2>3 DEF ApplyAt, Changes
    <3>2. \A d \in Conns : login'[d] = login[d] \/ login'[d] = NoLogin
      BY <2>3, <3>1, ApplyAtKeeps
    <3> QED
      BY <3>2, LoginKinds DEF CalmLogins
  <2>4. CASE Apply
    BY <2>1, <2>3, <2>4, SignInAssumption DEF Apply
  <2>5. ASSUME NEW s \in Shards, Applied(s)
        PROVE  Step
    BY <2>1, <2>3, <2>5 DEF Applied
  <2>6. ASSUME NEW c \in Conns, Client(c)
        PROVE  Step
    BY <2>1, <2>6, ClientKeeps, NumbersTyped DEF SignInInv, Calm
  <2>7. ASSUME NEW k \in checks, CheckRead(k) \/ CreationLands(k)
        PROVE  Step
    BY <2>1, <2>7, CheckReadKeeps, CreationKeeps DEF SignInInv, Calm
  <2>8. ASSUME UNCHANGED login
        PROVE  Step
    BY <2>1, <2>8 DEF CalmLogins
  <2> QED
    BY <2>2, <2>4, <2>5, <2>6, <2>7, <2>8
       DEF Next, Commit, RefuseVerdicts, Lose, Reconnect, ReadHeld, ReadStored, ByListener
<1>2. VerdictAnswersItsAttempt <=> [][Step]_vars
  BY DEF VerdictAnswersItsAttempt
<1> QED
  BY <1>1, <1>2, SignInInvariant, PTL DEF Spec
=============================================================================
