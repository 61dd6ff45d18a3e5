--------------------------- MODULE AccountAuthority ---------------------------
(***************************************************************************)
(* An account's authority and the bouncer attachments that live by it:      *)
(* AccountRevocations (crates/e6ircd/src/bouncer/account_lease.rs), the      *)
(* AuthorityLedger and the watcher of the store's announcements              *)
(* (account_authority.rs, db/announcements.rs), the changes this server      *)
(* makes on its mutation lane (http/mod.rs, account_deletion.rs) and those   *)
(* another process commits.                                                  *)
(*                                                                         *)
(* One account, known to the ledger since boot, its password and its issued  *)
(* credentials (app passwords).  Every lock section is one action; a step    *)
(* that awaits the database ends one.  The core's sessions, which follow the *)
(* same steps with epochs of their own, and the networks are left out.       *)
(***************************************************************************)
EXTENDS Integers, Sequences, FiniteSets, SequencesExt

CONSTANTS
    Clients,        \* clients of the attach listener, each attaching once
    Issued,         \* the account's app passwords
    Password,       \* its primary password, as a credential
    MaxChanges,     \* bound: counted changes of the account's row, and
                    \* deletions and repeats begun here
    MaxLost         \* bound: times the listener's connection is lost

ASSUME AuthorityAssumption ==
    /\ IsFiniteSet(Clients) /\ IsFiniteSet(Issued) /\ Password \notin Issued
    /\ {"Account", "Every"} \cap (Issued \cup {Password}) = {}
    /\ MaxChanges \in Nat /\ MaxLost \in Nat

VARIABLES
    \* The store.
    row,            \* the account: its authority_generation, and whether it is
                    \* suspended or deleted
    stored,         \* the issued credentials not revoked
    notes,          \* announcements the listener has yet to hear
    \* AccountRevocations.
    epoch, revokedAt,
    client,         \* each attach: where it is, the epoch of its ticket, the
                    \* credential it signed in with and the generation of the
                    \* account when that was checked
    \* The ledger, and the turn on the mutation lane.
    ledger, lane,
    read,           \* the row as the turn under way read it
    changed,        \* password changes committed here that await their turn
    uncounted,      \* deletions begun here, and standings set that were set already
    passedOver,     \* a history: the clients signed in when a turn recorded a
                    \* change as applied that neither it nor one before it applied
    \* AccountAuthorityWatcher.
    watcher, held, losses

storeVars == <<row, stored, notes>>
attachVars == <<epoch, revokedAt, client>>
laneVars == <<ledger, lane, read, changed, uncounted, passedOver>>
watcherVars == <<watcher, held, losses>>
vars == <<storeVars, attachVars, laneVars, watcherVars>>

Standings == {"Active", "Suspended", "Deleted"}
Authority == [generation : Nat, standing : Standings]
Unread == [generation |-> 0, standing |-> "Active"]

Revocable == {"Account", "Every"} \cup Issued

Client(at, ticket, credential, checkedAt) ==
    [at |-> at, ticket |-> ticket, credential |-> credential, checkedAt |-> checkedAt]
New == Client("new", 0, Password, 0)
Over == Client("over", 0, Password, 0)
Attached(k) == client[k].at = "attached"

Init ==
    /\ row = [generation |-> 0, standing |-> "Active"] /\ stored = Issued /\ notes = <<>>
    /\ epoch = 0 /\ revokedAt = [x \in Revocable |-> 0]
    /\ client = [k \in Clients |-> New]
    /\ ledger = row /\ lane = "free" /\ read = Unread /\ changed = {} /\ uncounted = 0
    /\ passedOver = {}
    /\ watcher = "listening" /\ held = {} /\ losses = 0

-----------------------------------------------------------------------------
\* AccountRevocations, by its lock sections.

\* RevocationState::prune, over the tickets the clients in `outstanding` hold.
Pruned(at, outstanding) ==
    [x \in Revocable |->
        IF \A k \in outstanding : at[x] <= client[k].ticket THEN 0 ELSE at[x]]

Outstanding == {k \in Clients : client[k].at \in {"handshake", "verified"}}

\* RevocationState::revoke.
Revoke(what, ends) ==
    /\ epoch' = epoch + 1
    /\ revokedAt' = Pruned([revokedAt EXCEPT ![what] = epoch + 1], Outstanding)
    /\ client' = [k \in Clients |-> IF Attached(k) /\ k \in ends THEN Over ELSE client[k]]

SignedInWith(c) == {k \in Clients : client[k].credential = c}
RevokeAccount == Revoke("Account", Clients)

\* bnc_serve: the ticket is taken before anything is checked.
TakeTicket(k) ==
    /\ client[k].at = "new"
    /\ client' = [client EXCEPT ![k] = Client("handshake", epoch, Password, 0)]
    /\ UNCHANGED <<epoch, revokedAt, storeVars, laneVars, watcherVars>>

\* verify_credentials: of an active account, against the store as it is now.
Verify(k, c) ==
    /\ client[k].at = "handshake"
    /\ row.standing = "Active" /\ c \in stored \cup {Password}
    /\ client' = [client EXCEPT ![k] = Client("verified", @.ticket, c, row.generation)]
    /\ UNCHANGED <<epoch, revokedAt, storeVars, laneVars, watcherVars>>

\* The handshake fails, times out or is closed; or an attachment detaches.
Leave(k) ==
    /\ client[k].at \in {"handshake", "verified", "attached"}
    /\ client' = [client EXCEPT ![k] = Over]
    /\ revokedAt' = IF Attached(k) THEN revokedAt ELSE Pruned(revokedAt, Outstanding \ {k})
    /\ UNCHANGED <<epoch, storeVars, laneVars, watcherVars>>

RevokedSince(k, what) == revokedAt[what] > client[k].ticket

MutLeaseInFlight(k) ==
    /\ client[k].at = "verified"
    /\ client' = [client EXCEPT ![k] =
          IF \E what \in {"Account", client[k].credential} \ {Password} : RevokedSince(k, what)
          THEN Over ELSE Client("attached", 0, @.credential, @.checkedAt)]
    /\ revokedAt' = Pruned(revokedAt, Outstanding \ {k})
    /\ UNCHANGED <<epoch, storeVars, laneVars, watcherVars>>

\* AccountRevocations::lease spends the ticket: a lease, or a refusal.
Lease(k) ==
    /\ client[k].at = "verified"
    /\ client' = [client EXCEPT ![k] =
          IF \E what \in {"Account", "Every", client[k].credential} \ {Password} : RevokedSince(k, what)
          THEN Over ELSE Client("attached", 0, @.credential, @.checkedAt)]
    /\ revokedAt' = Pruned(revokedAt, Outstanding \ {k})
    /\ UNCHANGED <<epoch, storeVars, laneVars, watcherVars>>

-----------------------------------------------------------------------------
\* The store: committed changes, and what its triggers announce.

Hears == watcher # "lost"
Announce(announced) == notes' = IF Hears THEN notes \o announced ELSE notes

CommitAccount(standing) ==
    /\ row.standing # "Deleted" /\ row.generation + uncounted < MaxChanges
    /\ row' = [generation |-> row.generation + 1, standing |-> standing]
    /\ Announce(<<"Account">>)
    /\ UNCHANGED stored

\* A deletion takes the credentials with it, by cascade.
CommitDeletion ==
    /\ row.standing # "Deleted"
    /\ row' = [row EXCEPT !.standing = "Deleted"]
    /\ stored' = {}
    /\ \E order \in SetToSeqs(stored) : Announce(order \o <<"Account">>)

\* The revocation of an app password, by whichever process.
RevokeCredential(c) ==
    /\ c \in stored
    /\ stored' = stored \ {c}
    /\ Announce(<<c>>)
    /\ UNCHANGED <<row, attachVars, laneVars, watcherVars>>

\* recover-administrator, a process of its own, on an active account: its
\* credentials go, the password as the others, and a new password comes.
RecoverAdministrator ==
    /\ row.standing = "Active" /\ row.generation + uncounted + 1 < MaxChanges
    /\ row' = [row EXCEPT !.generation = @ + 2]
    /\ stored' = {}
    /\ \E order \in SetToSeqs(stored \cup {"Account"}) : Announce(order)
    /\ UNCHANGED <<attachVars, laneVars, watcherVars>>

\* An operator's SQL changes the row: a password, the standing, or all of it.
ChangedElsewhere ==
    /\ \/ \E standing \in {"Active", "Suspended"} : CommitAccount(standing)
       \/ CommitDeletion
    /\ UNCHANGED <<attachVars, laneVars, watcherVars>>

-----------------------------------------------------------------------------
\* Changes this server makes.

\* A standing the account already has: nothing is counted or announced.
Repeat ==
    /\ row.generation + uncounted < MaxChanges
    /\ uncounted' = uncounted + 1

\* A suspension or a reactivation: committed on the lane, then recorded and
\* applied in the same turn (account_suspension_in_lane), which ends there when
\* the answer to the commit is lost.
SuspensionCommits(standing) ==
    /\ lane = "free" /\ row.standing # "Deleted"
    /\ IF standing # row.standing
       THEN CommitAccount(standing) /\ UNCHANGED uncounted
       ELSE Repeat /\ UNCHANGED storeVars
    /\ \/ lane' = "suspension" /\ read' = row'
       \/ UNCHANGED <<lane, read>>
    /\ UNCHANGED <<attachVars, ledger, changed, passedOver, watcherVars>>

SignedIn == {k \in Clients : client[k].at \in {"verified", "attached"}}

\* `read` is recorded and nothing ended.  Right if the ledger knew the account
\* suspended and this is the next change of it; else it counts one not applied.
RecordOnly ==
    /\ UNCHANGED attachVars
    /\ passedOver' =
          IF ledger.standing = "Suspended" /\ read.generation = ledger.generation + 1
          THEN passedOver
          ELSE passedOver \cup {k \in SignedIn : client[k].checkedAt < read.generation}

SuspensionApplies ==
    /\ lane = "suspension"
    /\ lane' = "free" /\ read' = Unread
    /\ ledger' = read
    /\ IF read.standing = "Suspended" THEN RevokeAccount /\ UNCHANGED passedOver
                                      ELSE RecordOnly
    /\ UNCHANGED <<storeVars, changed, uncounted, watcherVars>>

\* A password change: committed by the request, then, once that is answered,
\* given a turn on the lane (end_sessions_after_password_change).
PasswordCommits ==
    /\ row.standing = "Active" /\ CommitAccount("Active")
    /\ changed' \in {changed, changed \cup {row'}}
    /\ UNCHANGED <<attachVars, ledger, lane, read, uncounted, passedOver, watcherVars>>

PasswordApplies ==
    /\ lane = "free"
    /\ \E authority \in changed :
          /\ ledger' = authority
          /\ changed' = changed \ {authority}
    /\ RevokeAccount
    /\ UNCHANGED <<storeVars, lane, read, uncounted, passedOver, watcherVars>>

\* A deletion (delete_in_lane): attachments end, then the rows go, or stay.
DeletionRevokes ==
    /\ lane = "free" /\ row.standing # "Deleted" /\ row.generation + uncounted < MaxChanges
    /\ lane' = "deletion" /\ uncounted' = uncounted + 1
    /\ RevokeAccount
    /\ UNCHANGED <<storeVars, ledger, read, changed, passedOver, watcherVars>>

\* Recorded as applied, though who signed in meanwhile was not ended.
DeletionCommits ==
    /\ lane = "deletion"
    /\ lane' = "free"
    /\ \/ CommitDeletion
       \/ row.standing = "Deleted" /\ UNCHANGED storeVars
    /\ ledger' = [ledger EXCEPT !.standing = "Deleted"]
    /\ passedOver' = passedOver \cup SignedIn
    /\ UNCHANGED <<attachVars, read, changed, uncounted, watcherVars>>

\* The database refuses it, or its answer is lost.
DeletionFails ==
    /\ lane = "deletion"
    /\ lane' = "free"
    /\ CommitDeletion \/ UNCHANGED storeVars
    /\ UNCHANGED <<attachVars, ledger, read, changed, uncounted, passedOver, watcherVars>>

-----------------------------------------------------------------------------
\* The watcher: follow_announcements and AccountAuthorityWatcher.

MutStepSuspensionsOnly ==
    IF \/ ledger.standing = "Deleted"
       \/ read.standing # "Deleted" /\ read.generation <= ledger.generation
    THEN UNCHANGED <<ledger, passedOver, attachVars>>
    ELSE /\ ledger' = read
         /\ IF read.standing = "Suspended" THEN RevokeAccount /\ UNCHANGED passedOver
                                           ELSE UNCHANGED <<attachVars, passedOver>>

\* AuthorityLedger::step on the row as it was read, and Handles::apply.
Step ==
    IF \/ ledger.standing = "Deleted"
       \/ read.standing # "Deleted" /\ read.generation <= ledger.generation
    THEN UNCHANGED <<ledger, passedOver, attachVars>>
    ELSE /\ ledger' = read
         /\ IF read.standing = "Deleted" \/ ledger.standing = "Active"
            THEN RevokeAccount /\ UNCHANGED passedOver
            ELSE RecordOnly

\* on_change with an issued credential: end_credential_here, off the lane.
HearRevoked ==
    /\ watcher = "listening" /\ notes # <<>> /\ Head(notes) \in Issued
    /\ notes' = Tail(notes)
    /\ Revoke(Head(notes), SignedInWith(Head(notes)))
    /\ UNCHANGED <<row, stored, laneVars, watcherVars>>

\* on_change with the account: follow, on the lane, reads its row ...
FollowReads ==
    /\ watcher = "listening" /\ notes # <<>> /\ Head(notes) = "Account" /\ lane = "free"
    /\ notes' = Tail(notes)
    /\ lane' = "follow" /\ read' = row
    /\ UNCHANGED <<row, stored, attachVars, ledger, changed, uncounted, passedOver, watcherVars>>

\* ... and applies what it asks.
FollowApplies ==
    /\ lane = "follow"
    /\ lane' = "free" /\ read' = Unread
    /\ Step
    /\ UNCHANGED <<storeVars, changed, uncounted, watcherVars>>

\* The connection is lost, or something could not be read: what is announced
\* from now on is not heard.
ListenerLost ==
    /\ watcher # "lost" /\ lane \notin {"follow", "resynchronize"} /\ losses < MaxLost
    /\ losses' = losses + 1
    /\ watcher' = "lost" /\ notes' = <<>> /\ held' = {}
    /\ UNCHANGED <<row, stored, attachVars, laneVars>>

Reconnect ==
    /\ watcher = "lost"
    /\ watcher' = "settle"
    /\ UNCHANGED <<storeVars, attachVars, laneVars, held, losses>>

\* Follower::reconnected, before anything is re-read: refuse_in_flight.
Settle ==
    /\ watcher = "settle"
    /\ watcher' = "accounts"
    /\ Revoke("Every", {})
    /\ UNCHANGED <<storeVars, laneVars, held, losses>>

\* resynchronize: the accounts, on the lane ...
ResynchronizeReads ==
    /\ watcher = "accounts" /\ lane = "free"
    /\ lane' = "resynchronize" /\ read' = row
    /\ UNCHANGED <<storeVars, attachVars, ledger, changed, uncounted, passedOver, watcherVars>>

ResynchronizeApplies ==
    /\ lane = "resynchronize"
    /\ lane' = "free" /\ read' = Unread /\ watcher' = "credentials"
    /\ Step
    /\ UNCHANGED <<storeVars, changed, uncounted, held, losses>>

\* ... then the issued credentials: the ones held here first, then which of
\* them are no longer stored, which are ended one by one.
HeldCredentials ==
    /\ watcher = "credentials"
    /\ held' = {client[k].credential : k \in {j \in Clients : Attached(j)}} \cap Issued
    /\ watcher' = "stored"
    /\ UNCHANGED <<storeVars, attachVars, laneVars, losses>>

ReadStored ==
    /\ watcher = "stored"
    /\ held' = held \ stored
    /\ watcher' = "ending"
    /\ UNCHANGED <<storeVars, attachVars, laneVars, losses>>

EndUnstored ==
    /\ watcher = "ending"
    /\ IF held = {}
       THEN watcher' = "listening" /\ UNCHANGED <<held, attachVars>>
       ELSE \E c \in held :
              /\ Revoke(c, SignedInWith(c))
              /\ held' = held \ {c}
              /\ UNCHANGED watcher
    /\ UNCHANGED <<storeVars, laneVars, losses>>

-----------------------------------------------------------------------------

Next ==
    \/ \E k \in Clients :
          \/ TakeTicket(k) \/ Lease(k) \/ Leave(k)
          \/ \E c \in Issued \cup {Password} : Verify(k, c)
    \/ \E c \in Issued : RevokeCredential(c)
    \/ RecoverAdministrator \/ ChangedElsewhere
    \/ \E standing \in {"Active", "Suspended"} : SuspensionCommits(standing)
    \/ SuspensionApplies \/ PasswordCommits \/ PasswordApplies
    \/ DeletionRevokes \/ DeletionCommits \/ DeletionFails
    \/ HearRevoked \/ FollowReads \/ FollowApplies
    \/ ListenerLost \/ Reconnect \/ Settle
    \/ ResynchronizeReads \/ ResynchronizeApplies
    \/ HeldCredentials \/ ReadStored \/ EndUnstored

Spec == Init /\ [][Next]_vars

-----------------------------------------------------------------------------

TypeOK ==
    /\ row \in Authority /\ ledger \in Authority /\ read \in Authority
    /\ stored \subseteq Issued /\ notes \in Seq({"Account"} \cup Issued)
    /\ epoch \in Nat /\ revokedAt \in [Revocable -> 0 .. epoch]
    /\ client \in [Clients -> [at : {"new", "handshake", "verified", "attached", "over"},
                               ticket : 0 .. epoch, credential : Issued \cup {Password},
                               checkedAt : 0 .. row.generation]]
    /\ lane \in {"free", "suspension", "deletion", "follow", "resynchronize"}
    /\ changed \subseteq Authority /\ passedOver \subseteq Clients
    /\ watcher \in {"listening", "lost", "settle", "accounts", "credentials", "stored", "ending"}
    /\ held \subseteq Issued

Announced(x) == \E i \in DOMAIN notes : notes[i] = x

\* "A revocation ends exactly the IRC sessions and attachments that credential
\* signed in, whichever process revoked it": an attachment that a revoked app
\* password signed in is one whose end is on its way, in an announcement, in a
\* re-read after the listener was lost, or in what that found.
RevocationReaches ==
    \A k \in Clients :
        Attached(k) /\ client[k].credential \in Issued \ stored =>
            \/ Announced(client[k].credential)
            \/ watcher \in {"lost", "settle", "accounts", "credentials"}
            \/ client[k].credential \in held

\* The attachment was checked against an account that has changed since.
Outdated(k) == client[k].checkedAt < row.generation \/ row.standing = "Deleted"

\* The account's change is still to be applied here.
ChangeComing ==
    \/ Announced("Account")
    \/ watcher \in {"lost", "settle", "accounts"}
    \/ lane \in {"follow", "resynchronize"} /\ read # ledger
    \/ lane = "suspension" \/ changed # {}

\* "The account's IRC sessions and bouncer attachments live in the serving
\* process, which must end them either way": an attachment whose credential was
\* checked before the account's authority changed is one this server has yet to
\* end, but for those it passed over: by recording, at a reactivation, a change
\* that was only announced; by reading several changes of a suspended account
\* as one; or by signing in while a deletion here was under way.
ChangeReaches ==
    \A k \in Clients \ passedOver : Attached(k) /\ Outdated(k) => ChangeComing

\* "Every attachment the account holds ends ... and a password checked while
\* this ran cannot open another": once this server has deleted the account, no
\* attachment of it is left.
AttachmentsEndWithTheAccount ==
    ledger.standing = "Deleted" /\ row.standing = "Deleted"
        => \A k \in Clients : ~Attached(k)
=============================================================================
