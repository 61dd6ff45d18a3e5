---------------------------- MODULE ServingLease ----------------------------
(***************************************************************************)
(* One serving process per database: crates/e6ircd/src/serving_lease.rs,    *)
(* the row and the backend table of migrations/0098_serving_lease.sql, and  *)
(* the pool's after-connect check (db.rs).                                  *)
(*                                                                         *)
(* Time is one clock.  PostgreSQL's now() is when a transaction began, so a *)
(* statement carries that time and may be applied later, once it has the    *)
(* row's lock.  Hosts' clocks are never compared: a process only measures   *)
(* durations, from when its own request started.                            *)
(*                                                                         *)
(* A process is one HolderId: a restarted one is another member of Procs.   *)
(*                                                                         *)
(* Every process connects as the same database role, as deploy/README.md    *)
(* requires ("Every process must connect as the same database role"): over  *)
(* connections its role cannot see (hidden > 0) acquire() commits all the   *)
(* same and says so, and NoWriteAfterTakeover would not hold.               *)
(***************************************************************************)
EXTENDS Integers, FiniteSets

CONSTANTS
    Procs, NoOne,
    Ttl,            \* LEASE_TTL
    RenewEvery,     \* RENEW_INTERVAL
    FenceAfter,     \* FENCE_AFTER
    LockWait,       \* LEASE_LOCK_TIMEOUT: how stale now() is when applied
    TimerSlack,     \* how late a due timer's task may run
    MaxTime, MaxInFlight    \* bounds: the clock, renewals in flight of a process

ASSUME LeaseAssumption ==
    /\ NoOne \notin Procs
    /\ Ttl \in Nat /\ RenewEvery \in Nat \ {0} /\ FenceAfter \in Nat
    /\ LockWait \in Nat /\ TimerSlack \in Nat \ {0}
    /\ MaxTime \in Nat /\ MaxInFlight \in Nat
    /\ RenewEvery <= FenceAfter
    /\ FenceAfter + TimerSlack + LockWait <= Ttl

VARIABLES
    now,
    holder, epoch, renewedAt,   \* the row of serving_lease
    lock,           \* the process whose takeover holds the row's lock, or NoOne
    conn,           \* epoch at which the open pool connections of a process
                    \* were recorded in serving_lease_backends; 0 for none
    standing,       \* where each process is (LeaseStanding once it has acquired)
    myEpoch,        \* ServingLease::epoch
    started,        \* when its latest request started
    confirmed,      \* Renewal::confirmed
    txAt,           \* now() of its takeover's transaction
    reply,          \* its renewal: "idle" when none is awaited, "awaited", or the
                    \* answer the database gave
    stmts           \* renewals sent and not yet applied, awaited or not

row == <<holder, epoch, renewedAt, lock>>
client == <<standing, myEpoch, started, confirmed, txAt, reply>>
vars == <<now, row, conn, client, stmts>>

Acquiring == {"connecting", "begun", "taking", "committed"}
Standings == Acquiring \cup
    {"standby", "held", "unconfirmed", "releasing", "ended", "down"}

\* `at` is -1 until the statement has begun at the database.
Statements == [by: Procs, epoch: Nat, started: Nat, at: Nat \cup {-1}]

Init ==
    /\ now = 0
    /\ holder = NoOne /\ epoch = 0 /\ renewedAt = 0 /\ lock = NoOne
    /\ conn = [p \in Procs |-> 0]
    /\ standing = [p \in Procs |-> "standby"]
    /\ myEpoch = [p \in Procs |-> 0]
    /\ started = [p \in Procs |-> 0]
    /\ confirmed = [p \in Procs |-> 0]
    /\ txAt = [p \in Procs |-> 0]
    /\ reply = [p \in Procs |-> "idle"]
    /\ stmts = {}

\* acquire() or renew() of p has returned: what it measured is gone with it.
Forget(p) ==
    /\ started' = [started EXCEPT ![p] = 0]
    /\ confirmed' = [confirmed EXCEPT ![p] = 0]
    /\ txAt' = [txAt EXCEPT ![p] = 0]
    /\ reply' = [reply EXCEPT ![p] = "idle"]

-----------------------------------------------------------------------------
\* Taking the lease: acquire().

\* A standby tries again, on an announcement or after STANDBY_POLL.
AcquireConnect(p) ==
    /\ standing[p] = "standby"
    /\ standing' = [standing EXCEPT ![p] = "connecting"]
    /\ started' = [started EXCEPT ![p] = now]
    /\ UNCHANGED <<now, row, conn, myEpoch, confirmed, txAt, reply, stmts>>

\* The transaction begins, which fixes its now().
AcquireBegin(p) ==
    /\ standing[p] = "connecting"
    /\ standing' = [standing EXCEPT ![p] = "begun"]
    /\ txAt' = [txAt EXCEPT ![p] = now]
    /\ UNCHANGED <<now, row, conn, myEpoch, started, confirmed, reply, stmts>>

Free(at) == holder = NoOne \/ renewedAt + Ttl < at

\* SELECT ... FOR UPDATE has the row's lock and reads whether it is free.
AcquireCheck(p) ==
    /\ standing[p] = "begun" /\ lock = NoOne
    /\ \/ /\ Free(txAt[p])
          /\ lock' = p
          /\ standing' = [standing EXCEPT ![p] = "taking"]
          /\ UNCHANGED <<started, confirmed, txAt, reply>>
       \/ /\ ~Free(txAt[p])
          /\ standing' = [standing EXCEPT ![p] = "standby"]
          /\ Forget(p)
          /\ UNCHANGED lock
    /\ UNCHANGED <<now, holder, epoch, renewedAt, conn, myEpoch, stmts>>

\* pg_terminate_backend on a connection recorded for another holder.
Terminate(p, q) ==
    /\ lock = p /\ q # p /\ conn[q] # 0
    /\ conn' = [conn EXCEPT ![q] = 0]
    /\ UNCHANGED <<now, row, client, stmts>>

MutCommitOverSurvivors(p) ==
    /\ standing[p] = "taking" /\ lock = p
    /\ holder' = p /\ epoch' = epoch + 1 /\ renewedAt' = txAt[p]
    /\ lock' = NoOne
    /\ myEpoch' = [myEpoch EXCEPT ![p] = epoch + 1]
    /\ standing' = [standing EXCEPT ![p] = "committed"]
    /\ UNCHANGED <<now, conn, started, confirmed, txAt, reply, stmts>>

\* The takeover commits, no connection of another holder having survived.
AcquireCommit(p) ==
    /\ standing[p] = "taking" /\ lock = p
    /\ \A q \in Procs \ {p} : conn[q] = 0
    /\ holder' = p /\ epoch' = epoch + 1 /\ renewedAt' = txAt[p]
    /\ lock' = NoOne
    /\ myEpoch' = [myEpoch EXCEPT ![p] = epoch + 1]
    /\ standing' = [standing EXCEPT ![p] = "committed"]
    /\ UNCHANGED <<now, conn, started, confirmed, txAt, reply, stmts>>

\* The commit is answered: the lease counts from when acquire() started, however
\* long that has taken (up to LEASE_STATEMENT_TIMEOUT a statement and
\* TERMINATION_WAIT a connection), and the renewal task is spawned.
AcquireDone(p) ==
    /\ standing[p] = "committed"
    /\ standing' = [standing EXCEPT ![p] = "held"]
    /\ confirmed' = [confirmed EXCEPT ![p] = started[p]]
    /\ txAt' = [txAt EXCEPT ![p] = 0]
    /\ UNCHANGED <<now, row, conn, myEpoch, started, reply, stmts>>

\* The database cannot be asked, a previous holder's connection lingers, or
\* the answer to the commit is lost: the process stands by, holder or not.
AcquireFail(p) ==
    /\ standing[p] \in Acquiring
    /\ standing' = [standing EXCEPT ![p] = "standby"]
    /\ lock' = IF lock = p THEN NoOne ELSE lock
    /\ Forget(p)
    /\ UNCHANGED <<now, holder, epoch, renewedAt, conn, myEpoch, stmts>>

-----------------------------------------------------------------------------
\* Keeping it: renew().

fenceAt(p) == confirmed[p] + FenceAfter

InFlight(p) == {s \in stmts : s.by = p}

SendRenewal(p) ==
    /\ Cardinality(InFlight(p)) < MaxInFlight
    /\ stmts' = stmts \cup {[by |-> p, epoch |-> myEpoch[p], started |-> now, at |-> -1]}
    /\ started' = [started EXCEPT ![p] = now]
    /\ reply' = [reply EXCEPT ![p] = "awaited"]

\* The loop wakes for the next renewal, before the fence is due.
RenewDue(p) ==
    /\ standing[p] \in {"held", "unconfirmed"} /\ reply[p] = "idle"
    /\ now >= started[p] + RenewEvery
    /\ standing[p] = "held" => now < fenceAt(p)
    /\ SendRenewal(p)
    /\ UNCHANGED <<now, row, conn, standing, myEpoch, confirmed, txAt>>

\* The fence is due: fence(), and the loop renews at once.
Fence(p) ==
    /\ standing[p] = "held" /\ reply[p] = "idle"
    /\ now >= fenceAt(p)
    /\ standing' = [standing EXCEPT ![p] = "unconfirmed"]
    /\ SendRenewal(p)
    /\ UNCHANGED <<now, row, conn, myEpoch, confirmed, txAt>>

\* timeout_at(deadline, ..): the connection is dropped, the statement may yet
\* be applied.
RenewTimeout(p) ==
    /\ reply[p] # "idle"
    /\ now >= (IF standing[p] = "held" THEN fenceAt(p) ELSE started[p] + FenceAfter)
    /\ reply' = [reply EXCEPT ![p] = "idle"]
    /\ UNCHANGED <<now, row, conn, standing, myEpoch, started, confirmed, txAt, stmts>>

Awaited(s) == reply[s.by] # "idle" /\ started[s.by] = s.started

\* The statement reaches the database: its now().
RenewBegin(s) ==
    /\ s.at = -1
    /\ stmts' = (stmts \ {s}) \cup {[s EXCEPT !.at = now]}
    /\ UNCHANGED <<now, row, conn, client>>

MutMatchesAnyHolder(s) == epoch >= s.epoch

Matches(s) == holder = s.by /\ epoch = s.epoch

\* UPDATE serving_lease SET renewed_at = now() WHERE holder and epoch match,
\* once no takeover holds the row.
RenewApply(s) ==
    /\ s.at # -1 /\ lock = NoOne
    /\ renewedAt' = IF Matches(s) THEN s.at ELSE renewedAt
    /\ reply' = IF Awaited(s)
                THEN [reply EXCEPT ![s.by] = IF Matches(s) THEN "renewed" ELSE "taken"]
                ELSE reply
    /\ stmts' = stmts \ {s}
    /\ UNCHANGED <<now, holder, epoch, lock, conn, standing, myEpoch, started,
                   confirmed, txAt>>

\* The statement fails (lock_timeout, a broken connection), said or not.
RenewLost(s) ==
    /\ stmts' = stmts \ {s}
    /\ \/ UNCHANGED reply
       \/ Awaited(s) /\ reply' = [reply EXCEPT ![s.by] = "error"]
    /\ UNCHANGED <<now, row, conn, standing, myEpoch, started, confirmed, txAt>>

MutConfirmedFromTheAnswer(p) ==
    /\ reply[p] = "renewed"
    /\ confirmed' = [confirmed EXCEPT ![p] = now]
    /\ standing' = [standing EXCEPT ![p] = "held"]
    /\ reply' = [reply EXCEPT ![p] = "idle"]
    /\ UNCHANGED <<now, row, conn, myEpoch, started, txAt, stmts>>

\* Ok(true): confirmed from when the request started; a fence is lifted.
RenewConfirmed(p) ==
    /\ reply[p] = "renewed"
    /\ confirmed' = [confirmed EXCEPT ![p] = started[p]]
    /\ standing' = [standing EXCEPT ![p] = "held"]
    /\ reply' = [reply EXCEPT ![p] = "idle"]
    /\ UNCHANGED <<now, row, conn, myEpoch, started, txAt, stmts>>

\* Ok(false): LeaseEnd::Taken, and the process drains.
RenewTaken(p) ==
    /\ reply[p] = "taken"
    /\ standing' = [standing EXCEPT ![p] = "ended"]
    /\ Forget(p)
    /\ UNCHANGED <<now, row, conn, myEpoch, stmts>>

\* Ok(Err): the connection is dropped and the loop goes on.
RenewError(p) ==
    /\ reply[p] = "error"
    /\ reply' = [reply EXCEPT ![p] = "idle"]
    /\ UNCHANGED <<now, row, conn, standing, myEpoch, started, confirmed, txAt, stmts>>

-----------------------------------------------------------------------------
\* Giving it up: release(), and the process going away.

ReleaseStart(p) ==
    /\ standing[p] \in {"held", "unconfirmed"}
    /\ standing' = [standing EXCEPT ![p] = "releasing"]
    /\ Forget(p)
    /\ UNCHANGED <<now, row, conn, myEpoch, stmts>>

\* release_row, or the failure to reach it in time.
ReleaseRow(p) ==
    /\ standing[p] = "releasing"
    /\ standing' = [standing EXCEPT ![p] = "ended"]
    /\ \/ UNCHANGED holder
       \/ lock = NoOne /\ holder = p /\ epoch = myEpoch[p] /\ holder' = NoOne
    /\ UNCHANGED <<now, epoch, renewedAt, lock, conn, myEpoch, started, confirmed,
                   txAt, reply, stmts>>

\* A crash.  The database rolls its transaction back and may keep its pool
\* connections, with what they were doing, for as long as it likes.
Crash(p) ==
    /\ standing[p] # "down"
    /\ standing' = [standing EXCEPT ![p] = "down"]
    /\ lock' = IF lock = p THEN NoOne ELSE lock
    /\ Forget(p)
    /\ UNCHANGED <<now, holder, epoch, renewedAt, conn, myEpoch, stmts>>

-----------------------------------------------------------------------------
\* The pool, fenced by the database.

\* serving_lease_register_backend: FOR SHARE on the row, then recorded.
Connect(p) ==
    /\ standing[p] \in {"held", "unconfirmed", "releasing", "ended"}
    /\ lock = NoOne /\ holder = p
    /\ conn' = [conn EXCEPT ![p] = epoch]
    /\ UNCHANGED <<now, row, client, stmts>>

Disconnect(p) ==
    /\ conn[p] # 0
    /\ conn' = [conn EXCEPT ![p] = 0]
    /\ UNCHANGED <<now, row, client, stmts>>

\* Time passes, but never past a timer that is due by more than the slack, nor
\* past the lock_timeout of a statement that waits for the row.  A takeover is
\* not bounded: one slower than the fence leaves its process with a fence that
\* is overdue before its timer is set, and may be so for as long as it likes.
Tick ==
    /\ now < MaxTime
    /\ \A p \in Procs :
          /\ standing[p] = "held" => now # fenceAt(p) + TimerSlack
          /\ reply[p] # "idle" => now < started[p] + FenceAfter + TimerSlack
    /\ \A s \in stmts : s.at # -1 => now < s.at + LockWait
    /\ now' = now + 1
    /\ UNCHANGED <<row, conn, client, stmts>>

Next ==
    \/ \E p \in Procs :
          \/ AcquireConnect(p) \/ AcquireBegin(p) \/ AcquireCheck(p)
          \/ AcquireCommit(p) \/ AcquireDone(p) \/ AcquireFail(p)
          \/ RenewDue(p) \/ Fence(p) \/ RenewTimeout(p)
          \/ RenewConfirmed(p) \/ RenewTaken(p) \/ RenewError(p)
          \/ ReleaseStart(p) \/ ReleaseRow(p) \/ Crash(p)
          \/ Connect(p) \/ Disconnect(p)
          \/ \E q \in Procs : Terminate(p, q)
    \/ \E s \in stmts : RenewBegin(s) \/ RenewApply(s) \/ RenewLost(s)
    \/ Tick

Spec == Init /\ [][Next]_vars

-----------------------------------------------------------------------------

TypeOK ==
    /\ now \in Nat
    /\ holder \in Procs \cup {NoOne} /\ epoch \in Nat /\ renewedAt \in Nat
    /\ lock \in Procs \cup {NoOne}
    /\ conn \in [Procs -> Nat]
    /\ standing \in [Procs -> Standings]
    /\ myEpoch \in [Procs -> Nat]
    /\ started \in [Procs -> Nat]
    /\ confirmed \in [Procs -> Nat]
    /\ txAt \in [Procs -> Nat]
    /\ reply \in [Procs -> {"idle", "awaited", "renewed", "taken", "error"}]
    /\ stmts \subseteq Statements

\* The fence is overdue and is the next thing the renewal task does.
FenceIsNext(p) == reply[p] = "idle" /\ now > fenceAt(p) + TimerSlack

\* "it is fenced before anyone can have taken the lease over": a process whose
\* standing is Held is the row's holder at the epoch it acquired, through late
\* answers, renewals applied after their deadline and stale now().  The one
\* exception is a process whose takeover took longer than its fence: it reports
\* Held although its lease may be gone, awaits nothing, and fences itself first.
HeldIsHolder ==
    \A p \in Procs :
        standing[p] = "held" =>
            (holder = p /\ epoch = myEpoch[p]) \/ FenceIsNext(p)

\* "nothing a fenced process had in flight commits after the takeover": any
\* connection that can still commit was recorded at the current epoch, and
\* nobody else holds the lease.
NoWriteAfterTakeover ==
    \A p \in Procs : conn[p] # 0 => conn[p] = epoch /\ holder \in {p, NoOne}

\* "it resumes if the lease is still its own when the database answers, and stops
\* serving if another process has taken it": a fenced process that is ready again
\* is the holder, at its own epoch, in the very step that lifts the fence, however
\* old the answer it resumes on.
ResumesAsHolder ==
    [][\A p \in Procs :
          standing[p] = "unconfirmed" /\ standing'[p] = "held" =>
              holder' = p /\ epoch' = myEpoch'[p]]_vars
=============================================================================
