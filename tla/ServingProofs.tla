---------------------------- MODULE ServingProofs ----------------------------
(***************************************************************************)
(* Machine-checked proofs about the two protocols by which a process begins *)
(* and ends its service: the lease it serves under (ServingLease), and the  *)
(* shards it serves with, whose drain ends it (CoreWorkers).                *)
(***************************************************************************)
EXTENDS ServingLease, CoreWorkers, FiniteSetTheorems, SequenceTheorems, TLAPS

(***************************************************************************)
(* The serving lease.                                                       *)
(***************************************************************************)

\* Standings of a process whose acquire() has returned.
Returned == {"held", "unconfirmed", "releasing", "ended", "down"}

\* What a process relies on when it counts its lease from time t: the row is
\* still its own, and was renewed at most a lock wait before t.
Owns(p, t) == holder = p /\ epoch = myEpoch[p] /\ renewedAt + LockWait >= t

\* The row's lock belongs to the one takeover past its check, and what that
\* check read stands as long as the lock is held.
LockInv ==
    /\ \A p \in Procs : standing[p] = "taking" <=> lock = p
    /\ \A p \in Procs : standing[p] = "taking" => Free(txAt[p])

\* Only the renewal loop awaits renewals.
ReplyInv ==
    \A p \in Procs : reply[p] # "idle" => standing[p] \in {"held", "unconfirmed"}

\* Nothing is timed from the future, no due timer is late by more than the slack,
\* and no renewal is awaited past the fence.
TimeInv ==
    \A p \in Procs :
        /\ started[p] <= now /\ confirmed[p] <= now /\ txAt[p] <= now
        /\ standing[p] \in {"begun", "taking", "committed"} => started[p] <= txAt[p]
        /\ standing[p] = "held" /\ reply[p] # "idle" => now <= fenceAt(p) + TimerSlack
        /\ reply[p] # "idle" => now <= started[p] + FenceAfter + TimerSlack

\* A statement at the database is no staler than the lock timeout, and is of
\* the one epoch its sender has ever served.
StmtInv ==
    \A s \in stmts :
        /\ s.epoch = myEpoch[s.by] /\ standing[s.by] \in Returned
        /\ s.at # -1 => s.at <= now /\ now <= s.at + LockWait

\* Whoever counts on the lease owns it, until its fence and the timer's slack
\* have passed.
Counts(t) == now <= t + FenceAfter + TimerSlack
OwnInv ==
    \A p \in Procs :
        /\ standing[p] = "held" /\ Counts(confirmed[p]) => Owns(p, confirmed[p])
        /\ standing[p] = "committed" /\ Counts(started[p]) => Owns(p, started[p])
        /\ reply[p] = "renewed" => Owns(p, started[p])

\* Connections are recorded at the current epoch, by processes that served.
ConnInv ==
    \A p \in Procs :
        conn[p] # 0 => /\ conn[p] = epoch /\ holder \in {p, NoOne}
                       /\ standing[p] \in Returned

\* What holds whatever the timing, and what needs it.
FenceInv == TypeOK /\ ReplyInv /\ LockInv /\ ConnInv
LeaseInv == FenceInv /\ TimeInv /\ StmtInv /\ OwnInv

-----------------------------------------------------------------------------

\* The migration's row, held by no one, and processes standing by satisfy it all.
LEMMA InitLease == Init => LeaseInv
  BY LeaseAssumption
  DEF Init, LeaseInv, FenceInv, ReplyInv, TypeOK, LockInv, TimeInv, StmtInv, OwnInv, ConnInv, Standings, Acquiring,
      Owns, Counts, Free, fenceAt, Returned, Statements

\* No step of acquire, renew, release or of the pool leaves the types.
LEMMA TypeStep == TypeOK /\ [Next]_vars => TypeOK'
  <1> SUFFICES ASSUME TypeOK, [Next]_vars PROVE TypeOK'
    OBVIOUS
  <1> USE LeaseAssumption DEF TypeOK, Standings, Acquiring
  <1>1. ASSUME NEW p \in Procs, AcquireConnect(p) \/ AcquireBegin(p) PROVE TypeOK'
    BY <1>1 DEF AcquireConnect, AcquireBegin, row
  <1>2. ASSUME NEW p \in Procs, AcquireCheck(p) PROVE TypeOK'
    BY <1>2 DEF AcquireCheck, Forget
  <1>3. ASSUME NEW p \in Procs, AcquireCommit(p) PROVE TypeOK'
    BY <1>3 DEF AcquireCommit
  <1>4. ASSUME NEW p \in Procs, AcquireDone(p) \/ AcquireFail(p) PROVE TypeOK'
    BY <1>4 DEF AcquireDone, AcquireFail, Forget, row
  <1>5. ASSUME NEW p \in Procs, RenewDue(p) \/ Fence(p) PROVE TypeOK'
    <2>1. [by |-> p, epoch |-> myEpoch[p], started |-> now, at |-> -1] \in Statements
      BY DEF Statements
    <2> QED BY <1>5, <2>1 DEF RenewDue, Fence, SendRenewal, row
  <1>6. ASSUME NEW p \in Procs,
               RenewTimeout(p) \/ RenewConfirmed(p) \/ RenewTaken(p) \/ RenewError(p)
        PROVE TypeOK'
    BY <1>6 DEF RenewTimeout, RenewConfirmed, RenewTaken, RenewError, Forget, row
  <1>7. ASSUME NEW p \in Procs, ReleaseStart(p) \/ ReleaseRow(p) \/ Crash(p) PROVE TypeOK'
    BY <1>7 DEF ReleaseStart, ReleaseRow, Crash, Forget, row
  <1>8. ASSUME NEW p \in Procs, NEW q \in Procs,
               Connect(p) \/ Disconnect(p) \/ Terminate(p, q)
        PROVE TypeOK'
    BY <1>8 DEF Connect, Disconnect, Terminate, row, client
  <1>9. ASSUME NEW s \in stmts, RenewBegin(s) PROVE TypeOK'
    <2>1. [s EXCEPT !.at = now] \in Statements
      BY DEF Statements
    <2> QED BY <1>9, <2>1 DEF RenewBegin, row, client
  <1>10. ASSUME NEW s \in stmts, RenewApply(s) \/ RenewLost(s) PROVE TypeOK'
    <2>1. s \in Statements /\ s.by \in Procs /\ (s.at # -1 => s.at \in Nat)
      BY DEF Statements
    <2> QED BY <1>10, <2>1 DEF RenewApply, RenewLost, row
  <1>11. CASE Tick
    BY <1>11 DEF Tick, row, client
  <1>12. CASE UNCHANGED vars
    BY <1>12 DEF vars, row, client
  <1> QED
    BY <1>1, <1>2, <1>3, <1>4, <1>5, <1>6, <1>7, <1>8, <1>9, <1>10, <1>11, <1>12 DEF Next

\* Renewals and the loop that awaits them.
LEMMA ReplyStep == TypeOK /\ ReplyInv /\ [Next]_vars => ReplyInv'
  <1> SUFFICES ASSUME TypeOK, ReplyInv, [Next]_vars PROVE ReplyInv'
    OBVIOUS
  <1> USE LeaseAssumption DEF TypeOK, Standings, Acquiring, ReplyInv
  <1>1. ASSUME NEW p \in Procs, AcquireConnect(p) PROVE ReplyInv'
    BY <1>1 DEF AcquireConnect, row
  <1>2. ASSUME NEW p \in Procs, AcquireBegin(p) PROVE ReplyInv'
    BY <1>2 DEF AcquireBegin, row
  <1>3. ASSUME NEW p \in Procs, AcquireCheck(p) PROVE ReplyInv'
    BY <1>3 DEF AcquireCheck, Forget
  <1>4. ASSUME NEW p \in Procs, AcquireCommit(p) PROVE ReplyInv'
    BY <1>4 DEF AcquireCommit
  <1>5. ASSUME NEW p \in Procs, AcquireDone(p) PROVE ReplyInv'
    BY <1>5 DEF AcquireDone, row
  <1>6. ASSUME NEW p \in Procs, AcquireFail(p) PROVE ReplyInv'
    BY <1>6 DEF AcquireFail, Forget
  <1>7. ASSUME NEW p \in Procs, RenewDue(p) PROVE ReplyInv'
    BY <1>7 DEF RenewDue, SendRenewal, row
  <1>8. ASSUME NEW p \in Procs, Fence(p) PROVE ReplyInv'
    BY <1>8 DEF Fence, SendRenewal, row
  <1>9. ASSUME NEW p \in Procs, RenewTimeout(p) PROVE ReplyInv'
    BY <1>9 DEF RenewTimeout, row
  <1>10. ASSUME NEW p \in Procs, RenewConfirmed(p) PROVE ReplyInv'
    BY <1>10 DEF RenewConfirmed, row
  <1>11. ASSUME NEW p \in Procs, RenewTaken(p) PROVE ReplyInv'
    BY <1>11 DEF RenewTaken, Forget, row
  <1>12. ASSUME NEW p \in Procs, RenewError(p) PROVE ReplyInv'
    BY <1>12 DEF RenewError, row
  <1>13. ASSUME NEW p \in Procs, ReleaseStart(p) PROVE ReplyInv'
    BY <1>13 DEF ReleaseStart, Forget, row
  <1>14. ASSUME NEW p \in Procs, ReleaseRow(p) PROVE ReplyInv'
    BY <1>14 DEF ReleaseRow
  <1>15. ASSUME NEW p \in Procs, Crash(p) PROVE ReplyInv'
    BY <1>15 DEF Crash, Forget
  <1>16. ASSUME NEW p \in Procs, Connect(p) PROVE ReplyInv'
    BY <1>16 DEF Connect, row, client
  <1>17. ASSUME NEW p \in Procs, Disconnect(p) PROVE ReplyInv'
    BY <1>17 DEF Disconnect, row, client
  <1>18. ASSUME NEW p \in Procs, NEW q \in Procs, Terminate(p, q) PROVE ReplyInv'
    BY <1>18 DEF Terminate, row, client
  <1>19. ASSUME NEW s \in stmts, RenewBegin(s) PROVE ReplyInv'
    <2>1. s \in Statements /\ s.by \in Procs /\ (s.at # -1 => s.at \in Nat)
      BY DEF Statements
    <2> QED BY <1>19, <2>1 DEF RenewBegin, row, client
  <1>20. ASSUME NEW s \in stmts, RenewApply(s) PROVE ReplyInv'
    <2>1. s \in Statements /\ s.by \in Procs /\ (s.at # -1 => s.at \in Nat)
      BY DEF Statements
    <2> QED BY <1>20, <2>1 DEF RenewApply, Awaited, Matches
  <1>21. ASSUME NEW s \in stmts, RenewLost(s) PROVE ReplyInv'
    <2>1. s \in Statements /\ s.by \in Procs /\ (s.at # -1 => s.at \in Nat)
      BY DEF Statements
    <2> QED BY <1>21, <2>1 DEF RenewLost, Awaited, row
  <1>22. CASE Tick
    BY <1>22 DEF Tick, row, client
  <1>23. CASE UNCHANGED vars
    BY <1>23 DEF vars, row, client
  <1> QED
    BY <1>1, <1>2, <1>3, <1>4, <1>5, <1>6, <1>7, <1>8, <1>9, <1>10, <1>11, <1>12, <1>13, <1>14, <1>15, <1>16, <1>17, <1>18, <1>19, <1>20, <1>21, <1>22, <1>23
    DEF Next

\* The lock and what was read under it.
LEMMA LockStep == TypeOK /\ ReplyInv /\ LockInv /\ [Next]_vars => LockInv'
  <1> SUFFICES ASSUME TypeOK, ReplyInv, LockInv, [Next]_vars PROVE LockInv'
    OBVIOUS
  <1> USE LeaseAssumption DEF TypeOK, Standings, Acquiring, ReplyInv, LockInv, Free
  <1>1. ASSUME NEW p \in Procs, AcquireConnect(p) PROVE LockInv'
    BY <1>1 DEF AcquireConnect, row
  <1>2. ASSUME NEW p \in Procs, AcquireBegin(p) PROVE LockInv'
    BY <1>2 DEF AcquireBegin, row
  <1>3. ASSUME NEW p \in Procs, AcquireCheck(p) PROVE LockInv'
    BY <1>3 DEF AcquireCheck, Forget
  <1>4. ASSUME NEW p \in Procs, AcquireCommit(p) PROVE LockInv'
    BY <1>4 DEF AcquireCommit
  <1>5. ASSUME NEW p \in Procs, AcquireDone(p) PROVE LockInv'
    BY <1>5 DEF AcquireDone, row
  <1>6. ASSUME NEW p \in Procs, AcquireFail(p) PROVE LockInv'
    BY <1>6 DEF AcquireFail, Forget
  <1>7. ASSUME NEW p \in Procs, RenewDue(p) PROVE LockInv'
    BY <1>7 DEF RenewDue, SendRenewal, row
  <1>8. ASSUME NEW p \in Procs, Fence(p) PROVE LockInv'
    BY <1>8 DEF Fence, SendRenewal, row
  <1>9. ASSUME NEW p \in Procs, RenewTimeout(p) PROVE LockInv'
    BY <1>9 DEF RenewTimeout, row
  <1>10. ASSUME NEW p \in Procs, RenewConfirmed(p) PROVE LockInv'
    BY <1>10 DEF RenewConfirmed, row
  <1>11. ASSUME NEW p \in Procs, RenewTaken(p) PROVE LockInv'
    BY <1>11 DEF RenewTaken, Forget, row
  <1>12. ASSUME NEW p \in Procs, RenewError(p) PROVE LockInv'
    BY <1>12 DEF RenewError, row
  <1>13. ASSUME NEW p \in Procs, ReleaseStart(p) PROVE LockInv'
    BY <1>13 DEF ReleaseStart, Forget, row
  <1>14. ASSUME NEW p \in Procs, ReleaseRow(p) PROVE LockInv'
    BY <1>14 DEF ReleaseRow
  <1>15. ASSUME NEW p \in Procs, Crash(p) PROVE LockInv'
    BY <1>15 DEF Crash, Forget
  <1>16. ASSUME NEW p \in Procs, Connect(p) PROVE LockInv'
    BY <1>16 DEF Connect, row, client
  <1>17. ASSUME NEW p \in Procs, Disconnect(p) PROVE LockInv'
    BY <1>17 DEF Disconnect, row, client
  <1>18. ASSUME NEW p \in Procs, NEW q \in Procs, Terminate(p, q) PROVE LockInv'
    BY <1>18 DEF Terminate, row, client
  <1>19. ASSUME NEW s \in stmts, RenewBegin(s) PROVE LockInv'
    <2>1. s \in Statements /\ s.by \in Procs /\ (s.at # -1 => s.at \in Nat)
      BY DEF Statements
    <2> QED BY <1>19, <2>1 DEF RenewBegin, row, client
  <1>20. ASSUME NEW s \in stmts, RenewApply(s) PROVE LockInv'
    <2>1. s \in Statements /\ s.by \in Procs /\ (s.at # -1 => s.at \in Nat)
      BY DEF Statements
    <2> QED BY <1>20, <2>1 DEF RenewApply, Awaited, Matches
  <1>21. ASSUME NEW s \in stmts, RenewLost(s) PROVE LockInv'
    <2>1. s \in Statements /\ s.by \in Procs /\ (s.at # -1 => s.at \in Nat)
      BY DEF Statements
    <2> QED BY <1>21, <2>1 DEF RenewLost, Awaited, row
  <1>22. CASE Tick
    BY <1>22 DEF Tick, row, client
  <1>23. CASE UNCHANGED vars
    BY <1>23 DEF vars, row, client
  <1> QED
    BY <1>1, <1>2, <1>3, <1>4, <1>5, <1>6, <1>7, <1>8, <1>9, <1>10, <1>11, <1>12, <1>13, <1>14, <1>15, <1>16, <1>17, <1>18, <1>19, <1>20, <1>21, <1>22, <1>23
    DEF Next

\* The pool's connections.
LEMMA ConnStep == TypeOK /\ ReplyInv /\ LockInv /\ ConnInv /\ [Next]_vars => ConnInv'
  <1> SUFFICES ASSUME TypeOK, ReplyInv, LockInv, ConnInv, [Next]_vars PROVE ConnInv'
    OBVIOUS
  <1> USE LeaseAssumption DEF TypeOK, Standings, Acquiring, ReplyInv, LockInv, ConnInv, Returned
  <1>1. ASSUME NEW p \in Procs, AcquireConnect(p) PROVE ConnInv'
    BY <1>1 DEF AcquireConnect, row
  <1>2. ASSUME NEW p \in Procs, AcquireBegin(p) PROVE ConnInv'
    BY <1>2 DEF AcquireBegin, row
  <1>3. ASSUME NEW p \in Procs, AcquireCheck(p) PROVE ConnInv'
    BY <1>3 DEF AcquireCheck, Forget
  <1>4. ASSUME NEW p \in Procs, AcquireCommit(p) PROVE ConnInv'
    BY <1>4 DEF AcquireCommit
  <1>5. ASSUME NEW p \in Procs, AcquireDone(p) PROVE ConnInv'
    BY <1>5 DEF AcquireDone, row
  <1>6. ASSUME NEW p \in Procs, AcquireFail(p) PROVE ConnInv'
    BY <1>6 DEF AcquireFail, Forget
  <1>7. ASSUME NEW p \in Procs, RenewDue(p) PROVE ConnInv'
    BY <1>7 DEF RenewDue, SendRenewal, row
  <1>8. ASSUME NEW p \in Procs, Fence(p) PROVE ConnInv'
    BY <1>8 DEF Fence, SendRenewal, row
  <1>9. ASSUME NEW p \in Procs, RenewTimeout(p) PROVE ConnInv'
    BY <1>9 DEF RenewTimeout, row
  <1>10. ASSUME NEW p \in Procs, RenewConfirmed(p) PROVE ConnInv'
    BY <1>10 DEF RenewConfirmed, row
  <1>11. ASSUME NEW p \in Procs, RenewTaken(p) PROVE ConnInv'
    BY <1>11 DEF RenewTaken, Forget, row
  <1>12. ASSUME NEW p \in Procs, RenewError(p) PROVE ConnInv'
    BY <1>12 DEF RenewError, row
  <1>13. ASSUME NEW p \in Procs, ReleaseStart(p) PROVE ConnInv'
    BY <1>13 DEF ReleaseStart, Forget, row
  <1>14. ASSUME NEW p \in Procs, ReleaseRow(p) PROVE ConnInv'
    BY <1>14 DEF ReleaseRow
  <1>15. ASSUME NEW p \in Procs, Crash(p) PROVE ConnInv'
    BY <1>15 DEF Crash, Forget
  <1>16. ASSUME NEW p \in Procs, Connect(p) PROVE ConnInv'
    BY <1>16 DEF Connect, row, client
  <1>17. ASSUME NEW p \in Procs, Disconnect(p) PROVE ConnInv'
    BY <1>17 DEF Disconnect, row, client
  <1>18. ASSUME NEW p \in Procs, NEW q \in Procs, Terminate(p, q) PROVE ConnInv'
    BY <1>18 DEF Terminate, row, client
  <1>19. ASSUME NEW s \in stmts, RenewBegin(s) PROVE ConnInv'
    <2>1. s \in Statements /\ s.by \in Procs /\ (s.at # -1 => s.at \in Nat)
      BY DEF Statements
    <2> QED BY <1>19, <2>1 DEF RenewBegin, row, client
  <1>20. ASSUME NEW s \in stmts, RenewApply(s) PROVE ConnInv'
    <2>1. s \in Statements /\ s.by \in Procs /\ (s.at # -1 => s.at \in Nat)
      BY DEF Statements
    <2> QED BY <1>20, <2>1 DEF RenewApply, Awaited, Matches
  <1>21. ASSUME NEW s \in stmts, RenewLost(s) PROVE ConnInv'
    <2>1. s \in Statements /\ s.by \in Procs /\ (s.at # -1 => s.at \in Nat)
      BY DEF Statements
    <2> QED BY <1>21, <2>1 DEF RenewLost, Awaited, row
  <1>22. CASE Tick
    BY <1>22 DEF Tick, row, client
  <1>23. CASE UNCHANGED vars
    BY <1>23 DEF vars, row, client
  <1> QED
    BY <1>1, <1>2, <1>3, <1>4, <1>5, <1>6, <1>7, <1>8, <1>9, <1>10, <1>11, <1>12, <1>13, <1>14, <1>15, <1>16, <1>17, <1>18, <1>19, <1>20, <1>21, <1>22, <1>23
    DEF Next

\* The timers.
LEMMA TimeStep == TypeOK /\ ReplyInv /\ TimeInv /\ [Next]_vars => TimeInv'
  <1> SUFFICES ASSUME TypeOK, ReplyInv, TimeInv, [Next]_vars PROVE TimeInv'
    OBVIOUS
  <1> USE LeaseAssumption DEF TypeOK, Standings, Acquiring, ReplyInv, TimeInv, fenceAt
  <1>1. ASSUME NEW p \in Procs, AcquireConnect(p) PROVE TimeInv'
    BY <1>1 DEF AcquireConnect, row
  <1>2. ASSUME NEW p \in Procs, AcquireBegin(p) PROVE TimeInv'
    BY <1>2 DEF AcquireBegin, row
  <1>3. ASSUME NEW p \in Procs, AcquireCheck(p) PROVE TimeInv'
    BY <1>3 DEF AcquireCheck, Forget
  <1>4. ASSUME NEW p \in Procs, AcquireCommit(p) PROVE TimeInv'
    BY <1>4 DEF AcquireCommit
  <1>5. ASSUME NEW p \in Procs, AcquireDone(p) PROVE TimeInv'
    BY <1>5 DEF AcquireDone, row
  <1>6. ASSUME NEW p \in Procs, AcquireFail(p) PROVE TimeInv'
    BY <1>6 DEF AcquireFail, Forget
  <1>7. ASSUME NEW p \in Procs, RenewDue(p) PROVE TimeInv'
    BY <1>7 DEF RenewDue, SendRenewal, row
  <1>8. ASSUME NEW p \in Procs, Fence(p) PROVE TimeInv'
    BY <1>8 DEF Fence, SendRenewal, row
  <1>9. ASSUME NEW p \in Procs, RenewTimeout(p) PROVE TimeInv'
    BY <1>9 DEF RenewTimeout, row
  <1>10. ASSUME NEW p \in Procs, RenewConfirmed(p) PROVE TimeInv'
    BY <1>10 DEF RenewConfirmed, row
  <1>11. ASSUME NEW p \in Procs, RenewTaken(p) PROVE TimeInv'
    BY <1>11 DEF RenewTaken, Forget, row
  <1>12. ASSUME NEW p \in Procs, RenewError(p) PROVE TimeInv'
    BY <1>12 DEF RenewError, row
  <1>13. ASSUME NEW p \in Procs, ReleaseStart(p) PROVE TimeInv'
    BY <1>13 DEF ReleaseStart, Forget, row
  <1>14. ASSUME NEW p \in Procs, ReleaseRow(p) PROVE TimeInv'
    BY <1>14 DEF ReleaseRow
  <1>15. ASSUME NEW p \in Procs, Crash(p) PROVE TimeInv'
    BY <1>15 DEF Crash, Forget
  <1>16. ASSUME NEW p \in Procs, Connect(p) PROVE TimeInv'
    BY <1>16 DEF Connect, row, client
  <1>17. ASSUME NEW p \in Procs, Disconnect(p) PROVE TimeInv'
    BY <1>17 DEF Disconnect, row, client
  <1>18. ASSUME NEW p \in Procs, NEW q \in Procs, Terminate(p, q) PROVE TimeInv'
    BY <1>18 DEF Terminate, row, client
  <1>19. ASSUME NEW s \in stmts, RenewBegin(s) PROVE TimeInv'
    <2>1. s \in Statements /\ s.by \in Procs /\ (s.at # -1 => s.at \in Nat)
      BY DEF Statements
    <2> QED BY <1>19, <2>1 DEF RenewBegin, row, client
  <1>20. ASSUME NEW s \in stmts, RenewApply(s) PROVE TimeInv'
    <2>1. s \in Statements /\ s.by \in Procs /\ (s.at # -1 => s.at \in Nat)
      BY DEF Statements
    <2> QED BY <1>20, <2>1 DEF RenewApply, Awaited, Matches
  <1>21. ASSUME NEW s \in stmts, RenewLost(s) PROVE TimeInv'
    <2>1. s \in Statements /\ s.by \in Procs /\ (s.at # -1 => s.at \in Nat)
      BY DEF Statements
    <2> QED BY <1>21, <2>1 DEF RenewLost, Awaited, row
  <1>22. CASE Tick
    BY <1>22 DEF Tick, row, client
  <1>23. CASE UNCHANGED vars
    BY <1>23 DEF vars, row, client
  <1> QED
    BY <1>1, <1>2, <1>3, <1>4, <1>5, <1>6, <1>7, <1>8, <1>9, <1>10, <1>11, <1>12, <1>13, <1>14, <1>15, <1>16, <1>17, <1>18, <1>19, <1>20, <1>21, <1>22, <1>23
    DEF Next

\* The renewals in flight.
LEMMA StmtStep == TypeOK /\ ReplyInv /\ TimeInv /\ StmtInv /\ [Next]_vars => StmtInv'
  <1> SUFFICES ASSUME TypeOK, ReplyInv, TimeInv, StmtInv, [Next]_vars PROVE StmtInv'
    OBVIOUS
  <1> USE LeaseAssumption DEF TypeOK, Standings, Acquiring, StmtInv, ReplyInv, TimeInv, Returned, Statements
  <1>1. ASSUME NEW p \in Procs, AcquireConnect(p) PROVE StmtInv'
    BY <1>1 DEF AcquireConnect, row
  <1>2. ASSUME NEW p \in Procs, AcquireBegin(p) PROVE StmtInv'
    BY <1>2 DEF AcquireBegin, row
  <1>3. ASSUME NEW p \in Procs, AcquireCheck(p) PROVE StmtInv'
    BY <1>3 DEF AcquireCheck, Forget
  <1>4. ASSUME NEW p \in Procs, AcquireCommit(p) PROVE StmtInv'
    BY <1>4 DEF AcquireCommit
  <1>5. ASSUME NEW p \in Procs, AcquireDone(p) PROVE StmtInv'
    BY <1>5 DEF AcquireDone, row
  <1>6. ASSUME NEW p \in Procs, AcquireFail(p) PROVE StmtInv'
    BY <1>6 DEF AcquireFail, Forget
  <1>7. ASSUME NEW p \in Procs, RenewDue(p) PROVE StmtInv'
    BY <1>7 DEF RenewDue, SendRenewal, row
  <1>8. ASSUME NEW p \in Procs, Fence(p) PROVE StmtInv'
    BY <1>8 DEF Fence, SendRenewal, row
  <1>9. ASSUME NEW p \in Procs, RenewTimeout(p) PROVE StmtInv'
    BY <1>9 DEF RenewTimeout, row
  <1>10. ASSUME NEW p \in Procs, RenewConfirmed(p) PROVE StmtInv'
    BY <1>10 DEF RenewConfirmed, row
  <1>11. ASSUME NEW p \in Procs, RenewTaken(p) PROVE StmtInv'
    BY <1>11 DEF RenewTaken, Forget, row
  <1>12. ASSUME NEW p \in Procs, RenewError(p) PROVE StmtInv'
    BY <1>12 DEF RenewError, row
  <1>13. ASSUME NEW p \in Procs, ReleaseStart(p) PROVE StmtInv'
    BY <1>13 DEF ReleaseStart, Forget, row
  <1>14. ASSUME NEW p \in Procs, ReleaseRow(p) PROVE StmtInv'
    BY <1>14 DEF ReleaseRow
  <1>15. ASSUME NEW p \in Procs, Crash(p) PROVE StmtInv'
    BY <1>15 DEF Crash, Forget
  <1>16. ASSUME NEW p \in Procs, Connect(p) PROVE StmtInv'
    BY <1>16 DEF Connect, row, client
  <1>17. ASSUME NEW p \in Procs, Disconnect(p) PROVE StmtInv'
    BY <1>17 DEF Disconnect, row, client
  <1>18. ASSUME NEW p \in Procs, NEW q \in Procs, Terminate(p, q) PROVE StmtInv'
    BY <1>18 DEF Terminate, row, client
  <1>19. ASSUME NEW s \in stmts, RenewBegin(s) PROVE StmtInv'
    <2>1. s \in Statements /\ s.by \in Procs /\ (s.at # -1 => s.at \in Nat)
      BY DEF Statements
    <2> QED BY <1>19, <2>1 DEF RenewBegin, row, client
  <1>20. ASSUME NEW s \in stmts, RenewApply(s) PROVE StmtInv'
    <2>1. s \in Statements /\ s.by \in Procs /\ (s.at # -1 => s.at \in Nat)
      BY DEF Statements
    <2> QED BY <1>20, <2>1 DEF RenewApply, Awaited, Matches
  <1>21. ASSUME NEW s \in stmts, RenewLost(s) PROVE StmtInv'
    <2>1. s \in Statements /\ s.by \in Procs /\ (s.at # -1 => s.at \in Nat)
      BY DEF Statements
    <2> QED BY <1>21, <2>1 DEF RenewLost, Awaited, row
  <1>22. CASE Tick
    BY <1>22 DEF Tick, row, client
  <1>23. CASE UNCHANGED vars
    BY <1>23 DEF vars, row, client
  <1> QED
    BY <1>1, <1>2, <1>3, <1>4, <1>5, <1>6, <1>7, <1>8, <1>9, <1>10, <1>11, <1>12, <1>13, <1>14, <1>15, <1>16, <1>17, <1>18, <1>19, <1>20, <1>21, <1>22, <1>23
    DEF Next

\* Ownership: a takeover finds the row expired, which contradicts every timer above.
LEMMA OwnStep == LeaseInv /\ [Next]_vars => OwnInv'
  <1> SUFFICES ASSUME LeaseInv, [Next]_vars PROVE OwnInv'
    OBVIOUS
  <1> USE LeaseAssumption DEF LeaseInv, FenceInv, TypeOK, Standings, Acquiring, ReplyInv, LockInv, TimeInv, StmtInv, OwnInv, Owns, Counts, Free, fenceAt, Returned
  <1>1. ASSUME NEW p \in Procs, AcquireConnect(p) PROVE OwnInv'
    BY <1>1 DEF AcquireConnect, row
  <1>2. ASSUME NEW p \in Procs, AcquireBegin(p) PROVE OwnInv'
    BY <1>2 DEF AcquireBegin, row
  <1>3. ASSUME NEW p \in Procs, AcquireCheck(p) PROVE OwnInv'
    BY <1>3 DEF AcquireCheck, Forget
  <1>4. ASSUME NEW p \in Procs, AcquireCommit(p) PROVE OwnInv'
    BY <1>4 DEF AcquireCommit
  <1>5. ASSUME NEW p \in Procs, AcquireDone(p) PROVE OwnInv'
    BY <1>5 DEF AcquireDone, row
  <1>6. ASSUME NEW p \in Procs, AcquireFail(p) PROVE OwnInv'
    BY <1>6 DEF AcquireFail, Forget
  <1>7. ASSUME NEW p \in Procs, RenewDue(p) PROVE OwnInv'
    BY <1>7 DEF RenewDue, SendRenewal, row
  <1>8. ASSUME NEW p \in Procs, Fence(p) PROVE OwnInv'
    BY <1>8 DEF Fence, SendRenewal, row
  <1>9. ASSUME NEW p \in Procs, RenewTimeout(p) PROVE OwnInv'
    BY <1>9 DEF RenewTimeout, row
  <1>10. ASSUME NEW p \in Procs, RenewConfirmed(p) PROVE OwnInv'
    BY <1>10 DEF RenewConfirmed, row
  <1>11. ASSUME NEW p \in Procs, RenewTaken(p) PROVE OwnInv'
    BY <1>11 DEF RenewTaken, Forget, row
  <1>12. ASSUME NEW p \in Procs, RenewError(p) PROVE OwnInv'
    BY <1>12 DEF RenewError, row
  <1>13. ASSUME NEW p \in Procs, ReleaseStart(p) PROVE OwnInv'
    BY <1>13 DEF ReleaseStart, Forget, row
  <1>14. ASSUME NEW p \in Procs, ReleaseRow(p) PROVE OwnInv'
    BY <1>14 DEF ReleaseRow
  <1>15. ASSUME NEW p \in Procs, Crash(p) PROVE OwnInv'
    BY <1>15 DEF Crash, Forget
  <1>16. ASSUME NEW p \in Procs, Connect(p) PROVE OwnInv'
    BY <1>16 DEF Connect, row, client
  <1>17. ASSUME NEW p \in Procs, Disconnect(p) PROVE OwnInv'
    BY <1>17 DEF Disconnect, row, client
  <1>18. ASSUME NEW p \in Procs, NEW q \in Procs, Terminate(p, q) PROVE OwnInv'
    BY <1>18 DEF Terminate, row, client
  <1>19. ASSUME NEW s \in stmts, RenewBegin(s) PROVE OwnInv'
    <2>1. s \in Statements /\ s.by \in Procs /\ (s.at # -1 => s.at \in Nat)
      BY DEF Statements
    <2> QED BY <1>19, <2>1 DEF RenewBegin, row, client
  <1>20. ASSUME NEW s \in stmts, RenewApply(s) PROVE OwnInv'
    <2>1. s \in Statements /\ s.by \in Procs /\ (s.at # -1 => s.at \in Nat)
      BY DEF Statements
    <2> QED BY <1>20, <2>1 DEF RenewApply, Awaited, Matches
  <1>21. ASSUME NEW s \in stmts, RenewLost(s) PROVE OwnInv'
    <2>1. s \in Statements /\ s.by \in Procs /\ (s.at # -1 => s.at \in Nat)
      BY DEF Statements
    <2> QED BY <1>21, <2>1 DEF RenewLost, Awaited, row
  <1>22. CASE Tick
    BY <1>22 DEF Tick, row, client
  <1>23. CASE UNCHANGED vars
    BY <1>23 DEF vars, row, client
  <1> QED
    BY <1>1, <1>2, <1>3, <1>4, <1>5, <1>6, <1>7, <1>8, <1>9, <1>10, <1>11, <1>12, <1>13, <1>14, <1>15, <1>16, <1>17, <1>18, <1>19, <1>20, <1>21, <1>22, <1>23
    DEF Next

-----------------------------------------------------------------------------

\* Every reachable state of the lease is well typed (serving_lease.rs,
\* migration 0098).
THEOREM TypeCorrect == Spec => []TypeOK
  <1>1. Init => TypeOK
    BY InitLease DEF LeaseInv, FenceInv
  <1> QED
    BY <1>1, TypeStep, PTL DEF Spec

\* Whatever the timing - takeovers however slow, statements however late -
\* an open pool connection belongs to the current epoch and nobody else holds
\* the lease: register_backend's check and the takeover's terminations are
\* enough to fence every write.
THEOREM WritesAreFenced == Spec => []NoWriteAfterTakeover
  <1>1. Init => FenceInv
    BY InitLease DEF LeaseInv
  <1>2. FenceInv /\ [Next]_vars => FenceInv'
    BY TypeStep, ReplyStep, LockStep, ConnStep DEF FenceInv
  <1>3. FenceInv => NoWriteAfterTakeover
    BY DEF FenceInv, ConnInv, NoWriteAfterTakeover
  <1> QED
    BY <1>1, <1>2, <1>3, PTL DEF Spec

\* The inductive invariant.
THEOREM LeaseInvariant == Spec => []LeaseInv
  <1>1. LeaseInv /\ [Next]_vars => LeaseInv'
    BY TypeStep, ReplyStep, LockStep, ConnStep, TimeStep, StmtStep, OwnStep
    DEF LeaseInv, FenceInv
  <1> QED
    BY <1>1, InitLease, PTL DEF Spec

\* However slow takeovers and renewals are, a process that reports Held is the
\* row's holder at its own epoch, or its own takeover outlasted its fence and
\* fencing itself is what it does next (renew, fence).
THEOREM FencedBeforeTaken == Spec => []HeldIsHolder
  <1>1. LeaseInv => HeldIsHolder
    <2> SUFFICES ASSUME LeaseInv, NEW p \in Procs, standing[p] = "held", ~FenceIsNext(p)
                 PROVE  holder = p /\ epoch = myEpoch[p]
      BY DEF HeldIsHolder
    <2>1. Counts(confirmed[p])
      BY LeaseAssumption
      DEF LeaseInv, FenceInv, TypeOK, TimeInv, FenceIsNext, Counts, fenceAt
    <2> QED
      BY <2>1 DEF LeaseInv, OwnInv, Owns
  <1> QED
    BY <1>1, LeaseInvariant, PTL

\* A fenced process is ready again only as the holder, at its own epoch: the
\* answer it resumes on cannot have outlived the lease (renew, resume).
THEOREM FenceLiftedByHolder == Spec => ResumesAsHolder
  <1> DEFINE Resumes == \A p \in Procs :
                 standing[p] = "unconfirmed" /\ standing'[p] = "held" =>
                     holder' = p /\ epoch' = myEpoch'[p]
  <1>1. LeaseInv /\ [Next]_vars => [Resumes]_vars
    <2> SUFFICES ASSUME LeaseInv, Next, NEW p \in Procs,
                        standing[p] = "unconfirmed", standing'[p] = "held"
                 PROVE  holder' = p /\ epoch' = myEpoch'[p]
      OBVIOUS
    <2> USE DEF LeaseInv, FenceInv, TypeOK
    <2>1. RenewConfirmed(p)
      BY DEF Next, AcquireConnect, AcquireBegin, AcquireCheck, AcquireCommit, AcquireDone,
          AcquireFail, RenewDue, Fence, RenewTimeout, RenewConfirmed, RenewTaken, RenewError,
          ReleaseStart, ReleaseRow, Crash, Connect, Disconnect, Terminate, RenewBegin,
          RenewApply, RenewLost, Tick, row, client
    <2>2. Owns(p, started[p])
      BY <2>1 DEF RenewConfirmed, OwnInv
    <2> QED
      BY <2>1, <2>2 DEF RenewConfirmed, Owns, row
  <1> QED
    BY <1>1, LeaseInvariant, PTL DEF Spec, ResumesAsHolder

(***************************************************************************)
(* The core's shards.                                                       *)
(***************************************************************************)

\* WorkersTypeOK but for the range of the two counts, which is a result.
WorkersShape ==
    /\ queue \in [Workers -> Seq(Events)]
    /\ backlog \in [Workers -> [Workers -> Seq(Events)]]
    /\ inFlight \in Int /\ stopped \in Int /\ woken \in [Workers -> BOOLEAN]
    /\ pc \in [Workers -> Places]
    /\ dest \in [Workers -> 1 .. (N + 1)]
    /\ cur \in [Workers -> Events]
    /\ stopping \in [Workers -> BOOLEAN]
    /\ exit \in [Workers -> Exits]
    /\ told \in -1 .. N /\ outside \in Nat
    /\ sentTo \in [Workers -> [Workers -> Nat]]
    /\ handled \in [Workers -> [Workers -> Nat]]

\* The event of d that w has taken: not begun, or begun and not settled.
Busy(w, d) == pc[w] \in {"accept", "effects"} /\ IsFrom(cur[w], d)

\* Events of d that w has taken from its queue, and that d has put into it.
Taken(d, w) == handled[d][w] + (IF pc[w] = "accept" /\ IsFrom(cur[w], d) THEN 1 ELSE 0)
Handed(d, w) == sentTo[d][w] - Len(backlog[d][w])

\* A worker is where its exit says it is, and only a failure has others aborted.
PlaceInv ==
    \A w \in Workers :
        /\ pc[w] = "exited" <=> Closed(w)
        /\ exit[w] = "aborted" => \E v \in Workers : Failed(v)

\* b, what d holds back, is the newest of the s it sent, numbered without a gap.
Held(d, b, s) ==
    /\ Len(b) <= s
    /\ \A i \in DOMAIN b : b[i] = FromShard(d, s - Len(b) + i)

\* q holds events of d in order and without a gap, from the one after t on and
\* none after l; all of them when it is complete.
Queued(d, q, t, l) ==
    /\ Increasing(d, q)
    /\ t <= l
    /\ \A n \in Numbers(d, q) : t < n /\ n <= l /\ \A m \in (t + 1) .. n : m \in Numbers(d, q)
Complete(d, q, t, l) == \A m \in (t + 1) .. l : m \in Numbers(d, q)

\* What is in hand is the newest taken; what follows it is in the queue, and what
\* follows that is held back, unless one of the two has left.
FlowOK(d, w) ==
    /\ Held(d, backlog[d][w], sentTo[d][w])
    /\ Busy(w, d) => cur[w].n = Taken(d, w)
    /\ Queued(d, queue[w], Taken(d, w), Handed(d, w))
    /\ ~Closed(d) /\ ~Closed(w) => Complete(d, queue[w], Taken(d, w), Handed(d, w))
FlowInv == \A d, w \in Workers : FlowOK(d, w)

\* `stopping` counts the workers that are, each once: one that is handles nothing
\* but shards' events.  All are when the drain's first load has said so.
Stoppers == {w \in Workers : stopping[w]}
StopInv ==
    /\ stopped = Cardinality(Stoppers)
    /\ \A w \in Workers :
           /\ pc[w] = "effects" /\ cur[w].kind # "shard" => ~stopping[w]
           /\ pc[w] = "load_in_flight" \/ exit[w] = "stopped" => \A v \in Workers : stopping[v]

\* The numbers of d's events for w that are in hand, queued or held back, and all
\* of them together: what in_flight counts.
InHand(d, w) == {n \in {cur[w].n} : Busy(w, d)}
Pending(d, w) ==
    InHand(d, w) \cup Numbers(d, queue[w])
        \cup (Handed(d, w) + 1) .. sentTo[d][w]
Triples(P) ==
    UNION {UNION {{<<d, w, n>> : n \in P[d][w]} : w \in Workers} : d \in Workers}
Unsettled == Triples([d \in Workers |-> [w \in Workers |-> Pending(d, w)]])

\* Nothing is settled that was not counted; only a worker that left by failing
\* leaves something counted that will never be settled.
NobodyFailed == \A w \in Workers : ~Failed(w)
CountInv ==
    /\ IsFiniteSet(Unsettled)
    /\ Cardinality(Unsettled) <= inFlight
    /\ NobodyFailed => Cardinality(Unsettled) = inFlight

\* Once one has stopped there is nothing left, for good.
QuietInv ==
    (\E w \in Workers : exit[w] = "stopped") /\ NobodyFailed =>
        /\ Unsettled = {}
        /\ \A d, w \in Workers : sentTo[d][w] = handled[d][w]

DeliveryInv == WorkersShape /\ PlaceInv /\ FlowInv
DrainInv == DeliveryInv /\ StopInv /\ CountInv /\ QuietInv

-----------------------------------------------------------------------------
\* Sequences of events.

LEMMA EventFacts ==
    /\ Outside \in Events /\ Shutdown \in Events
    /\ \A w \in Workers, n \in Nat :
           /\ FromShard(w, n) \in Events /\ FromShard(w, n).n = n
           /\ \A d : IsFrom(FromShard(w, n), d) <=> d = w
    /\ \A d : ~IsFrom(Outside, d) /\ ~IsFrom(Shutdown, d)
    /\ \A e \in Events :
           /\ e.n \in Nat /\ e.kind \in {"shard", "outside", "shutdown"}
           /\ e.kind = "shard" => e.from \in Workers
BY DEF Events, FromShard, Outside, Shutdown, IsFrom

LEMMA AppendAt ==
    ASSUME NEW S, NEW q \in Seq(S), NEW e \in S
    PROVE  /\ Append(q, e) \in Seq(S) /\ Len(q) \in Nat /\ Len(Append(q, e)) = Len(q) + 1
           /\ DOMAIN q = 1 .. Len(q) /\ DOMAIN Append(q, e) = 1 .. (Len(q) + 1)
           /\ \A i \in 1 .. Len(q) : Append(q, e)[i] = q[i]
           /\ Append(q, e)[Len(q) + 1] = e
BY AppendProperties, LenProperties

LEMMA TailAt ==
    ASSUME NEW S, NEW q \in Seq(S), q # <<>>
    PROVE  /\ Tail(q) \in Seq(S) /\ Head(q) \in S /\ Len(q) \in Nat /\ Len(q) >= 1
           /\ Len(Tail(q)) = Len(q) - 1
           /\ DOMAIN q = 1 .. Len(q) /\ DOMAIN Tail(q) = 1 .. (Len(q) - 1)
           /\ Head(q) = q[1] /\ \A i \in 1 .. (Len(q) - 1) : Tail(q)[i] = q[i + 1]
<1>1. Len(q) \in Nat /\ DOMAIN q = 1 .. Len(q) /\ Len(q) # 0
  BY LenProperties, EmptySeq
<1>2. Tail(q) \in Seq(S) /\ Head(q) \in S /\ Len(Tail(q)) = Len(q) - 1
  BY HeadTailProperties
<1>3. DOMAIN Tail(q) = 1 .. (Len(q) - 1)
  BY <1>2, LenProperties
<1>4. Head(q) = q[1] /\ \A i \in 1 .. (Len(q) - 1) : Tail(q)[i] = q[i + 1]
  BY <1>1, HeadTailProperties
<1> QED
  BY <1>1, <1>2, <1>3, <1>4

\* What it is for a number to be among those of d's events.
LEMMA NumbersAre ==
    ASSUME NEW q \in Seq(Events), NEW d
    PROVE  /\ Numbers(d, q) \subseteq Nat
           /\ \A n : n \in Numbers(d, q) <=> \E i \in DOMAIN q : IsFrom(q[i], d) /\ q[i].n = n
<1>1. \A i \in DOMAIN q : q[i].n \in Nat
  BY EventFacts, ElementOfSeq, LenProperties
<1> QED
  BY <1>1 DEF Numbers

LEMMA NoNumbers ==
    ASSUME NEW d
    PROVE  Numbers(d, <<>>) = {} /\ Increasing(d, <<>>)
BY DEF Numbers, Increasing

LEMMA AppendNumbers ==
    ASSUME NEW q \in Seq(Events), NEW e \in Events, NEW d
    PROVE  /\ IsFrom(e, d) => Numbers(d, Append(q, e)) = Numbers(d, q) \cup {e.n}
           /\ ~IsFrom(e, d) => Numbers(d, Append(q, e)) = Numbers(d, q)
<1> PICK p : p = Append(q, e)
  OBVIOUS
<1>1. /\ p \in Seq(Events) /\ Len(q) \in Nat /\ DOMAIN q = 1 .. Len(q)
      /\ DOMAIN p = 1 .. (Len(q) + 1)
      /\ \A i \in 1 .. Len(q) : p[i] = q[i]
      /\ p[Len(q) + 1] = e
  BY AppendAt
<1>2. \A i \in DOMAIN p : i = Len(q) + 1 \/ (i \in DOMAIN q /\ p[i] = q[i])
  BY <1>1
<1>3. \A i \in DOMAIN q : i \in DOMAIN p /\ p[i] = q[i]
  BY <1>1
<1>4. Len(q) + 1 \in DOMAIN p
  BY <1>1
<1>s. p \in Seq(Events)
  BY <1>1
<1>n. /\ \A n : n \in Numbers(d, q) <=> \E i \in DOMAIN q : IsFrom(q[i], d) /\ q[i].n = n
      /\ \A n : n \in Numbers(d, p) <=> \E i \in DOMAIN p : IsFrom(p[i], d) /\ p[i].n = n
  BY <1>s, NumbersAre, Zenon
<1>m. \A n : n \in Numbers(d, p) <=> (n \in Numbers(d, q) \/ (IsFrom(e, d) /\ n = e.n))
  <2> TAKE n
  <2>1. ASSUME n \in Numbers(d, p) PROVE n \in Numbers(d, q) \/ (IsFrom(e, d) /\ n = e.n)
    BY <1>n, <1>1, <1>2, <2>1
  <2>2. ASSUME n \in Numbers(d, q) PROVE n \in Numbers(d, p)
    BY <1>n, <1>3, <2>2
  <2>3. ASSUME IsFrom(e, d), n = e.n PROVE n \in Numbers(d, p)
    BY <1>n, <1>1, <1>4, <2>3
  <2> QED
    BY <2>1, <2>2, <2>3
<1> QED
  BY <1>m

LEMMA AppendIncreasing ==
    ASSUME NEW q \in Seq(Events), NEW e \in Events, NEW d, Increasing(d, q),
           IsFrom(e, d) => \A n \in Numbers(d, q) : n < e.n
    PROVE  Increasing(d, Append(q, e))
<1> PICK p : p = Append(q, e)
  OBVIOUS
<1>1. /\ p \in Seq(Events) /\ Len(q) \in Nat /\ DOMAIN q = 1 .. Len(q)
      /\ DOMAIN p = 1 .. (Len(q) + 1)
      /\ \A i \in 1 .. Len(q) : p[i] = q[i]
      /\ p[Len(q) + 1] = e
  BY AppendAt
<1>2. \A i \in DOMAIN p : i = Len(q) + 1 \/ (i \in DOMAIN q /\ p[i] = q[i])
  BY <1>1
<1> SUFFICES ASSUME NEW i \in DOMAIN p, NEW j \in DOMAIN p, i < j,
                    IsFrom(p[i], d), IsFrom(p[j], d)
             PROVE  p[i].n < p[j].n
  BY DEF Increasing
<1>5. i \in DOMAIN q /\ p[i] = q[i]
  BY <1>1
<1>6. CASE j \in DOMAIN q /\ p[j] = q[j]
  BY <1>5, <1>6 DEF Increasing
<1>7. CASE j = Len(q) + 1
  BY <1>1, <1>5, <1>7, NumbersAre
<1> QED
  BY <1>2, <1>6, <1>7

LEMMA TailNumbers ==
    ASSUME NEW q \in Seq(Events), q # <<>>, NEW d, Increasing(d, q)
    PROVE  /\ Increasing(d, Tail(q))
           /\ IsFrom(Head(q), d) => /\ Head(q).n \in Numbers(d, q)
                                    /\ Numbers(d, Tail(q)) = Numbers(d, q) \ {Head(q).n}
                                    /\ \A n \in Numbers(d, q) : Head(q).n <= n
           /\ ~IsFrom(Head(q), d) => Numbers(d, Tail(q)) = Numbers(d, q)
<1> PICK p : p = Tail(q)
  OBVIOUS
<1> PICK e : e = Head(q)
  OBVIOUS
<1>1. /\ p \in Seq(Events) /\ e \in Events /\ Len(q) \in Nat /\ Len(q) >= 1
      /\ DOMAIN q = 1 .. Len(q) /\ DOMAIN p = 1 .. (Len(q) - 1)
      /\ e = q[1] /\ \A i \in 1 .. (Len(q) - 1) : p[i] = q[i + 1]
  BY TailAt
<1>2. \A i \in DOMAIN p : i + 1 \in DOMAIN q /\ 1 < i + 1 /\ p[i] = q[i + 1]
  BY <1>1
<1>3. \A i \in DOMAIN q : i = 1 \/ (i - 1 \in DOMAIN p /\ p[i - 1] = q[i])
  BY <1>1
<1>4. 1 \in DOMAIN q
  BY <1>1
<1>5. Increasing(d, p)
  <2> SUFFICES ASSUME NEW i \in DOMAIN p, NEW j \in DOMAIN p, i < j,
                      IsFrom(p[i], d), IsFrom(p[j], d)
               PROVE  p[i].n < p[j].n
    BY DEF Increasing
  <2>1. i + 1 \in DOMAIN q /\ j + 1 \in DOMAIN q /\ i + 1 < j + 1
    BY <1>1
  <2> QED
    BY <1>2, <2>1 DEF Increasing
<1>6. \A i \in DOMAIN p : IsFrom(p[i], d) /\ IsFrom(e, d) => e.n < p[i].n
  BY <1>1, <1>2, <1>4 DEF Increasing
<1>7. e.n \in Nat /\ \A i \in DOMAIN p : p[i].n \in Nat
  BY <1>1, EventFacts, ElementOfSeq, LenProperties
<1>s. p \in Seq(Events)
  BY <1>1
<1>n. /\ \A n : n \in Numbers(d, q) <=> \E i \in DOMAIN q : IsFrom(q[i], d) /\ q[i].n = n
      /\ \A n : n \in Numbers(d, p) <=> \E i \in DOMAIN p : IsFrom(p[i], d) /\ p[i].n = n
  BY <1>s, NumbersAre, Zenon
<1>8. \A n : n \in Numbers(d, q) <=> (n \in Numbers(d, p) \/ (IsFrom(e, d) /\ n = e.n))
  <2> TAKE n
  <2>1. ASSUME n \in Numbers(d, q) PROVE n \in Numbers(d, p) \/ (IsFrom(e, d) /\ n = e.n)
    <3>1. PICK i \in DOMAIN q : IsFrom(q[i], d) /\ q[i].n = n
      BY <1>n, <2>1
    <3>2. CASE i = 1
      BY <1>1, <3>1, <3>2
    <3>3. CASE i - 1 \in DOMAIN p /\ p[i - 1] = q[i]
      BY <1>n, <3>1, <3>3
    <3> QED
      BY <1>3, <3>2, <3>3
  <2>2. ASSUME n \in Numbers(d, p) PROVE n \in Numbers(d, q)
    BY <1>n, <1>2, <2>2
  <2>3. ASSUME IsFrom(e, d), n = e.n PROVE n \in Numbers(d, q)
    BY <1>n, <1>1, <1>4, <2>3
  <2> QED
    BY <2>1, <2>2, <2>3
<1>9. \A n \in Numbers(d, p) : (IsFrom(e, d) => e.n < n) /\ n \in Nat
  BY <1>n, <1>6, <1>7
<1>11. IsFrom(e, d) => /\ e.n \in Numbers(d, q) /\ Numbers(d, p) = Numbers(d, q) \ {e.n}
                       /\ \A n \in Numbers(d, q) : e.n <= n
  BY <1>7, <1>8, <1>9
<1>12. ~IsFrom(e, d) => Numbers(d, p) = Numbers(d, q)
  BY <1>8
<1> QED
  BY <1>5, <1>11, <1>12

-----------------------------------------------------------------------------
\* What a step does to what is queued and held back.

LEMMA QueuedForeign ==
    ASSUME NEW q \in Seq(Events), NEW e \in Events, NEW d, NEW t \in Nat, NEW l \in Nat,
           Queued(d, q, t, l), ~IsFrom(e, d)
    PROVE  /\ Queued(d, Append(q, e), t, l)
           /\ Complete(d, q, t, l) => Complete(d, Append(q, e), t, l)
           /\ Numbers(d, Append(q, e)) = Numbers(d, q)
<1>1. Increasing(d, q)
  BY DEF Queued
<1>2. Increasing(d, Append(q, e))
  BY <1>1, AppendIncreasing
<1>3. Numbers(d, Append(q, e)) = Numbers(d, q)
  BY AppendNumbers
<1> QED
  BY <1>2, <1>3 DEF Queued, Complete

LEMMA QueuedNext ==
    ASSUME NEW q \in Seq(Events), NEW d \in Workers, NEW t \in Nat, NEW l \in Nat,
           Queued(d, q, t, l), Complete(d, q, t, l),
           NEW e, e = FromShard(d, l + 1)
    PROVE  /\ Queued(d, Append(q, e), t, l + 1)
           /\ Complete(d, Append(q, e), t, l + 1)
           /\ Numbers(d, Append(q, e)) = Numbers(d, q) \cup {l + 1}
<1>1. e \in Events /\ IsFrom(e, d) /\ e.n = l + 1
  BY EventFacts
<1>2. Numbers(d, q) \subseteq Nat
  BY NumbersAre
<1>3. Increasing(d, q) /\ \A n \in Numbers(d, q) : n < e.n
  BY <1>1, <1>2 DEF Queued
<1>4. Increasing(d, Append(q, e))
  BY <1>1, <1>3, AppendIncreasing
<1>5. Numbers(d, Append(q, e)) = Numbers(d, q) \cup {l + 1}
  BY <1>1, AppendNumbers
<1> PICK p : p = Append(q, e)
  OBVIOUS
<1>6. Complete(d, p, t, l + 1)
  BY <1>5 DEF Complete
<1>7. ASSUME NEW n \in Numbers(d, p)
      PROVE  t < n /\ n <= l + 1 /\ \A m \in (t + 1) .. n : m \in Numbers(d, p)
  <2>1. n \in Nat /\ t < n /\ n <= l + 1
    BY <1>2, <1>5, <1>7 DEF Queued
  <2> QED
    BY <1>6, <2>1 DEF Complete
<1>8. t <= l + 1
  BY DEF Queued
<1>9. Queued(d, p, t, l + 1)
  BY <1>4, <1>7, <1>8 DEF Queued
<1> QED
  BY <1>5, <1>6, <1>9

LEMMA QueuedOther ==
    ASSUME NEW q \in Seq(Events), q # <<>>, NEW d, NEW t \in Nat, NEW l \in Nat,
           Queued(d, q, t, l), ~IsFrom(Head(q), d)
    PROVE  /\ Queued(d, Tail(q), t, l)
           /\ Complete(d, q, t, l) => Complete(d, Tail(q), t, l)
           /\ Numbers(d, Tail(q)) = Numbers(d, q)
<1>1. Increasing(d, q)
  BY DEF Queued
<1>2. Increasing(d, Tail(q)) /\ Numbers(d, Tail(q)) = Numbers(d, q)
  BY <1>1, TailNumbers
<1> QED
  BY <1>2 DEF Queued, Complete

LEMMA QueuedHead ==
    ASSUME NEW q \in Seq(Events), q # <<>>, NEW d, NEW t \in Nat, NEW l \in Nat,
           Queued(d, q, t, l), IsFrom(Head(q), d)
    PROVE  /\ Head(q).n = t + 1
           /\ Queued(d, Tail(q), t + 1, l)
           /\ Complete(d, q, t, l) => Complete(d, Tail(q), t + 1, l)
           /\ Numbers(d, q) = Numbers(d, Tail(q)) \cup {t + 1}
<1>1. Increasing(d, q)
  BY DEF Queued
<1> PICK h : h = Head(q).n
  OBVIOUS
<1> PICK p : p = Tail(q)
  OBVIOUS
<1>2. /\ Increasing(d, p) /\ h \in Numbers(d, q) /\ Numbers(d, p) = Numbers(d, q) \ {h}
      /\ \A n \in Numbers(d, q) : h <= n
  BY <1>1, TailNumbers
<1>3. Numbers(d, q) \subseteq Nat
  BY NumbersAre
<1>4. h \in Nat /\ t < h /\ h <= l /\ \A m \in (t + 1) .. h : m \in Numbers(d, q)
  BY <1>2, <1>3 DEF Queued
<1>5. t + 1 \in Numbers(d, q)
  BY <1>4
<1>6. h = t + 1
  BY <1>2, <1>4, <1>5
<1>7. ASSUME NEW n \in Numbers(d, p)
      PROVE  t + 1 < n /\ n <= l /\ \A m \in (t + 2) .. n : m \in Numbers(d, p)
  <2>1. n \in Nat /\ n \in Numbers(d, q) /\ n # t + 1
    BY <1>2, <1>3, <1>6
  <2>2. t < n /\ n <= l /\ \A m \in (t + 1) .. n : m \in Numbers(d, q)
    BY <2>1 DEF Queued
  <2> QED
    BY <1>2, <1>6, <2>1, <2>2
<1>8. Queued(d, p, t + 1, l)
  BY <1>2, <1>4, <1>6, <1>7 DEF Queued
<1>9. Complete(d, q, t, l) => Complete(d, p, t + 1, l)
  BY <1>2, <1>6 DEF Complete
<1>10. Numbers(d, q) = Numbers(d, p) \cup {t + 1}
  BY <1>2, <1>5, <1>6
<1> QED
  BY <1>6, <1>8, <1>9, <1>10

LEMMA QueuedNone ==
    ASSUME NEW d, NEW t \in Nat, NEW l \in Nat, t <= l
    PROVE  Queued(d, <<>>, t, l)
BY NoNumbers DEF Queued

LEMMA QueuedMore ==
    ASSUME NEW q \in Seq(Events), NEW d, NEW t \in Nat, NEW l \in Nat, NEW k \in Nat,
           l <= k, Queued(d, q, t, l)
    PROVE  Queued(d, q, t, k)
BY NumbersAre DEF Queued

LEMMA HeldAppend ==
    ASSUME NEW b \in Seq(Events), NEW d \in Workers, NEW s \in Nat, Held(d, b, s),
           NEW e, e = FromShard(d, s + 1)
    PROVE  /\ Append(b, e) \in Seq(Events)
           /\ Held(d, Append(b, e), s + 1)
           /\ Len(Append(b, e)) = Len(b) + 1
<1>0. e \in Events
  BY EventFacts
<1> PICK c : c = Append(b, e)
  OBVIOUS
<1>1. /\ c \in Seq(Events) /\ Len(b) \in Nat /\ Len(c) = Len(b) + 1
      /\ DOMAIN b = 1 .. Len(b) /\ DOMAIN c = 1 .. (Len(b) + 1)
      /\ \A i \in 1 .. Len(b) : c[i] = b[i]
      /\ c[Len(b) + 1] = e
  BY <1>0, AppendAt
<1>2. ASSUME NEW i \in DOMAIN c
      PROVE  c[i] = FromShard(d, (s + 1) - Len(c) + i)
  <2>1. CASE i = Len(b) + 1
    <3>1. (s + 1) - Len(c) + i = s + 1
      BY <1>1, <2>1
    <3> QED
      BY <1>1, <2>1, <3>1
  <2>2. CASE i \in DOMAIN b
    <3>1. (s + 1) - Len(c) + i = s - Len(b) + i
      BY <1>1, <2>2
    <3>2. c[i] = b[i]
      BY <1>1, <2>2
    <3> QED
      BY <2>2, <3>1, <3>2 DEF Held
  <2> QED
    BY <1>1, <2>1, <2>2
<1>3. Len(c) <= s + 1
  BY <1>1 DEF Held
<1> QED
  BY <1>1, <1>2, <1>3 DEF Held

LEMMA HeldTail ==
    ASSUME NEW b \in Seq(Events), b # <<>>, NEW d \in Workers, NEW s \in Nat, Held(d, b, s)
    PROVE  /\ Tail(b) \in Seq(Events)
           /\ Held(d, Tail(b), s)
           /\ Len(Tail(b)) = Len(b) - 1
           /\ s - Len(b) \in Nat
           /\ Head(b) = FromShard(d, s - Len(b) + 1)
<1> PICK c : c = Tail(b)
  OBVIOUS
<1>1. /\ c \in Seq(Events) /\ Len(b) \in Nat /\ Len(b) >= 1 /\ Len(c) = Len(b) - 1
      /\ DOMAIN b = 1 .. Len(b) /\ DOMAIN c = 1 .. (Len(b) - 1)
      /\ Head(b) = b[1] /\ \A i \in 1 .. (Len(b) - 1) : c[i] = b[i + 1]
  BY TailAt
<1>2. ASSUME NEW i \in DOMAIN c
      PROVE  c[i] = FromShard(d, s - Len(c) + i)
  <2>1. s - Len(c) + i = s - Len(b) + (i + 1) /\ i + 1 \in DOMAIN b /\ c[i] = b[i + 1]
    BY <1>1
  <2>2. b[i + 1] = FromShard(d, s - Len(b) + (i + 1))
    BY <2>1 DEF Held
  <2> QED
    BY <2>1, <2>2
<1>3. Len(c) <= s /\ s - Len(b) \in Nat
  BY <1>1 DEF Held
<1>4. Head(b) = FromShard(d, s - Len(b) + 1)
  BY <1>1 DEF Held
<1> QED
  BY <1>1, <1>2, <1>3, <1>4 DEF Held

LEMMA HeldNone ==
    ASSUME NEW d, NEW s \in Nat
    PROVE  Held(d, <<>>, s) /\ s - Len(<<>>) = s
BY DEF Held

-----------------------------------------------------------------------------
\* Types and places.

LEMMA WorkersInitShape == WorkersInit => WorkersShape /\ PlaceInv
<1> SUFFICES ASSUME WorkersInit
             PROVE  WorkersShape /\ PlaceInv
  OBVIOUS
<1>1. <<>> \in Seq(Events) /\ Outside \in Events
  BY EventFacts
<1>2. N \in Nat /\ N >= 1
  BY WorkersAssumption
<1>3. WorkersShape
  BY <1>1, <1>2 DEF WorkersInit, WorkersShape, Places, Exits
<1>4. PlaceInv
  BY DEF WorkersInit, PlaceInv, Closed
<1> QED
  BY <1>3, <1>4

LEMMA GotoShape ==
    ASSUME WorkersShape, NEW w \in Workers, NEW place \in Places, Goto(w, place)
    PROVE  /\ pc' \in [Workers -> Places] /\ pc'[w] = place
           /\ \A v \in Workers : v # w => pc'[v] = pc[v]
BY DEF WorkersShape, Goto

LEMMA AgainShape ==
    ASSUME WorkersShape, NEW w \in Workers, NEW place \in Places, Again(w, place)
    PROVE  /\ pc' \in [Workers -> Places] /\ pc'[w] = place
           /\ \A v \in Workers : v # w => pc'[v] = pc[v]
           /\ dest' \in [Workers -> 1 .. (N + 1)]
           /\ cur' \in [Workers -> Events] /\ \A v \in Workers : v # w => cur'[v] = cur[v]
<1>1. 1 \in 1 .. (N + 1) /\ Outside \in Events
  BY WorkersAssumption, EventFacts
<1>2. dest' \in [Workers -> 1 .. (N + 1)]
  BY <1>1 DEF WorkersShape, Again
<1>3. cur' \in [Workers -> Events] /\ \A v \in Workers : v # w => cur'[v] = cur[v]
  BY <1>1 DEF WorkersShape, Again
<1> QED
  BY <1>2, <1>3, GotoShape DEF Again

LEMMA LeaveShape ==
    ASSUME WorkersShape, NEW w \in Workers, NEW how \in Exits, Leave(w, how)
    PROVE  /\ pc' \in [Workers -> Places] /\ exit' \in [Workers -> Exits]
           /\ queue' \in [Workers -> Seq(Events)]
           /\ backlog' \in [Workers -> [Workers -> Seq(Events)]]
<1>1. <<>> \in Seq(Events) /\ "exited" \in Places
  BY DEF Places
<1>2. [d \in Workers |-> <<>>] \in [Workers -> Seq(Events)]
  BY <1>1
<1>3. pc' \in [Workers -> Places] /\ exit' \in [Workers -> Exits]
  BY <1>1, GotoShape DEF WorkersShape, Leave
<1>4. queue' \in [Workers -> Seq(Events)]
  BY <1>1 DEF WorkersShape, Leave
<1>5. backlog' \in [Workers -> [Workers -> Seq(Events)]]
  BY <1>2 DEF WorkersShape, Leave
<1> QED
  BY <1>3, <1>4, <1>5

LEMMA ShapeStep == WorkersShape /\ [WorkersNext]_workersVars => WorkersShape'
<1> SUFFICES ASSUME WorkersShape, [WorkersNext]_workersVars
             PROVE  WorkersShape'
  OBVIOUS
<1>e. <<>> \in Seq(Events) /\ Outside \in Events /\ Shutdown \in Events /\ N \in Nat
  BY EventFacts, WorkersAssumption
<1>p. /\ {"send", "notify", "notify_leave", "leave", "load_stopping", "load_in_flight",
          "select", "accept", "effects", "exited"} \subseteq Places
      /\ {"stopped", "backlogged", "peer_closed", "aborted"} \subseteq Exits
  BY DEF Places, Exits
<1> USE DEF traffic, history
<1>1. ASSUME NEW w \in Workers, SendDone(w) PROVE WorkersShape'
  <2>0. dest[w] \in 1 .. (N + 1) /\ dest[w] <= N
    BY <1>1 DEF SendDone, WorkersShape
  <2>1. dest[w] + 1 \in 1 .. (N + 1)
    BY <1>e, <2>0
  <2>2. CASE Leave(w, "backlogged") /\ UNCHANGED dest
    BY <1>p, <1>1, <2>2, LeaveShape DEF SendDone, WorkersShape
  <2>3. CASE SendNext(w) /\ UNCHANGED <<queue, backlog, exit>>
    BY <1>1, <2>1, <2>3 DEF SendDone, SendNext, WorkersShape
  <2> QED
    BY <1>1, <2>2, <2>3 DEF SendDone
<1>2. ASSUME NEW w \in Workers, SendOne(w) PROVE WorkersShape'
  <2> PICK d : d = dest[w]
    OBVIOUS
  <2>1. d \in Workers
    BY <1>e, <1>2 DEF SendOne, Workers, WorkersShape
  <2>2. /\ Append(queue[d], Head(backlog[w][d])) \in Seq(Events)
        /\ Tail(backlog[w][d]) \in Seq(Events)
    BY <1>2, <2>1, TailAt, AppendAt DEF SendOne, WorkersShape
  <2> QED
    BY <1>2, <2>1, <2>2 DEF SendOne, WorkersShape
<1>3. ASSUME NEW w \in Workers, SendClosed(w) PROVE WorkersShape'
  <2> PICK d : d = dest[w]
    OBVIOUS
  <2>1. d \in Workers
    BY <1>e, <1>3 DEF SendClosed, Workers, WorkersShape
  <2>2. Tail(backlog[w][d]) \in Seq(Events)
    BY <1>3, <2>1, TailAt DEF SendClosed, WorkersShape
  <2>3. pc' \in [Workers -> Places]
    BY <1>p, <1>3, GotoShape DEF SendClosed, AfterSettled
  <2>4. backlog' \in [Workers -> [Workers -> Seq(Events)]]
    BY <1>3, <2>1, <2>2 DEF SendClosed, WorkersShape
  <2>5. inFlight' \in Int
    BY <1>3 DEF SendClosed, Settled, WorkersShape
  <2> QED
    BY <1>3, <2>3, <2>4, <2>5 DEF SendClosed, WorkersShape
<1>4. ASSUME NEW w \in Workers, Notify(w) PROVE WorkersShape'
  <2>1. woken' \in [Workers -> BOOLEAN]
    BY <1>4, Zenon DEF Notify, NotifyWaiters, Enabled
  <2>2. pc' \in [Workers -> Places]
    BY <1>p, <1>4, GotoShape DEF Notify
  <2> QED
    BY <1>4, <2>1, <2>2 DEF Notify, WorkersShape
<1>5. ASSUME NEW w \in Workers, PeerClosed(w) PROVE WorkersShape'
  BY <1>p, <1>5, LeaveShape DEF PeerClosed, WorkersShape
<1>6. ASSUME NEW w \in Workers, Enable(w) \/ LoadStopping(w) PROVE WorkersShape'
  <2>1. pc' \in [Workers -> Places]
    BY <1>p, <1>6, GotoShape DEF Enable, LoadStopping
  <2> QED
    BY <1>6, <2>1 DEF Enable, LoadStopping, WorkersShape
<1>7. ASSUME NEW w \in Workers, LoadInFlight(w) PROVE WorkersShape'
  <2>1. CASE Leave(w, "stopped")
    BY <1>p, <1>7, <2>1, LeaveShape DEF LoadInFlight, WorkersShape
  <2>2. CASE Goto(w, "select") /\ UNCHANGED <<queue, backlog, exit>>
    BY <1>p, <1>7, <2>2, GotoShape DEF LoadInFlight, WorkersShape
  <2> QED
    BY <1>7, <2>1, <2>2 DEF LoadInFlight
<1>8. ASSUME NEW w \in Workers, Pop(w) PROVE WorkersShape'
  <2>1. Head(queue[w]) \in Events /\ Tail(queue[w]) \in Seq(Events)
    BY <1>8, TailAt DEF Pop, WorkersShape
  <2>2. pc' \in [Workers -> Places]
    BY <1>p, <1>8, GotoShape DEF Pop
  <2> QED
    BY <1>8, <2>1, <2>2 DEF Pop, WorkersShape
<1>9. ASSUME NEW w \in Workers, Wake(w) \/ Skip(w) PROVE WorkersShape'
  <2>1. Again(w, "send")
    BY <1>9 DEF Wake, Skip
  <2> QED
    BY <1>p, <1>9, <2>1, AgainShape DEF Wake, Skip, WorkersShape
<1>10. ASSUME NEW w \in Workers, Handle(w) PROVE WorkersShape'
  <2>1. CASE cur[w].kind = "shard"
    <3> PICK f : f = cur[w].from
      OBVIOUS
    <3>1. f \in Workers
      BY <2>1, EventFacts DEF WorkersShape
    <3>0. handled[f] \in [Workers -> Nat]
      BY <3>1 DEF WorkersShape
    <3>2. handled[f][w] + 1 \in Nat
      BY <3>0
    <3>3. [handled[f] EXCEPT ![w] = handled[f][w] + 1] \in [Workers -> Nat]
      BY <3>0, <3>2
    <3>4. handled' = [handled EXCEPT ![f] = [handled[f] EXCEPT ![w] = handled[f][w] + 1]]
      BY <1>10, <2>1, <3>1 DEF Handle, WorkersShape
    <3>5. handled' \in [Workers -> [Workers -> Nat]]
      BY <3>3, <3>4 DEF WorkersShape
    <3> QED
      BY <1>p, <1>10, <3>5, GotoShape DEF Handle, WorkersShape
  <2>2. CASE cur[w].kind # "shard"
    BY <1>p, <1>10, <2>2, GotoShape DEF Handle, WorkersShape
  <2> QED
    BY <2>1, <2>2
<1>11. ASSUME NEW w \in Workers, Settle(w) PROVE WorkersShape'
  <2>1. PICK place \in Places : Again(w, place)
    BY <1>p, <1>11 DEF Settle, AfterSettled
  <2>2. inFlight' \in Int
    BY <1>11 DEF Settle, Settled, WorkersShape
  <2> QED
    BY <1>11, <2>1, <2>2, AgainShape DEF Settle, WorkersShape
<1>12. ASSUME NEW w \in Workers, Stop(w) PROVE WorkersShape'
  BY <1>p, <1>12, AgainShape DEF Stop, WorkersShape
<1>13. ASSUME NEW d \in Workers, Push(d) PROVE WorkersShape'
  <2>1. Append(queue[d], Outside) \in Seq(Events)
    BY <1>e, AppendAt DEF WorkersShape
  <2>2. queue' \in [Workers -> Seq(Events)] /\ outside' \in Nat
    BY <1>13, <2>1 DEF Push, WorkersShape
  <2> QED
    BY <1>13, <2>2 DEF Push, WorkersShape
<1>14. ASSUME NEW w \in Workers, NEW d \in Workers, Effect(w, d) PROVE WorkersShape'
  <2>a. sentTo[w] \in [Workers -> Nat]
    BY DEF WorkersShape
  <2>b. sentTo[w][d] + 1 \in Nat
    BY <2>a
  <2>c. sentTo' = [sentTo EXCEPT ![w] = [sentTo[w] EXCEPT ![d] = sentTo[w][d] + 1]]
    BY <1>14 DEF Effect, WorkersShape
  <2>d. [sentTo[w] EXCEPT ![d] = sentTo[w][d] + 1] \in [Workers -> Nat]
    BY <2>a, <2>b
  <2>1. sentTo' \in [Workers -> [Workers -> Nat]] /\ sentTo'[w][d] \in Nat
    BY <2>a, <2>b, <2>c, <2>d DEF WorkersShape
  <2> PICK e : e = FromShard(w, sentTo'[w][d])
    OBVIOUS
  <2>2. e \in Events
    BY <2>1, EventFacts
  <2>3. Append(backlog[w][d], e) \in Seq(Events)
    BY <2>2, AppendAt DEF WorkersShape
  <2>4. backlog' = [backlog EXCEPT ![w][d] = Append(@, e)]
    BY <1>14 DEF Effect
  <2>5. backlog' \in [Workers -> [Workers -> Seq(Events)]]
    BY <2>3, <2>4 DEF WorkersShape
  <2>6. inFlight' \in Int
    BY <1>14 DEF Effect, WorkersShape
  <2> QED
    BY <1>14, <2>1, <2>5, <2>6 DEF Effect, WorkersShape
<1>15. ASSUME BeginShutdown PROVE WorkersShape'
  BY <1>e, <1>15 DEF BeginShutdown, WorkersShape
<1>16. ASSUME Tell PROVE WorkersShape'
  <2> PICK d : d = told + 1
    OBVIOUS
  <2>1. d \in Workers /\ told' \in -1 .. N
    BY <1>e, <1>16 DEF Tell, Workers, WorkersShape
  <2>2. Append(queue[d], Shutdown) \in Seq(Events)
    BY <1>e, <2>1, AppendAt DEF WorkersShape
  <2>3. queue' \in [Workers -> Seq(Events)]
    BY <1>16, <2>1, <2>2 DEF Tell, WorkersShape
  <2> QED
    BY <1>16, <2>1, <2>3 DEF Tell, WorkersShape
<1>17. ASSUME Abort PROVE WorkersShape'
  BY <1>e, <1>p, <1>17 DEF Abort, WorkersShape
<1>18. ASSUME UNCHANGED workersVars PROVE WorkersShape'
  BY <1>18 DEF workersVars, WorkersShape
<1> QED
  BY <1>1, <1>2, <1>3, <1>4, <1>5, <1>6, <1>7, <1>8, <1>9, <1>10, <1>11, <1>12, <1>13, <1>14,
     <1>15, <1>16, <1>17, <1>18
     DEF WorkersNext, Step

\* What leaving changes.
LEMMA LeaveIs ==
    ASSUME WorkersShape, NEW w \in Workers, NEW how, Leave(w, how)
    PROVE  /\ pc'[w] = "exited" /\ exit'[w] = how /\ queue'[w] = <<>>
           /\ \A d \in Workers : backlog'[w][d] = <<>>
           /\ \A v \in Workers : v # w =>
                  pc'[v] = pc[v] /\ exit'[v] = exit[v] /\ queue'[v] = queue[v] /\ backlog'[v] = backlog[v]
BY DEF WorkersShape, Leave, Goto

LEMMA PlaceLeave ==
    ASSUME WorkersShape, PlaceInv, NEW w \in Workers, NEW how, Leave(w, how), pc[w] # "exited",
           how \in {"stopped", "backlogged", "peer_closed"}
    PROVE  PlaceInv'
<1>1. ~Closed(w)
  BY DEF PlaceInv
<1> SUFFICES ASSUME NEW v \in Workers
             PROVE  /\ pc'[v] = "exited" <=> exit'[v] # "running"
                    /\ exit'[v] = "aborted" => \E u \in Workers : Failed(u)'
  BY DEF PlaceInv, Closed
<1>2. CASE v = w
  BY <1>2, LeaveIs
<1>3. CASE v # w
  <2>1. pc'[v] = pc[v] /\ exit'[v] = exit[v]
    BY <1>3, LeaveIs
  <2>2. exit[v] = "aborted" => \E u \in Workers : Failed(u) /\ u # w
    BY <1>1 DEF PlaceInv, Failed, Closed
  <2>3. \A u \in Workers : Failed(u) /\ u # w => Failed(u)'
    BY LeaveIs DEF Failed
  <2> QED
    BY <2>1, <2>2, <2>3 DEF PlaceInv, Closed
<1> QED
  BY <1>2, <1>3

LEMMA PlaceStep == WorkersShape /\ PlaceInv /\ [WorkersNext]_workersVars => PlaceInv'
<1> SUFFICES ASSUME WorkersShape, PlaceInv, [WorkersNext]_workersVars
             PROVE  PlaceInv'
  OBVIOUS
<1>m. ASSUME exit' = exit, \A v \in Workers : pc'[v] = "exited" <=> pc[v] = "exited"
      PROVE  PlaceInv'
  BY <1>m DEF PlaceInv, Closed, Failed
<1> USE DEF traffic, history, Goto, Again
<1>p. DOMAIN pc = Workers
  BY DEF WorkersShape
<1>1. ASSUME NEW w \in Workers, SendDone(w) PROVE PlaceInv'
  <2>1. CASE Leave(w, "backlogged")
    BY <1>1, <2>1, PlaceLeave DEF SendDone
  <2>2. CASE UNCHANGED <<pc, exit>>
    BY <1>m, <2>2
  <2> QED
    BY <1>1, <2>1, <2>2 DEF SendDone, SendNext
<1>2. ASSUME NEW w \in Workers, PeerClosed(w) PROVE PlaceInv'
  BY <1>2, PlaceLeave DEF PeerClosed
<1>3. ASSUME NEW w \in Workers, LoadInFlight(w) PROVE PlaceInv'
  <2>1. CASE Leave(w, "stopped")
    BY <1>3, <2>1, PlaceLeave DEF LoadInFlight
  <2>2. CASE pc' = [pc EXCEPT ![w] = "select"] /\ exit' = exit
    BY <1>m, <1>p, <1>3, <2>2 DEF LoadInFlight
  <2> QED
    BY <1>3, <2>1, <2>2 DEF LoadInFlight
<1>4. ASSUME NEW w \in Workers,
             SendOne(w) \/ SendClosed(w) \/ Notify(w) \/ Enable(w) \/ LoadStopping(w) \/ Pop(w)
      PROVE  PlaceInv'
  <2>1. exit' = exit
    BY <1>4 DEF SendOne, SendClosed, Notify, Enable, LoadStopping, Pop
  <2>2. \A v \in Workers : pc'[v] = "exited" <=> pc[v] = "exited"
    BY <1>p, <1>4 DEF SendOne, SendClosed, AfterSettled, Notify, Enable, LoadStopping, Pop
  <2> QED
    BY <1>m, <2>1, <2>2
<1>5. ASSUME NEW w \in Workers,
             Wake(w) \/ Skip(w) \/ Handle(w) \/ Settle(w) \/ Stop(w)
      PROVE  PlaceInv'
  <2>1. exit' = exit
    BY <1>5 DEF Wake, Skip, Handle, Settle, Stop
  <2>2. \A v \in Workers : pc'[v] = "exited" <=> pc[v] = "exited"
    BY <1>p, <1>5 DEF Wake, Skip, Handle, Settle, Stop, AfterSettled
  <2> QED
    BY <1>m, <2>1, <2>2
<1>6. ASSUME NEW w \in Workers, NEW d \in Workers, Push(w) \/ Effect(w, d) PROVE PlaceInv'
  BY <1>m, <1>6 DEF Push, Effect
<1>7. ASSUME BeginShutdown \/ Tell \/ UNCHANGED workersVars PROVE PlaceInv'
  BY <1>m, <1>7 DEF BeginShutdown, Tell, workersVars
<1>8. ASSUME Abort PROVE PlaceInv'
  <2>1. PICK u \in Workers : Failed(u)
    BY <1>8 DEF Abort
  <2>2. exit'[u] = exit[u] /\ Failed(u)'
    BY <1>8, <2>1 DEF Abort, Failed, Closed
  <2>3. \A v \in Workers : pc'[v] = "exited" /\ exit'[v] # "running"
    BY <1>8 DEF Abort, Closed
  <2> QED
    BY <2>2, <2>3 DEF PlaceInv, Closed
<1> QED
  BY <1>1, <1>2, <1>3, <1>4, <1>5, <1>6, <1>7, <1>8 DEF WorkersNext, Step

-----------------------------------------------------------------------------
\* The flow of events from one shard to another, action by action: the numbers
\* stay in order, and what is pending changes only where it is sent, settled or
\* dropped.

LEMMA FlowTypes ==
    ASSUME WorkersShape, NEW d \in Workers, NEW w \in Workers
    PROVE  /\ queue[w] \in Seq(Events) /\ backlog[d][w] \in Seq(Events)
           /\ sentTo[d][w] \in Nat /\ handled[d][w] \in Nat /\ Taken(d, w) \in Nat
           /\ Len(backlog[d][w]) \in Nat /\ cur[w] \in Events /\ cur[w].n \in Nat
           /\ FlowOK(d, w) => Handed(d, w) \in Nat
<1>1. /\ queue[w] \in Seq(Events) /\ backlog[d] \in [Workers -> Seq(Events)]
      /\ sentTo[d] \in [Workers -> Nat] /\ handled[d] \in [Workers -> Nat]
      /\ cur[w] \in Events
  BY DEF WorkersShape
<1>2. /\ backlog[d][w] \in Seq(Events) /\ sentTo[d][w] \in Nat /\ handled[d][w] \in Nat
      /\ cur[w].n \in Nat
  BY <1>1, EventFacts
<1>3. Len(backlog[d][w]) \in Nat /\ Taken(d, w) \in Nat
  BY <1>2, LenProperties DEF Taken
<1>4. FlowOK(d, w) => Handed(d, w) \in Nat
  BY <1>2, <1>3 DEF FlowOK, Held, Handed
<1> QED
  BY <1>1, <1>2, <1>3, <1>4

\* Nothing moves but, perhaps, something in hand is let go.
LEMMA FlowKept ==
    ASSUME FlowInv, UNCHANGED <<queue, backlog, sentTo, handled, exit>>,
           \A d, w \in Workers :
               /\ Taken(d, w)' = Taken(d, w)
               /\ Busy(w, d)' => Busy(w, d) /\ cur'[w].n = cur[w].n
    PROVE  FlowInv'
<1> SUFFICES ASSUME NEW d \in Workers, NEW w \in Workers
             PROVE  FlowOK(d, w)'
  BY DEF FlowInv
<1>1. FlowOK(d, w)
  BY DEF FlowInv
<1>2. Handed(d, w)' = Handed(d, w)
  BY DEF Handed
<1>3. (Closed(d)' <=> Closed(d)) /\ (Closed(w)' <=> Closed(w))
  BY DEF Closed
<1>4. Busy(w, d)' => cur'[w].n = Taken(d, w)'
  BY <1>1 DEF FlowOK
<1> QED
  BY <1>1, <1>2, <1>3, <1>4 DEF FlowOK

\* A worker that has nothing of a shard in hand, before or after, moves on.
LEMMA FlowIdle ==
    ASSUME FlowInv, UNCHANGED <<queue, backlog, sentTo, handled, exit>>,
           \A v \in Workers :
               \/ pc'[v] = pc[v] /\ cur'[v] = cur[v]
               \/ \A d \in Workers : ~Busy(v, d) /\ ~Busy(v, d)'
    PROVE  FlowInv' /\ \A d, w \in Workers : Pending(d, w)' = Pending(d, w)
<1>1. ASSUME NEW d \in Workers, NEW w \in Workers
      PROVE  /\ Taken(d, w)' = Taken(d, w)
             /\ Busy(w, d)' => Busy(w, d) /\ cur'[w].n = cur[w].n
             /\ InHand(d, w)' = InHand(d, w)
  <2>1. CASE pc'[w] = pc[w] /\ cur'[w] = cur[w]
    BY <2>1 DEF Taken, Busy, InHand
  <2>2. CASE ~Busy(w, d) /\ ~Busy(w, d)'
    <3>1. Taken(d, w) = handled[d][w] + 0 /\ Taken(d, w)' = handled[d][w] + 0
      BY <2>2 DEF Taken, Busy
    <3>2. InHand(d, w) = {} /\ InHand(d, w)' = {}
      BY <2>2 DEF InHand
    <3> QED
      BY <2>2, <3>1, <3>2
  <2> QED
    BY <2>1, <2>2
<1>2. FlowInv'
  BY <1>1, FlowKept
<1>3. \A d, w \in Workers : Pending(d, w)' = Pending(d, w)
  BY <1>1 DEF Pending, Handed
<1> QED
  BY <1>2, <1>3

\* An event from outside, or Shutdown, joins a queue.
LEMMA FlowArrive ==
    ASSUME WorkersShape, FlowInv, NEW t \in Workers, NEW e \in {Outside, Shutdown},
           queue' = [queue EXCEPT ![t] = Append(@, e)],
           UNCHANGED <<backlog, pc, cur, exit, sentTo, handled>>
    PROVE  FlowInv' /\ \A d, w \in Workers : Pending(d, w)' = Pending(d, w)
<1>1. ASSUME NEW d \in Workers, NEW w \in Workers
      PROVE  FlowOK(d, w)' /\ Pending(d, w)' = Pending(d, w)
  <2>1. FlowOK(d, w)
    BY DEF FlowInv
  <2>2. /\ Taken(d, w)' = Taken(d, w) /\ Handed(d, w)' = Handed(d, w)
        /\ (Busy(w, d)' <=> Busy(w, d)) /\ InHand(d, w)' = InHand(d, w)
        /\ (Closed(d)' <=> Closed(d)) /\ (Closed(w)' <=> Closed(w))
    BY DEF Taken, Handed, Busy, InHand, Closed
  <2>3. e \in Events /\ ~IsFrom(e, d)
    BY EventFacts
  <2>4. queue[w] \in Seq(Events) /\ Taken(d, w) \in Nat /\ Handed(d, w) \in Nat
    BY <2>1, FlowTypes
  <2>5. queue'[w] = queue[w] \/ queue'[w] = Append(queue[w], e)
    BY DEF WorkersShape
  <2>6. /\ Queued(d, queue'[w], Taken(d, w), Handed(d, w))
        /\ Complete(d, queue[w], Taken(d, w), Handed(d, w)) =>
               Complete(d, queue'[w], Taken(d, w), Handed(d, w))
        /\ Numbers(d, queue'[w]) = Numbers(d, queue[w])
    <3>1. Queued(d, queue[w], Taken(d, w), Handed(d, w))
      BY <2>1 DEF FlowOK
    <3>2. CASE queue'[w] = queue[w]
      BY <3>1, <3>2
    <3>3. CASE queue'[w] = Append(queue[w], e)
      BY <2>3, <2>4, <3>1, <3>3, QueuedForeign
    <3> QED
      BY <2>5, <3>2, <3>3
  <2>7. FlowOK(d, w)'
    BY <2>1, <2>2, <2>6 DEF FlowOK
  <2>8. Pending(d, w)' = Pending(d, w)
    BY <2>2, <2>6 DEF Pending
  <2> QED
    BY <2>7, <2>8
<1> QED
  BY <1>1 DEF FlowInv

\* The oldest of what s holds back for t joins t's queue.
LEMMA FlowSendOne ==
    ASSUME WorkersShape, PlaceInv, FlowInv, NEW s \in Workers, NEW t \in Workers,
           pc[s] = "send", backlog[s][t] # <<>>, ~Closed(t),
           queue' = [queue EXCEPT ![t] = Append(@, Head(backlog[s][t]))],
           backlog' = [backlog EXCEPT ![s][t] = Tail(@)],
           UNCHANGED <<pc, cur, exit, sentTo, handled>>
    PROVE  FlowInv' /\ \A d, w \in Workers : Pending(d, w)' = Pending(d, w)
<1>0. ~Closed(s)
  BY DEF PlaceInv
<1>1. FlowOK(s, t)
  BY DEF FlowInv
<1>t. /\ queue[t] \in Seq(Events) /\ backlog[s][t] \in Seq(Events) /\ sentTo[s][t] \in Nat
      /\ Len(backlog[s][t]) \in Nat /\ Taken(s, t) \in Nat /\ Handed(s, t) \in Nat
  BY <1>1, FlowTypes
<1> PICK e : e = Head(backlog[s][t])
  OBVIOUS
<1>2. /\ Held(s, Tail(backlog[s][t]), sentTo[s][t])
      /\ Len(Tail(backlog[s][t])) = Len(backlog[s][t]) - 1
      /\ e = FromShard(s, Handed(s, t) + 1)
  BY <1>1, <1>t, HeldTail DEF FlowOK, Handed
<1>n. Handed(s, t) + 1 \in Nat
  BY <1>t
<1>3. e \in Events /\ \A d \in Workers : d # s => ~IsFrom(e, d)
  BY <1>2, <1>n, EventFacts
<1>4. ASSUME NEW d \in Workers, NEW w \in Workers
      PROVE  FlowOK(d, w)' /\ Pending(d, w)' = Pending(d, w)
  <2>1. FlowOK(d, w)
    BY DEF FlowInv
  <2>2. /\ Taken(d, w)' = Taken(d, w)
        /\ (Busy(w, d)' <=> Busy(w, d)) /\ InHand(d, w)' = InHand(d, w)
        /\ (Closed(d)' <=> Closed(d)) /\ (Closed(w)' <=> Closed(w))
    BY DEF Taken, Busy, InHand, Closed
  <2>4. queue[w] \in Seq(Events) /\ Taken(d, w) \in Nat /\ Handed(d, w) \in Nat
    BY <2>1, FlowTypes
  <2>5. CASE d = s /\ w = t
    <3>1. backlog'[s][t] = Tail(backlog[s][t]) /\ queue'[t] = Append(queue[t], e)
      BY DEF WorkersShape
    <3>a. Handed(s, t)' = sentTo[s][t] - Len(backlog'[s][t])
      BY DEF Handed
    <3>b. sentTo[s][t] - (Len(backlog[s][t]) - 1) = (sentTo[s][t] - Len(backlog[s][t])) + 1
      BY <1>t
    <3>2. Handed(s, t)' = Handed(s, t) + 1
      BY <1>2, <3>1, <3>a, <3>b DEF Handed
    <3>3. Queued(s, queue[t], Taken(s, t), Handed(s, t)) /\ Complete(s, queue[t], Taken(s, t), Handed(s, t))
      BY <1>0, <1>1 DEF FlowOK
    <3>4. /\ Queued(s, queue'[t], Taken(s, t), Handed(s, t) + 1)
          /\ Complete(s, queue'[t], Taken(s, t), Handed(s, t) + 1)
          /\ Numbers(s, queue'[t]) = Numbers(s, queue[t]) \cup {Handed(s, t) + 1}
      BY <1>2, <1>t, <3>1, <3>3, QueuedNext
    <3>5. FlowOK(s, t)'
      BY <1>1, <1>2, <2>2, <2>5, <3>1, <3>2, <3>4 DEF FlowOK
    <3>6. Handed(s, t) + 1 <= sentTo[s][t]
      BY <1>t, <1>2, <3>1, <3>2 DEF Held, Handed
    <3>7. (Handed(s, t) + 1) .. sentTo[s][t] =
             ((Handed(s, t) + 1) + 1) .. sentTo[s][t] \cup {Handed(s, t) + 1}
      BY <1>t, <3>6
    <3>8. Pending(s, t)' = Pending(s, t)
      BY <2>2, <2>5, <3>2, <3>4, <3>7 DEF Pending
    <3> QED
      BY <2>5, <3>5, <3>8
  <2>6. CASE ~(d = s /\ w = t)
    <3>1. backlog'[d][w] = backlog[d][w]
      BY <2>6 DEF WorkersShape
    <3>2. Handed(d, w)' = Handed(d, w)
      BY <3>1 DEF Handed
    <3>3. Queued(d, queue[w], Taken(d, w), Handed(d, w))
      BY <2>1 DEF FlowOK
    <3>4. /\ Queued(d, queue'[w], Taken(d, w), Handed(d, w))
          /\ Complete(d, queue[w], Taken(d, w), Handed(d, w)) =>
                 Complete(d, queue'[w], Taken(d, w), Handed(d, w))
          /\ Numbers(d, queue'[w]) = Numbers(d, queue[w])
      <4>1. CASE w = t
        <5>1. queue'[w] = Append(queue[w], e) /\ ~IsFrom(e, d)
          BY <1>3, <2>6, <4>1 DEF WorkersShape
        <5> QED
          BY <1>3, <2>4, <3>3, <5>1, QueuedForeign
      <4>2. CASE w # t
        <5>1. queue'[w] = queue[w]
          BY <4>2 DEF WorkersShape
        <5> QED
          BY <3>3, <5>1
      <4> QED
        BY <4>1, <4>2
    <3>5. FlowOK(d, w)'
      BY <2>1, <2>2, <3>1, <3>2, <3>4 DEF FlowOK
    <3>6. Pending(d, w)' = Pending(d, w)
      BY <2>2, <3>2, <3>4 DEF Pending
    <3> QED
      BY <3>5, <3>6
  <2> QED
    BY <2>5, <2>6
<1> QED
  BY <1>4 DEF FlowInv

\* The oldest of what s holds back for a shard that is gone is dropped.
LEMMA FlowSendClosed ==
    ASSUME WorkersShape, FlowInv, NEW s \in Workers, NEW t \in Workers, NEW place,
           pc[s] = "send", backlog[s][t] # <<>>, Closed(t),
           backlog' = [backlog EXCEPT ![s][t] = Tail(@)],
           Goto(s, place), place \in Places \ {"accept", "effects"},
           UNCHANGED <<queue, cur, exit, sentTo, handled>>
    PROVE  /\ FlowInv'
           /\ Handed(s, t) + 1 \in Pending(s, t)
           /\ Pending(s, t)' = Pending(s, t) \ {Handed(s, t) + 1}
           /\ \A d, w \in Workers : ~(d = s /\ w = t) => Pending(d, w)' = Pending(d, w)
<1>1. FlowOK(s, t)
  BY DEF FlowInv
<1>t. /\ queue[t] \in Seq(Events) /\ backlog[s][t] \in Seq(Events) /\ sentTo[s][t] \in Nat
      /\ Len(backlog[s][t]) \in Nat /\ Taken(s, t) \in Nat /\ Handed(s, t) \in Nat
  BY <1>1, FlowTypes
<1>2. /\ Held(s, Tail(backlog[s][t]), sentTo[s][t])
      /\ Len(Tail(backlog[s][t])) = Len(backlog[s][t]) - 1
  BY <1>1, <1>t, HeldTail DEF FlowOK
<1>p. pc'[s] = place /\ \A v \in Workers : v # s => pc'[v] = pc[v]
  BY GotoShape
<1>3. ASSUME NEW d \in Workers, NEW w \in Workers
      PROVE  /\ Taken(d, w)' = Taken(d, w)
             /\ (Busy(w, d)' <=> Busy(w, d)) /\ InHand(d, w)' = InHand(d, w)
             /\ (Closed(d)' <=> Closed(d)) /\ (Closed(w)' <=> Closed(w))
  BY <1>p DEF Taken, Busy, InHand, Closed
<1>b. backlog'[s][t] = Tail(backlog[s][t])
  BY DEF WorkersShape
<1>a. Handed(s, t)' = sentTo[s][t] - Len(backlog'[s][t])
  BY DEF Handed
<1>c. sentTo[s][t] - (Len(backlog[s][t]) - 1) = (sentTo[s][t] - Len(backlog[s][t])) + 1
  BY <1>t
<1>h. Handed(s, t)' = Handed(s, t) + 1
  BY <1>2, <1>a, <1>b, <1>c DEF Handed
<1>4. FlowOK(s, t)'
  <2>3. Queued(s, queue[t], Taken(s, t), Handed(s, t))
    BY <1>1 DEF FlowOK
  <2>1. Queued(s, queue[t], Taken(s, t), Handed(s, t) + 1)
    BY <1>t, <2>3, QueuedMore
  <2>2. Closed(t)'
    BY <1>3
  <2> QED
    BY <1>1, <1>2, <1>3, <1>b, <1>h, <2>1, <2>2 DEF FlowOK
<1>5. ASSUME NEW d \in Workers, NEW w \in Workers, ~(d = s /\ w = t)
      PROVE  FlowOK(d, w)' /\ Pending(d, w)' = Pending(d, w)
  <2>1. FlowOK(d, w)
    BY DEF FlowInv
  <2>2. backlog'[d][w] = backlog[d][w]
    BY <1>5 DEF WorkersShape
  <2>3. Handed(d, w)' = Handed(d, w)
    BY <2>2 DEF Handed
  <2> QED
    BY <1>3, <2>1, <2>2, <2>3 DEF FlowOK, Pending
<1>6. Handed(s, t) + 1 <= sentTo[s][t]
  BY <1>t, <1>2, <1>b, <1>h DEF Held, Handed
<1>7. /\ Handed(s, t) + 1 \in (Handed(s, t) + 1) .. sentTo[s][t]
      /\ ((Handed(s, t) + 1) + 1) .. sentTo[s][t] = (Handed(s, t) + 1) .. sentTo[s][t] \ {Handed(s, t) + 1}
  BY <1>t, <1>6
<1>8. Numbers(s, queue[t]) \subseteq Nat /\ \A n \in Numbers(s, queue[t]) : n # Handed(s, t) + 1
  BY <1>1, <1>t, NumbersAre DEF FlowOK, Queued
<1>9. \A n \in InHand(s, t) : n # Handed(s, t) + 1
  BY <1>1, <1>t DEF FlowOK, Queued, InHand
<1>10. Pending(s, t)' = Pending(s, t) \ {Handed(s, t) + 1}
  BY <1>3, <1>h, <1>7, <1>8, <1>9 DEF Pending
<1>11. Handed(s, t) + 1 \in Pending(s, t)
  BY <1>7 DEF Pending
<1> QED
  BY <1>4, <1>5, <1>10, <1>11 DEF FlowInv

\* A worker leaves: what it had, held back and was to take is dropped.
LEMMA FlowLeave ==
    ASSUME WorkersShape, FlowInv, NEW v \in Workers, NEW how, Leave(v, how), how # "running",
           UNCHANGED <<cur, sentTo, handled>>
    PROVE  FlowInv' /\ \A d, w \in Workers : Pending(d, w)' \subseteq Pending(d, w)
<1>l. /\ pc'[v] = "exited" /\ exit'[v] = how /\ queue'[v] = <<>>
      /\ \A d \in Workers : backlog'[v][d] = <<>>
      /\ \A x \in Workers : x # v =>
             pc'[x] = pc[x] /\ exit'[x] = exit[x] /\ queue'[x] = queue[x] /\ backlog'[x] = backlog[x]
  BY LeaveIs
<1>1. ASSUME NEW d \in Workers, NEW w \in Workers
      PROVE  FlowOK(d, w)' /\ Pending(d, w)' \subseteq Pending(d, w)
  <2>1. FlowOK(d, w)
    BY DEF FlowInv
  <2>t. /\ queue[w] \in Seq(Events) /\ backlog[d][w] \in Seq(Events) /\ sentTo[d][w] \in Nat
        /\ Len(backlog[d][w]) \in Nat /\ Taken(d, w) \in Nat /\ Handed(d, w) \in Nat
        /\ handled[d][w] \in Nat
    BY <2>1, FlowTypes
  <2>2. /\ Held(d, backlog'[d][w], sentTo[d][w])
        /\ Handed(d, w)' \in Nat /\ Handed(d, w) <= Handed(d, w)'
        /\ d # v => Handed(d, w)' = Handed(d, w)
    <3>1. CASE d = v
      <4>1. backlog'[d][w] = <<>>
        BY <1>l, <3>1
      <4>2. Held(d, <<>>, sentTo[d][w]) /\ Handed(d, w)' = sentTo[d][w]
        BY <2>t, <4>1, HeldNone DEF Handed
      <4> QED
        BY <2>t, <3>1, <4>1, <4>2 DEF Handed
    <3>2. CASE d # v
      <4>1. backlog'[d][w] = backlog[d][w]
        BY <1>l, <3>2
      <4> QED
        BY <2>1, <2>t, <4>1 DEF FlowOK, Handed
    <3> QED
      BY <3>1, <3>2
  <2>3. CASE w = v
    <3>1. Taken(d, w)' = handled[d][w] /\ handled[d][w] <= Taken(d, w) /\ ~Busy(w, d)'
      BY <1>l, <2>3, <2>t DEF Taken, Busy
    <3>2. handled[d][w] <= Handed(d, w)'
      BY <2>1, <2>2, <2>t, <3>1 DEF FlowOK, Queued
    <3>3. Queued(d, queue'[w], Taken(d, w)', Handed(d, w)') /\ Numbers(d, queue'[w]) = {}
      BY <1>l, <2>2, <2>3, <2>t, <3>1, <3>2, QueuedNone, NoNumbers
    <3>4. Closed(w)'
      BY <1>l, <2>3 DEF Closed
    <3>5. FlowOK(d, w)'
      BY <2>2, <3>1, <3>3, <3>4 DEF FlowOK
    <3>6. Pending(d, w)' \subseteq Pending(d, w)
      <4>1. InHand(d, w)' = {}
        BY <3>1 DEF InHand
      <4>2. (Handed(d, w)' + 1) .. sentTo[d][w] \subseteq (Handed(d, w) + 1) .. sentTo[d][w]
        BY <2>2, <2>t
      <4> QED
        BY <3>3, <4>1, <4>2 DEF Pending
    <3> QED
      BY <3>5, <3>6
  <2>4. CASE w # v
    <3>1. queue'[w] = queue[w] /\ pc'[w] = pc[w]
      BY <1>l, <2>4
    <3>2. Taken(d, w)' = Taken(d, w) /\ (Busy(w, d)' <=> Busy(w, d)) /\ InHand(d, w)' = InHand(d, w)
      BY <3>1 DEF Taken, Busy, InHand
    <3>3. Queued(d, queue[w], Taken(d, w), Handed(d, w)')
      BY <2>1, <2>2, <2>t, QueuedMore DEF FlowOK
    <3>4. ~Closed(d)' => d # v /\ ~Closed(d)
      BY <1>l DEF Closed
    <3>5. ~Closed(w)' => ~Closed(w)
      BY <1>l, <2>4 DEF Closed
    <3>6. ~Closed(d)' /\ ~Closed(w)' => Complete(d, queue[w], Taken(d, w), Handed(d, w)')
      BY <2>1, <2>2, <3>4, <3>5 DEF FlowOK
    <3>7. FlowOK(d, w)'
      BY <2>1, <2>2, <3>1, <3>2, <3>3, <3>6 DEF FlowOK
    <3>8. (Handed(d, w)' + 1) .. sentTo[d][w] \subseteq (Handed(d, w) + 1) .. sentTo[d][w]
      BY <2>2, <2>t
    <3>9. Pending(d, w)' \subseteq Pending(d, w)
      BY <3>1, <3>2, <3>8 DEF Pending
    <3> QED
      BY <3>7, <3>9
  <2> QED
    BY <2>3, <2>4
<1> QED
  BY <1>1 DEF FlowInv

\* t takes the oldest event of its queue.
LEMMA FlowPop ==
    ASSUME WorkersShape, FlowInv, NEW t \in Workers, Pop(t)
    PROVE  FlowInv' /\ \A d, w \in Workers : Pending(d, w)' = Pending(d, w)
<1> USE DEF traffic, history
<1>q. queue[t] # <<>> /\ pc[t] = "select"
  BY DEF Pop
<1>p. /\ pc'[t] = "accept" /\ cur'[t] = Head(queue[t]) /\ queue'[t] = Tail(queue[t])
      /\ \A v \in Workers : v # t => pc'[v] = pc[v] /\ cur'[v] = cur[v] /\ queue'[v] = queue[v]
  BY DEF Pop, Goto, WorkersShape
<1>u. UNCHANGED <<backlog, exit, sentTo, handled>>
  BY DEF Pop
<1>1. ASSUME NEW d \in Workers, NEW w \in Workers
      PROVE  FlowOK(d, w)' /\ Pending(d, w)' = Pending(d, w)
  <2>1. FlowOK(d, w)
    BY DEF FlowInv
  <2>t. /\ queue[w] \in Seq(Events) /\ Taken(d, w) \in Nat /\ Handed(d, w) \in Nat
        /\ handled[d][w] \in Nat
    BY <2>1, FlowTypes
  <2>h. /\ Handed(d, w)' = Handed(d, w)
        /\ (Closed(d)' <=> Closed(d)) /\ (Closed(w)' <=> Closed(w))
    BY <1>u DEF Handed, Closed
  <2>k. Queued(d, queue[w], Taken(d, w), Handed(d, w))
    BY <2>1 DEF FlowOK
  <2>2. CASE w # t
    <3>1. queue'[w] = queue[w] /\ pc'[w] = pc[w] /\ cur'[w] = cur[w]
      BY <1>p, <2>2
    <3>2. Taken(d, w)' = Taken(d, w) /\ (Busy(w, d)' <=> Busy(w, d)) /\ InHand(d, w)' = InHand(d, w)
      BY <1>u, <3>1 DEF Taken, Busy, InHand
    <3>3. FlowOK(d, w)'
      BY <1>u, <2>1, <2>h, <3>1, <3>2 DEF FlowOK
    <3> QED
      BY <1>u, <2>h, <3>1, <3>2, <3>3 DEF Pending
  <2>3. CASE w = t /\ ~IsFrom(Head(queue[t]), d)
    <3>1. /\ Queued(d, queue'[w], Taken(d, w), Handed(d, w))
          /\ Complete(d, queue[w], Taken(d, w), Handed(d, w)) =>
                 Complete(d, queue'[w], Taken(d, w), Handed(d, w))
          /\ Numbers(d, queue'[w]) = Numbers(d, queue[w])
      BY <1>q, <1>p, <2>3, <2>t, <2>k, QueuedOther
    <3>2. ~Busy(w, d) /\ ~Busy(w, d)'
      BY <1>q, <1>p, <2>3 DEF Busy
    <3>3. Taken(d, w) = handled[d][w] + 0 /\ Taken(d, w)' = handled[d][w] + 0
      BY <1>u, <3>2 DEF Taken, Busy
    <3>4. InHand(d, w) = {} /\ InHand(d, w)' = {}
      BY <3>2 DEF InHand
    <3>5. FlowOK(d, w)'
      BY <1>u, <2>1, <2>h, <3>1, <3>2, <3>3 DEF FlowOK
    <3> QED
      BY <1>u, <2>h, <3>1, <3>4, <3>5 DEF Pending
  <2>4. CASE w = t /\ IsFrom(Head(queue[t]), d)
    <3>1. /\ cur'[w].n = Taken(d, w) + 1
          /\ Queued(d, queue'[w], Taken(d, w) + 1, Handed(d, w))
          /\ Complete(d, queue[w], Taken(d, w), Handed(d, w)) =>
                 Complete(d, queue'[w], Taken(d, w) + 1, Handed(d, w))
          /\ Numbers(d, queue[w]) = Numbers(d, queue'[w]) \cup {Taken(d, w) + 1}
      <4>1. queue[w] # <<>> /\ IsFrom(Head(queue[w]), d)
        BY <1>q, <2>4
      <4>2. /\ Head(queue[w]).n = Taken(d, w) + 1
            /\ Queued(d, Tail(queue[w]), Taken(d, w) + 1, Handed(d, w))
            /\ Complete(d, queue[w], Taken(d, w), Handed(d, w)) =>
                   Complete(d, Tail(queue[w]), Taken(d, w) + 1, Handed(d, w))
            /\ Numbers(d, queue[w]) = Numbers(d, Tail(queue[w])) \cup {Taken(d, w) + 1}
        BY <2>t, <2>k, <4>1, QueuedHead
      <4>3. cur'[w] = Head(queue[w]) /\ queue'[w] = Tail(queue[w])
        BY <1>p, <2>4
      <4> QED
        BY <4>2, <4>3
    <3>2. ~Busy(w, d) /\ Busy(w, d)'
      BY <1>q, <1>p, <2>4 DEF Busy
    <3>3. Taken(d, w) = handled[d][w] + 0 /\ Taken(d, w)' = handled[d][w] + 1
      BY <1>q, <1>u, <1>p, <2>4 DEF Taken
    <3>a. Taken(d, w)' = Taken(d, w) + 1
      BY <2>t, <3>3
    <3>4. InHand(d, w) = {} /\ InHand(d, w)' = {Taken(d, w) + 1}
      BY <3>1, <3>2 DEF InHand
    <3>5. FlowOK(d, w)'
      BY <1>u, <2>1, <2>h, <3>1, <3>2, <3>a DEF FlowOK
    <3> QED
      BY <1>u, <2>h, <3>1, <3>4, <3>5 DEF Pending
  <2> QED
    BY <2>2, <2>3, <2>4
<1> QED
  BY <1>1 DEF FlowInv

\* t handles what it has taken.
LEMMA FlowHandle ==
    ASSUME WorkersShape, FlowInv, NEW t \in Workers, Handle(t)
    PROVE  FlowInv' /\ \A d, w \in Workers : Pending(d, w)' = Pending(d, w)
<1> USE DEF traffic, history
<1>p. /\ pc[t] = "accept" /\ pc'[t] = "effects"
      /\ \A v \in Workers : v # t => pc'[v] = pc[v]
  BY DEF Handle, Goto, WorkersShape
<1>u. UNCHANGED <<queue, backlog, exit, sentTo, cur>>
  BY DEF Handle
<1>1. ASSUME NEW d \in Workers, NEW w \in Workers
      PROVE  FlowOK(d, w)' /\ Pending(d, w)' = Pending(d, w)
  <2>1. FlowOK(d, w)
    BY DEF FlowInv
  <2>2. /\ Handed(d, w)' = Handed(d, w)
        /\ (Closed(d)' <=> Closed(d)) /\ (Closed(w)' <=> Closed(w))
    BY <1>u DEF Handed, Closed
  <2>3. (Busy(w, d)' <=> Busy(w, d)) /\ InHand(d, w)' = InHand(d, w)
    BY <1>p, <1>u DEF Busy, InHand
  <2>4. Taken(d, w)' = Taken(d, w)
    <3>t. handled[d][w] \in Nat
      BY FlowTypes
    <3>1. CASE w = t /\ IsFrom(cur[t], d)
      <4>1. handled'[d][w] = handled[d][w] + 1
        BY <3>1 DEF Handle, IsFrom, WorkersShape
      <4>2. Taken(d, w) = handled[d][w] + 1
        BY <1>p, <3>1 DEF Taken
      <4>3. Taken(d, w)' = handled'[d][w] + 0
        BY <1>p, <3>1 DEF Taken
      <4> QED
        BY <3>t, <4>1, <4>2, <4>3
    <3>2. CASE ~(w = t /\ IsFrom(cur[t], d))
      <4>1. handled'[d][w] = handled[d][w]
        BY <3>2 DEF Handle, IsFrom, WorkersShape
      <4> QED
        BY <1>p, <1>u, <3>2, <4>1 DEF Taken
    <3> QED
      BY <3>1, <3>2
  <2>5. FlowOK(d, w)'
    BY <1>u, <2>1, <2>2, <2>3, <2>4 DEF FlowOK
  <2> QED
    BY <1>u, <2>2, <2>3, <2>5 DEF Pending
<1> QED
  BY <1>1 DEF FlowInv

LEMMA OneMore ==
    ASSUME NEW a \in Nat, NEW b \in Nat
    PROVE  /\ (a + 1) - (b + 1) = a - b
           /\ b <= a => (b + 1) .. (a + 1) = (b + 1) .. a \cup {a + 1}
           /\ a + 1 \notin (b + 1) .. a
OBVIOUS

\* s, handling something, sends t an event.
LEMMA FlowEffect ==
    ASSUME WorkersShape, FlowInv, NEW s \in Workers, NEW t \in Workers, Effect(s, t)
    PROVE  /\ FlowInv'
           /\ sentTo[s][t] + 1 \notin Pending(s, t)
           /\ Pending(s, t)' = Pending(s, t) \cup {sentTo[s][t] + 1}
           /\ \A d, w \in Workers : ~(d = s /\ w = t) => Pending(d, w)' = Pending(d, w)
<1> USE DEF traffic, history
<1>u. UNCHANGED <<queue, pc, cur, exit, handled>>
  BY DEF Effect
<1>1. FlowOK(s, t)
  BY DEF FlowInv
<1>t. /\ queue[t] \in Seq(Events) /\ backlog[s][t] \in Seq(Events) /\ sentTo[s][t] \in Nat
      /\ Len(backlog[s][t]) \in Nat /\ Taken(s, t) \in Nat /\ Handed(s, t) \in Nat
  BY <1>1, FlowTypes
<1>s. /\ sentTo'[s][t] = sentTo[s][t] + 1
      /\ \A d, w \in Workers : ~(d = s /\ w = t) => sentTo'[d][w] = sentTo[d][w]
  BY DEF Effect, WorkersShape
<1> PICK e : e = FromShard(s, sentTo[s][t] + 1)
  OBVIOUS
<1>e. backlog' = [backlog EXCEPT ![s][t] = Append(@, e)]
  BY <1>s DEF Effect
<1>b. /\ backlog'[s][t] = Append(backlog[s][t], e)
      /\ \A d, w \in Workers : ~(d = s /\ w = t) => backlog'[d][w] = backlog[d][w]
  BY <1>e DEF WorkersShape
<1>2. /\ Held(s, backlog'[s][t], sentTo[s][t] + 1)
      /\ Len(backlog'[s][t]) = Len(backlog[s][t]) + 1
  BY <1>1, <1>t, <1>b, HeldAppend DEF FlowOK
<1>3. ASSUME NEW d \in Workers, NEW w \in Workers
      PROVE  /\ Taken(d, w)' = Taken(d, w)
             /\ (Busy(w, d)' <=> Busy(w, d)) /\ InHand(d, w)' = InHand(d, w)
             /\ (Closed(d)' <=> Closed(d)) /\ (Closed(w)' <=> Closed(w))
  BY <1>u DEF Taken, Busy, InHand, Closed
<1>a. (sentTo[s][t] + 1) - (Len(backlog[s][t]) + 1) = sentTo[s][t] - Len(backlog[s][t])
  BY <1>t, OneMore
<1>h. Handed(s, t)' = Handed(s, t)
  BY <1>2, <1>s, <1>a DEF Handed
<1>4. FlowOK(s, t)'
  BY <1>u, <1>1, <1>2, <1>3, <1>s, <1>h DEF FlowOK
<1>5. ASSUME NEW d \in Workers, NEW w \in Workers, ~(d = s /\ w = t)
      PROVE  FlowOK(d, w)' /\ Pending(d, w)' = Pending(d, w)
  <2>1. FlowOK(d, w)
    BY DEF FlowInv
  <2>2. backlog'[d][w] = backlog[d][w] /\ sentTo'[d][w] = sentTo[d][w]
    BY <1>5, <1>b, <1>s
  <2>3. Handed(d, w)' = Handed(d, w)
    BY <2>2 DEF Handed
  <2> QED
    BY <1>u, <1>3, <2>1, <2>2, <2>3 DEF FlowOK, Pending
<1>6. Handed(s, t) <= sentTo[s][t]
  BY <1>t DEF Handed
<1>7. /\ (Handed(s, t) + 1) .. (sentTo[s][t] + 1) = (Handed(s, t) + 1) .. sentTo[s][t] \cup {sentTo[s][t] + 1}
      /\ sentTo[s][t] + 1 \notin (Handed(s, t) + 1) .. sentTo[s][t]
  BY <1>t, <1>6, OneMore
<1>8. Numbers(s, queue[t]) \subseteq Nat /\ \A n \in Numbers(s, queue[t]) : n # sentTo[s][t] + 1
  BY <1>1, <1>6, <1>t, NumbersAre DEF FlowOK, Queued
<1>9. \A n \in InHand(s, t) : n # sentTo[s][t] + 1
  BY <1>1, <1>6, <1>t DEF FlowOK, Queued, InHand
<1>10. Pending(s, t)' = Pending(s, t) \cup {sentTo[s][t] + 1}
  BY <1>u, <1>3, <1>s, <1>h, <1>7 DEF Pending
<1>11. sentTo[s][t] + 1 \notin Pending(s, t)
  BY <1>7, <1>8, <1>9 DEF Pending
<1> QED
  BY <1>4, <1>5, <1>10, <1>11 DEF FlowInv

\* t is done with an event of s, all its effects counted.
LEMMA FlowSettle ==
    ASSUME WorkersShape, FlowInv, NEW t \in Workers, NEW s \in Workers, Settle(t),
           cur[t].kind = "shard", s = cur[t].from
    PROVE  /\ FlowInv'
           /\ cur[t].n \in Pending(s, t)
           /\ Pending(s, t)' = Pending(s, t) \ {cur[t].n}
           /\ \A d, w \in Workers : ~(d = s /\ w = t) => Pending(d, w)' = Pending(d, w)
<1> USE DEF traffic, history
<1>u. UNCHANGED <<queue, backlog, exit, sentTo, handled>> /\ pc[t] = "effects"
  BY DEF Settle
<1>a. PICK place \in {"send", "notify"} : Again(t, place)
  BY DEF Settle, AfterSettled
<1>p. /\ pc'[t] = place
      /\ \A v \in Workers : v # t => pc'[v] = pc[v] /\ cur'[v] = cur[v]
  BY <1>a, AgainShape DEF Places
<1>1. ASSUME NEW d \in Workers, NEW w \in Workers
      PROVE  /\ Taken(d, w)' = Taken(d, w)
             /\ Busy(w, d)' => Busy(w, d) /\ cur'[w].n = cur[w].n
             /\ ~(d = s /\ w = t) => InHand(d, w)' = InHand(d, w)
  <2>1. CASE w = t
    <3>1. Taken(d, w) = handled[d][w] + 0 /\ Taken(d, w)' = handled[d][w] + 0
      BY <1>u, <1>p, <2>1 DEF Taken
    <3>2. ~Busy(w, d)' /\ (Busy(w, d) => d = s)
      BY <1>p, <2>1 DEF Busy, IsFrom
    <3> QED
      BY <2>1, <3>1, <3>2 DEF InHand
  <2>2. CASE w # t
    BY <1>u, <1>p, <2>2 DEF Taken, Busy, InHand
  <2> QED
    BY <2>1, <2>2
<1>2. FlowInv'
  BY <1>1, <1>u, FlowKept
<1>3. \A d, w \in Workers : ~(d = s /\ w = t) => Pending(d, w)' = Pending(d, w)
  BY <1>1, <1>u DEF Pending, Handed
<1>4. FlowOK(s, t)
  BY DEF FlowInv
<1>t. /\ queue[t] \in Seq(Events) /\ sentTo[s][t] \in Nat /\ cur[t].n \in Nat
      /\ Taken(s, t) \in Nat /\ Handed(s, t) \in Nat
  BY <1>4, FlowTypes
<1>5. Busy(t, s) /\ ~Busy(t, s)'
  BY <1>u, <1>p DEF Busy, IsFrom
<1>6. InHand(s, t) = {cur[t].n} /\ InHand(s, t)' = {} /\ cur[t].n = Taken(s, t)
  BY <1>4, <1>5 DEF InHand, FlowOK
<1>7. cur[t].n \notin Numbers(s, queue[t]) /\ cur[t].n \notin (Handed(s, t) + 1) .. sentTo[s][t]
  BY <1>4, <1>6, <1>t, NumbersAre DEF FlowOK, Queued
<1>8. Pending(s, t)' = Pending(s, t) \ {cur[t].n} /\ cur[t].n \in Pending(s, t)
  BY <1>u, <1>6, <1>7 DEF Pending, Handed
<1> QED
  BY <1>2, <1>3, <1>8

\* Everyone that is left is aborted.
LEMMA FlowAbort ==
    ASSUME WorkersShape, FlowInv, Abort
    PROVE  FlowInv' /\ \A d, w \in Workers : Pending(d, w)' = {}
<1> USE DEF traffic, history
<1>1. ASSUME NEW d \in Workers, NEW w \in Workers
      PROVE  FlowOK(d, w)' /\ Pending(d, w)' = {}
  <2>1. FlowOK(d, w)
    BY DEF FlowInv
  <2>t. /\ sentTo[d][w] \in Nat /\ Taken(d, w) \in Nat /\ Handed(d, w) \in Nat
        /\ Len(backlog[d][w]) \in Nat /\ handled[d][w] \in Nat
    BY <2>1, FlowTypes
  <2>2. /\ queue'[w] = <<>> /\ backlog'[d][w] = <<>> /\ pc'[w] = "exited"
        /\ exit'[w] # "running" /\ sentTo' = sentTo /\ handled' = handled
    BY DEF Abort, Closed
  <2>3. Held(d, backlog'[d][w], sentTo[d][w]) /\ Handed(d, w)' = sentTo[d][w]
    BY <2>2, <2>t, HeldNone DEF Handed
  <2>4. ~Busy(w, d)' /\ Taken(d, w)' = handled[d][w] /\ Closed(w)' /\ handled[d][w] <= Taken(d, w)
    BY <2>2, <2>t DEF Busy, Taken, Closed
  <2>5. handled[d][w] <= sentTo[d][w]
    BY <2>1, <2>4, <2>t DEF FlowOK, Queued, Handed
  <2>6. Queued(d, queue'[w], Taken(d, w)', Handed(d, w)') /\ Numbers(d, queue'[w]) = {}
    BY <2>2, <2>3, <2>4, <2>5, <2>t, QueuedNone, NoNumbers
  <2>7. FlowOK(d, w)'
    BY <2>2, <2>3, <2>4, <2>6 DEF FlowOK
  <2>8. InHand(d, w)' = {} /\ (sentTo[d][w] + 1) .. sentTo[d][w] = {}
    BY <2>4, <2>t DEF InHand
  <2> QED
    BY <2>2, <2>3, <2>6, <2>7, <2>8 DEF Pending
<1> QED
  BY <1>1 DEF FlowInv

-----------------------------------------------------------------------------
\* What in_flight counts.

\* Q is P without n, which is among those for s and t.
OneLess(P, Q, s, t, n) ==
    /\ n \in P[s][t] /\ Q[s][t] = P[s][t] \ {n}
    /\ \A d, w \in Workers : ~(d = s /\ w = t) => Q[d][w] = P[d][w]

LEMMA TriplesAre ==
    ASSUME NEW P
    PROVE  \A x : x \in Triples(P) <=> \E d, w \in Workers : \E n \in P[d][w] : x = <<d, w, n>>
BY DEF Triples

LEMMA TriplesMinus ==
    ASSUME NEW P, NEW Q, NEW s \in Workers, NEW t \in Workers, NEW n,
           OneLess(P, Q, s, t, n)
    PROVE  <<s, t, n>> \in Triples(P) /\ Triples(Q) = Triples(P) \ {<<s, t, n>>}
<1> USE DEF OneLess
<1>1. <<s, t, n>> \in Triples(P)
  BY TriplesAre
<1>2. ASSUME NEW x \in Triples(Q)
      PROVE  x \in Triples(P) /\ x # <<s, t, n>>
  <2>1. PICK d \in Workers, w \in Workers : \E m \in Q[d][w] : x = <<d, w, m>>
    BY TriplesAre
  <2>2. PICK m \in Q[d][w] : x = <<d, w, m>>
    BY <2>1
  <2>3. m \in P[d][w] /\ ~(d = s /\ w = t /\ m = n)
    BY <2>2
  <2> QED
    BY <2>2, <2>3, TriplesAre
<1>3. ASSUME NEW x \in Triples(P), x # <<s, t, n>>
      PROVE  x \in Triples(Q)
  <2>1. PICK d \in Workers, w \in Workers : \E m \in P[d][w] : x = <<d, w, m>>
    BY TriplesAre
  <2>2. PICK m \in P[d][w] : x = <<d, w, m>>
    BY <2>1
  <2>3. m \in Q[d][w]
    BY <1>3, <2>2
  <2> QED
    BY <2>2, <2>3, TriplesAre
<1> QED
  BY <1>1, <1>2, <1>3

LEMMA TriplesFewer ==
    ASSUME NEW P, NEW Q, \A d, w \in Workers : Q[d][w] \subseteq P[d][w]
    PROVE  Triples(Q) \subseteq Triples(P)
<1> SUFFICES ASSUME NEW x \in Triples(Q)
             PROVE  x \in Triples(P)
  OBVIOUS
<1>1. PICK d \in Workers, w \in Workers : \E m \in Q[d][w] : x = <<d, w, m>>
  BY TriplesAre
<1> QED
  BY <1>1, TriplesAre

\* Nothing is unsettled exactly when nothing pends.
LEMMA NothingUnsettled ==
    ASSUME Unsettled = {}, NEW d \in Workers, NEW w \in Workers
    PROVE  Pending(d, w) = {}
<1> PICK P : P = [x \in Workers |-> [y \in Workers |-> Pending(x, y)]]
  OBVIOUS
<1>1. Triples(P) = {} /\ P[d][w] = Pending(d, w)
  BY DEF Unsettled
<1> SUFFICES ASSUME NEW n \in P[d][w]
             PROVE  FALSE
  BY <1>1
<1>2. <<d, w, n>> \in Triples(P)
  BY TriplesAre
<1> QED
  BY <1>1, <1>2

\* What a step does to what pends and to in_flight: nothing, one settled, one
\* sent, or some dropped, which only a failure or the end of the drain does.
PendsOn == (\A d, w \in Workers : Pending(d, w)' = Pending(d, w)) /\ UNCHANGED inFlight
OneSettled ==
    \E s, t \in Workers : \E n \in Pending(s, t) :
        /\ Pending(s, t)' = Pending(s, t) \ {n}
        /\ \A d, w \in Workers : ~(d = s /\ w = t) => Pending(d, w)' = Pending(d, w)
        /\ inFlight' = inFlight - 1
OneSent ==
    \E s, t \in Workers : \E n \in Nat :
        /\ pc[s] = "effects" /\ n \notin Pending(s, t)
        /\ Pending(s, t)' = Pending(s, t) \cup {n}
        /\ \A d, w \in Workers : ~(d = s /\ w = t) => Pending(d, w)' = Pending(d, w)
        /\ inFlight' = inFlight + 1
SomeDropped ==
    /\ \A d, w \in Workers : Pending(d, w)' \subseteq Pending(d, w)
    /\ UNCHANGED inFlight
    /\ NobodyFailed' => inFlight = 0

LEMMA CountStep ==
    ASSUME CountInv, inFlight \in Int, NobodyFailed' => NobodyFailed,
           PendsOn \/ OneSettled \/ OneSent \/ SomeDropped
    PROVE  CountInv' /\ ((PendsOn \/ OneSettled \/ SomeDropped) => Unsettled' \subseteq Unsettled)
<1>P. PICK P : P = [d \in Workers |-> [w \in Workers |-> Pending(d, w)]]
  OBVIOUS
<1>Q. PICK Q : Q = [d \in Workers |-> [w \in Workers |-> Pending(d, w)']]
  OBVIOUS
<1>1. /\ Unsettled = Triples(P) /\ Unsettled' = Triples(Q)
      /\ \A d, w \in Workers : P[d][w] = Pending(d, w) /\ Q[d][w] = Pending(d, w)'
  BY <1>P, <1>Q DEF Unsettled
<1>2. /\ IsFiniteSet(Triples(P)) /\ Cardinality(Triples(P)) \in Nat
      /\ Cardinality(Triples(P)) <= inFlight
      /\ NobodyFailed => Cardinality(Triples(P)) = inFlight
  BY <1>1, FS_CardinalityType DEF CountInv
<1>3. SUFFICES /\ IsFiniteSet(Triples(Q)) /\ Cardinality(Triples(Q)) <= inFlight'
               /\ NobodyFailed' => Cardinality(Triples(Q)) = inFlight'
               /\ (PendsOn \/ OneSettled \/ SomeDropped) => Triples(Q) \subseteq Triples(P)
  BY <1>1 DEF CountInv
<1>4. ASSUME PendsOn
      PROVE  Triples(Q) \subseteq Triples(P) /\ Triples(P) \subseteq Triples(Q) /\ inFlight' = inFlight
  <2>1. \A d, w \in Workers : P[d][w] = Q[d][w]
    BY <1>1, <1>4 DEF PendsOn
  <2>2. Triples(Q) \subseteq Triples(P)
    BY <2>1, TriplesFewer
  <2>3. Triples(P) \subseteq Triples(Q)
    BY <2>1, TriplesFewer
  <2> QED
    BY <1>4, <2>2, <2>3 DEF PendsOn
<1>5. ASSUME OneSettled
      PROVE  /\ inFlight' = inFlight - 1
             /\ \E x \in Triples(P) : Triples(Q) = Triples(P) \ {x}
  <2>1. PICK s \in Workers, t \in Workers : \E n \in Pending(s, t) :
                   /\ Pending(s, t)' = Pending(s, t) \ {n}
                   /\ \A d, w \in Workers : ~(d = s /\ w = t) => Pending(d, w)' = Pending(d, w)
                   /\ inFlight' = inFlight - 1
    BY <1>5 DEF OneSettled
  <2>2. PICK n \in P[s][t] :
                   /\ Q[s][t] = P[s][t] \ {n}
                   /\ \A d, w \in Workers : ~(d = s /\ w = t) => Q[d][w] = P[d][w]
                   /\ inFlight' = inFlight - 1
    BY <1>1, <2>1
  <2>4. OneLess(P, Q, s, t, n)
    BY <2>2 DEF OneLess
  <2>3. <<s, t, n>> \in Triples(P) /\ Triples(Q) = Triples(P) \ {<<s, t, n>>}
    BY <2>1, <2>4, TriplesMinus
  <2> QED
    BY <2>2, <2>3
<1>6. ASSUME OneSent
      PROVE  /\ inFlight' = inFlight + 1
             /\ \E x : x \notin Triples(P) /\ Triples(Q) = Triples(P) \cup {x}
  <2>1. PICK s \in Workers, t \in Workers : \E n \in Nat :
                   /\ n \notin Pending(s, t)
                   /\ Pending(s, t)' = Pending(s, t) \cup {n}
                   /\ \A d, w \in Workers : ~(d = s /\ w = t) => Pending(d, w)' = Pending(d, w)
                   /\ inFlight' = inFlight + 1
    BY <1>6 DEF OneSent
  <2>2. PICK n \in Nat :
                   /\ n \notin P[s][t]
                   /\ Q[s][t] = P[s][t] \cup {n}
                   /\ \A d, w \in Workers : ~(d = s /\ w = t) => Q[d][w] = P[d][w]
                   /\ inFlight' = inFlight + 1
    BY <1>1, <2>1
  <2>4. OneLess(Q, P, s, t, n)
    BY <2>2 DEF OneLess
  <2>5. <<s, t, n>> \in Triples(Q) /\ Triples(P) = Triples(Q) \ {<<s, t, n>>}
    BY <2>2, <2>4, TriplesMinus
  <2>3. <<s, t, n>> \notin Triples(P) /\ Triples(Q) = Triples(P) \cup {<<s, t, n>>}
    BY <2>5
  <2> QED
    BY <2>2, <2>3
<1>7. ASSUME SomeDropped
      PROVE  /\ Triples(Q) \subseteq Triples(P) /\ inFlight' = inFlight
             /\ NobodyFailed' => inFlight = 0
  BY <1>1, <1>7, TriplesFewer DEF SomeDropped
<1>8. CASE PendsOn
  <2>1. Triples(Q) = Triples(P) /\ inFlight' = inFlight
    BY <1>4, <1>8
  <2> QED
    BY <1>2, <2>1
<1>9. CASE OneSettled
  <2>1. PICK x \in Triples(P) : Triples(Q) = Triples(P) \ {x}
    BY <1>5, <1>9
  <2>2. IsFiniteSet(Triples(Q)) /\ Cardinality(Triples(Q)) = Cardinality(Triples(P)) - 1
    <3>1. IsFiniteSet(Triples(P) \ {x}) /\ Cardinality(Triples(P) \ {x}) = Cardinality(Triples(P)) - 1
      BY <1>2, FS_RemoveElement
    <3> QED
      BY <2>1, <3>1
  <2>3. Triples(Q) \subseteq Triples(P)
    BY <2>1
  <2>4. inFlight' = inFlight - 1
    BY <1>5, <1>9
  <2> QED
    BY <1>2, <2>2, <2>3, <2>4
<1>10. CASE OneSent /\ ~(PendsOn \/ OneSettled \/ SomeDropped)
  <2>1. PICK x : x \notin Triples(P) /\ Triples(Q) = Triples(P) \cup {x}
    BY <1>6, <1>10
  <2>2. IsFiniteSet(Triples(Q)) /\ Cardinality(Triples(Q)) = Cardinality(Triples(P)) + 1
    <3>1. IsFiniteSet(Triples(P) \cup {x}) /\ Cardinality(Triples(P) \cup {x}) = Cardinality(Triples(P)) + 1
      BY <1>2, <2>1, FS_AddElement
    <3> QED
      BY <2>1, <3>1
  <2>3. inFlight' = inFlight + 1
    BY <1>6, <1>10
  <2> QED
    BY <1>2, <1>10, <2>2, <2>3
<1>11. CASE SomeDropped
  <2>1. /\ IsFiniteSet(Triples(Q)) /\ Cardinality(Triples(Q)) <= Cardinality(Triples(P))
        /\ Cardinality(Triples(Q)) \in Nat
    BY <1>2, <1>7, <1>11, FS_Subset, FS_CardinalityType
  <2>2. inFlight' = inFlight /\ (NobodyFailed' => inFlight = 0)
    BY <1>7, <1>11
  <2> QED
    BY <1>2, <1>7, <1>11, <2>1, <2>2
<1> QED
  BY <1>8, <1>9, <1>10, <1>11

\* A worker that is not at the place of handling, and does not come there, has
\* nothing in hand.
LEMMA IdleAt ==
    ASSUME WorkersShape, FlowInv, NEW v \in Workers, NEW place \in Places \ {"accept", "effects"},
           Goto(v, place),
           pc[v] \notin {"accept", "effects"} \/ cur[v].kind # "shard",
           \A x \in Workers : x # v => cur'[x] = cur[x],
           UNCHANGED <<queue, backlog, sentTo, handled, exit>>
    PROVE  FlowInv' /\ \A d, w \in Workers : Pending(d, w)' = Pending(d, w)
<1>1. pc'[v] = place /\ \A x \in Workers : x # v => pc'[x] = pc[x]
  BY GotoShape
<1>2. \A d \in Workers : ~Busy(v, d) /\ ~Busy(v, d)'
  BY <1>1 DEF Busy, IsFrom
<1> QED
  BY <1>1, <1>2, FlowIdle

LEMMA FlowStep ==
    ASSUME WorkersShape, PlaceInv, FlowInv, [WorkersNext]_workersVars
    PROVE  FlowInv' /\ (PendsOn \/ OneSettled \/ OneSent \/ SomeDropped)
<1> USE DEF traffic, history
<1>N. N \in Nat
  BY WorkersAssumption
<1>P. {"send", "notify", "notify_leave", "leave", "load_stopping", "load_in_flight", "select"}
          \subseteq Places \ {"accept", "effects"}
  BY DEF Places
<1>1. ASSUME NEW v \in Workers, SendDone(v)
      PROVE  FlowInv' /\ (PendsOn \/ SomeDropped)
  <2>1. CASE Leave(v, "backlogged")
    <3>1. FlowInv' /\ \A d, w \in Workers : Pending(d, w)' \subseteq Pending(d, w)
      BY <1>1, <2>1, FlowLeave DEF SendDone
    <3>2. exit'[v] = "backlogged"
      BY <2>1, LeaveIs
    <3>3. ~NobodyFailed'
      BY <3>2 DEF NobodyFailed, Failed
    <3> QED
      BY <1>1, <3>1, <3>3 DEF SendDone, SomeDropped
  <2>2. CASE SendNext(v) /\ UNCHANGED <<queue, backlog, exit>>
    <3>1. UNCHANGED <<queue, backlog, sentTo, handled, exit, pc, cur, inFlight>>
      BY <1>1, <2>2 DEF SendDone, SendNext
    <3> QED
      BY <3>1, FlowIdle DEF PendsOn
  <2> QED
    BY <1>1, <2>1, <2>2 DEF SendDone
<1>2. ASSUME NEW s \in Workers, SendOne(s)
      PROVE  FlowInv' /\ PendsOn
  <2> PICK t : t = dest[s]
    OBVIOUS
  <2>1. t \in Workers
    BY <1>N, <1>2 DEF SendOne, Workers, WorkersShape
  <2> QED
    BY <1>2, <2>1, FlowSendOne DEF SendOne, PendsOn
<1>3. ASSUME NEW s \in Workers, SendClosed(s)
      PROVE  FlowInv' /\ OneSettled
  <2> PICK t : t = dest[s]
    OBVIOUS
  <2>1. t \in Workers
    BY <1>N, <1>3 DEF SendClosed, Workers, WorkersShape
  <2>2. PICK place \in Places \ {"accept", "effects"} : Goto(s, place)
    BY <1>P, <1>3 DEF SendClosed, AfterSettled
  <2>3. /\ FlowInv'
        /\ Handed(s, t) + 1 \in Pending(s, t)
        /\ Pending(s, t)' = Pending(s, t) \ {Handed(s, t) + 1}
        /\ \A d, w \in Workers : ~(d = s /\ w = t) => Pending(d, w)' = Pending(d, w)
    BY <1>3, <2>1, <2>2, FlowSendClosed DEF SendClosed
  <2>4. inFlight' = inFlight - 1
    BY <1>3 DEF SendClosed, Settled
  <2> QED
    BY <2>1, <2>3, <2>4 DEF OneSettled
<1>4. ASSUME NEW v \in Workers, Notify(v) \/ Enable(v) \/ LoadStopping(v) \/ Wake(v) \/ Skip(v)
      PROVE  FlowInv' /\ PendsOn
  <2>1. PICK place \in Places \ {"accept", "effects"} : Goto(v, place)
    BY <1>P, <1>4 DEF Notify, Enable, LoadStopping, Wake, Skip, Again
  <2>2. UNCHANGED <<queue, backlog, sentTo, handled, exit, inFlight>>
    BY <1>4 DEF Notify, Enable, LoadStopping, Wake, Skip
  <2>3. pc[v] \notin {"accept", "effects"} \/ cur[v].kind # "shard"
    BY <1>4 DEF Notify, Enable, LoadStopping, Wake, Skip
  <2>4. \A x \in Workers : x # v => cur'[x] = cur[x]
    BY <1>4 DEF Notify, Enable, LoadStopping, Wake, Skip, Again, WorkersShape
  <2> QED
    BY <2>1, <2>2, <2>3, <2>4, IdleAt DEF PendsOn
<1>5. ASSUME NEW v \in Workers, PeerClosed(v)
      PROVE  FlowInv' /\ SomeDropped
  <2>0. Leave(v, "peer_closed")
    BY <1>5 DEF PeerClosed
  <2>1. FlowInv' /\ \A d, w \in Workers : Pending(d, w)' \subseteq Pending(d, w)
    BY <1>5, <2>0, FlowLeave DEF PeerClosed
  <2>2. exit'[v] = "peer_closed"
    BY <2>0, LeaveIs
  <2>3. ~NobodyFailed'
    BY <2>2 DEF NobodyFailed, Failed
  <2> QED
    BY <1>5, <2>1, <2>3 DEF PeerClosed, SomeDropped
<1>6. ASSUME NEW v \in Workers, LoadInFlight(v)
      PROVE  FlowInv' /\ (PendsOn \/ SomeDropped)
  <2>1. CASE Leave(v, "stopped") /\ inFlight = 0
    <3>1. FlowInv' /\ \A d, w \in Workers : Pending(d, w)' \subseteq Pending(d, w)
      BY <1>6, <2>1, FlowLeave DEF LoadInFlight
    <3> QED
      BY <1>6, <2>1, <3>1 DEF LoadInFlight, SomeDropped
  <2>2. CASE Goto(v, "select") /\ UNCHANGED <<queue, backlog, exit>>
    BY <1>P, <1>6, <2>2, IdleAt DEF LoadInFlight, PendsOn
  <2> QED
    BY <1>6, <2>1, <2>2 DEF LoadInFlight
<1>7. ASSUME NEW v \in Workers, Pop(v)
      PROVE  FlowInv' /\ PendsOn
  BY <1>7, FlowPop DEF PendsOn, Pop
<1>8. ASSUME NEW v \in Workers, Handle(v)
      PROVE  FlowInv' /\ PendsOn
  BY <1>8, FlowHandle DEF PendsOn, Handle
<1>9. ASSUME NEW v \in Workers, Settle(v)
      PROVE  FlowInv' /\ (PendsOn \/ OneSettled)
  <2>1. CASE cur[v].kind = "shard"
    <3> PICK s : s = cur[v].from
      OBVIOUS
    <3>1. s \in Workers
      BY <2>1, EventFacts DEF WorkersShape
    <3>2. /\ FlowInv'
          /\ cur[v].n \in Pending(s, v)
          /\ Pending(s, v)' = Pending(s, v) \ {cur[v].n}
          /\ \A d, w \in Workers : ~(d = s /\ w = v) => Pending(d, w)' = Pending(d, w)
      BY <1>9, <2>1, <3>1, FlowSettle
    <3>3. inFlight' = inFlight - 1
      BY <1>9, <2>1 DEF Settle, Settled
    <3> QED
      BY <3>1, <3>2, <3>3 DEF OneSettled
  <2>2. CASE cur[v].kind # "shard"
    <3>1. Again(v, "send") /\ UNCHANGED <<queue, backlog, sentTo, handled, exit, inFlight>>
      BY <1>9, <2>2 DEF Settle
    <3>2. \A x \in Workers : x # v => cur'[x] = cur[x]
      BY <3>1 DEF Again, WorkersShape
    <3> QED
      BY <1>P, <2>2, <3>1, <3>2, IdleAt DEF PendsOn, Again
  <2> QED
    BY <2>1, <2>2
<1>10. ASSUME NEW v \in Workers, Stop(v)
       PROVE  FlowInv' /\ PendsOn
  <2>1. /\ Again(v, "notify") /\ cur[v].kind # "shard"
        /\ UNCHANGED <<queue, backlog, sentTo, handled, exit, inFlight>>
    BY <1>10 DEF Stop
  <2>2. \A x \in Workers : x # v => cur'[x] = cur[x]
    BY <2>1 DEF Again, WorkersShape
  <2> QED
    BY <1>P, <2>1, <2>2, IdleAt DEF PendsOn, Again
<1>11. ASSUME NEW t \in Workers, Push(t)
       PROVE  FlowInv' /\ PendsOn
  <2>1. CASE Closed(t)
    BY <1>11, <2>1, FlowIdle DEF Push, PendsOn
  <2>2. CASE ~Closed(t)
    BY <1>11, <2>2, FlowArrive DEF Push, PendsOn
  <2> QED
    BY <2>1, <2>2
<1>12. ASSUME NEW s \in Workers, NEW t \in Workers, Effect(s, t)
       PROVE  FlowInv' /\ OneSent
  <2>1. /\ FlowInv'
        /\ sentTo[s][t] + 1 \notin Pending(s, t)
        /\ Pending(s, t)' = Pending(s, t) \cup {sentTo[s][t] + 1}
        /\ \A d, w \in Workers : ~(d = s /\ w = t) => Pending(d, w)' = Pending(d, w)
    BY <1>12, FlowEffect
  <2>2. inFlight' = inFlight + 1 /\ pc[s] = "effects"
    BY <1>12 DEF Effect
  <2>3. sentTo[s][t] + 1 \in Nat
    BY FlowTypes
  <2> QED
    BY <2>1, <2>2, <2>3 DEF OneSent
<1>13. ASSUME BeginShutdown \/ UNCHANGED workersVars
       PROVE  FlowInv' /\ PendsOn
  BY <1>13, FlowIdle DEF BeginShutdown, workersVars, PendsOn
<1>14. ASSUME Tell
       PROVE  FlowInv' /\ PendsOn
  <2> PICK t : t = told + 1
    OBVIOUS
  <2>0. t \in Workers
    BY <1>N, <1>14 DEF Tell, Workers
  <2>1. CASE Closed(t)
    BY <1>14, <2>1, FlowIdle DEF Tell, PendsOn
  <2>2. CASE ~Closed(t)
    BY <1>14, <2>0, <2>2, FlowArrive DEF Tell, PendsOn
  <2> QED
    BY <2>1, <2>2
<1>15. ASSUME Abort
       PROVE  FlowInv' /\ SomeDropped
  <2>1. FlowInv' /\ \A d, w \in Workers : Pending(d, w)' = {}
    BY <1>15, FlowAbort
  <2>2. ~NobodyFailed'
    BY <1>15 DEF Abort, Failed, Closed, NobodyFailed
  <2> QED
    BY <1>15, <2>1, <2>2 DEF Abort, SomeDropped
<1> QED
  BY <1>1, <1>2, <1>3, <1>4, <1>5, <1>6, <1>7, <1>8, <1>9, <1>10, <1>11, <1>12, <1>13, <1>14, <1>15
     DEF WorkersNext, Step

-----------------------------------------------------------------------------
\* Everything is delivered, in order.

LEMMA ConcatNumbers ==
    ASSUME NEW p \in Seq(Events), NEW q \in Seq(Events), NEW d
    PROVE  /\ p \o q \in Seq(Events)
           /\ Numbers(d, p \o q) = Numbers(d, p) \cup Numbers(d, q)
<1> PICK r : r = p \o q
  OBVIOUS
<1>1. /\ r \in Seq(Events) /\ Len(p) \in Nat /\ Len(q) \in Nat
      /\ DOMAIN p = 1 .. Len(p) /\ DOMAIN q = 1 .. Len(q) /\ DOMAIN r = 1 .. (Len(p) + Len(q))
      /\ \A i \in 1 .. (Len(p) + Len(q)) : r[i] = IF i <= Len(p) THEN p[i] ELSE q[i - Len(p)]
  BY ConcatProperties, LenProperties
<1>2. \A i \in DOMAIN r : (i \in DOMAIN p /\ r[i] = p[i]) \/ (i - Len(p) \in DOMAIN q /\ r[i] = q[i - Len(p)])
  BY <1>1
<1>3. \A i \in DOMAIN p : i \in DOMAIN r /\ r[i] = p[i]
  BY <1>1
<1>4. \A i \in DOMAIN q : i + Len(p) \in DOMAIN r /\ r[i + Len(p)] = q[i]
  BY <1>1
<1>s. r \in Seq(Events)
  BY <1>1
<1>n. /\ \A n : n \in Numbers(d, p) <=> \E i \in DOMAIN p : IsFrom(p[i], d) /\ p[i].n = n
      /\ \A n : n \in Numbers(d, q) <=> \E i \in DOMAIN q : IsFrom(q[i], d) /\ q[i].n = n
      /\ \A n : n \in Numbers(d, r) <=> \E i \in DOMAIN r : IsFrom(r[i], d) /\ r[i].n = n
  BY <1>s, NumbersAre, Zenon
<1>m. \A n : n \in Numbers(d, r) <=> (n \in Numbers(d, p) \/ n \in Numbers(d, q))
  <2> TAKE n
  <2>1. ASSUME n \in Numbers(d, r) PROVE n \in Numbers(d, p) \/ n \in Numbers(d, q)
    <3>1. PICK i \in DOMAIN r : IsFrom(r[i], d) /\ r[i].n = n
      BY <1>n, <2>1
    <3>2. CASE i \in DOMAIN p /\ r[i] = p[i]
      BY <1>n, <3>1, <3>2
    <3>3. CASE i - Len(p) \in DOMAIN q /\ r[i] = q[i - Len(p)]
      BY <1>n, <3>1, <3>3
    <3> QED
      BY <1>2, <3>1, <3>2, <3>3
  <2>2. ASSUME n \in Numbers(d, p) PROVE n \in Numbers(d, r)
    BY <1>n, <1>3, <2>2
  <2>3. ASSUME n \in Numbers(d, q) PROVE n \in Numbers(d, r)
    <3>1. PICK i \in DOMAIN q : IsFrom(q[i], d) /\ q[i].n = n
      BY <1>n, <2>3
    <3>2. i + Len(p) \in DOMAIN r /\ r[i + Len(p)] = q[i]
      BY <1>4, <3>1
    <3> QED
      BY <1>n, <3>1, <3>2
  <2> QED
    BY <2>1, <2>2, <2>3
<1> QED
  BY <1>1, <1>m

LEMMA ConcatIncreasing ==
    ASSUME NEW p \in Seq(Events), NEW q \in Seq(Events), NEW d,
           Increasing(d, p), Increasing(d, q),
           \A m \in Numbers(d, p), n \in Numbers(d, q) : m < n
    PROVE  Increasing(d, p \o q)
<1> PICK r : r = p \o q
  OBVIOUS
<1>1. /\ r \in Seq(Events) /\ Len(p) \in Nat /\ Len(q) \in Nat
      /\ DOMAIN p = 1 .. Len(p) /\ DOMAIN q = 1 .. Len(q) /\ DOMAIN r = 1 .. (Len(p) + Len(q))
      /\ \A i \in 1 .. (Len(p) + Len(q)) : r[i] = IF i <= Len(p) THEN p[i] ELSE q[i - Len(p)]
  BY ConcatProperties, LenProperties
<1>n. /\ \A n : n \in Numbers(d, p) <=> \E i \in DOMAIN p : IsFrom(p[i], d) /\ p[i].n = n
      /\ \A n : n \in Numbers(d, q) <=> \E i \in DOMAIN q : IsFrom(q[i], d) /\ q[i].n = n
  BY NumbersAre, Zenon
<1> SUFFICES ASSUME NEW i \in DOMAIN r, NEW j \in DOMAIN r, i < j,
                    IsFrom(r[i], d), IsFrom(r[j], d)
             PROVE  r[i].n < r[j].n
  BY DEF Increasing
<1>2. CASE i \in DOMAIN p /\ j \in DOMAIN p
  <2>1. r[i] = p[i] /\ r[j] = p[j]
    BY <1>1, <1>2
  <2> QED
    BY <1>2, <2>1 DEF Increasing
<1>3. CASE i \in DOMAIN p /\ j \notin DOMAIN p
  <2>1. r[i] = p[i] /\ j - Len(p) \in DOMAIN q /\ r[j] = q[j - Len(p)]
    BY <1>1, <1>3
  <2>2. r[i].n \in Numbers(d, p) /\ r[j].n \in Numbers(d, q)
    BY <1>n, <1>3, <2>1
  <2> QED
    BY <2>2
<1>4. CASE i \notin DOMAIN p
  <2> PICK a : a = i - Len(p)
    OBVIOUS
  <2> PICK b : b = j - Len(p)
    OBVIOUS
  <2>1. a \in DOMAIN q /\ r[i] = q[a] /\ b \in DOMAIN q /\ r[j] = q[b] /\ a < b
    BY <1>1, <1>4
  <2> QED
    BY <2>1 DEF Increasing
<1> QED
  BY <1>2, <1>3, <1>4

LEMMA HeldNumbers ==
    ASSUME NEW d \in Workers, NEW s \in Nat, NEW b \in Seq(Events), Held(d, b, s)
    PROVE  Increasing(d, b) /\ Numbers(d, b) = (s - Len(b) + 1) .. s
<1> PICK k : k = s - Len(b)
  OBVIOUS
<1>1. Len(b) \in Nat /\ DOMAIN b = 1 .. Len(b) /\ k \in Nat
  BY LenProperties DEF Held
<1>2. ASSUME NEW i \in DOMAIN b
      PROVE  IsFrom(b[i], d) /\ b[i].n = k + i
  <2>1. b[i] = FromShard(d, k + i) /\ k + i \in Nat
    BY <1>1 DEF Held
  <2> QED
    BY <2>1, EventFacts
<1>3. Increasing(d, b)
  BY <1>1, <1>2 DEF Increasing
<1>4. \A n : n \in Numbers(d, b) <=> \E i \in DOMAIN b : IsFrom(b[i], d) /\ b[i].n = n
  BY NumbersAre, Zenon
<1>5. ASSUME NEW n \in Numbers(d, b)
      PROVE  n \in (k + 1) .. s
  BY <1>1, <1>2, <1>4
<1>6. ASSUME NEW n \in (k + 1) .. s
      PROVE  n \in Numbers(d, b)
  <2>1. n - k \in DOMAIN b /\ k + (n - k) = n
    BY <1>1
  <2>2. IsFrom(b[n - k], d) /\ b[n - k].n = n
    BY <1>2, <2>1
  <2> QED
    BY <1>4, <2>1, <2>2
<1> QED
  BY <1>3, <1>5, <1>6

LEMMA OneNumber ==
    ASSUME NEW e \in Events, NEW d
    PROVE  /\ <<e>> \in Seq(Events) /\ Increasing(d, <<e>>)
           /\ Numbers(d, <<e>>) = IF IsFrom(e, d) THEN {e.n} ELSE {}
<1>1. <<e>> \in Seq(Events) /\ DOMAIN <<e>> = {1} /\ <<e>>[1] = e
  OBVIOUS
<1>2. Numbers(d, <<e>>) = IF IsFrom(e, d) THEN {e.n} ELSE {}
  BY <1>1 DEF Numbers
<1>3. Increasing(d, <<e>>)
  BY <1>1 DEF Increasing
<1> QED
  BY <1>1, <1>2, <1>3

LEMMA FlowDelivers == WorkersShape /\ FlowInv => DeliveredInOrder
<1> SUFFICES ASSUME WorkersShape, FlowInv, NEW d \in Workers, NEW w \in Workers,
                    ~Closed(w), ~Closed(d)
             PROVE  /\ handled[d][w] <= sentTo[d][w]
                    /\ Numbers(d, OnTheWay(d, w)) = (handled[d][w] + 1) .. sentTo[d][w]
                    /\ Increasing(d, OnTheWay(d, w))
  BY DEF DeliveredInOrder
<1>1. /\ Held(d, backlog[d][w], sentTo[d][w])
      /\ Busy(w, d) => cur[w].n = Taken(d, w)
      /\ Queued(d, queue[w], Taken(d, w), Handed(d, w))
      /\ Complete(d, queue[w], Taken(d, w), Handed(d, w))
  BY DEF FlowInv, FlowOK
<1>t. /\ queue[w] \in Seq(Events) /\ backlog[d][w] \in Seq(Events)
      /\ sentTo[d][w] \in Nat /\ handled[d][w] \in Nat /\ Taken(d, w) \in Nat
      /\ Len(backlog[d][w]) \in Nat /\ cur[w] \in Events
      /\ Handed(d, w) \in Nat
  BY FlowTypes DEF FlowInv
<1> PICK h : h = (IF pc[w] = "accept" THEN <<cur[w]>> ELSE <<>>)
  OBVIOUS
<1> PICK q : q = queue[w]
  OBVIOUS
<1> PICK b : b = backlog[d][w]
  OBVIOUS
<1>2. h \in Seq(Events) /\ Increasing(d, h)
      /\ Numbers(d, h) = (handled[d][w] + 1) .. Taken(d, w)
      /\ handled[d][w] <= Taken(d, w)
  <2>1. CASE pc[w] = "accept" /\ IsFrom(cur[w], d)
    <3>1. h = <<cur[w]>> /\ Taken(d, w) = handled[d][w] + 1 /\ cur[w].n = Taken(d, w)
      BY <1>1, <2>1 DEF Taken, Busy
    <3>2. h \in Seq(Events) /\ Increasing(d, h) /\ Numbers(d, h) = {Taken(d, w)}
      BY <1>t, <2>1, <3>1, OneNumber
    <3>3. \A a, t \in Nat : t = a + 1 => (a + 1) .. t = {t} /\ a <= t
      OBVIOUS
    <3>4. (handled[d][w] + 1) .. Taken(d, w) = {Taken(d, w)} /\ handled[d][w] <= Taken(d, w)
      BY <1>t, <3>1, <3>3
    <3> QED
      BY <3>2, <3>4
  <2>2. CASE ~(pc[w] = "accept" /\ IsFrom(cur[w], d))
    <3>1. Taken(d, w) = handled[d][w] + 0
      BY <2>2 DEF Taken
    <3>2. h \in Seq(Events) /\ Increasing(d, h) /\ Numbers(d, h) = {}
      <4>1. CASE h = <<>>
        BY <4>1, NoNumbers
      <4>2. CASE h = <<cur[w]>> /\ ~IsFrom(cur[w], d)
        BY <1>t, <4>2, OneNumber
      <4> QED
        BY <2>2, <4>1, <4>2
    <3>3. Taken(d, w) = handled[d][w]
      BY <1>t, <3>1
    <3>4. (handled[d][w] + 1) .. Taken(d, w) = {}
      BY <1>t, <3>3
    <3>5. handled[d][w] <= Taken(d, w)
      BY <1>t, <3>3
    <3> QED
      BY <3>2, <3>4, <3>5
  <2> QED
    BY <2>1, <2>2
<1>3. Increasing(d, q) /\ Numbers(d, q) = (Taken(d, w) + 1) .. Handed(d, w) /\ Taken(d, w) <= Handed(d, w)
  <2>1. Increasing(d, q) /\ Taken(d, w) <= Handed(d, w)
    BY <1>1 DEF Queued
  <2>2. \A n \in Numbers(d, q) : n \in (Taken(d, w) + 1) .. Handed(d, w)
    BY <1>1, <1>t, NumbersAre DEF Queued
  <2>3. \A n \in (Taken(d, w) + 1) .. Handed(d, w) : n \in Numbers(d, q)
    BY <1>1 DEF Complete
  <2> QED
    BY <2>1, <2>2, <2>3
<1>4. Increasing(d, b) /\ Numbers(d, b) = (Handed(d, w) + 1) .. sentTo[d][w] /\ Handed(d, w) <= sentTo[d][w]
  BY <1>1, <1>t, HeldNumbers DEF Handed
<1>5. /\ h \o q \in Seq(Events) /\ Increasing(d, h \o q)
      /\ Numbers(d, h \o q) = (handled[d][w] + 1) .. Handed(d, w)
  <2>1. \A m \in Numbers(d, h), n \in Numbers(d, q) : m < n
    BY <1>t, <1>2, <1>3
  <2>2. Numbers(d, h) \cup Numbers(d, q) = (handled[d][w] + 1) .. Handed(d, w)
    BY <1>t, <1>2, <1>3
  <2>3. Increasing(d, h \o q)
    BY <1>t, <1>2, <1>3, <2>1, ConcatIncreasing
  <2>4. h \o q \in Seq(Events) /\ Numbers(d, h \o q) = Numbers(d, h) \cup Numbers(d, q)
    BY <1>t, <1>2, ConcatNumbers
  <2> QED
    BY <2>2, <2>3, <2>4
<1>6. PICK p : p = h \o q
  OBVIOUS
<1>7. /\ p \in Seq(Events) /\ Increasing(d, p)
      /\ Numbers(d, p) = (handled[d][w] + 1) .. Handed(d, w)
      /\ handled[d][w] <= Handed(d, w)
  BY <1>t, <1>2, <1>3, <1>5, <1>6
<1>8. Increasing(d, p \o b) /\ Numbers(d, p \o b) = (handled[d][w] + 1) .. sentTo[d][w]
  <2>1. \A m \in Numbers(d, p), n \in Numbers(d, b) : m < n
    BY <1>t, <1>4, <1>7
  <2>2. Numbers(d, p) \cup Numbers(d, b) = (handled[d][w] + 1) .. sentTo[d][w]
    BY <1>t, <1>4, <1>7
  <2>3. Increasing(d, p \o b)
    BY <1>t, <1>4, <1>7, <2>1, ConcatIncreasing
  <2>4. Numbers(d, p \o b) = Numbers(d, p) \cup Numbers(d, b)
    BY <1>t, <1>7, ConcatNumbers
  <2> QED
    BY <2>2, <2>3, <2>4
<1>9. OnTheWay(d, w) = p \o b
  BY <1>6 DEF OnTheWay
<1>10. handled[d][w] <= sentTo[d][w]
  BY <1>t, <1>4, <1>7
<1> QED
  BY <1>8, <1>9, <1>10

LEMMA InitFlow == WorkersInit => FlowInv
<1> SUFFICES ASSUME WorkersInit, NEW d \in Workers, NEW w \in Workers
             PROVE  FlowOK(d, w)
  BY DEF FlowInv
<1>1. /\ backlog[d][w] = <<>> /\ queue[w] = <<>> /\ sentTo[d][w] = 0 /\ handled[d][w] = 0
      /\ pc[w] = "send"
  BY DEF WorkersInit
<1>a. Taken(d, w) = 0 /\ ~Busy(w, d)
  BY <1>1 DEF Taken, Busy
<1>b. Handed(d, w) = 0
  <2>1. 0 - Len(<<>>) = 0
    BY HeldNone
  <2> QED
    BY <1>1, <2>1 DEF Handed
<1>2. Taken(d, w) = 0 /\ Handed(d, w) = 0 /\ ~Busy(w, d)
  BY <1>a, <1>b
<1>3. Held(d, <<>>, 0) /\ Queued(d, <<>>, 0, 0) /\ Complete(d, <<>>, 0, 0)
  BY HeldNone, QueuedNone DEF Complete
<1> QED
  BY <1>1, <1>2, <1>3 DEF FlowOK

\* Shards' events are handled once and in the order sent (DeliveredInOrder), for
\* any number of shards, any queue capacity and any backlog limit.
THEOREM EventsDelivered == WorkersSpec => []DeliveredInOrder
<1>1. WorkersInit => DeliveryInv
  BY WorkersInitShape, InitFlow DEF DeliveryInv
<1>2. DeliveryInv /\ [WorkersNext]_workersVars => DeliveryInv'
  BY ShapeStep, PlaceStep, FlowStep DEF DeliveryInv
<1>3. DeliveryInv => DeliveredInOrder
  BY FlowDelivers DEF DeliveryInv
<1> QED
  BY <1>1, <1>2, <1>3, PTL DEF WorkersSpec

-----------------------------------------------------------------------------
\* The drain.

\* A worker that has left stays as it left; so does one that failed.
LEMMA ExitStays ==
    ASSUME WorkersShape, PlaceInv, [WorkersNext]_workersVars
    PROVE  /\ \A u \in Workers : exit[u] # "running" => exit'[u] = exit[u]
           /\ NobodyFailed' => NobodyFailed
<1> USE DEF traffic, history
<1>1. ASSUME NEW v \in Workers, NEW how, Leave(v, how), pc[v] # "exited"
      PROVE  \A u \in Workers : exit[u] # "running" => exit'[u] = exit[u]
  <2>1. exit[v] = "running"
    BY <1>1 DEF PlaceInv, Closed
  <2> QED
    BY <1>1, <2>1, LeaveIs
<1>2. ASSUME NEW v \in Workers, SendDone(v) \/ PeerClosed(v) \/ LoadInFlight(v)
      PROVE  \A u \in Workers : exit[u] # "running" => exit'[u] = exit[u]
  <2>1. pc[v] # "exited"
    BY <1>2 DEF SendDone, PeerClosed, LoadInFlight
  <2>2. exit' = exit \/ \E how : Leave(v, how)
    BY <1>2 DEF SendDone, PeerClosed, LoadInFlight
  <2> QED
    BY <1>1, <2>1, <2>2
<1>3. ASSUME NEW v \in Workers,
             \/ SendOne(v) \/ SendClosed(v) \/ Notify(v) \/ Enable(v) \/ LoadStopping(v) \/ Pop(v)
             \/ Wake(v) \/ Skip(v) \/ Handle(v) \/ Settle(v) \/ Stop(v) \/ Push(v)
      PROVE  exit' = exit
  BY <1>3 DEF SendOne, SendClosed, Notify, Enable, LoadStopping, Pop, Wake, Skip, Handle, Settle, Stop, Push
<1>4. ASSUME NEW v \in Workers, NEW d \in Workers, Effect(v, d)
      PROVE  exit' = exit
  BY <1>4 DEF Effect
<1>5. ASSUME BeginShutdown \/ Tell \/ UNCHANGED workersVars
      PROVE  exit' = exit
  BY <1>5 DEF BeginShutdown, Tell, workersVars
<1>6. ASSUME Abort
      PROVE  \A u \in Workers : exit[u] # "running" => exit'[u] = exit[u]
  BY <1>6 DEF Abort, Closed
<1>7. \A u \in Workers : exit[u] # "running" => exit'[u] = exit[u]
  BY <1>2, <1>3, <1>4, <1>5, <1>6 DEF WorkersNext, Step
<1>8. NobodyFailed' => NobodyFailed
  BY <1>7 DEF NobodyFailed, Failed
<1> QED
  BY <1>7, <1>8

\* A worker stops only at the second load of the drain's check, on reading zero.
LEMMA StopsAtZero ==
    ASSUME WorkersShape, PlaceInv, [WorkersNext]_workersVars,
           NEW u \in Workers, exit[u] # "stopped", exit'[u] = "stopped"
    PROVE  /\ pc[u] = "load_in_flight" /\ inFlight = 0 /\ Leave(u, "stopped")
           /\ UNCHANGED <<inFlight, stopping, stopped, sentTo, handled, cur>>
<1> USE DEF traffic, history
<1>e. exit' # exit
  OBVIOUS
<1>l. ASSUME NEW v \in Workers, NEW how, Leave(v, how)
      PROVE  v = u /\ how = "stopped"
  BY <1>l, LeaveIs
<1>1. ASSUME NEW v \in Workers, SendDone(v) \/ PeerClosed(v)
      PROVE  FALSE
  BY <1>e, <1>l, <1>1 DEF SendDone, PeerClosed
<1>2. ASSUME NEW v \in Workers, LoadInFlight(v)
      PROVE  /\ pc[u] = "load_in_flight" /\ inFlight = 0 /\ Leave(u, "stopped")
             /\ UNCHANGED <<inFlight, stopping, stopped, sentTo, handled, cur>>
  <2>1. inFlight = 0 /\ Leave(v, "stopped")
    BY <1>e, <1>2 DEF LoadInFlight
  <2>2. v = u
    BY <1>l, <2>1
  <2> QED
    BY <1>2, <2>1, <2>2 DEF LoadInFlight
<1>3. ASSUME NEW v \in Workers,
             \/ SendOne(v) \/ SendClosed(v) \/ Notify(v) \/ Enable(v) \/ LoadStopping(v) \/ Pop(v)
             \/ Wake(v) \/ Skip(v) \/ Handle(v) \/ Settle(v) \/ Stop(v) \/ Push(v)
      PROVE  FALSE
  BY <1>e, <1>3 DEF SendOne, SendClosed, Notify, Enable, LoadStopping, Pop, Wake, Skip, Handle, Settle,
                    Stop, Push
<1>4. ASSUME NEW v \in Workers, NEW d \in Workers, Effect(v, d)
      PROVE  FALSE
  BY <1>e, <1>4 DEF Effect
<1>5. ASSUME BeginShutdown \/ Tell \/ UNCHANGED workersVars
      PROVE  FALSE
  BY <1>e, <1>5 DEF BeginShutdown, Tell, workersVars
<1>6. ASSUME Abort
      PROVE  FALSE
  BY <1>6 DEF Abort, WorkersShape
<1> QED
  BY <1>1, <1>2, <1>3, <1>4, <1>5, <1>6 DEF WorkersNext, Step

\* The counter says how many workers are stopping.
LEMMA StoppersFinite ==
    ASSUME WorkersShape
    PROVE  /\ IsFiniteSet(Stoppers) /\ Cardinality(Stoppers) \in 0 .. N
           /\ Cardinality(Stoppers) = N => \A v \in Workers : stopping[v]
<1>1. N \in Nat /\ IsFiniteSet(Workers) /\ Cardinality(Workers) = N
  BY WorkersAssumption, FS_Interval DEF Workers
<1>2. Stoppers \in SUBSET Workers
  BY DEF Stoppers
<1>3. /\ IsFiniteSet(Stoppers) /\ Cardinality(Stoppers) <= N
      /\ Cardinality(Stoppers) = N => Workers = Stoppers
  BY <1>1, <1>2, FS_Subset
<1>4. Cardinality(Stoppers) \in Nat
  BY <1>3, FS_CardinalityType
<1>5. Workers = Stoppers => \A v \in Workers : stopping[v]
  BY DEF Stoppers
<1> QED
  BY <1>1, <1>3, <1>4, <1>5

\* Steps that leave the stopping alone, and put nobody past the first load or at
\* the handling of an event.
LEMMA StopKept ==
    ASSUME StopInv, UNCHANGED <<stopping, stopped>>,
           \A w \in Workers :
               /\ pc'[w] = "effects" => (pc[w] = "effects" /\ cur'[w] = cur[w])
                                        \/ ~(stopping[w] /\ cur'[w].kind # "shard")
               /\ pc'[w] = "load_in_flight" => pc[w] = "load_in_flight" \/ \A v \in Workers : stopping[v]
               /\ exit'[w] = "stopped" => exit[w] = "stopped" \/ pc[w] = "load_in_flight"
    PROVE  StopInv'
<1>1. Stoppers' = Stoppers
  BY DEF Stoppers
<1>2. stopped' = Cardinality(Stoppers')
  BY <1>1 DEF StopInv
<1> SUFFICES ASSUME NEW w \in Workers
             PROVE  /\ pc'[w] = "effects" /\ cur'[w].kind # "shard" => ~stopping'[w]
                    /\ pc'[w] = "load_in_flight" \/ exit'[w] = "stopped" => \A v \in Workers : stopping'[v]
  BY <1>2 DEF StopInv
<1> QED
  BY DEF StopInv

LEMMA StopStep ==
    ASSUME WorkersShape, PlaceInv, StopInv, [WorkersNext]_workersVars
    PROVE  StopInv'
<1> USE DEF traffic, history
<1>x. \A w \in Workers : exit'[w] = "stopped" => exit[w] = "stopped" \/ pc[w] = "load_in_flight"
  BY StopsAtZero
<1>p. DOMAIN pc = Workers /\ DOMAIN cur = Workers
  BY DEF WorkersShape
<1>1. ASSUME NEW s \in Workers, SendDone(s) \/ PeerClosed(s) \/ LoadInFlight(s)
      PROVE  StopInv'
  <2>1. UNCHANGED <<stopping, stopped, cur>>
    BY <1>1 DEF SendDone, PeerClosed, LoadInFlight
  <2>2. \A w \in Workers : pc'[w] = pc[w] \/ pc'[w] \in {"exited", "select"}
    BY <1>p, <1>1 DEF SendDone, SendNext, PeerClosed, LoadInFlight, Leave, Goto
  <2> QED
    BY <1>x, <2>1, <2>2, StopKept
<1>2. ASSUME NEW s \in Workers,
             SendOne(s) \/ SendClosed(s) \/ Notify(s) \/ Enable(s) \/ Pop(s)
      PROVE  StopInv'
  <2>1. UNCHANGED <<stopping, stopped>>
    BY <1>2 DEF SendOne, SendClosed, Notify, Enable, Pop
  <2>2. \A w \in Workers : (pc'[w] = pc[w] /\ (pc[w] = "effects" => cur'[w] = cur[w]))
                           \/ pc'[w] \notin {"effects", "load_in_flight"}
    BY <1>p, <1>2 DEF SendOne, SendClosed, AfterSettled, Notify, Enable, Pop, Goto
  <2> QED
    BY <1>x, <2>1, <2>2, StopKept
<1>3. ASSUME NEW s \in Workers, LoadStopping(s)
      PROVE  StopInv'
  <2>1. UNCHANGED <<stopping, stopped, cur>>
    BY <1>3 DEF LoadStopping
  <2>2. \A w \in Workers : pc'[w] = pc[w] \/ pc'[w] = "select" \/ (pc'[w] = "load_in_flight" /\ stopped = N)
    BY <1>p, <1>3 DEF LoadStopping, Goto
  <2>3. stopped = N => \A v \in Workers : stopping[v]
    BY StoppersFinite DEF StopInv
  <2> QED
    BY <1>x, <2>1, <2>2, <2>3, StopKept
<1>4. ASSUME NEW s \in Workers, Wake(s) \/ Skip(s) \/ Settle(s)
      PROVE  StopInv'
  <2>1. UNCHANGED <<stopping, stopped>>
    BY <1>4 DEF Wake, Skip, Settle
  <2>2. \A w \in Workers : (pc'[w] = pc[w] /\ cur'[w] = cur[w]) \/ pc'[w] \in {"send", "notify"}
    BY <1>p, <1>4 DEF Wake, Skip, Settle, AfterSettled, Again, Goto
  <2> QED
    BY <1>x, <2>1, <2>2, StopKept
<1>5. ASSUME NEW s \in Workers, Handle(s)
      PROVE  StopInv'
  <2>1. UNCHANGED <<stopping, stopped, cur>> /\ ~(stopping[s] /\ cur[s].kind # "shard")
    BY <1>5 DEF Handle
  <2>2. \A w \in Workers : pc'[w] = pc[w] \/ (w = s /\ pc'[w] = "effects")
    BY <1>p, <1>5 DEF Handle, Goto
  <2> QED
    BY <1>x, <2>1, <2>2, StopKept
<1>6. ASSUME NEW s \in Workers, Stop(s)
      PROVE  StopInv'
  <2>1. /\ ~stopping[s] /\ stopped' = stopped + 1 /\ exit' = exit
        /\ stopping'[s] /\ \A w \in Workers : w # s => stopping'[w] = stopping[w]
    BY <1>6 DEF Stop, StopInv, WorkersShape
  <2>2. s \notin Stoppers /\ Stoppers' = Stoppers \cup {s}
    BY <2>1 DEF Stoppers
  <2>3. IsFiniteSet(Stoppers) /\ Cardinality(Stoppers) = stopped
    BY StoppersFinite DEF StopInv
  <2>4. Cardinality(Stoppers \cup {s}) = stopped + 1
    BY <2>2, <2>3, FS_AddElement
  <2>5. stopped' = Cardinality(Stoppers')
    BY <2>1, <2>2, <2>4
  <2>6. \A w \in Workers : w # s => pc'[w] = pc[w] /\ cur'[w] = cur[w]
    BY <1>p, <1>6 DEF Stop, Again, Goto
  <2>7. pc'[s] = "notify"
    BY <1>p, <1>6 DEF Stop, Again, Goto
  <2>8. ASSUME NEW w \in Workers
        PROVE  /\ pc'[w] = "effects" /\ cur'[w].kind # "shard" => ~stopping'[w]
               /\ pc'[w] = "load_in_flight" \/ exit'[w] = "stopped" => \A v \in Workers : stopping'[v]
    <3>1. CASE w = s
      BY <2>1, <2>7, <3>1 DEF StopInv
    <3>2. CASE w # s
      BY <2>1, <2>6, <3>2 DEF StopInv
    <3> QED
      BY <3>1, <3>2
  <2> QED
    BY <2>5, <2>8 DEF StopInv
<1>7. ASSUME NEW s \in Workers, NEW d \in Workers, Push(s) \/ Effect(s, d)
      PROVE  StopInv'
  BY <1>x, <1>7, StopKept DEF Push, Effect
<1>8. ASSUME BeginShutdown \/ Tell \/ UNCHANGED workersVars
      PROVE  StopInv'
  BY <1>x, <1>8, StopKept DEF BeginShutdown, Tell, workersVars
<1>9. ASSUME Abort
      PROVE  StopInv'
  <2>1. UNCHANGED <<stopping, stopped>> /\ \A w \in Workers : pc'[w] = "exited"
    BY <1>9 DEF Abort
  <2> QED
    BY <1>x, <2>1, StopKept
<1> QED
  BY <1>1, <1>2, <1>3, <1>4, <1>5, <1>6, <1>7, <1>8, <1>9 DEF WorkersNext, Step

\* With nothing unsettled nobody has anything of a shard in hand, and between two
\* shards that are there everything sent has been handled.
LEMMA NothingInHand ==
    ASSUME WorkersShape, Unsettled = {}, NEW v \in Workers, pc[v] \in {"accept", "effects"}
    PROVE  cur[v].kind # "shard"
<1> SUFFICES ASSUME cur[v].kind = "shard"
             PROVE  FALSE
  OBVIOUS
<1> PICK d : d = cur[v].from
  OBVIOUS
<1>1. d \in Workers
  BY EventFacts DEF WorkersShape
<1>2. cur[v].n \in Pending(d, v)
  BY DEF Pending, InHand, Busy, IsFrom
<1> QED
  BY <1>1, <1>2, NothingUnsettled

LEMMA NothingOwed ==
    ASSUME WorkersShape, FlowInv, Unsettled = {}, NEW d \in Workers, NEW w \in Workers,
           ~Closed(d), ~Closed(w)
    PROVE  sentTo[d][w] = handled[d][w]
<1>1. Pending(d, w) = {}
  BY NothingUnsettled
<1>2. FlowOK(d, w)
  BY DEF FlowInv
<1>t. sentTo[d][w] \in Nat /\ handled[d][w] \in Nat /\ Taken(d, w) \in Nat /\ Handed(d, w) \in Nat
      /\ Len(backlog[d][w]) \in Nat
  BY <1>2, FlowTypes
<1>3. (Handed(d, w) + 1) .. sentTo[d][w] = {} /\ Numbers(d, queue[w]) = {} /\ InHand(d, w) = {}
  BY <1>1 DEF Pending
<1>4. Handed(d, w) = sentTo[d][w]
  <2>1. Handed(d, w) <= sentTo[d][w]
    BY <1>t DEF Handed
  <2>2. Handed(d, w) < sentTo[d][w] => sentTo[d][w] \in (Handed(d, w) + 1) .. sentTo[d][w]
    BY <1>t
  <2> QED
    BY <1>t, <1>3, <2>1, <2>2
<1>5. Taken(d, w) = Handed(d, w)
  <2>1. Taken(d, w) <= Handed(d, w)
    BY <1>2 DEF FlowOK, Queued
  <2>2. \A m \in (Taken(d, w) + 1) .. Handed(d, w) : m \in Numbers(d, queue[w])
    BY <1>2 DEF FlowOK, Complete
  <2>3. Taken(d, w) < Handed(d, w) => Handed(d, w) \in (Taken(d, w) + 1) .. Handed(d, w)
    BY <1>t
  <2> QED
    BY <1>t, <1>3, <2>1, <2>2, <2>3
<1>6. ~Busy(w, d)
  BY <1>3 DEF InHand
<1>7. Taken(d, w) = handled[d][w] + 0
  BY <1>6 DEF Taken, Busy
<1> QED
  BY <1>t, <1>4, <1>5, <1>7

\* The histories grow only where something is handled.
LEMMA HistoriesGrow ==
    ASSUME [WorkersNext]_workersVars,
           \A v \in Workers : pc[v] # "effects",
           \A v \in Workers : pc[v] = "accept" => cur[v].kind # "shard"
    PROVE  UNCHANGED <<sentTo, handled>>
<1> USE DEF traffic, history
<1>1. ASSUME NEW v \in Workers, Step(v)
      PROVE  UNCHANGED <<sentTo, handled>>
  BY <1>1 DEF Step, SendDone, SendOne, SendClosed, PeerClosed, LoadInFlight, Notify, Enable, LoadStopping,
              Pop, Wake, Skip, Handle, Settle, Stop
<1>2. ASSUME NEW v \in Workers, Push(v)
      PROVE  UNCHANGED <<sentTo, handled>>
  BY <1>2 DEF Push
<1>3. ASSUME NEW v \in Workers, NEW d \in Workers, Effect(v, d)
      PROVE  FALSE
  BY <1>3 DEF Effect
<1>4. ASSUME BeginShutdown \/ Tell \/ Abort \/ UNCHANGED workersVars
      PROVE  UNCHANGED <<sentTo, handled>>
  BY <1>4 DEF BeginShutdown, Tell, Abort, workersVars
<1> QED
  BY <1>1, <1>2, <1>3, <1>4 DEF WorkersNext

LEMMA QuietStep ==
    ASSUME DrainInv, [WorkersNext]_workersVars
    PROVE  CountInv' /\ QuietInv'
<1>i. WorkersShape /\ PlaceInv /\ FlowInv /\ StopInv /\ CountInv /\ QuietInv
  BY DEF DrainInv, DeliveryInv
<1>f. PendsOn \/ OneSettled \/ OneSent \/ SomeDropped
  BY <1>i, FlowStep
<1>e. /\ \A u \in Workers : exit[u] # "running" => exit'[u] = exit[u]
      /\ NobodyFailed' => NobodyFailed
  BY <1>i, ExitStays
<1>t. inFlight \in Int /\ exit \in [Workers -> Exits]
  BY <1>i DEF WorkersShape
<1>c. CountInv' /\ ((PendsOn \/ OneSettled \/ SomeDropped) => Unsettled' \subseteq Unsettled)
  BY <1>i, <1>f, <1>e, <1>t, CountStep
<1>q. ASSUME NEW u \in Workers, exit'[u] = "stopped", NobodyFailed'
      PROVE  Unsettled' = {} /\ \A d, w \in Workers : sentTo'[d][w] = handled'[d][w]
  <2>0. NobodyFailed
    BY <1>e, <1>q
  <2>1. CASE exit[u] = "stopped"
    <3>1. Unsettled = {} /\ \A d, w \in Workers : sentTo[d][w] = handled[d][w]
      BY <1>i, <2>0, <2>1 DEF QuietInv
    <3>2. \A v \in Workers : pc[v] \in {"accept", "effects"} => cur[v].kind # "shard"
      BY <1>i, <3>1, NothingInHand
    <3>3. \A v \in Workers : stopping[v]
      BY <1>i, <2>1 DEF StopInv
    <3>4. \A v \in Workers : pc[v] # "effects"
      BY <1>i, <3>2, <3>3 DEF StopInv
    <3>5. ~OneSent
      BY <3>4 DEF OneSent
    <3>6. Unsettled' = {}
      BY <1>c, <1>f, <3>1, <3>5
    <3>7. UNCHANGED <<sentTo, handled>>
      BY <3>2, <3>4, HistoriesGrow
    <3> QED
      BY <3>1, <3>6, <3>7
  <2>2. CASE exit[u] # "stopped"
    <3>1. /\ pc[u] = "load_in_flight" /\ inFlight = 0 /\ Leave(u, "stopped")
          /\ UNCHANGED <<inFlight, sentTo, handled, cur>>
      BY <1>i, <1>q, <2>2, StopsAtZero
    <3>2. IsFiniteSet(Unsettled) /\ Cardinality(Unsettled) = 0
      BY <1>i, <2>0, <3>1 DEF CountInv
    <3>3. Unsettled = {}
      BY <3>2, FS_EmptySet
    <3>4. SomeDropped
      BY <1>i, <3>1, FlowLeave DEF SomeDropped
    <3>5. Unsettled' = {}
      BY <1>c, <3>3, <3>4
    <3>6. \A d, w \in Workers : sentTo[d][w] = handled[d][w]
      <4>1. CASE \E v \in Workers : exit[v] = "stopped"
        BY <1>i, <2>0, <4>1 DEF QuietInv
      <4>2. CASE \A v \in Workers : exit[v] # "stopped"
        <5>1. ASSUME NEW v \in Workers
              PROVE  ~Closed(v)
          <6>1. exit[v] \in Exits /\ exit[v] # "stopped" /\ ~Failed(v)
            BY <1>t, <2>0, <4>2 DEF NobodyFailed
          <6>2. exit[v] # "aborted"
            BY <1>i, <2>0 DEF PlaceInv, NobodyFailed
          <6> QED
            BY <6>1, <6>2 DEF Exits, Failed, Closed
        <5> QED
          BY <1>i, <3>3, <5>1, NothingOwed
      <4> QED
        BY <4>1, <4>2
    <3> QED
      BY <3>1, <3>5, <3>6
  <2> QED
    BY <2>1, <2>2
<1>r. QuietInv'
  BY <1>q DEF QuietInv
<1> QED
  BY <1>c, <1>r

LEMMA DrainInit == WorkersInit => DrainInv
<1> SUFFICES ASSUME WorkersInit
             PROVE  DrainInv
  OBVIOUS
<1>1. DeliveryInv
  BY WorkersInitShape, InitFlow DEF DeliveryInv
<1>2. StopInv
  <2>1. Stoppers = {}
    BY DEF WorkersInit, Stoppers
  <2> QED
    BY <2>1, FS_EmptySet DEF StopInv, WorkersInit
<1>3. Unsettled = {}
  <2>1. ASSUME NEW d \in Workers, NEW w \in Workers
        PROVE  Pending(d, w) = {}
    <3>1. /\ backlog[d][w] = <<>> /\ queue[w] = <<>> /\ sentTo[d][w] = 0 /\ pc[w] = "send"
      BY DEF WorkersInit
    <3>2. 0 - Len(<<>>) = 0
      BY HeldNone
    <3>3. Handed(d, w) = 0 /\ (0 + 1) .. 0 = {}
      BY <3>1, <3>2 DEF Handed
    <3>4. InHand(d, w) = {}
      BY <3>1 DEF InHand, Busy
    <3> QED
      BY <3>1, <3>3, <3>4, NoNumbers DEF Pending
  <2>2. PICK P : P = [d \in Workers |-> [w \in Workers |-> Pending(d, w)]]
    OBVIOUS
  <2>3. \A d, w \in Workers : P[d][w] = {}
    BY <2>1, <2>2
  <2>4. Triples(P) = {}
    BY <2>3, TriplesAre
  <2> QED
    BY <2>2, <2>4 DEF Unsettled
<1>4. CountInv
  BY <1>3, FS_EmptySet DEF CountInv, WorkersInit
<1>5. QuietInv
  BY DEF QuietInv, WorkersInit
<1> QED
  BY <1>1, <1>2, <1>4, <1>5 DEF DrainInv

LEMMA DrainStep == DrainInv /\ [WorkersNext]_workersVars => DrainInv'
<1> SUFFICES ASSUME DrainInv, [WorkersNext]_workersVars
             PROVE  DrainInv'
  OBVIOUS
<1>1. WorkersShape /\ PlaceInv /\ FlowInv /\ StopInv
  BY DEF DrainInv, DeliveryInv
<1>2. WorkersShape' /\ PlaceInv' /\ FlowInv' /\ StopInv'
  BY <1>1, ShapeStep, PlaceStep, FlowStep, StopStep
<1>3. CountInv' /\ QuietInv'
  BY QuietStep
<1> QED
  BY <1>2, <1>3 DEF DrainInv, DeliveryInv

\* The shards' state has its type; in particular in_flight, which is decremented
\* for every event settled or given up, never goes below zero, whoever has failed
\* or been aborted, and `stopping` never counts a worker twice.
THEOREM WorkersTypeCorrect == WorkersSpec => []WorkersTypeOK
<1>1. DrainInv => WorkersTypeOK
  <2> SUFFICES ASSUME DrainInv
               PROVE  WorkersTypeOK
    OBVIOUS
  <2>1. WorkersShape /\ StopInv /\ CountInv
    BY DEF DrainInv, DeliveryInv
  <2>2. inFlight \in Nat
    <3>1. Cardinality(Unsettled) \in Nat /\ Cardinality(Unsettled) <= inFlight /\ inFlight \in Int
      BY <2>1, FS_CardinalityType DEF CountInv, WorkersShape
    <3> QED
      BY <3>1
  <2>3. stopped \in 0 .. N
    BY <2>1, StoppersFinite DEF StopInv
  <2> QED
    BY <2>1, <2>2, <2>3 DEF WorkersShape, WorkersTypeOK
<1> QED
  BY <1>1, DrainInit, DrainStep, PTL DEF WorkersSpec

\* While no shard fails, a worker that has stopped left nothing on its way, being
\* handled or still to be sent between any two shards, and found every worker
\* stopping (StoppedMeansQuiet): the two loads of drained(), taken at different
\* times, are enough.
THEOREM DrainIsOver == WorkersSpec => []StoppedMeansQuiet
<1>1. DrainInv => StoppedMeansQuiet
  <2> SUFFICES ASSUME DrainInv, NEW u \in Workers, exit[u] = "stopped", NobodyFailed
               PROVE  /\ \A w \in Workers : stopping[w]
                      /\ \A d, w \in Workers : sentTo[d][w] = handled[d][w]
                      /\ \A w \in Workers : pc[w] = "effects" => cur[w].kind # "shard"
    BY DEF StoppedMeansQuiet, NobodyFailed
  <2>1. WorkersShape /\ StopInv /\ QuietInv
    BY DEF DrainInv, DeliveryInv
  <2>2. Unsettled = {} /\ \A d, w \in Workers : sentTo[d][w] = handled[d][w]
    BY <2>1 DEF QuietInv
  <2>3. \A w \in Workers : stopping[w]
    BY <2>1 DEF StopInv
  <2>4. \A w \in Workers : pc[w] = "effects" => cur[w].kind # "shard"
    BY <2>1, <2>2, NothingInHand
  <2> QED
    BY <2>2, <2>3, <2>4
<1> QED
  BY <1>1, DrainInit, DrainStep, PTL DEF WorkersSpec

\* While no shard fails, in_flight counts exactly the events that are held back,
\* queued or in hand, through every sending, handling and settling.
THEOREM InFlightIsExact == WorkersSpec => [](NobodyFailed => inFlight = Cardinality(Unsettled))
<1>1. DrainInv => (NobodyFailed => inFlight = Cardinality(Unsettled))
  BY DEF DrainInv, CountInv
<1> QED
  BY <1>1, DrainInit, DrainStep, PTL DEF WorkersSpec
=============================================================================
