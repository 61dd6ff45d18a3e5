----------------------------- MODULE SessionLink -----------------------------
(***************************************************************************)
(* One client session's link in one process: SessionLink and EdgeSession of *)
(* crates/e6irc-edge/src/link.rs.  The core counts what it sent, the edge   *)
(* reports what it wrote to the client socket, and the difference is held   *)
(* to the send-queue bound.  The edge's buffer is the queue of WorkQueue,   *)
(* with the same bound and this one producer.                               *)
(*                                                                         *)
(* The core end and the edge end run on two threads and share atomics: every *)
(* load, store and read-modify-write of them is an action of its own.       *)
(***************************************************************************)
EXTENDS Progress, Totals, Sequences

CONSTANTS
    Capacity,       \* sendq_bytes
    Weights,        \* weights of lines
    MaxSent         \* bound: bytes sent in one behaviour

ASSUME LinkAssumption ==
    Capacity \in Nat \ {0} /\ Weights \subseteq Nat \ {0} /\ MaxSent \in Nat

VARIABLES
    buf,            \* the edge's buffer: the weights of its lines
    sent,           \* SessionLink::sent
    taken, told,    \* EdgeSession::taken and EdgeSession::written
    gone,           \* Shared::edge_gone
    edge,           \* "up"; in Drop, "dying" then "waking"; "closed" once the
                    \* buffer's receiver is dropped
    core,           \* where the core end is
    want            \* the pending line's weight; 0 waits for all to be written

linkVars == <<buf, sent, taken, told, gone, edge, core, want>>
vars == <<progressVars, linkVars>>

CoreStates == {"idle", "gone?", "ready?", "arm", "recheck gone", "recheck",
               "sleep", "push", "refused", "killed", "overrun", "failed", "ended"}

Fits(l, weight) == l = 0 \/ l + weight <= Capacity
MutInFlightToTheBuffer == sent - taken

\* SessionLink::in_flight, at a reading of the count.
InFlight == sent - count

Ready == IF want = 0 THEN InFlight = 0 ELSE Fits(InFlight, want)

Init ==
    /\ ProgressInit
    /\ buf = <<>> /\ sent = 0 /\ taken = 0 /\ told = 0
    /\ gone = FALSE /\ edge = "up" /\ core = "idle" /\ want = 0

-----------------------------------------------------------------------------
\* The core end.

MutPushLineUncounted(weight, next, ifGone) ==
    /\ edge # "closed"
    /\ buf' = Append(buf, weight)
    /\ core' = IF Fits(TotalWeight(buf), weight) THEN next ELSE "overrun"
    /\ UNCHANGED sent

\* The push of output(): the buffer's own admission, behind the account's.
PushLine(weight, next, ifGone) ==
    \/ /\ edge = "closed"
       /\ core' = ifGone
       /\ UNCHANGED <<buf, sent>>
    \/ /\ edge # "closed"
       /\ ~Fits(TotalWeight(buf), weight)
       /\ core' = "overrun"
       /\ UNCHANGED <<buf, sent>>
    \/ /\ edge # "closed"
       /\ Fits(TotalWeight(buf), weight)
       /\ buf' = Append(buf, weight)
       /\ sent' = sent + weight
       /\ core' = next

\* SessionLink::output from a shard: admitted by the account, or refused, upon
\* which the session is killed (SessionOutput::write, close_for_sendq).  A line
\* to an edge that is gone is dropped, uncounted.
Output(weight) ==
    /\ core = "idle"
    /\ sent + weight <= MaxSent
    /\ IF Fits(InFlight, weight)
       THEN PushLine(weight, "idle", "idle")
       ELSE core' = "refused" /\ UNCHANGED <<buf, sent>>
    /\ UNCHANGED <<progressVars, taken, told, gone, edge, want>>

\* SessionLink::kill: the backlog is replaced by the closing line, which is not
\* counted; nothing is sent after it.
Kill(weight) ==
    /\ core = "refused"
    /\ core' = "killed"
    /\ buf' = IF edge = "closed" THEN <<>> ELSE <<weight>>
    /\ UNCHANGED <<progressVars, sent, taken, told, gone, edge, want>>

\* poll_output with a pending line, or poll_written_out.
StartWait(weight) ==
    /\ core = "idle"
    /\ sent + weight <= MaxSent
    /\ want' = weight
    /\ core' = "gone?"
    /\ UNCHANGED <<progressVars, buf, sent, taken, told, gone, edge>>

\* The four reads of poll_until: gone, then ready; after arming, both again.
ReadGone ==
    /\ core \in {"gone?", "recheck gone"}
    /\ core' = IF core = "gone?" THEN (IF gone THEN "failed" ELSE "ready?")
                                 ELSE (IF gone THEN "gone?" ELSE "recheck")
    /\ UNCHANGED <<progressVars, buf, sent, taken, told, gone, edge, want>>

ReadReady ==
    /\ core \in {"ready?", "recheck"}
    /\ core' = IF core = "ready?" THEN (IF Ready THEN "push" ELSE "arm")
                                  ELSE (IF Ready THEN "gone?" ELSE "sleep")
    /\ UNCHANGED <<progressVars, buf, sent, taken, told, gone, edge, want>>

MutArmAfterTheChecks ==
    /\ core = "arm"
    /\ core' = "sleep"
    /\ Arm
    /\ UNCHANGED <<count, stage, permit, buf, sent, taken, told, gone, edge, want>>

ArmDrained ==
    /\ core = "arm"
    /\ core' = "recheck gone"
    /\ Arm
    /\ UNCHANGED <<count, stage, permit, buf, sent, taken, told, gone, edge, want>>

\* The Notified future resolves: a permit is taken and the loop checks again.
Woken ==
    /\ core = "sleep" /\ permit
    /\ permit' = FALSE
    /\ core' = "gone?"
    /\ UNCHANGED <<count, armed, stage, buf, sent, taken, told, gone, edge, want>>

\* Room was seen: the pending line goes out; a flush is done.
Proceed ==
    /\ core = "push"
    /\ IF want = 0
       THEN core' = "idle" /\ UNCHANGED <<buf, sent>>
       ELSE PushLine(want, "idle", "failed")
    /\ want' = 0
    /\ UNCHANGED <<progressVars, taken, told, gone, edge>>

\* Dropping the SessionLink: the End frame.
End ==
    /\ core \in {"idle", "killed", "failed", "overrun"}
    /\ core' = "ended"
    /\ UNCHANGED <<progressVars, buf, sent, taken, told, gone, edge, want>>

-----------------------------------------------------------------------------
\* The edge end.

\* take, try_take: a line out of the buffer, still counted in flight.
Take ==
    /\ edge = "up" /\ stage = "idle" /\ buf # <<>>
    /\ taken' = taken + Head(buf)
    /\ buf' = Tail(buf)
    /\ UNCHANGED <<progressVars, sent, told, gone, edge, core, want>>

MutWrittenUntold ==
    /\ edge = "up" /\ told < taken
    /\ told' = taken
    /\ UNCHANGED <<progressVars, buf, sent, taken, gone, edge, core, want>>

\* written: some of what was taken is on the client socket, as one report.
Written ==
    /\ edge = "up" /\ told < taken
    /\ \E bytes \in 1 .. (taken - told) :
          /\ told' = told + bytes
          /\ AdvanceAdd(bytes)
    /\ UNCHANGED <<buf, sent, taken, gone, edge, core, want>>

\* The rest of an advance, which also ends the Drop of this end.
FinishAdvance ==
    /\ AdvanceClear \/ AdvanceNotify
    /\ UNCHANGED linkVars

\* Drop for EdgeSession: the writer failed, or the core ended the session and
\* its buffer is drained.  The flag is stored first.
DropEdge ==
    /\ edge = "up" /\ stage = "idle"
    /\ edge' = "dying"
    /\ gone' = TRUE
    /\ UNCHANGED <<progressVars, buf, sent, taken, told, core, want>>

\* ... then advance(0), to wake a core end that asked ...
DropAdvance ==
    /\ edge = "dying"
    /\ edge' = "waking"
    /\ AdvanceAdd(0)
    /\ UNCHANGED <<buf, sent, taken, told, gone, core, want>>

\* ... and the buffer's receiver goes with the fields.
DropFields ==
    /\ edge = "waking" /\ stage = "idle"
    /\ edge' = "closed"
    /\ UNCHANGED <<progressVars, buf, sent, taken, told, gone, core, want>>

Wait == ReadGone \/ ReadReady \/ ArmDrained \/ Woken \/ Proceed

Next ==
    \/ \E weight \in Weights : Output(weight) \/ Kill(weight)
    \/ \E weight \in Weights \cup {0} : StartWait(weight)
    \/ Wait \/ End
    \/ Take \/ Written \/ FinishAdvance
    \/ DropEdge \/ DropAdvance \/ DropFields

\* Both threads keep running what they have begun, and the edge's writer
\* writes what is buffered to a socket that takes it or fails.
Fairness ==
    /\ WF_vars(Wait)
    /\ WF_vars(Take) /\ WF_vars(Written) /\ WF_vars(FinishAdvance)
    /\ WF_vars(DropAdvance) /\ WF_vars(DropFields)

Spec == Init /\ [][Next]_vars
FairSpec == Spec /\ Fairness

-----------------------------------------------------------------------------

TypeOK ==
    /\ ProgressTypeOK
    /\ buf \in Seq(Weights)
    /\ sent \in Nat /\ taken \in Nat /\ told \in Nat
    /\ gone \in BOOLEAN /\ edge \in {"up", "dying", "waking", "closed"}
    /\ core \in CoreStates /\ want \in Weights \cup {0}

\* "it never refuses a line the core's account admitted": EdgeOverrun, the
\* invariant of this module broken, is never met.
NoEdgeOverrun == core # "overrun"

\* The account this link keeps, from OutputAccount: nothing is owed to a
\* session that was killed or is over.
Account == INSTANCE OutputAccount
    WITH written <- IF core \in {"killed", "ended"} THEN sent ELSE count,
         open <- core \notin {"killed", "ended"}

\* The link implements the account: a line is sent only within the bound as
\* measured at the client socket, at whatever moment the edge's thread reports,
\* and never more is reported written than was sent.
ImplementsAccount == Account!Spec

\* A core end asleep with room for its line, or with the edge gone, has a wake
\* on its way: an advance that saw its arming, a permit, or the Drop that has
\* yet to advance.
NoSleepPastRoom ==
    (core = "sleep" /\ (Ready \/ gone)) => WakeIsComing \/ edge = "dying"

\* A wait always ends: with the line sent, everything written, or the edge gone.
WaitsEnd == core = "sleep" ~> core \in {"idle", "failed", "ended"}
=============================================================================
