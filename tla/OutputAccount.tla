---------------------------- MODULE OutputAccount ----------------------------
(***************************************************************************)
(* What a session's link promises its shard, whatever carries the output    *)
(* (crates/e6irc-edge/src/link.rs, SessionLink): an account of what was sent *)
(* and of what the client socket has taken, held to the send-queue bound.    *)
(* SessionLink implements it with two threads and a shared atomic word.      *)
(***************************************************************************)
EXTENDS Integers

CONSTANTS
    Capacity,       \* sendq_bytes
    Weights         \* weights of lines

VARIABLES
    sent, written,  \* bytes, since the session opened
    open            \* FALSE once the session is killed or over: nothing is owed

accountVars == <<sent, written, open>>

InFlight == sent - written

Init == sent = 0 /\ written = 0 /\ open = TRUE

\* A line is admitted within the bound; one longer than the bound only alone.
Send(weight) ==
    /\ open
    /\ InFlight = 0 \/ InFlight + weight <= Capacity
    /\ sent' = sent + weight
    /\ UNCHANGED <<written, open>>

\* The client socket takes some of what was sent, and never more than that.
Write(bytes) ==
    /\ open
    /\ written' = written + bytes
    /\ UNCHANGED <<sent, open>>

Close ==
    /\ open
    /\ open' = FALSE
    /\ written' = sent
    /\ UNCHANGED sent

Next ==
    \/ \E weight \in Weights : Send(weight)
    \/ \E bytes \in 0 .. InFlight : Write(bytes)
    \/ Close

Spec == Init /\ [][Next]_accountVars

-----------------------------------------------------------------------------

AccountTypeOK == sent \in Nat /\ written \in Nat /\ open \in BOOLEAN

\* What is sent and not yet written stays within the bound, or is what is left
\* of one line that found nothing in flight.
Bounded ==
    /\ 0 <= InFlight
    /\ InFlight <= Capacity \/ \E weight \in Weights : InFlight <= weight
=============================================================================
