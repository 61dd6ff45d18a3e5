------------------------------- MODULE Progress -------------------------------
(***************************************************************************)
(* Progress of crates/e6irc-queue/src/lib.rs: a count one thread advances   *)
(* and another reads, with the reader's request to be woken in the lowest   *)
(* bit of the same atomic word; and the tokio Notify the wake goes through  *)
(* (crates/e6irc-edge/src/link.rs).  Each atomic operation is an action, so *)
(* a reader can arm between the two halves of an advance.                   *)
(***************************************************************************)
EXTENDS Integers

VARIABLES
    count, armed,   \* the word: the count, and bit 0
    stage,          \* where the advancing thread is: "idle", "clear", "notify"
    permit          \* the Notify holds a wake nobody has taken

progressVars == <<count, armed, stage, permit>>

ProgressInit == count = 0 /\ armed = FALSE /\ stage = "idle" /\ permit = FALSE

ProgressTypeOK ==
    /\ count \in Nat /\ armed \in BOOLEAN
    /\ stage \in {"idle", "clear", "notify"} /\ permit \in BOOLEAN

\* fetch_add: adds, and sees whether the reader has armed.
AdvanceAdd(amount) ==
    /\ stage = "idle"
    /\ count' = count + amount
    /\ stage' = IF armed THEN "clear" ELSE "idle"
    /\ UNCHANGED <<armed, permit>>

\* fetch_and: whoever takes the bit away answers it.
AdvanceClear ==
    /\ stage = "clear"
    /\ armed' = FALSE
    /\ stage' = IF armed THEN "notify" ELSE "idle"
    /\ UNCHANGED <<count, permit>>

\* Notify::notify_one: wakes the waiter, or leaves the next one a permit.
AdvanceNotify ==
    /\ stage = "notify"
    /\ stage' = "idle"
    /\ permit' = TRUE
    /\ UNCHANGED <<count, armed>>

\* fetch_or: arms, and reads the count.
Arm == armed' = TRUE

\* The advancing thread is between its fetch_add and its notify_one.
WakeIsComing == permit \/ stage \in {"clear", "notify"}
=============================================================================
