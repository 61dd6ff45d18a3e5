-------------------------------- MODULE Totals --------------------------------
(***************************************************************************)
(* The total weight of a sequence of events, which the queue keeps as a     *)
(* running count (State::load of crates/e6irc-queue/src/lib.rs).            *)
(***************************************************************************)
EXTENDS Integers, Sequences

TotalWeight(events) ==
    LET upTo[n \in 0 .. Len(events)] ==
            IF n = 0 THEN 0 ELSE upTo[n - 1] + events[n]
    IN  upTo[Len(events)]
=============================================================================
