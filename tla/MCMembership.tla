---------------------------- MODULE MCMembership ----------------------------
(* Two shards, a session on each, one channel on the first and two on the   *)
(* second.  The first session does everything, the second looks on and      *)
(* kicks.                                                                   *)
EXTENDS Membership, TLC

CONSTANTS u1, u2, ch1, ch2, ch3, n1, n2, n3

MCHome == u1 :> 1 @@ u2 :> 2
SameHome == u1 :> 1 @@ u2 :> 1
MCOwner == ch1 :> 1 @@ ch2 :> 2 @@ ch3 :> 2
MCNick == u1 :> n1 @@ u2 :> n2
MCCommands == u1 :> 3 @@ u2 :> 2
AllVerbs == u1 :> {"JOIN", "JOIN_0", "PART", "KICK", "NICK", "QUIT"} @@ u2 :> {"JOIN", "KICK"}
JoinAndQuit == u1 :> {"JOIN", "QUIT"} @@ u2 :> {"JOIN"}

\* The two channels of the second shard are alike.
Symmetry == Permutations({ch2, ch3})
=============================================================================
