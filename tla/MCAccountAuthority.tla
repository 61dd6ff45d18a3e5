-------------------------- MODULE MCAccountAuthority --------------------------
(***************************************************************************)
(* Clients are interchangeable: the model's behaviours do not depend on     *)
(* their names, and every property is invariant under their permutations.   *)
(*                                                                         *)
(* Epochs only matter by which revocations came after which outstanding      *)
(* ticket: Lease asks nothing else, Revoke puts its subject after every      *)
(* ticket, a new ticket is after every revocation, and what Pruned forgets   *)
(* came after none.  States that agree on that are checked once.             *)
(***************************************************************************)
EXTENDS AccountAuthority

Symmetry == Permutations(Clients)

Since == [k \in Outstanding |-> {x \in Revocable : RevokedSince(k, x)}]
View == <<storeVars, laneVars, watcherVars, Since,
          [k \in Clients |-> [client[k] EXCEPT !.ticket = 0]]>>
=============================================================================
