--------------------------- MODULE MCServingLease ---------------------------
(***************************************************************************)
(* ServingLease for TLC: processes are interchangeable.                     *)
(***************************************************************************)
EXTENDS ServingLease, TLC

Symmetry == Permutations(Procs)
=============================================================================
