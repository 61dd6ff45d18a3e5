----------------------------- MODULE MCCoreLink -----------------------------
(***************************************************************************)
(* CoreLink for TLC.  Sessions are interchangeable.                         *)
(***************************************************************************)
EXTENDS CoreLink, TLC

Symmetry == Permutations(Sessions)
=============================================================================
