---------------------------- MODULE MCNetworks ----------------------------
(* One stored and one configured network of one account.                  *)
EXTENDS Networks
CONSTANTS s1, g1
=============================================================================
