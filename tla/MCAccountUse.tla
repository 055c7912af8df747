---------------------------- MODULE MCAccountUse ----------------------------
(* Instances of the busy registry for TLC. *)
EXTENDS AccountUse, TLC
=============================================================================
