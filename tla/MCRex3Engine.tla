---------------------------- MODULE MCRex3Engine ----------------------------
(* Instances of Rex3Engine for TLC: the .cfg files choose ring size, number *)
(* of restarts and the length of a transfer.                                *)
EXTENDS Rex3Engine
=============================================================================
