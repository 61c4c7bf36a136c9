---------------------------- MODULE MCRex3Display ----------------------------
(***************************************************************************)
(* Rex3Display with the values its .cfg files give to the constants.       *)
(***************************************************************************)
EXTENDS Rex3Display
=============================================================================
