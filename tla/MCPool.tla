------------------------------- MODULE MCPool -------------------------------
(* Two compile workers among two CPUs, or beside one. *)
EXTENDS CompilePool
=============================================================================
