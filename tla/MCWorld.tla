------------------------------ MODULE MCWorld -------------------------------
(* Two CPUs and a compile worker. *)
EXTENDS World
=============================================================================
