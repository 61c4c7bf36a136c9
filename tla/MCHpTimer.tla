----------------------------- MODULE MCHpTimer ------------------------------
(* The timer manager with two clients. *)
EXTENDS HpTimer, TLC

Devices == Permutations(Clients)
=============================================================================
