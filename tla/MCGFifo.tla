------------------------------ MODULE MCGFifo ------------------------------
(* The ring for TLC: producers and observers are interchangeable threads.  *)
EXTENDS GFifoRefinement, TLC

Threads == Permutations(Producers)
=============================================================================
