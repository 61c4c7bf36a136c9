------------------------------- MODULE MCVdma -------------------------------
(* The worker and its engines for TLC: a qword of four bytes, a word of two, *)
(* chunks of two qwords.                                                     *)
EXTENDS Vdma

CountValues == {<<2, 4>>}
StrideValues == {0, -6}
PageSets == {{}, {1, 3}}
=============================================================================
