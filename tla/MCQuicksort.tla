---------------------------- MODULE MCQuicksort ----------------------------
(* All arrays of N elements of a few values, with equal ones among them. *)
EXTENDS Quicksort

FewValues == 0..2
=============================================================================
