--------------------------- MODULE MCFaultHandling ---------------------------
(***************************************************************************)
(* FaultHandling for TLC: two pages, each of a region of its own.          *)
(***************************************************************************)
EXTENDS FaultHandling

CONSTANTS p1, p2

TwoRegions == [p \in {p1, p2} |-> IF p = p1 THEN 1 ELSE 2]
==============================================================================
