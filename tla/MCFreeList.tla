------------------------------ MODULE MCFreeList ------------------------------
(***************************************************************************)
(* An instance of FreeList for TLC: more threads than objects.             *)
(***************************************************************************)
EXTENDS FreeList

CONSTANTS p1, p2, p3, x1, x2

ThreeThreads == {p1, p2, p3}
TwoItems     == {x1, x2}
=============================================================================
