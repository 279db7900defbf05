------------------------------- MODULE MCQueues -------------------------------
(***************************************************************************)
(* The constants of Queues for TLC.                                        *)
(***************************************************************************)
EXTENDS Queues, TLC

CONSTANTS p1, p2, p3, x1, x2

ThreeThreads == {p1, p2, p3}
TwoItems     == {x1, x2}
Symmetry == Permutations(ThreeThreads) \cup Permutations(TwoItems)
=============================================================================
