--------------------------- MODULE MCHelperInstance ---------------------------
(***************************************************************************)
(* Instances of HelperInstance for TLC.                                    *)
(***************************************************************************)
EXTENDS HelperInstance, TLC

CONSTANTS e1, e2, e3

TwoThreads   == {e1, e2}
ThreeThreads == {e1, e2, e3}

\* All of the threads use fibers, or none does.
AllOrNone == {{}, Threads}

\* One thread uses fibers, others do not.
OnlyOne == {{e1}}
=============================================================================
