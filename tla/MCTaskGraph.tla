----------------------------- MODULE MCTaskGraph -----------------------------
(***************************************************************************)
(* Instances of TaskGraph for TLC.                                         *)
(***************************************************************************)
EXTENDS TaskGraph, TLC

CONSTANTS t1, t2, t3, f1, f2, c1

TwoTasks   == {t1, t2}
ThreeTasks == {t1, t2, t3}
TwoFibers  == {f1, f2}
OneClient  == {c1}
=============================================================================
