---------------------------- MODULE MCTaskQueue ----------------------------
(* Instances of TaskQueue for TLC.                                          *)
EXTENDS TaskQueue, TLC

CONSTANTS t1, t2, d1     \* tasks and datasets

TwoProcs == 1..2

OneEach == t1 :> {d1} @@ t2 :> {d1}
=============================================================================
