--------------------------- MODULE MCGpuAllocator ---------------------------
(* Small instances of GpuAllocator for TLC.                                 *)
EXTENDS GpuAllocator

CONSTANTS p1, p2, t1, t2

TaskOfPid == [p \in Procs |-> IF p = p2 THEN t2 ELSE t1]
AllPools == {Gpus}
=============================================================================
