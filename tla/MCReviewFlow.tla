---------------------------- MODULE MCReviewFlow ----------------------------
(* Instances of ReviewFlow for TLC.                                         *)
EXTENDS ReviewFlow

CONSTANTS r1, r2           \* runs

OneAction == 1..1
TwoActions == 1..2
ThreeCalls == 1..3
FourCalls == 1..4
=============================================================================
