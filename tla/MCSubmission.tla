---------------------------- MODULE MCSubmission ----------------------------
(* Small instances of Submission for TLC.                                   *)
EXTENDS Submission

OnePrefix == [j \in Jobs |-> CHOOSE p \in Prefixes : TRUE]
=============================================================================
