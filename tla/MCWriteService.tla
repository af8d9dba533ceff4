--------------------------- MODULE MCWriteService ---------------------------
(* Instances of WriteService for TLC.                                       *)
EXTENDS WriteService, TLC

CONSTANTS e1, e2,                       \* executions
          prio, submit, failed, explicit  \* frozen actions, one of each kind

TwoExecs == {e1, e2}
Symmetry == Permutations(Execs)

Resumes == {failed, explicit}
Changes == {prio, submit}

Wanted == 2
OneConfig == {Wanted}
TwoConfigs == {1, Wanted}
WantAll == [a \in Actions |-> Wanted]
KindOf == [a \in Actions |-> CASE a = prio -> "set_task_priority"
                               [] a = submit -> "submit_task"
                               [] a = failed -> "resume_failed"
                               [] a = explicit -> "resume_explicit"]
=============================================================================
