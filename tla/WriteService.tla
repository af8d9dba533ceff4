---------------------------- MODULE WriteService ----------------------------
(***************************************************************************)
(* WriteService.execute (services/write_service.py) run by any number of   *)
(* concurrent executions against the durable WriteExecutionStore and the   *)
(* platform behind the runtime MCP profile.                                *)
(*                                                                         *)
(* Every await of execute is a point where other executions, the platform  *)
(* and its other users may step in, so each one separates two actions.  An *)
(* execution is one call of execute: a retry, a second approval or the     *)
(* recovery after a restart is another execution of the same action.  A    *)
(* crash kills every execution of the process; the store rows, the         *)
(* platform and the requests already sent remain.                          *)
(*                                                                         *)
(* A fingerprint is collision free, so an action stands for the content it *)
(* was computed from.  The platform is the part of it that the checks and  *)
(* the read-back can tell apart: the configuration of one non-exclusive    *)
(* task (its priority), the tasks submitted to the queue, and the DagRuns  *)
(* of one dataset, oldest first.  delete_task and stop_task take the path  *)
(* of set_task_priority: verification is a predicate on the snapshot alone *)
(* (services/verification.py 59-75 and 92-115).                            *)
(***************************************************************************)
EXTENDS Naturals, Sequences

CONSTANTS Execs,      \* executions: calls of execute
          Actions,    \* frozen actions, identified by fingerprint
          Kind,       \* action -> its kind
          Want,       \* action -> the configuration a priority change writes
          Configs,    \* values of the task configuration
          MaxRuns,    \* bound on the DagRuns of the dataset
          NoAction    \* no action, no approved fingerprint

Kinds == {"set_task_priority", "submit_task", "resume_failed", "resume_explicit"}

ASSUME ConstantsAssumption ==
    /\ Kind \in [Actions -> Kinds]
    /\ Want \in [Actions -> Configs]
    /\ MaxRuns \in Nat
    /\ NoAction \notin Actions

VARIABLES
    config,     \* platform: the task's configuration
    created,    \* platform: submit actions whose task is in the queue
    runs,       \* platform: states of the dataset's DagRuns, oldest first
    frozen,     \* action -> its PendingAction as far as it has been built
    approvals,  \* actions whose fingerprint a reviewer approved
    store,      \* action -> its row in WriteExecutionStore
    pc, act, base, out,  \* execution -> control, action, run baseline, result
    req         \* execution -> the mutation request it sent, if any

platform == <<config, created, runs>>
proposal == <<frozen, approvals>>
vars == <<config, created, runs, frozen, approvals, store, pc, act, base, out, req>>

RunStates == {"failed", "running", "success"}
ProgressStates == {"running", "success"}
NoRow == "no_row"
Persisted == {"VERIFIED", "VERIFICATION_FAILED", "UNKNOWN_OUTCOME"}
Definitive == {"VERIFIED", "VERIFICATION_FAILED"}
NoResult == "no_result"
Final == {"done", "blocked", "raised", "dead"}
Running == {"lookup", "precheck", "revalidate", "claim", "dispatch", "await",
            "verify", "reconcile", "save"}
Requests == {"none", "sent", "checked", "refused", "lost", "applied"}

IsResume(a) == Kind[a] \in {"resume_failed", "resume_explicit"}
Latest == IF runs = <<>> THEN "missing" ELSE runs[Len(runs)]

(* PreconditionService.capture: the queue, and the configuration of the     *)
(* task when the action names one; submit_task has no target yet.  Airflow  *)
(* runs are not part of it.                                                 *)
Precondition(a) == [queue |-> created,
                    config |-> IF Kind[a] = "submit_task" THEN {} ELSE {config}]

Unbuilt == [stage |-> "new", before |-> 0, latest |-> "missing",
            pre |-> [queue |-> {}, config |-> {}]]

Init == /\ config \in Configs
        /\ created = {}
        /\ runs \in {<<>>} \cup {<<s>> : s \in RunStates} /\ Len(runs) <= MaxRuns
        /\ frozen = [a \in Actions |-> Unbuilt]
        /\ approvals = {}
        /\ store = [a \in Actions |-> NoRow]
        /\ pc = [e \in Execs |-> "idle"]
        /\ act = [e \in Execs |-> NoAction]
        /\ base = [e \in Execs |-> 0]
        /\ out = [e \in Execs |-> NoResult]
        /\ req = [e \in Execs |-> "none"]

-----------------------------------------------------------------------------
(* PendingActionFactory.build and the review.                               *)

Build(a, stage, before, latest, pre) ==
    /\ frozen' = [frozen EXCEPT ![a] = [stage |-> stage, before |-> before,
                                        latest |-> latest, pre |-> pre]]
    /\ UNCHANGED <<platform, approvals, store, pc, act, base, out, req>>

(* A resume without explicit datasets resolves the failed ones from the     *)
(* snapshot that is also its baseline; nothing failed, nothing to review.   *)
ResolveFailedTargets(a) ==
    /\ frozen[a].stage = "new" /\ Kind[a] = "resume_failed"
    /\ Latest = "failed"
    /\ Build(a, "observed", Len(runs), Latest, frozen[a].pre)

CapturePrecondition(a) ==
    /\ frozen[a].stage = IF Kind[a] = "resume_failed" THEN "observed" ELSE "new"
    /\ Build(a, IF Kind[a] = "resume_explicit" THEN "captured" ELSE "frozen",
             frozen[a].before, frozen[a].latest, Precondition(a))

(* An explicit resume reads its baseline after the precondition.            *)
ObserveBaseline(a) ==
    /\ frozen[a].stage = "captured"
    /\ Build(a, "frozen", Len(runs), Latest, frozen[a].pre)

Approve(a) ==
    /\ frozen[a].stage = "frozen" /\ a \notin approvals
    /\ approvals' = approvals \cup {a}
    /\ UNCHANGED <<platform, frozen, store, pc, act, base, out, req>>

-----------------------------------------------------------------------------
(* One execution of WriteService.execute.                                   *)

Goto(e, label) == pc' = [pc EXCEPT ![e] = label]

Finish(e, result) == /\ out' = [out EXCEPT ![e] = result]
                     /\ Goto(e, "done")

(* _remember: the result is computed now and written after the next await.  *)
Conclude(e, result) == /\ out' = [out EXCEPT ![e] = result]
                       /\ Goto(e, "save")

(* A reviewer's fingerprint that is not compared, or a baseline that is not *)
(* bound to the approval.                                                   *)
ValidatedWithoutApproval(c, s, g, b) == /\ s = c
                                        /\ IsResume(c) => b = frozen[c].before
ValidatedWithoutBaseline(c, s, g, b) == s = c /\ g = c

(* _validate_approval and _validate_bound_before_snapshot: the checkpointed *)
(* action has content c, stored fingerprint s and run baseline b; the       *)
(* reviewer's fingerprint is g.  before_sha256 binds b for resumes only.    *)
(* A mismatch raises PermissionError.                                       *)
Validated(c, s, g, b) == /\ s = c /\ g = c
                         /\ IsResume(c) => b = frozen[c].before

Begin(e, c, s, g, b) ==
    /\ pc[e] = "idle" /\ frozen[c].stage = "frozen"
    /\ IF Validated(c, s, g, b)
       THEN /\ Goto(e, "lookup")
            /\ act' = [act EXCEPT ![e] = c]
            /\ base' = [base EXCEPT ![e] = b]
       ELSE Goto(e, "blocked") /\ UNCHANGED <<act, base>>
    /\ UNCHANGED <<platform, proposal, store, out, req>>

(* A lookup that reconciles every row, definitive ones included.            *)
LookupReconcilesAll(e) ==
    /\ pc[e] = "lookup"
    /\ Goto(e, IF store[act[e]] = NoRow THEN "precheck" ELSE "reconcile")
    /\ UNCHANGED <<platform, proposal, store, act, base, out, req>>

(* execution_store.get: a definitive row is the answer, an UNKNOWN_OUTCOME  *)
(* or DISPATCHING row is reconciled by reading, no row goes on.             *)
Lookup(e) ==
    /\ pc[e] = "lookup"
    /\ \/ /\ store[act[e]] \in Definitive
          /\ Finish(e, store[act[e]])
       \/ /\ store[act[e]] \in {"DISPATCHING", "UNKNOWN_OUTCOME"}
          /\ Goto(e, "reconcile") /\ UNCHANGED out
       \/ /\ store[act[e]] = NoRow
          /\ Goto(e, "precheck") /\ UNCHANGED out
    /\ UNCHANGED <<platform, proposal, store, act, base, req>>

(* The global precondition is read again; a difference ends the execution   *)
(* with a PRECONDITION_FAILED that is audited but not persisted.            *)
Precheck(e) ==
    /\ pc[e] = "precheck"
    /\ IF Precondition(act[e]) # frozen[act[e]].pre
       THEN Finish(e, "PRECONDITION_FAILED")
       ELSE /\ Goto(e, IF IsResume(act[e]) THEN "revalidate" ELSE "claim")
            /\ UNCHANGED out
    /\ UNCHANGED <<platform, proposal, store, act, base, req>>

(* _revalidate_action_precondition: targets resolved as failed must still   *)
(* be failed, explicit targets must have the latest run seen at review.     *)
Admissible(e) ==
    IF Kind[act[e]] = "resume_failed" THEN Latest = "failed"
    ELSE /\ Len(runs) = frozen[act[e]].before
         /\ Latest = frozen[act[e]].latest

Revalidate(e) ==
    /\ pc[e] = "revalidate"
    /\ \/ Admissible(e) /\ Goto(e, "claim") /\ UNCHANGED out
       \/ ~Admissible(e) /\ Finish(e, "PRECONDITION_FAILED")
    /\ UNCHANGED <<platform, proposal, store, act, base, req>>

(* A failed or incomplete revalidation read is a refusal.                   *)
RevalidationReadFails(e) ==
    /\ pc[e] = "revalidate"
    /\ Finish(e, "PRECONDITION_FAILED")
    /\ UNCHANGED <<platform, proposal, store, act, base, req>>

(* Claims gone wrong: INSERT OR REPLACE lets a second execution through; a  *)
(* loser returns the row without a result.                                  *)
ClaimReplaces(e) ==
    /\ pc[e] = "claim"
    /\ store' = [store EXCEPT ![act[e]] = "DISPATCHING"]
    /\ Goto(e, "dispatch")
    /\ UNCHANGED <<platform, proposal, act, base, out, req>>

ClaimReturnsBareRow(e) ==
    /\ pc[e] = "claim"
    /\ \/ /\ store[act[e]] = NoRow
          /\ store' = [store EXCEPT ![act[e]] = "DISPATCHING"]
          /\ Goto(e, "dispatch") /\ UNCHANGED out
       \/ /\ store[act[e]] # NoRow
          /\ Finish(e, store[act[e]]) /\ UNCHANGED store
    /\ UNCHANGED <<platform, proposal, act, base, req>>

(* execution_store.claim: one transaction.  The loser returns the result it *)
(* found, UNKNOWN_OUTCOME included, or reconciles a row without one.        *)
Claim(e) ==
    /\ pc[e] = "claim"
    /\ \/ /\ store[act[e]] = NoRow
          /\ store' = [store EXCEPT ![act[e]] = "DISPATCHING"]
          /\ Goto(e, "dispatch") /\ UNCHANGED out
       \/ /\ store[act[e]] = "DISPATCHING"
          /\ Goto(e, "reconcile") /\ UNCHANGED <<store, out>>
       \/ /\ store[act[e]] \in Persisted
          /\ Finish(e, store[act[e]]) /\ UNCHANGED store
    /\ UNCHANGED <<platform, proposal, act, base, req>>

(* The one mutation attempt: runtime_mcp.call_tool(action, args).           *)
Dispatch(e) ==
    /\ pc[e] = "dispatch"
    /\ req' = [req EXCEPT ![e] = "sent"]
    /\ Goto(e, "await")
    /\ UNCHANGED <<platform, proposal, store, act, base, out>>

ReplyOk(e) ==
    /\ pc[e] = "await" /\ req[e] = "applied"
    /\ Goto(e, "verify")
    /\ UNCHANGED <<platform, proposal, store, act, base, out, req>>

(* A retry of the mutation after an error.                                  *)
ReplyErrorRetries(e) ==
    /\ pc[e] = "await"
    /\ Goto(e, "dispatch")
    /\ UNCHANGED <<platform, proposal, store, act, base, out, req>>

(* Any exception of the call: refusal by the platform, a broken transport,  *)
(* a reply lost before or after the effect.  The mutation is not retried.   *)
ReplyError(e) ==
    /\ pc[e] = "await"
    /\ Goto(e, "reconcile")
    /\ UNCHANGED <<platform, proposal, store, act, base, out, req>>

(* A baseline that is off by one: the last run of the approved snapshot     *)
(* counts as new.                                                           *)
ObservedHistory(e, named) ==
    /\ IsResume(act[e])
    /\ \E i \in DOMAIN runs : i >= base[e] /\ runs[i] \in ProgressStates

(* VerificationService.verify.  submit_task can only be looked for under    *)
(* the task name of the reply; a resume must show a new run in progress.    *)
Observed(e, named) ==
    \/ /\ Kind[act[e]] = "set_task_priority"
       /\ config = Want[act[e]]
    \/ /\ Kind[act[e]] = "submit_task"
       /\ named /\ act[e] \in created
    \/ /\ IsResume(act[e])
       /\ \E i \in DOMAIN runs : i > base[e] /\ runs[i] \in ProgressStates

(* A read that raises, or a snapshot with critical errors, verifies nothing. *)
Verify(e) ==
    /\ pc[e] = "verify"
    /\ \/ Observed(e, TRUE) /\ Conclude(e, "VERIFIED")
       \/ Conclude(e, "VERIFICATION_FAILED")
    /\ UNCHANGED <<platform, proposal, store, act, base, req>>

(* A reconciliation that starts over until it sees the effect.              *)
ReconcileStartsOver(e) ==
    /\ pc[e] = "reconcile"
    /\ \/ Observed(e, FALSE) /\ Conclude(e, "VERIFIED")
       \/ Goto(e, "lookup") /\ UNCHANGED out
    /\ UNCHANGED <<platform, proposal, store, act, base, req>>

(* _reconcile_unknown reads with raw = {}: no task name is known.           *)
Reconcile(e) ==
    /\ pc[e] = "reconcile"
    /\ \/ Observed(e, FALSE) /\ Conclude(e, "VERIFIED")
       \/ Conclude(e, "UNKNOWN_OUTCOME")
    /\ UNCHANGED <<platform, proposal, store, act, base, req>>

(* execution_store.save_result: an unconditional UPDATE of the row.  The    *)
(* audit record that follows may fail, and the caller gets that instead.    *)
SaveResult(e) ==
    /\ pc[e] = "save"
    /\ store' = [store EXCEPT ![act[e]] = out[e]]
    /\ Goto(e, "done") \/ Goto(e, "raised")
    /\ UNCHANGED <<platform, proposal, act, base, out, req>>

(* The precondition read, the store calls and the audit records between     *)
(* them are not guarded: what they raise leaves execute at once, even       *)
(* between the claim and the dispatch.                                      *)
Raise(e) ==
    /\ pc[e] \in {"lookup", "precheck", "revalidate", "claim", "dispatch", "save"}
    /\ Goto(e, "raised")
    /\ UNCHANGED <<platform, proposal, store, act, base, out, req>>

Crash ==
    /\ \E e \in Execs : pc[e] \in Running
    /\ pc' = [e \in Execs |-> IF pc[e] \in Running THEN "dead" ELSE pc[e]]
    /\ UNCHANGED <<platform, proposal, store, act, base, out, req>>

-----------------------------------------------------------------------------
(* The platform: PlatformMutationService checks the precondition and then   *)
(* calls the gateway, in two steps that other users can come between.       *)

AssertPrecondition(e) ==
    /\ req[e] = "sent"
    /\ req' = [req EXCEPT ![e] =
            IF Precondition(act[e]) = frozen[act[e]].pre THEN "checked" ELSE "refused"]
    /\ UNCHANGED <<platform, proposal, store, pc, act, base, out>>

Mutate(e) ==
    /\ req[e] = "checked"
    /\ \/ /\ Kind[act[e]] = "set_task_priority"
          /\ config' = Want[act[e]] /\ UNCHANGED <<created, runs>>
       \/ /\ Kind[act[e]] = "submit_task"
          /\ created' = created \cup {act[e]} /\ UNCHANGED <<config, runs>>
       \/ /\ IsResume(act[e]) /\ Len(runs) < MaxRuns
          /\ runs' = Append(runs, "running") /\ UNCHANGED <<config, created>>
    /\ req' = [req EXCEPT ![e] = "applied"]
    /\ UNCHANGED <<proposal, store, pc, act, base, out>>

(* The request or the platform's worker is lost before the effect, or the   *)
(* gateway raises before it.                                                *)
LoseRequest(e) ==
    /\ req[e] \in {"sent", "checked"}
    /\ req' = [req EXCEPT ![e] = "lost"]
    /\ UNCHANGED <<platform, proposal, store, pc, act, base, out>>

-----------------------------------------------------------------------------
(* Other users of the platform, and Airflow.                                *)

OthersReconfigure(v) ==
    /\ config # v
    /\ config' = v
    /\ UNCHANGED <<created, runs, proposal, store, pc, act, base, out, req>>

OthersRemove(a) ==
    /\ a \in created
    /\ created' = created \ {a}
    /\ UNCHANGED <<config, runs, proposal, store, pc, act, base, out, req>>

OthersTrigger ==
    /\ Len(runs) < MaxRuns
    /\ runs' = Append(runs, "running")
    /\ UNCHANGED <<config, created, proposal, store, pc, act, base, out, req>>

RunEnds(s) ==
    /\ Latest = "running"
    /\ runs' = [runs EXCEPT ![Len(runs)] = s]
    /\ UNCHANGED <<config, created, proposal, store, pc, act, base, out, req>>

-----------------------------------------------------------------------------
Propose(a) == ResolveFailedTargets(a) \/ CapturePrecondition(a) \/ ObserveBaseline(a)

Step(e) == \/ Lookup(e) \/ Precheck(e) \/ Revalidate(e) \/ RevalidationReadFails(e)
           \/ Claim(e) \/ Dispatch(e) \/ ReplyOk(e) \/ ReplyError(e)
           \/ Verify(e) \/ Reconcile(e) \/ SaveResult(e) \/ Raise(e)

Serve(e) == AssertPrecondition(e) \/ Mutate(e) \/ LoseRequest(e)

Others == \/ \E v \in Configs : OthersReconfigure(v)
          \/ \E a \in Actions : OthersRemove(a)
          \/ OthersTrigger
          \/ \E s \in {"success", "failed"} : RunEnds(s)

Next == \/ \E a \in Actions : Propose(a) \/ Approve(a)
        \/ \E e \in Execs, c, s \in Actions, g \in approvals \cup {NoAction},
              b \in 0..MaxRuns : Begin(e, c, s, g, b)
        \/ \E e \in Execs : Step(e) \/ Serve(e)
        \/ Crash
        \/ Others

Spec == Init /\ [][Next]_vars

(* An execution that has begun is scheduled by the event loop until it      *)
(* returns, and every call of the MCP client and of SQLite returns or       *)
(* raises.  Reviewers, other users and crashes owe nothing.                 *)
FairSpec == Spec /\ \A e \in Execs : WF_vars(Step(e))

-----------------------------------------------------------------------------
(* Correctness.                                                             *)

PendingActions == [stage: {"new", "observed", "captured", "frozen"},
                   before: 0..MaxRuns, latest: RunStates \cup {"missing"},
                   pre: [queue: SUBSET Actions, config: SUBSET Configs]]

(* Every variable keeps its type.                                           *)
TypeOK == /\ config \in Configs
          /\ created \subseteq Actions
          /\ runs \in Seq(RunStates) /\ Len(runs) <= MaxRuns
          /\ frozen \in [Actions -> PendingActions]
          /\ approvals \subseteq Actions
          /\ store \in [Actions -> Persisted \cup {NoRow, "DISPATCHING"}]
          /\ pc \in [Execs -> Running \cup Final \cup {"idle"}]
          /\ act \in [Execs -> Actions \cup {NoAction}]
          /\ base \in [Execs -> 0..MaxRuns]
          /\ out \in [Execs -> Persisted \cup {NoResult, "PRECONDITION_FAILED"}]
          /\ req \in [Execs -> Requests]

Attempted(e) == req[e] # "none"

(* README section 7: at most one mutation attempt per approved fingerprint, *)
(* over all executions, whatever crashed, was lost or was approved twice.   *)
AtMostOneAttempt ==
    \A e, f \in Execs :
        Attempted(e) /\ Attempted(f) /\ act[e] = act[f] => e = f

(* No request reaches the wire unless a reviewer approved exactly the       *)
(* content it carries and the store already holds a row for it, so that a   *)
(* restart finds evidence of whatever may have happened to the platform.    *)
AttemptIsApprovedAndRecorded ==
    \A e \in Execs : Attempted(e) => /\ act[e] \in approvals
                                     /\ store[act[e]] # NoRow

(* A resume is reported VERIFIED only if the dataset has a DagRun that did  *)
(* not exist when the action was frozen: history is no evidence, and a      *)
(* baseline altered after the freeze is not used.                           *)
ResumeVerifiedHasNewRun ==
    \A e \in Execs : /\ out[e] = "VERIFIED"
                     /\ IsResume(act[e])
                     => Len(runs) > frozen[act[e]].before

(* An outcome handed to a caller survives: its row exists and never falls   *)
(* back to DISPATCHING.  PRECONDITION_FAILED is the one result not stored.  *)
ReturnedOutcomeIsDurable ==
    \A e \in Execs : pc[e] = "done" /\ out[e] \in Persisted
                     => store[act[e]] \in Persisted

Quiet(a) == \A e \in Execs : act[e] = a => pc[e] \in Final

(* Once no execution of an action is under way and its row is definitive,   *)
(* no later execution, retry or recovery changes the row again.             *)
DefinitiveRowIsFinal ==
    \A a \in Actions, s \in Definitive :
        [](Quiet(a) /\ store[a] = s => [](store[a] = s))

(* An execution that began returns, raises or dies with its process: no     *)
(* race for the claim and no lost reply leaves it waiting.                  *)
ExecutionsEnd ==
    \A e \in Execs : pc[e] = "lookup" ~> pc[e] \in Final

(* The inductive invariant behind the theorems of WriteServiceProofs.       *)
(* Control: what an execution has established when it reaches a label.      *)
Control(e) ==
    /\ act[e] = NoAction <=> pc[e] \in {"idle", "blocked"}
    /\ act[e] = NoAction => out[e] = NoResult
    /\ act[e] # NoAction => act[e] \in approvals
    /\ act[e] # NoAction /\ IsResume(act[e]) => base[e] = frozen[act[e]].before
    /\ pc[e] \in {"idle", "blocked", "lookup", "precheck", "revalidate", "claim",
                  "dispatch"} => ~Attempted(e)
    /\ pc[e] \in {"dispatch", "await", "verify", "reconcile", "save"}
           => store[act[e]] # NoRow
    /\ pc[e] = "save" => out[e] \in Persisted
    /\ Attempted(e) => act[e] # NoAction /\ store[act[e]] # NoRow

(* Ownership: the right to attempt the mutation has at most one holder.     *)
Owns(e) == pc[e] = "dispatch" \/ Attempted(e)
OneOwner == \A e, f \in Execs : Owns(e) /\ Owns(f) /\ act[e] = act[f] => e = f

(* Evidence: what a VERIFIED resume saw stays in the platform's history.    *)
NewRunExists(a) == Len(runs) > frozen[a].before
Evidence == /\ \A e \in Execs : out[e] = "VERIFIED" /\ IsResume(act[e])
                                => NewRunExists(act[e])
            /\ \A a \in Actions : store[a] = "VERIFIED" /\ IsResume(a)
                                  => NewRunExists(a)

FrozenBeforeUse == /\ \A a \in approvals : frozen[a].stage = "frozen"
                   /\ \A a \in Actions : store[a] # NoRow => a \in approvals

IInv == /\ TypeOK
        /\ \A e \in Execs : Control(e)
        /\ OneOwner
        /\ Evidence
        /\ FrozenBeforeUse
        /\ ReturnedOutcomeIsDurable

(* WriteService implements the abstract ledger.                             *)
Ledger == INSTANCE MutationLedger WITH
    Attempts  <- Execs,
    row       <- [a \in Actions |-> IF store[a] = NoRow THEN "absent"
                                    ELSE IF store[a] = "DISPATCHING" THEN "open"
                                    ELSE "answered"],
    attempted <- [a \in Actions |-> {e \in Execs : act[e] = a /\ Attempted(e)}],
    effects   <- [a \in Actions |-> {e \in Execs : act[e] = a /\ req[e] = "applied"}]

(* Every step of the service is a step of the ledger, or none.              *)
ImplementsLedger == Ledger!Spec

(* verification.py, lines 15-16: verification proves the business effect of *)
(* this approved action: a step that answers VERIFIED, for a value that the *)
(* task did not have when the action was frozen, finds that its request was *)
(* not lost before its effect.                                              *)
VerifiedMeansOwnEffect ==
    [][\A e, f \in Execs :
         /\ out[e] # "VERIFIED" /\ out'[e] = "VERIFIED"
         /\ Want[act[e]] \notin frozen[act[e]].pre.config
         /\ act[f] = act[e]
         => req[f] # "lost"]_vars

(* final_guard.py, lines 32-33: after PRECONDITION_FAILED the approved      *)
(* write was not executed.                                                  *)
PreconditionFailedMeansNotExecuted ==
    \A e, f \in Execs : out[e] = "PRECONDITION_FAILED" /\ act[f] = act[e]
                        => req[f] # "applied"
=============================================================================
