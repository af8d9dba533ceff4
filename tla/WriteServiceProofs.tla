------------------------- MODULE WriteServiceProofs -------------------------
(***************************************************************************)
(* Proofs about WriteService for any executions, actions, kinds and any    *)
(* bound on the runs.                                                      *)
(***************************************************************************)
EXTENDS WriteService, TLAPS

USE DEF Definitive, Persisted, Final, Running, Requests, NoRow, NoResult,
        Kinds, RunStates, ProgressStates, IsResume, platform, proposal

-----------------------------------------------------------------------------
(* The initial state.                                                       *)

LEMMA InitIInv == Init => IInv
  <1> SUFFICES ASSUME Init PROVE IInv
    OBVIOUS
  <1>1. runs \in Seq(RunStates) /\ Len(runs) <= MaxRuns
    <2>1. CASE runs = <<>>
      BY <2>1, ConstantsAssumption
    <2>2. ASSUME NEW s \in RunStates, runs = <<s>>
          PROVE  runs \in Seq(RunStates)
      BY <2>2
    <2> QED
      BY <2>1, <2>2 DEF Init
  <1>2. Unbuilt \in PendingActions
    BY ConstantsAssumption DEF Unbuilt, PendingActions
  <1>3. TypeOK
    BY <1>1, <1>2, ConstantsAssumption DEF Init, TypeOK
  <1>4. \A e \in Execs : Control(e)
    BY DEF Init, Control, Attempted
  <1>5. OneOwner /\ Evidence /\ FrozenBeforeUse /\ ReturnedOutcomeIsDurable
    BY DEF Init, OneOwner, Owns, Attempted, Evidence, FrozenBeforeUse,
           ReturnedOutcomeIsDurable
  <1> QED
    BY <1>3, <1>4, <1>5 DEF IInv

-----------------------------------------------------------------------------
(* Building and approving actions.                                          *)

LEMMA LatestType == TypeOK => Latest \in RunStates \cup {"missing"}
  BY DEF TypeOK, Latest

LEMMA PreconditionType ==
  ASSUME TypeOK, NEW a \in Actions
  PROVE  Precondition(a) \in [queue: SUBSET Actions, config: SUBSET Configs]
  BY DEF TypeOK, Precondition

(* A step of the factory changes one action that nobody uses yet.           *)
LEMMA ProposeChangesUnusedAction ==
  ASSUME IInv, NEW a \in Actions, Propose(a)
  PROVE  /\ a \notin approvals /\ store[a] = NoRow
         /\ frozen' \in [Actions -> PendingActions]
         /\ \A b \in Actions \ {a} : frozen'[b] = frozen[b]
         /\ UNCHANGED <<platform, approvals, store, pc, act, base, out, req>>
  <1>0. frozen[a] \in PendingActions /\ Len(runs) \in 0..MaxRuns
    BY DEF IInv, TypeOK
  <1>1. frozen[a].stage # "frozen"
    BY DEF Propose, ResolveFailedTargets, CapturePrecondition, ObserveBaseline
  <1>2. a \notin approvals /\ store[a] = NoRow
    BY <1>1 DEF IInv, FrozenBeforeUse
  <1>3. CASE ResolveFailedTargets(a)
    BY <1>0, <1>2, <1>3, LatestType
       DEF IInv, TypeOK, PendingActions, ResolveFailedTargets, Build
  <1>4. CASE CapturePrecondition(a)
    BY <1>0, <1>2, <1>4, PreconditionType
       DEF IInv, TypeOK, PendingActions, CapturePrecondition, Build
  <1>5. CASE ObserveBaseline(a)
    BY <1>0, <1>2, <1>5, LatestType
       DEF IInv, TypeOK, PendingActions, ObserveBaseline, Build
  <1> QED
    BY <1>3, <1>4, <1>5 DEF Propose

LEMMA ProposePreservesIInv ==
  ASSUME IInv, NEW a \in Actions, Propose(a)
  PROVE  IInv'
  <1>0. /\ a \notin approvals /\ store[a] = NoRow
        /\ frozen' \in [Actions -> PendingActions]
        /\ \A b \in Actions \ {a} : frozen'[b] = frozen[b]
        /\ UNCHANGED <<platform, approvals, store, pc, act, base, out, req>>
    BY ProposeChangesUnusedAction
  <1>1. TypeOK'
    BY <1>0 DEF IInv, TypeOK
  <1>2. ASSUME NEW e \in Execs PROVE Control(e)'
    <2>1. Control(e) /\ act[e] # a
      BY <1>0, ConstantsAssumption DEF IInv, Control, TypeOK
    <2> QED
      BY <1>0, <2>1 DEF IInv, TypeOK, Control, Attempted
  <1>3. OneOwner' /\ ReturnedOutcomeIsDurable'
    BY <1>0 DEF IInv, OneOwner, Owns, Attempted, ReturnedOutcomeIsDurable
  <1>4. \A e \in Execs : out[e] = "VERIFIED" => act[e] \in approvals
    BY DEF IInv, TypeOK, Control
  <1>5. Evidence'
    BY <1>0, <1>4 DEF IInv, TypeOK, Evidence, NewRunExists, FrozenBeforeUse
  <1>6. FrozenBeforeUse'
    BY <1>0 DEF IInv, TypeOK, FrozenBeforeUse
  <1> QED
    BY <1>1, <1>2, <1>3, <1>5, <1>6 DEF IInv

LEMMA ApprovePreservesIInv ==
  ASSUME IInv, NEW a \in Actions, Approve(a)
  PROVE  IInv'
  <1> USE DEF Approve
  <1>1. TypeOK'
    BY DEF IInv, TypeOK
  <1>2. ASSUME NEW e \in Execs PROVE Control(e)'
    BY DEF IInv, TypeOK, Control, Attempted
  <1>3. OneOwner' /\ ReturnedOutcomeIsDurable'
    BY DEF IInv, OneOwner, Owns, Attempted, ReturnedOutcomeIsDurable
  <1>4. Evidence' /\ FrozenBeforeUse'
    BY DEF IInv, TypeOK, Evidence, NewRunExists, FrozenBeforeUse
  <1> QED
    BY <1>1, <1>2, <1>3, <1>4 DEF IInv

-----------------------------------------------------------------------------
(* The steps of an execution, of the platform that serves its request, and  *)
(* of everybody else.  Each lemma goes through the parts of IInv.           *)

LEMMA BeginPreservesIInv ==
  ASSUME IInv, NEW e \in Execs, NEW c \in Actions, NEW s \in Actions,
         NEW g \in approvals \cup {NoAction}, NEW b \in 0..MaxRuns,
         Begin(e, c, s, g, b)
  PROVE  IInv'
  <1> USE DEF Begin, Goto
  <1>0. act[e] = NoAction /\ ~Attempted(e) /\ out[e] = NoResult
    BY DEF IInv, Control
  <1>1. CASE Validated(c, s, g, b)
    <2>1. c \in approvals /\ c # NoAction /\ (IsResume(c) => b = frozen[c].before)
      BY <1>1, ConstantsAssumption DEF Validated
    <2>2. /\ pc' = [pc EXCEPT ![e] = "lookup"]
          /\ act' = [act EXCEPT ![e] = c]
          /\ base' = [base EXCEPT ![e] = b]
          /\ UNCHANGED <<platform, proposal, store, out, req>>
      BY <1>1
    <2> HIDE DEF Begin, IsResume
    <2>3. TypeOK'
      BY <2>2 DEF IInv, TypeOK
    <2>4. ASSUME NEW f \in Execs PROVE Control(f)'
      BY <1>0, <2>1, <2>2 DEF IInv, TypeOK, Control, Attempted
    <2>5. OneOwner' /\ ReturnedOutcomeIsDurable'
      BY <1>0, <2>2 DEF IInv, TypeOK, OneOwner, Owns, Attempted,
                        ReturnedOutcomeIsDurable
    <2>6. Evidence' /\ FrozenBeforeUse'
      BY <1>0, <2>2 DEF IInv, TypeOK, Evidence, NewRunExists, FrozenBeforeUse
    <2> QED
      BY <2>3, <2>4, <2>5, <2>6 DEF IInv
  <1>2. CASE ~Validated(c, s, g, b)
    <2>1. /\ pc' = [pc EXCEPT ![e] = "blocked"]
          /\ UNCHANGED <<platform, proposal, store, act, base, out, req>>
      BY <1>2
    <2> HIDE DEF Begin, IsResume
    <2>2. TypeOK'
      BY <2>1 DEF IInv, TypeOK
    <2>3. ASSUME NEW f \in Execs PROVE Control(f)'
      BY <1>0, <2>1 DEF IInv, TypeOK, Control, Attempted
    <2>4. OneOwner' /\ ReturnedOutcomeIsDurable'
      BY <2>1 DEF IInv, TypeOK, OneOwner, Owns, Attempted,
                  ReturnedOutcomeIsDurable
    <2>5. Evidence' /\ FrozenBeforeUse'
      BY <2>1 DEF IInv, Evidence, NewRunExists, FrozenBeforeUse
    <2> QED
      BY <2>2, <2>3, <2>4, <2>5 DEF IInv
  <1> QED
    BY <1>1, <1>2

LEMMA LookupPreservesIInv ==
  ASSUME IInv, NEW e \in Execs, Lookup(e)
  PROVE  IInv'
  <1>0. /\ act[e] \in Actions /\ act[e] # NoAction /\ pc[e] = "lookup"
        /\ UNCHANGED <<platform, proposal, store, act, base, req>>
    BY ConstantsAssumption DEF IInv, TypeOK, Control, Lookup
  <1>1. CASE store[act[e]] \in Definitive /\ Finish(e, store[act[e]])
    <2> USE DEF Finish, Goto
    <2>1. TypeOK'
      BY <1>0, <1>1 DEF IInv, TypeOK
    <2>2. ASSUME NEW f \in Execs PROVE Control(f)'
      BY <1>0, <1>1 DEF IInv, TypeOK, Control, Attempted
    <2>3. OneOwner' /\ ReturnedOutcomeIsDurable'
      BY <1>0, <1>1 DEF IInv, TypeOK, OneOwner, Owns, Attempted,
                        ReturnedOutcomeIsDurable
    <2>4. Evidence' /\ FrozenBeforeUse'
      BY <1>0, <1>1 DEF IInv, TypeOK, Evidence, NewRunExists, FrozenBeforeUse
    <2> QED
      BY <2>1, <2>2, <2>3, <2>4 DEF IInv
  <1>2. ASSUME NEW l \in {"reconcile", "precheck"}, Goto(e, l), UNCHANGED out,
               l = "reconcile" => store[act[e]] # NoRow
        PROVE  IInv'
    <2> USE DEF Goto
    <2>1. TypeOK'
      BY <1>0, <1>2 DEF IInv, TypeOK
    <2>2. ASSUME NEW f \in Execs PROVE Control(f)'
      BY <1>0, <1>2 DEF IInv, TypeOK, Control, Attempted
    <2>3. OneOwner' /\ ReturnedOutcomeIsDurable'
      BY <1>0, <1>2 DEF IInv, TypeOK, OneOwner, Owns, Attempted,
                        ReturnedOutcomeIsDurable
    <2>4. Evidence' /\ FrozenBeforeUse'
      BY <1>0, <1>2 DEF IInv, Evidence, NewRunExists, FrozenBeforeUse
    <2> QED
      BY <2>1, <2>2, <2>3, <2>4 DEF IInv
  <1> QED
    BY <1>1, <1>2 DEF Lookup

LEMMA PrecheckPreservesIInv ==
  ASSUME IInv, NEW e \in Execs, Precheck(e)
  PROVE  IInv'
  <1> USE DEF Precheck, Finish, Goto
  <1>1. TypeOK'
    BY DEF IInv, TypeOK
  <1>2. ASSUME NEW f \in Execs PROVE Control(f)'
    BY DEF IInv, TypeOK, Control, Attempted, FrozenBeforeUse
  <1>3. OneOwner'
    BY DEF IInv, TypeOK, Control, OneOwner, Owns, Attempted
  <1>4. ReturnedOutcomeIsDurable'
    BY DEF IInv, TypeOK, Control, ReturnedOutcomeIsDurable
  <1>5. Evidence' /\ FrozenBeforeUse'
    BY DEF IInv, TypeOK, Control, Evidence, NewRunExists, FrozenBeforeUse
  <1> QED
    BY <1>1, <1>2, <1>3, <1>4, <1>5 DEF IInv

LEMMA RevalidatePreservesIInv ==
  ASSUME IInv, NEW e \in Execs, Revalidate(e)
  PROVE  IInv'
  <1> USE DEF Revalidate, Finish, Goto
  <1>1. TypeOK'
    BY DEF IInv, TypeOK
  <1>2. ASSUME NEW f \in Execs PROVE Control(f)'
    BY DEF IInv, TypeOK, Control, Attempted, FrozenBeforeUse
  <1>3. OneOwner'
    BY DEF IInv, TypeOK, Control, OneOwner, Owns, Attempted
  <1>4. ReturnedOutcomeIsDurable'
    BY DEF IInv, TypeOK, Control, ReturnedOutcomeIsDurable
  <1>5. Evidence' /\ FrozenBeforeUse'
    BY DEF IInv, TypeOK, Control, Evidence, NewRunExists, FrozenBeforeUse
  <1> QED
    BY <1>1, <1>2, <1>3, <1>4, <1>5 DEF IInv

LEMMA RevalidationReadFailsPreservesIInv ==
  ASSUME IInv, NEW e \in Execs, RevalidationReadFails(e)
  PROVE  IInv'
  <1> USE DEF RevalidationReadFails, Finish, Goto
  <1>1. TypeOK'
    BY DEF IInv, TypeOK
  <1>2. ASSUME NEW f \in Execs PROVE Control(f)'
    BY DEF IInv, TypeOK, Control, Attempted, FrozenBeforeUse
  <1>3. OneOwner'
    BY DEF IInv, TypeOK, Control, OneOwner, Owns, Attempted
  <1>4. ReturnedOutcomeIsDurable'
    BY DEF IInv, TypeOK, Control, ReturnedOutcomeIsDurable
  <1>5. Evidence' /\ FrozenBeforeUse'
    BY DEF IInv, TypeOK, Control, Evidence, NewRunExists, FrozenBeforeUse
  <1> QED
    BY <1>1, <1>2, <1>3, <1>4, <1>5 DEF IInv

LEMMA ClaimPreservesIInv ==
  ASSUME IInv, NEW e \in Execs, Claim(e)
  PROVE  IInv'
  <1> USE DEF Claim, Finish, Goto
  <1>1. TypeOK'
    BY DEF IInv, TypeOK
  <1>2. ASSUME NEW f \in Execs PROVE Control(f)'
    BY DEF IInv, TypeOK, Control, Attempted, FrozenBeforeUse
  <1>3. OneOwner'
    BY DEF IInv, TypeOK, Control, OneOwner, Owns, Attempted
  <1>4. ReturnedOutcomeIsDurable'
    BY DEF IInv, TypeOK, Control, ReturnedOutcomeIsDurable
  <1>5. Evidence' /\ FrozenBeforeUse'
    BY DEF IInv, TypeOK, Control, Evidence, NewRunExists, FrozenBeforeUse
  <1> QED
    BY <1>1, <1>2, <1>3, <1>4, <1>5 DEF IInv

LEMMA DispatchPreservesIInv ==
  ASSUME IInv, NEW e \in Execs, Dispatch(e)
  PROVE  IInv'
  <1> USE DEF Dispatch, Goto
  <1>1. TypeOK'
    BY DEF IInv, TypeOK
  <1>2. ASSUME NEW f \in Execs PROVE Control(f)'
    BY DEF IInv, TypeOK, Control, Attempted, FrozenBeforeUse
  <1>3. OneOwner'
    BY DEF IInv, TypeOK, Control, OneOwner, Owns, Attempted
  <1>4. ReturnedOutcomeIsDurable'
    BY DEF IInv, TypeOK, Control, ReturnedOutcomeIsDurable
  <1>5. Evidence' /\ FrozenBeforeUse'
    BY DEF IInv, TypeOK, Control, Evidence, NewRunExists, FrozenBeforeUse
  <1> QED
    BY <1>1, <1>2, <1>3, <1>4, <1>5 DEF IInv

LEMMA ReplyOkPreservesIInv ==
  ASSUME IInv, NEW e \in Execs, ReplyOk(e)
  PROVE  IInv'
  <1> USE DEF ReplyOk, Goto
  <1>1. TypeOK'
    BY DEF IInv, TypeOK
  <1>2. ASSUME NEW f \in Execs PROVE Control(f)'
    BY DEF IInv, TypeOK, Control, Attempted, FrozenBeforeUse
  <1>3. OneOwner'
    BY DEF IInv, TypeOK, Control, OneOwner, Owns, Attempted
  <1>4. ReturnedOutcomeIsDurable'
    BY DEF IInv, TypeOK, Control, ReturnedOutcomeIsDurable
  <1>5. Evidence' /\ FrozenBeforeUse'
    BY DEF IInv, TypeOK, Control, Evidence, NewRunExists, FrozenBeforeUse
  <1> QED
    BY <1>1, <1>2, <1>3, <1>4, <1>5 DEF IInv

LEMMA ReplyErrorPreservesIInv ==
  ASSUME IInv, NEW e \in Execs, ReplyError(e)
  PROVE  IInv'
  <1> USE DEF ReplyError, Goto
  <1>1. TypeOK'
    BY DEF IInv, TypeOK
  <1>2. ASSUME NEW f \in Execs PROVE Control(f)'
    BY DEF IInv, TypeOK, Control, Attempted, FrozenBeforeUse
  <1>3. OneOwner'
    BY DEF IInv, TypeOK, Control, OneOwner, Owns, Attempted
  <1>4. ReturnedOutcomeIsDurable'
    BY DEF IInv, TypeOK, Control, ReturnedOutcomeIsDurable
  <1>5. Evidence' /\ FrozenBeforeUse'
    BY DEF IInv, TypeOK, Control, Evidence, NewRunExists, FrozenBeforeUse
  <1> QED
    BY <1>1, <1>2, <1>3, <1>4, <1>5 DEF IInv

LEMMA VerifyPreservesIInv ==
  ASSUME IInv, NEW e \in Execs, Verify(e)
  PROVE  IInv'
  <1> USE DEF Verify, Conclude, Goto, Observed
  <1>1. TypeOK'
    BY DEF IInv, TypeOK
  <1>2. ASSUME NEW f \in Execs PROVE Control(f)'
    BY DEF IInv, TypeOK, Control, Attempted, FrozenBeforeUse
  <1>3. OneOwner'
    BY DEF IInv, TypeOK, Control, OneOwner, Owns, Attempted
  <1>4. ReturnedOutcomeIsDurable'
    <2> HIDE DEF Observed, IsResume
    <2>1. pc'[e] = "save" /\ UNCHANGED <<store, act>>
          /\ \A f \in Execs \ {e} : pc'[f] = pc[f] /\ out'[f] = out[f]
      BY DEF IInv, TypeOK
    <2> QED
      BY <2>1 DEF IInv, ReturnedOutcomeIsDurable
  <1>5. Evidence' /\ FrozenBeforeUse'
    BY DEF IInv, TypeOK, Control, Evidence, NewRunExists, FrozenBeforeUse
  <1> QED
    BY <1>1, <1>2, <1>3, <1>4, <1>5 DEF IInv

LEMMA ReconcilePreservesIInv ==
  ASSUME IInv, NEW e \in Execs, Reconcile(e)
  PROVE  IInv'
  <1> USE DEF Reconcile, Conclude, Goto, Observed
  <1>1. TypeOK'
    BY DEF IInv, TypeOK
  <1>2. ASSUME NEW f \in Execs PROVE Control(f)'
    BY DEF IInv, TypeOK, Control, Attempted, FrozenBeforeUse
  <1>3. OneOwner'
    BY DEF IInv, TypeOK, Control, OneOwner, Owns, Attempted
  <1>4. ReturnedOutcomeIsDurable'
    BY DEF IInv, TypeOK, Control, ReturnedOutcomeIsDurable
  <1>5. Evidence' /\ FrozenBeforeUse'
    BY DEF IInv, TypeOK, Control, Evidence, NewRunExists, FrozenBeforeUse
  <1> QED
    BY <1>1, <1>2, <1>3, <1>4, <1>5 DEF IInv

LEMMA SaveResultPreservesIInv ==
  ASSUME IInv, NEW e \in Execs, SaveResult(e)
  PROVE  IInv'
  <1> USE DEF SaveResult, Goto
  <1>0. act[e] \in Actions /\ out[e] \in Persisted
    BY DEF IInv, TypeOK, Control
  <1>1. TypeOK'
    BY <1>0 DEF IInv, TypeOK
  <1>2. ASSUME NEW f \in Execs PROVE Control(f)'
    BY DEF IInv, TypeOK, Control, Attempted, FrozenBeforeUse
  <1>3. OneOwner'
    BY DEF IInv, TypeOK, Control, OneOwner, Owns, Attempted
  <1>4. ReturnedOutcomeIsDurable'
    BY DEF IInv, TypeOK, Control, ReturnedOutcomeIsDurable
  <1>5. Evidence' /\ FrozenBeforeUse'
    BY DEF IInv, TypeOK, Control, Evidence, NewRunExists, FrozenBeforeUse
  <1> QED
    BY <1>1, <1>2, <1>3, <1>4, <1>5 DEF IInv

LEMMA RaisePreservesIInv ==
  ASSUME IInv, NEW e \in Execs, Raise(e)
  PROVE  IInv'
  <1> USE DEF Raise, Goto
  <1>1. TypeOK'
    BY DEF IInv, TypeOK
  <1>2. ASSUME NEW f \in Execs PROVE Control(f)'
    BY DEF IInv, TypeOK, Control, Attempted, FrozenBeforeUse
  <1>3. OneOwner'
    BY DEF IInv, TypeOK, Control, OneOwner, Owns, Attempted
  <1>4. ReturnedOutcomeIsDurable'
    BY DEF IInv, TypeOK, Control, ReturnedOutcomeIsDurable
  <1>5. Evidence' /\ FrozenBeforeUse'
    BY DEF IInv, TypeOK, Control, Evidence, NewRunExists, FrozenBeforeUse
  <1> QED
    BY <1>1, <1>2, <1>3, <1>4, <1>5 DEF IInv

LEMMA AssertPreconditionPreservesIInv ==
  ASSUME IInv, NEW e \in Execs, AssertPrecondition(e)
  PROVE  IInv'
  <1> USE DEF AssertPrecondition
  <1>1. TypeOK'
    BY DEF IInv, TypeOK
  <1>2. ASSUME NEW f \in Execs PROVE Control(f)'
    BY DEF IInv, TypeOK, Control, Attempted, FrozenBeforeUse
  <1>3. OneOwner'
    BY DEF IInv, TypeOK, Control, OneOwner, Owns, Attempted
  <1>4. ReturnedOutcomeIsDurable'
    BY DEF IInv, TypeOK, Control, ReturnedOutcomeIsDurable
  <1>5. Evidence' /\ FrozenBeforeUse'
    BY DEF IInv, TypeOK, Control, Evidence, NewRunExists, FrozenBeforeUse
  <1> QED
    BY <1>1, <1>2, <1>3, <1>4, <1>5 DEF IInv

(* A new run lengthens the history.                                         *)
LEMMA AppendRun ==
  ASSUME runs \in Seq(RunStates), MaxRuns \in Nat, Len(runs) < MaxRuns
  PROVE  /\ Append(runs, "running") \in Seq(RunStates)
         /\ Len(Append(runs, "running")) = Len(runs) + 1
         /\ Len(Append(runs, "running")) <= MaxRuns
  OBVIOUS

(* Evidence of a new run survives as long as the history does not shrink.   *)
LEMMA HistoryKeepsEvidence ==
  ASSUME IInv, UNCHANGED <<proposal, store, act, out>>,
         runs' \in Seq(RunStates), Len(runs') >= Len(runs)
  PROVE  Evidence'
  <1>1. ASSUME NEW a \in Actions, NewRunExists(a) PROVE NewRunExists(a)'
    <2>1. frozen[a].before \in 0..MaxRuns /\ MaxRuns \in Nat /\ Len(runs) \in Nat
          /\ Len(runs') \in Nat
      BY ConstantsAssumption DEF IInv, TypeOK, PendingActions
    <2> QED
      BY <1>1, <2>1 DEF NewRunExists
  <1>2. \A e \in Execs : out[e] = "VERIFIED" => act[e] \in Actions
    BY DEF IInv, TypeOK, Control
  <1> QED
    BY <1>1, <1>2 DEF IInv, Evidence

LEMMA MutatePreservesIInv ==
  ASSUME IInv, NEW e \in Execs, Mutate(e)
  PROVE  IInv'
  <1>0. act[e] \in Actions
    BY DEF IInv, TypeOK, Control, Attempted, Mutate
  <1>1. /\ config' \in Configs
        /\ created' \subseteq Actions
        /\ runs' \in Seq(RunStates)
        /\ Len(runs') >= Len(runs) /\ Len(runs') <= MaxRuns
    <2>0. runs \in Seq(RunStates) /\ Len(runs) <= MaxRuns /\ MaxRuns \in Nat
          /\ config \in Configs /\ created \subseteq Actions
      BY ConstantsAssumption DEF IInv, TypeOK
    <2>1. CASE config' = Want[act[e]] /\ UNCHANGED <<created, runs>>
      BY <1>0, <2>0, <2>1, ConstantsAssumption
    <2>2. CASE created' = created \cup {act[e]} /\ UNCHANGED <<config, runs>>
      BY <1>0, <2>0, <2>2
    <2>3. CASE Len(runs) < MaxRuns /\ runs' = Append(runs, "running")
               /\ UNCHANGED <<config, created>>
      BY <2>0, <2>3, AppendRun
    <2> QED
      BY <2>1, <2>2, <2>3 DEF Mutate
  <1>2. /\ req' = [req EXCEPT ![e] = "applied"] /\ Attempted(e)
        /\ UNCHANGED <<proposal, store, pc, act, base, out>>
    BY DEF Mutate, Attempted
  <1>3. TypeOK'
    BY <1>1, <1>2 DEF IInv, TypeOK
  <1>4. ASSUME NEW f \in Execs PROVE Control(f)'
    BY <1>2 DEF IInv, TypeOK, Control, Attempted
  <1>5. OneOwner' /\ ReturnedOutcomeIsDurable'
    BY <1>2 DEF IInv, TypeOK, OneOwner, Owns, Attempted, ReturnedOutcomeIsDurable
  <1>6. Evidence' /\ FrozenBeforeUse'
    BY <1>1, <1>2, HistoryKeepsEvidence DEF IInv, FrozenBeforeUse
  <1> QED
    BY <1>3, <1>4, <1>5, <1>6 DEF IInv

LEMMA LoseRequestPreservesIInv ==
  ASSUME IInv, NEW e \in Execs, LoseRequest(e)
  PROVE  IInv'
  <1> USE DEF LoseRequest
  <1>1. TypeOK'
    BY DEF IInv, TypeOK
  <1>2. ASSUME NEW f \in Execs PROVE Control(f)'
    BY DEF IInv, TypeOK, Control, Attempted, FrozenBeforeUse
  <1>3. OneOwner'
    BY DEF IInv, TypeOK, Control, OneOwner, Owns, Attempted
  <1>4. ReturnedOutcomeIsDurable'
    BY DEF IInv, TypeOK, Control, ReturnedOutcomeIsDurable
  <1>5. Evidence' /\ FrozenBeforeUse'
    BY DEF IInv, TypeOK, Control, Evidence, NewRunExists, FrozenBeforeUse
  <1> QED
    BY <1>1, <1>2, <1>3, <1>4, <1>5 DEF IInv

LEMMA CrashPreservesIInv ==
  ASSUME IInv, Crash
  PROVE  IInv'
  <1> USE DEF Crash
  <1>1. TypeOK'
    BY DEF IInv, TypeOK
  <1>2. ASSUME NEW f \in Execs PROVE Control(f)'
    BY DEF IInv, TypeOK, Control, Attempted, FrozenBeforeUse
  <1>3. OneOwner'
    BY DEF IInv, TypeOK, Control, OneOwner, Owns, Attempted
  <1>4. ReturnedOutcomeIsDurable'
    BY DEF IInv, TypeOK, Control, ReturnedOutcomeIsDurable
  <1>5. Evidence' /\ FrozenBeforeUse'
    BY DEF IInv, TypeOK, Control, Evidence, NewRunExists, FrozenBeforeUse
  <1> QED
    BY <1>1, <1>2, <1>3, <1>4, <1>5 DEF IInv

LEMMA OthersReconfigurePreservesIInv ==
  ASSUME IInv, NEW v \in Configs, OthersReconfigure(v)
  PROVE  IInv'
  <1> USE DEF OthersReconfigure
  <1>1. TypeOK'
    BY DEF IInv, TypeOK
  <1>2. ASSUME NEW f \in Execs PROVE Control(f)'
    BY DEF IInv, TypeOK, Control, Attempted, FrozenBeforeUse
  <1>3. OneOwner'
    BY DEF IInv, TypeOK, Control, OneOwner, Owns, Attempted
  <1>4. ReturnedOutcomeIsDurable'
    BY DEF IInv, TypeOK, Control, ReturnedOutcomeIsDurable
  <1>5. Evidence' /\ FrozenBeforeUse'
    BY DEF IInv, TypeOK, Control, Evidence, NewRunExists, FrozenBeforeUse
  <1> QED
    BY <1>1, <1>2, <1>3, <1>4, <1>5 DEF IInv

LEMMA OthersRemovePreservesIInv ==
  ASSUME IInv, NEW a \in Actions, OthersRemove(a)
  PROVE  IInv'
  <1> USE DEF OthersRemove
  <1>1. TypeOK'
    BY DEF IInv, TypeOK
  <1>2. ASSUME NEW f \in Execs PROVE Control(f)'
    BY DEF IInv, TypeOK, Control, Attempted, FrozenBeforeUse
  <1>3. OneOwner'
    BY DEF IInv, TypeOK, Control, OneOwner, Owns, Attempted
  <1>4. ReturnedOutcomeIsDurable'
    BY DEF IInv, TypeOK, Control, ReturnedOutcomeIsDurable
  <1>5. Evidence' /\ FrozenBeforeUse'
    BY DEF IInv, TypeOK, Control, Evidence, NewRunExists, FrozenBeforeUse
  <1> QED
    BY <1>1, <1>2, <1>3, <1>4, <1>5 DEF IInv

LEMMA OthersTriggerPreservesIInv ==
  ASSUME IInv, OthersTrigger
  PROVE  IInv'
  <1> USE DEF OthersTrigger
  <1>0. runs' \in Seq(RunStates) /\ Len(runs') <= MaxRuns /\ Len(runs') >= Len(runs)
    BY AppendRun, ConstantsAssumption DEF IInv, TypeOK
  <1>1. TypeOK'
    BY <1>0 DEF IInv, TypeOK
  <1>2. ASSUME NEW f \in Execs PROVE Control(f)'
    BY DEF IInv, TypeOK, Control, Attempted, FrozenBeforeUse
  <1>3. OneOwner'
    BY DEF IInv, TypeOK, Control, OneOwner, Owns, Attempted
  <1>4. ReturnedOutcomeIsDurable'
    BY DEF IInv, TypeOK, Control, ReturnedOutcomeIsDurable
  <1>5. Evidence' /\ FrozenBeforeUse'
    BY <1>0, HistoryKeepsEvidence DEF IInv, FrozenBeforeUse
  <1> QED
    BY <1>1, <1>2, <1>3, <1>4, <1>5 DEF IInv

LEMMA RunEndsPreservesIInv ==
  ASSUME IInv, NEW r \in {"success", "failed"}, RunEnds(r)
  PROVE  IInv'
  <1> USE DEF RunEnds, Latest
  <1>1. TypeOK'
    BY DEF IInv, TypeOK
  <1>2. ASSUME NEW f \in Execs PROVE Control(f)'
    BY DEF IInv, TypeOK, Control, Attempted, FrozenBeforeUse
  <1>3. OneOwner'
    BY DEF IInv, TypeOK, Control, OneOwner, Owns, Attempted
  <1>4. ReturnedOutcomeIsDurable'
    BY DEF IInv, TypeOK, Control, ReturnedOutcomeIsDurable
  <1>5. Evidence' /\ FrozenBeforeUse'
    BY DEF IInv, TypeOK, Control, Evidence, NewRunExists, FrozenBeforeUse
  <1> QED
    BY <1>1, <1>2, <1>3, <1>4, <1>5 DEF IInv

LEMMA StutterPreservesIInv ==
  ASSUME IInv, UNCHANGED vars
  PROVE  IInv'
  <1> USE DEF vars
  <1>1. TypeOK'
    BY DEF IInv, TypeOK
  <1>2. ASSUME NEW f \in Execs PROVE Control(f)'
    BY DEF IInv, TypeOK, Control, Attempted, FrozenBeforeUse
  <1>3. OneOwner'
    BY DEF IInv, TypeOK, Control, OneOwner, Owns, Attempted
  <1>4. ReturnedOutcomeIsDurable'
    BY DEF IInv, TypeOK, Control, ReturnedOutcomeIsDurable
  <1>5. Evidence' /\ FrozenBeforeUse'
    BY DEF IInv, TypeOK, Control, Evidence, NewRunExists, FrozenBeforeUse
  <1> QED
    BY <1>1, <1>2, <1>3, <1>4, <1>5 DEF IInv

-----------------------------------------------------------------------------
(* The invariant.                                                           *)

LEMMA NextPreservesIInv == IInv /\ [Next]_vars => IInv'
  <1> SUFFICES ASSUME IInv, [Next]_vars PROVE IInv'
    OBVIOUS
  <1>1. CASE \E a \in Actions : Propose(a) \/ Approve(a)
    BY <1>1, ProposePreservesIInv, ApprovePreservesIInv
  <1>2. CASE \E e \in Execs, c, s \in Actions, g \in approvals \cup {NoAction},
                b \in 0..MaxRuns : Begin(e, c, s, g, b)
    BY <1>2, BeginPreservesIInv
  <1>3. ASSUME NEW e \in Execs, Step(e) PROVE IInv'
    BY <1>3, LookupPreservesIInv, PrecheckPreservesIInv, RevalidatePreservesIInv,
       RevalidationReadFailsPreservesIInv, ClaimPreservesIInv, DispatchPreservesIInv,
       ReplyOkPreservesIInv, ReplyErrorPreservesIInv, VerifyPreservesIInv,
       ReconcilePreservesIInv, SaveResultPreservesIInv, RaisePreservesIInv
       DEF Step
  <1>4. ASSUME NEW e \in Execs, Serve(e) PROVE IInv'
    BY <1>4, AssertPreconditionPreservesIInv, MutatePreservesIInv,
       LoseRequestPreservesIInv DEF Serve
  <1>5. CASE Crash
    BY <1>5, CrashPreservesIInv
  <1>6. CASE Others
    BY <1>6, OthersReconfigurePreservesIInv, OthersRemovePreservesIInv,
       OthersTriggerPreservesIInv, RunEndsPreservesIInv DEF Others
  <1>7. CASE UNCHANGED vars
    BY <1>7, StutterPreservesIInv
  <1> QED
    BY <1>1, <1>2, <1>3, <1>4, <1>5, <1>6, <1>7 DEF Next

(* IInv holds in every reachable state.                                     *)
THEOREM Invariance == Spec => []IInv
  BY InitIInv, NextPreservesIInv, PTL DEF Spec

(* Type correctness of WriteService.                                        *)
THEOREM TypeCorrect == Spec => []TypeOK
  <1>1. IInv => TypeOK
    BY DEF IInv
  <1> QED
    BY <1>1, Invariance, PTL

(* At most one execution of WriteService.execute ever sends the mutation of *)
(* an approved fingerprint, for any number of executions and crashes.       *)
THEOREM SingleAttempt == Spec => []AtMostOneAttempt
  <1>1. IInv => AtMostOneAttempt
    BY DEF IInv, OneOwner, Owns, AtMostOneAttempt
  <1> QED
    BY <1>1, Invariance, PTL

(* A request on the wire is approved, and the store holds its row.          *)
THEOREM AttemptIsAccountedFor == Spec => []AttemptIsApprovedAndRecorded
  <1>1. IInv => AttemptIsApprovedAndRecorded
    BY DEF IInv, Control, AttemptIsApprovedAndRecorded
  <1> QED
    BY <1>1, Invariance, PTL

(* A VERIFIED resume has a DagRun that the approved snapshot had not.       *)
THEOREM ResumeIsProven == Spec => []ResumeVerifiedHasNewRun
  <1>1. IInv => ResumeVerifiedHasNewRun
    BY DEF IInv, Evidence, NewRunExists, ResumeVerifiedHasNewRun
  <1> QED
    BY <1>1, Invariance, PTL

(* An outcome that was returned and is meant to be persisted has its row.   *)
THEOREM OutcomeIsDurable == Spec => []ReturnedOutcomeIsDurable
  <1>1. IInv => ReturnedOutcomeIsDurable
    BY DEF IInv
  <1> QED
    BY <1>1, Invariance, PTL

-----------------------------------------------------------------------------
(* A definitive row that nobody is about to write.                          *)

(* Every execution of the action has ended, or began later and has not      *)
(* looked at the row yet: it will find the answer there.                    *)
Settled(a, s) == /\ store[a] = s
                 /\ \A e \in Execs : act[e] = a => pc[e] \in Final \cup {"lookup"}

(* A step that writes no row, and sends no execution beyond its lookup.     *)
LEMMA SettledStays ==
  ASSUME NEW a \in Actions, NEW s \in Definitive, Settled(a, s), UNCHANGED store,
         \A e \in Execs : act'[e] = a =>
            \/ act[e] = a /\ pc'[e] \in {pc[e]} \cup Final
            \/ pc'[e] = "lookup"
  PROVE  Settled(a, s)'
  BY DEF Settled

(* A step of an execution that is beyond its lookup is one for another      *)
(* action.                                                                  *)
LEMMA OtherStepSettled ==
  ASSUME IInv, NEW a \in Actions, NEW s \in Definitive, Settled(a, s), NEW e \in Execs,
         pc[e] \in Running \ {"lookup"}, UNCHANGED act,
         \A f \in Execs \ {e} : pc'[f] = pc[f],
         \A b \in Actions : b # act[e] => store'[b] = store[b]
  PROVE  Settled(a, s)'
  BY DEF Settled

LEMMA BeginSettled ==
  ASSUME IInv, NEW a \in Actions, NEW s \in Definitive, Settled(a, s), NEW e \in Execs,
         NEW c \in Actions, NEW t \in Actions, NEW g \in approvals \cup {NoAction},
         NEW b \in 0..MaxRuns, Begin(e, c, t, g, b)
  PROVE  Settled(a, s)'
  <1>1. pc[e] = "idle" /\ act[e] = NoAction /\ NoAction # a
    BY ConstantsAssumption DEF Begin, IInv, Control
  <1>2. \A f \in Execs \ {e} : act'[f] = act[f] /\ pc'[f] = pc[f]
    BY DEF Begin, Goto, IInv, TypeOK
  <1>3. act'[e] = a => pc'[e] = "lookup"
    BY <1>1 DEF Begin, Goto, IInv, TypeOK
  <1>4. UNCHANGED store
    BY DEF Begin
  <1> QED
    BY <1>2, <1>3, <1>4, SettledStays

LEMMA StepSettled ==
  ASSUME IInv, NEW a \in Actions, NEW s \in Definitive, Settled(a, s), NEW e \in Execs, Step(e)
  PROVE  Settled(a, s)'
  <1>1. ASSUME NEW label, Goto(e, label)
        PROVE  pc'[e] = label /\ \A f \in Execs \ {e} : pc'[f] = pc[f]
    BY <1>1 DEF Goto, IInv, TypeOK
  <1>2. CASE Lookup(e)
    <2>1. UNCHANGED <<store, act>> /\ pc[e] = "lookup"
      BY <1>2 DEF Lookup
    <2>2. PICK label : /\ Goto(e, label)
                       /\ act[e] = a => label = "done"
      BY <1>2 DEF Lookup, Finish, Settled
    <2> QED
      BY <1>1, <2>1, <2>2, SettledStays
  <1>3. CASE Raise(e)
    <2>1. UNCHANGED <<store, act>> /\ Goto(e, "raised")
      BY <1>3 DEF Raise
    <2> QED
      BY <1>1, <2>1, SettledStays
  <1>4. CASE Claim(e) \/ SaveResult(e)
    <2>1. /\ pc[e] \in Running \ {"lookup"} /\ UNCHANGED act
          /\ \A b \in Actions : b # act[e] => store'[b] = store[b]
      BY <1>4 DEF Claim, SaveResult, IInv, TypeOK
    <2>2. PICK label : Goto(e, label)
      BY <1>4 DEF Claim, SaveResult, Finish
    <2> QED
      BY <1>1, <2>1, <2>2, OtherStepSettled
  <1>5. CASE \/ Precheck(e) \/ Revalidate(e) \/ RevalidationReadFails(e) \/ Dispatch(e)
             \/ ReplyOk(e) \/ ReplyError(e) \/ Verify(e) \/ Reconcile(e)
    <2>1. pc[e] \in Running \ {"lookup"} /\ UNCHANGED <<act, store>>
      BY <1>5 DEF Precheck, Revalidate, RevalidationReadFails, Dispatch, ReplyOk, ReplyError,
                  Verify, Reconcile
    <2>2. PICK label : Goto(e, label)
      BY <1>5 DEF Precheck, Revalidate, RevalidationReadFails, Dispatch, ReplyOk, ReplyError,
                  Verify, Reconcile, Finish, Conclude
    <2> QED
      BY <1>1, <2>1, <2>2, OtherStepSettled
  <1> QED
    BY <1>2, <1>3, <1>4, <1>5 DEF Step

LEMMA NextSettled ==
  ASSUME NEW a \in Actions, NEW s \in Definitive
  PROVE  IInv /\ Settled(a, s) /\ [Next]_vars => Settled(a, s)'
  <1> SUFFICES ASSUME IInv, Settled(a, s), [Next]_vars PROVE Settled(a, s)'
    OBVIOUS
  <1>1. ASSUME UNCHANGED <<store, act, pc>> PROVE Settled(a, s)'
    BY <1>1, SettledStays
  <1>2. ASSUME NEW b \in Actions, Propose(b) \/ Approve(b) PROVE Settled(a, s)'
    BY <1>1, <1>2 DEF Propose, ResolveFailedTargets, CapturePrecondition, ObserveBaseline,
                      Build, Approve
  <1>3. ASSUME NEW e \in Execs, Serve(e) PROVE Settled(a, s)'
    BY <1>1, <1>3 DEF Serve, AssertPrecondition, Mutate, LoseRequest
  <1>4. CASE Crash
    <2>1. UNCHANGED <<store, act>> /\ \A e \in Execs : pc'[e] \in {pc[e]} \cup Final
      BY <1>4 DEF Crash
    <2> QED
      BY <2>1, SettledStays
  <1>5. CASE Others
    BY <1>1, <1>5 DEF Others, OthersReconfigure, OthersRemove, OthersTrigger, RunEnds
  <1>6. CASE UNCHANGED vars
    BY <1>1, <1>6 DEF vars
  <1> QED
    BY <1>2, <1>3, <1>4, <1>5, <1>6, BeginSettled, StepSettled DEF Next

(* Once every execution of an action has ended with a definitive row, no    *)
(* later execution, retry or recovery changes the row again.                *)
THEOREM DefinitiveRowStays == Spec => DefinitiveRowIsFinal
  <1>1. ASSUME NEW a \in Actions, NEW s \in Definitive
        PROVE  Spec => [](Quiet(a) /\ store[a] = s => [](store[a] = s))
    <2>1. Quiet(a) /\ store[a] = s => Settled(a, s)
      BY DEF Quiet, Settled
    <2>2. Settled(a, s) => store[a] = s
      BY DEF Settled
    <2>3. IInv /\ Settled(a, s) /\ [Next]_vars => Settled(a, s)'
      BY NextSettled
    <2> QED
      BY <2>1, <2>2, <2>3, Invariance, PTL DEF Spec
  <1> QED
    BY <1>1 DEF DefinitiveRowIsFinal

-----------------------------------------------------------------------------
(* WriteService implements MutationLedger.                                  *)

RowOf(a) == IF store[a] = NoRow THEN "absent"
            ELSE IF store[a] = "DISPATCHING" THEN "open"
            ELSE "answered"
AttemptsOf(a) == {e \in Execs : act[e] = a /\ Attempted(e)}
EffectsOf(a) == {e \in Execs : act[e] = a /\ req[e] = "applied"}

LEMMA LedgerInit == Init => Ledger!Init
  BY DEF Init, Ledger!Init, Attempted

(* A step that keeps the rows, the attempts and the effects is a stutter.   *)
LEMMA LedgerStutter ==
  ASSUME UNCHANGED store,
         \A e \in Execs : \/ act'[e] = act[e] /\ (Attempted(e)' <=> Attempted(e))
                             /\ (req'[e] = "applied" <=> req[e] = "applied")
                          \/ ~Attempted(e) /\ ~Attempted(e)'
  PROVE  UNCHANGED Ledger!vars
  <1>1. ASSUME NEW a \in Actions
        PROVE  AttemptsOf(a)' = AttemptsOf(a) /\ EffectsOf(a)' = EffectsOf(a)
    BY DEF AttemptsOf, EffectsOf, Attempted
  <1>2. /\ [a \in Actions |-> AttemptsOf(a)]' = [a \in Actions |-> AttemptsOf(a)]
        /\ [a \in Actions |-> EffectsOf(a)]' = [a \in Actions |-> EffectsOf(a)]
    BY <1>1
  <1> QED
    BY <1>2 DEF Ledger!vars, AttemptsOf, EffectsOf

LEMMA ClaimOpens ==
  ASSUME IInv, NEW e \in Execs, NEW a \in Actions, a = act[e], Claim(e)
  PROVE  Ledger!Open(a) \/ UNCHANGED Ledger!vars
  <1>2. CASE store[a] = NoRow /\ store' = [store EXCEPT ![a] = "DISPATCHING"]
    BY <1>2 DEF Claim, IInv, TypeOK, Ledger!Open, Attempted
  <1>3. CASE UNCHANGED store
    BY <1>3, LedgerStutter DEF Claim, Attempted
  <1> QED
    BY <1>2, <1>3 DEF Claim

LEMMA DispatchAttempts ==
  ASSUME IInv, NEW e \in Execs, NEW a \in Actions, a = act[e], Dispatch(e)
  PROVE  Ledger!Attempt(a, e)
  <1>1. store[a] # NoRow /\ ~Attempted(e)
    BY DEF IInv, TypeOK, Control, Dispatch
  <1>2. AttemptsOf(a) = {}
    BY <1>1 DEF IInv, OneOwner, Owns, AttemptsOf, Dispatch
  <1>3. /\ AttemptsOf(a)' = {e}
        /\ \A b \in Actions \ {a} : AttemptsOf(b)' = AttemptsOf(b)
        /\ \A b \in Actions : EffectsOf(b)' = EffectsOf(b)
    BY <1>1, <1>2 DEF AttemptsOf, EffectsOf, Attempted, Dispatch, IInv, TypeOK
  <1>4. [b \in Actions |-> AttemptsOf(b)]'
            = [[b \in Actions |-> AttemptsOf(b)] EXCEPT ![a] = {e}]
    BY <1>1, <1>3
  <1>5. [b \in Actions |-> EffectsOf(b)]' = [b \in Actions |-> EffectsOf(b)]
    BY <1>3
  <1> QED
    BY <1>1, <1>2, <1>4, <1>5
       DEF Ledger!Attempt, AttemptsOf, EffectsOf, Dispatch

LEMMA MutateTakesEffect ==
  ASSUME IInv, NEW e \in Execs, NEW a \in Actions, a = act[e], Mutate(e)
  PROVE  Ledger!TakeEffect(a, e)
  <1>1. /\ Attempted(e) /\ req[e] # "applied"
        /\ req' = [req EXCEPT ![e] = "applied"]
        /\ UNCHANGED <<act, store>>
    BY DEF IInv, TypeOK, Control, Mutate, Attempted
  <1>2. e \in AttemptsOf(a) /\ EffectsOf(a) = {}
    BY <1>1 DEF IInv, OneOwner, Owns, AttemptsOf, EffectsOf, Attempted
  <1>3. /\ EffectsOf(a)' = {e}
        /\ \A b \in Actions \ {a} : EffectsOf(b)' = EffectsOf(b)
        /\ \A b \in Actions : AttemptsOf(b)' = AttemptsOf(b)
    BY <1>1, <1>2 DEF AttemptsOf, EffectsOf, Attempted, IInv, TypeOK
  <1>4. [b \in Actions |-> EffectsOf(b)]'
            = [[b \in Actions |-> EffectsOf(b)] EXCEPT ![a] = {e}]
    BY <1>1, <1>3
  <1>5. [b \in Actions |-> AttemptsOf(b)]' = [b \in Actions |-> AttemptsOf(b)]
    BY <1>3
  <1> QED
    BY <1>1, <1>2, <1>4, <1>5 DEF Ledger!TakeEffect, AttemptsOf, EffectsOf

LEMMA SaveAnswers ==
  ASSUME IInv, NEW e \in Execs, NEW a \in Actions, a = act[e], SaveResult(e)
  PROVE  Ledger!Answer(a)
  <1>1. /\ store[a] # NoRow /\ out[e] \in Persisted
        /\ store' = [store EXCEPT ![a] = out[e]]
        /\ UNCHANGED <<act, req>>
    BY DEF IInv, TypeOK, Control, SaveResult
  <1>2. /\ RowOf(a) # "absent" /\ RowOf(a)' = "answered"
        /\ \A b \in Actions \ {a} : RowOf(b)' = RowOf(b)
    BY <1>1 DEF RowOf, IInv, TypeOK
  <1>3. [b \in Actions |-> RowOf(b)]'
            = [[b \in Actions |-> RowOf(b)] EXCEPT ![a] = "answered"]
    BY <1>1, <1>2
  <1> QED
    BY <1>1, <1>2, <1>3 DEF Ledger!Answer, RowOf, Attempted

(* Every step of the service is a step of the ledger, or a stutter.         *)
LEMMA LedgerStep == IInv /\ [Next]_vars => [Ledger!Next]_(Ledger!vars)
  <1> SUFFICES ASSUME IInv, [Next]_vars PROVE [Ledger!Next]_(Ledger!vars)
    OBVIOUS
  <1>1. CASE \E a \in Actions : Propose(a) \/ Approve(a)
    BY <1>1, LedgerStutter DEF Propose, ResolveFailedTargets, CapturePrecondition,
       ObserveBaseline, Build, Approve, Attempted
  <1>2. CASE \E e \in Execs, c, s \in Actions, g \in approvals \cup {NoAction},
                b \in 0..MaxRuns : Begin(e, c, s, g, b)
    <2>1. PICK e \in Execs, c \in Actions, s \in Actions,
               g \in approvals \cup {NoAction}, b \in 0..MaxRuns : Begin(e, c, s, g, b)
      BY <1>2
    <2>2. ~Attempted(e) /\ UNCHANGED <<store, req>>
          /\ \A f \in Execs \ {e} : act'[f] = act[f]
      BY <2>1 DEF Begin, IInv, TypeOK, Control
    <2> QED
      BY <2>2, LedgerStutter DEF Attempted
  <1>3. ASSUME NEW e \in Execs, Step(e) PROVE [Ledger!Next]_(Ledger!vars)
    <2>1. PICK a \in Actions : a = act[e]
      BY <1>3 DEF Step, Lookup, Precheck, Revalidate, RevalidationReadFails, Claim,
         Dispatch, ReplyOk, ReplyError, Verify, Reconcile, SaveResult, Raise,
         IInv, TypeOK, Control
    <2>2. CASE Claim(e)
      BY <2>1, <2>2, ClaimOpens DEF Ledger!Next
    <2>3. CASE Dispatch(e)
      BY <2>1, <2>3, DispatchAttempts DEF Ledger!Next
    <2>4. CASE SaveResult(e)
      BY <2>1, <2>4, SaveAnswers DEF Ledger!Next
    <2>5. CASE UNCHANGED <<store, act, req>>
      BY <2>5, LedgerStutter DEF Attempted
    <2> QED
      BY <1>3, <2>2, <2>3, <2>4, <2>5 DEF Step, Lookup, Precheck, Revalidate,
         RevalidationReadFails, ReplyOk, ReplyError, Verify, Reconcile, Raise
  <1>4. ASSUME NEW e \in Execs, Serve(e) PROVE [Ledger!Next]_(Ledger!vars)
    <2>1. CASE Mutate(e)
      <3>1. PICK a \in Actions : a = act[e]
        BY <2>1 DEF IInv, TypeOK, Control, Mutate, Attempted
      <3> QED
        BY <2>1, <3>1, MutateTakesEffect DEF Ledger!Next
    <2>2. CASE AssertPrecondition(e) \/ LoseRequest(e)
      BY <2>2, LedgerStutter
         DEF AssertPrecondition, LoseRequest, Attempted, IInv, TypeOK
    <2> QED
      BY <1>4, <2>1, <2>2 DEF Serve
  <1>5. CASE Crash \/ Others \/ UNCHANGED vars
    <2>1. UNCHANGED <<store, act, req>>
      BY <1>5 DEF Crash, Others, OthersReconfigure, OthersRemove, OthersTrigger,
                  RunEnds, vars
    <2> QED
      BY <2>1, LedgerStutter DEF Attempted
  <1> QED
    BY <1>1, <1>2, <1>3, <1>4, <1>5 DEF Next

(* Retries, recoveries and concurrent approvals, seen from outside, are the *)
(* ledger of at most one attempt and at most one effect per fingerprint.    *)
THEOREM Refinement == Spec => ImplementsLedger
  BY Invariance, LedgerInit, LedgerStep, PTL DEF Spec, ImplementsLedger, Ledger!Spec
=============================================================================
