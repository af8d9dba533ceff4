----------------------------- MODULE ReviewFlow -----------------------------
(***************************************************************************)
(* The review lifecycle: the API calls that create a run or review it      *)
(* (api/runs.py, api/reviews.py), the LangGraph thread they drive          *)
(* (agent/graph.py) and the run rows (persistence/run_store.py).           *)
(*                                                                         *)
(* A call is one HTTP request.  It reads the run row, loads the latest     *)
(* checkpoint of the thread, executes graph nodes on its own copy of the   *)
(* state, and writes a checkpoint after every node: of two calls on one    *)
(* thread the last writer wins.  A node that raises leaves the checkpoint  *)
(* before it, and the next Command(resume) goes on from there.  A crash    *)
(* kills every call; the rows, the audit events, the checkpoint and the    *)
(* execution store are in SQLite and remain.                               *)
(*                                                                         *)
(* WriteService enters only through what it promises, MutationLedger, and  *)
(* the statuses it returns.  All runs share one thread: POST /runs accepts *)
(* the thread_id of an earlier run and starts over on that thread.         *)
(***************************************************************************)
EXTENDS Naturals

CONSTANTS Calls,      \* HTTP requests, numbered as they arrive
          Runs,       \* run ids, all on one thread
          Prints,     \* fingerprints, numbered as their actions are frozen
          MaxSteps,   \* the agent's step budget
          Serial,     \* clients wait for an answer before the next request
          NoPrint, NoRun

ASSUME ReviewConstants == /\ Calls \subseteq Nat /\ Prints \subseteq Nat
                          /\ MaxSteps \in Nat \ {0}
                          /\ Serial \in BOOLEAN
                          /\ NoPrint \notin Prints
                          /\ NoRun \notin Runs

VARIABLES
    record,                   \* run -> its row in RunStore
    owner,                    \* history: fingerprint -> the run it was frozen for
    approvals,                \* audit: fingerprints of REVIEW_APPROVED
    withdrawn,                \* history: fingerprints rejected or edited away in
                              \* a checkpoint (the audit record comes before it)
    saved,                    \* the latest checkpoint of the thread
    pc, kind, target, named,  \* call -> control, request, run, fingerprint it names
    undelivered,              \* call -> its decision has not reached a review node
    st,                       \* call -> its copy of the thread's state
    row, attempted,           \* the mutation ledger
    answer                    \* fingerprint -> status of its stored result

ledger == <<row, attempted>>
history == <<owner, approvals, withdrawn>>
request == <<kind, target, named>>
vars == <<record, owner, approvals, withdrawn, saved, pc, kind, target,
          named, undelivered, st, row, attempted, answer>>

(* The effects belong to the platform; nothing here reads them.             *)
Ledger == INSTANCE MutationLedger WITH Actions <- Prints, Attempts <- Calls,
                                       effects <- [f \in Prints |-> {}]

Reviews == {"approve", "reject", "edit"}
Live == {"starting", "resuming", "graph", "looked", "claimed", "attempted",
         "recovering", "answered", "reporting"}
Nodes == {"agent", "model_tools", "review", "execute_write", "end"}
Terminal == {"COMPLETED", "UNCERTAIN", "FAILED"}
Definitive == {"VERIFIED", "VERIFICATION_FAILED"}
Results == Definitive \cup {"UNKNOWN_OUTCOME", "PRECONDITION_FAILED", "FAILED", "REJECTED"}
NoResult == "no_result"

(* AgentRuntime.start: the initial state of the graph for one message.      *)
Fresh(r) == [run |-> r, next |-> "agent", pending |-> NoPrint, approved |-> NoPrint,
             last |-> NoResult, final |-> "none", steps |-> 0]
NoRecord == [status |-> "absent", pending |-> NoPrint, final |-> "none"]

Init == /\ record = [r \in Runs |-> NoRecord]
        /\ owner = [f \in Prints |-> NoRun]
        /\ approvals = {} /\ withdrawn = {}
        /\ saved = Fresh(NoRun)
        /\ pc = [c \in Calls |-> "idle"]
        /\ kind = [c \in Calls |-> "none"]
        /\ target = [c \in Calls |-> NoRun]
        /\ named = [c \in Calls |-> NoPrint]
        /\ undelivered = [c \in Calls |-> FALSE]
        /\ st = [c \in Calls |-> Fresh(NoRun)]
        /\ Ledger!Init
        /\ answer = [f \in Prints |-> NoResult]

-----------------------------------------------------------------------------
(* Requests.                                                                *)

Goto(c, label) == pc' = [pc EXCEPT ![c] = label]
MayBegin(c) == /\ pc[c] = "idle"
               /\ \A d \in Calls : d < c => pc[d] # "idle"
               /\ Serial => \A d \in Calls : pc[d] \notin Live

SetRecord(r, status, pending, final) ==
    record' = [record EXCEPT ![r] = [status |-> status, pending |-> pending,
                                     final |-> final]]

(* POST /runs: the row is created before the graph is entered.              *)
Create(c, r) ==
    /\ MayBegin(c) /\ record[r].status = "absent"
    /\ SetRecord(r, "RUNNING", NoPrint, "none")
    /\ kind' = [kind EXCEPT ![c] = "create"]
    /\ target' = [target EXCEPT ![c] = r]
    /\ Goto(c, "starting")
    /\ UNCHANGED <<history, saved, named, undelivered, st, ledger, answer>>

(* The input of a new invocation replaces the thread's state.               *)
Start(c) ==
    /\ pc[c] = "starting"
    /\ saved' = Fresh(target[c])
    /\ st' = [st EXCEPT ![c] = Fresh(target[c])]
    /\ Goto(c, "graph")
    /\ UNCHANGED <<record, history, request, undelivered, ledger, answer>>

(* A review that looks only for a pending action, which a failed run keeps. *)
ReviewableByAction(r) == record[r].pending # NoPrint

(* POST approve, reject or edit: the row must be waiting and hold a pending *)
(* action, the reviewer's fingerprint, if given, must be that of the row.   *)
Reviewable(r) == record[r].status = "WAITING_FOR_REVIEW" /\ record[r].pending # NoPrint

Ask(c, r, k) ==
    /\ MayBegin(c) /\ Reviewable(r)
    /\ kind' = [kind EXCEPT ![c] = k]
    /\ target' = [target EXCEPT ![c] = r]
    /\ named' = [named EXCEPT ![c] = record[r].pending]
    /\ approvals' = IF k = "approve" THEN approvals \cup {record[r].pending} ELSE approvals
    /\ Goto(c, "resuming")
    /\ UNCHANGED <<record, owner, withdrawn, saved, undelivered, st, ledger, answer>>

(* Command(resume): the graph goes on at the latest checkpoint, whatever    *)
(* its node is.  Only a waiting review node takes the decision.             *)
Resume(c) ==
    /\ pc[c] = "resuming"
    /\ st' = [st EXCEPT ![c] = saved]
    /\ undelivered' = [undelivered EXCEPT ![c] = saved.next = "review"]
    /\ Goto(c, "graph")
    /\ UNCHANGED <<record, history, saved, request, ledger, answer>>

-----------------------------------------------------------------------------
(* Graph nodes.                                                             *)

At(c, node) == pc[c] = "graph" /\ st[c].next = node

(* A node has returned: its update is applied and checkpointed.             *)
Put(c, s) == /\ st' = [st EXCEPT ![c] = s]
             /\ saved' = s

Report(last) == CASE last = "VERIFIED" -> "write_verified"
                  [] last \in {"REJECTED", "PRECONDITION_FAILED"} -> "write_not_executed"
                  [] last = "UNKNOWN_OUTCOME" -> "write_uncertain"
                  [] OTHER -> "write_failed"

(* What the model may answer: a status, or something that does not parse.   *)
Candidates == {"informational", "incomplete", "write_claim", "unparsable"}

(* A guard that takes the model's word for the outcome of the write.        *)
GuardTrustsModel(candidate, last) ==
    CASE candidate = "write_claim" -> "write_verified"
      [] candidate = "unparsable" -> "write_uncertain"
      [] OTHER -> candidate

(* FinalGuard.build.  "nothing_written" is the write_not_executed that says *)
(* no platform write was executed in this run.                              *)
FinalGuard(candidate, last) ==
    CASE last # NoResult /\ candidate # "unparsable" -> Report(last)
      [] last # NoResult /\ candidate = "unparsable" -> "write_uncertain"
      [] last = NoResult /\ candidate = "incomplete" -> "incomplete"
      [] last = NoResult /\ candidate = "write_claim" -> "nothing_written"
      [] OTHER -> "informational"

Finish(c, s, candidate) ==
    Put(c, [s EXCEPT !.next = "end", !.final = FinalGuard(candidate, s.last)])

(* A step count that starts over with every answer of the model.            *)
AgentForgetsSteps(c) ==
    /\ At(c, "agent")
    /\ \/ Put(c, [st[c] EXCEPT !.next = "model_tools", !.final = "none"])
       \/ \E k \in Candidates : Finish(c, st[c], k)
    /\ UNCHANGED <<record, history, request, undelivered, pc, ledger, answer>>

Agent(c) ==
    /\ At(c, "agent")
    /\ LET s == [st[c] EXCEPT !.steps = @ + 1] IN
       \/ s.steps > MaxSteps /\ Finish(c, s, "incomplete")
       \/ /\ s.steps <= MaxSteps
          /\ Put(c, [s EXCEPT !.next = "model_tools", !.final = "none"])
       \/ /\ s.steps <= MaxSteps
          /\ \E k \in Candidates : Finish(c, s, k)
    /\ UNCHANGED <<record, history, request, undelivered, pc, ledger, answer>>

Freeze(f, r) == /\ owner[f] = NoRun
                /\ \A g \in Prints : g < f => owner[g] # NoRun
                /\ owner' = [owner EXCEPT ![f] = r]

(* One proposal alone in its round is frozen for review; a mixed round, a   *)
(* proposal that cannot be built and plain reads go back to the agent.      *)
ModelTools(c) ==
    /\ At(c, "model_tools")
    /\ \/ \E f \in Prints : /\ Freeze(f, st[c].run)
                            /\ Put(c, [st[c] EXCEPT !.pending = f, !.next = "review"])
       \/ /\ Put(c, [st[c] EXCEPT !.pending = NoPrint, !.next = "agent"])
          /\ UNCHANGED owner
    /\ UNCHANGED <<record, approvals, withdrawn, request, undelivered, pc,
                   ledger, answer>>

Decided(c, k) == /\ At(c, "review") /\ undelivered[c] /\ kind[c] = k
                 /\ undelivered' = [undelivered EXCEPT ![c] = FALSE]

(* A review node that approves whatever is pending.                         *)
ReviewApprovesPending(c) ==
    /\ Decided(c, "approve")
    /\ Put(c, [st[c] EXCEPT !.approved = st[c].pending, !.next = "execute_write"])
    /\ UNCHANGED <<record, history, request, pc, ledger, answer>>

ReviewApprove(c) ==
    /\ Decided(c, "approve")
    /\ \/ /\ named[c] = st[c].pending
          /\ Put(c, [st[c] EXCEPT !.approved = named[c], !.next = "execute_write"])
       \/ /\ named[c] # st[c].pending
          /\ Put(c, [st[c] EXCEPT !.approved = NoPrint])
    /\ UNCHANGED <<record, history, request, pc, ledger, answer>>

(* An edit that keeps the proposal, and with it the fingerprint.            *)
EditKeepsFingerprint(c) ==
    /\ Decided(c, "edit")
    /\ Put(c, [st[c] EXCEPT !.approved = NoPrint])
    /\ withdrawn' = withdrawn \cup {st[c].pending}
    /\ UNCHANGED <<record, owner, approvals, request, pc, ledger, answer>>

(* rebuild_from_edit: a new proposal, a new fingerprint, another review.    *)
ReviewEdit(c) ==
    /\ Decided(c, "edit")
    /\ \E f \in Prints : /\ Freeze(f, st[c].run)
                         /\ Put(c, [st[c] EXCEPT !.pending = f, !.approved = NoPrint])
    /\ withdrawn' = withdrawn \cup {st[c].pending}
    /\ UNCHANGED <<record, approvals, request, pc, ledger, answer>>

ReviewReject(c) ==
    /\ Decided(c, "reject")
    /\ Put(c, [st[c] EXCEPT !.pending = NoPrint, !.approved = NoPrint,
                            !.last = "REJECTED", !.next = "agent"])
    /\ withdrawn' = withdrawn \cup {st[c].pending}
    /\ UNCHANGED <<record, owner, approvals, request, pc, ledger, answer>>

-----------------------------------------------------------------------------
(* execute_write: WriteService.execute through the ledger it implements.    *)

Returned(c, status) == /\ st' = [st EXCEPT ![c] = [st[c] EXCEPT !.last = status]]
                       /\ Goto(c, "answered")

(* A permission error is turned into a FAILED result, a definitive row is   *)
(* the result, any other row is reconciled.                                 *)
WriteLooksUp(c) ==
    /\ At(c, "execute_write")
    /\ LET f == st[c].pending IN
       \/ st[c].approved # f /\ Returned(c, "FAILED")
       \/ /\ st[c].approved = f /\ row[f] = "absent"
          /\ Goto(c, "looked") /\ UNCHANGED st
       \/ /\ st[c].approved = f /\ answer[f] \in Definitive
          /\ Returned(c, answer[f])
       \/ /\ st[c].approved = f /\ row[f] # "absent" /\ answer[f] \notin Definitive
          /\ Goto(c, "recovering") /\ UNCHANGED st
    /\ UNCHANGED <<record, history, saved, request, undelivered, ledger, answer>>

WriteRefuses(c) ==
    /\ pc[c] = "looked"
    /\ Returned(c, "PRECONDITION_FAILED")
    /\ UNCHANGED <<record, history, saved, request, undelivered, ledger, answer>>

(* The loser of the claim returns the winner's result, or reconciles a row  *)
(* without one.                                                             *)
WriteClaims(c) ==
    /\ pc[c] = "looked"
    /\ LET f == st[c].pending IN
       \/ Ledger!Open(f) /\ Goto(c, "claimed") /\ UNCHANGED st
       \/ /\ row[f] # "absent" /\ answer[f] = NoResult
          /\ Goto(c, "recovering") /\ UNCHANGED <<ledger, st>>
       \/ answer[f] # NoResult /\ Returned(c, answer[f]) /\ UNCHANGED ledger
    /\ UNCHANGED <<record, history, saved, request, undelivered, answer>>

WriteAttempts(c) ==
    /\ pc[c] = "claimed"
    /\ Ledger!Attempt(st[c].pending, c)
    /\ Goto(c, "attempted")
    /\ UNCHANGED <<record, history, saved, request, undelivered, st, answer>>

(* The attempt is verified by reading, or reconciled after an error.        *)
WriteAnswers(c) ==
    /\ \E status \in Definitive \cup {"UNKNOWN_OUTCOME"} :
          /\ \/ pc[c] = "attempted"
             \/ pc[c] = "recovering" /\ status # "VERIFICATION_FAILED"
          /\ answer' = [answer EXCEPT ![st[c].pending] = status]
          /\ Returned(c, status)
    /\ Ledger!Answer(st[c].pending)
    /\ UNCHANGED <<record, history, saved, request, undelivered>>

ExecuteEnds(c) ==
    /\ pc[c] = "answered"
    /\ Put(c, [st[c] EXCEPT !.pending = NoPrint, !.approved = NoPrint, !.next = "agent"])
    /\ Goto(c, "graph")
    /\ UNCHANGED <<record, history, request, undelivered, ledger, answer>>

-----------------------------------------------------------------------------
(* The end of a call: apply_state, an exception, a crash.                   *)

(* The graph returns; its decision and its copy of the state are gone.      *)
Leave(c, label) == /\ Goto(c, label)
                   /\ st' = [st EXCEPT ![c] = Fresh(NoRun)]
                   /\ undelivered' = [undelivered EXCEPT ![c] = FALSE]

(* The request is answered or has failed; nothing of it is left.            *)
End(c) == /\ Leave(c, "ended")
          /\ kind' = [kind EXCEPT ![c] = "none"]
          /\ target' = [target EXCEPT ![c] = NoRun]
          /\ named' = [named EXCEPT ![c] = NoPrint]

(* An interrupt of the review node.  The row is written before the audit    *)
(* record and the event, which may still raise.                             *)
Wait(c) ==
    /\ At(c, "review") /\ ~undelivered[c]
    /\ SetRecord(target[c], "WAITING_FOR_REVIEW", st[c].pending, record[target[c]].final)
    /\ Leave(c, "reporting")
    /\ UNCHANGED <<history, saved, request, ledger, answer>>

Complete(c) ==
    /\ At(c, "end")
    /\ SetRecord(target[c], IF st[c].final = "write_uncertain" THEN "UNCERTAIN"
                                                              ELSE "COMPLETED",
                 NoPrint, st[c].final)
    /\ Leave(c, "reporting")
    /\ UNCHANGED <<history, saved, request, ledger, answer>>

(* The audit record and the event are out, and the request is answered.     *)
Reply(c) ==
    /\ pc[c] = "reporting"
    /\ End(c)
    /\ UNCHANGED <<record, history, saved, ledger, answer>>

(* A failed review that marks the run with a status the API does not know.  *)
RaiseMarksError(c) ==
    /\ pc[c] \in Live
    /\ SetRecord(target[c], "ERROR", record[target[c]].pending, record[target[c]].final)
    /\ End(c)
    /\ UNCHANGED <<history, saved, ledger, answer>>

(* The provider, the MCP reads, the stores and the audit may raise in any   *)
(* node, and around the graph.  create_run marks the run FAILED, when that  *)
(* does not raise too; a review leaves the row alone.                       *)
Raise(c) ==
    /\ pc[c] \in Live
    /\ \/ /\ kind[c] = "create"
          /\ SetRecord(target[c], "FAILED", record[target[c]].pending,
                       record[target[c]].final)
       \/ UNCHANGED record
    /\ End(c)
    /\ UNCHANGED <<history, saved, ledger, answer>>

Crash ==
    /\ \E c \in Calls : pc[c] \in Live
    /\ pc' = [c \in Calls |-> IF pc[c] \in Live THEN "ended" ELSE pc[c]]
    /\ st' = [c \in Calls |-> Fresh(NoRun)]
    /\ undelivered' = [c \in Calls |-> FALSE]
    /\ kind' = [c \in Calls |-> "none"]
    /\ target' = [c \in Calls |-> NoRun]
    /\ named' = [c \in Calls |-> NoPrint]
    /\ UNCHANGED <<record, history, saved, ledger, answer>>

-----------------------------------------------------------------------------
Node(c) == \/ Agent(c) \/ ModelTools(c)
           \/ ReviewApprove(c) \/ ReviewEdit(c) \/ ReviewReject(c)
           \/ WriteLooksUp(c) \/ WriteRefuses(c) \/ WriteClaims(c) \/ WriteAttempts(c)
           \/ WriteAnswers(c) \/ ExecuteEnds(c)

Step(c) == Start(c) \/ Resume(c) \/ Node(c) \/ Wait(c) \/ Complete(c)
           \/ Reply(c) \/ Raise(c)

Next == \/ \E c \in Calls, r \in Runs : Create(c, r) \/ \E k \in Reviews : Ask(c, r, k)
        \/ \E c \in Calls : Step(c)
        \/ Crash

Spec == Init /\ [][Next]_vars

(* The event loop schedules a call until it is answered, and the provider,  *)
(* the MCP client and SQLite return or raise.                               *)
FairSpec == Spec /\ \A c \in Calls : WF_vars(Step(c))

-----------------------------------------------------------------------------
(* Correctness.                                                             *)

Finals == {"none", "informational", "incomplete", "nothing_written", "write_verified",
           "write_not_executed", "write_uncertain", "write_failed"}
Threads == [run: Runs \cup {NoRun}, next: Nodes, pending: Prints \cup {NoPrint},
            approved: Prints \cup {NoPrint}, last: Results \cup {NoResult},
            final: Finals, steps: 0..MaxSteps + 1]
Records == [status: Terminal \cup {"absent", "RUNNING", "WAITING_FOR_REVIEW"},
            pending: Prints \cup {NoPrint}, final: Finals]

(* Every variable keeps its type; the statuses are those of RunResponse.    *)
TypeOK == /\ record \in [Runs -> Records]
          /\ owner \in [Prints -> Runs \cup {NoRun}]
          /\ approvals \subseteq Prints /\ withdrawn \subseteq Prints
          /\ saved \in Threads
          /\ pc \in [Calls -> Live \cup {"idle", "ended"}]
          /\ kind \in [Calls -> Reviews \cup {"none", "create"}]
          /\ target \in [Calls -> Runs \cup {NoRun}]
          /\ named \in [Calls -> Prints \cup {NoPrint}]
          /\ undelivered \in [Calls -> BOOLEAN]
          /\ st \in [Calls -> Threads]
          /\ row \in [Prints -> Ledger!RowStates]
          /\ attempted \in [Prints -> SUBSET Calls]
          /\ answer \in [Prints -> Definitive \cup {"UNKNOWN_OUTCOME", NoResult}]

(* Whatever raises, crashes or runs beside it, a mutation is attempted only *)
(* for a fingerprint that a reviewer approved by name.                      *)
OnlyApprovedIsAttempted == \A f \in Prints : attempted[f] # {} => f \in approvals

(* pending_action.py, line 102: an edit leaves an old approval nothing to   *)
(* authorize.  When requests come one at a time, an action that the review  *)
(* node rejected or edited away is never attempted, before or after.        *)
WithdrawnIsNeverAttempted ==
    \A f \in withdrawn : attempted[f] = {}

(* The final response of the run that owns the thread is true: a verified   *)
(* write has its row, and a response that claims no write was preceded by   *)
(* none, also when the write was recovered by a later call.                 *)
FinalResponseIsTrue ==
    \A r \in Runs : saved.run = r =>
        /\ record[r].final = "write_verified" =>
              \E f \in Prints : owner[f] = r /\ answer[f] = "VERIFIED"
        /\ record[r].final \in {"informational", "incomplete", "nothing_written"} =>
              \A f \in Prints : owner[f] = r => attempted[f] = {}

(* A finished run is final, which the event stream relies on (api/app.py,   *)
(* line 56): its row does not change, except that the POST /runs that is    *)
(* still reporting it may mark it FAILED.  When every run of the thread is  *)
(* finished, no mutation of the thread is attempted any more.               *)
Creating(r) == \E c \in Calls : pc[c] \in Live /\ kind[c] = "create" /\ target[c] = r

FinishedRunIsFinal ==
    [][/\ \A r \in Runs : record[r].status \in Terminal /\ ~Creating(r)
                            => record'[r] = record[r]
       /\ (\A r \in Runs : record[r].status \in Terminal \cup {"absent"})
              => attempted' = attempted]_vars

(* Every request is answered, fails or dies with the process: the step      *)
(* budget bounds the loop of agent and tools, and a review node that has    *)
(* taken its decision interrupts.                                           *)
CallsEnd == \A c \in Calls : pc[c] \in Live ~> pc[c] = "ended"

(* The inductive invariant behind the theorems of ReviewFlowProofs.  A      *)
(* thread that goes on has budget left, one with a review or a write ahead  *)
(* has an action, and what it holds as approved was approved by a reviewer. *)
Sound(s) == /\ s.next # "end" => s.steps <= MaxSteps
            /\ s.next \in {"review", "execute_write"} => s.pending \in Prints
            /\ s.approved # NoPrint => s.approved \in approvals

(* A call beyond WriteService's approval check carries an approved action.  *)
Writing == {"looked", "claimed", "attempted", "recovering"}

RInv == /\ TypeOK
        /\ Sound(saved)
        /\ \A c \in Calls : /\ Sound(st[c])
                            /\ kind[c] = "approve" => named[c] \in approvals
                            /\ pc[c] \in Writing \cup {"answered"} =>
                                  st[c].next = "execute_write"
                            /\ pc[c] \in Writing => st[c].approved = st[c].pending
        /\ OnlyApprovedIsAttempted

(* README section 6: "reject produces zero mutation".  No reject request    *)
(* sends a mutation.                                                        *)
RejectProducesNoMutation ==
    \A c \in Calls, f \in Prints : kind[c] = "reject" => c \notin attempted[f]
=============================================================================
