-------------------------- MODULE ReviewFlowProofs --------------------------
(***************************************************************************)
(* Proofs about ReviewFlow for any requests, runs, fingerprints and step   *)
(* budget, whether or not clients wait for their answers.                  *)
(***************************************************************************)
EXTENDS ReviewFlow, TLAPS

USE DEF Reviews, Live, Nodes, Terminal, Definitive, Results, NoResult,
        Finals, Writing, ledger, history, request

-----------------------------------------------------------------------------
(* The operators the actions are built from.                                *)

LEMMA FreshIsSound ==
  ASSUME NEW r \in Runs \cup {NoRun}
  PROVE  Fresh(r) \in Threads /\ Sound(Fresh(r))
  BY ReviewConstants DEF Fresh, Threads, Sound

LEMMA FinalGuardType ==
  ASSUME NEW k \in Candidates, NEW last \in Results \cup {NoResult}
  PROVE  FinalGuard(k, last) \in Finals
  BY DEF FinalGuard, Report, Candidates

LEMMA InitRInv == Init => RInv
  <1> SUFFICES ASSUME Init PROVE RInv
    OBVIOUS
  <1>1. Fresh(NoRun) \in Threads /\ Sound(Fresh(NoRun)) /\ Fresh(NoRun).next = "agent"
    BY FreshIsSound DEF Fresh
  <1>2. /\ row = [f \in Prints |-> "absent"]
        /\ attempted = [f \in Prints |-> {}]
    BY DEF Init, Ledger!Init
  <1>3. TypeOK
    BY <1>1, <1>2 DEF Init, TypeOK, NoRecord, Records, Ledger!RowStates
  <1> QED
    BY <1>1, <1>2, <1>3 DEF Init, RInv, OnlyApprovedIsAttempted

-----------------------------------------------------------------------------
(* A step of the graph: one call gets a new copy of the thread's state.     *)

(* The part of the invariant that speaks of one call.                       *)
CallOK(c) == /\ Sound(st[c])
             /\ kind[c] = "approve" => named[c] \in approvals
             /\ pc[c] \in Writing \cup {"answered"} => st[c].next = "execute_write"
             /\ pc[c] \in Writing => st[c].approved = st[c].pending

(* A node that returned a sound state preserves the invariant, whatever it  *)
(* did to the audit records of proposals and decisions.                     *)
LEMMA PutPreservesRInv ==
  ASSUME RInv, NEW c \in Calls, NEW s \in Threads, Sound(s), Put(c, s),
         pc[c] \in {"graph", "answered"}, pc' = [pc EXCEPT ![c] = "graph"],
         owner' \in [Prints -> Runs \cup {NoRun}], withdrawn' \subseteq Prints,
         undelivered' \in [Calls -> BOOLEAN],
         UNCHANGED <<record, approvals, request, ledger, answer>>
  PROVE  RInv'
  <1>1. TypeOK'
    BY DEF RInv, TypeOK, Put
  <1>2. \A d \in Calls : CallOK(d)
    BY DEF RInv, CallOK
  <1>3. \A d \in Calls : st'[d] = IF d = c THEN s ELSE st[d]
    BY DEF RInv, TypeOK, Put
  <1>4. \A d \in Calls : pc'[d] = IF d = c THEN "graph" ELSE pc[d]
    BY DEF RInv, TypeOK
  <1>5. ASSUME NEW d \in Calls PROVE CallOK(d)'
    BY <1>2, <1>3, <1>4 DEF CallOK, Sound
  <1>6. Sound(saved)'
    BY DEF Put, Sound
  <1>7. OnlyApprovedIsAttempted'
    BY DEF RInv, OnlyApprovedIsAttempted
  <1> QED
    BY <1>1, <1>5, <1>6, <1>7 DEF RInv, CallOK

(* What the invariant says of a call at a node of the graph.                *)
LEMMA AtNode ==
  ASSUME RInv, NEW c \in Calls, NEW node \in Nodes, At(c, node)
  PROVE  /\ st[c] \in Threads /\ Sound(st[c]) /\ st[c].next = node
         /\ pc[c] = "graph" /\ pc = [pc EXCEPT ![c] = "graph"]
  BY DEF RInv, TypeOK, At

LEMMA AgentPreservesRInv ==
  ASSUME RInv, NEW c \in Calls, Agent(c)
  PROVE  RInv'
  <1> DEFINE s == [st[c] EXCEPT !.steps = @ + 1]
  <1>1. /\ st[c] \in Threads /\ Sound(st[c]) /\ st[c].next = "agent"
        /\ pc[c] = "graph" /\ pc = [pc EXCEPT ![c] = "graph"]
    BY AtNode DEF Agent
  <1>2. s \in Threads /\ st[c].steps <= MaxSteps /\ s.steps = st[c].steps + 1
    BY <1>1, ReviewConstants DEF Threads, Sound
  <1>3. /\ UNCHANGED <<record, owner, approvals, withdrawn, request, undelivered, pc,
                      ledger, answer>>
        /\ owner' \in [Prints -> Runs \cup {NoRun}] /\ withdrawn' \subseteq Prints
        /\ undelivered' \in [Calls -> BOOLEAN]
    BY DEF Agent, RInv, TypeOK
  <1>4. CASE s.steps <= MaxSteps /\ Put(c, [s EXCEPT !.next = "model_tools", !.final = "none"])
    <2> DEFINE t == [s EXCEPT !.next = "model_tools", !.final = "none"]
    <2>1. t \in Threads /\ Sound(t)
      BY <1>1, <1>2, <1>4 DEF Threads, Sound
    <2> QED
      BY <1>1, <1>3, <1>4, <2>1, PutPreservesRInv
  <1>5. ASSUME NEW k \in Candidates, Finish(c, s, k) PROVE RInv'
    <2> DEFINE t == [s EXCEPT !.next = "end", !.final = FinalGuard(k, s.last)]
    <2>1. s.last \in Results \cup {NoResult}
      BY <1>2 DEF Threads
    <2>2. FinalGuard(k, s.last) \in Finals
      BY <2>1, FinalGuardType
    <2>3. t \in Threads
      BY <1>2, <2>2 DEF Threads
    <2>4. t.next = "end" /\ t.approved = st[c].approved
      BY <1>1 DEF Threads
    <2>5. Sound(t)
      BY <1>1, <2>4 DEF Sound
    <2>6. Put(c, t)
      BY <1>5 DEF Finish
    <2> QED
      BY <1>1, <1>3, <2>3, <2>5, <2>6, PutPreservesRInv
  <1> QED
    BY <1>4, <1>5 DEF Agent, Candidates

LEMMA ModelToolsPreservesRInv ==
  ASSUME RInv, NEW c \in Calls, ModelTools(c)
  PROVE  RInv'
  <1>1. /\ st[c] \in Threads /\ Sound(st[c]) /\ st[c].next = "model_tools"
        /\ pc[c] = "graph" /\ pc = [pc EXCEPT ![c] = "graph"]
    BY AtNode DEF ModelTools
  <1>2. /\ UNCHANGED <<record, approvals, withdrawn, request, undelivered, pc,
                      ledger, answer>>
        /\ withdrawn' \subseteq Prints /\ undelivered' \in [Calls -> BOOLEAN]
        /\ owner \in [Prints -> Runs \cup {NoRun}] /\ st[c].run \in Runs \cup {NoRun}
    BY <1>1 DEF ModelTools, RInv, TypeOK, Threads
  <1>3. ASSUME NEW f \in Prints, Freeze(f, st[c].run),
               Put(c, [st[c] EXCEPT !.pending = f, !.next = "review"])
        PROVE  RInv'
    <2> DEFINE t == [st[c] EXCEPT !.pending = f, !.next = "review"]
    <2>1. t \in Threads /\ Sound(t)
      BY <1>1 DEF Threads, Sound
    <2>2. owner' \in [Prints -> Runs \cup {NoRun}]
      BY <1>2, <1>3 DEF Freeze
    <2> QED
      BY <1>1, <1>2, <1>3, <2>1, <2>2, PutPreservesRInv
  <1>4. CASE /\ Put(c, [st[c] EXCEPT !.pending = NoPrint, !.next = "agent"])
             /\ UNCHANGED owner
    <2> DEFINE t == [st[c] EXCEPT !.pending = NoPrint, !.next = "agent"]
    <2>1. t \in Threads /\ Sound(t)
      BY <1>1 DEF Threads, Sound
    <2> QED
      BY <1>1, <1>2, <1>4, <2>1, PutPreservesRInv
  <1> QED
    BY <1>3, <1>4 DEF ModelTools

LEMMA ReviewApprovePreservesRInv ==
  ASSUME RInv, NEW c \in Calls, ReviewApprove(c)
  PROVE  RInv'
  <1>1. /\ st[c] \in Threads /\ Sound(st[c]) /\ st[c].next = "review"
        /\ pc[c] = "graph" /\ pc = [pc EXCEPT ![c] = "graph"]
    BY AtNode DEF ReviewApprove, Decided
  <1>2. /\ UNCHANGED <<record, owner, approvals, withdrawn, request, pc, ledger, answer>>
        /\ owner' \in [Prints -> Runs \cup {NoRun}] /\ withdrawn' \subseteq Prints
        /\ undelivered' \in [Calls -> BOOLEAN]
    BY DEF ReviewApprove, Decided, RInv, TypeOK
  <1>3. named[c] \in approvals /\ named[c] \in Prints
    BY <1>1 DEF ReviewApprove, Decided, RInv, TypeOK
  <1>4. CASE Put(c, [st[c] EXCEPT !.approved = named[c], !.next = "execute_write"])
    <2> DEFINE t == [st[c] EXCEPT !.approved = named[c], !.next = "execute_write"]
    <2>1. t \in Threads /\ Sound(t)
      BY <1>1, <1>3 DEF Threads, Sound
    <2> QED
      BY <1>1, <1>2, <1>4, <2>1, PutPreservesRInv
  <1>5. CASE Put(c, [st[c] EXCEPT !.approved = NoPrint])
    <2> DEFINE t == [st[c] EXCEPT !.approved = NoPrint]
    <2>1. t \in Threads /\ Sound(t)
      BY <1>1 DEF Threads, Sound
    <2> QED
      BY <1>1, <1>2, <1>5, <2>1, PutPreservesRInv
  <1> QED
    BY <1>4, <1>5 DEF ReviewApprove

LEMMA ReviewEditPreservesRInv ==
  ASSUME RInv, NEW c \in Calls, ReviewEdit(c)
  PROVE  RInv'
  <1>1. /\ st[c] \in Threads /\ Sound(st[c]) /\ st[c].next = "review"
        /\ pc[c] = "graph" /\ pc = [pc EXCEPT ![c] = "graph"]
    BY AtNode DEF ReviewEdit, Decided
  <1>2. PICK f \in Prints : /\ Freeze(f, st[c].run)
                            /\ Put(c, [st[c] EXCEPT !.pending = f, !.approved = NoPrint])
    BY DEF ReviewEdit
  <1>3. st[c].pending \in Prints /\ st[c].run \in Runs \cup {NoRun}
    BY <1>1 DEF Sound, Threads
  <1>4. /\ UNCHANGED <<record, approvals, request, pc, ledger, answer>>
        /\ owner' \in [Prints -> Runs \cup {NoRun}] /\ withdrawn' \subseteq Prints
        /\ undelivered' \in [Calls -> BOOLEAN]
    BY <1>2, <1>3 DEF ReviewEdit, Decided, Freeze, RInv, TypeOK
  <1> DEFINE t == [st[c] EXCEPT !.pending = f, !.approved = NoPrint]
  <1>5. t \in Threads /\ Sound(t)
    BY <1>1 DEF Threads, Sound
  <1> QED
    BY <1>1, <1>2, <1>4, <1>5, PutPreservesRInv

LEMMA ReviewRejectPreservesRInv ==
  ASSUME RInv, NEW c \in Calls, ReviewReject(c)
  PROVE  RInv'
  <1>1. /\ st[c] \in Threads /\ Sound(st[c]) /\ st[c].next = "review"
        /\ pc[c] = "graph" /\ pc = [pc EXCEPT ![c] = "graph"]
    BY AtNode DEF ReviewReject, Decided
  <1>2. st[c].pending \in Prints
    BY <1>1 DEF Sound
  <1>3. /\ UNCHANGED <<record, approvals, request, pc, ledger, answer>>
        /\ owner' \in [Prints -> Runs \cup {NoRun}] /\ withdrawn' \subseteq Prints
        /\ undelivered' \in [Calls -> BOOLEAN]
    BY <1>2 DEF ReviewReject, Decided, RInv, TypeOK
  <1> DEFINE t == [st[c] EXCEPT !.pending = NoPrint, !.approved = NoPrint,
                                !.last = "REJECTED", !.next = "agent"]
  <1>4. t \in Threads /\ Sound(t)
    BY <1>1 DEF Threads, Sound
  <1>5. Put(c, t)
    BY DEF ReviewReject
  <1> QED
    BY <1>1, <1>3, <1>4, <1>5, PutPreservesRInv

LEMMA ExecuteEndsPreservesRInv ==
  ASSUME RInv, NEW c \in Calls, ExecuteEnds(c)
  PROVE  RInv'
  <1>1. /\ st[c] \in Threads /\ Sound(st[c]) /\ st[c].next = "execute_write"
        /\ pc[c] = "answered" /\ pc' = [pc EXCEPT ![c] = "graph"]
    BY DEF ExecuteEnds, RInv, TypeOK, Goto
  <1>2. /\ UNCHANGED <<record, owner, approvals, withdrawn, request, undelivered,
                      ledger, answer>>
        /\ owner' \in [Prints -> Runs \cup {NoRun}] /\ withdrawn' \subseteq Prints
        /\ undelivered' \in [Calls -> BOOLEAN]
    BY DEF ExecuteEnds, RInv, TypeOK
  <1> DEFINE t == [st[c] EXCEPT !.pending = NoPrint, !.approved = NoPrint, !.next = "agent"]
  <1>3. t \in Threads /\ Sound(t)
    BY <1>1 DEF Threads, Sound
  <1>4. Put(c, t)
    BY DEF ExecuteEnds
  <1> QED
    BY <1>1, <1>2, <1>3, <1>4, PutPreservesRInv

-----------------------------------------------------------------------------
(* Requests, and the steps of the write.                                    *)

(* The request of a call that has ended.                                    *)
Forget(c) == /\ kind' = [kind EXCEPT ![c] = "none"]
             /\ target' = [target EXCEPT ![c] = NoRun]
             /\ named' = [named EXCEPT ![c] = NoPrint]

(* A step that leaves the checkpoint and the audit alone and gives one call *)
(* a label and a state it may have there.                                   *)
LEMMA MovePreservesRInv ==
  ASSUME RInv, NEW c \in Calls, NEW label, NEW s \in Threads, Sound(s),
         pc' = [pc EXCEPT ![c] = label], label \in Live \cup {"ended"},
         pc[c] # "idle",
         st' = [st EXCEPT ![c] = s],
         label \in Writing \cup {"answered"} => s.next = "execute_write",
         label \in Writing => s.approved = s.pending,
         record' \in [Runs -> Records],
         undelivered' \in [Calls -> BOOLEAN],
         row' \in [Prints -> Ledger!RowStates],
         attempted' \in [Prints -> SUBSET Calls],
         \A f \in Prints : attempted'[f] # {} => f \in approvals,
         answer' \in [Prints -> Definitive \cup {"UNKNOWN_OUTCOME", NoResult}],
         UNCHANGED request \/ Forget(c),
         UNCHANGED <<history, saved>>
  PROVE  RInv'
  <1>1. TypeOK'
    <2>1. CASE UNCHANGED request
      BY <2>1 DEF RInv, TypeOK
    <2>2. CASE Forget(c)
      BY <2>2 DEF RInv, TypeOK, Forget
    <2> QED
      BY <2>1, <2>2
  <1>2. \A d \in Calls : CallOK(d)
    BY DEF RInv, CallOK
  <1>3. \A d \in Calls : kind'[d] = "approve" => kind[d] = "approve" /\ named'[d] = named[d]
    BY DEF RInv, TypeOK, Forget
  <1>4. \A d \in Calls : st'[d] = IF d = c THEN s ELSE st[d]
    BY DEF RInv, TypeOK
  <1>5. \A d \in Calls : pc'[d] = IF d = c THEN label ELSE pc[d]
    BY DEF RInv, TypeOK
  <1>6. ASSUME NEW d \in Calls PROVE CallOK(d)'
    BY <1>2, <1>3, <1>4, <1>5 DEF CallOK, Sound
  <1>7. Sound(saved)'
    BY DEF RInv, Sound
  <1>8. OnlyApprovedIsAttempted'
    BY DEF OnlyApprovedIsAttempted
  <1> QED
    BY <1>1, <1>6, <1>7, <1>8 DEF RInv, CallOK

LEMMA CreatePreservesRInv ==
  ASSUME RInv, NEW c \in Calls, NEW r \in Runs, Create(c, r)
  PROVE  RInv'
  <1>1. /\ pc' = [pc EXCEPT ![c] = "starting"]
        /\ kind' = [kind EXCEPT ![c] = "create"]
        /\ target' = [target EXCEPT ![c] = r]
        /\ UNCHANGED <<history, saved, named, undelivered, st, ledger, answer>>
    BY DEF Create, Goto
  <1>2. record' \in [Runs -> Records]
    BY DEF Create, SetRecord, Records, RInv, TypeOK
  <1>3. TypeOK'
    BY <1>1, <1>2 DEF RInv, TypeOK
  <1>4. ASSUME NEW d \in Calls PROVE CallOK(d)'
    BY <1>1 DEF RInv, TypeOK, CallOK, Sound
  <1>5. Sound(saved)' /\ OnlyApprovedIsAttempted'
    BY <1>1 DEF RInv, Sound, OnlyApprovedIsAttempted
  <1> QED
    BY <1>3, <1>4, <1>5 DEF RInv, CallOK

LEMMA StartPreservesRInv ==
  ASSUME RInv, NEW c \in Calls, Start(c)
  PROVE  RInv'
  <1>1. /\ pc' = [pc EXCEPT ![c] = "graph"] /\ pc[c] = "starting"
        /\ st' = [st EXCEPT ![c] = Fresh(target[c])] /\ saved' = Fresh(target[c])
        /\ UNCHANGED <<record, history, request, undelivered, ledger, answer>>
    BY DEF Start, Goto
  <1>2. target[c] \in Runs \cup {NoRun}
    BY DEF RInv, TypeOK
  <1>3. Fresh(target[c]) \in Threads /\ Sound(Fresh(target[c]))
    BY <1>2, FreshIsSound
  <1>4. TypeOK'
    BY <1>1, <1>3 DEF RInv, TypeOK
  <1>5. \A d \in Calls : CallOK(d)
    BY DEF RInv, CallOK
  <1>6. \A d \in Calls : /\ st'[d] = IF d = c THEN Fresh(target[c]) ELSE st[d]
                         /\ pc'[d] = IF d = c THEN "graph" ELSE pc[d]
    BY <1>1 DEF RInv, TypeOK
  <1>7. ASSUME NEW d \in Calls PROVE CallOK(d)'
    BY <1>1, <1>3, <1>5, <1>6 DEF CallOK, Sound
  <1>8. Sound(saved)' /\ OnlyApprovedIsAttempted'
    BY <1>1, <1>3 DEF RInv, Sound, OnlyApprovedIsAttempted
  <1> QED
    BY <1>4, <1>7, <1>8 DEF RInv, CallOK

(* An approval is on record before the graph hears of it.                   *)
LEMMA AskPreservesRInv ==
  ASSUME RInv, NEW c \in Calls, NEW r \in Runs, NEW k \in Reviews, Ask(c, r, k)
  PROVE  RInv'
  <1> DEFINE f == record[r].pending
  <1>1. f \in Prints
    BY DEF Ask, Reviewable, RInv, TypeOK, Records
  <1>2. /\ pc' = [pc EXCEPT ![c] = "resuming"] /\ pc[c] = "idle"
        /\ kind' = [kind EXCEPT ![c] = k]
        /\ target' = [target EXCEPT ![c] = r]
        /\ named' = [named EXCEPT ![c] = f]
        /\ approvals' = IF k = "approve" THEN approvals \cup {f} ELSE approvals
        /\ UNCHANGED <<record, owner, withdrawn, saved, undelivered, st, ledger, answer>>
    BY DEF Ask, Goto, MayBegin
  <1>3. TypeOK'
    BY <1>1, <1>2 DEF RInv, TypeOK
  <1>4. approvals \subseteq approvals'
    BY <1>2
  <1>5. ASSUME NEW d \in Calls PROVE CallOK(d)'
    <2>1. CASE d = c
      BY <1>2, <1>4, <2>1 DEF RInv, TypeOK, CallOK, Sound
    <2>2. CASE d # c
      BY <1>2, <1>4, <2>2 DEF RInv, TypeOK, CallOK, Sound
    <2> QED
      BY <2>1, <2>2
  <1>6. Sound(saved)' /\ OnlyApprovedIsAttempted'
    BY <1>2, <1>4 DEF RInv, Sound, OnlyApprovedIsAttempted
  <1> QED
    BY <1>3, <1>5, <1>6 DEF RInv, CallOK

(* What MovePreservesRInv asks of everything a step leaves alone.           *)
LEMMA Unmoved ==
  ASSUME RInv
  PROVE  /\ record \in [Runs -> Records]
         /\ undelivered \in [Calls -> BOOLEAN]
         /\ row \in [Prints -> Ledger!RowStates]
         /\ attempted \in [Prints -> SUBSET Calls]
         /\ \A f \in Prints : attempted[f] # {} => f \in approvals
         /\ answer \in [Prints -> Definitive \cup {"UNKNOWN_OUTCOME", NoResult}]
         /\ \A c \in Calls : st[c] \in Threads /\ Sound(st[c]) /\ st = [st EXCEPT ![c] = st[c]]
  BY DEF RInv, TypeOK, OnlyApprovedIsAttempted

LEMMA ResumePreservesRInv ==
  ASSUME RInv, NEW c \in Calls, Resume(c)
  PROVE  RInv'
  <1>1. saved \in Threads /\ Sound(saved)
    BY DEF RInv, TypeOK
  <1>2. /\ pc' = [pc EXCEPT ![c] = "graph"] /\ pc[c] # "idle"
        /\ st' = [st EXCEPT ![c] = saved]
        /\ undelivered' \in [Calls -> BOOLEAN]
        /\ UNCHANGED <<record, history, saved, request, ledger, answer>>
    BY Unmoved DEF Resume, Goto
  <1> QED
    BY <1>1, <1>2, Unmoved, MovePreservesRInv

(* WriteService returned a status.                                          *)
LEMMA ReturnedIsSound ==
  ASSUME RInv, NEW c \in Calls, NEW status \in Results,
         st[c].next = "execute_write", Returned(c, status)
  PROVE  \E s \in Threads : /\ Sound(s) /\ s.next = "execute_write"
                            /\ st' = [st EXCEPT ![c] = s]
                            /\ pc' = [pc EXCEPT ![c] = "answered"]
  <1> DEFINE s == [st[c] EXCEPT !.last = status]
  <1>1. s \in Threads /\ Sound(s) /\ s.next = "execute_write"
    BY Unmoved DEF Threads, Sound
  <1> QED
    BY <1>1 DEF Returned, Goto

LEMMA ReturnedPreservesRInv ==
  ASSUME RInv, NEW c \in Calls, NEW status \in Results,
         st[c].next = "execute_write", pc[c] # "idle", Returned(c, status),
         row' \in [Prints -> Ledger!RowStates],
         answer' \in [Prints -> Definitive \cup {"UNKNOWN_OUTCOME", NoResult}],
         UNCHANGED <<record, history, saved, request, undelivered, attempted>>
  PROVE  RInv'
  <1>1. PICK s \in Threads : /\ Sound(s) /\ s.next = "execute_write"
                            /\ st' = [st EXCEPT ![c] = s]
                            /\ pc' = [pc EXCEPT ![c] = "answered"]
    BY ReturnedIsSound
  <1> QED
    BY <1>1, Unmoved, MovePreservesRInv

LEMMA WriteLooksUpPreservesRInv ==
  ASSUME RInv, NEW c \in Calls, WriteLooksUp(c)
  PROVE  RInv'
  <1>1. st[c].next = "execute_write" /\ pc[c] # "idle"
    BY AtNode DEF WriteLooksUp
  <1>2. UNCHANGED <<record, history, saved, request, undelivered, ledger, answer>>
    BY DEF WriteLooksUp
  <1>3. CASE Returned(c, "FAILED")
    BY <1>1, <1>2, <1>3, Unmoved, ReturnedPreservesRInv
  <1>4. CASE st[c].approved = st[c].pending /\ Goto(c, "looked") /\ UNCHANGED st
    BY <1>1, <1>2, <1>4, Unmoved, MovePreservesRInv DEF Goto
  <1>5. CASE /\ answer[st[c].pending] \in Definitive
             /\ Returned(c, answer[st[c].pending])
    BY <1>1, <1>2, <1>5, Unmoved, ReturnedPreservesRInv
  <1>6. CASE st[c].approved = st[c].pending /\ Goto(c, "recovering") /\ UNCHANGED st
    BY <1>1, <1>2, <1>6, Unmoved, MovePreservesRInv DEF Goto
  <1> QED
    BY <1>3, <1>4, <1>5, <1>6 DEF WriteLooksUp

(* A call that writes has an action that a reviewer approved.               *)
LEMMA WritingIsApproved ==
  ASSUME RInv, NEW c \in Calls, pc[c] \in Writing
  PROVE  /\ st[c].next = "execute_write" /\ pc[c] # "idle"
         /\ st[c].approved = st[c].pending
         /\ st[c].pending \in Prints /\ st[c].pending \in approvals
  <1>1. st[c].next = "execute_write" /\ st[c].approved = st[c].pending
    BY DEF RInv
  <1>2. st[c].pending \in Prints
    BY <1>1 DEF RInv, Sound
  <1> QED
    BY <1>1, <1>2, ReviewConstants DEF RInv, Sound

LEMMA WriteRefusesPreservesRInv ==
  ASSUME RInv, NEW c \in Calls, WriteRefuses(c)
  PROVE  RInv'
  <1>1. /\ pc[c] \in Writing /\ Returned(c, "PRECONDITION_FAILED")
        /\ UNCHANGED <<record, history, saved, request, undelivered, ledger, answer>>
    BY DEF WriteRefuses
  <1> QED
    BY <1>1, WritingIsApproved, Unmoved, ReturnedPreservesRInv

LEMMA WriteClaimsPreservesRInv ==
  ASSUME RInv, NEW c \in Calls, WriteClaims(c)
  PROVE  RInv'
  <1>1. /\ pc[c] \in Writing
        /\ UNCHANGED <<record, history, saved, request, undelivered, answer>>
    BY DEF WriteClaims
  <1>2. CASE Ledger!Open(st[c].pending) /\ Goto(c, "claimed") /\ UNCHANGED st
    <2>1. row' = [row EXCEPT ![st[c].pending] = "open"] /\ UNCHANGED attempted
      BY <1>2 DEF Ledger!Open
    <2>2. row' \in [Prints -> Ledger!RowStates]
      BY <2>1, Unmoved DEF Ledger!RowStates
    <2> QED
      BY <1>1, <1>2, <2>1, <2>2, WritingIsApproved, Unmoved, MovePreservesRInv DEF Goto
  <1>3. CASE Goto(c, "recovering") /\ UNCHANGED <<ledger, st>>
    BY <1>1, <1>3, WritingIsApproved, Unmoved, MovePreservesRInv DEF Goto
  <1>4. CASE /\ answer[st[c].pending] # NoResult
             /\ Returned(c, answer[st[c].pending]) /\ UNCHANGED ledger
    <2>1. answer[st[c].pending] \in Results
      BY <1>1, <1>4, WritingIsApproved, Unmoved
    <2> QED
      BY <1>1, <1>4, <2>1, WritingIsApproved, Unmoved, ReturnedPreservesRInv
  <1> QED
    BY <1>2, <1>3, <1>4 DEF WriteClaims

LEMMA WriteAttemptsPreservesRInv ==
  ASSUME RInv, NEW c \in Calls, WriteAttempts(c)
  PROVE  RInv'
  <1>1. /\ pc[c] \in Writing /\ pc' = [pc EXCEPT ![c] = "attempted"]
        /\ UNCHANGED <<record, history, saved, request, undelivered, st, answer>>
    BY DEF WriteAttempts, Goto
  <1>2. attempted' = [attempted EXCEPT ![st[c].pending] = {c}] /\ UNCHANGED row
    BY DEF WriteAttempts, Ledger!Attempt
  <1>3. /\ attempted' \in [Prints -> SUBSET Calls]
        /\ \A f \in Prints : attempted'[f] # {} => f \in approvals
    BY <1>1, <1>2, WritingIsApproved, Unmoved
  <1> QED
    BY <1>1, <1>2, <1>3, WritingIsApproved, Unmoved, MovePreservesRInv

LEMMA WriteAnswersPreservesRInv ==
  ASSUME RInv, NEW c \in Calls, WriteAnswers(c)
  PROVE  RInv'
  <1>1. /\ pc[c] \in Writing
        /\ UNCHANGED <<record, history, saved, request, undelivered>>
    BY DEF WriteAnswers
  <1>2. row' = [row EXCEPT ![st[c].pending] = "answered"] /\ UNCHANGED attempted
    BY DEF WriteAnswers, Ledger!Answer
  <1>3. row' \in [Prints -> Ledger!RowStates]
    BY <1>2, Unmoved DEF Ledger!RowStates
  <1>4. PICK status \in Definitive \cup {"UNKNOWN_OUTCOME"} :
           /\ answer' = [answer EXCEPT ![st[c].pending] = status]
           /\ Returned(c, status)
    BY DEF WriteAnswers
  <1>5. answer' \in [Prints -> Definitive \cup {"UNKNOWN_OUTCOME", NoResult}]
    BY <1>4, Unmoved
  <1> QED
    BY <1>1, <1>2, <1>3, <1>4, <1>5, WritingIsApproved, ReturnedPreservesRInv

-----------------------------------------------------------------------------
(* The ends of a call.                                                      *)

LEMMA LeavePreservesRInv ==
  ASSUME RInv, NEW c \in Calls, NEW label \in {"reporting", "ended"}, Leave(c, label),
         pc[c] # "idle",
         record' \in [Runs -> Records],
         UNCHANGED request \/ Forget(c),
         UNCHANGED <<history, saved, ledger, answer>>
  PROVE  RInv'
  <1>1. /\ pc' = [pc EXCEPT ![c] = label] /\ st' = [st EXCEPT ![c] = Fresh(NoRun)]
        /\ undelivered' = [undelivered EXCEPT ![c] = FALSE]
    BY DEF Leave, Goto
  <1>2. Fresh(NoRun) \in Threads /\ Sound(Fresh(NoRun))
    BY FreshIsSound
  <1>3. undelivered' \in [Calls -> BOOLEAN]
    BY <1>1, Unmoved
  <1> QED
    BY <1>1, <1>2, <1>3, Unmoved, MovePreservesRInv

LEMMA EndPreservesRInv ==
  ASSUME RInv, NEW c \in Calls, End(c), pc[c] # "idle",
         record' \in [Runs -> Records],
         UNCHANGED <<history, saved, ledger, answer>>
  PROVE  RInv'
  BY LeavePreservesRInv DEF End, Forget

(* A row is updated with a status, a pending action and a final response.   *)
LEMMA SetRecordType ==
  ASSUME RInv, NEW r, NEW status \in Terminal \cup {"WAITING_FOR_REVIEW"},
         NEW pending \in Prints \cup {NoPrint}, NEW final \in Finals,
         SetRecord(r, status, pending, final)
  PROVE  record' \in [Runs -> Records]
  BY DEF RInv, TypeOK, SetRecord, Records

LEMMA WaitPreservesRInv ==
  ASSUME RInv, NEW c \in Calls, Wait(c)
  PROVE  RInv'
  <1>1. pc[c] # "idle" /\ st[c].pending \in Prints /\ Leave(c, "reporting")
    BY AtNode DEF Wait, Sound
  <1>2. record' \in [Runs -> Records]
    BY <1>1 DEF Wait, SetRecord, RInv, TypeOK, Records
  <1> QED
    BY <1>1, <1>2, LeavePreservesRInv DEF Wait

LEMMA CompletePreservesRInv ==
  ASSUME RInv, NEW c \in Calls, Complete(c)
  PROVE  RInv'
  <1>1. pc[c] # "idle" /\ st[c] \in Threads /\ Leave(c, "reporting")
    BY AtNode DEF Complete
  <1>2. st[c].final \in Finals
    BY <1>1 DEF Threads
  <1>3. record' \in [Runs -> Records]
    BY <1>2, SetRecordType DEF Complete
  <1> QED
    BY <1>1, <1>3, LeavePreservesRInv DEF Complete

LEMMA ReplyPreservesRInv ==
  ASSUME RInv, NEW c \in Calls, Reply(c)
  PROVE  RInv'
  BY Unmoved, EndPreservesRInv DEF Reply

LEMMA RaisePreservesRInv ==
  ASSUME RInv, NEW c \in Calls, Raise(c)
  PROVE  RInv'
  <1>1. pc[c] # "idle" /\ End(c)
    BY DEF Raise
  <1>2. record' \in [Runs -> Records]
    BY DEF Raise, SetRecord, RInv, TypeOK, Records
  <1> QED
    BY <1>1, <1>2, EndPreservesRInv DEF Raise

LEMMA CrashPreservesRInv ==
  ASSUME RInv, Crash
  PROVE  RInv'
  <1>1. Fresh(NoRun) \in Threads /\ Sound(Fresh(NoRun))
    BY FreshIsSound
  <1>2. /\ pc' = [c \in Calls |-> IF pc[c] \in Live THEN "ended" ELSE pc[c]]
        /\ st' = [c \in Calls |-> Fresh(NoRun)]
        /\ undelivered' = [c \in Calls |-> FALSE]
        /\ kind' = [c \in Calls |-> "none"]
        /\ target' = [c \in Calls |-> NoRun]
        /\ named' = [c \in Calls |-> NoPrint]
        /\ UNCHANGED <<record, history, saved, ledger, answer>>
    BY DEF Crash
  <1>3. TypeOK'
    BY <1>1, <1>2 DEF RInv, TypeOK
  <1>4. ASSUME NEW c \in Calls PROVE CallOK(c)'
    <2>1. pc'[c] \notin Writing \cup {"answered"} /\ kind'[c] # "approve"
      BY <1>2 DEF RInv, TypeOK
    <2> QED
      BY <1>1, <1>2, <2>1 DEF RInv, CallOK, Sound
  <1>5. Sound(saved)' /\ OnlyApprovedIsAttempted'
    BY <1>2 DEF RInv, Sound, OnlyApprovedIsAttempted
  <1> QED
    BY <1>3, <1>4, <1>5 DEF RInv, CallOK

LEMMA StutterPreservesRInv == RInv /\ UNCHANGED vars => RInv'
  BY DEF RInv, vars, TypeOK, Sound, OnlyApprovedIsAttempted

-----------------------------------------------------------------------------
(* Theorems.                                                                *)

LEMMA NextPreservesRInv == RInv /\ [Next]_vars => RInv'
  <1> SUFFICES ASSUME RInv, Next \/ UNCHANGED vars PROVE RInv'
    OBVIOUS
  <1>1. ASSUME NEW c \in Calls, NEW r \in Runs,
               Create(c, r) \/ \E k \in Reviews : Ask(c, r, k)
        PROVE  RInv'
    BY <1>1, CreatePreservesRInv, AskPreservesRInv
  <1>2. ASSUME NEW c \in Calls, Node(c) PROVE RInv'
    BY <1>2, AgentPreservesRInv, ModelToolsPreservesRInv, ReviewApprovePreservesRInv,
       ReviewEditPreservesRInv, ReviewRejectPreservesRInv, WriteLooksUpPreservesRInv,
       WriteRefusesPreservesRInv, WriteClaimsPreservesRInv, WriteAttemptsPreservesRInv,
       WriteAnswersPreservesRInv, ExecuteEndsPreservesRInv DEF Node
  <1>3. ASSUME NEW c \in Calls, Step(c) PROVE RInv'
    BY <1>2, <1>3, StartPreservesRInv, ResumePreservesRInv, WaitPreservesRInv,
       CompletePreservesRInv, ReplyPreservesRInv, RaisePreservesRInv DEF Step
  <1> QED
    BY <1>1, <1>3, CrashPreservesRInv, StutterPreservesRInv DEF Next

(* RInv is invariant, for any number of requests, runs and proposals.       *)
THEOREM ReviewInvariance == Spec => []RInv
  BY InitRInv, NextPreservesRInv, PTL DEF Spec

(* Every variable of ReviewFlow keeps its type.                             *)
THEOREM ReviewTypeCorrect == Spec => []TypeOK
  <1>1. RInv => TypeOK
    BY DEF RInv
  <1> QED
    BY <1>1, ReviewInvariance, PTL

(* No interleaving of requests, failures and crashes, on however many runs  *)
(* of the thread, attempts a mutation no reviewer approved by name.         *)
THEOREM ApprovalIsRequired == Spec => []OnlyApprovedIsAttempted
  <1>1. RInv => OnlyApprovedIsAttempted
    BY DEF RInv
  <1> QED
    BY <1>1, ReviewInvariance, PTL

-----------------------------------------------------------------------------
(***************************************************************************)
(* Clients that wait for an answer before the next request (Serial): what  *)
(* is withdrawn is never attempted, the final response is true, and a      *)
(* finished run is final.                                                  *)
(***************************************************************************)

(* The invariant.                                                           *)

(* A call that executes the graph, and one that is past WriteService's      *)
(* claim or reconciles.                                                     *)
Working == Writing \cup {"graph", "answered"}
Deciding == {"claimed", "attempted", "recovering"}

Untouched(r) == \A f \in Prints : owner[f] = r => attempted[f] = {}
Verified(r) == \E f \in Prints : owner[f] = r /\ answer[f] = "VERIFIED"

NoWrite == {"informational", "incomplete", "nothing_written"}
Truthful(final, r) == /\ final = "write_verified" => Verified(r)
                      /\ final \in NoWrite => Untouched(r)

(* Nobody else is served meanwhile.                                         *)
Alone(c) == \A d \in Calls \ {c} : pc[d] \notin Live

(* The row of the run a call works for is as the call found or made it.     *)
RowIsKept(c) ==
    pc[c] # "reporting" =>
        /\ target[c] \in Runs /\ kind[c] \in Reviews \cup {"create"}
        /\ pc[c] = "resuming" => kind[c] # "create"
        /\ record[target[c]].status = IF kind[c] = "create" THEN "RUNNING"
                                      ELSE "WAITING_FOR_REVIEW"

(* A run that is created has done nothing yet.                              *)
RunIsNew(c) ==
    pc[c] = "starting" => /\ kind[c] = "create" /\ record[target[c]].final = "none"
                          /\ \A f \in Prints : owner[f] # target[c]

(* A call works on the latest checkpoint; what it has of the write comes    *)
(* from the answer on record.                                               *)
CopyIsLatest(c) ==
    /\ pc[c] \in Working => saved.run \in Runs
    /\ pc[c] \in Working \ {"answered"} => st[c] = saved
    /\ pc[c] = "answered" => /\ st[c] = [saved EXCEPT !.last = st[c].last]
                             /\ st[c].last \in Results
                             /\ st[c].last = "VERIFIED" => answer[saved.pending] = "VERIFIED"
    /\ pc[c] \in Deciding => answer[saved.pending] \notin Definitive

Serves(c) == pc[c] \in Live => Alone(c) /\ RowIsKept(c) /\ RunIsNew(c) /\ CopyIsLatest(c)

(* A fingerprint that was used for anything was frozen for a run that       *)
(* exists, the pending one for the run of the thread.                       *)
Owned ==
    /\ \A f \in withdrawn : owner[f] # NoRun
    /\ \A f \in Prints : attempted[f] # {} => owner[f] # NoRun
    /\ \A f \in Prints : row[f] = "absent" => answer[f] = NoResult
    /\ saved.pending \in Prints => saved.run \in Runs /\ owner[saved.pending] = saved.run

Exists(r) == record[r].status # "absent"

RunsExist ==
    /\ \A f \in Prints : owner[f] \in Runs => Exists(owner[f])
    /\ saved.run \in Runs => Exists(saved.run)
    /\ \A r \in Runs : record[r].status = "WAITING_FOR_REVIEW" => saved.run \in Runs

(* The thread: its pending action was not withdrawn, and not attempted      *)
(* before the write; its last result and its final response are true.       *)
ThreadIsTrue ==
    /\ saved.pending \notin withdrawn
    /\ saved.next = "review" => attempted[saved.pending] = {}
    /\ saved.last = NoResult /\ saved.next # "execute_write" => Untouched(saved.run)
    /\ saved.last = "VERIFIED" => Verified(saved.run)
    /\ saved.next = "end" => Truthful(saved.final, saved.run)

(* The row of the run of the thread has the final response of the thread.   *)
FinalIsReported ==
    saved.run \in Runs /\ record[saved.run].final # "none" =>
        saved.next = "end" /\ record[saved.run].final = saved.final

Thread == ThreadIsTrue /\ FinalIsReported

SInv == /\ RInv /\ WithdrawnIsNeverAttempted
        /\ \A c \in Calls : Serves(c)
        /\ Owned /\ RunsExist /\ Thread

-----------------------------------------------------------------------------
(* What the invariant says of a call that is served.                        *)

(* The statuses and responses of FinalGuard that speak of the write.        *)
LEMMA FinalGuardTruth ==
  ASSUME NEW k \in Candidates, NEW last \in Results \cup {NoResult}
  PROVE  /\ FinalGuard(k, last) = "write_verified" => last = "VERIFIED"
         /\ FinalGuard(k, last) \in NoWrite => last = NoResult
  BY DEF FinalGuard, Report, Candidates, NoWrite

LEMMA SentinelsAreNew == NoPrint \notin Prints /\ NoRun \notin Runs
  BY ReviewConstants

LEMMA ServedCall ==
  ASSUME SInv, NEW c \in Calls, pc[c] \in Working
  PROVE  /\ Alone(c) /\ RowIsKept(c) /\ CopyIsLatest(c)
         /\ st[c] \in Threads /\ saved \in Threads
         /\ saved.run \in Runs /\ Exists(saved.run)
         /\ st[c].run = saved.run /\ st[c].pending = saved.pending
         /\ st[c].next = saved.next
         /\ saved.next # "end" => record[saved.run].final = "none"
  <1>1. Alone(c) /\ RowIsKept(c) /\ CopyIsLatest(c)
    BY DEF SInv, Serves, Working
  <1>2. st[c] \in Threads /\ saved \in Threads
    BY DEF SInv, RInv, TypeOK
  <1>3. saved.run \in Runs
    BY <1>1 DEF CopyIsLatest
  <1>4. /\ st[c].run = saved.run /\ st[c].pending = saved.pending
        /\ st[c].next = saved.next
    BY <1>1, <1>2 DEF CopyIsLatest, Working, Threads
  <1>5. Exists(saved.run) /\ (saved.next # "end" => record[saved.run].final = "none")
    BY <1>3 DEF SInv, RunsExist, Thread, FinalIsReported
  <1> QED
    BY <1>1, <1>2, <1>3, <1>4, <1>5

LEMMA ServedAtNode ==
  ASSUME SInv, NEW c \in Calls, NEW node \in Nodes, At(c, node)
  PROVE  /\ pc[c] = "graph" /\ pc = [pc EXCEPT ![c] = "graph"]
         /\ Alone(c) /\ RowIsKept(c)
         /\ st[c] = saved /\ saved.next = node /\ saved \in Threads
         /\ saved.run \in Runs /\ Exists(saved.run)
         /\ node # "end" => record[saved.run].final = "none"
         /\ RInv /\ Owned /\ RunsExist /\ Thread /\ WithdrawnIsNeverAttempted
  <1>1. pc[c] = "graph" /\ st[c].next = node
    BY DEF At
  <1>2. pc = [pc EXCEPT ![c] = "graph"]
    BY <1>1 DEF SInv, RInv, TypeOK
  <1>3. st[c] = saved
    BY <1>1 DEF SInv, Serves, CopyIsLatest, Working
  <1> QED
    BY <1>1, <1>2, <1>3, ServedCall DEF SInv, Working

(* Of the other calls nothing has to be said.                               *)
LEMMA OneServes ==
  ASSUME SInv, NEW c \in Calls, Alone(c), NEW label, pc' = [pc EXCEPT ![c] = label],
         label \in Live => RowIsKept(c)' /\ RunIsNew(c)' /\ CopyIsLatest(c)'
  PROVE  \A d \in Calls : Serves(d)'
  <1>1. \A d \in Calls : pc'[d] = IF d = c THEN label ELSE pc[d]
    BY DEF SInv, RInv, TypeOK
  <1>2. Alone(c)'
    BY <1>1 DEF Alone
  <1>3. ASSUME NEW d \in Calls PROVE Serves(d)'
    <2>1. CASE d = c
      BY <1>1, <1>2, <2>1 DEF Serves
    <2>2. CASE d # c
      BY <1>1, <2>2 DEF Serves, Alone
    <2> QED
      BY <2>1, <2>2
  <1> QED
    BY <1>3

(* A step that leaves the rows, the thread and the ledger alone.            *)
LEMMA QuietStep ==
  ASSUME SInv, UNCHANGED <<record, owner, withdrawn, saved, row, attempted, answer>>
  PROVE  Owned' /\ RunsExist' /\ Thread' /\ WithdrawnIsNeverAttempted'
  BY DEF SInv, Owned, RunsExist, Exists, Thread, ThreadIsTrue, FinalIsReported, Truthful,
         Verified, Untouched, WithdrawnIsNeverAttempted

-----------------------------------------------------------------------------
(* Nodes of the graph.                                                      *)

(* A node has put the state s of the same run, and may have frozen an       *)
(* action for it.                                                           *)
LEMMA PutPreservesSInv ==
  ASSUME SInv, NEW c \in Calls, NEW s \in Threads, Put(c, s),
         pc[c] \in {"graph", "answered"}, pc' = [pc EXCEPT ![c] = "graph"],
         saved.next # "end", s.run = saved.run,
         UNCHANGED <<record, kind, target>>,
         \A f \in Prints : owner'[f] \in {owner[f], saved.run},
         RInv', WithdrawnIsNeverAttempted', Owned', ThreadIsTrue'
  PROVE  SInv'
  <1>1. /\ Alone(c) /\ RowIsKept(c) /\ CopyIsLatest(c)
        /\ saved.run \in Runs /\ Exists(saved.run)
        /\ record[saved.run].final = "none"
    BY ServedCall DEF Working
  <1>2. saved' = s /\ st'[c] = s /\ pc'[c] = "graph"
    BY DEF Put, SInv, RInv, TypeOK
  <1>3. RowIsKept(c)' /\ RunIsNew(c)' /\ CopyIsLatest(c)'
    BY <1>1, <1>2 DEF RowIsKept, RunIsNew, CopyIsLatest, Working, Deciding
  <1>4. \A d \in Calls : Serves(d)'
    BY <1>1, <1>3, OneServes
  <1>5. RunsExist'
    BY <1>1, <1>2 DEF SInv, RunsExist, Exists
  <1>6. Thread'
    BY <1>1, <1>2 DEF Thread, FinalIsReported
  <1> QED
    BY <1>4, <1>5, <1>6 DEF SInv

LEMMA AgentPreservesSInv ==
  ASSUME SInv, NEW c \in Calls, Agent(c)
  PROVE  SInv'
  <1> DEFINE s == [st[c] EXCEPT !.steps = @ + 1]
  <1>1. /\ pc[c] = "graph" /\ pc = [pc EXCEPT ![c] = "graph"]
        /\ st[c] = saved /\ saved.next = "agent" /\ saved \in Threads
        /\ RInv /\ Owned /\ Thread /\ WithdrawnIsNeverAttempted
    BY ServedAtNode DEF Agent
  <1>2. RInv'
    BY <1>1, AgentPreservesRInv
  <1>3. /\ UNCHANGED <<record, owner, approvals, withdrawn, kind, target, undelivered, pc,
                      row, attempted, answer>>
        /\ WithdrawnIsNeverAttempted'
    BY <1>1 DEF Agent, WithdrawnIsNeverAttempted
  <1>4. saved' \in Threads
    BY <1>2 DEF RInv, TypeOK
  <1>5. ASSUME NEW next \in {"model_tools", "end"}, NEW final,
               Put(c, [s EXCEPT !.next = next, !.final = final]),
               next = "end" => Truthful(final, saved.run)
        PROVE  SInv'
    <2> DEFINE t == [s EXCEPT !.next = next, !.final = final]
    <2>1. /\ t.run = saved.run /\ t.pending = saved.pending /\ t.last = saved.last
          /\ t.next = next /\ t.final = final
      BY <1>1 DEF Threads
    <2>2. saved' = t /\ t \in Threads
      BY <1>4, <1>5 DEF Put
    <2> HIDE DEF t, s
    <2>3. Owned'
      BY <1>1, <1>3, <2>1, <2>2 DEF Owned
    <2>4. ThreadIsTrue'
      BY <1>1, <1>3, <1>5, <2>1, <2>2 DEF Thread, ThreadIsTrue, Untouched, Verified, Truthful
    <2>5. Put(c, t)
      BY <1>5 DEF t
    <2> QED
      BY <1>1, <1>2, <1>3, <2>1, <2>2, <2>3, <2>4, <2>5, PutPreservesSInv
  <1>6. ASSUME NEW k \in Candidates, Finish(c, s, k) PROVE SInv'
    <2>1. s.last = saved.last /\ saved.last \in Results \cup {NoResult}
      BY <1>1 DEF Threads
    <2>2. Truthful(FinalGuard(k, s.last), saved.run)
      BY <1>1, <2>1, FinalGuardTruth DEF Truthful, Thread, ThreadIsTrue
    <2>3. Put(c, [s EXCEPT !.next = "end", !.final = FinalGuard(k, s.last)])
      BY <1>6 DEF Finish
    <2> QED
      BY <1>5, <2>2, <2>3
  <1>7. CASE Put(c, [s EXCEPT !.next = "model_tools", !.final = "none"])
    BY <1>5, <1>7
  <1> QED
    BY <1>6, <1>7 DEF Agent, Candidates

(* A frozen fingerprint is new.                                             *)
LEMMA FrozenIsNew ==
  ASSUME SInv, NEW f \in Prints, saved.run \in Runs, Freeze(f, saved.run)
  PROVE  /\ f \notin withdrawn /\ attempted[f] = {} /\ f # saved.pending
         /\ owner'[f] = saved.run /\ saved.run # NoRun
         /\ \A g \in Prints : owner'[g] = IF g = f THEN saved.run ELSE owner[g]
  BY SentinelsAreNew DEF SInv, Owned, Freeze, RInv, TypeOK

LEMMA ModelToolsPreservesSInv ==
  ASSUME SInv, NEW c \in Calls, ModelTools(c)
  PROVE  SInv'
  <1>1. /\ pc[c] = "graph" /\ pc = [pc EXCEPT ![c] = "graph"]
        /\ st[c] = saved /\ saved.next = "model_tools" /\ saved \in Threads
        /\ saved.run \in Runs
        /\ RInv /\ Owned /\ Thread /\ WithdrawnIsNeverAttempted
    BY ServedAtNode DEF ModelTools
  <1>2. RInv'
    BY <1>1, ModelToolsPreservesRInv
  <1>3. /\ UNCHANGED <<record, approvals, withdrawn, kind, target, undelivered, pc,
                      row, attempted, answer>>
        /\ WithdrawnIsNeverAttempted'
    BY <1>1 DEF ModelTools, WithdrawnIsNeverAttempted
  <1>4. ASSUME NEW f \in Prints, Freeze(f, st[c].run),
               Put(c, [st[c] EXCEPT !.pending = f, !.next = "review"])
        PROVE  SInv'
    <2> DEFINE t == [st[c] EXCEPT !.pending = f, !.next = "review"]
    <2>1. /\ t \in Threads /\ t.run = saved.run /\ t.last = saved.last
          /\ t.pending = f /\ t.next = "review" /\ saved' = t
      BY <1>1, <1>4 DEF Threads, Put
    <2>2. /\ f \notin withdrawn /\ attempted[f] = {} /\ owner'[f] = saved.run
          /\ saved.run # NoRun
          /\ \A g \in Prints : owner'[g] = IF g = f THEN saved.run ELSE owner[g]
      BY <1>1, <1>4, FrozenIsNew
    <2> HIDE DEF t
    <2>3. Owned'
      BY <1>1, <1>3, <2>1, <2>2 DEF Owned, RInv, TypeOK
    <2>4. ThreadIsTrue'
      BY <1>1, <1>3, <2>1, <2>2 DEF Thread, ThreadIsTrue, Untouched, Verified
    <2>5. Put(c, t)
      BY <1>4 DEF t
    <2> QED
      BY <1>1, <1>2, <1>3, <2>1, <2>2, <2>3, <2>4, <2>5, PutPreservesSInv
  <1>5. CASE /\ Put(c, [st[c] EXCEPT !.pending = NoPrint, !.next = "agent"])
             /\ UNCHANGED owner
    <2> DEFINE t == [st[c] EXCEPT !.pending = NoPrint, !.next = "agent"]
    <2>1. /\ t \in Threads /\ t.run = saved.run /\ t.last = saved.last
          /\ t.pending = NoPrint /\ t.next = "agent" /\ saved' = t
      BY <1>1, <1>5 DEF Threads, Put
    <2> HIDE DEF t
    <2>2. Owned' /\ (saved.pending \notin withdrawn)'
      BY <1>1, <1>3, <1>5, <2>1, SentinelsAreNew DEF Owned, RInv, TypeOK
    <2>3. ThreadIsTrue'
      BY <1>1, <1>3, <1>5, <2>1, <2>2 DEF Thread, ThreadIsTrue, Untouched, Verified
    <2>4. Put(c, t)
      BY <1>5 DEF t
    <2> QED
      BY <1>1, <1>2, <1>3, <1>5, <2>1, <2>2, <2>3, <2>4, PutPreservesSInv
  <1> QED
    BY <1>4, <1>5 DEF ModelTools

LEMMA ReviewApprovePreservesSInv ==
  ASSUME SInv, NEW c \in Calls, ReviewApprove(c)
  PROVE  SInv'
  <1>1. /\ pc[c] = "graph" /\ pc = [pc EXCEPT ![c] = "graph"]
        /\ st[c] = saved /\ saved.next = "review" /\ saved \in Threads
        /\ RInv /\ Owned /\ Thread /\ WithdrawnIsNeverAttempted
    BY ServedAtNode DEF ReviewApprove, Decided
  <1>2. RInv'
    BY <1>1, ReviewApprovePreservesRInv
  <1>3. /\ UNCHANGED <<record, owner, withdrawn, kind, target, pc, row, attempted, answer>>
        /\ WithdrawnIsNeverAttempted'
    BY <1>1 DEF ReviewApprove, WithdrawnIsNeverAttempted
  <1>4. PICK next \in {"review", "execute_write"}, approved \in Prints \cup {NoPrint} :
           Put(c, [saved EXCEPT !.approved = approved, !.next = next])
    <2>1. [saved EXCEPT !.approved = NoPrint]
             = [saved EXCEPT !.approved = NoPrint, !.next = "review"]
      BY <1>1 DEF Threads
    <2>2. named[c] \in Prints \cup {NoPrint}
      BY <1>1 DEF RInv, TypeOK
    <2> QED
      BY <1>1, <2>1, <2>2 DEF ReviewApprove
  <1> DEFINE t == [saved EXCEPT !.approved = approved, !.next = next]
  <1>5. /\ t.run = saved.run /\ t.last = saved.last /\ t.pending = saved.pending
        /\ t.next = next /\ saved' = t /\ Put(c, t)
    BY <1>1, <1>4 DEF Threads, Put
  <1> HIDE DEF t
  <1>6. t \in Threads
    BY <1>2, <1>5 DEF RInv, TypeOK
  <1>7. Owned'
    BY <1>1, <1>3, <1>5 DEF Owned
  <1>8. ThreadIsTrue'
    BY <1>1, <1>3, <1>5 DEF Thread, ThreadIsTrue, Untouched, Verified
  <1> QED
    BY <1>1, <1>2, <1>3, <1>5, <1>6, <1>7, <1>8, PutPreservesSInv

LEMMA ReviewEditPreservesSInv ==
  ASSUME SInv, NEW c \in Calls, ReviewEdit(c)
  PROVE  SInv'
  <1>1. /\ pc[c] = "graph" /\ pc = [pc EXCEPT ![c] = "graph"]
        /\ st[c] = saved /\ saved.next = "review" /\ saved \in Threads
        /\ saved.run \in Runs
        /\ RInv /\ Owned /\ Thread /\ WithdrawnIsNeverAttempted
    BY ServedAtNode DEF ReviewEdit, Decided
  <1>2. RInv'
    BY <1>1, ReviewEditPreservesRInv
  <1>3. saved.pending \in Prints
    BY <1>1 DEF RInv, Sound
  <1>4. /\ UNCHANGED <<record, kind, target, pc, row, attempted, answer>>
        /\ withdrawn' = withdrawn \cup {saved.pending}
    BY <1>1 DEF ReviewEdit
  <1>5. PICK f \in Prints : /\ Freeze(f, saved.run)
                            /\ Put(c, [saved EXCEPT !.pending = f, !.approved = NoPrint])
    BY <1>1 DEF ReviewEdit
  <1>6. /\ f \notin withdrawn /\ attempted[f] = {} /\ f # saved.pending
        /\ owner'[f] = saved.run /\ saved.run # NoRun
        /\ \A g \in Prints : owner'[g] = IF g = f THEN saved.run ELSE owner[g]
    BY <1>1, <1>5, FrozenIsNew
  <1> DEFINE t == [saved EXCEPT !.pending = f, !.approved = NoPrint]
  <1>7. /\ t.run = saved.run /\ t.last = saved.last /\ t.pending = f
        /\ t.next = "review" /\ saved' = t /\ Put(c, t)
    BY <1>1, <1>5 DEF Threads, Put
  <1> HIDE DEF t
  <1>8. t \in Threads
    BY <1>2, <1>7 DEF RInv, TypeOK
  <1>9. WithdrawnIsNeverAttempted'
    BY <1>1, <1>4 DEF WithdrawnIsNeverAttempted, Thread, ThreadIsTrue
  <1>10. Owned'
    BY <1>1, <1>3, <1>4, <1>6, <1>7 DEF Owned, RInv, TypeOK
  <1>11. ThreadIsTrue'
    BY <1>1, <1>4, <1>6, <1>7 DEF Thread, ThreadIsTrue, Untouched, Verified
  <1> QED
    BY <1>1, <1>2, <1>4, <1>6, <1>7, <1>8, <1>9, <1>10, <1>11, PutPreservesSInv

LEMMA ReviewRejectPreservesSInv ==
  ASSUME SInv, NEW c \in Calls, ReviewReject(c)
  PROVE  SInv'
  <1>1. /\ pc[c] = "graph" /\ pc = [pc EXCEPT ![c] = "graph"]
        /\ st[c] = saved /\ saved.next = "review" /\ saved \in Threads
        /\ saved.run \in Runs
        /\ RInv /\ Owned /\ Thread /\ WithdrawnIsNeverAttempted
    BY ServedAtNode DEF ReviewReject, Decided
  <1>2. RInv'
    BY <1>1, ReviewRejectPreservesRInv
  <1>3. saved.pending \in Prints
    BY <1>1 DEF RInv, Sound
  <1>4. /\ UNCHANGED <<record, owner, kind, target, pc, row, attempted, answer>>
        /\ withdrawn' = withdrawn \cup {saved.pending}
    BY <1>1 DEF ReviewReject
  <1> DEFINE t == [saved EXCEPT !.pending = NoPrint, !.approved = NoPrint,
                               !.last = "REJECTED", !.next = "agent"]
  <1>5. Put(c, t)
    BY <1>1 DEF ReviewReject
  <1>6. /\ t.run = saved.run /\ t.last = "REJECTED" /\ t.pending = NoPrint
        /\ t.next = "agent" /\ saved' = t
    BY <1>1, <1>5 DEF Threads, Put
  <1> HIDE DEF t
  <1>7. t \in Threads
    BY <1>2, <1>6 DEF RInv, TypeOK
  <1>8. WithdrawnIsNeverAttempted'
    BY <1>1, <1>4 DEF WithdrawnIsNeverAttempted, Thread, ThreadIsTrue
  <1>9. saved.run # NoRun
    BY <1>1, SentinelsAreNew
  <1>10. Owned'
    BY <1>1, <1>3, <1>4, <1>6, <1>9, SentinelsAreNew DEF Owned, RInv, TypeOK
  <1>11. ThreadIsTrue'
    BY <1>1, <1>3, <1>4, <1>6, SentinelsAreNew DEF ThreadIsTrue, RInv, TypeOK
  <1> QED
    BY <1>1, <1>2, <1>4, <1>5, <1>6, <1>7, <1>8, <1>10, <1>11, PutPreservesSInv

LEMMA ExecuteEndsPreservesSInv ==
  ASSUME SInv, NEW c \in Calls, ExecuteEnds(c)
  PROVE  SInv'
  <1>1. /\ pc[c] = "answered" /\ pc' = [pc EXCEPT ![c] = "graph"]
        /\ RInv /\ Owned /\ Thread /\ WithdrawnIsNeverAttempted
    BY DEF ExecuteEnds, Goto, SInv
  <1>2. /\ st[c] \in Threads /\ st[c].run = saved.run /\ saved.run \in Runs
        /\ saved.next = st[c].next /\ CopyIsLatest(c) /\ st[c].pending = saved.pending
    BY <1>1, ServedCall DEF Working
  <1>3. RInv' /\ saved.next = "execute_write"
    BY <1>1, <1>2, ExecuteEndsPreservesRInv DEF RInv
  <1>4. /\ UNCHANGED <<record, owner, withdrawn, kind, target, row, attempted, answer>>
        /\ WithdrawnIsNeverAttempted'
    BY <1>1 DEF ExecuteEnds, WithdrawnIsNeverAttempted
  <1> DEFINE t == [st[c] EXCEPT !.pending = NoPrint, !.approved = NoPrint, !.next = "agent"]
  <1>5. Put(c, t)
    BY DEF ExecuteEnds
  <1>6. /\ t.run = saved.run /\ t.last = st[c].last /\ t.pending = NoPrint
        /\ t.next = "agent" /\ saved' = t
    BY <1>2, <1>5 DEF Threads, Put
  <1> HIDE DEF t
  <1>7. t \in Threads
    BY <1>3, <1>6 DEF RInv, TypeOK
  <1>8. Owned'
    BY <1>1, <1>4, <1>6, SentinelsAreNew DEF Owned
  <1>9. st[c].last # NoResult /\ (st[c].last = "VERIFIED" => Verified(saved.run))
    <2>1. saved.pending \in Prints
      BY <1>1, <1>3 DEF RInv, Sound
    <2> QED
      BY <1>1, <1>2, <2>1 DEF CopyIsLatest, Owned, Verified
  <1>10. ThreadIsTrue'
    BY <1>1, <1>4, <1>6, <1>9, SentinelsAreNew DEF ThreadIsTrue, Verified, RInv, TypeOK
  <1> QED
    BY <1>1, <1>3, <1>4, <1>5, <1>6, <1>7, <1>8, <1>10, PutPreservesSInv

-----------------------------------------------------------------------------
(* The steps of the write: the rows and the checkpoint stay as they are.    *)

LEMMA WriteStepPreservesSInv ==
  ASSUME SInv, NEW c \in Calls, pc[c] \in Working,
         NEW label \in Writing \cup {"answered"}, pc' = [pc EXCEPT ![c] = label],
         UNCHANGED <<record, owner, saved, kind, target>>,
         RInv', CopyIsLatest(c)', Owned', ThreadIsTrue', WithdrawnIsNeverAttempted'
  PROVE  SInv'
  <1>1. Alone(c) /\ RowIsKept(c) /\ pc[c] # "reporting"
    BY ServedCall DEF Working
  <1>2. pc'[c] = label
    BY DEF SInv, RInv, TypeOK
  <1>3. RowIsKept(c)' /\ RunIsNew(c)'
    BY <1>1, <1>2 DEF RowIsKept, RunIsNew
  <1>4. \A d \in Calls : Serves(d)'
    BY <1>1, <1>3, OneServes
  <1>5. RunsExist' /\ Thread'
    BY DEF SInv, RunsExist, Exists, Thread, FinalIsReported
  <1> QED
    BY <1>4, <1>5 DEF SInv

(* What the steps of the write know of the call.                            *)
LEMMA ServedWrite ==
  ASSUME SInv, NEW c \in Calls, pc[c] \in Working, st[c].next = "execute_write"
  PROVE  /\ RInv /\ Owned /\ Thread /\ WithdrawnIsNeverAttempted
         /\ CopyIsLatest(c) /\ saved.run \in Runs /\ saved.next = "execute_write"
         /\ st[c] \in Threads
         /\ st[c].pending = saved.pending /\ saved.pending \in Prints
         /\ owner[saved.pending] = saved.run /\ saved.run # NoRun
  <1>1. /\ CopyIsLatest(c) /\ saved.run \in Runs /\ saved.next = "execute_write"
        /\ st[c].pending = saved.pending /\ st[c] \in Threads
    BY ServedCall
  <1>2. saved.pending \in Prints
    BY <1>1 DEF SInv, RInv, Sound
  <1> QED
    BY <1>1, <1>2, SentinelsAreNew DEF SInv, Owned

LEMMA ServedWriting ==
  ASSUME SInv, NEW c \in Calls, pc[c] \in Writing
  PROVE  pc[c] \in Working /\ st[c].next = "execute_write" /\ st[c] = saved
  BY DEF SInv, RInv, Serves, CopyIsLatest, Working

(* A status was returned that the answer on record bears out.               *)
LEMMA ReturnedIsLatest ==
  ASSUME SInv, NEW c \in Calls, pc[c] \in Working, st[c] = saved,
         NEW status \in Results, Returned(c, status), UNCHANGED saved,
         saved.run \in Runs,
         status = "VERIFIED" => answer'[saved.pending] = "VERIFIED"
  PROVE  CopyIsLatest(c)' /\ pc' = [pc EXCEPT ![c] = "answered"]
  <1>1. pc' = [pc EXCEPT ![c] = "answered"] /\ pc'[c] = "answered"
    BY DEF Returned, Goto, SInv, RInv, TypeOK
  <1>2. st'[c] = [saved EXCEPT !.last = status] /\ saved \in Threads
    BY DEF Returned, SInv, RInv, TypeOK
  <1>3. st'[c].last = status
    BY <1>2 DEF Threads
  <1> QED
    BY <1>1, <1>2, <1>3 DEF CopyIsLatest, Working, Deciding

(* The step goes on to another place with the state it has.                 *)
LEMMA GoneOnIsLatest ==
  ASSUME SInv, NEW c \in Calls, pc[c] \in Working, st[c] = saved,
         NEW label \in Writing, Goto(c, label), UNCHANGED <<saved, st>>,
         saved.run \in Runs,
         label \in Deciding => answer'[saved.pending] \notin Definitive
  PROVE  CopyIsLatest(c)' /\ pc' = [pc EXCEPT ![c] = label]
  <1>1. pc' = [pc EXCEPT ![c] = label] /\ pc'[c] = label
    BY DEF Goto, SInv, RInv, TypeOK
  <1> QED
    BY <1>1 DEF CopyIsLatest, Working

LEMMA WriteLooksUpPreservesSInv ==
  ASSUME SInv, NEW c \in Calls, WriteLooksUp(c)
  PROVE  SInv'
  <1>1. pc[c] \in Working /\ st[c] = saved /\ st[c].next = "execute_write"
    BY ServedAtNode DEF WriteLooksUp, Working
  <1>2. saved.run \in Runs /\ RInv'
    BY <1>1, ServedWrite, WriteLooksUpPreservesRInv
  <1>3. UNCHANGED <<record, owner, withdrawn, saved, kind, target, row, attempted, answer>>
    BY DEF WriteLooksUp
  <1>4. Owned' /\ ThreadIsTrue' /\ WithdrawnIsNeverAttempted'
    BY <1>3, QuietStep DEF Thread
  <1>5. ASSUME NEW status \in Results, Returned(c, status),
               status = "VERIFIED" => answer[saved.pending] = "VERIFIED"
        PROVE  SInv'
    BY <1>1, <1>2, <1>3, <1>4, <1>5, ReturnedIsLatest, WriteStepPreservesSInv
  <1>6. ASSUME NEW label \in Writing, Goto(c, label), UNCHANGED st,
               label \in Deciding => answer[saved.pending] \notin Definitive
        PROVE  SInv'
    BY <1>1, <1>2, <1>3, <1>4, <1>6, GoneOnIsLatest, WriteStepPreservesSInv
  <1>7. CASE Returned(c, "FAILED")
    BY <1>5, <1>7
  <1>8. CASE Goto(c, "looked") /\ UNCHANGED st
    BY <1>6, <1>8 DEF Deciding
  <1>9. CASE /\ answer[saved.pending] \in Definitive
             /\ Returned(c, answer[saved.pending])
    BY <1>5, <1>9
  <1>10. CASE /\ answer[saved.pending] \notin Definitive
              /\ Goto(c, "recovering") /\ UNCHANGED st
    BY <1>6, <1>10
  <1> QED
    BY <1>1, <1>7, <1>8, <1>9, <1>10 DEF WriteLooksUp

LEMMA WriteRefusesPreservesSInv ==
  ASSUME SInv, NEW c \in Calls, WriteRefuses(c)
  PROVE  SInv'
  <1>1. pc[c] \in Working /\ st[c] = saved /\ st[c].next = "execute_write"
    BY ServedWriting DEF WriteRefuses
  <1>2. saved.run \in Runs /\ RInv'
    BY <1>1, ServedWrite, WriteRefusesPreservesRInv
  <1>3. /\ UNCHANGED <<record, owner, withdrawn, saved, kind, target, row, attempted, answer>>
        /\ Returned(c, "PRECONDITION_FAILED")
    BY DEF WriteRefuses
  <1>4. Owned' /\ ThreadIsTrue' /\ WithdrawnIsNeverAttempted'
    BY <1>3, QuietStep DEF Thread
  <1> QED
    BY <1>1, <1>2, <1>3, <1>4, ReturnedIsLatest, WriteStepPreservesSInv

LEMMA WriteClaimsPreservesSInv ==
  ASSUME SInv, NEW c \in Calls, WriteClaims(c)
  PROVE  SInv'
  <1>1. pc[c] \in Working /\ st[c] = saved /\ st[c].next = "execute_write"
    BY ServedWriting DEF WriteClaims
  <1>2. /\ saved.run \in Runs /\ RInv' /\ saved.pending \in Prints /\ RInv
        /\ Owned /\ Thread /\ WithdrawnIsNeverAttempted
    BY <1>1, ServedWrite, WriteClaimsPreservesRInv
  <1>3. UNCHANGED <<record, owner, withdrawn, saved, kind, target, answer>>
    BY DEF WriteClaims
  <1>4. CASE Ledger!Open(saved.pending) /\ Goto(c, "claimed") /\ UNCHANGED st
    <2>1. /\ row[saved.pending] = "absent"
          /\ row' = [row EXCEPT ![saved.pending] = "open"] /\ UNCHANGED attempted
      BY <1>4 DEF Ledger!Open
    <2>2. answer[saved.pending] = NoResult
      BY <1>2, <2>1 DEF Owned
    <2>3. Owned'
      BY <1>2, <1>3, <2>1 DEF Owned, RInv, TypeOK
    <2>4. ThreadIsTrue' /\ WithdrawnIsNeverAttempted'
      BY <1>2, <1>3, <2>1 DEF Thread, ThreadIsTrue, Truthful, Untouched, Verified,
                              WithdrawnIsNeverAttempted
    <2> QED
      BY <1>1, <1>2, <1>3, <1>4, <2>2, <2>3, <2>4, GoneOnIsLatest, WriteStepPreservesSInv
  <1>5. CASE /\ answer[saved.pending] = NoResult
             /\ Goto(c, "recovering") /\ UNCHANGED <<ledger, st>>
    <2>1. Owned' /\ ThreadIsTrue' /\ WithdrawnIsNeverAttempted'
      BY <1>3, <1>5, QuietStep DEF Thread
    <2> QED
      BY <1>1, <1>2, <1>3, <1>5, <2>1, GoneOnIsLatest, WriteStepPreservesSInv
  <1>6. CASE /\ answer[saved.pending] # NoResult
             /\ Returned(c, answer[saved.pending]) /\ UNCHANGED ledger
    <2>1. Owned' /\ ThreadIsTrue' /\ WithdrawnIsNeverAttempted'
      BY <1>3, <1>6, QuietStep DEF Thread
    <2>2. answer[saved.pending] \in Results
      BY <1>2, <1>6 DEF RInv, TypeOK
    <2> QED
      BY <1>1, <1>2, <1>3, <1>6, <2>1, <2>2, ReturnedIsLatest, WriteStepPreservesSInv
  <1> QED
    BY <1>1, <1>4, <1>5, <1>6 DEF WriteClaims

(* The attempt: the pending action was not withdrawn.                       *)
LEMMA WriteAttemptsPreservesSInv ==
  ASSUME SInv, NEW c \in Calls, WriteAttempts(c)
  PROVE  SInv'
  <1>1. pc[c] \in Working /\ st[c] = saved /\ st[c].next = "execute_write"
    BY ServedWriting DEF WriteAttempts
  <1>2. /\ saved.run \in Runs /\ RInv' /\ saved.pending \in Prints /\ RInv
        /\ owner[saved.pending] = saved.run /\ saved.run # NoRun
        /\ Owned /\ Thread /\ WithdrawnIsNeverAttempted /\ saved.next = "execute_write"
        /\ CopyIsLatest(c)
    BY <1>1, ServedWrite, WriteAttemptsPreservesRInv
  <1>3. UNCHANGED <<record, owner, withdrawn, saved, kind, target, st, answer>>
    BY DEF WriteAttempts
  <1>4. attempted' = [attempted EXCEPT ![saved.pending] = {c}] /\ UNCHANGED row
    BY <1>1 DEF WriteAttempts, Ledger!Attempt
  <1>5. Owned'
    BY <1>2, <1>3, <1>4 DEF Owned, RInv, TypeOK
  <1>6. WithdrawnIsNeverAttempted'
    BY <1>2, <1>3, <1>4 DEF WithdrawnIsNeverAttempted, Thread, ThreadIsTrue, RInv, TypeOK
  <1>7. ThreadIsTrue'
    BY <1>2, <1>3, <1>4 DEF Thread, ThreadIsTrue, Verified
  <1>8. answer[saved.pending] \notin Definitive
    BY <1>2 DEF CopyIsLatest, Deciding, WriteAttempts
  <1>9. CopyIsLatest(c)' /\ pc' = [pc EXCEPT ![c] = "attempted"]
    BY <1>1, <1>2, <1>3, <1>8, GoneOnIsLatest DEF WriteAttempts
  <1> QED
    BY <1>1, <1>2, <1>3, <1>5, <1>6, <1>7, <1>9, WriteStepPreservesSInv

(* The answer replaces none that was definitive.                            *)
LEMMA WriteAnswersPreservesSInv ==
  ASSUME SInv, NEW c \in Calls, WriteAnswers(c)
  PROVE  SInv'
  <1>1. /\ pc[c] \in Working /\ st[c] = saved /\ st[c].next = "execute_write"
        /\ pc[c] \in Deciding
    BY ServedWriting DEF WriteAnswers, Deciding
  <1>2. /\ saved.run \in Runs /\ RInv' /\ saved.pending \in Prints /\ RInv
        /\ Owned /\ Thread /\ WithdrawnIsNeverAttempted /\ saved.next = "execute_write"
        /\ answer[saved.pending] \notin Definitive
    BY <1>1, ServedWrite, WriteAnswersPreservesRInv DEF CopyIsLatest
  <1>3. /\ UNCHANGED <<record, owner, withdrawn, saved, kind, target, attempted>>
        /\ row' = [row EXCEPT ![saved.pending] = "answered"]
    BY <1>1 DEF WriteAnswers, Ledger!Answer
  <1>4. PICK status \in Definitive \cup {"UNKNOWN_OUTCOME"} :
           /\ answer' = [answer EXCEPT ![saved.pending] = status]
           /\ Returned(c, status)
    BY <1>1 DEF WriteAnswers
  <1>5. /\ answer'[saved.pending] = status
        /\ \A f \in Prints : answer[f] = "VERIFIED" => answer'[f] = "VERIFIED"
    BY <1>2, <1>4 DEF RInv, TypeOK
  <1>6. Owned'
    BY <1>2, <1>3, <1>4 DEF Owned, RInv, TypeOK
  <1>7. WithdrawnIsNeverAttempted'
    BY <1>2, <1>3 DEF WithdrawnIsNeverAttempted
  <1>8. ThreadIsTrue'
    BY <1>2, <1>3, <1>5 DEF Thread, ThreadIsTrue, Verified
  <1>9. CopyIsLatest(c)' /\ pc' = [pc EXCEPT ![c] = "answered"]
    BY <1>1, <1>2, <1>3, <1>4, <1>5, ReturnedIsLatest
  <1> QED
    BY <1>1, <1>2, <1>3, <1>6, <1>7, <1>8, <1>9, WriteStepPreservesSInv

-----------------------------------------------------------------------------
(* Requests.                                                                *)

LEMMA CreatePreservesSInv ==
  ASSUME SInv, Serial, NEW c \in Calls, NEW r \in Runs, Create(c, r)
  PROVE  SInv'
  <1>1. /\ Alone(c) /\ record[r].status = "absent"
        /\ pc' = [pc EXCEPT ![c] = "starting"]
        /\ kind' = [kind EXCEPT ![c] = "create"]
        /\ target' = [target EXCEPT ![c] = r]
        /\ UNCHANGED <<history, saved, ledger, answer>>
    BY DEF Create, MayBegin, Goto, Alone
  <1>2. \A q \in Runs : record'[q] = IF q = r THEN [status |-> "RUNNING", pending |-> NoPrint,
                                                    final |-> "none"] ELSE record[q]
    BY DEF Create, SetRecord, SInv, RInv, TypeOK
  <1>3. \A f \in Prints : owner[f] # r
    BY <1>1 DEF SInv, RunsExist, Exists
  <1>4. pc'[c] = "starting" /\ kind'[c] = "create" /\ target'[c] = r
    BY <1>1 DEF SInv, RInv, TypeOK
  <1>5. RowIsKept(c)' /\ RunIsNew(c)' /\ CopyIsLatest(c)'
    BY <1>1, <1>2, <1>3, <1>4 DEF RowIsKept, RunIsNew, CopyIsLatest, Working, Deciding
  <1>6. \A d \in Calls : Serves(d)'
    BY <1>1, <1>5, OneServes
  <1>7. Owned' /\ WithdrawnIsNeverAttempted'
    BY <1>1 DEF SInv, Owned, WithdrawnIsNeverAttempted
  <1>8. RunsExist'
    BY <1>1, <1>2 DEF SInv, RunsExist, Exists
  <1>9. Thread'
    BY <1>1, <1>2 DEF SInv, Thread, ThreadIsTrue, FinalIsReported, Truthful, Verified, Untouched
  <1>10. RInv'
    BY CreatePreservesRInv DEF SInv
  <1> QED
    BY <1>6, <1>7, <1>8, <1>9, <1>10 DEF SInv

LEMMA AskPreservesSInv ==
  ASSUME SInv, Serial, NEW c \in Calls, NEW r \in Runs, NEW k \in Reviews, Ask(c, r, k)
  PROVE  SInv'
  <1>1. /\ Alone(c) /\ record[r].status = "WAITING_FOR_REVIEW"
        /\ pc' = [pc EXCEPT ![c] = "resuming"]
        /\ kind' = [kind EXCEPT ![c] = k]
        /\ target' = [target EXCEPT ![c] = r]
        /\ UNCHANGED <<record, owner, withdrawn, saved, row, attempted, answer>>
    BY DEF Ask, MayBegin, Reviewable, Goto, Alone
  <1>2. pc'[c] = "resuming" /\ kind'[c] = k /\ target'[c] = r
    BY <1>1 DEF SInv, RInv, TypeOK
  <1>3. RowIsKept(c)' /\ RunIsNew(c)' /\ CopyIsLatest(c)'
    BY <1>1, <1>2 DEF RowIsKept, RunIsNew, CopyIsLatest, Working, Deciding
  <1>4. \A d \in Calls : Serves(d)'
    BY <1>1, <1>3, OneServes
  <1>5. RInv'
    BY AskPreservesRInv DEF SInv
  <1> QED
    BY <1>1, <1>4, <1>5, QuietStep DEF SInv

(* What the invariant says of a call before it has a copy.                  *)
LEMMA ServedEntry ==
  ASSUME SInv, NEW c \in Calls, pc[c] \in {"starting", "resuming"}
  PROVE  /\ Alone(c) /\ RowIsKept(c) /\ RunIsNew(c) /\ target[c] \in Runs
         /\ record[target[c]].status \in {"RUNNING", "WAITING_FOR_REVIEW"}
  BY DEF SInv, Serves, RowIsKept

LEMMA StartPreservesSInv ==
  ASSUME SInv, NEW c \in Calls, Start(c)
  PROVE  SInv'
  <1>1. /\ pc' = [pc EXCEPT ![c] = "graph"] /\ pc[c] = "starting"
        /\ st' = [st EXCEPT ![c] = Fresh(target[c])] /\ saved' = Fresh(target[c])
        /\ UNCHANGED <<record, history, request, ledger, answer>>
    BY DEF Start, Goto
  <1>2. /\ Alone(c) /\ RowIsKept(c) /\ target[c] \in Runs /\ Exists(target[c])
        /\ record[target[c]].final = "none"
        /\ \A f \in Prints : owner[f] # target[c]
    BY <1>1, ServedEntry DEF RunIsNew, Exists
  <1>3. /\ saved'.run = target[c] /\ saved'.pending = NoPrint /\ saved'.next = "agent"
        /\ saved'.last = NoResult
    BY <1>1 DEF Fresh
  <1>4. pc'[c] = "graph" /\ st'[c] = saved'
    BY <1>1 DEF SInv, RInv, TypeOK
  <1>5. RowIsKept(c)' /\ RunIsNew(c)' /\ CopyIsLatest(c)'
    BY <1>1, <1>2, <1>3, <1>4 DEF RowIsKept, RunIsNew, CopyIsLatest, Working, Deciding
  <1>6. \A d \in Calls : Serves(d)'
    BY <1>1, <1>2, <1>5, OneServes
  <1>7. Owned' /\ WithdrawnIsNeverAttempted'
    BY <1>1, <1>3, SentinelsAreNew DEF SInv, Owned, WithdrawnIsNeverAttempted
  <1>8. RunsExist'
    BY <1>1, <1>2, <1>3 DEF SInv, RunsExist, Exists
  <1>9. ThreadIsTrue'
    BY <1>1, <1>2, <1>3, SentinelsAreNew DEF SInv, RInv, TypeOK, ThreadIsTrue, Untouched
  <1>10. FinalIsReported'
    BY <1>1, <1>2, <1>3 DEF FinalIsReported
  <1>11. RInv'
    BY StartPreservesRInv DEF SInv
  <1> QED
    BY <1>6, <1>7, <1>8, <1>9, <1>10, <1>11 DEF SInv, Thread

LEMMA ResumePreservesSInv ==
  ASSUME SInv, NEW c \in Calls, Resume(c)
  PROVE  SInv'
  <1>1. /\ pc' = [pc EXCEPT ![c] = "graph"] /\ pc[c] = "resuming"
        /\ st' = [st EXCEPT ![c] = saved]
        /\ UNCHANGED <<record, history, saved, request, ledger, answer>>
    BY DEF Resume, Goto
  <1>2. Alone(c) /\ RowIsKept(c) /\ target[c] \in Runs
    BY <1>1, ServedEntry
  <1>3. saved.run \in Runs
    BY <1>1, <1>2 DEF RowIsKept, SInv, RunsExist
  <1>4. pc'[c] = "graph" /\ st'[c] = saved
    BY <1>1 DEF SInv, RInv, TypeOK
  <1>5. RowIsKept(c)' /\ RunIsNew(c)' /\ CopyIsLatest(c)'
    BY <1>1, <1>2, <1>3, <1>4 DEF RowIsKept, RunIsNew, CopyIsLatest, Working, Deciding
  <1>6. \A d \in Calls : Serves(d)'
    BY <1>1, <1>2, <1>5, OneServes
  <1>7. RInv'
    BY ResumePreservesRInv DEF SInv
  <1> QED
    BY <1>1, <1>6, <1>7, QuietStep DEF SInv

-----------------------------------------------------------------------------
(* The ends of a call.                                                      *)

(* A call that leaves may only set the row of the run it works for, and     *)
(* the final response, if that changes, to the one of the thread.           *)
LEMMA LeavePreservesSInv ==
  ASSUME SInv, RInv', NEW c \in Calls, pc[c] \in Live,
         NEW label \in {"reporting", "ended"}, Leave(c, label),
         UNCHANGED <<history, saved, ledger, answer>>,
         \A r \in Runs : record'[r].status = "absent" => record[r].status = "absent",
         \A r \in Runs : record'[r].status = "WAITING_FOR_REVIEW" => saved.run \in Runs,
         \A r \in Runs : \/ record'[r].final = record[r].final
                         \/ saved.next = "end" /\ record'[r].final = saved.final
  PROVE  SInv'
  <1>1. pc' = [pc EXCEPT ![c] = label] /\ Alone(c)
    BY DEF Leave, Goto, SInv, Serves
  <1>2. pc'[c] = label
    BY <1>1 DEF SInv, RInv, TypeOK
  <1>3. label \in Live => RowIsKept(c)' /\ RunIsNew(c)' /\ CopyIsLatest(c)'
    BY <1>2 DEF RowIsKept, RunIsNew, CopyIsLatest, Working, Deciding
  <1>4. \A d \in Calls : Serves(d)'
    BY <1>1, <1>3, OneServes
  <1>5. Owned' /\ WithdrawnIsNeverAttempted'
    BY DEF SInv, Owned, WithdrawnIsNeverAttempted
  <1>6. RunsExist'
    BY DEF SInv, RunsExist, Exists
  <1>7. Thread'
    BY DEF SInv, Thread, ThreadIsTrue, FinalIsReported, Truthful, Verified, Untouched
  <1> QED
    BY <1>4, <1>5, <1>6, <1>7 DEF SInv

LEMMA WaitPreservesSInv ==
  ASSUME SInv, NEW c \in Calls, Wait(c)
  PROVE  SInv'
  <1>1. pc[c] \in Live /\ saved.run \in Runs
    BY ServedAtNode DEF Wait
  <1>2. ASSUME NEW r \in Runs
        PROVE  \/ record'[r] = record[r]
               \/ /\ record'[r].status = "WAITING_FOR_REVIEW"
                  /\ record'[r].final = record[r].final
    <2>1. CASE r = target[c]
      <3>1. record'[r] = [status |-> "WAITING_FOR_REVIEW", pending |-> st[c].pending,
                          final |-> record[r].final]
        BY <2>1 DEF Wait, SetRecord, SInv, RInv, TypeOK
      <3> QED
        BY <3>1
    <2>2. CASE r # target[c]
      BY <2>2 DEF Wait, SetRecord, SInv, RInv, TypeOK
    <2> QED
      BY <2>1, <2>2
  <1>3. RInv'
    BY WaitPreservesRInv DEF SInv
  <1>4. Leave(c, "reporting") /\ UNCHANGED <<history, saved, ledger, answer>>
    BY DEF Wait
  <1>5. /\ \A r \in Runs : record'[r].status = "absent" => record[r].status = "absent"
        /\ \A r \in Runs : record'[r].status = "WAITING_FOR_REVIEW" => saved.run \in Runs
        /\ \A r \in Runs : \/ record'[r].final = record[r].final
                           \/ /\ saved.next = "end"
                              /\ record'[r].final = saved.final
    BY <1>1, <1>2
  <1> QED
    BY <1>1, <1>3, <1>4, <1>5, LeavePreservesSInv

LEMMA CompletePreservesSInv ==
  ASSUME SInv, NEW c \in Calls, Complete(c)
  PROVE  SInv'
  <1>1. pc[c] \in Live /\ saved.run \in Runs /\ st[c] = saved /\ saved.next = "end"
    BY ServedAtNode DEF Complete
  <1>2. ASSUME NEW r \in Runs
        PROVE  \/ record'[r] = record[r]
               \/ /\ record'[r].status \in {"UNCERTAIN", "COMPLETED"}
                  /\ record'[r].final = saved.final
    <2>1. CASE r = target[c]
      <3>1. PICK status \in {"UNCERTAIN", "COMPLETED"} :
               record'[r] = [status |-> status, pending |-> NoPrint, final |-> saved.final]
        BY <1>1, <2>1 DEF Complete, SetRecord, SInv, RInv, TypeOK
      <3> QED
        BY <3>1
    <2>2. CASE r # target[c]
      BY <2>2 DEF Complete, SetRecord, SInv, RInv, TypeOK
    <2> QED
      BY <2>1, <2>2
  <1>3. RInv'
    BY CompletePreservesRInv DEF SInv
  <1>4. Leave(c, "reporting") /\ UNCHANGED <<history, saved, ledger, answer>>
    BY DEF Complete
  <1>5. /\ \A r \in Runs : record'[r].status = "absent" => record[r].status = "absent"
        /\ \A r \in Runs : record'[r].status = "WAITING_FOR_REVIEW" => saved.run \in Runs
        /\ \A r \in Runs : \/ record'[r].final = record[r].final
                           \/ /\ saved.next = "end"
                              /\ record'[r].final = saved.final
    BY <1>1, <1>2
  <1> QED
    BY <1>1, <1>3, <1>4, <1>5, LeavePreservesSInv

LEMMA ReplyPreservesSInv ==
  ASSUME SInv, NEW c \in Calls, Reply(c)
  PROVE  SInv'
  <1>1. /\ pc[c] \in Live /\ Leave(c, "ended")
        /\ UNCHANGED <<record, history, saved, ledger, answer>>
    BY DEF Reply, End
  <1>2. RInv'
    BY ReplyPreservesRInv DEF SInv
  <1>3. /\ \A r \in Runs : record'[r].status = "absent" => record[r].status = "absent"
        /\ \A r \in Runs : record'[r].status = "WAITING_FOR_REVIEW" => saved.run \in Runs
        /\ \A r \in Runs : \/ record'[r].final = record[r].final
                           \/ /\ saved.next = "end"
                              /\ record'[r].final = saved.final
    BY <1>1 DEF SInv, RunsExist
  <1> QED
    BY <1>1, <1>2, <1>3, LeavePreservesSInv

LEMMA RaisePreservesSInv ==
  ASSUME SInv, NEW c \in Calls, Raise(c)
  PROVE  SInv'
  <1>1. pc[c] \in Live /\ Leave(c, "ended") /\ UNCHANGED <<history, saved, ledger, answer>>
    BY DEF Raise, End
  <1>2. ASSUME NEW r \in Runs
        PROVE  \/ record'[r] = record[r]
               \/ /\ record'[r].status = "FAILED"
                  /\ record'[r].final = record[r].final
    <2>1. \/ record'[r] = record[r]
          \/ record'[r] = [status |-> "FAILED", pending |-> record[r].pending,
                           final |-> record[r].final]
      BY DEF Raise, SetRecord, SInv, RInv, TypeOK
    <2> QED
      BY <2>1
  <1>3. RInv'
    BY RaisePreservesRInv DEF SInv
  <1>4. /\ \A r \in Runs : record'[r].status = "absent" => record[r].status = "absent"
        /\ \A r \in Runs : record'[r].status = "WAITING_FOR_REVIEW" => saved.run \in Runs
        /\ \A r \in Runs : \/ record'[r].final = record[r].final
                           \/ /\ saved.next = "end"
                              /\ record'[r].final = saved.final
    BY <1>2 DEF SInv, RunsExist
  <1> QED
    BY <1>1, <1>3, <1>4, LeavePreservesSInv

LEMMA CrashPreservesSInv ==
  ASSUME SInv, Crash
  PROVE  SInv'
  <1>1. /\ pc' = [c \in Calls |-> IF pc[c] \in Live THEN "ended" ELSE pc[c]]
        /\ UNCHANGED <<record, history, saved, ledger, answer>>
    BY DEF Crash
  <1>2. \A c \in Calls : Serves(c)'
    BY <1>1 DEF Serves
  <1>3. RInv'
    BY CrashPreservesRInv DEF SInv
  <1> QED
    BY <1>1, <1>2, <1>3, QuietStep DEF SInv

LEMMA StutterPreservesSInv == SInv /\ UNCHANGED vars => SInv'
  <1> SUFFICES ASSUME SInv, UNCHANGED vars PROVE SInv'
    OBVIOUS
  <1>1. \A c \in Calls : Serves(c)'
    BY DEF vars, SInv, Serves, Alone, RowIsKept, RunIsNew, CopyIsLatest
  <1>2. RInv'
    BY StutterPreservesRInv DEF SInv
  <1> QED
    BY <1>1, <1>2, QuietStep DEF SInv, vars

-----------------------------------------------------------------------------
(* Theorems.                                                                *)

LEMMA InitSInv == Init => SInv
  <1> SUFFICES ASSUME Init PROVE SInv
    OBVIOUS
  <1>1. RInv
    BY InitRInv
  <1>2. /\ row = [f \in Prints |-> "absent"] /\ attempted = [f \in Prints |-> {}]
        /\ withdrawn = {} /\ \A c \in Calls : pc[c] = "idle"
        /\ \A f \in Prints : owner[f] = NoRun /\ answer[f] = NoResult
        /\ saved.run = NoRun /\ saved.pending = NoPrint /\ saved.next = "agent"
        /\ saved.last = NoResult /\ \A r \in Runs : record[r].status = "absent"
    BY DEF Init, Ledger!Init, Fresh, NoRecord
  <1>3. \A c \in Calls : Serves(c)
    BY <1>2 DEF Serves
  <1> QED
    BY <1>1, <1>2, <1>3, SentinelsAreNew
    DEF SInv, WithdrawnIsNeverAttempted, Owned, RunsExist, Thread, ThreadIsTrue,
        FinalIsReported, Untouched

LEMMA NextPreservesSInv == Serial /\ SInv /\ [Next]_vars => SInv'
  <1> SUFFICES ASSUME Serial, SInv, Next \/ UNCHANGED vars PROVE SInv'
    OBVIOUS
  <1>1. ASSUME NEW c \in Calls, NEW r \in Runs,
               Create(c, r) \/ \E k \in Reviews : Ask(c, r, k)
        PROVE  SInv'
    BY <1>1, CreatePreservesSInv, AskPreservesSInv
  <1>2. ASSUME NEW c \in Calls, Node(c) PROVE SInv'
    BY <1>2, AgentPreservesSInv, ModelToolsPreservesSInv, ReviewApprovePreservesSInv,
       ReviewEditPreservesSInv, ReviewRejectPreservesSInv, WriteLooksUpPreservesSInv,
       WriteRefusesPreservesSInv, WriteClaimsPreservesSInv, WriteAttemptsPreservesSInv,
       WriteAnswersPreservesSInv, ExecuteEndsPreservesSInv DEF Node
  <1>3. ASSUME NEW c \in Calls, Step(c) PROVE SInv'
    BY <1>2, <1>3, StartPreservesSInv, ResumePreservesSInv, WaitPreservesSInv,
       CompletePreservesSInv, ReplyPreservesSInv, RaisePreservesSInv DEF Step
  <1> QED
    BY <1>1, <1>3, CrashPreservesSInv, StutterPreservesSInv DEF Next

(* SInv is invariant when clients wait for their answers.                   *)
THEOREM SerialInvariance == ASSUME Serial PROVE Spec => []SInv
  <1>1. SInv /\ [Next]_vars => SInv'
    BY NextPreservesSInv
  <1> QED
    BY <1>1, InitSInv, PTL DEF Spec

(* When requests come one at a time, no action that the review node         *)
(* rejected or edited away is attempted, before or after, whatever fails or *)
(* crashes and however the requests go on with the thread.                  *)
THEOREM WithdrawnStaysUnattempted == ASSUME Serial PROVE Spec => []WithdrawnIsNeverAttempted
  <1>1. SInv => WithdrawnIsNeverAttempted
    BY DEF SInv
  <1> QED
    BY <1>1, SerialInvariance, PTL

(* The final response in the row of the run that owns the thread is true.   *)
LEMMA FinalIsTrue == SInv => FinalResponseIsTrue
  <1> SUFFICES ASSUME SInv, NEW r \in Runs, saved.run = r, record[r].final # "none"
               PROVE  Truthful(record[r].final, r)
    BY DEF FinalResponseIsTrue, Truthful, Verified, Untouched, NoWrite
  <1>1. saved.next = "end" /\ record[r].final = saved.final
    BY DEF SInv, Thread, FinalIsReported
  <1> QED
    BY <1>1 DEF SInv, Thread, ThreadIsTrue

(* When requests come one at a time, a response that says verified has a    *)
(* verified write behind it, one that claims no write was preceded by none. *)
THEOREM FinalResponseIsHonest == ASSUME Serial PROVE Spec => []FinalResponseIsTrue
  BY FinalIsTrue, SerialInvariance, PTL

(* A step changes the row of a run only for a call that works for it: one   *)
(* that has not reported finds it running or waiting.                       *)
LEMMA FinishedRowIsKept ==
  ASSUME SInv, Next, NEW r \in Runs, record[r].status \in Terminal, ~Creating(r)
  PROVE  record'[r] = record[r]
  <1>1. ASSUME NEW c \in Calls, NEW q \in Runs,
               Create(c, q) \/ \E k \in Reviews : Ask(c, q, k)
        PROVE  record'[r] = record[r]
    BY <1>1 DEF Create, SetRecord, Ask, SInv, RInv, TypeOK
  <1>2. ASSUME NEW c \in Calls, Wait(c) \/ Complete(c) PROVE record'[r] = record[r]
    <2>1. RowIsKept(c) /\ pc[c] # "reporting"
      BY <1>2, ServedAtNode DEF Wait, Complete
    <2>2. target[c] # r
      BY <2>1 DEF RowIsKept
    <2> QED
      BY <1>2, <2>2 DEF Wait, Complete, SetRecord, SInv, RInv, TypeOK
  <1>3. ASSUME NEW c \in Calls, Raise(c) PROVE record'[r] = record[r]
    <2>1. kind[c] = "create" => target[c] # r
      BY <1>3 DEF Raise, Creating
    <2> QED
      BY <1>3, <2>1 DEF Raise, SetRecord, SInv, RInv, TypeOK
  <1>4. ASSUME NEW c \in Calls, Node(c) \/ Start(c) \/ Resume(c) \/ Reply(c)
        PROVE  record'[r] = record[r]
    BY <1>4 DEF Node, Agent, ModelTools, ReviewApprove, ReviewEdit, ReviewReject,
       WriteLooksUp, WriteRefuses, WriteClaims, WriteAttempts, WriteAnswers, ExecuteEnds,
       Start, Resume, Reply
  <1>5. Crash => record'[r] = record[r]
    BY DEF Crash
  <1> QED
    BY <1>1, <1>2, <1>3, <1>4, <1>5 DEF Next, Step

(* A call that attempts works for a run that is running or waiting.         *)
LEMMA FinishedThreadIsQuiet ==
  ASSUME SInv, Next, \A r \in Runs : record[r].status \in Terminal \cup {"absent"}
  PROVE  attempted' = attempted
  <1>1. ASSUME NEW c \in Calls, WriteAttempts(c) PROVE FALSE
    <2>1. pc[c] = "claimed" /\ RowIsKept(c)
      BY <1>1, ServedCall DEF WriteAttempts, Working
    <2> QED
      BY <2>1 DEF RowIsKept
  <1>2. ASSUME NEW c \in Calls, Node(c) PROVE attempted' = attempted
    BY <1>1, <1>2 DEF Node, Agent, ModelTools, ReviewApprove, ReviewEdit, ReviewReject,
       WriteLooksUp, WriteRefuses, WriteClaims, WriteAnswers, ExecuteEnds,
       Ledger!Open, Ledger!Answer
  <1>3. ASSUME NEW c \in Calls, Step(c) PROVE attempted' = attempted
    BY <1>2, <1>3 DEF Step, Start, Resume, Wait, Complete, Reply, Raise
  <1>4. ASSUME NEW c \in Calls, NEW r \in Runs,
               Create(c, r) \/ \E k \in Reviews : Ask(c, r, k)
        PROVE  attempted' = attempted
    BY <1>4 DEF Create, Ask
  <1> QED
    BY <1>3, <1>4 DEF Next, Crash

(* The action of FinishedRunIsFinal.                                        *)
FinishedStays ==
    /\ \A r \in Runs : record[r].status \in Terminal /\ ~Creating(r)
                         => record'[r] = record[r]
    /\ (\A r \in Runs : record[r].status \in Terminal \cup {"absent"})
           => attempted' = attempted

(* When requests come one at a time, the row of a finished run changes no   *)
(* more, but for the POST /runs that is still reporting it, and when every  *)
(* run of the thread is finished, nothing of the thread is attempted.       *)
THEOREM FinishedRunStaysFinal == ASSUME Serial PROVE Spec => FinishedRunIsFinal
  <1>1. SInv /\ [Next]_vars => [FinishedStays]_vars
    BY FinishedRowIsKept, FinishedThreadIsQuiet DEF FinishedStays
  <1>2. Spec => [][FinishedStays]_vars
    BY <1>1, SerialInvariance, PTL DEF Spec
  <1> QED
    BY <1>2 DEF FinishedRunIsFinal, FinishedStays
=============================================================================
