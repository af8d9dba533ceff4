-------------------------- MODULE TaskQueueProofs --------------------------
(***************************************************************************)
(* Proofs about the queue file and TaskQueue for any tasks, datasets,      *)
(* processes and faults.                                                   *)
(***************************************************************************)
EXTENDS TaskQueue, FiniteSetTheorems, TLAPS

(* A file of the right type that is sound, as FileIsSound says of `file'.   *)
File == [active: Entry \cup {NoEntry}, queue: SUBSET Entry]

OnePerTask(q) == \A e, o \in q : e.task = o.task => e = o

FileOK(f) == /\ f \in File
             /\ f.active = NoEntry => f.queue = {}
             /\ \A e \in f.queue : ~IsActive(f, e.task)
             /\ OnePerTask(f.queue)

-----------------------------------------------------------------------------
(* Entries.                                                                 *)

LEMMA SomeRuns ==
  ASSUME NEW S \in SUBSET Datasets, S # {}
  PROVE  Cardinality(S) \in Nat \ {0}
  <1>1. IsFiniteSet(S)
    BY FileAssumption, FS_Subset
  <1> QED
    BY <1>1, FS_CardinalityType, FS_EmptySet

LEMMA RefreshEntryType ==
  ASSUME NEW e \in Entry, NEW c
  PROVE  RefreshEntry(e, c) \in Entry /\ RefreshEntry(e, c).task = e.task
  BY DEF RefreshEntry, Entry

LEMMA DrainType ==
  ASSUME NEW e \in Entry
  PROVE  Drain(e) \in Entry /\ Drain(e).task = e.task
  BY FileAssumption DEF Drain, Entry

LEMMA BuildEntryType ==
  ASSUME NEW t \in Tasks, NEW n \in Nat \ {0}, NEW p \in Prios, NEW at \in 0..MaxRank
  PROVE  BuildEntry(t, n, p, at) \in Entry /\ BuildEntry(t, n, p, at).task = t
  BY DEF BuildEntry, Entry

LEMMA AddRunsType ==
  ASSUME NEW e \in Entry, NEW n \in Nat \ {0}, NEW p \in Prios
  PROVE  AddRuns(e, n, p) \in Entry /\ AddRuns(e, n, p).task = e.task
  <1>1. e.remaining \in Nat \ {0}
    BY DEF Entry
  <1>2. e.remaining + n \in Nat \ {0}
    BY <1>1
  <1> QED
    BY <1>2 DEF AddRuns, Entry

LEMMA ActivateType ==
  ASSUME NEW e \in Entry, NEW s, Startable(e, s)
  PROVE  Activate(e, s) \in Entry /\ Activate(e, s).task = e.task
  <1>1. Todo(e, s) \in SUBSET Datasets /\ Todo(e, s) \cup Waits(e, s) \in SUBSET Datasets
    BY DEF Todo, Waits, Entry
  <1>2. e.pending # {} => Cardinality(Todo(e, s) \cup Waits(e, s)) \in Nat \ {0}
    BY <1>1, SomeRuns DEF Startable
  <1>3. 0 \in 0..MaxRank
    BY FileAssumption
  <1>4. CASE e.pending = {}
    BY <1>1, <1>3, <1>4 DEF Activate, Entry
  <1>5. CASE e.pending # {}
    BY <1>1, <1>2, <1>3, <1>5 DEF Activate, Entry
  <1> QED
    BY <1>4, <1>5

LEMMA PreemptedType ==
  ASSUME NEW e \in Entry, NEW at \in 1..MaxRank
  PROVE  Preempted(e, at) \in Entry /\ Preempted(e, at).task = e.task
  <1>1. DatasetsOf[e.task] \in SUBSET Datasets /\ DatasetsOf[e.task] # {}
    BY FileAssumption DEF Entry
  <1>2. Cardinality(DatasetsOf[e.task]) \in Nat \ {0}
    BY <1>1, SomeRuns
  <1>3. at \in 0..MaxRank
    BY FileAssumption
  <1> QED
    BY <1>1, <1>2, <1>3 DEF Preempted, Entry

(* An entry that is not used up by the counted runs still waits for one.    *)
LEMMA CountedType ==
  ASSUME NEW e \in Entry, NEW ids \in SUBSET RunIds, ~UsedUp(e, ids)
  PROVE  Counted(e, ids) \in Entry /\ Counted(e, ids).task = e.task
  <1>1. IsFiniteSet(ids \ e.completed)
    BY FileAssumption, FS_Subset
  <1>2. Counts(e, ids) \in Nat
    BY <1>1, FS_CardinalityType DEF Counts
  <1>3. e.remaining - Counts(e, ids) \in Nat \ {0}
    BY <1>2 DEF UsedUp, Entry
  <1> QED
    BY <1>3 DEF Counted, Entry

-----------------------------------------------------------------------------
(* The operations on the file.                                              *)

LEMMA EmptyOK == FileOK(Empty)
  BY DEF FileOK, File, OnePerTask, Empty

LEMMA RefreshOK ==
  ASSUME NEW f, FileOK(f), NEW c
  PROVE  /\ FileOK(Refresh(f, c))
         /\ \A t : IsActive(Refresh(f, c), t) <=> IsActive(f, t)
  <1> DEFINE g == Refresh(f, c)
  <1>1. f \in File /\ (f.active # NoEntry => f.active \in Entry)
    BY DEF FileOK, File
  <1>2. g \in File
    BY <1>1, RefreshEntryType DEF File, Refresh
  <1>3. f.active # NoEntry => /\ g.active = RefreshEntry(f.active, c)
                              /\ g.active # NoEntry /\ g.active.task = f.active.task
    BY <1>1, RefreshEntryType, FileAssumption DEF Refresh
  <1>4. f.active = NoEntry => g.active = NoEntry /\ g.queue = {}
    BY DEF Refresh, FileOK
  <1>5. \A t : IsActive(g, t) <=> IsActive(f, t)
    BY <1>3, <1>4 DEF IsActive
  <1>6. \A e \in g.queue : \E o \in f.queue : e = RefreshEntry(o, c) /\ e.task = o.task
    BY <1>1, RefreshEntryType DEF Refresh, File
  <1>7. OnePerTask(g.queue)
    BY <1>6 DEF OnePerTask, FileOK
  <1>8. \A e \in g.queue : ~IsActive(g, e.task)
    BY <1>5, <1>6 DEF FileOK
  <1> QED
    BY <1>2, <1>3, <1>4, <1>5, <1>7, <1>8 DEF FileOK

(* An active entry may be replaced by one of the same task.                 *)
LEMMA ReplaceActive ==
  ASSUME NEW f, FileOK(f), f.active # NoEntry, NEW a \in Entry, a.task = f.active.task
  PROVE  FileOK([active |-> a, queue |-> f.queue])
  BY FileAssumption DEF FileOK, File, IsActive

LEMMA SoftPreemptOK ==
  ASSUME NEW f, FileOK(f)
  PROVE  FileOK(SoftPreempt(f))
  <1>1. CASE ~Preempts(f)
    BY <1>1 DEF SoftPreempt
  <1>2. CASE Preempts(f)
    <2>1. f.active \in Entry /\ f.active # NoEntry
      BY <1>2 DEF Preempts, FileOK, File
    <2>2. Drain(f.active) \in Entry /\ Drain(f.active).task = f.active.task
      BY <2>1, DrainType
    <2>3. SoftPreempt(f) = [active |-> Drain(f.active), queue |-> f.queue]
      BY <1>2 DEF SoftPreempt
    <2> QED
      BY <2>1, <2>2, <2>3, ReplaceActive
  <1> QED
    BY <1>1, <1>2

LEMMA StartedOK ==
  ASSUME NEW f, FileOK(f), NEW t \in Tasks, NEW n \in Nat \ {0}, NEW p \in Prios, Starts(f, t)
  PROVE  FileOK(Started(f, t, n, p))
  <1>0. 0 \in 0..MaxRank
    BY FileAssumption
  <1>1. CASE f.active = NoEntry
    <2>1. Started(f, t, n, p) = [active |-> BuildEntry(t, n, p, 0), queue |-> {}]
      BY <1>1 DEF Started, FileOK
    <2>2. BuildEntry(t, n, p, 0) \in Entry
      BY <1>0, BuildEntryType
    <2> QED
      BY <2>1, <2>2, FileAssumption DEF FileOK, File, OnePerTask
  <1>2. CASE f.active # NoEntry
    <2>1. Started(f, t, n, p) = [active |-> AddRuns(f.active, n, p), queue |-> f.queue]
      BY <1>2 DEF Started
    <2>2. f.active \in Entry
      BY <1>2 DEF FileOK, File
    <2> QED
      BY <1>2, <2>1, <2>2, AddRunsType, ReplaceActive
  <1> QED
    BY <1>1, <1>2

(* A queue may be replaced by one without the active task.                  *)
LEMMA ReplaceQueue ==
  ASSUME NEW f, FileOK(f), f.active # NoEntry, NEW q \in SUBSET Entry, OnePerTask(q),
         \A e \in q : e.task # f.active.task
  PROVE  FileOK([active |-> f.active, queue |-> q])
  BY DEF FileOK, File, IsActive

LEMMA QueuedOK ==
  ASSUME NEW f, FileOK(f), NEW t \in Tasks, NEW n \in Nat \ {0}, NEW p \in Prios,
         ~Starts(f, t), NEW g \in Queued(f, t, n, p)
  PROVE  FileOK(g)
  <1>1. f.active # NoEntry /\ f.active.task # t /\ f.queue \in SUBSET Entry
    BY DEF Starts, FileOK, File
  <1>2. PICK q \in Enqueued(f.queue, t, n, p) : g = [active |-> f.active, queue |-> q]
    BY DEF Queued
  <1>3. OnePerTask(f.queue) /\ \A e \in f.queue : e.task # f.active.task
    BY <1>1 DEF FileOK, IsActive
  <1>4. CASE \E e \in f.queue : e.task = t
    <2>1. q = {IF e.task = t THEN AddRuns(e, n, p) ELSE e : e \in f.queue}
      BY <1>2, <1>4 DEF Enqueued
    <2>2. \A e \in f.queue : AddRuns(e, n, p) \in Entry /\ AddRuns(e, n, p).task = e.task
      BY <1>1, AddRunsType
    <2>3. \A e \in q : \E o \in f.queue :
            /\ e.task = o.task
            /\ e = IF o.task = t THEN AddRuns(o, n, p) ELSE o
      BY <2>1, <2>2
    <2>4. q \in SUBSET Entry
      BY <1>1, <2>1, <2>2
    <2>5. OnePerTask(q)
      BY <1>3, <2>3 DEF OnePerTask
    <2> QED
      BY <1>1, <1>2, <1>3, <2>3, <2>4, <2>5, ReplaceQueue
  <1>5. CASE ~\E e \in f.queue : e.task = t
    <2>1. PICK at \in LastPlaces(f.queue) : q = f.queue \cup {BuildEntry(t, n, p, at)}
      BY <1>2, <1>5 DEF Enqueued
    <2>2. at \in 0..MaxRank
      BY FileAssumption DEF LastPlaces
    <2>3. BuildEntry(t, n, p, at) \in Entry /\ BuildEntry(t, n, p, at).task = t
      BY <2>2, BuildEntryType
    <2>4. q \in SUBSET Entry /\ OnePerTask(q) /\ \A e \in q : e.task # f.active.task
      BY <1>1, <1>3, <1>5, <2>1, <2>3 DEF OnePerTask
    <2> QED
      BY <1>1, <1>2, <2>4, ReplaceQueue
  <1> QED
    BY <1>4, <1>5

(* Whatever queue a hand-over starts from, it activates a task if one of    *)
(* them can start, and leaves no queue otherwise.                           *)
LEMMA AdvancesOK ==
  ASSUME NEW q \in SUBSET Entry, OnePerTask(q), NEW s, NEW g \in Advances(q, s)
  PROVE  FileOK(g)
  <1> DEFINE ok == {e \in q : Startable(e, s)}
  <1>1. CASE ok = {}
    BY <1>1, EmptyOK DEF Advances
  <1>2. CASE ok # {}
    <2>1. PICK n \in Heads(ok) :
            g = [active |-> Activate(n, s), queue |-> {e \in q \ {n} : Before(n, e)}]
      BY <1>2 DEF Advances
    <2>2. n \in q /\ Startable(n, s)
      BY DEF Heads
    <2>3. Activate(n, s) \in Entry /\ Activate(n, s).task = n.task
      BY <2>2, ActivateType
    <2>4. g \in File /\ g.active # NoEntry
      BY <2>1, <2>3, FileAssumption DEF File
    <2>5. \A e \in g.queue : e \in q /\ e.task # n.task
      BY <2>1, <2>2 DEF OnePerTask
    <2>6. OnePerTask(g.queue)
      BY <2>5 DEF OnePerTask
    <2>7. \A e \in g.queue : ~IsActive(g, e.task)
      BY <2>1, <2>3, <2>5 DEF IsActive
    <2> QED
      BY <2>4, <2>6, <2>7 DEF FileOK
  <1> QED
    BY <1>1, <1>2

LEMMA RemovedOK ==
  ASSUME NEW f, FileOK(f), NEW t, NEW s, NEW g \in Removed(f, t, s)
  PROVE  FileOK(g)
  <1> DEFINE q == Without(f.queue, t)
  <1>1. q \in SUBSET Entry /\ OnePerTask(q) /\ q \subseteq f.queue
    BY DEF Without, FileOK, File, OnePerTask
  <1>2. CASE IsActive(f, t)
    BY <1>1, <1>2, AdvancesOK DEF Removed
  <1>3. CASE ~IsActive(f, t)
    <2>1. g = [active |-> f.active, queue |-> q]
      BY <1>3 DEF Removed
    <2>2. CASE f.active = NoEntry
      BY <1>1, <2>1, <2>2 DEF FileOK, File
    <2>3. CASE f.active # NoEntry
      <3>1. \A e \in q : e.task # f.active.task
        BY <1>1, <2>3 DEF FileOK, IsActive
      <3> QED
        BY <1>1, <2>1, <2>3, <3>1, ReplaceQueue
    <2> QED
      BY <2>2, <2>3
  <1> QED
    BY <1>2, <1>3

LEMMA MarkedOK ==
  ASSUME NEW f, FileOK(f), NEW t, NEW ids \in SUBSET RunIds, NEW s,
         NEW g \in Marked(f, t, ids, s)
  PROVE  FileOK(g)
  <1>1. f.queue \in SUBSET Entry /\ OnePerTask(f.queue)
    BY DEF FileOK, File
  <1>2. CASE IsActive(f, t) /\ UsedUp(f.active, ids)
    BY <1>1, <1>2, AdvancesOK DEF Marked
  <1>3. CASE IsActive(f, t) /\ ~UsedUp(f.active, ids)
    <2>1. f.active \in Entry /\ f.active # NoEntry
      BY <1>3 DEF IsActive, FileOK, File
    <2>2. Counted(f.active, ids) \in Entry /\ Counted(f.active, ids).task = f.active.task
      BY <1>3, <2>1, CountedType
    <2>3. g = [active |-> Counted(f.active, ids), queue |-> f.queue]
      BY <1>3 DEF Marked
    <2> QED
      BY <2>1, <2>2, <2>3, ReplaceActive
  <1>4. CASE ~IsActive(f, t)
    <2> DEFINE kept == {o \in f.queue : o.task # t \/ ~UsedUp(o, ids)}
               q == {IF e.task = t THEN Counted(e, ids) ELSE e : e \in kept}
    <2>1. g = [active |-> f.active, queue |-> q]
      BY <1>4 DEF Marked
    <2>2. \A e \in kept : e.task = t =>
            Counted(e, ids) \in Entry /\ Counted(e, ids).task = e.task
      BY <1>1, CountedType
    <2>3. \A e \in q : \E o \in f.queue :
            e.task = o.task /\ e = IF o.task = t THEN Counted(o, ids) ELSE o
      BY <2>2
    <2>4. q \in SUBSET Entry
      BY <1>1, <2>2
    <2>5. OnePerTask(q)
      BY <1>1, <2>3 DEF OnePerTask
    <2>6. CASE f.active = NoEntry
      <3>1. f.queue = {}
        BY <2>6 DEF FileOK
      <3>2. q = {}
        BY <3>1
      <3> QED
        BY <2>1, <2>6, <3>2 DEF FileOK, File, OnePerTask
    <2>7. CASE f.active # NoEntry
      <3>1. \A e \in f.queue : e.task # f.active.task
        BY <2>7 DEF FileOK, IsActive
      <3>2. \A e \in q : e.task # f.active.task
        BY <2>3, <3>1
      <3> QED
        BY <2>1, <2>4, <2>5, <2>7, <3>2, ReplaceQueue
    <2> QED
      BY <2>6, <2>7
  <1> QED
    BY <1>2, <1>3, <1>4

LEMMA DrainedOK ==
  ASSUME NEW f, FileOK(f), f.active # NoEntry, NEW s, NEW g \in Drained(f, s)
  PROVE  FileOK(g)
  <1>1. PICK at \in LastPlaces(f.queue) :
          g \in Advances(f.queue \cup {Preempted(f.active, at)}, s)
    BY DEF Drained
  <1>2. f.active \in Entry /\ at \in 1..MaxRank
    BY DEF FileOK, File, LastPlaces
  <1>3. Preempted(f.active, at) \in Entry /\ Preempted(f.active, at).task = f.active.task
    BY <1>2, PreemptedType
  <1>4. \A e \in f.queue : e.task # f.active.task
    BY DEF FileOK, IsActive
  <1>5. OnePerTask(f.queue \cup {Preempted(f.active, at)})
    BY <1>3, <1>4 DEF FileOK, OnePerTask
  <1>6. f.queue \cup {Preempted(f.active, at)} \in SUBSET Entry
    BY <1>3 DEF FileOK, File
  <1> QED
    BY <1>1, <1>5, <1>6, AdvancesOK

-----------------------------------------------------------------------------
(* The commands.  A command that is about to register runs has a task, a    *)
(* priority and at least one dataset.                                       *)

Registers(c) == c.pc = "register" \/ (c.pc = "pause" /\ c.op \in {"submit", "resume"})

Ready(c) == /\ c.pc \in {"pause", "register"} => c.task \in Tasks
            /\ Registers(c) => c.prio \in Prios /\ c.ds # {}

CmdOK(k) == k \in [Procs -> Command] /\ \A p \in Procs : Ready(k[p])

DataOK == /\ config \in [Tasks -> Prios \cup {NotYet, Gone}]
          /\ paused \subseteq Tasks
          /\ runs \in [RunIds -> RunStates]
          /\ calls \in 0..MaxCalls
          /\ faults \subseteq FaultKinds

Core == FileOK(file) /\ CmdOK(cmd) /\ DataOK

QInv == Core /\ overlap \subseteq Tasks

LEMMA InvIsStronger == QInv => TypeOK /\ FileIsSound
  BY DEF QInv, Core, FileOK, File, OnePerTask, CmdOK, DataOK, TypeOK, FileIsSound

LEMMA IdleReady == Idle \in Command /\ Ready(Idle)
  BY DEF Idle, Command, Ready, Registers, Ops, Steps

(* One command may change.                                                  *)
LEMMA ReplaceCommand ==
  ASSUME CmdOK(cmd), NEW p \in Procs, NEW c \in Command, Ready(c), NEW k,
         k = [cmd EXCEPT ![p] = c]
  PROVE  CmdOK(k)
  BY DEF CmdOK

LEMMA EndOK ==
  ASSUME CmdOK(cmd), NEW p \in Procs, End(p)
  PROVE  CmdOK(cmd')
  BY IdleReady, ReplaceCommand DEF End

(* A command may move to a later step, registering only what it has.        *)
LEMMA GotoOK ==
  ASSUME CmdOK(cmd), NEW p \in Procs, NEW pc \in Steps, Goto(p, pc),
         pc \in {"pause", "register"} => Registers(cmd[p])
  PROVE  CmdOK(cmd')
  <1> DEFINE c == [cmd[p] EXCEPT !.pc = pc]
  <1>1. cmd[p] \in Command /\ Ready(cmd[p])
    BY DEF CmdOK
  <1>2. c \in Command
    BY <1>1 DEF Command
  <1>3. Ready(c)
    BY <1>1 DEF Ready, Registers, Command
  <1> QED
    BY <1>2, <1>3, ReplaceCommand DEF Goto

LEMMA HandedOverOK ==
  ASSUME NEW c \in Command, NEW f, NEW g, FileOK(g), c.pc \notin {"pause", "register"}
  PROVE  HandedOver(c, f, g) \in Command /\ Ready(HandedOver(c, f, g))
  <1> DEFINE b == [c EXCEPT !.ids = {}]
  <1>1. b \in Command /\ Ready(b)
    BY DEF Command, Ready, Registers
  <1>2. [b EXCEPT !.pc = "erase_files"] \in Command /\ Ready([b EXCEPT !.pc = "erase_files"])
    BY <1>1 DEF Command, Ready, Registers, Steps
  <1>3. AfterQueue(b) \in Command /\ Ready(AfterQueue(b))
    BY <1>1, <1>2, IdleReady DEF AfterQueue
  <1>4. CASE IsActive(f, c.task) /\ g.active # NoEntry /\ ~IsActive(g, c.task)
    <2>1. g.active.task \in Tasks /\ g.active.pending \in SUBSET Datasets
      BY <1>4 DEF FileOK, File, Entry
    <2>2. HandedOver(c, f, g) =
            [c EXCEPT !.pc = "hand_over", !.next = g.active.task, !.ds = g.active.pending,
                      !.ids = {}]
      BY <1>4 DEF HandedOver
    <2> QED
      BY <2>1, <2>2 DEF Command, Ready, Registers, Steps
  <1>5. CASE ~(IsActive(f, c.task) /\ g.active # NoEntry /\ ~IsActive(g, c.task))
    BY <1>3, <1>5 DEF HandedOver
  <1> QED
    BY <1>4, <1>5

LEMMA HandOverOK ==
  ASSUME NEW g, FileOK(g), NEW rs \in [RunIds -> RunStates], NEW stopped \in SUBSET Tasks,
         paused \subseteq Tasks, HandOver(g, rs, stopped)
  PROVE  paused' \subseteq Tasks /\ runs' \in [RunIds -> RunStates]
  BY DEF HandOver, Triggered, RunStates, ActiveStates

-----------------------------------------------------------------------------
(* The beginning of a command.                                              *)

LEMMA StartCore ==
  ASSUME Core, NEW p \in Procs, Start(p)
  PROVE  Core'
  <1>1. calls \in 0..MaxCalls /\ calls < MaxCalls /\ CmdOK(cmd) /\ DataOK
    BY DEF Start, CanBegin, Core, DataOK
  <1>2. ASSUME NEW c \in Command, Ready(c), Begin(p, c)
        PROVE  /\ FileOK(file') /\ CmdOK(cmd') /\ calls' \in 0..MaxCalls
               /\ UNCHANGED <<file, paused, runs, faults>>
    <2>1. CmdOK(cmd') /\ FileOK(file') /\ UNCHANGED <<file, paused, runs, faults>>
      BY <1>1, <1>2, ReplaceCommand DEF Begin, Core
    <2>2. calls' \in 0..MaxCalls
      BY <1>1, <1>2, ProcAssumption DEF Begin
    <2> QED
      BY <2>1, <2>2
  <1>3. \A t \in Tasks : DatasetsOf[t] \in SUBSET Datasets /\ DatasetsOf[t] # {}
    BY FileAssumption
  <1>4. ASSUME NEW t \in Tasks, NEW n \in Prios, Submit(p, t, n)
        PROVE  Core'
    <2> DEFINE c == [Call("submit", "pause", t) EXCEPT !.ds = DatasetsOf[t], !.prio = n]
    <2>1. c \in Command /\ Ready(c)
      BY <1>3 DEF Call, Idle, Command, Ready, Registers, Ops, Steps
    <2>2. Begin(p, c)
      BY <1>4 DEF Submit
    <2>3. config' \in [Tasks -> Prios \cup {NotYet, Gone}]
      BY <1>1, <1>4 DEF Submit, DataOK
    <2> QED
      BY <1>1, <1>2, <2>1, <2>2, <2>3 DEF Core, DataOK
  <1>5. ASSUME NEW t \in Tasks, NEW n \in Prios, SetTaskPriority(p, t, n)
        PROVE  Core'
    <2> DEFINE c == Call("priority", "refresh", t)
    <2>1. c \in Command /\ Ready(c)
      BY DEF Call, Idle, Command, Ready, Registers, Ops, Steps
    <2>2. Begin(p, c)
      BY <1>5 DEF SetTaskPriority
    <2>3. config' \in [Tasks -> Prios \cup {NotYet, Gone}]
      BY <1>1, <1>5 DEF SetTaskPriority, DataOK
    <2> QED
      BY <1>1, <1>2, <2>1, <2>2, <2>3 DEF Core, DataOK
  <1>6. ASSUME NEW t \in Tasks, NEW ds \in SUBSET Datasets, Resume(p, t, ds)
        PROVE  Core'
    <2> DEFINE c == [Call("resume", "pause", t) EXCEPT !.ds = ds, !.prio = config[t]]
    <2>1. c \in Command /\ Ready(c)
      BY <1>6 DEF Resume, Call, Idle, Command, Ready, Registers, Ops, Steps
    <2>2. Begin(p, c) /\ UNCHANGED config
      BY <1>6 DEF Resume
    <2> QED
      BY <1>1, <1>2, <2>1, <2>2 DEF Core, DataOK
  <1>7. ASSUME NEW t \in Tasks, NEW ds \in SUBSET Datasets, StopDatasets(p, t, ds)
        PROVE  Core'
    <2> DEFINE c == [Call("stop_datasets", "list", t) EXCEPT !.ds = ds]
    <2>1. c \in Command /\ Ready(c)
      BY DEF Call, Idle, Command, Ready, Registers, Ops, Steps
    <2>2. Begin(p, c) /\ UNCHANGED config
      BY <1>7 DEF StopDatasets
    <2> QED
      BY <1>1, <1>2, <2>1, <2>2 DEF Core, DataOK
  <1>8. ASSUME NEW t \in Tasks, Stop(p, t) \/ Delete(p, t)
        PROVE  Core'
    <2>1. PICK op \in {"stop", "delete"} :
            Begin(p, [Call(op, "pause", t) EXCEPT !.ds = DatasetsOf[t]]) /\ UNCHANGED config
      BY <1>8 DEF Stop, Delete
    <2> DEFINE c == [Call(op, "pause", t) EXCEPT !.ds = DatasetsOf[t]]
    <2>2. c \in Command /\ Ready(c)
      BY <1>3 DEF Call, Idle, Command, Ready, Registers, Ops, Steps
    <2> QED
      BY <1>1, <1>2, <2>1, <2>2 DEF Core, DataOK
  <1>9. CASE RestartCleanup(p)
    <2> DEFINE c == Call("cleanup", "airflow", NoTask)
    <2>1. c \in Command /\ Ready(c)
      BY DEF Call, Idle, Command, Ready, Registers, Ops, Steps
    <2>2. Begin(p, c) /\ UNCHANGED config
      BY <1>9 DEF RestartCleanup
    <2> QED
      BY <1>1, <1>2, <2>1, <2>2 DEF Core, DataOK
  <1> QED
    BY <1>4, <1>5, <1>6, <1>7, <1>8, <1>9 DEF Start

-----------------------------------------------------------------------------
(* The steps of a command.                                                  *)

LEMMA StepCore ==
  ASSUME Core, NEW p \in Procs, Step(p)
  PROVE  Core'
  <1> DEFINE c == cmd[p]
             f == Refresh(file, config)
  <1>1. FileOK(file) /\ CmdOK(cmd) /\ DataOK
    BY DEF Core
  <1>2. c \in Command /\ Ready(c)
    BY <1>1 DEF CmdOK
  <1>3. FileOK(f)
    BY <1>1, RefreshOK
  <1>4. {"register", "list", "unpause", "trigger", "erase_runs", "clear"} \subseteq Steps
    BY DEF Steps
  <1>5. CASE PauseDag(p)
    <2>1. c.pc = "pause" /\ c.task \in Tasks
      BY <1>2, <1>5 DEF PauseDag, At, Ready
    <2>2. CASE c.op \in {"submit", "resume"}
      <3>1. Goto(p, "register") /\ Registers(cmd[p])
        BY <1>5, <2>1, <2>2 DEF PauseDag, Registers
      <3>2. CmdOK(cmd')
        BY <1>1, <1>4, <3>1, GotoOK
      <3> QED
        BY <1>1, <1>5, <2>1, <3>2 DEF PauseDag, Core, DataOK
    <2>3. CASE c.op \notin {"submit", "resume"}
      <3>1. Goto(p, "list")
        BY <1>5, <2>3 DEF PauseDag
      <3>2. CmdOK(cmd')
        BY <1>1, <1>4, <3>1, GotoOK
      <3> QED
        BY <1>1, <1>5, <2>1, <3>2 DEF PauseDag, Core, DataOK
    <2> QED
      BY <2>2, <2>3
  <1>6. At(p, "register") =>
          c.task \in Tasks /\ c.prio \in Prios /\ Cardinality(c.ds) \in Nat \ {0}
    <2>1. At(p, "register") => c.task \in Tasks /\ c.prio \in Prios /\ c.ds # {}
      BY <1>2 DEF At, Ready, Registers
    <2>2. c.ds \in SUBSET Datasets
      BY <1>2 DEF Command
    <2> QED
      BY <2>1, <2>2, SomeRuns
  <1>7. CASE RegisterStarts(p)
    <2>1. FileOK(file')
      BY <1>3, <1>6, <1>7, StartedOK DEF RegisterStarts
    <2>2. CmdOK(cmd')
      BY <1>1, <1>4, <1>7, GotoOK DEF RegisterStarts
    <2> QED
      BY <1>1, <1>7, <2>1, <2>2 DEF RegisterStarts, Core, DataOK
  <1>8. CASE RegisterQueues(p)
    <2>1. PICK g \in Queued(f, c.task, Cardinality(c.ds), c.prio) :
            IF PreemptRaises(g, config)
            THEN file' = file /\ End(p)
            ELSE file' = SoftPreempt(g) /\ Goto(p, "trigger")
      BY <1>8 DEF RegisterQueues
    <2>2. FileOK(g)
      BY <1>3, <1>6, <1>8, QueuedOK DEF RegisterQueues
    <2>3. FileOK(file')
      BY <1>1, <2>1, <2>2, SoftPreemptOK
    <2>4. CmdOK(cmd')
      BY <1>1, <1>4, <2>1, GotoOK, EndOK
    <2> QED
      BY <1>1, <1>8, <2>3, <2>4 DEF RegisterQueues, Core, DataOK
  <1>9. CASE UnpauseStarted(p)
    <2>1. CmdOK(cmd')
      BY <1>1, <1>4, <1>9, GotoOK DEF UnpauseStarted
    <2> QED
      BY <1>1, <1>9, <2>1 DEF UnpauseStarted, Core, DataOK
  <1>10. ASSUME NEW t, NEW ds
         PROVE  Triggered(runs, t, ds) \in [RunIds -> RunStates]
    BY <1>1 DEF DataOK, Triggered, RunStates, ActiveStates
  <1>11. ASSUME NEW d \in Datasets, TriggerRun(p, d)
         PROVE  Core'
    <2> DEFINE k == [c EXCEPT !.ds = @ \ {d}]
    <2>1. k \in Command /\ Ready(k)
      BY <1>2, <1>11 DEF TriggerRun, At, Command, Ready, Registers
    <2>2. cmd' = [cmd EXCEPT ![p] = IF c.ds = {d} THEN Idle ELSE k]
      BY <1>11 DEF TriggerRun
    <2>3. CmdOK(cmd')
      BY <1>1, <2>1, <2>2, IdleReady, ReplaceCommand
    <2> QED
      BY <1>1, <1>10, <1>11, <2>3 DEF TriggerRun, Core, DataOK
  <1>12. ASSUME NEW d \in Datasets, TriggerNext(p, d)
         PROVE  Core'
    <2> DEFINE k == [c EXCEPT !.ds = @ \ {d}]
    <2>1. k \in Command /\ Ready(k)
      BY <1>2, <1>12 DEF TriggerNext, At, Command, Ready, Registers
    <2>2. CmdOK(cmd')
      BY <1>1, <1>12, <2>1, ReplaceCommand DEF TriggerNext
    <2> QED
      BY <1>1, <1>10, <1>12, <2>2 DEF TriggerNext, Core, DataOK
  <1>13. CASE ListRuns(p)
    <2> DEFINE ids == {r \in Live(c.task) : r[2] \in c.ds}
               k == [c EXCEPT !.pc = "fail", !.ids = ids, !.left = ids, !.ds = {}]
    <2>1. ids \in SUBSET RunIds
      BY DEF Live
    <2>2. k \in Command /\ Ready(k)
      BY <1>2, <2>1 DEF Command, Ready, Registers, Steps
    <2>3. CmdOK(cmd')
      BY <1>1, <1>13, <2>2, ReplaceCommand DEF ListRuns
    <2> QED
      BY <1>1, <1>13, <2>3 DEF ListRuns, Core, DataOK
  <1>14. ASSUME NEW r \in RunIds, FailRun(p, r)
         PROVE  Core'
    <2> DEFINE k == [c EXCEPT !.left = @ \ {r}]
    <2>1. k \in Command /\ Ready(k)
      BY <1>2, <1>14 DEF FailRun, At, Command, Ready, Registers
    <2>2. CmdOK(cmd')
      BY <1>1, <1>14, <2>1, ReplaceCommand DEF FailRun
    <2>3. runs' \in [RunIds -> RunStates]
      BY <1>1, <1>14 DEF FailRun, DataOK, RunStates
    <2> QED
      BY <1>1, <1>14, <2>2, <2>3 DEF FailRun, Core, DataOK
  <1>15. CASE RemoveFromQueue(p)
    <2>1. PICK g \in Removed(f, c.task, Seen(runs)) :
            file' = g /\ cmd' = [cmd EXCEPT ![p] = HandedOver(c, f, g)]
      BY <1>15 DEF RemoveFromQueue
    <2>2. FileOK(g)
      BY <1>3, RemovedOK
    <2>3. HandedOver(c, f, g) \in Command /\ Ready(HandedOver(c, f, g))
      BY <1>2, <1>15, <2>2, HandedOverOK DEF RemoveFromQueue, At
    <2>4. CmdOK(cmd')
      BY <1>1, <2>1, <2>3, ReplaceCommand
    <2> QED
      BY <1>1, <1>15, <2>1, <2>2, <2>4 DEF RemoveFromQueue, Core, DataOK
  <1>16. CASE MarkCompleted(p)
    <2>1. CASE ~Writes(p)
      <3>1. file' = file /\ End(p)
        BY <1>16, <2>1 DEF MarkCompleted
      <3>2. CmdOK(cmd')
        BY <1>1, <3>1, EndOK
      <3> QED
        BY <1>1, <1>16, <3>1, <3>2 DEF MarkCompleted, Core, DataOK
    <2>2. CASE Writes(p)
      <3>1. PICK g \in Marked(f, c.task, c.ids, Seen(runs)) :
              file' = g /\ cmd' = [cmd EXCEPT ![p] = HandedOver(c, f, g)]
        BY <1>16, <2>2 DEF MarkCompleted
      <3>2. c.ids \in SUBSET RunIds
        BY <1>2 DEF Command
      <3>3. FileOK(g)
        BY <1>3, <3>1, <3>2, MarkedOK
      <3>4. HandedOver(c, f, g) \in Command /\ Ready(HandedOver(c, f, g))
        BY <1>2, <1>16, <3>3, HandedOverOK DEF MarkCompleted, At
      <3>5. CmdOK(cmd')
        BY <1>1, <3>1, <3>4, ReplaceCommand
      <3> QED
        BY <1>1, <1>16, <3>1, <3>3, <3>5 DEF MarkCompleted, Core, DataOK
    <2> QED
      BY <2>1, <2>2
  <1>17. CASE UnpauseNext(p)
    <2> DEFINE b == [c EXCEPT !.next = NoTask]
    <2>1. AfterQueue(b) \in Command /\ Ready(AfterQueue(b))
      <3>1. b \in Command /\ Ready(b) /\ b.pc = "hand_over"
        BY <1>2, <1>17 DEF UnpauseNext, At, Command, Ready, Registers
      <3>2. [b EXCEPT !.pc = "erase_files"] \in Command
            /\ Ready([b EXCEPT !.pc = "erase_files"])
        BY <3>1 DEF Command, Ready, Registers, Steps
      <3> QED
        BY <3>1, <3>2, IdleReady DEF AfterQueue
    <2>2. CmdOK(cmd')
      BY <1>1, <1>17, <2>1, ReplaceCommand DEF UnpauseNext
    <2> QED
      BY <1>1, <1>17, <2>2 DEF UnpauseNext, Core, DataOK
  <1>18. CASE EraseFiles(p)
    <2>1. CmdOK(cmd')
      BY <1>1, <1>4, <1>18, GotoOK DEF EraseFiles
    <2> QED
      BY <1>1, <1>18, <2>1 DEF EraseFiles, Core, DataOK
  <1>19. CASE EraseRuns(p)
    <2>1. CmdOK(cmd')
      BY <1>1, <1>19, EndOK DEF EraseRuns
    <2>2. runs' \in [RunIds -> RunStates]
      BY <1>1, <1>19 DEF EraseRuns, DataOK, RunStates
    <2> QED
      BY <1>1, <1>19, <2>1, <2>2 DEF EraseRuns, Core, DataOK
  <1>20. CASE RefreshQueue(p)
    <2>1. CmdOK(cmd')
      BY <1>1, <1>20, EndOK DEF RefreshQueue
    <2>2. FileOK(file')
      BY <1>1, <1>3, <1>20, SoftPreemptOK DEF RefreshQueue
    <2> QED
      BY <1>1, <1>20, <2>1, <2>2 DEF RefreshQueue, Core, DataOK
  <1>21. CASE FailAllRuns(p)
    <2>1. CmdOK(cmd')
      BY <1>1, <1>4, <1>21, GotoOK DEF FailAllRuns
    <2>2. runs' \in [RunIds -> RunStates] /\ paused' = Tasks
      BY <1>1, <1>21 DEF FailAllRuns, DataOK, RunStates
    <2> QED
      BY <1>1, <1>21, <2>1, <2>2 DEF FailAllRuns, Core, DataOK
  <1>22. CASE ClearQueue(p)
    <2>1. CmdOK(cmd')
      BY <1>1, <1>22, EndOK DEF ClearQueue
    <2> QED
      BY <1>1, <1>22, <2>1, EmptyOK DEF ClearQueue, Core, DataOK
  <1> QED
    BY <1>5, <1>7, <1>8, <1>9, <1>11, <1>12, <1>13, <1>14, <1>15, <1>16, <1>17, <1>18,
       <1>19, <1>20, <1>21, <1>22 DEF Step

-----------------------------------------------------------------------------
(* Airflow and the faults.                                                  *)

LEMMA AirflowCore ==
  ASSUME Core, Airflow
  PROVE  Core'
  <1> DEFINE f == Refresh(file, config)
  <1>1. FileOK(file) /\ CmdOK(cmd) /\ DataOK /\ FileOK(f)
    BY RefreshOK DEF Core
  <1>2. ASSUME NEW r \in RunIds, StartRun(r)
        PROVE  Core'
    <2>1. runs' \in [RunIds -> RunStates]
      BY <1>1, <1>2 DEF StartRun, DataOK, RunStates, ActiveStates
    <2> QED
      BY <1>1, <1>2, <2>1 DEF StartRun, Core, DataOK
  <1>3. ASSUME NEW r \in RunIds, NEW s \in {"success", "failed"}
        PROVE  [runs EXCEPT ![r] = s] \in [RunIds -> RunStates]
    BY <1>1 DEF DataOK, RunStates
  <1>4. ASSUME NEW r \in RunIds, NEW s \in {"success", "failed"}, CountRun(r, s)
        PROVE  Core'
    <2> DEFINE rs == [runs EXCEPT ![r] = s]
    <2>1. PICK g \in Marked(f, r[1], {r}, Seen(rs)) :
            /\ file' = g
            /\ IF IsActive(f, r[1]) /\ UsedUp(f.active, {r}) THEN HandOver(g, rs, {})
               ELSE runs' = rs /\ UNCHANGED paused
      BY <1>4 DEF CountRun
    <2>2. FileOK(g)
      BY <1>1, MarkedOK
    <2>3. paused' \subseteq Tasks /\ runs' \in [RunIds -> RunStates]
      <3>1. rs \in [RunIds -> RunStates] /\ paused \subseteq Tasks
        BY <1>1, <1>3 DEF DataOK
      <3>2. CASE IsActive(f, r[1]) /\ UsedUp(f.active, {r})
        <4>1. HandOver(g, rs, {})
          BY <2>1, <3>2
        <4>2. {} \in SUBSET Tasks
          OBVIOUS
        <4> QED
          BY <2>2, <3>1, <4>1, <4>2, HandOverOK
      <3>3. CASE ~(IsActive(f, r[1]) /\ UsedUp(f.active, {r}))
        BY <2>1, <3>1, <3>3
      <3> QED
        BY <3>2, <3>3
    <2> QED
      BY <1>1, <1>4, <2>1, <2>2, <2>3 DEF CountRun, Core, DataOK, CmdOK
  <1>5. ASSUME NEW r \in RunIds, NEW s \in {"success", "failed"}, DrainRun(r, s)
        PROVE  Core'
    <2> DEFINE rs == [runs EXCEPT ![r] = s]
    <2>1. CASE \E o \in Live(r[1]) \ {r} : runs[o] = "running"
      <3>1. runs' = rs /\ UNCHANGED <<file, paused>>
        BY <1>5, <2>1 DEF DrainRun
      <3> QED
        BY <1>1, <1>3, <1>5, <3>1 DEF DrainRun, Core, DataOK, CmdOK
    <2>2. CASE ~\E o \in Live(r[1]) \ {r} : runs[o] = "running"
      <3>1. PICK g \in Drained(f, Seen(rs)) : file' = g /\ HandOver(g, rs, {r[1]})
        BY <1>5, <2>2 DEF DrainRun
      <3>2. FileOK(g)
        BY <1>1, <1>5, DrainedOK DEF DrainRun, Drains
      <3>3. {r[1]} \in SUBSET Tasks
        BY DEF RunIds
      <3>4. paused' \subseteq Tasks /\ runs' \in [RunIds -> RunStates]
        BY <1>1, <1>3, <3>1, <3>2, <3>3, HandOverOK DEF DataOK
      <3> QED
        BY <1>1, <1>5, <3>1, <3>2, <3>4 DEF DrainRun, Core, DataOK, CmdOK
    <2> QED
      BY <2>1, <2>2
  <1> QED
    BY <1>2, <1>4, <1>5 DEF Airflow, EndRun

LEMMA FailsCore ==
  ASSUME Core, NEW p \in Procs, Fails(p)
  PROVE  Core'
  <1> DEFINE c == cmd[p]
             f == Refresh(file, config)
  <1>1. FileOK(file) /\ CmdOK(cmd) /\ DataOK /\ FileOK(f) /\ c \in Command /\ Ready(c)
    BY RefreshOK DEF Core, CmdOK
  <1>2. ASSUME NEW kind \in FaultKinds, Fault(kind)
        PROVE  faults' \subseteq FaultKinds
    BY <1>1, <1>2 DEF Fault, DataOK
  <1>3. {"abort", "pause", "unpause", "write", "api", "orm"} = FaultKinds
    BY DEF FaultKinds
  <1>4. {"register", "trigger", "clear"} \subseteq Steps
    BY DEF Steps
  <1>5. CASE Abort(p)
    BY <1>1, <1>2, <1>3, <1>5, EndOK DEF Abort, Core, DataOK
  <1>6. CASE PauseFails(p)
    <2>1. Registers(cmd[p])
      BY <1>6 DEF PauseFails, At, Registers
    <2>2. CmdOK(cmd')
      BY <1>1, <1>4, <1>6, <2>1, GotoOK DEF PauseFails
    <2> QED
      BY <1>1, <1>2, <1>3, <1>6, <2>2 DEF PauseFails, Core, DataOK
  <1>7. CASE UnpauseFails(p)
    <2>1. CASE At(p, "unpause") /\ Goto(p, "trigger")
      BY <1>1, <1>2, <1>3, <1>4, <1>7, <2>1, GotoOK DEF UnpauseFails, Core, DataOK
    <2>2. CASE At(p, "hand_over")
               /\ cmd' = [cmd EXCEPT ![p] = AfterQueue([c EXCEPT !.next = NoTask])]
      <3> DEFINE b == [c EXCEPT !.next = NoTask]
      <3>1. b \in Command /\ Ready(b)
        BY <1>1, <2>2 DEF At, Command, Ready, Registers
      <3>2. [b EXCEPT !.pc = "erase_files"] \in Command
            /\ Ready([b EXCEPT !.pc = "erase_files"])
        BY <3>1 DEF Command, Ready, Registers, Steps
      <3>3. AfterQueue(b) \in Command /\ Ready(AfterQueue(b))
        BY <3>1, <3>2, IdleReady DEF AfterQueue
      <3>4. CmdOK(cmd')
        BY <1>1, <2>2, <3>3, ReplaceCommand
      <3> QED
        BY <1>1, <1>2, <1>3, <1>7, <3>4 DEF UnpauseFails, Core, DataOK
    <2> QED
      BY <1>7, <2>1, <2>2 DEF UnpauseFails
  <1>8. CASE DeleteWithoutApi(p)
    <2> DEFINE b == [c EXCEPT !.ds = {}]
    <2>1. PICK g \in Removed(f, c.task, NoApi) :
            file' = g /\ cmd' = [cmd EXCEPT ![p] = HandedOver(b, f, g)]
      BY <1>8 DEF DeleteWithoutApi
    <2>2. FileOK(g)
      BY <1>1, RemovedOK
    <2>3. b \in Command /\ b.pc = "list"
      BY <1>1, <1>8 DEF DeleteWithoutApi, At, Command
    <2>4. HandedOver(b, f, g) \in Command /\ Ready(HandedOver(b, f, g))
      BY <2>2, <2>3, HandedOverOK
    <2>5. CmdOK(cmd')
      BY <1>1, <2>1, <2>4, ReplaceCommand
    <2> QED
      BY <1>1, <1>2, <1>3, <1>8, <2>1, <2>2, <2>5 DEF DeleteWithoutApi, Core, DataOK
  <1>9. CASE CleanupWithoutAirflow(p)
    <2>1. CmdOK(cmd')
      BY <1>1, <1>4, <1>9, GotoOK DEF CleanupWithoutAirflow
    <2> QED
      BY <1>1, <1>2, <1>3, <1>9, <2>1 DEF CleanupWithoutAirflow, Core, DataOK
  <1>10. CASE CrashInWrite(p)
    BY <1>1, <1>2, <1>3, <1>10, EndOK, EmptyOK DEF CrashInWrite, Core, DataOK
  <1> QED
    BY <1>5, <1>6, <1>7, <1>8, <1>9, <1>10 DEF Fails

-----------------------------------------------------------------------------
LEMMA InitInv == Init => QInv
  <1> SUFFICES ASSUME Init PROVE QInv
    OBVIOUS
  <1>1. CmdOK(cmd)
    BY IdleReady DEF Init, CmdOK
  <1>2. DataOK
    BY ProcAssumption DEF Init, DataOK, RunStates
  <1> QED
    BY <1>1, <1>2, EmptyOK DEF Init, QInv, Core

LEMMA NextInv == QInv /\ [Next]_vars => QInv'
  <1> SUFFICES ASSUME QInv, [Next]_vars PROVE QInv'
    OBVIOUS
  <1>1. CASE Next
    <2>1. Core'
      BY <1>1, StartCore, StepCore, AirflowCore, FailsCore DEF Next, QInv
    <2>2. overlap' \subseteq Tasks
      BY <1>1 DEF Next, Watch, QInv, Overlapping, Displaced, RegisteredAgain
    <2> QED
      BY <2>1, <2>2 DEF QInv
  <1>2. CASE UNCHANGED vars
    BY <1>2 DEF vars, QInv, Core, CmdOK, DataOK
  <1> QED
    BY <1>1, <1>2

(* Whatever the commands, their interleavings and their faults do, the      *)
(* queue file and the other variables keep their types; in particular no    *)
(* entry of the file waits for fewer than one run, or none could ever       *)
(* remove it.                                                               *)
THEOREM TaskQueueTypeCorrect == Spec => []TypeOK
  BY InitInv, NextInv, InvIsStronger, PTL DEF Spec

(* No lock section of any command, no hand-over by Airflow and no crash in  *)
(* a write ever leaves a file with a queue and no active task, or with two  *)
(* entries for a task.                                                      *)
THEOREM QueueFileIsSound == Spec => []FileIsSound
  BY InitInv, NextInv, InvIsStronger, PTL DEF Spec
=============================================================================
