--------------------------- MODULE TaskRunsProofs ---------------------------
(***************************************************************************)
(* DagRuns and the queue file agree: a run executes only while its task is *)
(* active, and the file waits for every run it must wait for, for any      *)
(* tasks, datasets, priorities, processes and bounds.                      *)
(*                                                                         *)
(* The invariant is stated for one task that is under none of the          *)
(* exceptions (Sound) and for the one command that works on it, if any     *)
(* does (Works).  A dataset of the task is in at most one of four places:  *)
(* it has a live run, or the command will trigger one (ComingOf), or it    *)
(* has a run that succeeded, or none of them (SlotsOf).  What the entry of *)
(* the task waits for (DueOf) are the live runs, the ones to come, and     *)
(* those that a stop has failed and not counted yet (StoppedOf).           *)
(*                                                                         *)
(* On top of it, for as long as no two commands overlap: the entries of    *)
(* the file follow the configurations, and a more urgent one behind the    *)
(* active entry has made it drain (PHolds); and what an entry waits for is *)
(* due to come (Low), since the tries of a dataset are used in order and a *)
(* run that an entry has counted has ended (RunsFit).                      *)
(***************************************************************************)
EXTENDS TaskQueueProofs

Lost == {"write", "api", "orm"}
Sound(t) == t \notin overlap /\ faults \cap Lost = {}

-----------------------------------------------------------------------------
(* The forms of a command.                                                  *)

Registering(c) ==
    /\ c.op \in {"submit", "resume"} /\ c.pc \in {"pause", "register", "unpause", "trigger"}
    /\ c.task \in Tasks /\ c.next = NoTask /\ c.ids = {} /\ c.ds \subseteq DatasetsOf[c.task]

Stopping(c) ==
    /\ c.op \in {"stop", "stop_datasets", "delete"} /\ c.task \in Tasks
    /\ \/ /\ c.pc \in {"pause", "list"} /\ c.next = NoTask /\ c.ids = {}
          /\ c.op # "stop_datasets" => c.ds = DatasetsOf[c.task]
       \/ /\ c.pc = "fail" /\ c.next = NoTask
          /\ c.left \subseteq c.ids /\ \A r \in c.ids : r[1] = c.task
       \/ c.pc = "hand_over" /\ c.next \in Tasks \ {c.task} /\ c.ids = {}
       \/ c.pc \in {"erase_files", "erase_runs"} /\ c.next = NoTask /\ c.ids = {}

Other(c) ==
    \/ c = Idle
    \/ c.op = "priority" /\ c.pc = "refresh" /\ c.task \in Tasks /\ c.next = NoTask /\ c.ids = {}
    \/ c.op = "cleanup" /\ c.pc \in {"airflow", "clear"} /\ c.ids = {}

Shape(c) == Registering(c) \/ Stopping(c) \/ Other(c)

Shapes == \A p \in Procs : Shape(cmd[p])

Alone == Overlapping(cmd) \subseteq overlap

-----------------------------------------------------------------------------
(* The datasets and the runs of a task.                                     *)

LiveIn(rs, t) == {r \in RunIds : r[1] = t /\ rs[r] \in ActiveStates}
Free(rs, t, d) == \A r \in RunIds : r[1] = t /\ r[2] = d => rs[r] \notin ActiveStates \cup {"success"}

SlotsOf(t, rs, coming) ==
    /\ \A r, s \in LiveIn(rs, t) : r[2] = s[2] => r = s
    /\ \A r \in LiveIn(rs, t), s \in RunIds : s[1] = t /\ s[2] = r[2] => rs[s] # "success"
    /\ \A r \in LiveIn(rs, t) : r[2] \in DatasetsOf[t]
    /\ coming \subseteq DatasetsOf[t]
    /\ \A d \in coming : Free(rs, t, d)

(* What a command will trigger, and what it has stopped or will.            *)
ComingOf(c, t) == IF \/ c.pc \in {"unpause", "trigger"} /\ c.task = t
                     \/ c.pc = "hand_over" /\ c.next = t
                  THEN c.ds ELSE {}
StoppedOf(c, t) == IF c.op = "stop_datasets" /\ c.task = t THEN c.ids ELSE {}

(* A run to come is written as try 0.                                       *)
DueOf(t, rs, stopped, coming) == LiveIn(rs, t) \cup stopped \cup {<<t, d, 0>> : d \in coming}

InQueue(f, t) == \E e \in f.queue : e.task = t
InFile(f, t) == \E e \in Entries(f) : e.task = t

(* What a command that stops the task, or a cleanup, has failed.            *)
FailsOK(t, c, rs) ==
    /\ c.pc = "fail" /\ c.task = t =>
         /\ c.ids \cap LiveIn(rs, t) \subseteq c.left
         /\ c.op # "stop_datasets" => LiveIn(rs, t) \subseteq c.left
    /\ c.pc = "clear" => LiveIn(rs, t) = {}

CountsOK(t, c, f, rs) ==
    /\ \A e \in Entries(f) : e.task = t =>
         Cardinality(DueOf(t, rs, StoppedOf(c, t) \ e.completed, ComingOf(c, t))) <= e.remaining
    /\ \A e \in f.queue : e.task = t => e.pending \in {{}, DatasetsOf[t]}
    /\ ~InFile(f, t) => LiveIn(rs, t) = {} /\ ComingOf(c, t) = {}

RunsOK(t, c, f, rs) == SlotsOf(t, rs, ComingOf(c, t)) /\ CountsOK(t, c, f, rs) /\ FailsOK(t, c, rs)

(* The DAG is paused unless the task is active, but for an ignored failure. *)
PausedOK(t, c, f, rs, ps) ==
    /\ InQueue(f, t) => t \in ps
    /\ \A r \in LiveIn(rs, t) : rs[r] = "running" => IsActive(f, t)
    /\ c.pc = "register" /\ c.task = t => t \in ps
    /\ c.pc = "unpause" /\ c.task = t => IsActive(f, t)
    /\ c.pc = "hand_over" /\ c.next = t => IsActive(f, t)

Works(t, c) == \/ \E p \in Procs : c = cmd[p] /\ t \in Touches(c)
               \/ c = Idle /\ \A p \in Procs : t \notin Touches(cmd[p])

Holds(t, c, f, rs, ps, fs) == /\ RunsOK(t, c, f, rs)
                              /\ "pause" \notin fs => PausedOK(t, c, f, rs, ps)

TaskHolds(t) == \A c \in Command : Works(t, c) => Holds(t, c, file, runs, paused, faults)

RInv == QInv /\ Shapes /\ Alone /\ \A t \in Tasks : Sound(t) => TaskHolds(t)

-----------------------------------------------------------------------------
(* Runs, and how many of them are due.                                      *)

LEMMA RunIdParts ==
  ASSUME NEW r \in RunIds
  PROVE  /\ r[1] \in Tasks /\ r[2] \in Datasets /\ r[3] \in 1..MaxTries
         /\ r = <<r[1], r[2], r[3]>>
BY DEF RunIds

(* Airflow gives a dataset one new run at a time.                           *)
LEMMA OneNextTry ==
  ASSUME NEW rs, NEW r \in RunIds, NEW s \in RunIds, r[1] = s[1], r[2] = s[2],
         IsNextTry(rs, r), IsNextTry(rs, s)
  PROVE  r = s
<1> USE FileAssumption
<1>1. r = <<r[1], r[2], r[3]>> /\ s = <<s[1], s[2], s[3]>> /\ r[3] \in Nat /\ s[3] \in Nat
      /\ r[3] >= 1 /\ s[3] >= 1
  BY RunIdParts
<1>2. rs[<<r[1], r[2], r[3]>>] = "absent" /\ rs[<<s[1], s[2], s[3]>>] = "absent"
  BY <1>1 DEF IsNextTry
<1>3. ~(r[3] < s[3])
  <2> SUFFICES ASSUME r[3] < s[3] PROVE FALSE
    OBVIOUS
  <2>1. r[3] \in 1..(s[3] - 1)
    BY <1>1
  <2> QED BY <1>2, <2>1 DEF IsNextTry
<1>4. ~(s[3] < r[3])
  <2> SUFFICES ASSUME s[3] < r[3] PROVE FALSE
    OBVIOUS
  <2>1. s[3] \in 1..(r[3] - 1)
    BY <1>1
  <2> QED BY <1>2, <2>1 DEF IsNextTry
<1>5. r[3] = s[3]
  BY <1>1, <1>3, <1>4
<1> QED BY <1>1, <1>5

LEMMA DueFinite ==
  ASSUME NEW t \in Tasks, NEW rs, NEW stopped \in SUBSET RunIds, NEW coming \in SUBSET Datasets
  PROVE  /\ IsFiniteSet(LiveIn(rs, t)) /\ IsFiniteSet(DueOf(t, rs, stopped, coming))
         /\ Cardinality(LiveIn(rs, t)) \in Nat
         /\ Cardinality(DueOf(t, rs, stopped, coming)) \in Nat
<1> DEFINE T == {<<t, d, 0>> : d \in coming}
           h == [d \in coming |-> <<t, d, 0>>]
<1>1. IsFiniteSet(coming) /\ IsFiniteSet(stopped)
  BY FileAssumption, FS_Subset
<1>2. h \in Surjection(coming, T)
  BY DEF Surjection
<1>3. IsFiniteSet(T)
  BY <1>1, <1>2, FS_Surjection
<1>4. LiveIn(rs, t) \in SUBSET RunIds
  BY DEF LiveIn
<1>5. IsFiniteSet(LiveIn(rs, t))
  BY <1>4, FileAssumption, FS_Subset
<1> HIDE DEF h
<1>6. IsFiniteSet(LiveIn(rs, t) \cup stopped)
  BY <1>1, <1>5, FS_Union
<1>7. IsFiniteSet(LiveIn(rs, t) \cup stopped \cup T)
  BY <1>3, <1>6, FS_Union
<1> QED BY <1>5, <1>7, FS_CardinalityType DEF DueOf

(* What is due shrinks with its parts.                                      *)
LEMMA DueShrinks ==
  ASSUME NEW t \in Tasks, NEW rs, NEW ss,
         NEW stopped \in SUBSET RunIds, NEW left \in SUBSET RunIds,
         NEW coming \in SUBSET Datasets, NEW rest \in SUBSET coming,
         LiveIn(ss, t) \subseteq LiveIn(rs, t), left \subseteq stopped \cup LiveIn(rs, t)
  PROVE  Cardinality(DueOf(t, ss, left, rest)) <= Cardinality(DueOf(t, rs, stopped, coming))
<1>1. IsFiniteSet(DueOf(t, rs, stopped, coming))
  BY DueFinite
<1>2. DueOf(t, ss, left, rest) \in SUBSET DueOf(t, rs, stopped, coming)
  BY DEF DueOf
<1> QED BY <1>1, <1>2, FS_Subset

(* A run that is triggered takes the place of the one to come.              *)
LEMMA DueTriggers ==
  ASSUME NEW t \in Tasks, NEW rs, NEW coming \in SUBSET Datasets, NEW ds \in SUBSET coming
  PROVE  Cardinality(DueOf(t, Triggered(rs, t, ds), {}, coming \ ds))
           <= Cardinality(DueOf(t, rs, {}, coming))
<1> DEFINE ss == Triggered(rs, t, ds)
           S == DueOf(t, ss, {}, coming \ ds)
           T == DueOf(t, rs, {}, coming)
           h == [x \in S |-> IF x \in T THEN x ELSE <<t, x[2], 0>>]
<1>1. IsFiniteSet(T)
  <2>1. {} \in SUBSET RunIds
    OBVIOUS
  <2> QED BY <2>1, DueFinite
<1>2. ASSUME NEW x \in S, x \notin T
      PROVE  x \in RunIds /\ x[1] = t /\ x[2] \in ds /\ IsNextTry(rs, x)
  <2>1. x \in LiveIn(ss, t) /\ x \notin LiveIn(rs, t)
    BY <1>2 DEF DueOf
  <2> QED BY <2>1 DEF LiveIn, Triggered
<1>3. \A x \in S : h[x] \in T
  BY <1>2 DEF DueOf
<1>4. ASSUME NEW x \in S, NEW y \in S, h[x] = h[y], x \notin T
      PROVE  x = y
  <2>1. x \in RunIds /\ x[1] = t /\ x[2] \in ds /\ IsNextTry(rs, x) /\ h[x] = <<t, x[2], 0>>
    BY <1>2, <1>4
  <2>2. CASE y \in T
    <3>1. y = <<t, x[2], 0>>
      BY <1>4, <2>1, <2>2
    <3>2. y \notin LiveIn(ss, t)
      <4>1. \A r \in RunIds : r[3] # 0
        BY RunIdParts, FileAssumption
      <4> QED BY <3>1, <4>1 DEF LiveIn
    <3>3. PICK d \in coming \ ds : y = <<t, d, 0>>
      BY <3>2 DEF DueOf
    <3>4. d = x[2]
      BY <3>1, <3>3
    <3> QED BY <2>1, <3>4
  <2>3. CASE y \notin T
    <3>1. y \in RunIds /\ y[1] = t /\ IsNextTry(rs, y) /\ h[y] = <<t, y[2], 0>>
      BY <1>2, <2>3
    <3>2. x[2] = y[2]
      BY <1>4, <2>1, <3>1
    <3> QED BY <2>1, <3>1, <3>2, OneNextTry
  <2> QED BY <2>2, <2>3
<1>5. \A x, y \in S : h[x] = h[y] => x = y
  <2> SUFFICES ASSUME NEW x \in S, NEW y \in S, h[x] = h[y] PROVE x = y
    OBVIOUS
  <2>1. CASE x \notin T
    BY <1>4, <2>1
  <2>2. CASE y \notin T
    BY <1>4, <2>2
  <2>3. CASE x \in T /\ y \in T
    BY <2>3
  <2> QED BY <2>1, <2>2, <2>3
<1>6. h \in Injection(S, T)
  BY <1>3, <1>5 DEF Injection, IsInjective
<1> HIDE DEF h, S, T
<1>7. Cardinality(S) <= Cardinality(T)
  BY <1>1, <1>6, FS_Injection
<1> QED BY <1>7 DEF S, T

(* The live runs of a task, and those to come, are of different datasets.   *)
LEMMA DueDiffer ==
  ASSUME NEW t \in Tasks, NEW rs, NEW coming \in SUBSET Datasets, SlotsOf(t, rs, coming),
         NEW ds \in SUBSET Datasets, coming \subseteq ds, \A r \in LiveIn(rs, t) : r[2] \in ds
  PROVE  Cardinality(DueOf(t, rs, {}, coming)) <= Cardinality(ds)
<1> DEFINE S == DueOf(t, rs, {}, coming)
           h == [x \in S |-> x[2]]
<1>1. IsFiniteSet(ds)
  BY FileAssumption, FS_Subset
<1>2. \A x \in S : x[2] \in ds
  BY DEF DueOf
<1>3. \A x \in S : x \in LiveIn(rs, t) \/ \E d \in coming : x = <<t, d, 0>>
  BY DEF DueOf
<1>4. ASSUME NEW x \in LiveIn(rs, t), NEW d \in coming PROVE x[2] # d
  <2>1. Free(rs, t, d) /\ x \in RunIds /\ x[1] = t /\ rs[x] \in ActiveStates
    BY DEF SlotsOf, LiveIn
  <2> QED BY <2>1 DEF Free
<1>5. ASSUME NEW x \in S, NEW y \in S, x[2] = y[2] PROVE x = y
  <2>1. CASE x \in LiveIn(rs, t) /\ y \in LiveIn(rs, t)
    BY <1>5, <2>1 DEF SlotsOf
  <2>2. CASE x \in LiveIn(rs, t) /\ y \notin LiveIn(rs, t)
    <3>1. PICK d \in coming : y = <<t, d, 0>>
      BY <1>3, <2>2
    <3>2. y[2] = d
      BY <3>1
    <3> QED BY <1>4, <1>5, <2>2, <3>2
  <2>3. CASE x \notin LiveIn(rs, t) /\ y \in LiveIn(rs, t)
    <3>1. PICK d \in coming : x = <<t, d, 0>>
      BY <1>3, <2>3
    <3>2. x[2] = d
      BY <3>1
    <3> QED BY <1>4, <1>5, <2>3, <3>2
  <2>4. CASE x \notin LiveIn(rs, t) /\ y \notin LiveIn(rs, t)
    <3>1. PICK d \in coming : x = <<t, d, 0>>
      BY <1>3, <2>4
    <3>2. PICK b \in coming : y = <<t, b, 0>>
      BY <1>3, <2>4
    <3> QED BY <1>5, <3>1, <3>2
  <2> QED BY <2>1, <2>2, <2>3, <2>4
<1>6. h \in Injection(S, ds)
  BY <1>2, <1>5 DEF Injection, IsInjective
<1> HIDE DEF h, S
<1>7. Cardinality(S) <= Cardinality(ds)
  BY <1>1, <1>6, FS_Injection
<1> QED BY <1>7 DEF S

(* Some of what is due was counted.                                         *)
LEMMA CountsOff ==
  ASSUME NEW due, IsFiniteSet(due), NEW n \in Nat, Cardinality(due) <= n,
         NEW counted \in SUBSET due, NEW rest, rest \subseteq due \ counted
  PROVE  /\ Cardinality(rest) <= n - Cardinality(counted)
         /\ n <= Cardinality(counted) => rest = {}
<1>1. IsFiniteSet(counted) /\ IsFiniteSet(rest)
  BY FS_Subset
<1>2. Cardinality(counted) \in Nat /\ Cardinality(rest) \in Nat /\ Cardinality(due) \in Nat
  BY <1>1, FS_CardinalityType
<1>3. counted \cap rest = {}
  OBVIOUS
<1>4. Cardinality(counted \cup rest) = Cardinality(counted) + Cardinality(rest)
  <2>1. Cardinality(counted \cup rest)
          = Cardinality(counted) + Cardinality(rest) - Cardinality(counted \cap rest)
    BY ONLY <1>1, FS_Union
  <2>2. Cardinality(counted \cap rest) = 0
    BY <1>3, FS_EmptySet
  <2> QED BY <1>2, <2>1, <2>2
<1>5. Cardinality(counted \cup rest) <= Cardinality(due)
  BY FS_Subset
<1>6. Cardinality(rest) <= n - Cardinality(counted)
  BY <1>2, <1>4, <1>5
<1>7. n <= Cardinality(counted) => Cardinality(rest) = 0
  BY <1>2, <1>6
<1> QED BY <1>1, <1>6, <1>7, FS_EmptySet

-----------------------------------------------------------------------------
(* The places of the datasets.                                              *)

(* Runs of a task end, and no new one begins.                               *)
RunsEnd(t, rs, ss) == \A r \in RunIds : r[1] = t =>
                         /\ ss[r] \in ActiveStates => rs[r] \in ActiveStates
                         /\ ss[r] = "success" => rs[r] \in ActiveStates \cup {"success"}

LEMMA SlotsEnd ==
  ASSUME NEW t \in Tasks, NEW rs, NEW ss, NEW coming, NEW rest, rest \subseteq coming,
         SlotsOf(t, rs, coming), RunsEnd(t, rs, ss)
  PROVE  SlotsOf(t, ss, rest) /\ LiveIn(ss, t) \subseteq LiveIn(rs, t)
<1>1. LiveIn(ss, t) \subseteq LiveIn(rs, t)
  BY DEF LiveIn, RunsEnd
<1>2. \A r, s \in LiveIn(ss, t) : r[2] = s[2] => r = s
  BY <1>1 DEF SlotsOf
<1>3. ASSUME NEW r \in LiveIn(ss, t), NEW s \in RunIds, s[1] = t, s[2] = r[2], ss[s] = "success"
      PROVE  FALSE
  <2>1. rs[s] \in ActiveStates \/ rs[s] = "success"
    BY <1>3 DEF RunsEnd
  <2>2. rs[s] # "success" /\ r \in LiveIn(rs, t)
    BY <1>1, <1>3 DEF SlotsOf
  <2>3. s \in LiveIn(rs, t)
    BY <1>3, <2>1, <2>2 DEF LiveIn
  <2>4. s = r
    BY <1>3, <2>2, <2>3 DEF SlotsOf
  <2> QED BY <1>3, <2>4 DEF LiveIn, ActiveStates
<1>4. \A d \in rest : Free(ss, t, d)
  <2>1. \A d \in rest : Free(rs, t, d)
    BY DEF SlotsOf
  <2> QED BY <2>1 DEF Free, RunsEnd
<1>5. rest \subseteq DatasetsOf[t] /\ \A r \in LiveIn(ss, t) : r[2] \in DatasetsOf[t]
  BY <1>1 DEF SlotsOf
<1> QED BY <1>1, <1>2, <1>3, <1>4, <1>5 DEF SlotsOf

LEMMA SlotsTrigger ==
  ASSUME NEW t \in Tasks, NEW rs \in [RunIds -> RunStates], NEW coming, NEW ds \in SUBSET coming,
         SlotsOf(t, rs, coming)
  PROVE  SlotsOf(t, Triggered(rs, t, ds), coming \ ds)
<1> DEFINE ss == Triggered(rs, t, ds)
<1>1. ASSUME NEW r \in RunIds
      PROVE  /\ ss[r] = rs[r] \/ (r[1] = t /\ r[2] \in ds /\ IsNextTry(rs, r) /\ ss[r] = "queued")
             /\ r[2] \notin ds => ss[r] = rs[r]
  BY DEF Triggered
<1>2. \A d \in coming : Free(rs, t, d)
  BY DEF SlotsOf
<1>3. ASSUME NEW r \in LiveIn(ss, t)
      PROVE  \/ r \in LiveIn(rs, t) /\ r[2] \notin coming
             \/ r \in RunIds /\ r[1] = t /\ r[2] \in ds /\ IsNextTry(rs, r)
  <2>1. r \in RunIds /\ r[1] = t /\ ss[r] \in ActiveStates
    BY DEF LiveIn
  <2>2. CASE ss[r] = rs[r]
    <3>1. r \in LiveIn(rs, t)
      BY <2>1, <2>2 DEF LiveIn
    <3>2. r[2] \notin coming
      BY <1>2, <2>1, <2>2 DEF Free
    <3> QED BY <3>1, <3>2
  <2>3. CASE ss[r] # rs[r]
    BY <1>1, <2>1, <2>3
  <2> QED BY <2>2, <2>3
<1>4. ASSUME NEW r \in LiveIn(ss, t), NEW s \in LiveIn(ss, t), r[2] = s[2]
      PROVE  r = s
  <2>1. CASE r[2] \in coming
    BY <1>3, <1>4, <2>1, OneNextTry
  <2>2. CASE r[2] \notin coming
    <3>1. r \in LiveIn(rs, t) /\ s \in LiveIn(rs, t)
      BY <1>3, <1>4, <2>2
    <3> QED BY <1>4, <3>1 DEF SlotsOf
  <2> QED BY <2>1, <2>2
<1>5. ASSUME NEW r \in LiveIn(ss, t), NEW s \in RunIds, s[1] = t, s[2] = r[2], ss[s] = "success"
      PROVE  FALSE
  <2>1. rs[s] = "success"
    BY <1>1, <1>5
  <2>2. s[2] \notin coming
    BY <1>2, <1>5, <2>1 DEF Free
  <2>3. r \in LiveIn(rs, t)
    BY <1>3, <1>5, <2>2
  <2> QED BY <1>5, <2>1, <2>3 DEF SlotsOf
<1>6. \A r \in LiveIn(ss, t) : r[2] \in DatasetsOf[t]
  BY <1>3 DEF SlotsOf
<1>7. \A d \in coming \ ds : Free(ss, t, d)
  BY <1>1, <1>2 DEF Free
<1> HIDE DEF ss
<1>8. coming \ ds \subseteq DatasetsOf[t]
  BY DEF SlotsOf
<1> QED BY <1>4, <1>5, <1>6, <1>7, <1>8 DEF SlotsOf, ss

(* What prepare_queued_task_activation finds for an entry that has nothing  *)
(* else going on.                                                           *)
LEMMA ActivatedHolds ==
  ASSUME NEW e \in Entry, NEW rs, SlotsOf(e.task, rs, {}),
         e.pending \in {{}, DatasetsOf[e.task]}, Startable(e, Seen(rs)),
         Cardinality(LiveIn(rs, e.task)) <= e.remaining,
         NEW a, a = Activate(e, Seen(rs))
  PROVE  /\ SlotsOf(e.task, rs, a.pending)
         /\ Cardinality(DueOf(e.task, rs, {}, a.pending)) <= a.remaining
<1> DEFINE t == e.task
           todo == Todo(e, Seen(rs))
           waits == Waits(e, Seen(rs))
<1>1. /\ t \in Tasks /\ a.pending = todo
      /\ a.remaining = IF e.pending = {} THEN e.remaining ELSE Cardinality(todo \cup waits)
      /\ todo \subseteq e.pending /\ e.pending \in SUBSET Datasets
  BY DEF Activate, Entry, Todo
<1>2. todo \subseteq DatasetsOf[t]
  BY <1>1
<1>3. ASSUME NEW d \in todo PROVE Free(rs, t, d)
  <2>1. <<t, d>> \notin Seen(rs).done \cup Seen(rs).live
    BY DEF Todo
  <2>2. ASSUME NEW r \in RunIds, r[1] = t, r[2] = d
        PROVE  rs[r] \notin ActiveStates \cup {"success"}
    <3>1. <<r[1], r[2]>> = <<t, d>>
      BY <2>2
    <3> QED BY <2>1, <3>1 DEF Seen
  <2> QED BY <2>2 DEF Free
<1>4. SlotsOf(t, rs, todo)
  BY <1>2, <1>3 DEF SlotsOf
<1>5. CASE e.pending = {}
  <2>1. todo = {}
    BY <1>1, <1>5
  <2>2. DueOf(t, rs, {}, {}) = LiveIn(rs, t)
    BY DEF DueOf
  <2> QED BY <1>1, <1>4, <1>5, <2>1, <2>2
<1>6. CASE e.pending # {}
  <2>1. e.pending = DatasetsOf[t]
    BY <1>6
  <2>2. ASSUME NEW r \in LiveIn(rs, t) PROVE r[2] \in waits
    <3>1. r \in RunIds /\ r[1] = t /\ rs[r] \in ActiveStates
      BY DEF LiveIn
    <3>2. r[2] \in e.pending
      BY <2>1 DEF SlotsOf
    <3>3. <<t, r[2]>> \in Seen(rs).live
      BY <3>1 DEF Seen
    <3>4. ASSUME <<t, r[2]>> \in Seen(rs).done PROVE FALSE
      <4>1. PICK s \in RunIds : rs[s] = "success" /\ <<s[1], s[2]>> = <<t, r[2]>>
        BY <3>4 DEF Seen
      <4>2. s[1] = t /\ s[2] = r[2]
        BY <4>1
      <4> QED BY <4>1, <4>2 DEF SlotsOf
    <3> QED BY <3>2, <3>3, <3>4 DEF Waits
  <2>3. todo \in SUBSET Datasets /\ todo \cup waits \in SUBSET Datasets
    BY <1>1 DEF Todo, Waits
  <2>4. Cardinality(DueOf(t, rs, {}, todo)) <= Cardinality(todo \cup waits)
    BY <1>1, <1>4, <2>2, <2>3, DueDiffer
  <2> QED BY <1>1, <1>4, <1>6, <2>4
<1> QED BY <1>5, <1>6

(* An entry is dropped when every dataset of its task has a run that        *)
(* succeeded: nothing of it executes.                                       *)
LEMMA DroppedIsDone ==
  ASSUME NEW e \in Entry, NEW rs, NEW coming, SlotsOf(e.task, rs, coming),
         e.pending \in {{}, DatasetsOf[e.task]}, ~Startable(e, Seen(rs))
  PROVE  LiveIn(rs, e.task) = {}
<1> SUFFICES ASSUME NEW r \in LiveIn(rs, e.task) PROVE FALSE
  OBVIOUS
<1>1. e.pending = DatasetsOf[e.task] /\ r[2] \in e.pending
  BY DEF Startable, SlotsOf
<1>2. <<e.task, r[2]>> \in Seen(rs).done \cup Seen(rs).live
      /\ <<e.task, r[2]>> \notin Seen(rs).live \ Seen(rs).done
  BY <1>1 DEF Startable, Todo, Waits
<1>3. <<e.task, r[2]>> \in Seen(rs).done
  BY <1>2
<1>4. PICK s \in RunIds : rs[s] = "success" /\ <<s[1], s[2]>> = <<e.task, r[2]>>
  BY <1>3 DEF Seen
<1>5. s[1] = e.task /\ s[2] = r[2]
  BY <1>4
<1> QED BY <1>4, <1>5 DEF SlotsOf

-----------------------------------------------------------------------------
(* Steps that keep the entry of a task.                                     *)

Kept(t, f, g) ==
    /\ \A e \in Entries(g) : e.task = t =>
         \E o \in Entries(f) : o.task = t /\ o.remaining = e.remaining /\ o.completed = e.completed
    /\ \A e \in g.queue : e.task = t => \E o \in f.queue : o.task = t /\ o.pending = e.pending
    /\ InFile(f, t) => InFile(g, t)
    /\ IsActive(f, t) <=> IsActive(g, t)

LEMMA EntriesType ==
  ASSUME NEW f, FileOK(f), NEW e \in Entries(f)
  PROVE  e \in Entry /\ e.remaining \in Nat /\ e.task \in Tasks /\ e.completed \in SUBSET RunIds
<1>1. e \in Entry
  BY DEF FileOK, File, Entries
<1> QED BY <1>1 DEF Entry

LEMMA CommandParts ==
  ASSUME NEW c \in Command, NEW t
  PROVE  /\ ComingOf(c, t) \in SUBSET Datasets /\ StoppedOf(c, t) \in SUBSET RunIds
         /\ c.ds \in SUBSET Datasets /\ c.ids \in SUBSET RunIds
BY DEF ComingOf, StoppedOf, Command

LEMMA KeepRuns ==
  ASSUME NEW t \in Tasks, NEW c \in Command, NEW k \in Command, NEW f, NEW g, NEW rs, NEW ss,
         \A e \in Entries(f) : e.remaining \in Nat,
         RunsOK(t, c, f, rs), Kept(t, f, g), RunsEnd(t, rs, ss),
         ComingOf(k, t) \subseteq ComingOf(c, t),
         StoppedOf(k, t) \subseteq StoppedOf(c, t) \cup LiveIn(rs, t),
         FailsOK(t, k, ss)
  PROVE  RunsOK(t, k, g, ss)
<1>1. SlotsOf(t, ss, ComingOf(k, t)) /\ LiveIn(ss, t) \subseteq LiveIn(rs, t)
  BY SlotsEnd DEF RunsOK
<1>2. ASSUME NEW e \in Entries(g), e.task = t
      PROVE  Cardinality(DueOf(t, ss, StoppedOf(k, t) \ e.completed, ComingOf(k, t))) <= e.remaining
  <2>1. PICK o \in Entries(f) : o.task = t /\ o.remaining = e.remaining /\ o.completed = e.completed
    BY <1>2 DEF Kept
  <2> DEFINE old == StoppedOf(c, t) \ e.completed
             new == StoppedOf(k, t) \ e.completed
  <2>2. Cardinality(DueOf(t, rs, old, ComingOf(c, t))) <= e.remaining
    BY <2>1 DEF RunsOK, CountsOK
  <2>3. old \in SUBSET RunIds /\ new \in SUBSET RunIds /\ new \subseteq old \cup LiveIn(rs, t)
        /\ ComingOf(c, t) \in SUBSET Datasets /\ ComingOf(k, t) \in SUBSET ComingOf(c, t)
    BY CommandParts
  <2> HIDE DEF old, new
  <2>4. Cardinality(DueOf(t, ss, new, ComingOf(k, t)))
          <= Cardinality(DueOf(t, rs, old, ComingOf(c, t)))
    BY <1>1, <2>3, DueShrinks
  <2>5. ComingOf(k, t) \in SUBSET Datasets
    BY <2>3
  <2>6. /\ Cardinality(DueOf(t, ss, new, ComingOf(k, t))) \in Nat
        /\ Cardinality(DueOf(t, rs, old, ComingOf(c, t))) \in Nat
    BY <2>3, <2>5, DueFinite
  <2>7. e.remaining \in Nat
    BY <2>1
  <2> QED BY <2>2, <2>4, <2>6, <2>7 DEF new
<1>3. \A e \in g.queue : e.task = t => e.pending \in {{}, DatasetsOf[t]}
  BY DEF Kept, RunsOK, CountsOK
<1>4. ~InFile(g, t) => LiveIn(ss, t) = {} /\ ComingOf(k, t) = {}
  BY <1>1 DEF Kept, RunsOK, CountsOK
<1> QED BY <1>1, <1>2, <1>3, <1>4 DEF RunsOK, CountsOK

LEMMA KeepPaused ==
  ASSUME NEW t \in Tasks, NEW c, NEW k, NEW f, NEW g, NEW rs, NEW ss, NEW ps, NEW qs,
         PausedOK(t, c, f, rs, ps), Kept(t, f, g),
         \A r \in RunIds : r[1] = t /\ ss[r] = "running" => rs[r] = "running",
         InQueue(f, t) => t \in qs,
         k.pc = "register" /\ k.task = t => t \in qs,
         k.pc = "unpause" /\ k.task = t => IsActive(f, t),
         k.pc = "hand_over" /\ k.next = t => IsActive(f, t)
  PROVE  PausedOK(t, k, g, ss, qs)
<1>1. InQueue(g, t) => InQueue(f, t)
  BY DEF Kept, InQueue
<1>2. \A r \in LiveIn(ss, t) : ss[r] = "running" => IsActive(g, t)
  <2> SUFFICES ASSUME NEW r \in LiveIn(ss, t), ss[r] = "running" PROVE IsActive(g, t)
    OBVIOUS
  <2>1. r \in RunIds /\ r[1] = t /\ rs[r] = "running"
    BY DEF LiveIn
  <2>2. r \in LiveIn(rs, t)
    BY <2>1 DEF LiveIn, ActiveStates
  <2> QED BY <2>1, <2>2 DEF PausedOK, Kept
<1> QED BY <1>1, <1>2 DEF PausedOK, Kept

(* A command that has stopped what it will stop and loses nothing.          *)
LEMMA FailsKeep ==
  ASSUME NEW t, NEW c, NEW rs, NEW ss, FailsOK(t, c, rs), LiveIn(ss, t) \subseteq LiveIn(rs, t)
  PROVE  FailsOK(t, c, ss)
BY DEF FailsOK

LEMMA SameKept ==
  ASSUME NEW t, NEW f
  PROVE  Kept(t, f, f)
BY DEF Kept

LEMMA RefreshKept ==
  ASSUME NEW t, NEW f, FileOK(f), NEW cf
  PROVE  /\ Kept(t, f, Refresh(f, cf))
         /\ InQueue(Refresh(f, cf), t) <=> InQueue(f, t)
<1> DEFINE g == Refresh(f, cf)
<1>1. f.queue \in SUBSET Entry /\ (f.active # NoEntry => f.active \in Entry)
  BY DEF FileOK, File
<1>2. ASSUME NEW e \in Entry
      PROVE  LET o == RefreshEntry(e, cf)
             IN  /\ o \in Entry /\ o.task = e.task /\ o.remaining = e.remaining
                 /\ o.completed = e.completed /\ o.pending = e.pending
  BY RefreshEntryType DEF RefreshEntry, Entry
<1>3. f.active # NoEntry => g.active = RefreshEntry(f.active, cf) /\ g.active # NoEntry
  BY <1>1, <1>2, FileAssumption DEF Refresh
<1>4. f.active = NoEntry => g.active = NoEntry
  BY DEF Refresh
<1>5. g.queue = {RefreshEntry(e, cf) : e \in f.queue}
  BY DEF Refresh
<1>6. ASSUME NEW e \in Entries(g)
      PROVE  \E o \in Entries(f) : /\ o.task = e.task /\ o.remaining = e.remaining
                                   /\ o.completed = e.completed
  <2>1. CASE e \in g.queue
    BY <1>1, <1>2, <1>5, <2>1 DEF Entries
  <2>2. CASE e = g.active /\ e # NoEntry
    BY <1>1, <1>2, <1>3, <1>4, <2>2 DEF Entries
  <2> QED BY <2>1, <2>2 DEF Entries
<1>7. ASSUME NEW e \in g.queue PROVE \E o \in f.queue : o.task = e.task /\ o.pending = e.pending
  BY <1>1, <1>2, <1>5
<1>8. ASSUME NEW e \in f.queue PROVE \E o \in g.queue : o.task = e.task
  BY <1>1, <1>2, <1>5
<1>9. InFile(f, t) => InFile(g, t)
  <2> SUFFICES ASSUME NEW e \in Entries(f), e.task = t PROVE InFile(g, t)
    BY DEF InFile
  <2>1. CASE e \in f.queue
    BY <1>8, <2>1 DEF InFile, Entries
  <2>2. CASE e = f.active /\ e # NoEntry
    BY <1>1, <1>2, <1>3, <2>2 DEF InFile, Entries
  <2> QED BY <2>1, <2>2 DEF Entries
<1>10. IsActive(f, t) <=> IsActive(g, t)
  BY RefreshOK
<1>11. InQueue(g, t) <=> InQueue(f, t)
  BY <1>7, <1>8 DEF InQueue
<1> QED BY <1>6, <1>7, <1>9, <1>10, <1>11 DEF Kept

LEMMA SoftPreemptKept ==
  ASSUME NEW t, NEW f, FileOK(f)
  PROVE  Kept(t, f, SoftPreempt(f)) /\ SoftPreempt(f).queue = f.queue
<1>1. CASE ~Preempts(f)
  BY <1>1, SameKept DEF SoftPreempt
<1>2. CASE Preempts(f)
  <2> DEFINE g == [active |-> Drain(f.active), queue |-> f.queue]
  <2>1. f.active \in Entry /\ f.active # NoEntry /\ SoftPreempt(f) = g
    BY <1>2 DEF Preempts, FileOK, File, SoftPreempt
  <2>2. /\ Drain(f.active) \in Entry /\ Drain(f.active).task = f.active.task
        /\ Drain(f.active).remaining = f.active.remaining
        /\ Drain(f.active).completed = f.active.completed
    BY <2>1, DrainType DEF Drain, Entry
  <2>3. Drain(f.active) # NoEntry
    BY <2>2, FileAssumption
  <2>4. Entries(g) = f.queue \cup {Drain(f.active)} /\ Entries(f) = f.queue \cup {f.active}
    BY <2>1, <2>3 DEF Entries
  <2>5. Kept(t, f, g)
    BY <2>1, <2>2, <2>3, <2>4 DEF Kept, InFile, IsActive
  <2> QED BY <2>1, <2>5
<1> QED BY <1>1, <1>2

(* A registration leaves the entries of other tasks alone.                  *)
LEMMA StartedKept ==
  ASSUME NEW t, NEW u \in Tasks, t # u, NEW f, FileOK(f), Starts(f, u),
         NEW n \in Nat \ {0}, NEW p \in Prios
  PROVE  Kept(t, f, Started(f, u, n, p))
<1> DEFINE g == Started(f, u, n, p)
<1>1. g.queue = f.queue
  BY DEF Started
<1>2. g.active \in Entry /\ g.active # NoEntry /\ g.active.task = u
  <2>1. 0 \in 0..MaxRank
    BY FileAssumption
  <2>2. BuildEntry(u, n, p, 0) \in Entry /\ BuildEntry(u, n, p, 0).task = u
    BY <2>1, BuildEntryType
  <2>3. f.active # NoEntry => /\ AddRuns(f.active, n, p) \in Entry
                              /\ AddRuns(f.active, n, p).task = u
    BY AddRunsType DEF FileOK, File, Starts
  <2> QED BY <2>2, <2>3, FileAssumption DEF Started
<1>3. ~IsActive(f, t) /\ ~IsActive(g, t)
  BY <1>2 DEF IsActive, Starts
<1>4. ASSUME NEW e, e.task = t PROVE e \in Entries(f) <=> e \in f.queue
  BY <1>4 DEF Entries, Starts
<1>5. ASSUME NEW e, e.task = t PROVE e \in Entries(g) <=> e \in f.queue
  BY <1>1, <1>2, <1>5 DEF Entries
<1> HIDE DEF g
<1> QED BY <1>1, <1>3, <1>4, <1>5 DEF Kept, InFile, g

LEMMA QueuedKept ==
  ASSUME NEW t, NEW u \in Tasks, t # u, NEW f, FileOK(f), ~Starts(f, u),
         NEW n \in Nat \ {0}, NEW p \in Prios, NEW g \in Queued(f, u, n, p)
  PROVE  Kept(t, f, g)
<1>1. PICK q \in Enqueued(f.queue, u, n, p) : g = [active |-> f.active, queue |-> q]
  BY DEF Queued
<1>2. \A e : e.task = t => (e \in q <=> e \in f.queue)
  <2>1. CASE \E e \in f.queue : e.task = u
    <3>1. q = {IF e.task = u THEN AddRuns(e, n, p) ELSE e : e \in f.queue}
      BY <1>1, <2>1 DEF Enqueued
    <3>2. \A e \in f.queue : AddRuns(e, n, p).task = e.task
      BY AddRunsType DEF FileOK, File
    <3> QED BY <3>1, <3>2
  <2>2. CASE ~\E e \in f.queue : e.task = u
    <3>1. PICK at \in LastPlaces(f.queue) : q = f.queue \cup {BuildEntry(u, n, p, at)}
      BY <1>1, <2>2 DEF Enqueued
    <3>2. BuildEntry(u, n, p, at).task = u
      BY DEF BuildEntry
    <3> QED BY <3>1, <3>2
  <2> QED BY <2>1, <2>2
<1>3. \A e : e.task = t => (e \in Entries(g) <=> e \in Entries(f))
  BY <1>1, <1>2 DEF Entries
<1> QED BY <1>1, <1>2, <1>3 DEF Kept, InFile, IsActive

-----------------------------------------------------------------------------
(* Hand-overs.                                                              *)

(* The file between the removal of the active entry and the activation.     *)
Waiting(q) == [active |-> NoEntry, queue |-> q]

LEMMA WaitingEntries ==
  ASSUME NEW q
  PROVE  Entries(Waiting(q)) = q /\ Waiting(q).queue = q /\ \A t : ~IsActive(Waiting(q), t)
BY DEF Entries, Waiting, IsActive

(* What a hand-over does to a task that may be in the queue.                *)
LEMMA AdvanceRuns ==
  ASSUME NEW t \in Tasks, NEW c, NEW q \in SUBSET Entry, OnePerTask(q), NEW rs,
         RunsOK(t, c, Waiting(q), rs), NEW g \in Advances(q, Seen(rs))
  PROVE  \/ Kept(t, Waiting(q), g)
         \/ /\ IsActive(g, t) /\ InQueue(Waiting(q), t)
            /\ ComingOf(c, t) = {} /\ StoppedOf(c, t) = {} =>
                 /\ SlotsOf(t, rs, g.active.pending)
                 /\ Cardinality(DueOf(t, rs, {}, g.active.pending)) <= g.active.remaining
         \/ ~InFile(g, t) /\ LiveIn(rs, t) = {} /\ InQueue(Waiting(q), t)
<1> DEFINE w == Waiting(q)
           ok == {e \in q : Startable(e, Seen(rs))}
<1>1. Entries(w) = q /\ w.queue = q /\ ~IsActive(w, t)
  BY WaitingEntries
<1>2. SlotsOf(t, rs, ComingOf(c, t)) /\ CountsOK(t, c, w, rs)
  BY DEF RunsOK
<1> HIDE DEF w
<1>3. \A e \in q : e.task = t => e.pending \in {{}, DatasetsOf[t]}
  BY <1>1, <1>2 DEF CountsOK
<1>4. ASSUME NEW e \in q, e.task = t, ~Startable(e, Seen(rs))
      PROVE  LiveIn(rs, t) = {}
  BY <1>2, <1>3, <1>4, DroppedIsDone
<1>5. CASE ok = {}
  <2>1. g = Empty
    BY <1>5 DEF Advances
  <2>2. Entries(g) = {} /\ g.queue = {} /\ ~IsActive(g, t) /\ ~InFile(g, t)
    BY <2>1 DEF Entries, Empty, IsActive, InFile
  <2>3. CASE \E e \in q : e.task = t
    BY <1>1, <1>4, <1>5, <2>2, <2>3 DEF InQueue, w
  <2>4. CASE ~\E e \in q : e.task = t
    BY <1>1, <2>2, <2>4 DEF Kept, InFile, w
  <2> QED BY <2>3, <2>4
<1>6. CASE ok # {}
  <2>1. PICK n \in Heads(ok) :
          g = [active |-> Activate(n, Seen(rs)), queue |-> {e \in q \ {n} : Before(n, e)}]
    BY <1>6 DEF Advances
  <2> DEFINE a == Activate(n, Seen(rs))
  <2>2. n \in q /\ Startable(n, Seen(rs)) /\ \A o \in ok \ {n} : Before(n, o)
    BY DEF Heads
  <2>3. a \in Entry /\ a.task = n.task /\ a # NoEntry
    BY <2>2, ActivateType, FileAssumption
  <2>4. g.active = a /\ g.queue = {e \in q \ {n} : Before(n, e)} /\ Entries(g) = g.queue \cup {a}
    BY <2>1, <2>3 DEF Entries
  <2> HIDE DEF a
  <2>5. CASE n.task = t
    <3>1. IsActive(g, t) /\ InQueue(w, t)
      BY <1>1, <2>2, <2>3, <2>4, <2>5 DEF IsActive, InQueue
    <3>2. ASSUME ComingOf(c, t) = {}, StoppedOf(c, t) = {}
          PROVE  /\ SlotsOf(t, rs, a.pending)
                 /\ Cardinality(DueOf(t, rs, {}, a.pending)) <= a.remaining
      <4>1. Cardinality(DueOf(t, rs, {} \ n.completed, {})) <= n.remaining
        BY <1>1, <1>2, <2>2, <2>5, <3>2 DEF CountsOK
      <4>2. DueOf(t, rs, {} \ n.completed, {}) = LiveIn(rs, t)
        BY DEF DueOf
      <4>3. SlotsOf(t, rs, {}) /\ Cardinality(LiveIn(rs, t)) <= n.remaining
        BY <1>2, <3>2, <4>1, <4>2
      <4> QED BY <1>3, <2>2, <2>5, <4>3, ActivatedHolds DEF a
    <3> QED BY <2>4, <3>1, <3>2 DEF w
  <2>6. CASE n.task # t
    <3>1. ~IsActive(g, t) /\ \A e : e.task = t => (e \in Entries(g) <=> e \in g.queue)
      BY <2>3, <2>4, <2>6 DEF IsActive
    <3>2. CASE \E e \in g.queue : e.task = t
      <4>1. InFile(g, t)
        BY <3>1, <3>2 DEF InFile
      <4> QED BY <1>1, <2>4, <3>1, <4>1 DEF Kept, w
    <3>3. CASE ~\E e \in g.queue : e.task = t
      <4>1. ~InFile(g, t)
        BY <3>1, <3>3 DEF InFile
      <4>2. CASE \E e \in q : e.task = t
        <5>1. PICK e \in q : e.task = t
          BY <4>2
        <5>2. ~Before(n, e) /\ e # n
          BY <2>4, <2>6, <3>3, <5>1
        <5>3. ~Startable(e, Seen(rs))
          BY <2>2, <5>1, <5>2
        <5> QED BY <1>1, <1>4, <4>1, <5>1, <5>3 DEF InQueue, w
      <4>3. CASE ~\E e \in q : e.task = t
        <5>1. ~InFile(w, t)
          BY <1>1, <4>3 DEF InFile
        <5> QED BY <1>1, <3>1, <3>3, <4>1, <5>1 DEF Kept, InFile, w
      <4> QED BY <4>2, <4>3
    <3> QED BY <3>2, <3>3
  <2> QED BY <2>5, <2>6
<1> QED BY <1>5, <1>6

-----------------------------------------------------------------------------
(* What the pieces amount to.                                               *)

LEMMA KeptTrans ==
  ASSUME NEW t, NEW f, NEW g, NEW h, Kept(t, f, g), Kept(t, g, h)
  PROVE  Kept(t, f, h)
<1>1. ASSUME NEW e \in Entries(h), e.task = t
      PROVE  \E o \in Entries(f) : o.task = t /\ o.remaining = e.remaining /\ o.completed = e.completed
  <2>1. PICK n \in Entries(g) : n.task = t /\ n.remaining = e.remaining /\ n.completed = e.completed
    BY <1>1 DEF Kept
  <2>2. PICK o \in Entries(f) : o.task = t /\ o.remaining = n.remaining /\ o.completed = n.completed
    BY <2>1 DEF Kept
  <2> QED BY <2>1, <2>2
<1>2. ASSUME NEW e \in h.queue, e.task = t
      PROVE  \E o \in f.queue : o.task = t /\ o.pending = e.pending
  <2>1. PICK n \in g.queue : n.task = t /\ n.pending = e.pending
    BY <1>2 DEF Kept
  <2>2. PICK o \in f.queue : o.task = t /\ o.pending = n.pending
    BY <2>1 DEF Kept
  <2> QED BY <2>1, <2>2
<1>3. (InFile(f, t) => InFile(h, t)) /\ (IsActive(f, t) <=> IsActive(h, t))
  BY DEF Kept
<1> QED BY <1>1, <1>2, <1>3 DEF Kept

(* The commands other than c see the runs of a task as the idle ones do.    *)
LEMMA Foreign ==
  ASSUME NEW t \in Tasks, NEW c, Shape(c), t \notin Touches(c)
  PROVE  /\ ComingOf(c, t) = {} /\ StoppedOf(c, t) = {}
         /\ c.task # t /\ c.next # t /\ c.pc # "clear"
<1>1. t # NoTask
  BY ProcAssumption
<1>2. c.op # "cleanup"
  BY DEF Touches
<1>3. c.task # t /\ c.next # t
  BY <1>1, <1>2 DEF Touches
<1>4. c.pc # "clear"
  BY <1>2 DEF Shape, Registering, Stopping, Other, Idle
<1> QED BY <1>3, <1>4 DEF ComingOf, StoppedOf

LEMMA IdleViews ==
  ASSUME NEW t \in Tasks
  PROVE  /\ ComingOf(Idle, t) = {} /\ StoppedOf(Idle, t) = {} /\ \A rs : FailsOK(t, Idle, rs)
         /\ Idle.task # t /\ Idle.next # t /\ Touches(Idle) = {} /\ Idle \in Command
<1>1. Idle.task = NoTask /\ Idle.next = NoTask /\ Idle.op = "none" /\ Idle.pc = "idle"
  BY DEF Idle
<1>2. t # NoTask
  BY ProcAssumption
<1>3. Touches(Idle) = {}
  BY <1>1 DEF Touches
<1>4. Idle \in Command
  BY IdleReady
<1> QED BY <1>1, <1>2, <1>3, <1>4 DEF ComingOf, StoppedOf, FailsOK

(* A task without an entry and without runs.                                *)
LEMMA NothingLeft ==
  ASSUME NEW t \in Tasks, NEW k, NEW g, NEW ss, LiveIn(ss, t) = {}, ~InFile(g, t),
         ComingOf(k, t) = {}
  PROVE  RunsOK(t, k, g, ss)
<1>1. SlotsOf(t, ss, ComingOf(k, t))
  BY DEF SlotsOf
<1>2. CountsOK(t, k, g, ss)
  BY DEF CountsOK, InFile, Entries
<1>3. FailsOK(t, k, ss)
  BY DEF FailsOK
<1> QED BY <1>1, <1>2, <1>3 DEF RunsOK

(* A task that is active has no other entry.                                *)
LEMMA ActiveAlone ==
  ASSUME NEW f, FileOK(f), NEW t, IsActive(f, t)
  PROVE  /\ ~InQueue(f, t) /\ InFile(f, t)
         /\ \A e \in Entries(f) : e.task = t => e = f.active
BY DEF FileOK, IsActive, InQueue, InFile, Entries

LEMMA ActivatedRuns ==
  ASSUME NEW t \in Tasks, NEW k, NEW g, FileOK(g), IsActive(g, t), NEW rs,
         NEW coming, SlotsOf(t, rs, coming), ComingOf(k, t) = coming, StoppedOf(k, t) = {},
         Cardinality(DueOf(t, rs, {}, coming)) <= g.active.remaining,
         FailsOK(t, k, rs)
  PROVE  RunsOK(t, k, g, rs)
<1>1. {} \ g.active.completed = {}
  OBVIOUS
<1>2. CountsOK(t, k, g, rs)
  BY <1>1, ActiveAlone DEF CountsOK, InQueue
<1> QED BY <1>2 DEF RunsOK

(* Runs to come are triggered by a command that then is k.                  *)
LEMMA TriggerRuns ==
  ASSUME NEW t \in Tasks, NEW c \in Command, NEW k \in Command, NEW f,
         \A e \in Entries(f) : e.remaining \in Nat,
         NEW rs \in [RunIds -> RunStates], RunsOK(t, c, f, rs),
         NEW ds, ds \subseteq ComingOf(c, t), ComingOf(k, t) = ComingOf(c, t) \ ds,
         StoppedOf(c, t) = {}, StoppedOf(k, t) = {}, k.pc \notin {"fail", "clear"}
  PROVE  RunsOK(t, k, f, Triggered(rs, t, ds))
<1> DEFINE ss == Triggered(rs, t, ds)
           coming == ComingOf(c, t)
<1>0. coming \in SUBSET Datasets /\ ds \in SUBSET coming
  BY CommandParts
<1>1. SlotsOf(t, ss, ComingOf(k, t))
  BY <1>0, SlotsTrigger DEF RunsOK
<1>2. ASSUME NEW e \in Entries(f), e.task = t
      PROVE  Cardinality(DueOf(t, ss, StoppedOf(k, t) \ e.completed, ComingOf(k, t))) <= e.remaining
  <2>1. Cardinality(DueOf(t, rs, {} \ e.completed, coming)) <= e.remaining
    BY <1>2 DEF RunsOK, CountsOK
  <2>2. {} \ e.completed = {} /\ {} \in SUBSET RunIds
    OBVIOUS
  <2>3. Cardinality(DueOf(t, ss, {}, coming \ ds)) <= Cardinality(DueOf(t, rs, {}, coming))
    BY <1>0, DueTriggers
  <2>4. coming \ ds \in SUBSET Datasets
    BY <1>0
  <2>5. /\ Cardinality(DueOf(t, ss, {}, coming \ ds)) \in Nat
        /\ Cardinality(DueOf(t, rs, {}, coming)) \in Nat
    BY <1>0, <2>2, <2>4, DueFinite
  <2> QED BY <2>1, <2>2, <2>3, <2>5
<1>3. ~InFile(f, t) => LiveIn(ss, t) = {} /\ ComingOf(k, t) = {}
  <2> SUFFICES ASSUME ~InFile(f, t) PROVE LiveIn(ss, t) = {} /\ ComingOf(k, t) = {}
    OBVIOUS
  <2>1. LiveIn(rs, t) = {} /\ coming = {}
    BY DEF RunsOK, CountsOK
  <2>2. ds = {}
    BY <2>1
  <2>3. \A r \in RunIds : ss[r] = rs[r]
    BY <2>2 DEF Triggered
  <2> QED BY <2>1, <2>3 DEF LiveIn
<1>4. FailsOK(t, k, ss)
  BY DEF FailsOK
<1> QED BY <1>1, <1>2, <1>3, <1>4 DEF RunsOK, CountsOK

-----------------------------------------------------------------------------
(* What a registration does to its own task, whose datasets ds have no run  *)
(* that is live or has succeeded and nothing pending.                       *)

LEMMA DueAdds ==
  ASSUME NEW t \in Tasks, NEW rs, NEW ds \in SUBSET Datasets, NEW n \in Nat,
         Cardinality(DueOf(t, rs, {}, {})) <= n
  PROVE  Cardinality(DueOf(t, rs, {}, ds)) <= n + Cardinality(ds)
<1> DEFINE L == DueOf(t, rs, {}, {})
           T == {<<t, d, 0>> : d \in ds}
           h == [d \in ds |-> <<t, d, 0>>]
<1>1. IsFiniteSet(ds)
  BY FileAssumption, FS_Subset
<1>2. {} \in SUBSET RunIds /\ {} \in SUBSET Datasets
  OBVIOUS
<1>3. IsFiniteSet(L) /\ Cardinality(L) \in Nat
  BY <1>2, DueFinite
<1>4. h \in Surjection(ds, T)
  BY DEF Surjection
<1>5. DueOf(t, rs, {}, ds) = L \cup T
  BY DEF DueOf
<1> HIDE DEF h, L, T
<1>6. IsFiniteSet(T) /\ Cardinality(T) <= Cardinality(ds)
  BY <1>1, <1>4, FS_Surjection
<1>7. Cardinality(L \cup T) = Cardinality(L) + Cardinality(T) - Cardinality(L \cap T)
  BY ONLY <1>3, <1>6, FS_Union
<1>8. IsFiniteSet(L \cap T)
  BY <1>3, FS_Subset
<1>9. Cardinality(T) \in Nat /\ Cardinality(ds) \in Nat /\ Cardinality(L \cap T) \in Nat
  BY <1>1, <1>6, <1>8, FS_CardinalityType
<1>10. Cardinality(L \cup T) <= n + Cardinality(ds)
  BY <1>3, <1>6, <1>7, <1>9 DEF L
<1> QED BY <1>5, <1>10

LEMMA StartedRuns ==
  ASSUME NEW t \in Tasks, NEW c \in Command, NEW k, NEW f, FileOK(f), NEW rs,
         RunsOK(t, c, f, rs), ComingOf(c, t) = {}, StoppedOf(c, t) = {},
         NEW ds \in SUBSET Datasets, ds # {}, ds \subseteq DatasetsOf[t],
         \A d \in ds : Free(rs, t, d), Starts(f, t), NEW p \in Prios,
         ComingOf(k, t) = ds, StoppedOf(k, t) = {}, k.pc \notin {"fail", "clear"}
  PROVE  RunsOK(t, k, Started(f, t, Cardinality(ds), p), rs)
<1> DEFINE n == Cardinality(ds)
           g == Started(f, t, n, p)
<1>1. n \in Nat \ {0}
  BY SomeRuns
<1>2. FileOK(g)
  BY <1>1, StartedOK
<1>3. SlotsOf(t, rs, ds)
  BY DEF RunsOK, SlotsOf
<1>4. FailsOK(t, k, rs)
  BY DEF FailsOK
<1>5. CASE f.active = NoEntry
  <2>1. g.active = BuildEntry(t, n, p, 0)
    BY <1>5 DEF Started
  <2>2. g.active.task = t /\ g.active.remaining = n
    BY <2>1 DEF BuildEntry
  <2>3. g.active # NoEntry
    BY <1>1, <2>1, BuildEntryType, FileAssumption
  <2>4. ~InFile(f, t)
    BY <1>5 DEF FileOK, InFile, Entries
  <2>5. LiveIn(rs, t) = {}
    BY <2>4 DEF RunsOK, CountsOK
  <2>6. Cardinality(DueOf(t, rs, {}, ds)) <= Cardinality(ds)
    BY <1>3, <2>5, DueDiffer
  <2>7. IsActive(g, t)
    BY <2>2, <2>3 DEF IsActive
  <2> HIDE DEF g
  <2> QED BY <1>2, <1>3, <1>4, <2>2, <2>6, <2>7, ActivatedRuns DEF g
<1>6. CASE f.active # NoEntry
  <2>1. IsActive(f, t) /\ f.active \in Entry /\ f.active \in Entries(f)
    BY <1>6 DEF Starts, IsActive, FileOK, File, Entries
  <2>2. g.active = AddRuns(f.active, n, p)
    BY <1>6 DEF Started
  <2>3. f.active.remaining \in Nat /\ f.active.task = t
    BY <2>1 DEF Entry, IsActive
  <2>4. g.active.task = t /\ g.active.remaining = f.active.remaining + n /\ g.active # NoEntry
    <3>1. AddRuns(f.active, n, p) \in Entry
      BY <1>1, <2>1, AddRunsType
    <3> QED BY <2>1, <2>2, <2>3, <3>1, FileAssumption DEF AddRuns, Entry
  <2>5. Cardinality(DueOf(t, rs, {} \ f.active.completed, {})) <= f.active.remaining
    BY <2>1, <2>3 DEF RunsOK, CountsOK
  <2>6. {} \ f.active.completed = {}
    OBVIOUS
  <2>7. Cardinality(DueOf(t, rs, {}, ds)) <= f.active.remaining + n
    BY <2>3, <2>5, <2>6, DueAdds
  <2>8. IsActive(g, t)
    BY <2>4 DEF IsActive
  <2> HIDE DEF g
  <2> QED BY <1>2, <1>3, <1>4, <2>4, <2>7, <2>8, ActivatedRuns DEF g
<1> QED BY <1>5, <1>6

LEMMA QueuedRuns ==
  ASSUME NEW t \in Tasks, NEW c \in Command, NEW k, NEW f, FileOK(f), NEW rs,
         RunsOK(t, c, f, rs), ComingOf(c, t) = {}, StoppedOf(c, t) = {},
         NEW ds \in SUBSET Datasets, ds # {}, ds \subseteq DatasetsOf[t],
         \A d \in ds : Free(rs, t, d), ~Starts(f, t), NEW p \in Prios,
         \A e \in Entries(f) : e.task = t => e.pending = {},
         NEW g \in Queued(f, t, Cardinality(ds), p),
         ComingOf(k, t) = ds, StoppedOf(k, t) = {}, k.pc \notin {"fail", "clear"}
  PROVE  RunsOK(t, k, g, rs)
<1> DEFINE n == Cardinality(ds)
<1>1. n \in Nat \ {0}
  BY SomeRuns
<1>2. SlotsOf(t, rs, ds)
  BY DEF RunsOK, SlotsOf
<1>3. FailsOK(t, k, rs)
  BY DEF FailsOK
<1>4. f.active # NoEntry /\ f.active.task # t /\ f.queue \in SUBSET Entry
  BY DEF Starts, FileOK, File
<1>5. PICK q \in Enqueued(f.queue, t, n, p) : g = [active |-> f.active, queue |-> q]
  BY DEF Queued
<1>6. Entries(g) = q \cup {f.active} /\ Entries(f) = f.queue \cup {f.active}
  BY <1>4, <1>5 DEF Entries
<1>7. /\ \A e \in q : e.task = t =>
           /\ Cardinality(DueOf(t, rs, {}, ds)) <= e.remaining
           /\ e.pending = {}
      /\ \E e \in q : e.task = t
  <2>1. CASE \E e \in f.queue : e.task = t
    <3>1. q = {IF e.task = t THEN AddRuns(e, n, p) ELSE e : e \in f.queue}
      BY <1>5, <2>1 DEF Enqueued
    <3>2. ASSUME NEW o \in f.queue, o.task = t
          PROVE  LET e == AddRuns(o, n, p)
                 IN  /\ Cardinality(DueOf(t, rs, {}, ds)) <= e.remaining
                     /\ e.pending = {} /\ e.task = t
      <4>1. o \in Entry /\ o.remaining \in Nat /\ o.pending = {}
        BY <1>4, <1>6, <3>2 DEF Entry
      <4>2. Cardinality(DueOf(t, rs, {} \ o.completed, {})) <= o.remaining
        BY <1>6, <3>2 DEF RunsOK, CountsOK
      <4>3. {} \ o.completed = {}
        OBVIOUS
      <4>4. Cardinality(DueOf(t, rs, {}, ds)) <= o.remaining + n
        BY <4>1, <4>2, <4>3, DueAdds
      <4> QED BY <3>2, <4>1, <4>4 DEF AddRuns, Entry
    <3> QED BY <2>1, <3>1, <3>2
  <2>2. CASE ~\E e \in f.queue : e.task = t
    <3>1. PICK at \in LastPlaces(f.queue) : q = f.queue \cup {BuildEntry(t, n, p, at)}
      BY <1>5, <2>2 DEF Enqueued
    <3>2. ~InFile(f, t)
      BY <1>4, <1>6, <2>2 DEF InFile
    <3>3. LiveIn(rs, t) = {}
      BY <3>2 DEF RunsOK, CountsOK
    <3>4. Cardinality(DueOf(t, rs, {}, ds)) <= Cardinality(ds)
      BY <1>2, <3>3, DueDiffer
    <3>5. /\ BuildEntry(t, n, p, at).task = t /\ BuildEntry(t, n, p, at).remaining = n
          /\ BuildEntry(t, n, p, at).pending = {}
      BY DEF BuildEntry
    <3> QED BY <2>2, <3>1, <3>4, <3>5
  <2> QED BY <2>1, <2>2
<1>8. \A e \in Entries(g) : e.task = t => e \in q
  BY <1>4, <1>6
<1>9. g.queue = q /\ InFile(g, t)
  BY <1>5, <1>6, <1>7 DEF InFile
<1>10. \A e : {} \ e.completed = {}
  OBVIOUS
<1>11. CountsOK(t, k, g, rs)
  BY <1>7, <1>8, <1>9, <1>10 DEF CountsOK
<1> QED BY <1>2, <1>3, <1>11 DEF RunsOK

-----------------------------------------------------------------------------
(* What the operations that may hand over do to a task, when c works on it. *)

(* The task keeps its entry, is activated, or is dropped with nothing live. *)
Moves(t, c, f, g, rs) ==
    \/ Kept(t, f, g)
    \/ /\ IsActive(g, t) /\ InQueue(f, t)
       /\ ComingOf(c, t) = {} /\ StoppedOf(c, t) = {} =>
            /\ SlotsOf(t, rs, g.active.pending)
            /\ Cardinality(DueOf(t, rs, {}, g.active.pending)) <= g.active.remaining
    \/ ~InFile(g, t) /\ LiveIn(rs, t) = {} /\ InQueue(f, t)

LEMMA RunsKept ==
  ASSUME NEW t \in Tasks, NEW c \in Command, NEW f, FileOK(f), NEW g, NEW rs,
         RunsOK(t, c, f, rs), Kept(t, f, g)
  PROVE  RunsOK(t, c, g, rs)
<1>1. \A e \in Entries(f) : e.remaining \in Nat
  BY EntriesType
<1>2. RunsEnd(t, rs, rs)
  BY DEF RunsEnd
<1>3. FailsOK(t, c, rs)
  BY DEF RunsOK
<1> QED BY <1>1, <1>2, <1>3, KeepRuns

LEMMA AdvanceMoves ==
  ASSUME NEW t \in Tasks, NEW c \in Command, NEW f, FileOK(f), NEW rs, RunsOK(t, c, f, rs),
         NEW q \in SUBSET Entry, OnePerTask(q), Kept(t, f, Waiting(q)),
         NEW g \in Advances(q, Seen(rs))
  PROVE  Moves(t, c, f, g, rs)
<1>1. RunsOK(t, c, Waiting(q), rs)
  BY RunsKept
<1>2. InQueue(Waiting(q), t) => InQueue(f, t)
  BY DEF Kept, InQueue
<1>3. \/ Kept(t, Waiting(q), g)
      \/ /\ IsActive(g, t) /\ InQueue(Waiting(q), t)
         /\ ComingOf(c, t) = {} /\ StoppedOf(c, t) = {} =>
              /\ SlotsOf(t, rs, g.active.pending)
              /\ Cardinality(DueOf(t, rs, {}, g.active.pending)) <= g.active.remaining
      \/ ~InFile(g, t) /\ LiveIn(rs, t) = {} /\ InQueue(Waiting(q), t)
  BY <1>1, AdvanceRuns
<1> QED BY <1>2, <1>3, KeptTrans DEF Moves

(* The same entries of the task wait in q and in the queue of f.            *)
LEMMA WaitingKept ==
  ASSUME NEW t, NEW f, ~IsActive(f, t), NEW q,
         \A e : e.task = t => (e \in q <=> e \in f.queue)
  PROVE  Kept(t, f, Waiting(q))
<1>1. Entries(Waiting(q)) = q /\ Waiting(q).queue = q /\ ~IsActive(Waiting(q), t)
  BY WaitingEntries
<1>2. \A e \in Entries(f) : e.task = t => e \in f.queue
  BY DEF Entries, IsActive
<1>3. f.queue \subseteq Entries(f)
  BY DEF Entries
<1> QED BY <1>1, <1>2, <1>3 DEF Kept, InFile

LEMMA SameEntriesKept ==
  ASSUME NEW t, NEW f, NEW g, g.active = f.active,
         \A e : e.task = t => (e \in g.queue <=> e \in f.queue)
  PROVE  Kept(t, f, g)
<1>1. \A e : e.task = t => (e \in Entries(g) <=> e \in Entries(f))
  BY DEF Entries
<1> QED BY <1>1 DEF Kept, InFile, IsActive

LEMMA RemovedMoves ==
  ASSUME NEW t \in Tasks, NEW u, t # u, NEW c \in Command, NEW f, FileOK(f), NEW rs,
         RunsOK(t, c, f, rs), NEW g \in Removed(f, u, Seen(rs))
  PROVE  Moves(t, c, f, g, rs)
<1> DEFINE q == Without(f.queue, u)
<1>1. \A e : e.task = t => (e \in q <=> e \in f.queue)
  BY DEF Without
<1>2. q \in SUBSET Entry /\ OnePerTask(q)
  BY DEF Without, FileOK, File, OnePerTask
<1>3. CASE IsActive(f, u)
  <2>1. ~IsActive(f, t) /\ g \in Advances(q, Seen(rs))
    BY <1>3 DEF IsActive, Removed
  <2>2. Kept(t, f, Waiting(q))
    BY <1>1, <2>1, WaitingKept
  <2> QED BY <1>2, <2>1, <2>2, AdvanceMoves
<1>4. CASE ~IsActive(f, u)
  <2>1. g.active = f.active /\ g.queue = q
    BY <1>4 DEF Removed
  <2> QED BY <1>1, <2>1, SameEntriesKept DEF Moves
<1> QED BY <1>3, <1>4

LEMMA MarkedMoves ==
  ASSUME NEW t \in Tasks, NEW u, t # u, NEW c \in Command, NEW f, FileOK(f), NEW rs,
         RunsOK(t, c, f, rs), NEW ids \in SUBSET RunIds, NEW g \in Marked(f, u, ids, Seen(rs))
  PROVE  /\ Moves(t, c, f, g, rs)
         /\ ~(IsActive(f, u) /\ UsedUp(f.active, ids)) => Kept(t, f, g)
<1>1. f.queue \in SUBSET Entry /\ OnePerTask(f.queue)
  BY DEF FileOK, File
<1>2. CASE IsActive(f, u) /\ UsedUp(f.active, ids)
  <2>1. ~IsActive(f, t) /\ g \in Advances(f.queue, Seen(rs))
    BY <1>2 DEF IsActive, Marked
  <2>2. Kept(t, f, Waiting(f.queue))
    BY <2>1, WaitingKept
  <2> QED BY <1>1, <1>2, <2>1, <2>2, AdvanceMoves
<1>3. CASE IsActive(f, u) /\ ~UsedUp(f.active, ids)
  <2>1. g = [active |-> Counted(f.active, ids), queue |-> f.queue] /\ f.active # NoEntry
    BY <1>3 DEF Marked, IsActive
  <2>2. f.active.task = u /\ Counted(f.active, ids) \in Entry /\ Counted(f.active, ids).task = u
    <3>1. f.active \in Entry /\ f.active.task = u
      BY <1>3, <2>1 DEF FileOK, File, IsActive
    <3> QED BY <1>3, <3>1, CountedType
  <2>3. Counted(f.active, ids) # NoEntry
    BY <2>2, FileAssumption
  <2>4. Entries(g) = f.queue \cup {g.active} /\ Entries(f) = f.queue \cup {f.active}
    BY <2>1, <2>3 DEF Entries
  <2>5. Kept(t, f, g)
    BY <2>1, <2>2, <2>4 DEF Kept, InFile, IsActive
  <2> QED BY <2>5 DEF Moves
<1>4. CASE ~IsActive(f, u)
  <2> DEFINE left == {o \in f.queue : o.task # u \/ ~UsedUp(o, ids)}
             q == {IF e.task = u THEN Counted(e, ids) ELSE e : e \in left}
  <2>1. g.active = f.active /\ g.queue = q
    BY <1>4 DEF Marked
  <2>2. \A e \in left : e.task = u => Counted(e, ids).task = u
    BY <1>1, CountedType
  <2>3. \A e : e.task = t => (e \in q <=> e \in f.queue)
    BY <2>2
  <2>4. Kept(t, f, g)
    BY <2>1, <2>3, SameEntriesKept
  <2> QED BY <1>4, <2>4 DEF Moves
<1> QED BY <1>2, <1>3, <1>4

LEMMA DrainedMoves ==
  ASSUME NEW t \in Tasks, NEW c \in Command, NEW f, FileOK(f), f.active # NoEntry,
         f.active.task # t, NEW rs, RunsOK(t, c, f, rs), NEW g \in Drained(f, Seen(rs))
  PROVE  Moves(t, c, f, g, rs)
<1>1. PICK at \in LastPlaces(f.queue) :
        g \in Advances(f.queue \cup {Preempted(f.active, at)}, Seen(rs))
  BY DEF Drained
<1> DEFINE e == Preempted(f.active, at)
           q == f.queue \cup {e}
<1>2. f.active \in Entry /\ at \in 1..MaxRank
  BY DEF FileOK, File, LastPlaces
<1>3. e \in Entry /\ e.task = f.active.task
  BY <1>2, PreemptedType
<1>4. \A o \in f.queue : o.task # f.active.task
  BY DEF FileOK, IsActive
<1> HIDE DEF e
<1>5. q \in SUBSET Entry /\ OnePerTask(q)
  BY <1>3, <1>4 DEF FileOK, File, OnePerTask
<1>6. ~IsActive(f, t) /\ \A o : o.task = t => (o \in q <=> o \in f.queue)
  BY <1>3 DEF IsActive
<1>7. Kept(t, f, Waiting(q))
  BY <1>6, WaitingKept
<1> QED BY <1>1, <1>5, <1>7, AdvanceMoves DEF e

(* A command works on a task that keeps its place, and activates none.      *)
LEMMA MovesRuns ==
  ASSUME NEW t \in Tasks, NEW c \in Command, NEW f, FileOK(f), NEW g, NEW rs,
         RunsOK(t, c, f, rs), Moves(t, c, f, g, rs),
         Place(f, t) = Place(g, t) \/ c = Idle, ~(IsActive(g, t) /\ InQueue(f, t))
  PROVE  RunsOK(t, c, g, rs)
<1>1. CASE Kept(t, f, g)
  BY <1>1, RunsKept
<1>2. CASE ~InFile(g, t) /\ LiveIn(rs, t) = {} /\ InQueue(f, t)
  <2>1. Place(f, t) # Place(g, t)
    BY <1>2 DEF Place, InQueue, InFile, Entries, FileOK, IsActive
  <2>2. c = Idle
    BY <2>1
  <2> QED BY <1>2, <2>2, IdleViews, NothingLeft
<1> QED BY <1>1, <1>2 DEF Moves

LEMMA KeptPaused ==
  ASSUME NEW t \in Tasks, NEW c, NEW f, NEW g, NEW rs, NEW ps, NEW qs,
         PausedOK(t, c, f, rs, ps), Kept(t, f, g), t \in ps => t \in qs
  PROVE  PausedOK(t, c, g, rs, qs)
<1>1. InQueue(g, t) => InQueue(f, t)
  BY DEF Kept, InQueue
<1> QED BY <1>1 DEF PausedOK, Kept

LEMMA MovesPaused ==
  ASSUME NEW t \in Tasks, NEW c \in Command, NEW f, FileOK(f), NEW g, NEW rs, NEW ps, NEW qs,
         PausedOK(t, c, f, rs, ps), Moves(t, c, f, g, rs), t \in ps => t \in qs,
         Place(f, t) = Place(g, t) \/ c = Idle, ~(IsActive(g, t) /\ InQueue(f, t))
  PROVE  PausedOK(t, c, g, rs, qs)
<1>1. CASE Kept(t, f, g)
  BY <1>1, KeptPaused
<1>2. CASE ~InFile(g, t) /\ LiveIn(rs, t) = {} /\ InQueue(f, t)
  <2>1. Place(f, t) # Place(g, t)
    BY <1>2 DEF Place, InQueue, InFile, Entries, FileOK, IsActive
  <2>2. c = Idle
    BY <2>1
  <2>3. Idle.pc = "idle"
    BY DEF Idle
  <2>4. ~InQueue(g, t)
    BY <1>2 DEF InQueue, InFile, Entries
  <2> QED BY <1>2, <2>2, <2>3, <2>4 DEF PausedOK
<1> QED BY <1>1, <1>2 DEF Moves

LEMMA MovesActive ==
  ASSUME NEW t \in Tasks, NEW c \in Command, NEW f, FileOK(f), NEW g, FileOK(g), NEW rs,
         Moves(t, c, f, g, rs), ComingOf(c, t) = {}, StoppedOf(c, t) = {},
         IsActive(g, t), ~IsActive(f, t),
         NEW k, ComingOf(k, t) = g.active.pending, StoppedOf(k, t) = {}, FailsOK(t, k, rs)
  PROVE  RunsOK(t, k, g, rs)
<1>1. ~Kept(t, f, g) /\ InFile(g, t)
  BY ActiveAlone DEF Kept
<1>2. /\ SlotsOf(t, rs, g.active.pending)
      /\ Cardinality(DueOf(t, rs, {}, g.active.pending)) <= g.active.remaining
  BY <1>1 DEF Moves
<1> QED BY <1>2, ActivatedRuns

(* Who is active has its DAG unpaused, whatever the runs are.               *)
LEMMA ActivePaused ==
  ASSUME NEW t \in Tasks, NEW k, NEW g, FileOK(g), IsActive(g, t), NEW rs, NEW ps,
         k.pc # "register"
  PROVE  PausedOK(t, k, g, rs, ps)
BY ActiveAlone DEF PausedOK

(* A task that is gone.                                                     *)
LEMMA GonePaused ==
  ASSUME NEW t \in Tasks, NEW k, NEW g, ~InFile(g, t), NEW rs, LiveIn(rs, t) = {}, NEW ps,
         k.pc \notin {"register", "unpause"}, k.pc = "hand_over" => k.next # t
  PROVE  PausedOK(t, k, g, rs, ps)
BY DEF PausedOK, InFile, InQueue, Entries

(* A hand-over activates an entry of the queue, or none, afresh.            *)
LEMMA AdvancesEntries ==
  ASSUME NEW q \in SUBSET Entry, NEW s, NEW g \in Advances(q, s)
  PROVE  /\ g.queue \subseteq q
         /\ g.active # NoEntry => ~g.active.draining /\ \E e \in q : e.task = g.active.task
<1> DEFINE ok == {e \in q : Startable(e, s)}
<1>1. CASE ok = {}
  BY <1>1 DEF Advances, Empty
<1>2. CASE ok # {}
  <2>1. PICK n \in Heads(ok) :
          g = [active |-> Activate(n, s), queue |-> {e \in q \ {n} : Before(n, e)}]
    BY <1>2 DEF Advances
  <2>2. n \in q /\ Activate(n, s).draining = FALSE /\ Activate(n, s).task = n.task
    BY DEF Heads, Activate, Entry
  <2> QED BY <2>1, <2>2
<1> QED BY <1>1, <1>2

LEMMA AdvancesGone ==
  ASSUME NEW q \in SUBSET Entry, NEW t, \A e \in q : e.task # t, NEW s, NEW g \in Advances(q, s)
  PROVE  ~InFile(g, t)
<1>1. g.queue \subseteq q /\ (g.active # NoEntry => \E e \in q : e.task = g.active.task)
  BY AdvancesEntries
<1> QED BY <1>1 DEF InFile, Entries

LEMMA RemovedGone ==
  ASSUME NEW f, FileOK(f), NEW t, NEW s, NEW g \in Removed(f, t, s)
  PROVE  ~InFile(g, t)
<1> DEFINE q == Without(f.queue, t)
<1>1. q \in SUBSET Entry /\ \A e \in q : e.task # t
  BY DEF Without, FileOK, File
<1>2. CASE IsActive(f, t)
  <2>1. g \in Advances(q, s)
    BY <1>2 DEF Removed
  <2> QED BY <1>1, <2>1, AdvancesGone
<1>3. CASE ~IsActive(f, t)
  <2>1. g = [active |-> f.active, queue |-> q]
    BY <1>3 DEF Removed
  <2> QED BY <1>1, <1>3, <2>1 DEF InFile, Entries, IsActive
<1> QED BY <1>2, <1>3

(* The runs ids are counted; k sees the rest, as ss has them.               *)
Counting(t, c, k, f, rs, ss, ids) ==
    /\ RunsOK(t, c, f, rs) /\ SlotsOf(t, ss, ComingOf(k, t)) /\ FailsOK(t, k, ss)
    /\ \A e \in Entries(f) : e.task = t =>
         LET due == DueOf(t, rs, StoppedOf(c, t) \ e.completed, ComingOf(c, t))
             rest == DueOf(t, ss, StoppedOf(k, t) \ (e.completed \cup ids), ComingOf(k, t))
         IN  ids \ e.completed \subseteq due /\ rest \subseteq due \ (ids \ e.completed)
    /\ ~InFile(f, t) => LiveIn(ss, t) = {} /\ ComingOf(k, t) = {}

LEMMA MarkedOwn ==
  ASSUME NEW t \in Tasks, NEW c \in Command, NEW k \in Command, NEW f, FileOK(f), NEW rs, NEW ss,
         NEW ids \in SUBSET RunIds, NEW s, NEW g \in Marked(f, t, ids, s),
         Counting(t, c, k, f, rs, ss, ids)
  PROVE  /\ RunsOK(t, k, g, ss)
         /\ \/ InFile(g, t) /\ (IsActive(f, t) <=> IsActive(g, t)) /\ (InQueue(f, t) <=> InQueue(g, t))
            \/ ~InFile(g, t) /\ LiveIn(ss, t) = {}
         /\ IsActive(f, t) /\ UsedUp(f.active, ids) => ~InFile(g, t) /\ g \in Advances(f.queue, s)
<1>0. /\ RunsOK(t, c, f, rs) /\ SlotsOf(t, ss, ComingOf(k, t)) /\ FailsOK(t, k, ss)
      /\ \A e \in Entries(f) : e.task = t =>
           LET due == DueOf(t, rs, StoppedOf(c, t) \ e.completed, ComingOf(c, t))
               rest == DueOf(t, ss, StoppedOf(k, t) \ (e.completed \cup ids), ComingOf(k, t))
           IN  ids \ e.completed \subseteq due /\ rest \subseteq due \ (ids \ e.completed)
      /\ ~InFile(f, t) => LiveIn(ss, t) = {} /\ ComingOf(k, t) = {}
  BY DEF Counting
<1>1. f.queue \in SUBSET Entry /\ OnePerTask(f.queue)
  BY DEF FileOK, File
<1>2. ASSUME NEW e \in Entries(f), e.task = t
      PROVE  /\ ~UsedUp(e, ids) =>
                  LET o == Counted(e, ids)
                  IN  /\ o.task = t /\ o.pending = e.pending /\ o \in Entry
                      /\ Cardinality(DueOf(t, ss, StoppedOf(k, t) \ o.completed, ComingOf(k, t)))
                           <= o.remaining
             /\ UsedUp(e, ids) => LiveIn(ss, t) = {} /\ ComingOf(k, t) = {}
  <2> DEFINE due == DueOf(t, rs, StoppedOf(c, t) \ e.completed, ComingOf(c, t))
             rest == DueOf(t, ss, StoppedOf(k, t) \ (e.completed \cup ids), ComingOf(k, t))
             counted == ids \ e.completed
  <2>1. e \in Entry /\ e.remaining \in Nat /\ e.completed \in SUBSET RunIds
    BY EntriesType
  <2>2. StoppedOf(c, t) \ e.completed \in SUBSET RunIds /\ ComingOf(c, t) \in SUBSET Datasets
    BY CommandParts
  <2>3. IsFiniteSet(due)
    BY <2>2, DueFinite
  <2>4. Cardinality(due) <= e.remaining /\ counted \in SUBSET due /\ rest \subseteq due \ counted
    BY <1>0, <1>2 DEF RunsOK, CountsOK
  <2>5. LiveIn(ss, t) \subseteq rest /\ {<<t, d, 0>> : d \in ComingOf(k, t)} \subseteq rest
    BY DEF DueOf
  <2>6. Counts(e, ids) = Cardinality(counted)
    BY DEF Counts
  <2> HIDE DEF due, rest, counted
  <2>7. /\ Cardinality(rest) <= e.remaining - Cardinality(counted)
        /\ e.remaining <= Cardinality(counted) => rest = {}
    BY <2>1, <2>3, <2>4, CountsOff
  <2>8. UsedUp(e, ids) => LiveIn(ss, t) = {} /\ ComingOf(k, t) = {}
    BY <2>5, <2>6, <2>7 DEF UsedUp
  <2>9. ASSUME ~UsedUp(e, ids)
        PROVE  LET o == Counted(e, ids)
               IN  /\ o.task = t /\ o.pending = e.pending /\ o \in Entry
                   /\ o.remaining = e.remaining - Counts(e, ids) /\ o.completed = e.completed \cup ids
    <3>1. Counted(e, ids) \in Entry /\ Counted(e, ids).task = t
      BY <1>2, <2>1, <2>9, CountedType
    <3> QED BY <2>1, <3>1 DEF Counted, Entry
  <2> QED BY <2>6, <2>7, <2>8, <2>9 DEF rest
<1>3. ASSUME ~InFile(g, t), LiveIn(ss, t) = {}, ComingOf(k, t) = {}
      PROVE  RunsOK(t, k, g, ss)
  BY <1>3, NothingLeft
<1>4. CASE IsActive(f, t) /\ UsedUp(f.active, ids)
  <2>1. g \in Advances(f.queue, s)
    BY <1>4 DEF Marked
  <2>2. \A e \in f.queue : e.task # t
    BY <1>4, ActiveAlone DEF InQueue
  <2>3. ~InFile(g, t)
    BY <1>1, <2>1, <2>2, AdvancesGone
  <2>4. f.active \in Entries(f) /\ f.active.task = t
    BY <1>4 DEF IsActive, Entries
  <2> QED BY <1>2, <1>3, <1>4, <2>1, <2>3, <2>4
<1>5. CASE IsActive(f, t) /\ ~UsedUp(f.active, ids)
  <2> DEFINE o == Counted(f.active, ids)
  <2>1. g = [active |-> o, queue |-> f.queue]
    BY <1>5 DEF Marked
  <2>2. f.active \in Entries(f) /\ f.active.task = t /\ \A e \in f.queue : e.task # t
    BY <1>5, ActiveAlone DEF IsActive, Entries, InQueue
  <2>3. o.task = t /\ o \in Entry /\ o # NoEntry
        /\ Cardinality(DueOf(t, ss, StoppedOf(k, t) \ o.completed, ComingOf(k, t))) <= o.remaining
    BY <1>2, <1>5, <2>2, FileAssumption
  <2> HIDE DEF o
  <2>4. Entries(g) = f.queue \cup {o} /\ g.queue = f.queue
    BY <2>1, <2>3 DEF Entries
  <2>5. IsActive(g, t) /\ InFile(g, t)
    BY <2>1, <2>3, <2>4 DEF IsActive, InFile
  <2>6. CountsOK(t, k, g, ss)
    BY <1>0, <2>2, <2>3, <2>4, <2>5 DEF CountsOK
  <2> QED BY <1>0, <1>5, <2>4, <2>5, <2>6 DEF RunsOK, InQueue
<1>6. CASE ~IsActive(f, t)
  <2> DEFINE left == {o \in f.queue : o.task # t \/ ~UsedUp(o, ids)}
             q == {IF e.task = t THEN Counted(e, ids) ELSE e : e \in left}
  <2>1. g = [active |-> f.active, queue |-> q]
    BY <1>6 DEF Marked
  <2>2. f.queue \subseteq Entries(f)
    BY DEF Entries
  <2>3. ASSUME NEW e \in q, e.task = t
        PROVE  /\ Cardinality(DueOf(t, ss, StoppedOf(k, t) \ e.completed, ComingOf(k, t)))
                    <= e.remaining
               /\ e.pending \in {{}, DatasetsOf[t]}
               /\ InQueue(f, t)
    <3>1. PICK o \in left : e = IF o.task = t THEN Counted(o, ids) ELSE o
      OBVIOUS
    <3>2. o.task = t /\ ~UsedUp(o, ids) /\ e = Counted(o, ids) /\ o \in f.queue
      BY <2>3, <3>1
    <3>3. o.pending \in {{}, DatasetsOf[t]}
      BY <1>0, <3>2 DEF RunsOK, CountsOK
    <3> QED BY <1>2, <2>2, <3>2, <3>3 DEF InQueue
  <2> HIDE DEF q
  <2>4. \A e \in Entries(g) : e.task = t => e \in q
    BY <1>6, <2>1 DEF Entries, IsActive
  <2>5. ~IsActive(g, t) /\ g.queue = q /\ q \subseteq Entries(g)
    BY <1>6, <2>1 DEF IsActive, Entries
  <2>6. CASE InQueue(g, t)
    <3>1. InFile(g, t) /\ InQueue(f, t)
      BY <2>3, <2>5, <2>6 DEF InQueue, InFile
    <3>2. CountsOK(t, k, g, ss)
      BY <2>3, <2>4, <2>5, <3>1 DEF CountsOK
    <3> QED BY <1>0, <1>6, <2>5, <2>6, <3>1, <3>2 DEF RunsOK
  <2>7. CASE ~InQueue(g, t)
    <3>1. ~InFile(g, t)
      BY <2>4, <2>5, <2>7 DEF InFile, InQueue
    <3>2. CASE InQueue(f, t)
      <4>1. PICK e \in f.queue : e.task = t
        BY <3>2 DEF InQueue
      <4>2. UsedUp(e, ids)
        <5>1. ~UsedUp(e, ids) => Counted(e, ids) \in q /\ Counted(e, ids).task = t
          BY <1>2, <2>2, <4>1 DEF q
        <5> QED BY <2>5, <2>7, <5>1 DEF InQueue
      <4> QED BY <1>2, <1>3, <1>6, <2>2, <3>1, <4>1, <4>2
    <3>3. CASE ~InQueue(f, t)
      <4>1. ~InFile(f, t)
        BY <1>6, <3>3 DEF InFile, InQueue, Entries, IsActive
      <4> QED BY <1>0, <1>3, <1>6, <3>1, <4>1
    <3> QED BY <3>2, <3>3
  <2> QED BY <2>6, <2>7
<1> QED BY <1>4, <1>5, <1>6

(* A task that drained waits for all of its datasets again.                 *)
LEMMA DrainedOwn ==
  ASSUME NEW t \in Tasks, NEW f, FileOK(f), IsActive(f, t), NEW rs, RunsOK(t, Idle, f, rs),
         NEW g \in Drained(f, Seen(rs))
  PROVE  IF IsActive(g, t)
         THEN /\ SlotsOf(t, rs, g.active.pending)
              /\ Cardinality(DueOf(t, rs, {}, g.active.pending)) <= g.active.remaining
         ELSE RunsOK(t, Idle, g, rs)
<1>1. PICK at \in LastPlaces(f.queue) :
        g \in Advances(f.queue \cup {Preempted(f.active, at)}, Seen(rs))
  BY DEF Drained
<1> DEFINE e == Preempted(f.active, at)
           q == f.queue \cup {e}
<1>2. f.active \in Entry /\ at \in 1..MaxRank /\ f.active.task = t
  BY DEF FileOK, File, LastPlaces, IsActive
<1>3. e \in Entry /\ e.task = t /\ e.pending = DatasetsOf[t]
      /\ e.remaining = Cardinality(DatasetsOf[t])
  BY <1>2, PreemptedType DEF Preempted, Entry
<1>4. \A o \in f.queue : o.task # t
  BY <1>2 DEF FileOK, IsActive
<1> HIDE DEF e
<1>5. q \in SUBSET Entry /\ OnePerTask(q) /\ \A o \in q : o.task = t => o = e
  BY <1>3, <1>4 DEF FileOK, File, OnePerTask
<1>6. ComingOf(Idle, t) = {} /\ StoppedOf(Idle, t) = {} /\ FailsOK(t, Idle, rs) /\ Idle \in Command
  BY IdleViews
<1>7. Cardinality(DueOf(t, rs, {}, {})) <= Cardinality(DatasetsOf[t])
  <2>1. SlotsOf(t, rs, {}) /\ DatasetsOf[t] \in SUBSET Datasets /\ {} \in SUBSET Datasets
    BY <1>6, FileAssumption DEF RunsOK
  <2>2. \A r \in LiveIn(rs, t) : r[2] \in DatasetsOf[t]
    BY <2>1 DEF SlotsOf
  <2> QED BY <2>1, <2>2, DueDiffer
<1>8. Entries(Waiting(q)) = q /\ Waiting(q).queue = q
  BY WaitingEntries
<1>9. RunsOK(t, Idle, Waiting(q), rs)
  <2>1. InFile(Waiting(q), t)
    BY <1>3, <1>8 DEF InFile
  <2>2. {} \ e.completed = {}
    OBVIOUS
  <2>3. CountsOK(t, Idle, Waiting(q), rs)
    BY <1>3, <1>5, <1>6, <1>7, <1>8, <2>1, <2>2 DEF CountsOK
  <2> QED BY <1>6, <2>3 DEF RunsOK
<1>10. g \in Advances(q, Seen(rs))
  BY <1>1 DEF e
<1>11. FileOK(g)
  BY <1>5, <1>10, AdvancesOK
<1>12. CASE Kept(t, Waiting(q), g)
  <2>1. \A o \in Entries(Waiting(q)) : o.remaining \in Nat
    BY <1>5, <1>8 DEF Entry
  <2>2. RunsEnd(t, rs, rs)
    BY DEF RunsEnd
  <2>3. RunsOK(t, Idle, g, rs)
    BY <1>6, <1>9, <1>12, <2>1, <2>2, KeepRuns
  <2>4. ~IsActive(g, t)
    BY <1>12, WaitingEntries DEF Kept
  <2> QED BY <2>3, <2>4
<1>13. CASE /\ IsActive(g, t)
            /\ SlotsOf(t, rs, g.active.pending)
            /\ Cardinality(DueOf(t, rs, {}, g.active.pending)) <= g.active.remaining
  BY <1>13
<1>14. CASE ~InFile(g, t) /\ LiveIn(rs, t) = {}
  <2>1. ~IsActive(g, t)
    BY <1>14 DEF InFile, IsActive, Entries
  <2> QED BY <1>6, <1>14, <2>1, NothingLeft
<1>15. \/ Kept(t, Waiting(q), g)
       \/ /\ IsActive(g, t) /\ InQueue(Waiting(q), t)
          /\ ComingOf(Idle, t) = {} /\ StoppedOf(Idle, t) = {} =>
               /\ SlotsOf(t, rs, g.active.pending)
               /\ Cardinality(DueOf(t, rs, {}, g.active.pending)) <= g.active.remaining
       \/ ~InFile(g, t) /\ LiveIn(rs, t) = {} /\ InQueue(Waiting(q), t)
  BY <1>5, <1>9, <1>10, AdvanceRuns
<1> QED BY <1>6, <1>12, <1>13, <1>14, <1>15

-----------------------------------------------------------------------------
(* The steps.  Process p goes on from c = cmd[p] to k.  What a step has to  *)
(* show is that the tasks that c or k works on are as k expects them if     *)
(* they were as c expects them, and that another command finds its task as  *)
(* it was unless it is displaced.                                           *)

Carries(t, c, k) == Holds(t, c, file, runs, paused, faults)
                      => Holds(t, k, file', runs', paused', faults')

Stays(t, d) == d = Idle \/ (Place(file, t) = Place(file', t) /\ ~Restarted(t))

LEMMA ForeignHolds ==
  ASSUME NEW t \in Tasks, NEW c, Shape(c), t \notin Touches(c),
         NEW f, NEW rs, NEW ps, NEW fs
  PROVE  Holds(t, c, f, rs, ps, fs) <=> Holds(t, Idle, f, rs, ps, fs)
<1>1. /\ ComingOf(c, t) = {} /\ StoppedOf(c, t) = {} /\ c.task # t /\ c.next # t /\ c.pc # "clear"
  BY Foreign
<1>2. ComingOf(Idle, t) = {} /\ StoppedOf(Idle, t) = {} /\ FailsOK(t, Idle, rs)
      /\ Idle.task # t /\ Idle.next # t
  BY IdleViews
<1>3. FailsOK(t, c, rs)
  BY <1>1 DEF FailsOK
<1>4. RunsOK(t, c, f, rs) <=> RunsOK(t, Idle, f, rs)
  BY <1>1, <1>2, <1>3 DEF RunsOK, CountsOK
<1>5. PausedOK(t, c, f, rs, ps) <=> PausedOK(t, Idle, f, rs, ps)
  BY <1>1, <1>2 DEF PausedOK
<1> QED BY <1>4, <1>5 DEF Holds

LEMMA WatchParts ==
  ASSUME Watch, NEW t \in Tasks, Sound(t)', faults \subseteq faults'
  PROVE  /\ Sound(t) /\ t \notin Overlapping(cmd') /\ t \notin Displaced
         /\ t \notin RegisteredAgain
BY DEF Watch, Sound

LEMMA CarryStep ==
  ASSUME RInv, QInv', Watch, faults \subseteq faults', NEW p \in Procs, NEW k \in Command, Shape(k),
         cmd' = [cmd EXCEPT ![p] = k],
         \A t \in Tasks : Sound(t)' /\ t \in Touches(cmd[p]) \cup Touches(k)
                            => Carries(t, cmd[p], k),
         \A t \in Tasks, d \in Command :
            /\ Sound(t)' /\ t \notin Touches(cmd[p]) \cup Touches(k)
            /\ Shape(d) /\ Stays(t, d)
            => Carries(t, d, d)
  PROVE  RInv'
<1> DEFINE Was(t, d) == Holds(t, d, file, runs, paused, faults)
           Is(t, d) == Holds(t, d, file', runs', paused', faults')
<1>1. cmd \in [Procs -> Command] /\ cmd'[p] = k /\ \A q \in Procs \ {p} : cmd'[q] = cmd[q]
  BY DEF RInv, QInv, Core, CmdOK
<1>2. Shape(cmd[p]) /\ cmd[p] \in Command /\ \A q \in Procs : cmd[q] \in Command /\ Shape(cmd[q])
  BY <1>1 DEF RInv, Shapes
<1>3. Shapes'
  BY <1>1, <1>2 DEF Shapes
<1>4. Alone'
  BY DEF Watch, Alone
<1>5. Idle \in Command /\ Shape(Idle) /\ Touches(Idle) = {}
  BY IdleReady, ProcAssumption DEF Shape, Other, Touches, Idle
<1>6. ASSUME NEW t \in Tasks, Sound(t)', NEW d \in Command, Works(t, d)'
      PROVE  Is(t, d)
  <2>1. Sound(t) /\ t \notin Overlapping(cmd') /\ t \notin Displaced /\ t \notin Overlapping(cmd)
    BY <1>6, WatchParts DEF RInv, Alone, Sound
  <2>2. \A e \in Command : Works(t, e) => Was(t, e)
    BY <2>1 DEF RInv, TaskHolds
  <2>3. \/ \E q \in Procs : d = cmd'[q] /\ t \in Touches(d)
        \/ d = Idle /\ \A q \in Procs : t \notin Touches(cmd'[q])
    BY <1>6 DEF Works
  <2>4. CASE t \in Touches(cmd[p])
    <3>1. \A q \in Procs \ {p} : t \notin Touches(cmd[q])
      BY <2>1, <2>4 DEF Overlapping
    <3>2. Was(t, cmd[p])
      BY <1>2, <2>2, <2>4 DEF Works
    <3>3. Is(t, k)
      BY <1>6, <2>4, <3>2 DEF Carries
    <3>4. d = k \/ (d = Idle /\ t \notin Touches(k))
      BY <1>1, <2>3, <3>1
    <3> QED BY <3>3, <3>4, ForeignHolds
  <2>5. CASE t \notin Touches(cmd[p]) /\ t \in Touches(k)
    <3>1. \A q \in Procs \ {p} : t \notin Touches(cmd'[q])
      BY <1>1, <2>1, <2>5 DEF Overlapping
    <3>2. d = k
      BY <1>1, <2>3, <2>5, <3>1
    <3>3. Was(t, Idle)
      BY <1>1, <1>5, <2>2, <2>5, <3>1 DEF Works
    <3>4. Was(t, cmd[p])
      BY <1>2, <2>5, <3>3, ForeignHolds
    <3> QED BY <1>6, <2>5, <3>2, <3>4 DEF Carries
  <2>6. CASE t \notin Touches(cmd[p]) \cup Touches(k)
    <3>1. CASE \E q \in Procs : d = cmd'[q] /\ t \in Touches(d)
      <4>1. PICK q \in Procs : d = cmd'[q] /\ t \in Touches(d)
        BY <3>1
      <4>2. q # p /\ cmd'[q] = cmd[q] /\ d = cmd[q]
        BY <1>1, <2>6, <4>1
      <4>3. Was(t, d) /\ Shape(d)
        BY <1>2, <2>2, <4>1, <4>2 DEF Works
      <4>4. Stays(t, d)
        BY <2>1, <4>1, <4>2 DEF Stays, Displaced
      <4> QED BY <1>6, <2>6, <4>3, <4>4 DEF Carries
    <3>2. CASE d = Idle /\ \A q \in Procs : t \notin Touches(cmd'[q])
      <4>1. Works(t, d)
        BY <1>1, <2>6, <3>2 DEF Works
      <4>2. Was(t, d)
        BY <2>2, <4>1
      <4> QED BY <1>5, <1>6, <2>6, <3>2, <4>2 DEF Carries, Stays
    <3> QED BY <2>3, <3>1, <3>2
  <2> QED BY <2>4, <2>5, <2>6
<1>7. \A t \in Tasks : Sound(t)' => TaskHolds(t)'
  BY <1>6 DEF TaskHolds
<1> QED BY <1>3, <1>4, <1>7 DEF RInv

(* A step of Airflow leaves the commands where they are.                    *)
LEMMA CarryAirflow ==
  ASSUME RInv, QInv', Watch, faults \subseteq faults', UNCHANGED cmd,
         \A t \in Tasks, d \in Command :
            Sound(t)' /\ Shape(d) /\ Stays(t, d) => Carries(t, d, d)
  PROVE  RInv'
<1>1. cmd \in [Procs -> Command] /\ \A q \in Procs : cmd[q] \in Command /\ Shape(cmd[q])
  BY DEF RInv, QInv, Core, CmdOK, Shapes
<1>2. Shapes'
  BY DEF RInv, Shapes
<1>3. Alone'
  BY DEF Watch, Alone
<1>4. ASSUME NEW t \in Tasks, Sound(t)', NEW d \in Command, Works(t, d)'
      PROVE  Holds(t, d, file', runs', paused', faults')
  <2>1. Sound(t) /\ t \notin Displaced
    BY <1>4, WatchParts
  <2>2. Works(t, d)
    BY <1>4 DEF Works
  <2>3. Holds(t, d, file, runs, paused, faults)
    BY <2>1, <2>2 DEF RInv, TaskHolds
  <2>4. Shape(d)
    BY <1>1, <2>2 DEF Works, Shape, Other
  <2>5. Stays(t, d)
    BY <2>1, <2>2 DEF Works, Stays, Displaced
  <2> QED BY <1>4, <2>3, <2>4, <2>5 DEF Carries
<1>5. \A t \in Tasks : Sound(t)' => TaskHolds(t)'
  BY <1>4 DEF TaskHolds
<1> QED BY <1>2, <1>3, <1>5 DEF RInv

(* Runs of the task only end, and its entry is kept.                        *)
Settles(t) == /\ Kept(t, file, file') /\ RunsEnd(t, runs, runs')
              /\ \A r \in RunIds : r[1] = t /\ runs'[r] = "running" => runs[r] = "running"
              /\ faults \subseteq faults'

LEMMA CarriesKept ==
  ASSUME NEW t \in Tasks, NEW c \in Command, NEW k \in Command, FileOK(file), Settles(t),
         ComingOf(k, t) \subseteq ComingOf(c, t),
         StoppedOf(k, t) \subseteq StoppedOf(c, t) \cup LiveIn(runs, t),
         RunsOK(t, c, file, runs) => FailsOK(t, k, runs'),
         "pause" \notin faults' /\ PausedOK(t, c, file, runs, paused) =>
            /\ InQueue(file, t) => t \in paused'
            /\ k.pc = "register" /\ k.task = t => t \in paused'
            /\ k.pc = "unpause" /\ k.task = t => IsActive(file, t)
            /\ k.pc = "hand_over" /\ k.next = t => IsActive(file, t)
  PROVE  Carries(t, c, k)
<1>1. \A e \in Entries(file) : e.remaining \in Nat
  BY EntriesType
<1>2. RunsOK(t, c, file, runs) => RunsOK(t, k, file', runs')
  BY <1>1, KeepRuns DEF Settles
<1>3. "pause" \notin faults' /\ PausedOK(t, c, file, runs, paused)
        => PausedOK(t, k, file', runs', paused')
  BY KeepPaused DEF Settles
<1> QED BY <1>2, <1>3 DEF Carries, Holds, Settles

(* ... and the command that works on it does not change.                    *)
LEMMA CarriesSame ==
  ASSUME NEW t \in Tasks, NEW d \in Command, FileOK(file), Settles(t),
         t \in paused => t \in paused'
  PROVE  Carries(t, d, d)
<1>1. RunsOK(t, d, file, runs) => FailsOK(t, d, runs')
  <2>1. LiveIn(runs', t) \subseteq LiveIn(runs, t)
    BY DEF Settles, RunsEnd, LiveIn
  <2> QED BY <2>1, FailsKeep DEF RunsOK
<1>2. PausedOK(t, d, file, runs, paused) =>
        /\ InQueue(file, t) => t \in paused'
        /\ d.pc = "register" /\ d.task = t => t \in paused'
        /\ d.pc = "unpause" /\ d.task = t => IsActive(file, t)
        /\ d.pc = "hand_over" /\ d.next = t => IsActive(file, t)
  BY DEF PausedOK
<1> QED BY <1>1, <1>2, CarriesKept

(* ... or it goes on to nothing that concerns the runs.                     *)
Quiet(k) == /\ k.pc \in {"idle", "pause", "list", "refresh", "airflow", "erase_files", "erase_runs"}
            /\ k.ids = {}

LEMMA QuietParts ==
  ASSUME NEW t, NEW k, Quiet(k)
  PROVE  ComingOf(k, t) = {} /\ StoppedOf(k, t) = {} /\ \A rs : FailsOK(t, k, rs)
BY DEF Quiet, ComingOf, StoppedOf, FailsOK

LEMMA CarriesQuiet ==
  ASSUME NEW t \in Tasks, NEW c \in Command, NEW k \in Command, FileOK(file), Settles(t), Quiet(k),
         PausedOK(t, c, file, runs, paused) => (InQueue(file, t) => t \in paused')
  PROVE  Carries(t, c, k)
<1>1. ComingOf(k, t) = {} /\ StoppedOf(k, t) = {} /\ FailsOK(t, k, runs')
  BY QuietParts
<1>2. k.pc \notin {"register", "unpause", "hand_over"}
  BY DEF Quiet
<1> QED BY <1>1, <1>2, CarriesKept

LEMMA SettledFile ==
  ASSUME NEW t, Kept(t, file, file'), UNCHANGED runs, faults \subseteq faults'
  PROVE  Settles(t)
BY DEF Settles, RunsEnd

LEMMA SettledRuns ==
  ASSUME NEW t, UNCHANGED file, \A r \in RunIds : r[1] = t => runs'[r] = runs[r],
         faults \subseteq faults'
  PROVE  Settles(t)
BY SameKept DEF Settles, RunsEnd

LEMMA RInvParts ==
  ASSUME RInv
  PROVE  /\ FileOK(file) /\ cmd \in [Procs -> Command] /\ runs \in [RunIds -> RunStates]
         /\ \A p \in Procs : cmd[p] \in Command /\ Shape(cmd[p]) /\ Ready(cmd[p])
         /\ FileOK(Refresh(file, config))
BY RefreshOK DEF RInv, QInv, Core, CmdOK, DataOK, Shapes

(* The command that p goes on to is of the right type.                      *)
LEMMA NextCommand ==
  ASSUME RInv, QInv', NEW p \in Procs, NEW k, cmd' = [cmd EXCEPT ![p] = k]
  PROVE  k \in Command
<1>1. cmd'[p] = k
  BY RInvParts
<1>2. cmd'[p] \in Command
  BY DEF QInv, Core, CmdOK
<1> QED BY <1>1, <1>2

LEMMA TouchesOf ==
  ASSUME NEW c, c.op # "cleanup", NEW t \in Tasks
  PROVE  t \in Touches(c) <=> t = c.task \/ t = c.next
BY ProcAssumption DEF Touches

(* Nothing happens to the runs, and no task loses its entry: what k waits   *)
(* for is less than what c did.                                             *)
LEMMA CarryQuiet ==
  ASSUME RInv, QInv', Watch, faults \subseteq faults', NEW p \in Procs, NEW k, Shape(k), Quiet(k),
         cmd' = [cmd EXCEPT ![p] = k], UNCHANGED runs,
         \A t \in Tasks : Kept(t, file, file'),
         \A t \in Tasks : /\ t \in paused
                          /\ InQueue(file, t) \/ t \notin Touches(cmd[p]) \cup Touches(k)
                          /\ PausedOK(t, cmd[p], file, runs, paused) \/ t \notin Touches(cmd[p])
                          => t \in paused'
  PROVE  RInv'
<1>1. k \in Command /\ FileOK(file) /\ cmd[p] \in Command
  BY NextCommand, RInvParts
<1>2. \A t \in Tasks : Settles(t)
  BY SettledFile
<1>3. ASSUME NEW t \in Tasks, Sound(t)', t \in Touches(cmd[p]) \cup Touches(k)
      PROVE  Carries(t, cmd[p], k)
  <2>1. PausedOK(t, cmd[p], file, runs, paused) => (InQueue(file, t) => t \in paused')
    BY DEF PausedOK
  <2> QED BY <1>1, <1>2, <2>1, CarriesQuiet
<1>4. ASSUME NEW t \in Tasks, NEW d \in Command, Sound(t)', t \notin Touches(cmd[p]) \cup Touches(k)
      PROVE  Carries(t, d, d)
  <2>1. t \in paused => t \in paused'
    BY <1>4
  <2> QED BY <1>1, <1>2, <2>1, CarriesSame
<1> QED BY <1>1, <1>3, <1>4, CarryStep

LEMMA IdleQuiet == Quiet(Idle) /\ Shape(Idle)
BY DEF Quiet, Shape, Other, Idle

(* A command begins with nothing to wait for.                               *)
LEMMA StartQuiet ==
  ASSUME NEW p \in Procs, Start(p)
  PROVE  \E k : Begin(p, k) /\ Shape(k) /\ Quiet(k)
<1>0. \A t \in Tasks : DatasetsOf[t] \in SUBSET Datasets
  BY FileAssumption
<1>1. ASSUME NEW t \in Tasks, NEW n \in Prios, Submit(p, t, n) \/ SetTaskPriority(p, t, n)
      PROVE  \E k : Begin(p, k) /\ Shape(k) /\ Quiet(k)
  <2>1. CASE Submit(p, t, n)
    <3> DEFINE k == [Call("submit", "pause", t) EXCEPT !.ds = DatasetsOf[t], !.prio = n]
    <3>1. Begin(p, k)
      BY <2>1 DEF Submit
    <3>2. Shape(k) /\ Quiet(k)
      BY DEF Shape, Registering, Quiet, Call, Idle
    <3> QED BY <3>1, <3>2
  <2>2. CASE SetTaskPriority(p, t, n)
    <3> DEFINE k == Call("priority", "refresh", t)
    <3>1. Begin(p, k)
      BY <2>2 DEF SetTaskPriority
    <3>2. Shape(k) /\ Quiet(k)
      BY DEF Shape, Other, Quiet, Call, Idle
    <3> QED BY <3>1, <3>2
  <2> QED BY <1>1, <2>1, <2>2
<1>2. ASSUME NEW t \in Tasks, NEW ds \in SUBSET Datasets, Resume(p, t, ds) \/ StopDatasets(p, t, ds)
      PROVE  \E k : Begin(p, k) /\ Shape(k) /\ Quiet(k)
  <2>1. CASE Resume(p, t, ds)
    <3> DEFINE k == [Call("resume", "pause", t) EXCEPT !.ds = ds, !.prio = config[t]]
    <3>1. Begin(p, k) /\ ds \subseteq DatasetsOf[t]
      BY <2>1 DEF Resume
    <3>2. Shape(k) /\ Quiet(k)
      BY <3>1 DEF Shape, Registering, Quiet, Call, Idle
    <3> QED BY <3>1, <3>2
  <2>2. CASE StopDatasets(p, t, ds)
    <3> DEFINE k == [Call("stop_datasets", "list", t) EXCEPT !.ds = ds]
    <3>1. Begin(p, k)
      BY <2>2 DEF StopDatasets
    <3>2. Shape(k) /\ Quiet(k)
      BY DEF Shape, Stopping, Quiet, Call, Idle
    <3> QED BY <3>1, <3>2
  <2> QED BY <1>2, <2>1, <2>2
<1>3. ASSUME NEW t \in Tasks, Stop(p, t) \/ Delete(p, t)
      PROVE  \E k : Begin(p, k) /\ Shape(k) /\ Quiet(k)
  <2>1. PICK op \in {"stop", "delete"} :
          Begin(p, [Call(op, "pause", t) EXCEPT !.ds = DatasetsOf[t]])
    BY <1>3 DEF Stop, Delete
  <2> DEFINE k == [Call(op, "pause", t) EXCEPT !.ds = DatasetsOf[t]]
  <2>2. Shape(k) /\ Quiet(k)
    BY DEF Shape, Stopping, Quiet, Call, Idle
  <2> QED BY <2>1, <2>2
<1>4. ASSUME RestartCleanup(p)
      PROVE  \E k : Begin(p, k) /\ Shape(k) /\ Quiet(k)
  <2> DEFINE k == Call("cleanup", "airflow", NoTask)
  <2>1. Begin(p, k)
    BY <1>4 DEF RestartCleanup
  <2>2. Shape(k) /\ Quiet(k)
    BY DEF Shape, Other, Quiet, Call, Idle
  <2> QED BY <2>1, <2>2
<1> QED BY <1>1, <1>2, <1>3, <1>4 DEF Start

LEMMA RunsOfStart ==
  ASSUME RInv, QInv', Watch, NEW p \in Procs, Start(p)
  PROVE  RInv'
<1>1. PICK k : Begin(p, k) /\ Shape(k) /\ Quiet(k)
  BY StartQuiet
<1>2. cmd' = [cmd EXCEPT ![p] = k] /\ UNCHANGED <<file, paused, runs, faults>>
  BY <1>1 DEF Begin
<1>3. \A t \in Tasks : Kept(t, file, file')
  BY <1>2, SameKept
<1> QED BY <1>1, <1>2, <1>3, CarryQuiet

-----------------------------------------------------------------------------
(* Registering and triggering.                                              *)

LEMMA RunsOfPauseDag ==
  ASSUME RInv, QInv', Watch, NEW p \in Procs, PauseDag(p)
  PROVE  RInv'
<1> DEFINE c == cmd[p]
           pc == IF c.op \in {"submit", "resume"} THEN "register" ELSE "list"
           k == [c EXCEPT !.pc = pc]
<1>1. c.pc = "pause" /\ paused' = paused \cup {c.task} /\ cmd' = [cmd EXCEPT ![p] = k]
      /\ UNCHANGED <<file, runs, faults>>
  BY DEF PauseDag, At, Goto
<1>2. c \in Command /\ Shape(c) /\ FileOK(file) /\ k \in Command
  BY <1>1, NextCommand, RInvParts
<1>3. /\ c.task \in Tasks /\ c.op # "cleanup" /\ c.next = NoTask /\ c.ids = {}
      /\ c.op \in {"submit", "resume"} \/ c.op \in {"stop", "stop_datasets", "delete"}
  BY <1>1, <1>2 DEF Shape, Registering, Stopping, Other, Idle
<1>4. k.op = c.op /\ k.task = c.task /\ k.next = c.next /\ k.ids = {} /\ k.ds = c.ds /\ k.pc = pc
  BY <1>2, <1>3 DEF Command
<1> HIDE DEF k
<1>5. Shape(k)
  BY <1>1, <1>2, <1>3, <1>4 DEF Shape, Registering, Stopping, Other, Idle
<1>6. \A t \in Tasks : Settles(t)
  BY <1>1, SameKept, SettledFile
<1>7. ASSUME NEW t \in Tasks, Sound(t)', t \in Touches(c) \cup Touches(k)
      PROVE  Carries(t, c, k)
  <2>1. t = c.task
    BY <1>3, <1>4, <1>7, TouchesOf, ProcAssumption
  <2>2. t \in paused'
    BY <1>1, <2>1
  <2>3. ComingOf(k, t) = {} /\ StoppedOf(k, t) = {} /\ FailsOK(t, k, runs')
    BY <1>4 DEF ComingOf, StoppedOf, FailsOK
  <2> QED BY <1>2, <1>4, <1>6, <2>2, <2>3, CarriesKept
<1>8. ASSUME NEW t \in Tasks, NEW d \in Command
      PROVE  Carries(t, d, d)
  <2>1. t \in paused => t \in paused'
    BY <1>1
  <2> QED BY <1>2, <1>6, <2>1, CarriesSame
<1> QED BY <1>1, <1>2, <1>5, <1>7, <1>8, CarryStep

LEMMA RegisterParts ==
  ASSUME RInv, QInv', NEW p \in Procs, At(p, "register")
  PROVE  LET c == cmd[p]
         IN  /\ c \in Command /\ c.pc = "register" /\ c.op \in {"submit", "resume"}
             /\ c.task \in Tasks /\ c.next = NoTask /\ c.ids = {} /\ c.prio \in Prios
             /\ c.ds \in SUBSET Datasets /\ c.ds # {} /\ c.ds \subseteq DatasetsOf[c.task]
             /\ Cardinality(c.ds) \in Nat \ {0}
             /\ \A t : ComingOf(c, t) = {} /\ StoppedOf(c, t) = {}
<1> DEFINE c == cmd[p]
<1>1. c \in Command /\ Shape(c) /\ Ready(c) /\ c.pc = "register"
  BY RInvParts DEF At
<1>2. /\ c.op \in {"submit", "resume"} /\ c.task \in Tasks /\ c.next = NoTask /\ c.ids = {}
      /\ c.ds \subseteq DatasetsOf[c.task]
  BY <1>1 DEF Shape, Registering, Stopping, Other, Idle
<1>3. c.prio \in Prios /\ c.ds # {} /\ c.ds \in SUBSET Datasets
  BY <1>1 DEF Ready, Registers, Command
<1>4. \A t : ComingOf(c, t) = {} /\ StoppedOf(c, t) = {}
  BY <1>1, <1>2 DEF ComingOf, StoppedOf
<1>5. Cardinality(c.ds) \in Nat \ {0}
  BY <1>3, SomeRuns
<1> QED BY <1>1, <1>2, <1>3, <1>4, <1>5

(* What RegisteredAgain rules out.                                          *)
LEMMA RegisteredOnce ==
  ASSUME RInv, NEW p \in Procs, At(p, "register"), cmd'[p].pc # "register",
         NEW t \in Tasks, cmd[p].task = t, t \notin RegisteredAgain
  PROVE  /\ \A e \in Entries(Refresh(file, config)) : e.task = t => e.pending = {}
         /\ \A d \in cmd[p].ds : Free(runs, t, d)
<1>1. \A e \in Entries(file) : e.task = t => e.pending = {}
  BY DEF RegisteredAgain, At
<1>2. \A r \in RunIds : r[1] = t /\ r[2] \in cmd[p].ds => runs[r] \notin ActiveStates \cup {"success"}
  BY DEF RegisteredAgain, At
<1>3. ASSUME NEW e \in Entries(Refresh(file, config)), e.task = t
      PROVE  e.pending = {}
  <2>1. FileOK(file)
    BY RInvParts
  <2>2. PICK o \in Entries(file) : e = RefreshEntry(o, config) /\ o \in Entry
    <3>1. \A o \in Entries(file) : o \in Entry
      BY <2>1, EntriesType
    <3>2. CASE e \in Refresh(file, config).queue
      BY <3>1, <3>2 DEF Refresh, Entries
    <3>3. CASE e = Refresh(file, config).active /\ e # NoEntry
      BY <3>1, <3>3 DEF Refresh, Entries
    <3> QED BY <3>2, <3>3 DEF Entries
  <2>3. e.task = o.task /\ e.pending = o.pending
    BY <2>2 DEF RefreshEntry, Entry
  <2> QED BY <1>1, <1>3, <2>2, <2>3
<1> QED BY <1>2, <1>3 DEF Free

LEMMA RunsOfRegisterStarts ==
  ASSUME RInv, QInv', Watch, NEW p \in Procs, RegisterStarts(p)
  PROVE  RInv'
<1> DEFINE c == cmd[p]
           f == Refresh(file, config)
           k == [c EXCEPT !.pc = "unpause"]
<1>1. /\ At(p, "register") /\ Starts(f, c.task)
      /\ file' = Started(f, c.task, Cardinality(c.ds), c.prio)
      /\ cmd' = [cmd EXCEPT ![p] = k] /\ UNCHANGED <<paused, runs, faults>>
  BY DEF RegisterStarts, Goto
<1>2. /\ c \in Command /\ c.pc = "register" /\ c.op \in {"submit", "resume"}
      /\ c.task \in Tasks /\ c.next = NoTask /\ c.ids = {} /\ c.prio \in Prios
      /\ c.ds \in SUBSET Datasets /\ c.ds # {} /\ c.ds \subseteq DatasetsOf[c.task]
      /\ Cardinality(c.ds) \in Nat \ {0}
      /\ \A t : ComingOf(c, t) = {} /\ StoppedOf(c, t) = {}
  BY <1>1, RegisterParts
<1>3. /\ k.op = c.op /\ k.task = c.task /\ k.next = NoTask /\ k.ids = {} /\ k.ds = c.ds
      /\ k.pc = "unpause" /\ cmd'[p] = k
  BY <1>1, <1>2, RInvParts DEF Command
<1> HIDE DEF k
<1>4. Shape(k) /\ k \in Command
  BY <1>1, <1>2, <1>3, NextCommand DEF Shape, Registering
<1>5. FileOK(file) /\ FileOK(f) /\ FileOK(file')
  BY RInvParts DEF QInv, Core
<1> HIDE DEF f
<1>6. ASSUME NEW t \in Tasks, Sound(t)', t \in Touches(c) \cup Touches(k)
      PROVE  Carries(t, c, k)
  <2>1. t = c.task
    BY <1>2, <1>3, <1>6, TouchesOf, ProcAssumption
  <2>2. \A d \in c.ds : Free(runs, t, d)
    BY <1>1, <1>3, <1>6, <2>1, WatchParts, RegisteredOnce
  <2>3. ComingOf(k, t) = c.ds /\ StoppedOf(k, t) = {}
    BY <1>2, <1>3, <2>1 DEF ComingOf, StoppedOf
  <2>4. ASSUME RunsOK(t, c, file, runs) PROVE RunsOK(t, k, file', runs')
    <3>1. RunsOK(t, c, f, runs)
      BY <1>2, <1>5, <2>4, RefreshKept, RunsKept DEF f
    <3> QED BY <1>1, <1>2, <1>3, <1>5, <2>1, <2>2, <2>3, <3>1, StartedRuns
  <2>5. IsActive(file', t)
    <3>0. 0 \in 0..MaxRank
      BY FileAssumption
    <3>1. BuildEntry(t, Cardinality(c.ds), c.prio, 0) \in Entry
          /\ BuildEntry(t, Cardinality(c.ds), c.prio, 0).task = t
      BY <1>2, <3>0, BuildEntryType
    <3>2. f.active # NoEntry => /\ AddRuns(f.active, Cardinality(c.ds), c.prio) \in Entry
                                /\ AddRuns(f.active, Cardinality(c.ds), c.prio).task = t
      BY <1>1, <1>2, <1>5, <2>1, AddRunsType DEF FileOK, File, Starts
    <3> QED BY <1>1, <2>1, <3>1, <3>2, FileAssumption DEF Started, IsActive
  <2>6. PausedOK(t, k, file', runs', paused')
    BY <1>3, <1>5, <2>5, ActivePaused
  <2> QED BY <2>4, <2>6 DEF Carries, Holds
<1>7. ASSUME NEW t \in Tasks, NEW d \in Command, t \notin Touches(c) \cup Touches(k)
      PROVE  Carries(t, d, d)
  <2>1. t # c.task
    BY <1>2, <1>7, TouchesOf
  <2>2. Kept(t, f, file')
    BY <1>1, <1>2, <1>5, <2>1, StartedKept
  <2>3. Kept(t, file, file')
    BY <1>5, <2>2, RefreshKept, KeptTrans DEF f
  <2> QED BY <1>1, <1>5, <2>3, SettledFile, CarriesSame
<1> QED BY <1>1, <1>4, <1>6, <1>7, CarryStep

LEMMA RunsOfRegisterQueues ==
  ASSUME RInv, QInv', Watch, NEW p \in Procs, RegisterQueues(p)
  PROVE  RInv'
<1> DEFINE c == cmd[p]
           f == Refresh(file, config)
           k == [c EXCEPT !.pc = "trigger"]
<1>1. /\ At(p, "register") /\ ~Starts(f, c.task) /\ UNCHANGED <<paused, runs, faults>>
  BY DEF RegisterQueues
<1>2. PICK g \in Queued(f, c.task, Cardinality(c.ds), c.prio) :
        \/ file' = file /\ cmd' = [cmd EXCEPT ![p] = Idle]
        \/ file' = SoftPreempt(g) /\ cmd' = [cmd EXCEPT ![p] = k]
  BY DEF RegisterQueues, Goto, End
<1>3. /\ c \in Command /\ c.pc = "register" /\ c.op \in {"submit", "resume"}
      /\ c.task \in Tasks /\ c.next = NoTask /\ c.ids = {} /\ c.prio \in Prios
      /\ c.ds \in SUBSET Datasets /\ c.ds # {} /\ c.ds \subseteq DatasetsOf[c.task]
      /\ Cardinality(c.ds) \in Nat \ {0}
      /\ \A t : ComingOf(c, t) = {} /\ StoppedOf(c, t) = {}
  BY <1>1, RegisterParts
<1>4. FileOK(file) /\ FileOK(f)
  BY RInvParts
<1>5. CASE file' = file /\ cmd' = [cmd EXCEPT ![p] = Idle]
  <2>1. \A t \in Tasks : Kept(t, file, file')
    BY <1>5, SameKept
  <2>2. \A t \in Tasks : t \in paused => t \in paused'
    BY <1>1
  <2> QED BY <1>1, <1>5, <2>1, <2>2, IdleQuiet, CarryQuiet
<1>6. CASE file' = SoftPreempt(g) /\ cmd' = [cmd EXCEPT ![p] = k]
  <2>1. /\ k.op = c.op /\ k.task = c.task /\ k.next = NoTask /\ k.ids = {} /\ k.ds = c.ds
        /\ k.pc = "trigger" /\ cmd'[p] = k
    BY <1>3, <1>6, RInvParts DEF Command
  <2> HIDE DEF k
  <2>2. Shape(k) /\ k \in Command
    BY <1>3, <1>6, <2>1, NextCommand DEF Shape, Registering
  <2>3. FileOK(g)
    BY <1>1, <1>3, <1>4, QueuedOK
  <2> HIDE DEF f
  <2>4. ASSUME NEW t \in Tasks PROVE Kept(t, g, file')
    BY <1>6, <2>3, SoftPreemptKept
  <2>5. ASSUME NEW t \in Tasks, Sound(t)', t \in Touches(c) \cup Touches(k)
        PROVE  Carries(t, c, k)
    <3>1. t = c.task
      BY <1>3, <2>1, <2>5, TouchesOf, ProcAssumption
    <3>2. /\ \A e \in Entries(f) : e.task = t => e.pending = {}
          /\ \A d \in c.ds : Free(runs, t, d)
      BY <1>1, <2>1, <2>5, <3>1, WatchParts, RegisteredOnce DEF f
    <3>3. ComingOf(k, t) = c.ds /\ StoppedOf(k, t) = {}
      BY <1>3, <2>1, <3>1 DEF ComingOf, StoppedOf
    <3>4. ASSUME RunsOK(t, c, file, runs) PROVE RunsOK(t, k, file', runs')
      <4>1. RunsOK(t, c, f, runs)
        BY <1>3, <1>4, <3>4, RefreshKept, RunsKept DEF f
      <4>2. RunsOK(t, k, g, runs)
        BY <1>1, <1>2, <1>3, <1>4, <2>1, <3>1, <3>2, <3>3, <4>1, QueuedRuns
      <4>3. RunsOK(t, k, file', runs)
        BY <2>2, <2>3, <2>4, <4>2, RunsKept
      <4> QED BY <1>1, <4>3
    <3>5. ASSUME PausedOK(t, c, file, runs, paused)
          PROVE  PausedOK(t, k, file', runs', paused')
      <4>1. t \in paused
        BY <1>3, <3>1, <3>5 DEF PausedOK
      <4>2. ~IsActive(f, t)
        BY <1>1, <3>1 DEF Starts, IsActive
      <4>3. ~IsActive(file, t)
        BY <1>4, <4>2, RefreshOK DEF f
      <4>4. \A r \in LiveIn(runs, t) : runs[r] # "running"
        BY <3>5, <4>3 DEF PausedOK
      <4> QED BY <1>1, <2>1, <4>1, <4>4 DEF PausedOK
    <3> QED BY <1>1, <3>4, <3>5 DEF Carries, Holds
  <2>6. ASSUME NEW t \in Tasks, NEW d \in Command, t \notin Touches(c) \cup Touches(k)
        PROVE  Carries(t, d, d)
    <3>1. t # c.task
      BY <1>3, <2>6, TouchesOf
    <3>2. Kept(t, f, g)
      BY <1>1, <1>2, <1>3, <1>4, <3>1, QueuedKept
    <3>3. Kept(t, file, file')
      BY <1>4, <2>4, <3>2, RefreshKept, KeptTrans DEF f
    <3> QED BY <1>1, <1>4, <3>3, SettledFile, CarriesSame
  <2> QED BY <1>1, <1>6, <2>2, <2>5, <2>6, CarryStep
<1> QED BY <1>2, <1>5, <1>6

(* The task that started is unpaused, or the call fails and warns.          *)
LEMMA UnpauseLeaves ==
  ASSUME RInv, QInv', Watch, NEW p \in Procs, At(p, "unpause"), Goto(p, "trigger"),
         UNCHANGED <<file, runs>>, faults \subseteq faults',
         paused' \in {paused, paused \ {cmd[p].task}}
  PROVE  RInv'
<1> DEFINE c == cmd[p]
           k == [c EXCEPT !.pc = "trigger"]
<1>1. c.pc = "unpause" /\ cmd' = [cmd EXCEPT ![p] = k]
  BY DEF At, Goto
<1>2. c \in Command /\ Shape(c) /\ FileOK(file) /\ k \in Command
  BY <1>1, NextCommand, RInvParts
<1>3. /\ c.op \in {"submit", "resume"} /\ c.task \in Tasks /\ c.next = NoTask /\ c.ids = {}
      /\ c.ds \subseteq DatasetsOf[c.task]
  BY <1>1, <1>2 DEF Shape, Registering, Stopping, Other, Idle
<1>4. k.op = c.op /\ k.task = c.task /\ k.next = NoTask /\ k.ids = {} /\ k.ds = c.ds
      /\ k.pc = "trigger"
  BY <1>2, <1>3 DEF Command
<1> HIDE DEF k
<1>5. Shape(k)
  BY <1>3, <1>4 DEF Shape, Registering
<1>6. \A t \in Tasks : Settles(t)
  BY <1>1, SameKept, SettledFile
<1>7. ASSUME NEW t \in Tasks, Sound(t)', t \in Touches(c) \cup Touches(k)
      PROVE  Carries(t, c, k)
  <2>1. t = c.task
    BY <1>3, <1>4, <1>7, TouchesOf, ProcAssumption
  <2>2. ComingOf(k, t) = ComingOf(c, t) /\ StoppedOf(k, t) = StoppedOf(c, t)
        /\ FailsOK(t, k, runs')
    BY <1>1, <1>3, <1>4, <2>1 DEF ComingOf, StoppedOf, FailsOK
  <2>3. PausedOK(t, c, file, runs, paused) => ~InQueue(file, t)
    BY <1>1, <1>2, <2>1, ActiveAlone DEF PausedOK
  <2> QED BY <1>2, <1>4, <1>6, <2>2, <2>3, CarriesKept
<1>8. ASSUME NEW t \in Tasks, NEW d \in Command, t \notin Touches(c) \cup Touches(k)
      PROVE  Carries(t, d, d)
  <2>1. t # c.task
    BY <1>3, <1>8, TouchesOf
  <2>2. t \in paused => t \in paused'
    BY <2>1
  <2> QED BY <1>2, <1>6, <2>2, CarriesSame
<1> QED BY <1>1, <1>2, <1>5, <1>7, <1>8, CarryStep

(* A run of d is triggered for task u, which k no longer has to.            *)
LEMMA TriggerLeaves ==
  ASSUME RInv, QInv', Watch, UNCHANGED <<file, paused, faults>>, NEW p \in Procs,
         NEW k \in Command, Shape(k), cmd' = [cmd EXCEPT ![p] = k], NEW u \in Tasks, NEW ds,
         runs' = Triggered(runs, u, ds), k.pc \notin {"fail", "clear", "register"},
         \A t \in Tasks \ {u} : ComingOf(k, t) = {},
         ds \subseteq ComingOf(cmd[p], u), ComingOf(k, u) = ComingOf(cmd[p], u) \ ds,
         StoppedOf(cmd[p], u) = {}, \A t \in Tasks : StoppedOf(k, t) = {},
         u \in Touches(cmd[p]),
         k.pc \in {"unpause", "hand_over"} => k = [cmd[p] EXCEPT !.ds = k.ds]
  PROVE  RInv'
<1> DEFINE c == cmd[p]
<1>1. c \in Command /\ FileOK(file) /\ runs \in [RunIds -> RunStates]
  BY RInvParts
<1>2. \A r \in RunIds : runs'[r] = "running" => runs[r] = "running"
  BY <1>1 DEF Triggered
<1>3. \A e \in Entries(file) : e.remaining \in Nat
  BY <1>1, EntriesType
<1>4. ASSUME NEW t \in Tasks, PausedOK(t, c, file, runs, paused)
      PROVE  PausedOK(t, k, file', runs', paused')
  <2>1. k.pc \in {"unpause", "hand_over"} => k.pc = c.pc /\ k.task = c.task /\ k.next = c.next
    BY <1>1 DEF Command
  <2>2. InQueue(file, t) => t \in paused'
    BY <1>4 DEF PausedOK
  <2>3. k.pc = "unpause" /\ k.task = t => IsActive(file, t)
    BY <1>4, <2>1 DEF PausedOK
  <2>4. k.pc = "hand_over" /\ k.next = t => IsActive(file, t)
    BY <1>4, <2>1 DEF PausedOK
  <2>5. Kept(t, file, file')
    BY SameKept
  <2> QED BY <1>2, <1>4, <2>2, <2>3, <2>4, <2>5, KeepPaused
<1>5. ASSUME NEW t \in Tasks, t # u PROVE Settles(t)
  <2>1. \A r \in RunIds : r[1] = t => runs'[r] = runs[r]
    BY <1>5 DEF Triggered
  <2> QED BY <2>1, SettledRuns
<1>6. ASSUME NEW t \in Tasks, RunsOK(t, c, file, runs)
      PROVE  RunsOK(t, k, file', runs')
  <2>1. CASE t = u
    BY <1>1, <1>3, <1>6, <2>1, TriggerRuns
  <2>2. CASE t # u
    <3>1. FailsOK(t, k, runs')
      BY DEF FailsOK
    <3> QED BY <1>1, <1>3, <1>5, <1>6, <2>2, <3>1, KeepRuns DEF Settles
  <2> QED BY <2>1, <2>2
<1>7. \A t \in Tasks : Carries(t, c, k)
  BY <1>4, <1>6 DEF Carries, Holds
<1>8. ASSUME NEW t \in Tasks, NEW d \in Command, t \notin Touches(c) \cup Touches(k)
      PROVE  Carries(t, d, d)
  BY <1>1, <1>5, <1>8, CarriesSame
<1> QED BY <1>7, <1>8, CarryStep

LEMMA RunsOfTriggerRun ==
  ASSUME RInv, QInv', Watch, NEW p \in Procs, NEW d \in Datasets, TriggerRun(p, d)
  PROVE  RInv'
<1> DEFINE c == cmd[p]
           j == [c EXCEPT !.ds = @ \ {d}]
           k == IF c.ds = {d} THEN Idle ELSE j
<1>1. /\ c.pc = "trigger" /\ d \in c.ds /\ runs' = Triggered(runs, c.task, {d})
      /\ cmd' = [cmd EXCEPT ![p] = k] /\ UNCHANGED <<file, paused, faults>>
  BY DEF TriggerRun, At
<1>2. c \in Command /\ Shape(c) /\ k \in Command
  BY <1>1, NextCommand, RInvParts
<1>3. /\ c.op \in {"submit", "resume"} /\ c.task \in Tasks /\ c.next = NoTask /\ c.ids = {}
      /\ c.ds \subseteq DatasetsOf[c.task]
  BY <1>1, <1>2 DEF Shape, Registering, Stopping, Other, Idle
<1>4. j.op = c.op /\ j.task = c.task /\ j.next = NoTask /\ j.ids = {} /\ j.pc = "trigger"
      /\ j.ds = c.ds \ {d}
  BY <1>1, <1>2, <1>3 DEF Command
<1> HIDE DEF j
<1>5. Shape(j)
  BY <1>3, <1>4 DEF Shape, Registering
<1>6. Idle.pc = "idle" /\ Idle.ids = {} /\ Idle.task = NoTask
  BY DEF Idle
<1>7. Shape(k) /\ k.pc \in {"idle", "trigger"} /\ (\A t : StoppedOf(k, t) = {})
      /\ StoppedOf(c, c.task) = {}
  BY <1>3, <1>4, <1>5, <1>6, IdleQuiet DEF StoppedOf
<1>8. ComingOf(c, c.task) = c.ds
  BY <1>1 DEF ComingOf
<1>9. ComingOf(k, c.task) = c.ds \ {d} /\ \A t \in Tasks \ {c.task} : ComingOf(k, t) = {}
  BY <1>1, <1>4, <1>6 DEF ComingOf
<1>10. c.task \in Touches(c)
  BY <1>3, TouchesOf
<1> HIDE DEF k
<1>11. {d} \subseteq ComingOf(c, c.task) /\ ComingOf(k, c.task) = ComingOf(c, c.task) \ {d}
  BY <1>1, <1>8, <1>9
<1>12. k.pc \notin {"fail", "clear", "register", "unpause", "hand_over"}
  BY <1>7
<1> QED BY <1>1, <1>2, <1>3, <1>7, <1>9, <1>10, <1>11, <1>12, TriggerLeaves

LEMMA RunsOfTriggerNext ==
  ASSUME RInv, QInv', Watch, NEW p \in Procs, NEW d \in Datasets, TriggerNext(p, d)
  PROVE  RInv'
<1> DEFINE c == cmd[p]
           k == [c EXCEPT !.ds = @ \ {d}]
<1>1. /\ c.pc = "hand_over" /\ d \in c.ds /\ runs' = Triggered(runs, c.next, {d})
      /\ cmd' = [cmd EXCEPT ![p] = k] /\ UNCHANGED <<file, paused, faults>>
  BY DEF TriggerNext, At
<1>2. c \in Command /\ Shape(c) /\ k \in Command
  BY <1>1, NextCommand, RInvParts
<1>3. /\ c.op \in {"stop", "stop_datasets", "delete"} /\ c.task \in Tasks
      /\ c.next \in Tasks \ {c.task} /\ c.ids = {}
  BY <1>1, <1>2 DEF Shape, Registering, Stopping, Other, Idle
<1>4. k.op = c.op /\ k.task = c.task /\ k.next = c.next /\ k.ids = {} /\ k.pc = "hand_over"
      /\ k.ds = c.ds \ {d} /\ k = [c EXCEPT !.ds = k.ds]
  BY <1>1, <1>2, <1>3 DEF Command
<1> HIDE DEF k
<1>5. Shape(k)
  BY <1>3, <1>4 DEF Shape, Stopping
<1>6. (\A t : StoppedOf(k, t) = {}) /\ StoppedOf(c, c.next) = {}
  BY <1>3, <1>4 DEF StoppedOf
<1>7. ComingOf(c, c.next) = c.ds
  BY <1>1 DEF ComingOf
<1>8. ComingOf(k, c.next) = c.ds \ {d} /\ \A t \in Tasks \ {c.next} : ComingOf(k, t) = {}
  BY <1>4 DEF ComingOf
<1>9. c.next \in Touches(c)
  BY <1>3, TouchesOf
<1> QED BY <1>1, <1>2, <1>3, <1>4, <1>5, <1>6, <1>7, <1>8, <1>9, TriggerLeaves

-----------------------------------------------------------------------------
(* Stopping runs.                                                           *)

LEMMA RunsOfListRuns ==
  ASSUME RInv, QInv', Watch, NEW p \in Procs, ListRuns(p)
  PROVE  RInv'
<1> DEFINE c == cmd[p]
           ids == {r \in Live(c.task) : r[2] \in c.ds}
           k == [c EXCEPT !.pc = "fail", !.ids = ids, !.left = ids, !.ds = {}]
<1>1. c.pc = "list" /\ cmd' = [cmd EXCEPT ![p] = k] /\ UNCHANGED <<file, paused, runs, faults>>
  BY DEF ListRuns, At
<1>2. c \in Command /\ Shape(c) /\ FileOK(file) /\ k \in Command
  BY <1>1, NextCommand, RInvParts
<1>3. /\ c.op \in {"stop", "stop_datasets", "delete"} /\ c.task \in Tasks /\ c.next = NoTask
      /\ c.op # "stop_datasets" => c.ds = DatasetsOf[c.task]
  BY <1>1, <1>2 DEF Shape, Registering, Stopping, Other, Idle
<1>4. k.op = c.op /\ k.task = c.task /\ k.next = NoTask /\ k.pc = "fail" /\ k.ids = ids
      /\ k.left = ids
  BY <1>2, <1>3 DEF Command
<1> HIDE DEF k
<1>5. ids \subseteq LiveIn(runs, c.task)
  BY DEF Live, LiveIn
<1>6. Shape(k)
  BY <1>3, <1>4, <1>5 DEF Shape, Stopping, LiveIn
<1>7. \A t \in Tasks : Settles(t)
  BY <1>1, SameKept, SettledFile
<1>8. ASSUME NEW t \in Tasks, t \in Touches(c) \cup Touches(k)
      PROVE  Carries(t, c, k)
  <2>1. t = c.task
    BY <1>3, <1>4, <1>8, TouchesOf, ProcAssumption
  <2>2. ComingOf(k, t) = {} /\ StoppedOf(k, t) \subseteq LiveIn(runs, t)
    BY <1>4, <1>5, <2>1 DEF ComingOf, StoppedOf
  <2>3. RunsOK(t, c, file, runs) => FailsOK(t, k, runs')
    <3> SUFFICES ASSUME RunsOK(t, c, file, runs) PROVE FailsOK(t, k, runs')
      OBVIOUS
    <3>1. \A r \in LiveIn(runs, t) : r[2] \in DatasetsOf[t]
      BY DEF RunsOK, SlotsOf
    <3>2. k.op # "stop_datasets" => LiveIn(runs, t) \subseteq ids
      BY <1>3, <1>4, <2>1, <3>1 DEF Live, LiveIn
    <3> QED BY <1>1, <1>4, <3>2 DEF FailsOK
  <2>4. PausedOK(t, c, file, runs, paused) => (InQueue(file, t) => t \in paused')
    BY <1>1 DEF PausedOK
  <2> QED BY <1>2, <1>4, <1>7, <2>2, <2>3, <2>4, CarriesKept
<1>9. \A t \in Tasks, d \in Command : Carries(t, d, d)
  BY <1>1, <1>2, <1>7, CarriesSame
<1> QED BY <1>1, <1>2, <1>6, <1>8, <1>9, CarryStep

LEMMA RunsOfFailRun ==
  ASSUME RInv, QInv', Watch, NEW p \in Procs, NEW x \in RunIds, FailRun(p, x)
  PROVE  RInv'
<1> DEFINE c == cmd[p]
           k == [c EXCEPT !.left = @ \ {x}]
<1>1. /\ c.pc = "fail" /\ x \in c.left /\ runs' = [runs EXCEPT ![x] = "failed"]
      /\ cmd' = [cmd EXCEPT ![p] = k] /\ UNCHANGED <<file, paused, faults>>
  BY DEF FailRun, At
<1>2. c \in Command /\ Shape(c) /\ FileOK(file) /\ k \in Command /\ runs \in [RunIds -> RunStates]
  BY <1>1, NextCommand, RInvParts
<1>3. /\ c.op \in {"stop", "stop_datasets", "delete"} /\ c.task \in Tasks /\ c.next = NoTask
      /\ c.left \subseteq c.ids /\ \A r \in c.ids : r[1] = c.task
  BY <1>1, <1>2 DEF Shape, Registering, Stopping, Other, Idle
<1>4. k.op = c.op /\ k.task = c.task /\ k.next = NoTask /\ k.pc = "fail" /\ k.ids = c.ids
      /\ k.left = c.left \ {x}
  BY <1>1, <1>2, <1>3 DEF Command
<1> HIDE DEF k
<1>5. Shape(k)
  BY <1>3, <1>4 DEF Shape, Stopping
<1>6. x[1] = c.task /\ runs'[x] = "failed" /\ \A r \in RunIds : r # x => runs'[r] = runs[r]
  BY <1>1, <1>2, <1>3
<1>7. ASSUME NEW t \in Tasks PROVE Settles(t)
  <2>1. RunsEnd(t, runs, runs')
    BY <1>6 DEF RunsEnd, ActiveStates
  <2>2. \A r \in RunIds : runs'[r] = "running" => runs[r] = "running"
    BY <1>6
  <2> QED BY <1>1, <2>1, <2>2, SameKept DEF Settles
<1>8. ASSUME NEW t \in Tasks, t \in Touches(c) \cup Touches(k)
      PROVE  Carries(t, c, k)
  <2>1. t = c.task
    BY <1>3, <1>4, <1>8, TouchesOf, ProcAssumption
  <2>2. ComingOf(k, t) = {} /\ StoppedOf(k, t) = StoppedOf(c, t)
    BY <1>4 DEF ComingOf, StoppedOf
  <2>3. LiveIn(runs', t) \subseteq LiveIn(runs, t) \ {x}
    BY <1>6 DEF LiveIn, ActiveStates
  <2>4. RunsOK(t, c, file, runs) => FailsOK(t, k, runs')
    BY <1>1, <1>4, <2>1, <2>3 DEF RunsOK, FailsOK
  <2>5. PausedOK(t, c, file, runs, paused) => (InQueue(file, t) => t \in paused')
    BY <1>1 DEF PausedOK
  <2> QED BY <1>2, <1>4, <1>7, <2>2, <2>4, <2>5, CarriesKept
<1>9. \A t \in Tasks, d \in Command : Carries(t, d, d)
  BY <1>1, <1>2, <1>7, CarriesSame
<1> QED BY <1>1, <1>2, <1>5, <1>8, <1>9, CarryStep

(* The end of a lock section that may have handed over from c.task.         *)
Over(c, f, g) == IsActive(f, c.task) /\ g.active # NoEntry /\ ~IsActive(g, c.task)

LEMMA AfterSection ==
  ASSUME NEW c \in Command, c.op \in {"stop", "stop_datasets", "delete"}, c.task \in Tasks,
         c.next = NoTask, NEW f, NEW g, FileOK(g), NEW k, k = HandedOver(c, f, g)
  PROVE  /\ Shape(k) /\ ComingOf(k, c.task) = {} /\ \A t : StoppedOf(k, t) = {}
         /\ k.pc \notin {"register", "unpause", "fail", "clear"}
         /\ k.next # c.task /\ k.op # "cleanup"
         /\ Over(c, f, g) =>
              /\ k.pc = "hand_over" /\ k.next = g.active.task /\ k.ds = g.active.pending
              /\ k.next \in Touches(k) /\ k.task = c.task
         /\ ~Over(c, f, g) =>
              /\ Quiet(k)
              /\ \A t \in Tasks : t \in Touches(k) => t = c.task
<1>1. CASE Over(c, f, g)
  <2>1. k = [c EXCEPT !.pc = "hand_over", !.next = g.active.task, !.ds = g.active.pending,
                      !.ids = {}]
    BY <1>1 DEF HandedOver, Over
  <2>2. /\ k.op = c.op /\ k.task = c.task /\ k.next = g.active.task /\ k.ids = {}
        /\ k.pc = "hand_over" /\ k.ds = g.active.pending
    BY <2>1 DEF Command
  <2>3. g.active.task \in Tasks /\ g.active.task # c.task
    BY <1>1 DEF FileOK, File, IsActive, Entry, Over
  <2>4. Shape(k)
    BY <2>2, <2>3 DEF Shape, Stopping
  <2>5. k.next \in Touches(k)
    BY <2>2, <2>3, TouchesOf
  <2>6. ComingOf(k, c.task) = {} /\ \A t : StoppedOf(k, t) = {}
    BY <2>2, <2>3 DEF ComingOf, StoppedOf
  <2> QED BY <1>1, <2>2, <2>3, <2>4, <2>5, <2>6
<1>2. CASE ~Over(c, f, g)
  <2> DEFINE b == [c EXCEPT !.ids = {}]
             e == [b EXCEPT !.pc = "erase_files"]
  <2>1. k = AfterQueue(b)
    BY <1>2 DEF HandedOver, Over
  <2>2. b.op = c.op /\ b.task = c.task /\ b.next = NoTask /\ b.ids = {} /\ b \in Command
    BY DEF Command
  <2> HIDE DEF b
  <2>3. e.op = c.op /\ e.task = c.task /\ e.next = NoTask /\ e.ids = {} /\ e.pc = "erase_files"
    BY <2>2 DEF Command
  <2> HIDE DEF e
  <2>4. k = e \/ k = Idle
    BY <2>1 DEF AfterQueue, e
  <2>5. CASE k = Idle
    <3>1. /\ Shape(k) /\ Quiet(k) /\ (\A t : StoppedOf(k, t) = {}) /\ ComingOf(k, c.task) = {}
          /\ Touches(k) = {} /\ k.next # c.task /\ k.pc = "idle" /\ k.op # "cleanup"
      BY <2>5, IdleQuiet, IdleViews DEF Idle, StoppedOf
    <3> QED BY <1>2, <3>1
  <2>6. CASE k = e
    <3>1. Shape(k) /\ Quiet(k)
      BY <2>3, <2>6 DEF Shape, Stopping, Quiet
    <3>2. (\A t : StoppedOf(k, t) = {}) /\ ComingOf(k, c.task) = {} /\ k.next # c.task
          /\ k.pc = "erase_files" /\ k.op # "cleanup"
      BY <2>3, <2>6, ProcAssumption DEF ComingOf, StoppedOf
    <3>3. \A t \in Tasks : t \in Touches(k) => t = c.task
      BY <2>3, <2>6, TouchesOf, ProcAssumption
    <3> QED BY <1>2, <3>1, <3>2, <3>3
  <2> QED BY <2>4, <2>5, <2>6
<1> QED BY <1>1, <1>2

(* A lock section of a stopping command: what it does to its own task is    *)
(* shown where it is used; the task it hands over to starts, and the others *)
(* stay or lose an entry with nothing left to run.                          *)
LEMMA SectionLeaves ==
  ASSUME RInv, QInv', Watch, UNCHANGED <<paused, runs, faults>>, NEW p \in Procs, NEW f, FileOK(f),
         f = Refresh(file, config), NEW c, c = cmd[p],
         c.op \in {"stop", "stop_datasets", "delete"}, c.task \in Tasks, c.pc = "fail",
         NEW g, file' = g, cmd' = [cmd EXCEPT ![p] = HandedOver(c, f, g)],
         \A t \in Tasks \ {c.task}, d \in Command :
            RunsOK(t, d, f, runs) => Moves(t, d, f, g, runs),
         \A t \in Tasks \ {c.task} : IsActive(g, t) /\ ~IsActive(f, t) => IsActive(f, c.task),
         RunsOK(c.task, c, f, runs) => RunsOK(c.task, HandedOver(c, f, g), g, runs),
         InQueue(g, c.task) => InQueue(f, c.task),
         RunsOK(c.task, c, f, runs) /\ IsActive(f, c.task)
            => IsActive(g, c.task) \/ LiveIn(runs, c.task) = {}
  PROVE  RInv'
<1> DEFINE k == HandedOver(c, f, g)
<1>1. c \in Command /\ Shape(c) /\ FileOK(file) /\ k \in Command /\ FileOK(g)
  BY NextCommand, RInvParts DEF QInv, Core
<1>2. c.next = NoTask
  BY <1>1, ProcAssumption DEF Shape, Registering, Stopping, Other, Idle
<1>3. k = HandedOver(c, f, g)
  OBVIOUS
<1> HIDE DEF k
<1>4. /\ Shape(k) /\ ComingOf(k, c.task) = {} /\ \A t : StoppedOf(k, t) = {}
      /\ k.pc \notin {"register", "unpause", "fail", "clear"}
      /\ k.next # c.task /\ k.op # "cleanup"
      /\ Over(c, f, g) =>
           /\ k.pc = "hand_over" /\ k.next = g.active.task /\ k.ds = g.active.pending
           /\ k.next \in Touches(k) /\ k.task = c.task
      /\ ~Over(c, f, g) =>
           /\ Quiet(k)
           /\ \A t \in Tasks : t \in Touches(k) => t = c.task
  <2>1. c.op \in {"stop", "stop_datasets", "delete"} /\ c.task \in Tasks /\ c \in Command /\ FileOK(g)
    BY <1>1
  <2> QED BY ONLY <1>3, <1>2, <2>1, AfterSection
<1>5. ASSUME NEW t \in Tasks
      PROVE  /\ Kept(t, file, f) /\ (IsActive(f, t) <=> IsActive(file, t))
             /\ InQueue(f, t) <=> InQueue(file, t)
             /\ \A d \in Command : RunsOK(t, d, file, runs) => RunsOK(t, d, f, runs)
             /\ \A d : PausedOK(t, d, file, runs, paused) => PausedOK(t, d, f, runs, paused)
  <2>1. Kept(t, file, f) /\ (InQueue(f, t) <=> InQueue(file, t)) /\ (IsActive(f, t) <=> IsActive(file, t))
    BY <1>1, RefreshKept, RefreshOK
  <2> QED BY <1>1, <2>1, RunsKept, KeptPaused
<1>6. ASSUME NEW t \in Tasks, t \in Touches(c) \cup Touches(k)
      PROVE  Carries(t, c, k)
  <2>1. CASE t = c.task
    <3>1. RunsOK(t, c, file, runs) => RunsOK(t, k, file', runs')
      BY <1>1, <1>5, <2>1 DEF k
    <3>2. ASSUME RunsOK(t, c, file, runs), PausedOK(t, c, file, runs, paused)
          PROVE  PausedOK(t, k, file', runs', paused')
      <4>1. PausedOK(t, c, f, runs, paused) /\ RunsOK(t, c, f, runs)
        BY <1>1, <1>5, <3>2
      <4>2. InQueue(g, t) => t \in paused
        BY <2>1, <4>1 DEF PausedOK
      <4>3. \A r \in LiveIn(runs, t) : runs[r] = "running" => IsActive(g, t)
        BY <2>1, <4>1 DEF PausedOK
      <4> QED BY <1>4, <2>1, <4>2, <4>3 DEF PausedOK
    <3> QED BY <3>1, <3>2 DEF Carries, Holds
  <2>2. CASE t # c.task
    <3>1. t \notin Touches(c)
      BY <1>2, <2>2, TouchesOf, ProcAssumption
    <3>2. /\ Over(c, f, g)
          /\ k.pc = "hand_over" /\ k.next = g.active.task /\ k.ds = g.active.pending
          /\ t = k.next
      <4>1. t \in Touches(k)
        BY <1>6, <3>1
      <4>2. Over(c, f, g)
        BY <1>4, <2>2, <4>1
      <4>3. t = k.task \/ t = k.next
        BY <1>4, <4>1, TouchesOf
      <4> QED BY <1>4, <2>2, <4>2, <4>3
    <3>3. IsActive(g, t) /\ ~IsActive(f, t)
      BY <2>2, <3>2 DEF IsActive, Over
    <3>4. ComingOf(k, t) = g.active.pending /\ StoppedOf(k, t) = {}
      BY <1>4, <3>2 DEF ComingOf
    <3>5. ComingOf(c, t) = {} /\ StoppedOf(c, t) = {}
      BY <1>1, <3>1, Foreign
    <3>6. FailsOK(t, k, runs)
      BY <1>4 DEF FailsOK
    <3>7. ASSUME RunsOK(t, c, file, runs) PROVE RunsOK(t, k, file', runs')
      <4>1. Moves(t, c, f, g, runs)
        BY <1>1, <1>5, <2>2, <3>7
      <4> QED BY <1>1, <3>3, <3>4, <3>5, <3>6, <4>1, MovesActive
    <3>8. PausedOK(t, k, file', runs', paused')
      BY <1>1, <1>4, <3>3, ActivePaused
    <3> QED BY <3>7, <3>8 DEF Carries, Holds
  <2> QED BY <2>1, <2>2
<1>7. ASSUME NEW t \in Tasks, NEW d \in Command, t \notin Touches(c) \cup Touches(k), Stays(t, d)
      PROVE  Carries(t, d, d)
  <2>1. t # c.task
    BY <1>2, <1>7, TouchesOf
  <2>2. ~(IsActive(g, t) /\ InQueue(f, t))
    <3> SUFFICES ASSUME IsActive(g, t), InQueue(f, t) PROVE FALSE
      OBVIOUS
    <3>1. ~IsActive(f, t)
      BY ActiveAlone
    <3>2. Over(c, f, g)
      BY <2>1, <3>1 DEF IsActive, Over
    <3>3. t = k.next
      BY <1>4, <3>2 DEF IsActive
    <3> QED BY <1>4, <1>7, <3>2, <3>3
  <2>3. Place(f, t) = Place(g, t) \/ d = Idle
    <3>1. Place(f, t) = Place(file, t)
      BY <1>5 DEF Place, InQueue
    <3> QED BY <1>7, <3>1 DEF Stays
  <2>4. RunsOK(t, d, file, runs) => RunsOK(t, d, f, runs) /\ Moves(t, d, f, g, runs)
    BY <1>5, <2>1
  <2>5. RunsOK(t, d, file, runs) => RunsOK(t, d, file', runs')
    BY <1>1, <2>2, <2>3, <2>4, MovesRuns
  <2>6. RunsOK(t, d, file, runs) /\ PausedOK(t, d, file, runs, paused)
          => PausedOK(t, d, file', runs', paused')
    BY <1>1, <1>5, <2>2, <2>3, <2>4, MovesPaused
  <2> QED BY <2>5, <2>6 DEF Carries, Holds
<1>8. cmd' = [cmd EXCEPT ![p] = k] /\ faults \subseteq faults' /\ k \in Command /\ Shape(k)
  BY <1>3, <1>1, <1>4
<1>9. \A t \in Tasks : Sound(t)' /\ t \in Touches(cmd[p]) \cup Touches(k) => Carries(t, cmd[p], k)
  BY <1>6
<1>10. \A t \in Tasks, d \in Command :
         /\ Sound(t)' /\ t \notin Touches(cmd[p]) \cup Touches(k)
         /\ Shape(d) /\ Stays(t, d)
         => Carries(t, d, d)
  BY <1>7
<1> QED BY <1>8, <1>9, <1>10, CarryStep

LEMMA StoppingParts ==
  ASSUME RInv, NEW p \in Procs, At(p, "fail")
  PROVE  LET c == cmd[p]
         IN  /\ c \in Command /\ c.op \in {"stop", "stop_datasets", "delete"} /\ c.task \in Tasks
             /\ c.next = NoTask /\ c.ids \in SUBSET RunIds /\ c.pc = "fail"
<1> DEFINE c == cmd[p]
<1>1. c \in Command /\ Shape(c) /\ c.pc = "fail"
  BY RInvParts DEF At
<1>2. c.op \in {"stop", "stop_datasets", "delete"} /\ c.task \in Tasks /\ c.next = NoTask
  BY <1>1 DEF Shape, Registering, Stopping, Other, Idle
<1>3. c.ids \in SUBSET RunIds
  BY <1>1 DEF Command
<1> QED BY <1>1, <1>2, <1>3

LEMMA RunsOfRemove ==
  ASSUME RInv, QInv', Watch, NEW p \in Procs, RemoveFromQueue(p)
  PROVE  RInv'
<1>1. PICK c, f : c = cmd[p] /\ f = Refresh(file, config)
  OBVIOUS
<1>2. c.left = {} /\ c.op \in {"stop", "delete"} /\ At(p, "fail") /\ UNCHANGED <<paused, runs, faults>>
  BY <1>1 DEF RemoveFromQueue
<1>3. PICK g \in Removed(f, c.task, Seen(runs)) :
        file' = g /\ cmd' = [cmd EXCEPT ![p] = HandedOver(c, f, g)]
  BY <1>1 DEF RemoveFromQueue
<1>4. /\ c \in Command /\ c.op \in {"stop", "stop_datasets", "delete"} /\ c.task \in Tasks
      /\ c.pc = "fail"
  BY <1>1, <1>2, StoppingParts
<1>5. c.next = NoTask
  BY <1>1, <1>2, StoppingParts
<1>6. FileOK(f)
  BY <1>1, RInvParts
<1>7. FileOK(g) /\ ~InFile(g, c.task)
  BY <1>6, RemovedOK, RemovedGone
<1>8. RunsOK(c.task, c, f, runs) => LiveIn(runs, c.task) = {}
  BY <1>2, <1>4 DEF RunsOK, FailsOK
<1>9. ComingOf(HandedOver(c, f, g), c.task) = {}
  <2>1. PICK k : k = HandedOver(c, f, g)
    OBVIOUS
  <2>2. c.op \in {"stop", "stop_datasets", "delete"} /\ c.task \in Tasks /\ c \in Command /\ FileOK(g)
    BY <1>4, <1>7
  <2>3. ComingOf(k, c.task) = {}
    BY ONLY <1>5, <2>1, <2>2, AfterSection
  <2> QED BY <2>1, <2>3
<1>10. RunsOK(c.task, c, f, runs) => RunsOK(c.task, HandedOver(c, f, g), g, runs)
  BY <1>4, <1>7, <1>8, <1>9, NothingLeft
<1>11. InQueue(g, c.task) => InQueue(f, c.task)
  BY <1>7 DEF InQueue, InFile, Entries
<1>12. \A u \in Tasks \ {c.task}, d \in Command :
         RunsOK(u, d, f, runs) => Moves(u, d, f, g, runs)
  BY <1>6, RemovedMoves
<1>13. \A u \in Tasks \ {c.task} : IsActive(g, u) /\ ~IsActive(f, u) => IsActive(f, c.task)
  BY DEF Removed, IsActive
<1>14. RunsOK(c.task, c, f, runs) /\ IsActive(f, c.task)
         => IsActive(g, c.task) \/ LiveIn(runs, c.task) = {}
  BY <1>8
<1> QED
  BY <1>1, <1>2, <1>3, <1>4, <1>6, <1>10, <1>11, <1>12, <1>13, <1>14, SectionLeaves

(* The runs that a stop of datasets has failed are counted in the entry.    *)
LEMMA MarkedStopped ==
  ASSUME NEW c \in Command, c.op = "stop_datasets", c.pc = "fail", c.left = {}, c.task \in Tasks,
         c.next = NoTask, NEW f, FileOK(f), NEW rs, RunsOK(c.task, c, f, rs),
         NEW g \in Marked(f, c.task, c.ids, Seen(rs)), NEW k \in Command,
         ComingOf(k, c.task) = {}, StoppedOf(k, c.task) = {}, k.pc \notin {"fail", "clear"}
  PROVE  /\ RunsOK(c.task, k, g, rs)
         /\ IsActive(f, c.task) => IsActive(g, c.task) \/ LiveIn(rs, c.task) = {}
<1>1. PICK t \in Tasks, ids \in SUBSET RunIds : t = c.task /\ ids = c.ids
  BY DEF Command
<1>2. FailsOK(t, c, rs) /\ SlotsOf(t, rs, ComingOf(c, t)) /\ CountsOK(t, c, f, rs)
  BY <1>1 DEF RunsOK
<1>3. ids \cap LiveIn(rs, t) = {}
  BY <1>1, <1>2 DEF FailsOK
<1>4. SlotsOf(t, rs, ComingOf(k, t)) /\ FailsOK(t, k, rs)
  BY <1>1, <1>2 DEF SlotsOf, FailsOK
<1>5. StoppedOf(c, t) = ids /\ StoppedOf(k, t) = {} /\ ComingOf(k, t) = {}
  BY <1>1 DEF StoppedOf
<1>6. ASSUME NEW e \in Entries(f), e.task = t
      PROVE  LET due == DueOf(t, rs, StoppedOf(c, t) \ e.completed, ComingOf(c, t))
                 rest == DueOf(t, rs, StoppedOf(k, t) \ (e.completed \cup ids), ComingOf(k, t))
             IN  ids \ e.completed \subseteq due /\ rest \subseteq due \ (ids \ e.completed)
  <2>1. DueOf(t, rs, StoppedOf(k, t) \ (e.completed \cup ids), ComingOf(k, t)) = LiveIn(rs, t)
    BY <1>5 DEF DueOf
  <2>2. DueOf(t, rs, StoppedOf(c, t) \ e.completed, ComingOf(c, t))
          = LiveIn(rs, t) \cup (ids \ e.completed) \cup {<<t, d, 0>> : d \in ComingOf(c, t)}
    BY <1>5 DEF DueOf
  <2> QED BY ONLY <1>3, <2>1, <2>2
<1>7. ~InFile(f, t) => LiveIn(rs, t) = {} /\ ComingOf(k, t) = {}
  BY <1>2, <1>5 DEF CountsOK
<1>8. Counting(t, c, k, f, rs, rs, ids) /\ g \in Marked(f, t, ids, Seen(rs))
  BY <1>1, <1>4, <1>6, <1>7 DEF Counting
<1>9. /\ RunsOK(t, k, g, rs)
      /\ \/ InFile(g, t) /\ (IsActive(f, t) <=> IsActive(g, t)) /\ (InQueue(f, t) <=> InQueue(g, t))
         \/ ~InFile(g, t) /\ LiveIn(rs, t) = {}
  BY <1>8, MarkedOwn
<1> QED BY <1>1, <1>9

LEMMA RunsOfMark ==
  ASSUME RInv, QInv', Watch, NEW p \in Procs, MarkCompleted(p)
  PROVE  RInv'
<1>1. PICK c, f : c = cmd[p] /\ f = Refresh(file, config)
  OBVIOUS
<1>2. /\ c.left = {} /\ c.op = "stop_datasets" /\ At(p, "fail")
      /\ UNCHANGED <<paused, runs, faults>>
  BY <1>1 DEF MarkCompleted
<1>3. CASE ~Writes(p)
  <2>1. file' = file /\ cmd' = [cmd EXCEPT ![p] = Idle]
    BY <1>3 DEF MarkCompleted, End
  <2>2. \A u \in Tasks : Kept(u, file, file')
    BY <2>1, SameKept
  <2>3. \A u \in Tasks : u \in paused => u \in paused'
    BY <1>2
  <2> QED BY <1>2, <2>1, <2>2, <2>3, IdleQuiet, CarryQuiet
<1>4. CASE Writes(p)
  <2>1. PICK g \in Marked(f, c.task, c.ids, Seen(runs)) :
          file' = g /\ cmd' = [cmd EXCEPT ![p] = HandedOver(c, f, g)]
    BY <1>1, <1>4 DEF MarkCompleted
  <2>2. /\ c \in Command /\ c.op \in {"stop", "stop_datasets", "delete"} /\ c.task \in Tasks
        /\ c.ids \in SUBSET RunIds /\ c.pc = "fail"
    BY <1>1, <1>2, StoppingParts
  <2>3. c.next = NoTask
    BY <1>1, <1>2, StoppingParts
  <2>4. FileOK(f)
    BY <1>1, RInvParts
  <2>5. FileOK(g)
    BY <2>2, <2>4, MarkedOK
  <2>6. PICK k : k = HandedOver(c, f, g)
    OBVIOUS
  <2>7. /\ ComingOf(k, c.task) = {} /\ StoppedOf(k, c.task) = {} /\ k.pc \notin {"fail", "clear"}
    <3>1. c.op \in {"stop", "stop_datasets", "delete"} /\ c.task \in Tasks /\ c \in Command
          /\ FileOK(g)
      BY <2>2, <2>5
    <3>2. /\ ComingOf(k, c.task) = {} /\ \A t : StoppedOf(k, t) = {}
          /\ k.pc \notin {"register", "unpause", "fail", "clear"}
      BY ONLY <2>3, <2>6, <3>1, AfterSection
    <3> QED BY <3>2
  <2>8. k \in Command
    BY <2>1, <2>6, NextCommand
  <2>9. ASSUME RunsOK(c.task, c, f, runs)
        PROVE  /\ RunsOK(c.task, k, g, runs)
               /\ IsActive(f, c.task) => IsActive(g, c.task) \/ LiveIn(runs, c.task) = {}
    BY <1>2, <2>1, <2>2, <2>3, <2>4, <2>7, <2>8, <2>9, MarkedStopped
  <2>10. \A u \in Tasks \ {c.task}, d \in Command :
           RunsOK(u, d, f, runs) => Moves(u, d, f, g, runs)
    BY <2>1, <2>2, <2>4, MarkedMoves
  <2>11. \A u \in Tasks \ {c.task} : IsActive(g, u) /\ ~IsActive(f, u) => IsActive(f, c.task)
    BY <2>1 DEF Marked, IsActive
  <2>12. InQueue(g, c.task) => InQueue(f, c.task)
    <3>1. CASE IsActive(f, c.task) /\ UsedUp(f.active, c.ids)
      <4>1. g \in Advances(f.queue, Seen(runs)) /\ f.queue \in SUBSET Entry
        BY <2>1, <2>4, <3>1 DEF Marked, FileOK, File
      <4>2. g.queue \subseteq f.queue
        BY <4>1, AdvancesEntries
      <4> QED BY <4>2 DEF InQueue
    <3>2. CASE IsActive(f, c.task) /\ ~UsedUp(f.active, c.ids)
      BY <2>1, <3>2 DEF Marked, InQueue
    <3>3. CASE ~IsActive(f, c.task)
      <4>1. g.queue = {IF e.task = c.task THEN Counted(e, c.ids) ELSE e :
                         e \in {o \in f.queue : o.task # c.task \/ ~UsedUp(o, c.ids)}}
        BY <2>1, <3>3 DEF Marked
      <4> QED BY <4>1 DEF InQueue
    <3> QED BY <3>1, <3>2, <3>3
  <2>13. RunsOK(c.task, c, f, runs) => RunsOK(c.task, HandedOver(c, f, g), g, runs)
    BY <2>6, <2>9
  <2>14. RunsOK(c.task, c, f, runs) /\ IsActive(f, c.task)
           => IsActive(g, c.task) \/ LiveIn(runs, c.task) = {}
    BY <2>9
  <2> QED
    BY <1>1, <1>2, <2>1, <2>2, <2>4, <2>10, <2>11, <2>12, <2>13, <2>14, SectionLeaves
<1> QED BY <1>3, <1>4

(* The task that was handed over to is unpaused, or the call fails.         *)
LEMMA HandOverEnds ==
  ASSUME RInv, QInv', Watch, NEW p \in Procs, At(p, "hand_over"), UNCHANGED <<file, runs>>,
         faults \subseteq faults', paused' \in {paused, paused \ {cmd[p].next}},
         cmd' = [cmd EXCEPT ![p] = AfterQueue([cmd[p] EXCEPT !.next = NoTask])]
  PROVE  RInv'
<1>1. PICK c, k : c = cmd[p] /\ k = AfterQueue([c EXCEPT !.next = NoTask])
  OBVIOUS
<1>2. c \in Command /\ Shape(c) /\ FileOK(file) /\ c.pc = "hand_over"
      /\ cmd' = [cmd EXCEPT ![p] = k] /\ paused' \in {paused, paused \ {c.next}}
  BY <1>1, RInvParts DEF At
<1>3. /\ c.op \in {"stop", "stop_datasets", "delete"} /\ c.task \in Tasks
      /\ c.next \in Tasks \ {c.task} /\ c.ids = {}
  BY <1>2 DEF Shape, Registering, Stopping, Other, Idle
<1>4. /\ Shape(k) /\ Quiet(k)
      /\ \A t \in Tasks : t \in Touches(k) => t = c.task
  <2> DEFINE b == [c EXCEPT !.next = NoTask]
             e == [b EXCEPT !.pc = "erase_files"]
  <2>1. b.op = c.op /\ b.task = c.task /\ b.next = NoTask /\ b.ids = {} /\ b \in Command
    BY <1>2, <1>3 DEF Command
  <2>2. k = AfterQueue(b)
    BY <1>1
  <2> HIDE DEF b
  <2>3. e.op = c.op /\ e.task = c.task /\ e.next = NoTask /\ e.ids = {} /\ e.pc = "erase_files"
    BY <2>1 DEF Command
  <2>4. k = e \/ k = Idle
    BY <2>2 DEF AfterQueue
  <2> HIDE DEF e
  <2>5. CASE k = e
    <3>1. Shape(k) /\ Quiet(k)
      BY <1>3, <2>3, <2>5 DEF Shape, Stopping, Quiet
    <3>2. \A t \in Tasks : t \in Touches(k) => t = c.task
      BY <1>3, <2>3, <2>5, TouchesOf, ProcAssumption
    <3> QED BY <3>1, <3>2
  <2>6. CASE k = Idle
    BY <2>6, IdleQuiet, IdleViews
  <2> QED BY <2>4, <2>5, <2>6
<1>5. k \in Command /\ \A t \in Tasks : Settles(t)
  BY <1>2, NextCommand, SameKept, SettledFile
<1>6. ASSUME NEW t \in Tasks, t \in Touches(c) \cup Touches(k)
      PROVE  Carries(t, c, k)
  <2>1. t = c.task \/ t = c.next
    BY <1>3, <1>4, <1>6, TouchesOf
  <2>2. ASSUME PausedOK(t, c, file, runs, paused), InQueue(file, t) PROVE t \in paused'
    <3>1. t \in paused
      BY <2>2 DEF PausedOK
    <3>2. ~IsActive(file, t)
      BY <1>2, <2>2, ActiveAlone
    <3>3. t # c.next
      BY <1>2, <2>2, <3>2 DEF PausedOK
    <3> QED BY <1>2, <3>1, <3>3
  <2> QED BY <1>2, <1>4, <1>5, <2>2, CarriesQuiet
<1>7. ASSUME NEW t \in Tasks, NEW d \in Command, t \notin Touches(c) \cup Touches(k)
      PROVE  Carries(t, d, d)
  <2>1. t # c.next
    BY <1>3, <1>7, TouchesOf
  <2>2. t \in paused => t \in paused'
    BY <1>2, <2>1
  <2> QED BY <1>2, <1>5, <2>2, CarriesSame
<1>8. /\ \A t \in Tasks : Sound(t)' /\ t \in Touches(cmd[p]) \cup Touches(k) => Carries(t, cmd[p], k)
      /\ \A t \in Tasks, d \in Command :
            /\ Sound(t)' /\ t \notin Touches(cmd[p]) \cup Touches(k)
            /\ Shape(d) /\ Stays(t, d)
            => Carries(t, d, d)
  BY <1>1, <1>6, <1>7
<1> QED BY <1>2, <1>4, <1>5, <1>8, CarryStep

-----------------------------------------------------------------------------
(* The other ends of commands.                                              *)

LEMMA RunsOfEraseFiles ==
  ASSUME RInv, QInv', Watch, NEW p \in Procs, EraseFiles(p)
  PROVE  RInv'
<1> DEFINE c == cmd[p]
           k == [c EXCEPT !.pc = "erase_runs"]
<1>1. c.pc = "erase_files" /\ cmd' = [cmd EXCEPT ![p] = k] /\ UNCHANGED <<file, paused, runs, faults>>
  BY DEF EraseFiles, At, Goto
<1>2. c \in Command /\ Shape(c)
  BY RInvParts
<1>3. c.op \in {"stop", "stop_datasets", "delete"} /\ c.task \in Tasks /\ c.next = NoTask /\ c.ids = {}
  BY <1>1, <1>2 DEF Shape, Registering, Stopping, Other, Idle
<1>4. k.op = c.op /\ k.task = c.task /\ k.next = NoTask /\ k.ids = {} /\ k.pc = "erase_runs"
  BY <1>2, <1>3 DEF Command
<1> HIDE DEF k
<1>5. Shape(k) /\ Quiet(k)
  BY <1>3, <1>4 DEF Shape, Stopping, Quiet
<1>6. \A t \in Tasks : Kept(t, file, file')
  BY <1>1, SameKept
<1>7. \A t \in Tasks : t \in paused => t \in paused'
  BY <1>1
<1> HIDE DEF c
<1> QED BY <1>1, <1>5, <1>6, <1>7, CarryQuiet

LEMMA RunsOfEraseRuns ==
  ASSUME RInv, QInv', Watch, NEW p \in Procs, EraseRuns(p)
  PROVE  RInv'
<1>1. PICK c : c = cmd[p]
  OBVIOUS
<1>2. /\ runs' = [r \in RunIds |-> IF r[1] = c.task THEN "absent" ELSE runs[r]]
      /\ cmd' = [cmd EXCEPT ![p] = Idle] /\ UNCHANGED <<file, paused, faults>>
  BY <1>1 DEF EraseRuns, End
<1>3. c \in Command /\ FileOK(file) /\ Idle \in Command
  BY <1>1, <1>2, RInvParts, NextCommand
<1>4. ASSUME NEW t \in Tasks PROVE Settles(t)
  <2>1. \A r \in RunIds : runs'[r] = "absent" \/ runs'[r] = runs[r]
    BY <1>2
  <2>2. RunsEnd(t, runs, runs')
    BY <2>1 DEF RunsEnd, ActiveStates
  <2>3. \A r \in RunIds : runs'[r] = "running" => runs[r] = "running"
    BY <2>1
  <2> QED BY <1>2, <2>2, <2>3, SameKept DEF Settles
<1>5. ASSUME NEW t \in Tasks PROVE Carries(t, c, Idle)
  <2>1. PausedOK(t, c, file, runs, paused) => (InQueue(file, t) => t \in paused')
    BY <1>2 DEF PausedOK
  <2> QED BY <1>3, <1>4, <2>1, IdleQuiet, CarriesQuiet
<1>6. \A t \in Tasks, d \in Command : Carries(t, d, d)
  BY <1>2, <1>3, <1>4, CarriesSame
<1> QED BY <1>1, <1>2, <1>3, <1>5, <1>6, IdleQuiet, CarryStep

LEMMA RunsOfRefreshQueue ==
  ASSUME RInv, QInv', Watch, NEW p \in Procs, RefreshQueue(p)
  PROVE  RInv'
<1>1. PICK f : f = Refresh(file, config)
  OBVIOUS
<1>2. /\ file' = file \/ file' = SoftPreempt(f)
      /\ cmd' = [cmd EXCEPT ![p] = Idle] /\ UNCHANGED <<paused, runs, faults>>
  BY <1>1 DEF RefreshQueue, End
<1>3. FileOK(file) /\ FileOK(f)
  BY <1>1, RInvParts
<1>4. \A t \in Tasks : Kept(t, file, f) /\ Kept(t, f, SoftPreempt(f)) /\ Kept(t, file, file)
  BY <1>1, <1>3, RefreshKept, SoftPreemptKept, SameKept
<1>5. \A t \in Tasks : Kept(t, file, file')
  BY <1>2, <1>4, KeptTrans
<1>6. \A t \in Tasks : t \in paused => t \in paused'
  BY <1>2
<1> QED BY <1>2, <1>5, <1>6, IdleQuiet, CarryQuiet

LEMMA RunsOfFailAllRuns ==
  ASSUME RInv, QInv', Watch, NEW p \in Procs, FailAllRuns(p)
  PROVE  RInv'
<1>1. PICK c, k : c = cmd[p] /\ k = [c EXCEPT !.pc = "clear"]
  OBVIOUS
<1>2. /\ c.pc = "airflow" /\ paused' = Tasks
      /\ runs' = [r \in RunIds |-> IF runs[r] \in ActiveStates THEN "failed" ELSE runs[r]]
      /\ cmd' = [cmd EXCEPT ![p] = k] /\ UNCHANGED <<file, faults>>
  BY <1>1 DEF FailAllRuns, At, Goto
<1>3. c \in Command /\ Shape(c) /\ FileOK(file) /\ k \in Command
  BY <1>1, <1>2, RInvParts, NextCommand
<1>4. c.op = "cleanup" /\ c.ids = {}
  BY <1>2, <1>3 DEF Shape, Registering, Stopping, Other, Idle
<1>5. k.op = "cleanup" /\ k.ids = {} /\ k.pc = "clear"
  BY <1>1, <1>3, <1>4 DEF Command
<1>6. Shape(k) /\ Touches(c) = Tasks /\ Touches(k) = Tasks
  BY <1>4, <1>5 DEF Shape, Other, Touches
<1>7. ASSUME NEW t \in Tasks PROVE Carries(t, c, k)
  <2>1. \A r \in RunIds : runs'[r] \notin ActiveStates /\ (runs'[r] = "success" => runs[r] = "success")
    BY <1>2 DEF ActiveStates
  <2>2. LiveIn(runs', t) = {} /\ RunsEnd(t, runs, runs')
    BY <2>1 DEF LiveIn, RunsEnd
  <2>3. \A r \in RunIds : runs'[r] # "running"
    BY <2>1 DEF ActiveStates
  <2>4. Settles(t)
    BY <1>2, <2>2, <2>3, SameKept DEF Settles
  <2>5. ComingOf(k, t) = {} /\ StoppedOf(k, t) = {} /\ FailsOK(t, k, runs')
    BY <1>5, <2>2 DEF ComingOf, StoppedOf, FailsOK
  <2> QED BY <1>2, <1>3, <1>5, <2>4, <2>5, CarriesKept
<1> QED BY <1>1, <1>2, <1>3, <1>6, <1>7, CarryStep

LEMMA RunsOfClearQueue ==
  ASSUME RInv, QInv', Watch, NEW p \in Procs, ClearQueue(p)
  PROVE  RInv'
<1>1. PICK c : c = cmd[p]
  OBVIOUS
<1>2. /\ c.pc = "clear" /\ file' = Empty
      /\ cmd' = [cmd EXCEPT ![p] = Idle] /\ UNCHANGED <<paused, runs, faults>>
  BY <1>1 DEF ClearQueue, At, End
<1>3. c \in Command /\ Shape(c) /\ Idle \in Command
  BY <1>1, <1>2, RInvParts, NextCommand
<1>4. Touches(c) = Tasks
  BY <1>2, <1>3 DEF Shape, Registering, Stopping, Other, Idle, Touches
<1>5. ASSUME NEW t \in Tasks PROVE Carries(t, c, Idle)
  <2>1. ~InFile(Empty, t)
    BY DEF InFile, Entries, Empty
  <2>2. RunsOK(t, c, file, runs) => LiveIn(runs, t) = {}
    BY <1>2 DEF RunsOK, FailsOK
  <2>3. LiveIn(runs, t) = {} => RunsOK(t, Idle, Empty, runs)
    BY <2>1, IdleViews, NothingLeft
  <2>4. Idle.pc = "idle"
    BY DEF Idle
  <2>5. LiveIn(runs, t) = {} => PausedOK(t, Idle, Empty, runs, paused)
    BY <2>1, <2>4, GonePaused
  <2> QED BY <1>2, <2>2, <2>3, <2>5 DEF Carries, Holds
<1> QED BY <1>1, <1>2, <1>3, <1>4, <1>5, IdleQuiet, CarryStep

LEMMA RunsOfStep ==
  ASSUME RInv, QInv', Watch, NEW p \in Procs, Step(p)
  PROVE  RInv'
<1>1. CASE UnpauseStarted(p)
  BY <1>1, UnpauseLeaves DEF UnpauseStarted
<1>2. CASE UnpauseNext(p)
  BY <1>2, HandOverEnds DEF UnpauseNext
<1>3. CASE \E d \in Datasets : TriggerRun(p, d) \/ TriggerNext(p, d)
  BY <1>3, RunsOfTriggerRun, RunsOfTriggerNext
<1>4. CASE PauseDag(p) \/ RegisterStarts(p) \/ RegisterQueues(p)
  BY <1>4, RunsOfPauseDag, RunsOfRegisterStarts, RunsOfRegisterQueues
<1>5. CASE ListRuns(p) \/ \E r \in RunIds : FailRun(p, r)
  BY <1>5, RunsOfListRuns, RunsOfFailRun
<1>6. CASE RemoveFromQueue(p) \/ MarkCompleted(p)
  BY <1>6, RunsOfRemove, RunsOfMark
<1>7. CASE EraseFiles(p) \/ EraseRuns(p) \/ RefreshQueue(p)
  BY <1>7, RunsOfEraseFiles, RunsOfEraseRuns, RunsOfRefreshQueue
<1>8. CASE FailAllRuns(p) \/ ClearQueue(p)
  BY <1>8, RunsOfFailAllRuns, RunsOfClearQueue
<1> QED BY <1>1, <1>2, <1>3, <1>4, <1>5, <1>6, <1>7, <1>8 DEF Step

-----------------------------------------------------------------------------
(* Faults.                                                                  *)

(* After a lost file, or without Airflow, nothing is claimed.               *)
LEMMA NothingIsSound ==
  ASSUME RInv, QInv', Watch, faults \subseteq faults', faults' \cap Lost # {}, NEW p \in Procs,
         NEW k, Shape(k), cmd' = [cmd EXCEPT ![p] = k]
  PROVE  RInv'
<1>1. \A t \in Tasks : ~Sound(t)'
  BY DEF Sound
<1>2. k \in Command
  BY NextCommand
<1> QED BY <1>1, <1>2, CarryStep

LEMMA RunsOfPauseFails ==
  ASSUME RInv, QInv', Watch, NEW p \in Procs, PauseFails(p)
  PROVE  RInv'
<1>1. PICK c, k : c = cmd[p] /\ k = [c EXCEPT !.pc = "register"]
  OBVIOUS
<1>2. /\ c.pc = "pause" /\ c.op \in {"submit", "resume"} /\ cmd' = [cmd EXCEPT ![p] = k]
      /\ faults' = faults \cup {"pause"} /\ UNCHANGED <<file, paused, runs>>
  BY <1>1 DEF PauseFails, At, Goto, Fault
<1>3. c \in Command /\ Shape(c) /\ FileOK(file) /\ k \in Command
  BY <1>1, <1>2, RInvParts, NextCommand
<1>4. k.op = c.op /\ k.task = c.task /\ k.next = c.next /\ k.ids = c.ids /\ k.ds = c.ds
      /\ k.pc = "register"
  BY <1>1, <1>3 DEF Command
<1>5. Shape(k)
  BY <1>2, <1>3, <1>4 DEF Shape, Registering, Stopping, Other, Idle
<1>6. ASSUME NEW t \in Tasks PROVE Carries(t, c, k)
  <2>1. Settles(t)
    BY <1>2, SameKept, SettledFile
  <2>2. ComingOf(k, t) = {} /\ StoppedOf(k, t) = {} /\ FailsOK(t, k, runs')
    BY <1>2, <1>4 DEF ComingOf, StoppedOf, FailsOK
  <2>3. "pause" \in faults'
    BY <1>2
  <2> QED BY <1>3, <2>1, <2>2, <2>3, CarriesKept
<1>7. ASSUME NEW t \in Tasks, NEW d \in Command PROVE Carries(t, d, d)
  BY <1>2, <1>3, SameKept, SettledFile, CarriesSame
<1>8. faults \subseteq faults'
  BY <1>2
<1> QED BY <1>1, <1>2, <1>3, <1>5, <1>6, <1>7, <1>8, CarryStep

LEMMA RunsOfDeleteWithoutApi ==
  ASSUME RInv, QInv', Watch, NEW p \in Procs, DeleteWithoutApi(p)
  PROVE  RInv'
<1>1. PICK c, f, b : c = cmd[p] /\ f = Refresh(file, config) /\ b = [c EXCEPT !.ds = {}]
  OBVIOUS
<1>2. PICK g \in Removed(f, c.task, NoApi) :
        cmd' = [cmd EXCEPT ![p] = HandedOver(b, f, g)]
  BY <1>1 DEF DeleteWithoutApi
<1>3. c.pc = "list" /\ c.op = "delete" /\ faults' = faults \cup {"api"}
  BY <1>1 DEF DeleteWithoutApi, At, Fault
<1>4. c \in Command /\ Shape(c) /\ FileOK(f)
  BY <1>1, RInvParts
<1>5. FileOK(g)
  BY <1>4, RemovedOK
<1>6. b.op = "delete" /\ b.task = c.task /\ b.next = c.next /\ b \in Command
  BY <1>1, <1>3, <1>4 DEF Command
<1>7. c.task \in Tasks /\ c.next = NoTask
  BY <1>3, <1>4 DEF Shape, Registering, Stopping, Other, Idle
<1>8. PICK k : k = HandedOver(b, f, g)
  OBVIOUS
<1>9. Shape(k)
  <2>1. b.op \in {"stop", "stop_datasets", "delete"} /\ b.task \in Tasks /\ b \in Command /\ FileOK(g)
    BY <1>5, <1>6, <1>7
  <2>2. b.next = NoTask
    BY <1>6, <1>7
  <2> QED BY ONLY <1>8, <2>1, <2>2, AfterSection
<1>10. faults \subseteq faults' /\ faults' \cap Lost # {}
  BY <1>3 DEF Lost
<1> QED BY <1>2, <1>8, <1>9, <1>10, NothingIsSound

LEMMA RunsOfFails ==
  ASSUME RInv, QInv', Watch, NEW p \in Procs, Fails(p)
  PROVE  RInv'
<1>1. CASE Abort(p)
  <2>1. cmd' = [cmd EXCEPT ![p] = Idle] /\ UNCHANGED <<file, paused, runs>>
        /\ faults \subseteq faults'
    BY <1>1 DEF Abort, End, Fault
  <2>2. \A t \in Tasks : Kept(t, file, file')
    BY <2>1, SameKept
  <2>3. \A t \in Tasks : t \in paused => t \in paused'
    BY <2>1
  <2> QED BY <2>1, <2>2, <2>3, IdleQuiet, CarryQuiet
<1>2. CASE PauseFails(p)
  BY <1>2, RunsOfPauseFails
<1>3. CASE UnpauseFails(p)
  <2>1. UNCHANGED <<file, paused, runs>> /\ faults \subseteq faults'
    BY <1>3 DEF UnpauseFails, Fault
  <2>2. CASE At(p, "unpause") /\ Goto(p, "trigger")
    BY <2>1, <2>2, UnpauseLeaves
  <2>3. CASE /\ At(p, "hand_over")
             /\ cmd' = [cmd EXCEPT ![p] = AfterQueue([cmd[p] EXCEPT !.next = NoTask])]
    BY <2>1, <2>3, HandOverEnds
  <2> QED BY <1>3, <2>2, <2>3 DEF UnpauseFails
<1>4. CASE DeleteWithoutApi(p)
  BY <1>4, RunsOfDeleteWithoutApi
<1>5. CASE CleanupWithoutAirflow(p)
  <2>1. PICK c, k : c = cmd[p] /\ k = [c EXCEPT !.pc = "clear"]
    OBVIOUS
  <2>2. c.pc = "airflow" /\ cmd' = [cmd EXCEPT ![p] = k] /\ faults' = faults \cup {"orm"}
    BY <1>5, <2>1 DEF CleanupWithoutAirflow, At, Goto, Fault
  <2>3. c \in Command /\ Shape(c)
    BY <2>1, RInvParts
  <2>4. c.op = "cleanup" /\ c.ids = {}
    BY <2>2, <2>3 DEF Shape, Registering, Stopping, Other, Idle
  <2>5. k.op = "cleanup" /\ k.ids = {} /\ k.pc = "clear"
    BY <2>1, <2>3, <2>4 DEF Command
  <2>6. Shape(k)
    BY <2>5 DEF Shape, Other
  <2>7. faults \subseteq faults' /\ faults' \cap Lost # {}
    BY <2>2 DEF Lost
  <2> QED BY <2>2, <2>6, <2>7, NothingIsSound
<1>6. CASE CrashInWrite(p)
  <2>1. cmd' = [cmd EXCEPT ![p] = Idle] /\ faults' = faults \cup {"write"}
    BY <1>6 DEF CrashInWrite, End, Fault
  <2>2. faults \subseteq faults' /\ faults' \cap Lost # {}
    BY <2>1 DEF Lost
  <2> QED BY <2>1, <2>2, IdleQuiet, NothingIsSound
<1> QED BY <1>1, <1>2, <1>3, <1>4, <1>5, <1>6 DEF Fails

-----------------------------------------------------------------------------
(* Airflow.                                                                 *)

LEMMA SameRuns ==
  ASSUME NEW t \in Tasks, NEW d \in Command, NEW f, FileOK(f), NEW rs, NEW ss,
         \A r \in RunIds : r[1] = t => ss[r] = rs[r]
  PROVE  /\ LiveIn(ss, t) = LiveIn(rs, t)
         /\ RunsOK(t, d, f, rs) => RunsOK(t, d, f, ss)
         /\ \A ps : PausedOK(t, d, f, rs, ps) => PausedOK(t, d, f, ss, ps)
<1>1. LiveIn(ss, t) = LiveIn(rs, t) /\ RunsEnd(t, rs, ss)
  BY DEF LiveIn, RunsEnd
<1>2. \A e \in Entries(f) : e.remaining \in Nat
  BY EntriesType
<1>3. ASSUME RunsOK(t, d, f, rs) PROVE RunsOK(t, d, f, ss)
  <2>1. FailsOK(t, d, ss)
    BY <1>1, <1>3, FailsKeep DEF RunsOK
  <2> QED BY <1>1, <1>2, <1>3, <2>1, SameKept, KeepRuns
<1>4. \A ps : PausedOK(t, d, f, rs, ps) => PausedOK(t, d, f, ss, ps)
  BY <1>1 DEF PausedOK, LiveIn
<1> QED BY <1>1, <1>3, <1>4

LEMMA RunsOfStartRun ==
  ASSUME RInv, QInv', Watch, NEW x \in RunIds, StartRun(x)
  PROVE  RInv'
<1>1. /\ runs[x] = "queued" /\ x[1] \notin paused /\ runs' = [runs EXCEPT ![x] = "running"]
      /\ UNCHANGED <<file, paused, cmd, faults>>
  BY DEF StartRun
<1>2. FileOK(file) /\ runs \in [RunIds -> RunStates]
  BY RInvParts
<1>3. runs'[x] = "running" /\ \A r \in RunIds : r # x => runs'[r] = runs[r]
  BY <1>1, <1>2
<1>4. ASSUME NEW t \in Tasks, NEW d \in Command PROVE Carries(t, d, d)
  <2>1. LiveIn(runs', t) = LiveIn(runs, t) /\ RunsEnd(t, runs, runs')
    BY <1>1, <1>3 DEF LiveIn, RunsEnd, ActiveStates
  <2>2. \A e \in Entries(file) : e.remaining \in Nat
    BY <1>2, EntriesType
  <2>3. ASSUME RunsOK(t, d, file, runs) PROVE RunsOK(t, d, file', runs')
    <3>1. FailsOK(t, d, runs')
      BY <2>1, <2>3, FailsKeep DEF RunsOK
    <3>2. RunsOK(t, d, file, runs')
      BY <2>1, <2>2, <2>3, <3>1, SameKept, KeepRuns
    <3> QED BY <1>1, <3>2
  <2>4. ASSUME RunsOK(t, d, file, runs), PausedOK(t, d, file, runs, paused)
        PROVE  PausedOK(t, d, file', runs', paused')
    <3>1. ASSUME x[1] = t PROVE IsActive(file, t)
      <4>1. x \in LiveIn(runs, t)
        BY <1>1, <3>1 DEF LiveIn, ActiveStates
      <4>2. InFile(file, t)
        BY <2>4, <4>1 DEF RunsOK, CountsOK
      <4>3. ~InQueue(file, t)
        BY <1>1, <2>4, <3>1 DEF PausedOK
      <4> QED BY <4>2, <4>3 DEF InFile, InQueue, Entries, IsActive
    <3>2. \A r \in LiveIn(runs', t) : runs'[r] = "running" => IsActive(file, t)
      BY <1>3, <2>1, <2>4, <3>1 DEF PausedOK, LiveIn
    <3> QED BY <1>1, <2>4, <3>2 DEF PausedOK
  <2> QED BY <1>1, <2>3, <2>4 DEF Carries, Holds
<1>5. faults \subseteq faults' /\ UNCHANGED cmd
  BY <1>1
<1> QED BY <1>4, <1>5, CarryAirflow

(* The task that Airflow makes active gets its runs.                        *)
LEMMA HandOverStarts ==
  ASSUME NEW t \in Tasks, NEW g, FileOK(g), IsActive(g, t), NEW rs \in [RunIds -> RunStates],
         NEW stopped, HandOver(g, rs, stopped), SlotsOf(t, rs, g.active.pending),
         Cardinality(DueOf(t, rs, {}, g.active.pending)) <= g.active.remaining
  PROVE  RunsOK(t, Idle, g, runs') /\ PausedOK(t, Idle, g, runs', paused')
<1>1. PICK ds : ds = g.active.pending
  OBVIOUS
<1>2. runs' = Triggered(rs, t, ds) /\ ds \in SUBSET Datasets
  BY <1>1 DEF HandOver, IsActive, FileOK, File, Entry
<1>3. PICK j : j = [Idle EXCEPT !.pc = "hand_over", !.next = t, !.ds = ds]
  OBVIOUS
<1>4. Idle \in Command /\ ComingOf(Idle, t) = {} /\ StoppedOf(Idle, t) = {} /\ Idle.pc = "idle"
  BY IdleViews DEF Idle
<1>5. j.op = "none" /\ j.pc = "hand_over" /\ j.next = t /\ j.ds = ds
  BY <1>3 DEF Idle
<1>6. j \in Command
  BY <1>2, <1>3, <1>4 DEF Command, Steps
<1>7. ComingOf(j, t) = ds /\ StoppedOf(j, t) = {} /\ FailsOK(t, j, rs)
  BY <1>5 DEF ComingOf, StoppedOf, FailsOK
<1>8. RunsOK(t, j, g, rs)
  BY <1>1, <1>7, ActivatedRuns
<1>9. ds \subseteq ComingOf(j, t) /\ ComingOf(Idle, t) = ComingOf(j, t) \ ds
      /\ Idle.pc \notin {"fail", "clear"}
  BY <1>4, <1>7
<1>10. \A e \in Entries(g) : e.remaining \in Nat
  BY EntriesType
<1>11. RunsOK(t, Idle, g, Triggered(rs, t, ds))
  BY <1>4, <1>6, <1>7, <1>8, <1>9, <1>10, TriggerRuns
<1>12. PausedOK(t, Idle, g, runs', paused')
  BY <1>4, ActivePaused
<1> QED BY <1>2, <1>11, <1>12

(* The other tasks keep theirs.                                             *)
LEMMA HandOverOthers ==
  ASSUME NEW t, NEW g, ~IsActive(g, t), NEW rs \in [RunIds -> RunStates],
         NEW stopped, HandOver(g, rs, stopped)
  PROVE  /\ \A r \in RunIds : r[1] = t => runs'[r] = rs[r]
         /\ t \in paused \cup stopped => t \in paused'
<1>1. CASE g.active = NoEntry
  BY <1>1 DEF HandOver
<1>2. CASE g.active # NoEntry
  <2>1. g.active.task # t
    BY <1>2 DEF IsActive
  <2>2. runs' = Triggered(rs, g.active.task, g.active.pending)
        /\ paused' = (paused \cup stopped) \ {g.active.task}
    BY <1>2 DEF HandOver
  <2>3. \A r \in RunIds : r[1] = t => runs'[r] = rs[r]
    BY <2>1, <2>2 DEF Triggered
  <2> QED BY <2>1, <2>2, <2>3
<1> QED BY <1>1, <1>2

LEMMA HandOverMoves ==
  ASSUME NEW t \in Tasks, NEW d \in Command, NEW f, FileOK(f), ~IsActive(f, t),
         NEW g, FileOK(g), NEW rs \in [RunIds -> RunStates], RunsOK(t, d, f, rs),
         Moves(t, d, f, g, rs), Place(f, t) = Place(g, t) \/ d = Idle,
         NEW stopped, HandOver(g, rs, stopped)
  PROVE  /\ RunsOK(t, d, g, runs')
         /\ PausedOK(t, d, f, rs, paused) => PausedOK(t, d, g, runs', paused')
<1>1. CASE IsActive(g, t)
  <2>1. d = Idle
    BY <1>1 DEF Place
  <2>2. ComingOf(Idle, t) = {} /\ StoppedOf(Idle, t) = {}
    BY IdleViews
  <2>3. InFile(g, t)
    BY <1>1, ActiveAlone
  <2>4. /\ SlotsOf(t, rs, g.active.pending)
        /\ Cardinality(DueOf(t, rs, {}, g.active.pending)) <= g.active.remaining
    BY <1>1, <2>1, <2>2, <2>3 DEF Moves, Kept
  <2> QED BY <1>1, <2>1, <2>4, HandOverStarts
<1>2. CASE ~IsActive(g, t)
  <2>1. RunsOK(t, d, g, rs)
    BY <1>2, MovesRuns
  <2>2. (\A r \in RunIds : r[1] = t => runs'[r] = rs[r]) /\ (t \in paused => t \in paused')
    BY <1>2, HandOverOthers
  <2>3. PausedOK(t, d, f, rs, paused) => PausedOK(t, d, g, rs, paused')
    BY <1>2, <2>2, MovesPaused
  <2> QED BY <2>1, <2>2, <2>3, SameRuns
<1> QED BY <1>1, <1>2

(* A run ends; the tasks see fewer live runs.                               *)
Ended(x, rs) ==
    /\ rs \in [RunIds -> RunStates] /\ rs[x] \notin ActiveStates
    /\ \A r \in RunIds : r # x => rs[r] = runs[r]
    /\ \A t \in Tasks : /\ RunsEnd(t, runs, rs)
                        /\ LiveIn(rs, t) = LiveIn(runs, t) \ {x}
                        /\ \A r \in LiveIn(rs, t) : rs[r] = runs[r] /\ r \in LiveIn(runs, t)

LEMMA RunEnded ==
  ASSUME NEW x \in RunIds, runs \in [RunIds -> RunStates], runs[x] = "running",
         NEW result \in {"success", "failed"}
  PROVE  Ended(x, [runs EXCEPT ![x] = result])
<1>0. PICK rs : rs = [runs EXCEPT ![x] = result]
  OBVIOUS
<1>1. rs \in [RunIds -> RunStates] /\ rs[x] = result /\ result \notin ActiveStates
      /\ \A r \in RunIds : r # x => rs[r] = runs[r]
  BY <1>0 DEF RunStates, ActiveStates
<1>2. \A t \in Tasks : RunsEnd(t, runs, rs) /\ LiveIn(rs, t) = LiveIn(runs, t) \ {x}
  BY <1>1 DEF RunsEnd, LiveIn, ActiveStates
<1>3. \A t \in Tasks : \A r \in LiveIn(rs, t) : rs[r] = runs[r] /\ r \in LiveIn(runs, t)
  BY <1>1, <1>2 DEF LiveIn
<1> QED BY <1>0, <1>1, <1>2, <1>3 DEF Ended

LEMMA EndedRuns ==
  ASSUME NEW t \in Tasks, NEW d \in Command, NEW f, FileOK(f), NEW rs, NEW ss,
         RunsEnd(t, rs, ss), RunsOK(t, d, f, rs)
  PROVE  RunsOK(t, d, f, ss)
<1>1. \A e \in Entries(f) : e.remaining \in Nat
  BY EntriesType
<1>2. LiveIn(ss, t) \subseteq LiveIn(rs, t)
  BY DEF LiveIn, RunsEnd
<1>3. FailsOK(t, d, ss)
  BY <1>2, FailsKeep DEF RunsOK
<1> QED BY <1>1, <1>3, SameKept, KeepRuns

(* The task of the run that is counted.                                     *)
LEMMA CountOwn ==
  ASSUME NEW x \in RunIds, runs \in [RunIds -> RunStates], runs[x] = "running",
         NEW result \in {"success", "failed"}, NEW rs, rs = [runs EXCEPT ![x] = result],
         NEW d \in Command, NEW f, FileOK(f), NEW t, t = x[1], RunsOK(t, d, f, runs),
         NEW g \in Marked(f, t, {x}, Seen(rs))
  PROVE  /\ RunsOK(t, d, g, rs)
         /\ \/ InFile(g, t) /\ (IsActive(f, t) <=> IsActive(g, t)) /\ (InQueue(f, t) <=> InQueue(g, t))
            \/ ~InFile(g, t) /\ LiveIn(rs, t) = {}
         /\ IsActive(f, t) /\ UsedUp(f.active, {x}) => ~InFile(g, t)
<1>1. t \in Tasks /\ x[3] # 0
  BY RunIdParts, FileAssumption
<1>2. x \in LiveIn(runs, t)
  BY DEF LiveIn, ActiveStates
<1>3. RunsEnd(t, runs, rs) /\ LiveIn(rs, t) = LiveIn(runs, t) \ {x}
  BY <1>1, RunEnded DEF Ended
<1>4. RunsOK(t, d, f, rs)
  BY <1>1, <1>3, EndedRuns
<1>5. ASSUME NEW e \in Entries(f), e.task = t
      PROVE  LET due == DueOf(t, runs, StoppedOf(d, t) \ e.completed, ComingOf(d, t))
                 rest == DueOf(t, rs, StoppedOf(d, t) \ (e.completed \cup {x}), ComingOf(d, t))
             IN  {x} \ e.completed \subseteq due /\ rest \subseteq due \ ({x} \ e.completed)
  <2>1. \A b \in ComingOf(d, t) : <<t, b, 0>> # x
    BY <1>1
  <2> QED BY <1>2, <1>3, <2>1 DEF DueOf
<1>6. ~InFile(f, t) => LiveIn(rs, t) = {} /\ ComingOf(d, t) = {}
  BY <1>4 DEF RunsOK, CountsOK
<1>7. {x} \in SUBSET RunIds /\ Counting(t, d, d, f, runs, rs, {x})
  BY <1>4, <1>5, <1>6 DEF Counting, RunsOK
<1> QED BY <1>1, <1>7, MarkedOwn

LEMMA RunsOfCountRun ==
  ASSUME RInv, QInv', Watch, NEW x \in RunIds, NEW result \in {"success", "failed"},
         CountRun(x, result)
  PROVE  RInv'
<1>1. PICK f, rs, u : f = Refresh(file, config) /\ rs = [runs EXCEPT ![x] = result] /\ u = x[1]
  OBVIOUS
<1>2. runs[x] = "running" /\ UNCHANGED <<cmd, faults>> /\ runs \in [RunIds -> RunStates]
      /\ FileOK(file) /\ FileOK(f) /\ u \in Tasks
  BY <1>1, RInvParts, RunIdParts DEF CountRun
<1>3. PICK g \in Marked(f, u, {x}, Seen(rs)) :
        /\ file' = g
        /\ IF IsActive(f, u) /\ UsedUp(f.active, {x}) THEN HandOver(g, rs, {})
           ELSE runs' = rs /\ UNCHANGED paused
  BY <1>1 DEF CountRun
<1>4. FileOK(g)
  BY <1>3 DEF QInv, Core
<1>5. /\ rs \in [RunIds -> RunStates]
      /\ \A r \in RunIds : r # x => rs[r] = runs[r]
      /\ LiveIn(rs, u) = LiveIn(runs, u) \ {x}
      /\ \A r \in LiveIn(rs, u) : rs[r] = runs[r] /\ r \in LiveIn(runs, u)
  <2>1. Ended(x, rs)
    BY <1>1, <1>2, RunEnded
  <2> QED BY <1>2, <2>1 DEF Ended
<1>6. ASSUME NEW t \in Tasks
      PROVE  /\ Place(file, t) = Place(f, t)
             /\ \A d \in Command : RunsOK(t, d, file, runs) => RunsOK(t, d, f, runs)
             /\ \A d : PausedOK(t, d, file, runs, paused) => PausedOK(t, d, f, runs, paused)
  <2>1. Kept(t, file, f) /\ (InQueue(f, t) <=> InQueue(file, t)) /\ (IsActive(f, t) <=> IsActive(file, t))
    BY <1>1, <1>2, RefreshKept, RefreshOK
  <2>2. Place(file, t) = Place(f, t)
    BY <2>1 DEF Place, InQueue
  <2> QED BY <1>2, <2>1, <2>2, RunsKept, KeptPaused
<1>7. ASSUME NEW d \in Command, Stays(u, d) PROVE Carries(u, d, d)
  <2>1. ASSUME RunsOK(u, d, f, runs)
        PROVE  /\ RunsOK(u, d, g, rs)
               /\ \/ /\ InFile(g, u)
                     /\ (IsActive(f, u) <=> IsActive(g, u)) /\ (InQueue(f, u) <=> InQueue(g, u))
                  \/ ~InFile(g, u) /\ LiveIn(rs, u) = {}
               /\ IsActive(f, u) /\ UsedUp(f.active, {x}) => ~InFile(g, u)
    BY <1>1, <1>2, <1>3, <2>1, CountOwn
  <2>2. ASSUME RunsOK(u, d, f, runs)
        PROVE  /\ \A r \in RunIds : r[1] = u => runs'[r] = rs[r]
               /\ u \in paused => u \in paused'
    <3>1. CASE IsActive(f, u) /\ UsedUp(f.active, {x})
      <4>1. ~IsActive(g, u)
        BY <1>4, <2>1, <2>2, <3>1, ActiveAlone
      <4> QED BY <1>3, <1>5, <3>1, <4>1, HandOverOthers
    <3>2. CASE ~(IsActive(f, u) /\ UsedUp(f.active, {x}))
      BY <1>3, <3>2
    <3> QED BY <3>1, <3>2
  <2>3. RunsOK(u, d, f, runs) => RunsOK(u, d, g, runs')
    BY <1>2, <1>4, <2>1, <2>2, SameRuns
  <2>4. ASSUME RunsOK(u, d, f, runs), PausedOK(u, d, f, runs, paused)
        PROVE  PausedOK(u, d, g, runs', paused')
    <3>1. InQueue(g, u) => u \in paused'
      <4>1. InQueue(g, u) => InFile(g, u)
        BY DEF InQueue, InFile, Entries
      <4> QED BY <2>1, <2>2, <2>4, <4>1 DEF PausedOK
    <3>2. LiveIn(runs', u) = LiveIn(rs, u)
      BY <1>2, <1>4, <2>2, <2>4, SameRuns
    <3>3. \A r \in LiveIn(runs', u) : runs'[r] = "running" => IsActive(g, u)
      <4> SUFFICES ASSUME NEW r \in LiveIn(runs', u), runs'[r] = "running" PROVE IsActive(g, u)
        OBVIOUS
      <4>1. r \in LiveIn(runs, u) /\ runs[r] = "running"
        BY <1>5, <2>2, <2>4, <3>2 DEF LiveIn
      <4> QED BY <2>1, <2>4, <3>2, <4>1 DEF PausedOK
    <3>4. IsActive(f, u) /\ d # Idle => IsActive(g, u)
      BY <1>2, <1>3, <1>6, <1>7 DEF Stays, Place
    <3>5. d = Idle => d.pc = "idle"
      BY DEF Idle
    <3> QED BY <2>2, <2>4, <3>1, <3>3, <3>4, <3>5 DEF PausedOK
  <2> QED BY <1>2, <1>3, <1>6, <2>3, <2>4 DEF Carries, Holds
<1>8. ASSUME NEW t \in Tasks, t # u, NEW d \in Command, Stays(t, d) PROVE Carries(t, d, d)
  <2>1. \A r \in RunIds : r[1] = t => rs[r] = runs[r]
    BY <1>1, <1>5, <1>8
  <2>2. /\ RunsOK(t, d, f, runs) => RunsOK(t, d, f, rs)
        /\ PausedOK(t, d, f, runs, paused) => PausedOK(t, d, f, rs, paused)
    BY <1>2, <2>1, SameRuns
  <2>3. {x} \in SUBSET RunIds
    OBVIOUS
  <2>4. RunsOK(t, d, f, rs) => /\ Moves(t, d, f, g, rs)
                               /\ ~(IsActive(f, u) /\ UsedUp(f.active, {x})) => Kept(t, f, g)
    BY <1>2, <1>3, <1>8, <2>3, MarkedMoves
  <2>5. CASE IsActive(f, u) /\ UsedUp(f.active, {x})
    <3>1. HandOver(g, rs, {}) /\ ~IsActive(f, t)
      BY <1>3, <1>8, <2>5 DEF IsActive
    <3>2. Place(f, t) = Place(g, t) \/ d = Idle
      BY <1>3, <1>6, <1>8 DEF Stays
    <3>3. RunsOK(t, d, f, rs) => /\ RunsOK(t, d, g, runs')
                                 /\ PausedOK(t, d, f, rs, paused) => PausedOK(t, d, g, runs', paused')
      BY <1>2, <1>4, <1>5, <2>4, <3>1, <3>2, HandOverMoves
    <3> QED BY <1>2, <1>3, <1>6, <2>2, <3>3 DEF Carries, Holds
  <2>6. CASE ~(IsActive(f, u) /\ UsedUp(f.active, {x}))
    <3>1. runs' = rs /\ UNCHANGED paused
      BY <1>3, <2>6
    <3>2. RunsOK(t, d, f, rs) => /\ RunsOK(t, d, g, rs)
                                 /\ PausedOK(t, d, f, rs, paused) => PausedOK(t, d, g, rs, paused)
      BY <1>2, <2>4, <2>6, RunsKept, KeptPaused
    <3> QED BY <1>2, <1>3, <1>6, <2>2, <3>1, <3>2 DEF Carries, Holds
  <2> QED BY <2>5, <2>6
<1>9. faults \subseteq faults' /\ UNCHANGED cmd
  BY <1>2
<1> QED BY <1>7, <1>8, <1>9, CarryAirflow

LEMMA RunsOfDrainRun ==
  ASSUME RInv, QInv', Watch, NEW x \in RunIds, NEW result \in {"success", "failed"},
         DrainRun(x, result)
  PROVE  RInv'
<1>1. PICK f, rs, u : f = Refresh(file, config) /\ rs = [runs EXCEPT ![x] = result] /\ u = x[1]
  OBVIOUS
<1>2. runs[x] = "running" /\ UNCHANGED <<cmd, faults>> /\ runs \in [RunIds -> RunStates]
      /\ FileOK(file) /\ FileOK(f) /\ u \in Tasks /\ IsActive(f, u) /\ Drains(f)
  BY <1>1, RInvParts, RunIdParts DEF DrainRun
<1>3. /\ rs \in [RunIds -> RunStates] /\ rs[x] \notin ActiveStates
      /\ \A r \in RunIds : r # x => rs[r] = runs[r]
      /\ \A t \in Tasks : /\ RunsEnd(t, runs, rs)
                          /\ \A r \in LiveIn(rs, t) : rs[r] = runs[r] /\ r \in LiveIn(runs, t)
  <2>1. Ended(x, rs)
    BY <1>1, <1>2, RunEnded
  <2> QED BY <2>1 DEF Ended
<1>4. faults \subseteq faults' /\ UNCHANGED cmd
  BY <1>2
<1>5. CASE \E o \in Live(u) \ {x} : runs[o] = "running"
  <2>1. runs' = rs /\ UNCHANGED <<file, paused>>
    BY <1>1, <1>5 DEF DrainRun
  <2>2. ASSUME NEW t \in Tasks PROVE Settles(t)
    <3>1. \A r \in RunIds : runs'[r] = "running" => runs[r] = "running"
      BY <1>2, <1>3, <2>1 DEF ActiveStates
    <3> QED BY <1>3, <1>4, <2>1, <3>1, SameKept DEF Settles
  <2>3. \A t \in Tasks, d \in Command : Carries(t, d, d)
    BY <1>2, <2>1, <2>2, CarriesSame
  <2> QED BY <1>4, <2>3, CarryAirflow
<1>6. CASE ~\E o \in Live(u) \ {x} : runs[o] = "running"
  <2>1. PICK g \in Drained(f, Seen(rs)) : file' = g /\ HandOver(g, rs, {u})
    BY <1>1, <1>6 DEF DrainRun
  <2>2. FileOK(g)
    BY <2>1 DEF QInv, Core
  <2>3. ASSUME NEW t \in Tasks
        PROVE  /\ Place(file, t) = Place(f, t) /\ (IsActive(f, t) <=> IsActive(file, t))
               /\ \A d \in Command : RunsOK(t, d, file, runs) => RunsOK(t, d, f, rs)
               /\ \A d : PausedOK(t, d, file, runs, paused) => PausedOK(t, d, f, runs, paused)
    <3>1. Kept(t, file, f) /\ (InQueue(f, t) <=> InQueue(file, t)) /\ (IsActive(f, t) <=> IsActive(file, t))
      BY <1>1, <1>2, RefreshKept, RefreshOK
    <3>2. Place(file, t) = Place(f, t)
      BY <3>1 DEF Place, InQueue
    <3>3. ASSUME NEW d \in Command, RunsOK(t, d, file, runs) PROVE RunsOK(t, d, f, rs)
      <4>1. RunsOK(t, d, f, runs)
        BY <1>2, <3>1, <3>3, RunsKept
      <4> QED BY <1>2, <1>3, <4>1, EndedRuns
    <3> QED BY <1>2, <3>1, <3>2, <3>3, KeptPaused
  <2>4. ASSUME NEW d \in Command, Stays(u, d) PROVE Carries(u, d, d)
    <3>1. file.active # NoEntry /\ file.active.draining
      <4>1. file.active # NoEntry /\ file.active \in Entry
        BY <1>2, <2>3 DEF IsActive, FileOK, File
      <4>2. f.active = RefreshEntry(file.active, config)
        BY <1>1, <4>1 DEF Refresh
      <4>3. f.active.draining = file.active.draining
        BY <4>1, <4>2 DEF RefreshEntry, Entry
      <4> QED BY <1>2, <4>1, <4>3 DEF Drains
    <3>2. g.active # NoEntry => ~g.active.draining
      <4>1. PICK at \in LastPlaces(f.queue) :
              g \in Advances(f.queue \cup {Preempted(f.active, at)}, Seen(rs))
        BY <2>1 DEF Drained
      <4>2. f.active \in Entry /\ f.queue \in SUBSET Entry /\ at \in 1..MaxRank
        BY <1>2 DEF IsActive, FileOK, File, LastPlaces
      <4>3. f.queue \cup {Preempted(f.active, at)} \in SUBSET Entry
        BY <4>2, PreemptedType
      <4> QED BY <4>1, <4>3, AdvancesEntries
    <3>3. d = Idle
      <4>1. CASE IsActive(g, u)
        <5>1. Restarted(u)
          BY <1>2, <2>1, <2>3, <3>1, <3>2, <4>1 DEF Restarted, IsActive
        <5> QED BY <2>4, <5>1 DEF Stays
      <4>2. CASE ~IsActive(g, u)
        <5>1. Place(file, u) # Place(g, u)
          BY <1>2, <2>3, <4>2 DEF Place
        <5> QED BY <2>1, <2>4, <5>1 DEF Stays
      <4> QED BY <4>1, <4>2
    <3>4. ASSUME RunsOK(u, Idle, f, rs)
          PROVE  IF IsActive(g, u)
                 THEN /\ SlotsOf(u, rs, g.active.pending)
                      /\ Cardinality(DueOf(u, rs, {}, g.active.pending)) <= g.active.remaining
                 ELSE RunsOK(u, Idle, g, rs)
      BY <1>2, <2>1, <3>4, DrainedOwn
    <3>5. CASE IsActive(g, u)
      <4>1. RunsOK(u, Idle, f, rs) => RunsOK(u, Idle, g, runs') /\ PausedOK(u, Idle, g, runs', paused')
        BY <1>2, <1>3, <2>1, <2>2, <3>4, <3>5, HandOverStarts
      <4> QED BY <1>2, <2>1, <2>3, <2>4, <3>3, <4>1 DEF Carries, Holds
    <3>6. CASE ~IsActive(g, u)
      <4>1. (\A r \in RunIds : r[1] = u => runs'[r] = rs[r]) /\ u \in paused'
        BY <1>3, <2>1, <3>6, HandOverOthers
      <4>2. Idle \in Command /\ Idle.pc = "idle"
        <5>1. Idle.pc = "idle"
          BY DEF Idle
        <5> QED BY <1>2, <5>1, IdleViews
      <4>3. RunsOK(u, Idle, f, rs) => RunsOK(u, Idle, g, runs')
        BY <1>2, <2>2, <3>4, <3>6, <4>1, <4>2, SameRuns
      <4>4. \A r \in LiveIn(runs', u) : runs'[r] # "running"
        <5>1. \A r \in LiveIn(rs, u) : r # x /\ rs[r] = runs[r] /\ r \in LiveIn(runs, u)
          BY <1>2, <1>3 DEF LiveIn
        <5>2. \A r \in LiveIn(rs, u) : rs[r] # "running"
          BY <1>6, <5>1 DEF Live, LiveIn
        <5> QED BY <4>1, <5>2 DEF LiveIn
      <4>5. PausedOK(u, Idle, g, runs', paused')
        BY <4>1, <4>2, <4>4 DEF PausedOK
      <4> QED BY <1>2, <2>1, <2>3, <2>4, <3>3, <4>3, <4>5 DEF Carries, Holds
    <3> QED BY <3>5, <3>6
  <2>5. ASSUME NEW t \in Tasks, t # u, NEW d \in Command, Stays(t, d) PROVE Carries(t, d, d)
    <3>1. ~IsActive(f, t) /\ f.active # NoEntry /\ f.active.task # t
      BY <1>2, <2>5 DEF IsActive
    <3>2. \A r \in RunIds : r[1] = t => rs[r] = runs[r]
      BY <1>1, <1>3, <2>5
    <3>3. PausedOK(t, d, f, runs, paused) => PausedOK(t, d, f, rs, paused)
      BY <1>2, <3>2, SameRuns
    <3>4. RunsOK(t, d, f, rs) => Moves(t, d, f, g, rs)
      BY <1>2, <2>1, <3>1, DrainedMoves
    <3>5. Place(f, t) = Place(g, t) \/ d = Idle
      BY <2>1, <2>3, <2>5 DEF Stays
    <3>6. RunsOK(t, d, f, rs) => /\ RunsOK(t, d, g, runs')
                                 /\ PausedOK(t, d, f, rs, paused) => PausedOK(t, d, g, runs', paused')
      BY <1>2, <1>3, <2>1, <2>2, <3>1, <3>4, <3>5, HandOverMoves
    <3> QED BY <1>2, <2>1, <2>3, <3>3, <3>6 DEF Carries, Holds
  <2> QED BY <1>4, <2>4, <2>5, CarryAirflow
<1> QED BY <1>5, <1>6

-----------------------------------------------------------------------------
(* The invariant, and what it says.                                         *)

LEMMA InitRuns == Init => RInv
<1> SUFFICES ASSUME Init PROVE RInv
  OBVIOUS
<1>1. QInv
  BY InitInv
<1>2. /\ file = Empty /\ paused = Tasks /\ runs = [r \in RunIds |-> "absent"]
      /\ cmd = [p \in Procs |-> Idle]
  BY DEF Init
<1>3. Shapes
  BY <1>2, IdleQuiet DEF Shapes
<1>4. Alone
  BY <1>2, IdleViews DEF Alone, Overlapping
<1>5. ASSUME NEW t \in Tasks, NEW c \in Command, Works(t, c)
      PROVE  Holds(t, c, file, runs, paused, faults)
  <2>1. c = Idle
    BY <1>2, <1>5 DEF Works
  <2>2. ~InFile(Empty, t)
    BY DEF InFile, Entries, Empty
  <2>3. LiveIn(runs, t) = {}
    BY <1>2 DEF LiveIn, ActiveStates
  <2>4. ComingOf(Idle, t) = {} /\ Idle.pc = "idle"
    BY IdleViews DEF Idle
  <2>5. RunsOK(t, Idle, file, runs)
    BY <1>2, <2>2, <2>3, <2>4, NothingLeft
  <2>6. PausedOK(t, Idle, file, runs, paused)
    BY <1>2, <2>2, <2>3, <2>4, GonePaused
  <2> QED BY <2>1, <2>5, <2>6 DEF Holds
<1> QED BY <1>1, <1>3, <1>4, <1>5 DEF RInv, TaskHolds

LEMMA NextRuns == RInv /\ [Next]_vars => RInv'
<1> SUFFICES ASSUME RInv, [Next]_vars PROVE RInv'
  OBVIOUS
<1>1. QInv'
  BY NextInv DEF RInv
<1>2. CASE Next
  <2>1. Watch
    BY <1>2 DEF Next
  <2>2. CASE \E p \in Procs : Start(p) \/ Step(p) \/ Fails(p)
    BY <1>1, <2>1, <2>2, RunsOfStart, RunsOfStep, RunsOfFails
  <2>3. CASE Airflow
    BY <1>1, <2>1, <2>3, RunsOfStartRun, RunsOfCountRun, RunsOfDrainRun DEF Airflow, EndRun
  <2> QED BY <1>2, <2>2, <2>3 DEF Next
<1>3. CASE UNCHANGED vars
  BY <1>3, <1>1 DEF vars, RInv, Shapes, Alone, Overlapping, Sound, TaskHolds, Works
<1> QED BY <1>2, <1>3

(* Some command, or none, is the one that works on the task.                *)
LEMMA SomeoneWorks ==
  ASSUME RInv, NEW t \in Tasks, Sound(t)
  PROVE  \E c \in Command : Works(t, c) /\ Holds(t, c, file, runs, paused, faults)
<1>1. \E c \in Command : Works(t, c)
  <2>1. CASE \E p \in Procs : t \in Touches(cmd[p])
    BY <2>1, RInvParts DEF Works
  <2>2. CASE \A p \in Procs : t \notin Touches(cmd[p])
    BY <2>2, IdleViews DEF Works
  <2> QED BY <2>1, <2>2
<1> QED BY <1>1 DEF RInv, TaskHolds

LEMMA RunsAreActive == RInv => OnlyActiveRuns
<1> SUFFICES ASSUME RInv, NEW r \in RunIds, runs[r] = "running", r[1] \notin overlap,
                    faults \cap {"pause", "write", "api", "orm"} = {}
             PROVE  IsActive(file, r[1])
  BY DEF OnlyActiveRuns
<1>1. PICK t \in Tasks : t = r[1]
  BY RunIdParts
<1>2. Sound(t) /\ "pause" \notin faults
  BY <1>1 DEF Sound, Lost
<1>3. PICK c \in Command : PausedOK(t, c, file, runs, paused)
  BY <1>2, SomeoneWorks DEF Holds
<1>4. r \in LiveIn(runs, t)
  BY <1>1 DEF LiveIn, ActiveStates
<1> QED BY <1>1, <1>3, <1>4 DEF PausedOK

LEMMA RunsAreDue == RInv => RunsAreCounted
<1> SUFFICES ASSUME RInv, NEW t \in Tasks, IsActive(file, t), Unattended(t),
                    faults \cap {"write", "api", "orm"} = {}
             PROVE  Cardinality(Live(t)) <= file.active.remaining
  BY DEF RunsAreCounted
<1>1. Sound(t) /\ FileOK(file)
  BY RInvParts DEF Sound, Lost, Unattended
<1>2. PICK c \in Command : Works(t, c) /\ Holds(t, c, file, runs, paused, faults)
  BY <1>1, SomeoneWorks
<1>3. c = Idle
  BY <1>2 DEF Works, Unattended
<1>4. ComingOf(Idle, t) = {} /\ StoppedOf(Idle, t) = {}
  BY IdleViews
<1>5. file.active \in Entries(file) /\ file.active.task = t
  BY DEF IsActive, Entries
<1>6. Cardinality(DueOf(t, runs, {} \ file.active.completed, {})) <= file.active.remaining
  BY <1>2, <1>3, <1>4, <1>5 DEF Holds, RunsOK, CountsOK
<1>7. DueOf(t, runs, {} \ file.active.completed, {}) = Live(t)
  BY DEF DueOf, LiveIn, Live
<1> QED BY <1>6, <1>7

(* A DagRun only executes while its task is the active one of the queue     *)
(* file, whatever commands, runs, hand-overs and deaths of commands         *)
(* interleave, except for the tasks and faults that OnlyActiveRuns names.   *)
THEOREM OnlyActiveRunsHolds == Spec => []OnlyActiveRuns
  BY InitRuns, NextRuns, RunsAreActive, PTL DEF Spec

(* The queue file never waits for fewer completions of the active task than *)
(* the DagRuns the task has, once no command works on it: it does not hand  *)
(* over while they execute.                                                 *)
THEOREM RunsStayCounted == Spec => []RunsAreCounted
  BY InitRuns, NextRuns, RunsAreDue, PTL DEF Spec

(* A dataset that has a DagRun in Airflow's hands has no other one, and     *)
(* none that succeeded: neither a hand-over nor a drain that puts every     *)
(* dataset back triggers a second run.  The exceptions are those of Sound.  *)
OneRunPerDataset ==
    \A r, s \in RunIds :
       /\ Sound(r[1]) /\ r[1] = s[1] /\ r[2] = s[2]
       /\ runs[r] \in ActiveStates /\ runs[s] \in ActiveStates \cup {"success"}
       => r = s

LEMMA RunsDiffer == RInv => OneRunPerDataset
<1> SUFFICES ASSUME RInv, NEW r \in RunIds, NEW s \in RunIds, Sound(r[1]), r[1] = s[1],
                    r[2] = s[2], runs[r] \in ActiveStates,
                    runs[s] \in ActiveStates \cup {"success"}
             PROVE  r = s
  BY DEF OneRunPerDataset
<1>1. PICK t \in Tasks : t = r[1]
  BY RunIdParts
<1>2. PICK c \in Command : SlotsOf(t, runs, ComingOf(c, t))
  BY <1>1, SomeoneWorks DEF Holds, RunsOK
<1>3. r \in LiveIn(runs, t) /\ runs[s] # "success"
  BY <1>1, <1>2 DEF LiveIn, SlotsOf
<1>4. s \in LiveIn(runs, t)
  BY <1>1, <1>3 DEF LiveIn
<1> QED BY <1>2, <1>3, <1>4 DEF SlotsOf

(* No dataset of a task has two DagRuns at once, nor one beside a run that  *)
(* succeeded, whatever commands, hand-overs and drains interleave, except   *)
(* for the tasks and faults under the exceptions of Sound.                  *)
THEOREM OneRunPerDatasetHolds == Spec => []OneRunPerDataset
  BY InitRuns, NextRuns, RunsDiffer, PTL DEF Spec

-----------------------------------------------------------------------------
(* Priorities.  An operation works on a refreshed file and leaves one whose *)
(* entries still have the priorities of the configurations; whenever it     *)
(* leaves a more urgent entry behind the active one, that one drains.       *)

Current(e, cf) == cf[e.task] \in Prios => e.prio = cf[e.task]
UpToDate(f, cf) == \A e \in Entries(f) : Current(e, cf)
Asks(f) == Preempts(f) => f.active.draining

LEMMA RefreshUpToDate ==
  ASSUME NEW f, FileOK(f), NEW cf, NEW g, g = Refresh(f, cf)
  PROVE  /\ UpToDate(g, cf)
         /\ \A t : InFile(g, t) <=> InFile(f, t)
         /\ f.active # NoEntry => g.active # NoEntry /\ g.active.draining = f.active.draining
         /\ f.active = NoEntry => g.active = NoEntry
<1>1. f.queue \subseteq Entry /\ f.active \in Entry \cup {NoEntry}
  BY DEF FileOK, File
<1>2. ASSUME NEW e \in Entry
      PROVE  LET o == RefreshEntry(e, cf)
             IN  o.task = e.task /\ Current(o, cf) /\ o.draining = e.draining /\ o # NoEntry
  <2>1. RefreshEntry(e, cf) \in Entry
    BY RefreshEntryType
  <2> QED BY <2>1, FileAssumption DEF RefreshEntry, Current, Entry
<1>3. g.queue = {RefreshEntry(e, cf) : e \in f.queue}
      /\ g.active = IF f.active = NoEntry THEN NoEntry ELSE RefreshEntry(f.active, cf)
  BY DEF Refresh
<1>4. Entries(g) = {RefreshEntry(e, cf) : e \in Entries(f)}
  BY <1>1, <1>2, <1>3 DEF Entries
<1>5. Entries(f) \subseteq Entry
  BY <1>1 DEF Entries
<1>6. UpToDate(g, cf) /\ \A t : InFile(g, t) <=> InFile(f, t)
  BY <1>2, <1>4, <1>5 DEF UpToDate, InFile
<1> QED BY <1>1, <1>2, <1>3, <1>6

LEMMA RefreshSame ==
  ASSUME NEW f, FileOK(f), NEW cf, UpToDate(f, cf)
  PROVE  Refresh(f, cf) = f
<1>1. f \in [active: Entry \cup {NoEntry}, queue: SUBSET Entry]
  BY DEF FileOK, File
<1>2. \A e \in Entries(f) : e \in Entry /\ RefreshEntry(e, cf) = e
  <2> SUFFICES ASSUME NEW e \in Entries(f) PROVE e \in Entry /\ RefreshEntry(e, cf) = e
    OBVIOUS
  <2>1. e \in Entry /\ Current(e, cf)
    BY <1>1 DEF UpToDate, Entries
  <2>2. (IF cf[e.task] \in Prios THEN cf[e.task] ELSE e.prio) = e.prio
    BY <2>1 DEF Current
  <2> QED BY <2>1, <2>2 DEF RefreshEntry, Entry
<1>3. f.queue \subseteq Entries(f) /\ (f.active # NoEntry => f.active \in Entries(f))
  BY DEF Entries
<1>4. {RefreshEntry(e, cf) : e \in f.queue} = f.queue
  BY <1>2, <1>3
<1>5. (IF f.active = NoEntry THEN NoEntry ELSE RefreshEntry(f.active, cf)) = f.active
  BY <1>2, <1>3
<1> QED BY <1>1, <1>4, <1>5 DEF Refresh

(* What an operation leaves of the refreshed file f.                        *)
Leaves(f, g, cf) == /\ UpToDate(f, cf) => UpToDate(g, cf)
                    /\ \A t : InFile(g, t) => InFile(f, t)
                    /\ Asks(f) => Asks(g)

LEMMA AdvancesAsk ==
  ASSUME NEW q \in SUBSET Entry, NEW s, NEW g \in Advances(q, s)
  PROVE  /\ ~Preempts(g)
         /\ \A e \in Entries(g) : \E o \in q : e.task = o.task /\ e.prio = o.prio
<1> DEFINE ok == {e \in q : Startable(e, s)}
<1>1. CASE ok = {}
  BY <1>1 DEF Advances, Empty, Preempts, Entries
<1>2. CASE ok # {}
  <2>1. PICK n \in Heads(ok) :
          g = [active |-> Activate(n, s), queue |-> {e \in q \ {n} : Before(n, e)}]
    BY <1>2 DEF Advances
  <2>2. n \in q /\ n \in Entry /\ Activate(n, s).prio = n.prio /\ Activate(n, s).task = n.task
    BY DEF Heads, Activate, Entry
  <2>3. g.active.prio = n.prio /\ \A e \in g.queue : Before(n, e) /\ e \in q
    BY <2>1, <2>2
  <2>4. ~Preempts(g)
    <3> SUFFICES ASSUME NEW e \in g.queue PROVE ~(e.prio < g.active.prio)
      BY DEF Preempts
    <3>1. e.prio \in Nat /\ n.prio \in Nat
      BY <2>2, <2>3, FileAssumption DEF Entry
    <3> QED BY <2>3, <3>1 DEF Before
  <2> QED BY <2>1, <2>2, <2>4 DEF Entries
<1> QED BY <1>1, <1>2

LEMMA AdvancesLeave ==
  ASSUME NEW f, FileOK(f), NEW q \in SUBSET Entry, NEW cf, NEW s, NEW g \in Advances(q, s),
         \A e \in q : \E o \in Entries(f) : e.task = o.task /\ e.prio = o.prio
  PROVE  Leaves(f, g, cf)
<1>1. ~Preempts(g)
  BY AdvancesAsk
<1>2. \A e \in Entries(g) : \E o \in Entries(f) : e.task = o.task /\ e.prio = o.prio
  BY AdvancesAsk
<1> QED BY <1>1, <1>2 DEF Leaves, UpToDate, Current, InFile, Asks

(* The active entry remains, with fewer behind it.                          *)
LEMMA FewerLeave ==
  ASSUME NEW f, NEW g, NEW cf,
         \A e \in Entries(g) : \E o \in Entries(f) : e.task = o.task /\ e.prio = o.prio,
         \A e \in g.queue : \E o \in f.queue : e.prio = o.prio,
         g.active # NoEntry => /\ f.active # NoEntry /\ g.active.prio = f.active.prio
                               /\ g.active.draining = f.active.draining
  PROVE  Leaves(f, g, cf)
BY DEF Leaves, UpToDate, Current, InFile, Asks, Preempts

LEMMA CountedPrio ==
  ASSUME NEW e \in Entry, NEW ids
  PROVE  Counted(e, ids).task = e.task /\ Counted(e, ids).prio = e.prio
         /\ Counted(e, ids).draining = e.draining
BY DEF Counted, Entry

LEMMA RemovedLeaves ==
  ASSUME NEW f, FileOK(f), NEW t, NEW s, NEW cf, NEW g \in Removed(f, t, s)
  PROVE  Leaves(f, g, cf)
<1>1. Without(f.queue, t) \in SUBSET Entry /\ Without(f.queue, t) \subseteq f.queue
      /\ f.queue \subseteq Entries(f)
  BY DEF FileOK, File, Without, Entries
<1>2. CASE IsActive(f, t)
  <2>1. g \in Advances(Without(f.queue, t), s)
    BY <1>2 DEF Removed
  <2> QED BY <1>1, <2>1, AdvancesLeave
<1>3. CASE ~IsActive(f, t)
  <2>1. g.active = f.active /\ g.queue = Without(f.queue, t)
    BY <1>3 DEF Removed
  <2>2. Entries(g) \subseteq Entries(f)
    BY <1>1, <2>1 DEF Entries
  <2> QED BY <1>1, <2>1, <2>2, FewerLeave
<1> QED BY <1>2, <1>3

LEMMA MarkedLeaves ==
  ASSUME NEW f, FileOK(f), NEW t, NEW ids, NEW s, NEW cf, NEW g \in Marked(f, t, ids, s)
  PROVE  Leaves(f, g, cf)
<1>1. f.queue \in SUBSET Entry /\ f.queue \subseteq Entries(f)
  BY DEF FileOK, File, Entries
<1>2. CASE IsActive(f, t) /\ UsedUp(f.active, ids)
  <2>1. g \in Advances(f.queue, s)
    BY <1>2 DEF Marked
  <2> QED BY <1>1, <2>1, AdvancesLeave
<1>3. CASE IsActive(f, t) /\ ~UsedUp(f.active, ids)
  <2>1. g.active = Counted(f.active, ids) /\ g.queue = f.queue
    BY <1>3 DEF Marked
  <2>2. f.active \in Entry /\ f.active \in Entries(f) /\ f.active # NoEntry
    BY <1>3 DEF IsActive, Entries, FileOK, File
  <2>3. g.active.task = f.active.task /\ g.active.prio = f.active.prio
        /\ g.active.draining = f.active.draining
    BY <2>1, <2>2, CountedPrio
  <2>4. \A e \in Entries(g) : \E o \in Entries(f) : e.task = o.task /\ e.prio = o.prio
    BY <1>1, <2>1, <2>2, <2>3 DEF Entries
  <2> QED BY <2>1, <2>2, <2>3, <2>4, FewerLeave
<1>4. CASE ~IsActive(f, t)
  <2>1. g.active = f.active
        /\ g.queue = {IF e.task = t THEN Counted(e, ids) ELSE e :
                        e \in {o \in f.queue : o.task # t \/ ~UsedUp(o, ids)}}
    BY <1>4 DEF Marked
  <2>2. \A e \in g.queue : \E o \in f.queue : e.task = o.task /\ e.prio = o.prio
    BY <1>1, <2>1, CountedPrio
  <2>3. \A e \in Entries(g) : \E o \in Entries(f) : e.task = o.task /\ e.prio = o.prio
    BY <1>1, <2>1, <2>2 DEF Entries
  <2> QED BY <2>1, <2>2, <2>3, FewerLeave
<1> QED BY <1>2, <1>3, <1>4

LEMMA DrainedLeaves ==
  ASSUME NEW f, FileOK(f), f.active # NoEntry, NEW s, NEW cf, NEW g \in Drained(f, s)
  PROVE  Leaves(f, g, cf)
<1>1. PICK at \in LastPlaces(f.queue) :
        g \in Advances(f.queue \cup {Preempted(f.active, at)}, s)
  BY DEF Drained
<1>2. f.active \in Entry /\ f.queue \in SUBSET Entry /\ at \in 1..MaxRank
      /\ f.queue \subseteq Entries(f) /\ f.active \in Entries(f)
  BY DEF FileOK, File, LastPlaces, Entries
<1> DEFINE o == Preempted(f.active, at)
<1>3. o \in Entry /\ o.task = f.active.task /\ o.prio = f.active.prio
  BY <1>2, PreemptedType DEF Preempted, Entry
<1> HIDE DEF o
<1>4. f.queue \cup {o} \in SUBSET Entry
  BY <1>2, <1>3
<1>5. \A e \in f.queue \cup {o} : \E x \in Entries(f) : e.task = x.task /\ e.prio = x.prio
  BY <1>2, <1>3
<1>6. g \in Advances(f.queue \cup {o}, s)
  BY <1>1 DEF o
<1> QED BY <1>4, <1>5, <1>6, AdvancesLeave

LEMMA SoftPreemptAsks ==
  ASSUME NEW f, FileOK(f), NEW cf
  PROVE  /\ Asks(SoftPreempt(f)) /\ (UpToDate(f, cf) => UpToDate(SoftPreempt(f), cf))
         /\ \A t : InFile(SoftPreempt(f), t) => InFile(f, t)
<1>1. CASE ~Preempts(f)
  BY <1>1 DEF SoftPreempt, Asks
<1>2. CASE Preempts(f)
  <2>1. SoftPreempt(f) = [active |-> Drain(f.active), queue |-> f.queue]
    BY <1>2 DEF SoftPreempt
  <2>2. f.active \in Entry /\ f.active \in Entries(f)
    BY <1>2 DEF Preempts, FileOK, File, Entries
  <2>3. Drain(f.active).task = f.active.task /\ Drain(f.active).prio = f.active.prio
        /\ Drain(f.active).draining
    BY <2>2 DEF Drain, Entry
  <2>4. PICK g : g = SoftPreempt(f)
    OBVIOUS
  <2>5. g.active = Drain(f.active) /\ g.queue = f.queue
    BY <2>1, <2>4
  <2>6. \A e \in Entries(g) : \E o \in Entries(f) : e.task = o.task /\ e.prio = o.prio
    BY <2>2, <2>3, <2>5 DEF Entries
  <2>7. Asks(g)
    BY <2>3, <2>5 DEF Asks
  <2> QED BY <2>4, <2>6, <2>7 DEF UpToDate, Current, InFile
<1> QED BY <1>1, <1>2

(* A task that is registered with the priority of its configuration.        *)
LEMMA StartedAsks ==
  ASSUME NEW f, FileOK(f), NEW t \in Tasks, NEW n \in Nat \ {0}, NEW cf, cf[t] \in Prios,
         Starts(f, t), UpToDate(f, cf), NEW g, g = Started(f, t, n, cf[t])
  PROVE  UpToDate(g, cf) /\ (Asks(f) => Asks(g)) /\ \A u : InFile(g, u) => InFile(f, u) \/ u = t
<1>1. CASE f.active = NoEntry
  <2>1. g.active = BuildEntry(t, n, cf[t], 0) /\ g.queue = f.queue /\ f.queue = {}
    BY <1>1 DEF Started, FileOK
  <2>2. g.active.task = t /\ g.active.prio = cf[t]
    BY <2>1 DEF BuildEntry
  <2> QED BY <2>1, <2>2 DEF UpToDate, Current, Asks, Preempts, InFile, Entries
<1>2. CASE f.active # NoEntry
  <2>1. g.active = AddRuns(f.active, n, cf[t]) /\ g.queue = f.queue
    BY <1>2 DEF Started
  <2>2. f.active \in Entry /\ f.active \in Entries(f) /\ f.active.task = t
    BY <1>2 DEF FileOK, File, Entries, Starts
  <2>3. f.active.prio = cf[t]
    BY <2>2 DEF UpToDate, Current
  <2>4. g.active.task = t /\ g.active.prio = cf[t] /\ g.active.draining = f.active.draining
    BY <2>1, <2>2 DEF AddRuns, Entry
  <2>5. \A e \in Entries(g) : \E o \in Entries(f) : e.task = o.task /\ e.prio = o.prio
    BY <2>1, <2>2, <2>3, <2>4 DEF Entries
  <2>6. Leaves(f, g, cf)
    BY <1>2, <2>1, <2>3, <2>4, <2>5, FewerLeave
  <2> QED BY <2>6 DEF Leaves
<1> QED BY <1>1, <1>2

LEMMA QueuedUpToDate ==
  ASSUME NEW f, FileOK(f), NEW t \in Tasks, NEW n \in Nat \ {0}, NEW cf, cf[t] \in Prios,
         UpToDate(f, cf), NEW g \in Queued(f, t, n, cf[t])
  PROVE  UpToDate(g, cf) /\ \A u : InFile(g, u) => InFile(f, u) \/ u = t
<1>1. PICK q \in Enqueued(f.queue, t, n, cf[t]) : g.active = f.active /\ g.queue = q
  BY DEF Queued
<1>2. \A e \in f.queue : e \in Entry
  BY DEF FileOK, File
<1>3. ASSUME NEW e \in q
      PROVE  e \in f.queue \/ (e.task = t /\ e.prio = cf[t])
  <2>1. CASE \E o \in f.queue : o.task = t
    <3>1. q = {IF o.task = t THEN AddRuns(o, n, cf[t]) ELSE o : o \in f.queue}
      BY <2>1 DEF Enqueued
    <3> QED BY <1>2, <3>1 DEF AddRuns, Entry
  <2>2. CASE ~\E o \in f.queue : o.task = t
    <3>1. PICK at \in LastPlaces(f.queue) : q = f.queue \cup {BuildEntry(t, n, cf[t], at)}
      BY <2>2 DEF Enqueued
    <3> QED BY <3>1 DEF BuildEntry
  <2> QED BY <2>1, <2>2
<1>4. \A e \in Entries(g) : e \in Entries(f) \/ (e.task = t /\ e.prio = cf[t])
  BY <1>1, <1>3 DEF Entries
<1> QED BY <1>4 DEF UpToDate, Current, InFile


(* The invariant.  The two halves of a priority command are one step to it. *)
Configured(f, cf) == \A e \in Entries(f) : cf[e.task] \in Prios
Loaded(c, cf) == c.op \in {"submit", "resume"} /\ c.pc \in {"pause", "register"}
                 => cf[c.task] = c.prio /\ c.prio \in Prios
Removes(c, f) == c.pc \in {"erase_files", "erase_runs"} \/ (c.op = "delete" /\ c.pc = "hand_over")
                 => ~InFile(f, c.task)

PHolds == /\ Configured(file, config)
          /\ \A p \in Procs : Loaded(cmd[p], config) /\ Removes(cmd[p], file)
          /\ "abort" \notin faults /\ ~Saving => Asks(Refresh(file, config))

PInv == overlap = {} => PHolds

(* A file that an operation leaves, of a command on the tasks ts.           *)
LeftBy(ts, f, g, cf) == /\ UpToDate(g, cf)
                        /\ \A t : InFile(g, t) => InFile(f, t) \/ (t \in ts /\ cf[t] \in Prios)
                        /\ Asks(Refresh(f, cf)) => Asks(g)

(* The commands P step, on the tasks ts.                                    *)
Proceed(P, ts) ==
    /\ UNCHANGED config /\ faults \subseteq faults'
    /\ file' = file \/ LeftBy(ts, file, file', config)
    /\ \A q \in Procs \ P : cmd'[q] = cmd[q] /\ cmd[q].task \notin ts
    /\ \A q \in P : Loaded(cmd'[q], config) /\ Removes(cmd'[q], file')
    /\ \A q \in P : cmd[q].pc = "refresh" =>
         "abort" \in faults' \/ (UpToDate(file', config) /\ Asks(file'))

LEMMA PrioritiesKept ==
  ASSUME PHolds, QInv', NEW P \in SUBSET Procs, NEW ts, Proceed(P, ts)
  PROVE  PHolds'
<1>0. /\ config' = config /\ faults \subseteq faults'
      /\ file' = file \/ LeftBy(ts, file, file', config)
      /\ \A q \in Procs \ P : cmd'[q] = cmd[q] /\ cmd[q].task \notin ts
      /\ \A q \in P : Loaded(cmd'[q], config) /\ Removes(cmd'[q], file')
      /\ \A q \in P : cmd[q].pc = "refresh" =>
           "abort" \in faults' \/ (UpToDate(file', config) /\ Asks(file'))
  BY DEF Proceed
<1>1. FileOK(file')
  BY DEF QInv, Core
<1>2. \A t : InFile(file', t) => InFile(file, t) \/ (t \in ts /\ config[t] \in Prios)
  BY <1>0 DEF LeftBy
<1>3. Configured(file', config)
  BY <1>0, <1>2 DEF PHolds, Configured, InFile
<1>4. ASSUME NEW q \in Procs PROVE Loaded(cmd'[q], config) /\ Removes(cmd'[q], file')
  <2>1. CASE q \in P
    BY <1>0, <2>1
  <2>2. CASE q \notin P
    <3>1. cmd'[q] = cmd[q] /\ cmd[q].task \notin ts
      BY <1>0, <2>2
    <3>2. Loaded(cmd[q], config) /\ Removes(cmd[q], file)
      BY DEF PHolds
    <3>3. InFile(file', cmd[q].task) => InFile(file, cmd[q].task)
      BY <1>2, <3>1
    <3>4. Removes(cmd[q], file')
      BY <3>2, <3>3 DEF Removes
    <3> QED BY <3>1, <3>2, <3>4
  <2> QED BY <2>1, <2>2
<1>5. ASSUME UpToDate(file', config), Asks(file') PROVE Asks(Refresh(file', config))
  BY <1>1, <1>5, RefreshSame
<1>6. ASSUME "abort" \notin faults', ~Saving' PROVE Asks(Refresh(file', config))
  <2>1. CASE \E q \in P : cmd[q].pc = "refresh"
    <3>1. UpToDate(file', config) /\ Asks(file')
      BY <1>0, <1>6, <2>1
    <3> QED BY <1>5, <3>1
  <2>2. CASE ~\E q \in P : cmd[q].pc = "refresh"
    <3>1. ~Saving
      BY <1>0, <1>6, <2>2 DEF Saving, At
    <3>2. Asks(Refresh(file, config))
      BY <1>0, <1>6, <3>1 DEF PHolds
    <3> QED BY <1>0, <1>5, <3>2 DEF LeftBy
  <2> QED BY <2>1, <2>2
<1> QED BY <1>0, <1>3, <1>4, <1>6 DEF PHolds

(* Two commands do not work on one task.                                    *)
LEMMA NotShared ==
  ASSUME RInv, overlap = {}, NEW p \in Procs, NEW q \in Procs, p # q, NEW t \in Tasks, cmd[p].task = t
  PROVE  cmd[q].task # t
<1> SUFFICES ASSUME cmd[q].task = t PROVE FALSE
  OBVIOUS
<1>1. t \in Touches(cmd[p]) /\ t \in Touches(cmd[q])
  BY ProcAssumption DEF Touches
<1>2. t \in Overlapping(cmd)
  BY <1>1 DEF Overlapping
<1> QED BY <1>2 DEF RInv, Alone

LEMMA PrioritiesStep ==
  ASSUME RInv, overlap = {}, PHolds, QInv', UNCHANGED config, faults \subseteq faults',
         NEW p \in Procs, NEW k, cmd' = [cmd EXCEPT ![p] = k],
         NEW ts \in SUBSET ({cmd[p].task} \cap Tasks),
         file' = file \/ LeftBy(ts, file, file', config),
         Loaded(k, config), Removes(k, file'),
         cmd[p].pc = "refresh" => "abort" \in faults' \/ (UpToDate(file', config) /\ Asks(file'))
  PROVE  PHolds'
<1>1. cmd'[p] = k /\ \A q \in Procs \ {p} : cmd'[q] = cmd[q]
  BY RInvParts
<1>2. \A q \in Procs \ {p} : cmd[q].task \notin ts
  BY NotShared
<1>3. /\ Loaded(cmd'[p], config) /\ Removes(cmd'[p], file')
      /\ cmd[p].pc = "refresh" => "abort" \in faults' \/ (UpToDate(file', config) /\ Asks(file'))
  BY <1>1
<1>4. /\ config' = config /\ faults \subseteq faults'
      /\ file' = file \/ LeftBy(ts, file, file', config)
  OBVIOUS
<1>5. Proceed({p}, ts)
  BY <1>1, <1>2, <1>3, <1>4 DEF Proceed
<1> QED BY <1>5, PrioritiesKept

(* The file is left as it is.                                               *)
LEMMA PrioritiesQuiet ==
  ASSUME RInv, overlap = {}, PHolds, QInv', UNCHANGED <<file, config>>, faults \subseteq faults',
         NEW p \in Procs, NEW k, cmd' = [cmd EXCEPT ![p] = k], Loaded(k, config), Removes(k, file),
         cmd[p].pc = "refresh" => "abort" \in faults'
  PROVE  PHolds'
<1>1. {} \in SUBSET ({cmd[p].task} \cap Tasks)
  OBVIOUS
<1> QED BY <1>1, PrioritiesStep

LEMMA PrioritiesAirflow ==
  ASSUME PHolds, QInv', UNCHANGED <<config, cmd, faults>>,
         file' = file \/ LeftBy({}, file, file', config)
  PROVE  PHolds'
<1>1. Proceed({}, {})
  BY DEF Proceed
<1> QED BY <1>1, PrioritiesKept

(* From the refreshed file to the one that is written.                      *)
LEMMA LeavesLeft ==
  ASSUME FileOK(file), NEW f, f = Refresh(file, config), NEW g, Leaves(f, g, config)
  PROVE  LeftBy({}, file, g, config)
<1>1. UpToDate(f, config) /\ \A t : InFile(f, t) <=> InFile(file, t)
  BY RefreshUpToDate
<1> QED BY <1>1 DEF Leaves, LeftBy

LEMMA EmptyLeft == /\ \A cf : UpToDate(Empty, cf)
                   /\ Asks(Empty)
                   /\ \A f, cf : LeftBy({}, f, Empty, cf)
<1>1. Entries(Empty) = {} /\ Empty.active = NoEntry
  BY DEF Empty, Entries
<1>2. (\A t : ~InFile(Empty, t)) /\ ~Preempts(Empty)
  BY <1>1 DEF InFile, Preempts
<1> QED BY <1>1, <1>2 DEF UpToDate, Asks, LeftBy

LEMMA IdleLoads == \A f, cf : Loaded(Idle, cf) /\ Removes(Idle, f)
BY DEF Loaded, Removes, Idle

(* One configuration changes, of a task that no other command has loaded.   *)
Reconfigured(p, k, t, n) ==
    /\ UNCHANGED <<file, faults>> /\ cmd' = [cmd EXCEPT ![p] = k] /\ config' = [config EXCEPT ![t] = n]
    /\ Loaded(k, config') /\ Removes(k, file)
    /\ \A q \in Procs \ {p} : cmd[q].task = t => cmd[q].pc \notin {"pause", "register"}
                                                 \/ cmd[q].op \notin {"submit", "resume"}
    /\ n \in Prios \/ ~InFile(file, t)
    /\ Saving' \/ (~InFile(file, t) /\ cmd[p].pc # "refresh")

LEMMA PrioritiesConfig ==
  ASSUME RInv, PHolds, NEW p \in Procs, NEW k, NEW t \in Tasks, NEW n, Reconfigured(p, k, t, n)
  PROVE  PHolds'
<1>0. /\ UNCHANGED <<file, faults>> /\ cmd' = [cmd EXCEPT ![p] = k] /\ config' = [config EXCEPT ![t] = n]
      /\ Loaded(k, config') /\ Removes(k, file)
      /\ \A q \in Procs \ {p} : cmd[q].task = t => cmd[q].pc \notin {"pause", "register"}
                                                   \/ cmd[q].op \notin {"submit", "resume"}
      /\ n \in Prios \/ ~InFile(file, t)
      /\ Saving' \/ (~InFile(file, t) /\ cmd[p].pc # "refresh")
  BY DEF Reconfigured
<1>1. /\ FileOK(file) /\ cmd \in [Procs -> Command]
      /\ config \in [Tasks -> Prios \cup {NotYet, Gone}]
  BY RInvParts DEF RInv, QInv, Core, DataOK
<1>2. config'[t] = n /\ \A u \in Tasks \ {t} : config'[u] = config[u]
  BY <1>0, <1>1
<1>3. cmd'[p] = k /\ \A q \in Procs \ {p} : cmd'[q] = cmd[q]
  BY <1>0, <1>1
<1>4. \A e \in Entries(file) : e.task \in Tasks
  BY <1>1, EntriesType
<1>5. ASSUME NEW e \in Entries(file) PROVE config'[e.task] \in Prios
  <2>1. config[e.task] \in Prios
    BY DEF PHolds, Configured
  <2> QED BY <1>0, <1>2, <1>4, <2>1 DEF InFile
<1>6. ASSUME NEW q \in Procs PROVE Loaded(cmd'[q], config') /\ Removes(cmd'[q], file)
  <2>1. CASE q = p
    BY <1>0, <1>3, <2>1
  <2>2. CASE q # p
    <3>1. cmd'[q] = cmd[q] /\ Loaded(cmd[q], config) /\ Removes(cmd[q], file)
      BY <1>3, <2>2 DEF PHolds
    <3>2. ASSUME cmd[q].op \in {"submit", "resume"}, cmd[q].pc \in {"pause", "register"}
          PROVE  config'[cmd[q].task] = cmd[q].prio /\ cmd[q].prio \in Prios
      <4>1. config[cmd[q].task] = cmd[q].prio /\ cmd[q].prio \in Prios
        BY <3>1, <3>2 DEF Loaded
      <4>2. Shape(cmd[q])
        BY RInvParts
      <4>3. cmd[q].task \in Tasks
        BY <3>2, <4>2 DEF Shape, Registering, Stopping, Other, Idle
      <4>4. cmd[q].task # t
        BY <1>0, <2>2, <3>2
      <4> QED BY <1>2, <4>1, <4>3, <4>4
    <3>3. Loaded(cmd[q], config')
      BY <3>2 DEF Loaded
    <3> QED BY <3>1, <3>3
  <2> QED BY <2>1, <2>2
<1>7. ASSUME ~Saving', "abort" \notin faults PROVE Asks(Refresh(file, config'))
  <2>1. ~InFile(file, t) /\ cmd[p].pc # "refresh"
    BY <1>0, <1>7
  <2>2. ~Saving
    <3>1. ASSUME NEW q \in Procs, cmd[q].pc = "refresh" PROVE cmd'[q].pc = "refresh"
      BY <1>3, <2>1, <3>1
    <3> QED BY <1>7, <3>1 DEF Saving, At
  <2>3. \A e \in Entries(file) : config'[e.task] = config[e.task]
    BY <1>2, <1>4, <2>1 DEF InFile
  <2>4. \A e \in Entries(file) : RefreshEntry(e, config') = RefreshEntry(e, config)
    BY <2>3 DEF RefreshEntry
  <2>5. file.queue \subseteq Entries(file) /\ (file.active # NoEntry => file.active \in Entries(file))
    BY DEF Entries
  <2>6. {RefreshEntry(e, config') : e \in file.queue} = {RefreshEntry(e, config) : e \in file.queue}
    BY <2>4, <2>5
  <2>7. Refresh(file, config') = Refresh(file, config)
    BY <2>4, <2>5, <2>6 DEF Refresh
  <2> QED BY <1>0, <1>7, <2>2, <2>7 DEF PHolds
<1>8. Configured(file, config')
  BY <1>5 DEF Configured
<1> QED BY <1>0, <1>6, <1>7, <1>8 DEF PHolds

(* The beginning of a command.                                              *)
LEMMA PrioritiesOfStart ==
  ASSUME RInv, PHolds, overlap = {}, RInv', overlap' = {}, NEW p \in Procs, Start(p)
  PROVE  PHolds'
<1>0. /\ cmd[p] = Idle /\ UNCHANGED <<file, faults>> /\ Idle.pc = "idle" /\ FileOK(file) /\ QInv'
      /\ cmd \in [Procs -> Command]
  <2>1. cmd[p] = Idle /\ UNCHANGED <<file, faults>>
    BY DEF Start, CanBegin, Begin, Submit, SetTaskPriority, Resume, StopDatasets, Stop, Delete,
           RestartCleanup
  <2>2. Idle.pc = "idle"
    BY DEF Idle
  <2> QED BY <2>1, <2>2, RInvParts DEF RInv
<1>1. ASSUME NEW k, cmd' = [cmd EXCEPT ![p] = k], UNCHANGED config, Loaded(k, config),
             k.pc \notin {"hand_over", "erase_files", "erase_runs"}
      PROVE  PHolds'
  <2>1. Removes(k, file)
    BY <1>1 DEF Removes
  <2> QED BY <1>0, <1>1, <2>1, PrioritiesQuiet
<1>2. ASSUME NEW t \in Tasks, NEW n \in Prios, Submit(p, t, n) PROVE PHolds'
  <2>1. PICK k : k = [Call("submit", "pause", t) EXCEPT !.ds = DatasetsOf[t], !.prio = n]
    OBVIOUS
  <2>2. k.op = "submit" /\ k.pc = "pause" /\ k.task = t /\ k.prio = n
    BY <2>1 DEF Call, Idle
  <2>3. /\ config[t] = NotYet /\ config' = [config EXCEPT ![t] = n]
        /\ cmd' = [cmd EXCEPT ![p] = k]
    BY <1>2, <2>1 DEF Submit, Begin
  <2>4. config[t] \notin Prios /\ config'[t] = n
    BY <2>3, FileAssumption DEF RInv, QInv, Core, DataOK
  <2>5. ~InFile(file, t)
    BY <2>4 DEF PHolds, Configured, InFile
  <2>6. \A q \in Procs : cmd[q].task = t => cmd[q].pc \notin {"pause", "register"}
                                            \/ cmd[q].op \notin {"submit", "resume"}
    BY <2>4 DEF PHolds, Loaded
  <2>7. Loaded(k, config') /\ Removes(k, file)
    BY <2>2, <2>4 DEF Loaded, Removes
  <2>8. Reconfigured(p, k, t, n)
    BY <1>0, <2>3, <2>5, <2>6, <2>7 DEF Reconfigured
  <2> QED BY <2>8, PrioritiesConfig
<1>3. ASSUME NEW t \in Tasks, NEW n \in Prios, SetTaskPriority(p, t, n) PROVE PHolds'
  <2>1. PICK k : k = Call("priority", "refresh", t)
    OBVIOUS
  <2>2. k.op = "priority" /\ k.pc = "refresh" /\ k.task = t
    BY <2>1 DEF Call, Idle
  <2>3. config' = [config EXCEPT ![t] = n] /\ cmd' = [cmd EXCEPT ![p] = k]
    BY <1>3, <2>1 DEF SetTaskPriority, Begin
  <2>4. cmd'[p] = k /\ Saving' /\ \A q \in Procs \ {p} : cmd'[q] = cmd[q]
    BY <1>0, <2>2, <2>3 DEF Saving, At
  <2>5. ASSUME NEW q \in Procs \ {p}, cmd[q].task = t PROVE FALSE
    <3>1. t \in Touches(k) /\ t \in Touches(cmd[q])
      BY <2>2, <2>5, ProcAssumption DEF Touches
    <3>2. t \in Overlapping(cmd')
      BY <2>4, <3>1 DEF Overlapping
    <3> QED BY <3>2 DEF RInv, Alone
  <2>6. Loaded(k, config') /\ Removes(k, file)
    BY <2>2 DEF Loaded, Removes
  <2>7. Reconfigured(p, k, t, n)
    BY <1>0, <2>3, <2>4, <2>5, <2>6 DEF Reconfigured
  <2> QED BY <2>7, PrioritiesConfig
<1>4. ASSUME NEW t \in Tasks, NEW ds \in SUBSET Datasets, Resume(p, t, ds) \/ StopDatasets(p, t, ds)
      PROVE  PHolds'
  <2>1. CASE Resume(p, t, ds)
    <3>1. PICK k : k = [Call("resume", "pause", t) EXCEPT !.ds = ds, !.prio = config[t]]
      OBVIOUS
    <3>2. cmd' = [cmd EXCEPT ![p] = k] /\ UNCHANGED config /\ config[t] \in Prios
      BY <2>1, <3>1 DEF Resume, Begin
    <3>3. k.pc = "pause" /\ k.task = t /\ k.prio = config[t]
      BY <3>1 DEF Call, Idle
    <3> QED BY <1>1, <3>2, <3>3 DEF Loaded
  <2>2. CASE StopDatasets(p, t, ds)
    <3>1. PICK k : k = [Call("stop_datasets", "list", t) EXCEPT !.ds = ds]
      OBVIOUS
    <3>2. cmd' = [cmd EXCEPT ![p] = k] /\ UNCHANGED config
      BY <2>2, <3>1 DEF StopDatasets, Begin
    <3>3. k.pc = "list"
      BY <3>1 DEF Call, Idle
    <3> QED BY <1>1, <3>2, <3>3 DEF Loaded
  <2> QED BY <1>4, <2>1, <2>2
<1>5. ASSUME NEW t \in Tasks, Stop(p, t) \/ Delete(p, t) PROVE PHolds'
  <2>1. PICK op \in {"stop", "delete"} :
          /\ cmd' = [cmd EXCEPT ![p] = [Call(op, "pause", t) EXCEPT !.ds = DatasetsOf[t]]]
          /\ UNCHANGED config
    BY <1>5 DEF Stop, Delete, Begin
  <2>2. PICK k : k = [Call(op, "pause", t) EXCEPT !.ds = DatasetsOf[t]]
    OBVIOUS
  <2>3. k.pc = "pause" /\ k.op = op
    BY <2>2 DEF Call, Idle
  <2> QED BY <1>1, <2>1, <2>2, <2>3 DEF Loaded
<1>6. ASSUME RestartCleanup(p) PROVE PHolds'
  <2>1. PICK k : k = Call("cleanup", "airflow", NoTask)
    OBVIOUS
  <2>2. cmd' = [cmd EXCEPT ![p] = k] /\ UNCHANGED config
    BY <1>6, <2>1 DEF RestartCleanup, Begin
  <2>3. k.pc = "airflow"
    BY <2>1 DEF Call, Idle
  <2> QED BY <1>1, <2>2, <2>3 DEF Loaded
<1> QED BY <1>2, <1>3, <1>4, <1>5, <1>6 DEF Start

(* A command goes on without the queue file.                                *)
Follows(c, k) ==
    /\ k.pc \in {"pause", "register"} => c.pc = "pause" /\ k.op = c.op /\ k.task = c.task /\ k.prio = c.prio
    /\ k.pc \in {"hand_over", "erase_files"} => c.pc = "hand_over" /\ k.op = c.op /\ k.task = c.task
    /\ k.pc = "erase_files" => k.op = "delete"
    /\ k.pc # "erase_runs"

LEMMA PrioritiesGoOn ==
  ASSUME RInv, overlap = {}, PHolds, QInv', UNCHANGED <<file, config>>, faults \subseteq faults',
         NEW p \in Procs, NEW k, cmd' = [cmd EXCEPT ![p] = k], Follows(cmd[p], k),
         cmd[p].pc = "refresh" => "abort" \in faults'
  PROVE  PHolds'
<1>1. Loaded(cmd[p], config) /\ Removes(cmd[p], file)
  BY DEF PHolds
<1>2. Loaded(k, config)
  BY <1>1 DEF Loaded, Follows
<1>3. Removes(k, file)
  BY <1>1 DEF Removes, Follows
<1> QED BY <1>2, <1>3, PrioritiesQuiet

LEMMA GoesOn ==
  ASSUME NEW c \in Command, NEW k, NEW pc, k = [c EXCEPT !.pc = pc],
         pc \in {"register", "list"} => c.pc = "pause", pc \notin {"pause", "hand_over", "erase_files", "erase_runs"}
  PROVE  Follows(c, k)
<1>1. k.pc = pc /\ k.op = c.op /\ k.task = c.task /\ k.prio = c.prio
  BY DEF Command
<1> QED BY <1>1 DEF Follows

LEMMA EndFollows ==
  /\ \A c : Follows(c, Idle)
  /\ \A c \in Command : c.pc = "hand_over" => Follows(c, AfterQueue([c EXCEPT !.next = NoTask]))
<1>1. Idle.pc = "idle"
  BY DEF Idle
<1>2. \A c : Follows(c, Idle)
  BY <1>1 DEF Follows
<1>3. ASSUME NEW c \in Command, c.pc = "hand_over"
      PROVE  Follows(c, AfterQueue([c EXCEPT !.next = NoTask]))
  <2>1. PICK b : b = [c EXCEPT !.next = NoTask]
    OBVIOUS
  <2>2. b.op = c.op /\ b.task = c.task /\ b.pc = c.pc /\ b \in [DOMAIN c -> {b[x] : x \in DOMAIN c}]
        /\ DOMAIN b = DOMAIN c
    BY <2>1 DEF Command
  <2>3. CASE b.op = "delete"
    <3>1. PICK k : k = [b EXCEPT !.pc = "erase_files"]
      OBVIOUS
    <3>2. k.pc = "erase_files" /\ k.op = c.op /\ k.task = c.task
      BY <2>1, <2>2, <3>1 DEF Command
    <3>3. AfterQueue(b) = k
      BY <2>3, <3>1 DEF AfterQueue
    <3> QED BY <1>3, <2>1, <2>2, <2>3, <3>2, <3>3 DEF Follows
  <2>4. CASE b.op # "delete"
    BY <1>2, <2>1, <2>4 DEF AfterQueue
  <2> QED BY <2>3, <2>4
<1> QED BY <1>2, <1>3

(* The steps between the sections on the queue file.                        *)
LEMMA PrioritiesOfOthers ==
  ASSUME RInv, overlap = {}, PHolds, QInv', NEW p \in Procs,
         \/ PauseDag(p) \/ UnpauseStarted(p) \/ UnpauseNext(p) \/ ListRuns(p)
         \/ \E d \in Datasets : TriggerRun(p, d) \/ TriggerNext(p, d)
         \/ \E r \in RunIds : FailRun(p, r)
         \/ EraseRuns(p) \/ FailAllRuns(p)
         \/ Abort(p) \/ PauseFails(p) \/ UnpauseFails(p) \/ CleanupWithoutAirflow(p)
  PROVE  PHolds'
<1>0. PICK c \in Command : c = cmd[p]
  BY RInvParts
<1>1. ASSUME NEW pc, Goto(p, pc), UNCHANGED <<file, config>>, faults \subseteq faults',
             pc \in {"register", "list"} => c.pc = "pause",
             pc \notin {"pause", "hand_over", "erase_files", "erase_runs"}, c.pc # "refresh"
      PROVE  PHolds'
  <2>1. PICK k : k = [c EXCEPT !.pc = pc]
    OBVIOUS
  <2>2. Follows(c, k) /\ cmd' = [cmd EXCEPT ![p] = k]
    BY <1>0, <1>1, <2>1, GoesOn DEF Goto
  <2> QED BY <1>0, <1>1, <2>2, PrioritiesGoOn
<1>2. ASSUME NEW k, cmd' = [cmd EXCEPT ![p] = k], Follows(c, k), UNCHANGED <<file, config>>,
             faults \subseteq faults', c.pc = "refresh" => "abort" \in faults'
      PROVE  PHolds'
  BY <1>0, <1>2, PrioritiesGoOn
<1>3. CASE PauseDag(p) \/ PauseFails(p)
  <2>1. /\ c.pc = "pause" /\ UNCHANGED <<file, config>> /\ faults \subseteq faults'
        /\ \E pc \in {"register", "list"} : Goto(p, pc)
    BY <1>0, <1>3 DEF PauseDag, PauseFails, Fault, At
  <2> QED BY <1>1, <2>1
<1>4. CASE UnpauseStarted(p) \/ FailAllRuns(p) \/ CleanupWithoutAirflow(p)
  <2>1. /\ c.pc \in {"unpause", "airflow"} /\ UNCHANGED <<file, config>> /\ faults \subseteq faults'
        /\ \E pc \in {"trigger", "clear"} : Goto(p, pc)
    BY <1>0, <1>4 DEF UnpauseStarted, FailAllRuns, CleanupWithoutAirflow, Fault, At
  <2> QED BY <1>1, <2>1
<1>5. CASE UnpauseNext(p)
  BY <1>0, <1>2, <1>5, EndFollows DEF UnpauseNext, At
<1>6. CASE UnpauseFails(p)
  <2>1. UNCHANGED <<file, config>> /\ faults \subseteq faults'
    BY <1>6 DEF UnpauseFails, Fault
  <2>2. CASE At(p, "unpause") /\ Goto(p, "trigger")
    BY <1>0, <1>1, <2>1, <2>2 DEF At
  <2>3. CASE At(p, "hand_over")
             /\ cmd' = [cmd EXCEPT ![p] = AfterQueue([cmd[p] EXCEPT !.next = NoTask])]
    BY <1>0, <1>2, <2>1, <2>3, EndFollows DEF At
  <2> QED BY <1>6, <2>2, <2>3 DEF UnpauseFails
<1>7. CASE EraseRuns(p) \/ Abort(p)
  <2>1. /\ cmd' = [cmd EXCEPT ![p] = Idle] /\ UNCHANGED <<file, config>> /\ faults \subseteq faults'
        /\ c.pc = "refresh" => "abort" \in faults'
    BY <1>0, <1>7 DEF EraseRuns, Abort, Fault, At, End
  <2> QED BY <1>2, <2>1, EndFollows
<1>8. ASSUME NEW d \in Datasets, TriggerRun(p, d) PROVE PHolds'
  <2>1. PICK k : k = IF c.ds = {d} THEN Idle ELSE [c EXCEPT !.ds = @ \ {d}]
    OBVIOUS
  <2>2. /\ c.pc = "trigger" /\ cmd' = [cmd EXCEPT ![p] = k]
        /\ UNCHANGED <<file, config>> /\ faults \subseteq faults'
    BY <1>0, <1>8, <2>1 DEF TriggerRun, At
  <2>3. k = Idle \/ k.pc = "trigger"
    BY <2>1, <2>2 DEF Command
  <2>4. Follows(c, k)
    BY <2>3, EndFollows DEF Follows
  <2> QED BY <1>2, <2>2, <2>4
<1>9. ASSUME NEW d \in Datasets, TriggerNext(p, d) PROVE PHolds'
  <2>1. PICK k : k = [c EXCEPT !.ds = @ \ {d}]
    OBVIOUS
  <2>2. /\ c.pc = "hand_over" /\ cmd' = [cmd EXCEPT ![p] = k]
        /\ UNCHANGED <<file, config>> /\ faults \subseteq faults'
    BY <1>0, <1>9, <2>1 DEF TriggerNext, At
  <2>3. k.pc = "hand_over" /\ k.op = c.op /\ k.task = c.task
    BY <2>1, <2>2 DEF Command
  <2> QED BY <1>2, <2>2, <2>3 DEF Follows
<1>10. CASE ListRuns(p)
  <2>1. PICK ids : cmd' = [cmd EXCEPT ![p] = [c EXCEPT !.pc = "fail", !.ids = ids, !.left = ids,
                                                      !.ds = {}]]
    BY <1>0, <1>10 DEF ListRuns
  <2>2. PICK k : k = [c EXCEPT !.pc = "fail", !.ids = ids, !.left = ids, !.ds = {}]
    OBVIOUS
  <2>3. k.pc = "fail"
    BY <2>2 DEF Command
  <2>4. c.pc = "list" /\ UNCHANGED <<file, config>> /\ faults \subseteq faults'
    BY <1>0, <1>10 DEF ListRuns, At
  <2> QED BY <1>2, <2>1, <2>2, <2>3, <2>4 DEF Follows
<1>11. ASSUME NEW r \in RunIds, FailRun(p, r) PROVE PHolds'
  <2>1. PICK k : k = [c EXCEPT !.left = @ \ {r}]
    OBVIOUS
  <2>2. /\ c.pc = "fail" /\ cmd' = [cmd EXCEPT ![p] = k]
        /\ UNCHANGED <<file, config>> /\ faults \subseteq faults'
    BY <1>0, <1>11, <2>1 DEF FailRun, At
  <2>3. k.pc = "fail"
    BY <2>1, <2>2 DEF Command
  <2> QED BY <1>2, <2>2, <2>3 DEF Follows
<1> QED BY <1>3, <1>4, <1>5, <1>6, <1>7, <1>8, <1>9, <1>10, <1>11

(* The sections on the queue file.                                          *)
LEMMA PrioritiesOfRegisterStarts ==
  ASSUME RInv, overlap = {}, PHolds, QInv', NEW p \in Procs, RegisterStarts(p)
  PROVE  PHolds'
<1>1. PICK c, f, k : c = cmd[p] /\ f = Refresh(file, config) /\ k = [c EXCEPT !.pc = "unpause"]
  OBVIOUS
<1>2. /\ Starts(f, c.task) /\ file' = Started(f, c.task, Cardinality(c.ds), c.prio)
      /\ cmd' = [cmd EXCEPT ![p] = k] /\ UNCHANGED <<config, faults>> /\ At(p, "register")
  BY <1>1 DEF RegisterStarts, Goto
<1>3. /\ c \in Command /\ c.pc = "register" /\ c.op \in {"submit", "resume"} /\ c.task \in Tasks
      /\ c.prio \in Prios /\ Cardinality(c.ds) \in Nat \ {0}
  BY <1>1, <1>2, RegisterParts
<1>4. k.pc = "unpause"
  BY <1>1, <1>3 DEF Command
<1>5. config[c.task] = c.prio
  BY <1>1, <1>3 DEF PHolds, Loaded
<1>6. FileOK(file) /\ FileOK(f)
  BY <1>1, RInvParts
<1>7. UpToDate(f, config) /\ \A t : InFile(f, t) <=> InFile(file, t)
  BY <1>1, <1>6, RefreshUpToDate
<1>8. UpToDate(file', config) /\ (Asks(f) => Asks(file'))
      /\ \A u : InFile(file', u) => InFile(f, u) \/ u = c.task
  BY <1>2, <1>3, <1>5, <1>6, <1>7, StartedAsks
<1>9. LeftBy({c.task}, file, file', config)
  BY <1>1, <1>3, <1>5, <1>7, <1>8 DEF LeftBy
<1>10. Loaded(k, config) /\ Removes(k, file') /\ {c.task} \in SUBSET ({cmd[p].task} \cap Tasks)
  BY <1>1, <1>3, <1>4 DEF Loaded, Removes
<1> QED BY <1>1, <1>2, <1>3, <1>9, <1>10, PrioritiesStep

LEMMA PrioritiesOfRegisterQueues ==
  ASSUME RInv, overlap = {}, PHolds, QInv', NEW p \in Procs, RegisterQueues(p)
  PROVE  PHolds'
<1>1. PICK c, f, k : c = cmd[p] /\ f = Refresh(file, config) /\ k = [c EXCEPT !.pc = "trigger"]
  OBVIOUS
<1>2. At(p, "register") /\ ~Starts(f, c.task) /\ UNCHANGED <<config, faults>>
  BY <1>1 DEF RegisterQueues
<1>3. PICK g \in Queued(f, c.task, Cardinality(c.ds), c.prio) :
        \/ file' = file /\ cmd' = [cmd EXCEPT ![p] = Idle]
        \/ file' = SoftPreempt(g) /\ cmd' = [cmd EXCEPT ![p] = k]
  BY <1>1 DEF RegisterQueues, Goto, End
<1>4. /\ c \in Command /\ c.pc = "register" /\ c.op \in {"submit", "resume"} /\ c.task \in Tasks
      /\ c.prio \in Prios /\ Cardinality(c.ds) \in Nat \ {0}
  BY <1>1, <1>2, RegisterParts
<1>5. CASE file' = file /\ cmd' = [cmd EXCEPT ![p] = Idle]
  BY <1>1, <1>2, <1>4, <1>5, EndFollows, PrioritiesGoOn
<1>6. CASE file' = SoftPreempt(g) /\ cmd' = [cmd EXCEPT ![p] = k]
  <2>1. k.pc = "trigger"
    BY <1>1, <1>4 DEF Command
  <2>2. config[c.task] = c.prio
    BY <1>1, <1>4 DEF PHolds, Loaded
  <2>3. FileOK(file) /\ FileOK(f)
    BY <1>1, RInvParts
  <2>4. UpToDate(f, config) /\ \A t : InFile(f, t) <=> InFile(file, t)
    BY <1>1, <2>3, RefreshUpToDate
  <2>5. FileOK(g)
    BY <1>2, <1>4, <2>3, QueuedOK
  <2>6. UpToDate(g, config) /\ \A u : InFile(g, u) => InFile(f, u) \/ u = c.task
    BY <1>4, <2>2, <2>3, <2>4, QueuedUpToDate
  <2>7. /\ Asks(file') /\ UpToDate(file', config)
        /\ \A u : InFile(file', u) => InFile(f, u) \/ u = c.task
    BY <1>6, <2>5, <2>6, SoftPreemptAsks
  <2>8. LeftBy({c.task}, file, file', config)
    BY <1>4, <2>2, <2>4, <2>7 DEF LeftBy
  <2>9. Loaded(k, config) /\ Removes(k, file') /\ {c.task} \in SUBSET ({cmd[p].task} \cap Tasks)
    BY <1>1, <1>4, <2>1 DEF Loaded, Removes
  <2> QED BY <1>1, <1>2, <1>4, <1>6, <2>8, <2>9, PrioritiesStep
<1> QED BY <1>3, <1>5, <1>6

Same(c, k) == /\ k.op = c.op /\ k.task = c.task /\ k.pc # "erase_runs"
              /\ k.pc = "erase_files" => k.op = "delete"

LEMMA HandedOverOp ==
  ASSUME NEW c \in Command, c.op \notin {"submit", "resume"}, NEW f, NEW g,
         NEW k, k = HandedOver(c, f, g)
  PROVE  k = Idle \/ Same(c, k)
<1>1. PICK a, b : a = [c EXCEPT !.ids = {}]
                  /\ b = [c EXCEPT !.pc = "hand_over", !.next = g.active.task,
                                   !.ds = g.active.pending, !.ids = {}]
  OBVIOUS
<1>2. PICK e : e = [a EXCEPT !.pc = "erase_files"]
  OBVIOUS
<1>3. /\ b.op = c.op /\ b.task = c.task /\ b.pc = "hand_over"
      /\ e.op = c.op /\ e.task = c.task /\ e.pc = "erase_files" /\ a.op = c.op
  BY <1>1, <1>2 DEF Command
<1>4. AfterQueue(a) = Idle \/ (AfterQueue(a) = e /\ e.op = "delete")
  BY <1>2, <1>3 DEF AfterQueue
<1>5. k = b \/ k = AfterQueue(a)
  BY <1>1 DEF HandedOver
<1> QED BY <1>3, <1>4, <1>5 DEF Same

(* A stop or a deletion.                                                    *)
LEMMA PrioritiesOfSection ==
  ASSUME RInv, overlap = {}, PHolds, QInv', UNCHANGED config, faults \subseteq faults',
         NEW p \in Procs, NEW c \in Command, NEW k, cmd' = [cmd EXCEPT ![p] = k],
         c.op \notin {"submit", "resume"}, k = Idle \/ Same(c, k),
         Leaves(Refresh(file, config), file', config), cmd[p].pc # "refresh",
         c.op = "delete" => ~InFile(file', c.task)
  PROVE  PHolds'
<1>1. FileOK(file)
  BY RInvParts
<1>2. LeftBy({}, file, file', config)
  BY <1>1, LeavesLeft
<1>3. Loaded(k, config) /\ Removes(k, file')
  <2>1. CASE k = Idle
    BY <2>1, IdleLoads
  <2>2. CASE Same(c, k)
    BY <2>2 DEF Loaded, Removes, Same
  <2> QED BY <2>1, <2>2
<1>4. {} \in SUBSET ({cmd[p].task} \cap Tasks)
  OBVIOUS
<1> QED BY <1>2, <1>3, <1>4, PrioritiesStep

LEMMA PrioritiesOfRemove ==
  ASSUME RInv, overlap = {}, PHolds, QInv', NEW p \in Procs,
         RemoveFromQueue(p) \/ DeleteWithoutApi(p)
  PROVE  PHolds'
<1>1. PICK a, f : a = cmd[p] /\ f = Refresh(file, config)
  OBVIOUS
<1>2. FileOK(f) /\ a \in Command
  BY <1>1, RInvParts
<1>3. PICK c, s :
        /\ c = a \/ c = [a EXCEPT !.ds = {}]
        /\ a.op \in {"stop", "delete"} /\ a.pc \in {"fail", "list"}
        /\ UNCHANGED config /\ faults \subseteq faults'
        /\ \E g \in Removed(f, a.task, s) :
             file' = g /\ cmd' = [cmd EXCEPT ![p] = HandedOver(c, f, g)]
  <2>1. CASE RemoveFromQueue(p)
    <3>1. /\ a.op \in {"stop", "delete"} /\ a.pc = "fail" /\ UNCHANGED config /\ UNCHANGED faults
          /\ \E g \in Removed(f, a.task, Seen(runs)) :
               file' = g /\ cmd' = [cmd EXCEPT ![p] = HandedOver(a, f, g)]
      BY <1>1, <2>1 DEF RemoveFromQueue, At
    <3> QED BY <3>1
  <2>2. CASE DeleteWithoutApi(p)
    <3>1. /\ a.op = "delete" /\ a.pc = "list" /\ UNCHANGED config /\ faults \subseteq faults'
          /\ \E g \in Removed(f, a.task, NoApi) :
               file' = g /\ cmd' = [cmd EXCEPT ![p] = HandedOver([a EXCEPT !.ds = {}], f, g)]
      BY <1>1, <2>2 DEF DeleteWithoutApi, At, Fault
    <3> QED BY <3>1
  <2> QED BY <2>1, <2>2
<1>4. PICK g \in Removed(f, a.task, s) :
        file' = g /\ cmd' = [cmd EXCEPT ![p] = HandedOver(c, f, g)]
  BY <1>3
<1>5. c \in Command /\ c.op = a.op /\ c.task = a.task
  BY <1>2, <1>3 DEF Command
<1>6. Leaves(f, g, config) /\ ~InFile(g, c.task)
  BY <1>2, <1>5, RemovedLeaves, RemovedGone
<1>7. PICK k : k = HandedOver(c, f, g)
  OBVIOUS
<1>8. k = Idle \/ Same(c, k)
  BY <1>3, <1>5, <1>7, HandedOverOp
<1> QED BY <1>1, <1>3, <1>4, <1>5, <1>6, <1>7, <1>8, PrioritiesOfSection

LEMMA PrioritiesOfMark ==
  ASSUME RInv, overlap = {}, PHolds, QInv', NEW p \in Procs, MarkCompleted(p)
  PROVE  PHolds'
<1>1. PICK c, f : c = cmd[p] /\ f = Refresh(file, config)
  OBVIOUS
<1>2. FileOK(f) /\ c \in Command
  BY <1>1, RInvParts
<1>3. /\ c.op = "stop_datasets" /\ c.pc = "fail" /\ UNCHANGED <<config, faults>>
      /\ IF ~Writes(p) THEN file' = file /\ cmd' = [cmd EXCEPT ![p] = Idle]
         ELSE \E g \in Marked(f, c.task, c.ids, Seen(runs)) :
                file' = g /\ cmd' = [cmd EXCEPT ![p] = HandedOver(c, f, g)]
  BY <1>1 DEF MarkCompleted, At, End
<1>4. CASE ~Writes(p)
  BY <1>1, <1>3, <1>4, EndFollows, PrioritiesGoOn
<1>5. CASE Writes(p)
  <2>1. PICK g \in Marked(f, c.task, c.ids, Seen(runs)) :
          file' = g /\ cmd' = [cmd EXCEPT ![p] = HandedOver(c, f, g)]
    BY <1>3, <1>5
  <2>2. Leaves(f, g, config)
    BY <1>2, MarkedLeaves
  <2>3. PICK k : k = HandedOver(c, f, g)
    OBVIOUS
  <2>4. k = Idle \/ Same(c, k)
    BY <1>2, <1>3, <2>3, HandedOverOp
  <2> QED BY <1>1, <1>2, <1>3, <2>1, <2>2, <2>3, <2>4, PrioritiesOfSection
<1> QED BY <1>4, <1>5

(* The second half of a priority command.                                   *)
LEMMA PrioritiesOfRefresh ==
  ASSUME RInv, overlap = {}, PHolds, QInv', NEW p \in Procs, RefreshQueue(p)
  PROVE  PHolds'
<1>1. PICK f : f = Refresh(file, config)
  OBVIOUS
<1>2. FileOK(file) /\ FileOK(f)
  BY <1>1, RInvParts
<1>3. UpToDate(f, config) /\ \A t : InFile(f, t) <=> InFile(file, t)
  BY <1>1, <1>2, RefreshUpToDate
<1>4. ~PreemptRaises(f, config)
  <2> SUFFICES ASSUME f.active # NoEntry PROVE config[f.active.task] \in Prios
    BY DEF PreemptRaises, Preempts
  <2>1. InFile(f, f.active.task)
    BY DEF InFile, Entries
  <2> QED BY <1>3, <2>1 DEF PHolds, Configured, InFile
<1>5. file' = SoftPreempt(f) /\ cmd' = [cmd EXCEPT ![p] = Idle] /\ UNCHANGED <<config, faults>>
  BY <1>1, <1>4 DEF RefreshQueue, End
<1>6. /\ Asks(file') /\ UpToDate(file', config)
      /\ \A t : InFile(file', t) => InFile(f, t)
  BY <1>2, <1>3, <1>5, SoftPreemptAsks
<1>7. LeftBy({}, file, file', config)
  BY <1>3, <1>6 DEF LeftBy
<1>8. {} \in SUBSET ({cmd[p].task} \cap Tasks)
  OBVIOUS
<1> QED BY <1>5, <1>6, <1>7, <1>8, IdleLoads, PrioritiesStep

LEMMA PrioritiesOfEmpty ==
  ASSUME RInv, overlap = {}, PHolds, QInv', NEW p \in Procs, ClearQueue(p) \/ CrashInWrite(p)
  PROVE  PHolds'
<1>1. /\ file' = Empty /\ cmd' = [cmd EXCEPT ![p] = Idle] /\ UNCHANGED config
      /\ faults \subseteq faults'
  BY DEF ClearQueue, CrashInWrite, Fault, End
<1>2. {} \in SUBSET ({cmd[p].task} \cap Tasks)
  OBVIOUS
<1> QED BY <1>1, <1>2, EmptyLeft, IdleLoads, PrioritiesStep

(* The configuration goes after the entry.                                  *)
LEMMA PrioritiesOfEraseFiles ==
  ASSUME RInv, overlap = {}, PHolds, NEW p \in Procs, EraseFiles(p)
  PROVE  PHolds'
<1>1. PICK c, k : c = cmd[p] /\ k = [c EXCEPT !.pc = "erase_runs"]
  OBVIOUS
<1>2. /\ c.pc = "erase_files" /\ config' = [config EXCEPT ![c.task] = Gone]
      /\ cmd' = [cmd EXCEPT ![p] = k] /\ UNCHANGED <<file, faults>>
  BY <1>1 DEF EraseFiles, Goto, At
<1>3. c \in Command /\ Shape(c) /\ Ready(c)
  BY <1>1, RInvParts
<1>4. c.task \in Tasks
  BY <1>2, <1>3 DEF Shape, Registering, Stopping, Other, Idle
<1>6. ~InFile(file, c.task)
  BY <1>1, <1>2 DEF PHolds, Removes
<1>7. k.pc = "erase_runs"
  BY <1>1, <1>3 DEF Command
<1>8. Loaded(k, config') /\ Removes(k, file)
  <2>1. k.task = c.task
    BY <1>1, <1>3 DEF Command
  <2> QED BY <1>6, <1>7, <2>1 DEF Loaded, Removes
<1>9. \A q \in Procs \ {p} : cmd[q].task # c.task
  BY <1>1, <1>4, NotShared
<1>10. Reconfigured(p, k, c.task, Gone)
  BY <1>1, <1>2, <1>6, <1>8, <1>9 DEF Reconfigured
<1> QED BY <1>4, <1>10, PrioritiesConfig

LEMMA PrioritiesOfAirflow ==
  ASSUME RInv, PHolds, QInv', Airflow
  PROVE  PHolds'
<1>1. PICK f : f = Refresh(file, config)
  OBVIOUS
<1>2. FileOK(file) /\ FileOK(f)
  BY <1>1, RInvParts
<1>3. UNCHANGED <<config, cmd, faults>>
  BY DEF Airflow, StartRun, EndRun, CountRun, DrainRun
<1>4. ASSUME file' = file \/ Leaves(f, file', config) PROVE PHolds'
  BY <1>1, <1>2, <1>3, <1>4, LeavesLeft, PrioritiesAirflow
<1>5. ASSUME NEW r \in RunIds, StartRun(r) PROVE PHolds'
  BY <1>4, <1>5 DEF StartRun
<1>6. ASSUME NEW r \in RunIds, NEW result, CountRun(r, result) PROVE PHolds'
  <2>1. PICK s : file' \in Marked(f, r[1], {r}, s)
    BY <1>1, <1>6 DEF CountRun
  <2> QED BY <1>2, <1>4, <2>1, MarkedLeaves
<1>7. ASSUME NEW r \in RunIds, NEW result, DrainRun(r, result) PROVE PHolds'
  <2>1. f.active # NoEntry
    BY <1>1, <1>7 DEF DrainRun, IsActive
  <2>2. file' = file \/ \E s : file' \in Drained(f, s)
    BY <1>1, <1>7 DEF DrainRun
  <2>3. CASE file' = file
    BY <1>4, <2>3
  <2>4. CASE \E s : file' \in Drained(f, s)
    BY <1>2, <1>4, <2>1, <2>4, DrainedLeaves
  <2> QED BY <2>2, <2>3, <2>4
<1> QED BY <1>5, <1>6, <1>7 DEF Airflow, EndRun

LEMMA InitPriorities == Init => PInv
<1> SUFFICES ASSUME Init PROVE PHolds
  BY DEF PInv
<1>1. file = Empty /\ cmd = [p \in Procs |-> Idle]
  BY DEF Init
<1>2. Entries(Empty) = {} /\ Refresh(Empty, config).active = NoEntry
  BY DEF Entries, Empty, Refresh
<1>3. Configured(file, config) /\ Asks(Refresh(file, config))
  BY <1>1, <1>2 DEF Configured, Asks, Preempts
<1> QED BY <1>1, <1>3, IdleLoads DEF PHolds

LEMMA NextPriorities == RInv /\ PInv /\ RInv' /\ [Next]_vars => PInv'
<1> SUFFICES ASSUME RInv, PInv, RInv', [Next]_vars, overlap' = {} PROVE PHolds'
  BY DEF PInv
<1>1. QInv'
  BY DEF RInv
<1>2. CASE Next
  <2>1. overlap = {} /\ PHolds
    BY <1>2 DEF Next, Watch, PInv
  <2>2. ASSUME NEW p \in Procs, Start(p) PROVE PHolds'
    BY <2>1, <2>2, PrioritiesOfStart
  <2>3. ASSUME NEW p \in Procs, Step(p) PROVE PHolds'
    BY <1>1, <2>1, <2>3, PrioritiesOfOthers, PrioritiesOfRegisterStarts, PrioritiesOfRegisterQueues,
       PrioritiesOfRemove, PrioritiesOfMark, PrioritiesOfRefresh, PrioritiesOfEmpty,
       PrioritiesOfEraseFiles DEF Step
  <2>4. ASSUME NEW p \in Procs, Fails(p) PROVE PHolds'
    BY <1>1, <2>1, <2>4, PrioritiesOfOthers, PrioritiesOfRemove, PrioritiesOfEmpty DEF Fails
  <2>5. CASE Airflow
    BY <1>1, <2>1, <2>5, PrioritiesOfAirflow
  <2> QED BY <1>2, <2>2, <2>3, <2>4, <2>5 DEF Next
<1>3. CASE UNCHANGED vars
  BY <1>3 DEF vars, PInv, PHolds, Saving, At
<1> QED BY <1>2, <1>3

LEMMA PrioritiesAreAsked == RInv /\ PInv => NoSilentInversion
<1> SUFFICES ASSUME RInv, PInv, Preempts(Refresh(file, config)), ~Saving, overlap = {},
                    "abort" \notin faults
             PROVE  file.active.draining
  BY DEF NoSilentInversion
<1>1. PICK f : f = Refresh(file, config)
  OBVIOUS
<1>2. Asks(f) /\ Preempts(f)
  BY <1>1 DEF PInv, PHolds
<1>3. FileOK(file) /\ f.active # NoEntry /\ f.active.draining
  BY <1>2, RInvParts DEF Asks, Preempts
<1> QED BY <1>1, <1>3, RefreshUpToDate

(* A queued task that is more urgent than the active one has made it drain: *)
(* whichever operation wrote the queue file, on whatever configurations, no *)
(* inversion of priorities goes unnoticed outside of a priority command.    *)
THEOREM NoInversionIsSilent == Spec => []NoSilentInversion
<1>1. RInv /\ PInv /\ [Next]_vars => (RInv /\ PInv)'
  BY NextRuns, NextPriorities
<1>2. Init => RInv /\ PInv
  BY InitRuns, InitPriorities
<1> QED BY <1>1, <1>2, PrioritiesAreAsked, PTL DEF Spec

-----------------------------------------------------------------------------
(* The other bound: away from overlaps, an entry that waits for completions *)
(* waits for no more than are due.  Three facts about the runs carry it:    *)
(* the tries of a dataset are used in order, a run that an entry has        *)
(* counted has ended, and a run that a command will fail exists.            *)

InOrder(rs) == \A t \in Tasks, d \in Datasets : \E k \in 1..(MaxTries + 1) :
                  \A j \in 1..MaxTries : rs[<<t, d, j>>] = "absent" <=> k <= j

HasEnded(rs, r) == rs[r] \notin ActiveStates \cup {"absent"}

CompletedOK(f, rs) == \A e \in Entries(f) : \A r \in e.completed : r[1] = e.task /\ HasEnded(rs, r)

FailsIn(c, rs) == c.pc = "fail" =>
    \A r \in c.ids : rs[r] # "absent" /\ (rs[r] \in ActiveStates => r \in c.left)

(* The runs of a step: each stays, is the next try, or goes on to its end.  *)
RunsGo(rs, ss) ==
    \A r \in RunIds : \/ ss[r] = rs[r]
                      \/ IsNextTry(rs, r) /\ ss[r] = "queued"
                      \/ /\ rs[r] # "absent" /\ ss[r] # "absent"
                         /\ ss[r] \in ActiveStates => rs[r] \in ActiveStates

LEMMA TryIsRun ==
  ASSUME NEW t \in Tasks, NEW d \in Datasets, NEW j \in 1..MaxTries
  PROVE  /\ <<t, d, j>> \in RunIds
         /\ <<t, d, j>>[1] = t /\ <<t, d, j>>[2] = d /\ <<t, d, j>>[3] = j
BY DEF RunIds

LEMMA InOrderGoes ==
  ASSUME NEW rs, NEW ss, InOrder(rs), RunsGo(rs, ss)
  PROVE  InOrder(ss)
<1> USE FileAssumption
<1> SUFFICES ASSUME NEW t \in Tasks, NEW d \in Datasets
             PROVE  \E k \in 1..(MaxTries + 1) :
                       \A j \in 1..MaxTries : ss[<<t, d, j>>] = "absent" <=> k <= j
  BY DEF InOrder
<1>1. PICK k \in 1..(MaxTries + 1) : \A j \in 1..MaxTries : rs[<<t, d, j>>] = "absent" <=> k <= j
  BY DEF InOrder
<1>2. ASSUME NEW j \in 1..MaxTries, IsNextTry(rs, <<t, d, j>>)
      PROVE  j = k
  <2>1. rs[<<t, d, j>>] = "absent" /\ \A i \in 1..(j - 1) : rs[<<t, d, i>>] # "absent"
    BY <1>2, TryIsRun DEF IsNextTry
  <2>2. k <= j
    BY <1>1, <2>1
  <2>3. ~(k < j)
    <3> SUFFICES ASSUME k < j PROVE FALSE
      OBVIOUS
    <3>1. k \in 1..(j - 1) /\ k \in 1..MaxTries
      OBVIOUS
    <3>2. rs[<<t, d, k>>] = "absent"
      BY <1>1, <3>1
    <3> QED BY <2>1, <3>1, <3>2
  <2> QED BY <2>2, <2>3
<1>3. ASSUME NEW j \in 1..MaxTries
      PROVE  \/ ss[<<t, d, j>>] = "absent" <=> rs[<<t, d, j>>] = "absent"
             \/ IsNextTry(rs, <<t, d, j>>) /\ ss[<<t, d, j>>] = "queued"
  BY TryIsRun DEF RunsGo
<1>4. CASE \E j \in 1..MaxTries : IsNextTry(rs, <<t, d, j>>) /\ ss[<<t, d, j>>] = "queued"
  <2>1. k \in 1..MaxTries /\ ss[<<t, d, k>>] = "queued"
    BY <1>2, <1>4
  <2>2. ASSUME NEW j \in 1..MaxTries PROVE ss[<<t, d, j>>] = "absent" <=> k + 1 <= j
    <3>1. CASE j = k
      BY <2>1, <3>1
    <3>2. CASE j # k
      <4>1. ss[<<t, d, j>>] = "absent" <=> rs[<<t, d, j>>] = "absent"
        BY <1>2, <1>3, <3>2
      <4>2. ss[<<t, d, j>>] = "absent" <=> k <= j
        BY <1>1, <4>1
      <4> QED BY <3>2, <4>2
    <3> QED BY <3>1, <3>2
  <2>3. k + 1 \in 1..(MaxTries + 1)
    BY <2>1
  <2> QED BY <2>2, <2>3
<1>5. CASE ~\E j \in 1..MaxTries : IsNextTry(rs, <<t, d, j>>) /\ ss[<<t, d, j>>] = "queued"
  <2>1. \A j \in 1..MaxTries : ss[<<t, d, j>>] = "absent" <=> k <= j
    BY <1>1, <1>3, <1>5
  <2> QED BY <2>1
<1> QED BY <1>4, <1>5

LEMMA EndedGoes ==
  ASSUME NEW rs, NEW ss, RunsGo(rs, ss), NEW r \in RunIds
  PROVE  /\ HasEnded(rs, r) => HasEnded(ss, r)
         /\ rs[r] # "absent" => ss[r] # "absent"
         /\ rs[r] # "absent" /\ ss[r] \in ActiveStates => rs[r] \in ActiveStates
BY DEF RunsGo, HasEnded, ActiveStates, IsNextTry

LEMMA FailsGo ==
  ASSUME NEW c \in Command, NEW rs, NEW ss, RunsGo(rs, ss), FailsIn(c, rs)
  PROVE  FailsIn(c, ss)
<1>1. c.ids \in SUBSET RunIds
  BY DEF Command
<1> QED BY <1>1, EndedGoes DEF FailsIn

(* What the entries of g have counted, those of f had.                      *)
Recalls(f, g) == \A e \in Entries(g) : \/ e.completed = {}
                                       \/ \E o \in Entries(f) : o.task = e.task /\ o.completed = e.completed

LEMMA CompletedGo ==
  ASSUME NEW f, FileOK(f), NEW g, Recalls(f, g), NEW rs, NEW ss, RunsGo(rs, ss), CompletedOK(f, rs)
  PROVE  CompletedOK(g, ss)
<1> SUFFICES ASSUME NEW e \in Entries(g), NEW r \in e.completed PROVE r[1] = e.task /\ HasEnded(ss, r)
  BY DEF CompletedOK
<1>1. PICK o \in Entries(f) : o.task = e.task /\ o.completed = e.completed
  BY DEF Recalls
<1>2. r \in RunIds
  BY <1>1, EntriesType
<1>3. r[1] = e.task /\ HasEnded(rs, r)
  BY <1>1 DEF CompletedOK
<1> QED BY <1>2, <1>3, EndedGoes

LEMMA RecallsTrans ==
  ASSUME NEW f, NEW g, NEW h, Recalls(f, g), Recalls(g, h)
  PROVE  Recalls(f, h)
<1> SUFFICES ASSUME NEW e \in Entries(h), e.completed # {}
             PROVE  \E o \in Entries(f) : o.task = e.task /\ o.completed = e.completed
  BY DEF Recalls
<1>1. PICK i \in Entries(g) : i.task = e.task /\ i.completed = e.completed
  BY DEF Recalls
<1> QED BY <1>1 DEF Recalls

LEMMA SameRecalls == \A f : Recalls(f, f)
BY DEF Recalls

LEMMA SameGo == \A rs : RunsGo(rs, rs)
BY DEF RunsGo

LEMMA TriggeredGo ==
  ASSUME NEW rs, NEW t, NEW ds
  PROVE  RunsGo(rs, Triggered(rs, t, ds))
BY DEF Triggered, RunsGo

(* A run that exists goes to a state that is no earlier one.                *)
LEMMA OneGoes ==
  ASSUME NEW rs \in [RunIds -> RunStates], NEW r \in RunIds, rs[r] # "absent", NEW s, s # "absent",
         s \in ActiveStates => rs[r] \in ActiveStates
  PROVE  RunsGo(rs, [rs EXCEPT ![r] = s])
BY DEF RunsGo
(* What the entry of a task waits for is due, unless the entry does not     *)
(* count on completions now: its runs are not triggered before it is        *)
(* activated, or it drains.  A command that stops the task or everything    *)
(* will remove the entry.  After the last try of a dataset nothing more is  *)
(* triggered.                                                               *)
Spent(rs, t) == \E d \in Datasets : rs[<<t, d, MaxTries>>] # "absent"

Exempts(c, t) == c.pc = "clear" \/ (c.pc = "fail" /\ c.op \in {"stop", "delete"} /\ c.task = t)

Awaits(f, e) == IF e \in f.queue THEN e.pending = {} ELSE ~e.draining

Low(t, c, f, rs) ==
    \/ Exempts(c, t) \/ Spent(rs, t)
    \/ \A e \in Entries(f) : e.task = t /\ Awaits(f, e) =>
          e.remaining <= Cardinality(DueOf(t, rs, StoppedOf(c, t) \ e.completed, ComingOf(c, t)))

(* An entry of the task that waits in g is one of f.                        *)
LowKept(t, f, g) ==
    \A e \in Entries(g) : e.task = t /\ Awaits(g, e) =>
       \E o \in Entries(f) : /\ o.task = t /\ Awaits(f, o)
                             /\ o.remaining = e.remaining /\ o.completed = e.completed

LEMMA LowKeptTrans ==
  ASSUME NEW t, NEW f, NEW g, NEW h, LowKept(t, f, g), LowKept(t, g, h)
  PROVE  LowKept(t, f, h)
<1> SUFFICES ASSUME NEW e \in Entries(h), e.task = t, Awaits(h, e)
             PROVE  \E o \in Entries(f) : /\ o.task = t /\ Awaits(f, o)
                                          /\ o.remaining = e.remaining /\ o.completed = e.completed
  BY DEF LowKept
<1>1. PICK i \in Entries(g) : /\ i.task = t /\ Awaits(g, i)
                              /\ i.remaining = e.remaining /\ i.completed = e.completed
  BY DEF LowKept
<1> QED BY <1>1 DEF LowKept

LEMMA SameLowKept == \A t, f : LowKept(t, f, f)
BY DEF LowKept

(* The entries of a sound file.                                             *)
LEMMA EntryPlaces ==
  ASSUME NEW f, FileOK(f)
  PROVE  /\ f.queue \in SUBSET Entry /\ Entries(f) \in SUBSET Entry
         /\ \A e \in f.queue : e \in Entries(f) /\ (Awaits(f, e) <=> e.pending = {})
         /\ f.active # NoEntry => /\ f.active \in Entries(f) /\ f.active \in Entry
                                  /\ f.active \notin f.queue
                                  /\ Awaits(f, f.active) <=> ~f.active.draining
         /\ \A e \in Entries(f) : e \in f.queue \/ (e = f.active /\ f.active # NoEntry)
<1>1. f.queue \in SUBSET Entry /\ (f.active # NoEntry => f.active \in Entry)
  BY DEF FileOK, File
<1>2. f.active # NoEntry => f.active \notin f.queue
  BY DEF FileOK, IsActive
<1>3. Entries(f) \in SUBSET Entry /\ \A e \in f.queue : e \in Entries(f)
  BY <1>1 DEF Entries
<1>4. \A e \in Entries(f) : e \in f.queue \/ (e = f.active /\ f.active # NoEntry)
  BY DEF Entries
<1>5. f.active # NoEntry => f.active \in Entries(f)
  BY DEF Entries
<1> QED BY <1>1, <1>2, <1>3, <1>4, <1>5 DEF Awaits

LEMMA RefreshLow ==
  ASSUME NEW f, FileOK(f), NEW cf, NEW g, g = Refresh(f, cf)
  PROVE  Recalls(f, g) /\ \A t : LowKept(t, f, g)
<1>1. FileOK(g)
  BY RefreshOK
<1>2. ASSUME NEW e \in Entry
      PROVE  LET o == RefreshEntry(e, cf)
             IN  /\ o \in Entry /\ o.task = e.task /\ o.remaining = e.remaining
                 /\ o.completed = e.completed /\ o.pending = e.pending /\ o.draining = e.draining
  BY RefreshEntryType DEF RefreshEntry, Entry
<1>3. g.queue = {RefreshEntry(e, cf) : e \in f.queue}
  BY DEF Refresh
<1>4. g.active # NoEntry => f.active # NoEntry /\ g.active = RefreshEntry(f.active, cf)
  BY DEF Refresh
<1>5. ASSUME NEW e \in Entries(g)
      PROVE  \E o \in Entries(f) : /\ o.task = e.task /\ o.remaining = e.remaining
                                   /\ o.completed = e.completed /\ (Awaits(g, e) => Awaits(f, o))
  <2>1. CASE e \in g.queue
    <3>1. PICK o \in f.queue : e = RefreshEntry(o, cf)
      BY <1>3, <2>1
    <3>2. o \in Entry /\ o \in Entries(f) /\ (Awaits(f, o) <=> o.pending = {})
      BY EntryPlaces
    <3>3. Awaits(g, e) <=> e.pending = {}
      BY <2>1 DEF Awaits
    <3> QED BY <1>2, <3>1, <3>2, <3>3
  <2>2. CASE e = g.active /\ g.active # NoEntry
    <3>1. f.active # NoEntry /\ e = RefreshEntry(f.active, cf)
      BY <1>4, <2>2
    <3>2. /\ f.active \in Entries(f) /\ f.active \in Entry
          /\ Awaits(f, f.active) <=> ~f.active.draining
      BY <3>1, EntryPlaces
    <3>3. Awaits(g, e) <=> ~e.draining
      BY <1>1, <2>2, EntryPlaces
    <3> QED BY <1>2, <3>1, <3>2, <3>3
  <2> QED BY <1>1, <2>1, <2>2, EntryPlaces
<1> QED BY <1>5 DEF Recalls, LowKept

(* A file whose queue is the same and whose active entry is another one.    *)
LEMMA SoftPreemptLow ==
  ASSUME NEW f, FileOK(f), NEW g, g = SoftPreempt(f)
  PROVE  Recalls(f, g) /\ \A t : LowKept(t, f, g)
<1>1. CASE ~Preempts(f)
  BY <1>1, SameRecalls, SameLowKept DEF SoftPreempt
<1>2. CASE Preempts(f)
  <2>1. FileOK(g) /\ f.active # NoEntry /\ g = [active |-> Drain(f.active), queue |-> f.queue]
    BY <1>2, SoftPreemptOK DEF SoftPreempt, Preempts
  <2>2. f.active \in Entry /\ f.active \in Entries(f)
    BY <2>1, EntryPlaces
  <2>3. /\ Drain(f.active).task = f.active.task /\ Drain(f.active).draining
        /\ Drain(f.active).completed = f.active.completed /\ Drain(f.active) \in Entry
    BY <2>2, DrainType DEF Drain, Entry
  <2>4. g.active = Drain(f.active) /\ g.queue = f.queue /\ g.active # NoEntry
    BY <2>1, <2>3, FileAssumption
  <2>5. \A e \in Entries(g) : e \in f.queue \/ (e = g.active /\ ~Awaits(g, e))
    BY <2>1, <2>3, <2>4, EntryPlaces
  <2>6. \A e \in f.queue : e \in Entries(f) /\ (Awaits(g, e) => Awaits(f, e))
    BY <2>4, EntryPlaces DEF Awaits
  <2>7. Recalls(f, g)
    BY <2>2, <2>3, <2>4, <2>5, <2>6 DEF Recalls
  <2> QED BY <2>5, <2>6, <2>7 DEF LowKept
<1> QED BY <1>1, <1>2
-----------------------------------------------------------------------------
(* What the operations on the file do to the entries that wait.             *)

(* A registration adds n to the entry of its task, or builds one.           *)
Grown(t, f, g, n) ==
    \A e \in Entries(g) : e.task = t /\ Awaits(g, e) =>
       \/ e.remaining = n
       \/ \E o \in Entries(f) : o.task = t /\ Awaits(f, o) /\ e.remaining = o.remaining + n

LEMMA StartedLow ==
  ASSUME NEW f, FileOK(f), NEW u \in Tasks, Starts(f, u), NEW n \in Nat \ {0}, NEW p \in Prios,
         NEW g, g = Started(f, u, n, p)
  PROVE  Recalls(f, g) /\ Grown(u, f, g, n) /\ \A t : t # u => LowKept(t, f, g)
<1>1. FileOK(g) /\ g.queue = f.queue
  BY StartedOK DEF Started
<1>2. CASE f.active = NoEntry
  <2>1. f.queue = {} /\ g.active = BuildEntry(u, n, p, 0)
    BY <1>2 DEF FileOK, Started
  <2>2. g.active.task = u /\ g.active.remaining = n /\ g.active.completed = {}
    BY <2>1 DEF BuildEntry
  <2>3. \A e \in Entries(g) : e = g.active
    BY <1>1, <2>1, EntryPlaces
  <2> QED BY <2>2, <2>3 DEF Recalls, Grown, LowKept
<1>3. CASE f.active # NoEntry
  <2>1. f.active \in Entry /\ f.active \in Entries(f) /\ f.active.task = u
        /\ (Awaits(f, f.active) <=> ~f.active.draining)
    BY <1>3, EntryPlaces DEF Starts
  <2>2. g.active = AddRuns(f.active, n, p)
    BY <1>3 DEF Started
  <2>3. /\ g.active.task = u /\ g.active.remaining = f.active.remaining + n
        /\ g.active.completed = f.active.completed /\ g.active.draining = f.active.draining
    BY <2>1, <2>2 DEF AddRuns, Entry
  <2>4. \A e \in Entries(g) : e \in f.queue \/ (e = g.active /\ (Awaits(g, e) <=> ~e.draining))
    BY <1>1, EntryPlaces
  <2>5. \A e \in f.queue : e \in Entries(f) /\ (Awaits(g, e) => Awaits(f, e)) /\ e.task # u
    BY <1>1, <2>1, <1>3, EntryPlaces DEF Awaits, FileOK, IsActive
  <2>6. Recalls(f, g)
    BY <2>1, <2>3, <2>4, <2>5 DEF Recalls
  <2>7. Grown(u, f, g, n)
    BY <2>1, <2>3, <2>4, <2>5 DEF Grown
  <2> QED BY <2>3, <2>4, <2>5, <2>6, <2>7 DEF LowKept
<1> QED BY <1>2, <1>3

LEMMA QueuedLow ==
  ASSUME NEW f, FileOK(f), NEW u \in Tasks, ~Starts(f, u), NEW n \in Nat \ {0}, NEW p \in Prios,
         NEW g \in Queued(f, u, n, p)
  PROVE  Recalls(f, g) /\ Grown(u, f, g, n) /\ \A t : t # u => LowKept(t, f, g)
<1>1. PICK q \in Enqueued(f.queue, u, n, p) : g = [active |-> f.active, queue |-> q]
  BY DEF Queued
<1>2. FileOK(g) /\ g.active = f.active /\ g.queue = q /\ f.active # NoEntry /\ f.active.task # u
  BY <1>1, QueuedOK DEF Starts
<1>3. f.active \in Entries(f) /\ (Awaits(f, f.active) <=> Awaits(g, f.active))
  BY <1>2, EntryPlaces
<1>4. ASSUME NEW e \in q
      PROVE  \/ e \in f.queue /\ (e.task # u \/ \A o \in f.queue : o.task # u)
             \/ e.task = u /\ e.remaining = n /\ e.completed = {}
             \/ \E o \in f.queue : /\ o.task = u /\ e.task = u /\ e.remaining = o.remaining + n
                                   /\ e.completed = o.completed /\ e.pending = o.pending
  <2>1. CASE \E o \in f.queue : o.task = u
    <3>1. PICK o \in f.queue : e = IF o.task = u THEN AddRuns(o, n, p) ELSE o
      BY <1>1, <2>1 DEF Enqueued
    <3>2. CASE o.task = u
      <4>1. o \in Entry /\ e = AddRuns(o, n, p)
        BY <3>1, <3>2, EntryPlaces
      <4>2. /\ e.task = u /\ e.remaining = o.remaining + n
            /\ e.completed = o.completed /\ e.pending = o.pending
        BY <3>2, <4>1 DEF AddRuns, Entry
      <4> QED BY <3>2, <4>2
    <3>3. CASE o.task # u
      BY <3>1, <3>3
    <3> QED BY <3>2, <3>3
  <2>2. CASE ~\E o \in f.queue : o.task = u
    <3>1. PICK at \in LastPlaces(f.queue) : q = f.queue \cup {BuildEntry(u, n, p, at)}
      BY <1>1, <2>2 DEF Enqueued
    <3>2. /\ BuildEntry(u, n, p, at).task = u /\ BuildEntry(u, n, p, at).remaining = n
          /\ BuildEntry(u, n, p, at).completed = {}
      BY DEF BuildEntry
    <3> QED BY <2>2, <3>1, <3>2
  <2> QED BY <2>1, <2>2
<1>5. \A e \in q : Awaits(g, e) <=> e.pending = {}
  BY <1>2, EntryPlaces
<1>6. \A e \in f.queue : e \in Entries(f) /\ (Awaits(f, e) <=> e.pending = {})
  BY EntryPlaces
<1>7. \A e \in Entries(g) : e \in q \/ e = f.active
  BY <1>2, EntryPlaces
<1>8. Recalls(f, g)
  <2> SUFFICES ASSUME NEW e \in Entries(g), e.completed # {}
               PROVE  \E o \in Entries(f) : o.task = e.task /\ o.completed = e.completed
    BY DEF Recalls
  <2>1. CASE e \in q
    BY <1>4, <1>6, <2>1
  <2>2. CASE e = f.active
    BY <1>3, <2>2
  <2> QED BY <1>7, <2>1, <2>2
<1>9. Grown(u, f, g, n)
  <2> SUFFICES ASSUME NEW e \in Entries(g), e.task = u, Awaits(g, e)
               PROVE  \/ e.remaining = n
                      \/ \E o \in Entries(f) : o.task = u /\ Awaits(f, o) /\ e.remaining = o.remaining + n
    BY DEF Grown
  <2>1. e \in q
    BY <1>2, <1>7
  <2>2. e.pending = {}
    BY <1>5, <2>1
  <2> QED BY <1>4, <1>6, <2>1, <2>2
<1>10. ASSUME NEW t, t # u PROVE LowKept(t, f, g)
  <2> SUFFICES ASSUME NEW e \in Entries(g), e.task = t, Awaits(g, e)
               PROVE  e \in Entries(f) /\ Awaits(f, e)
    BY DEF LowKept
  <2>1. CASE e \in q
    <3>1. e \in f.queue /\ e.pending = {}
      BY <1>4, <1>5, <1>10, <2>1
    <3> QED BY <1>6, <3>1
  <2>2. CASE e = f.active
    BY <1>3, <2>2
  <2> QED BY <1>7, <2>1, <2>2
<1> QED BY <1>8, <1>9, <1>10

(* A hand-over makes the task active: its entry waits for what it is found  *)
(* to lack, or, when its runs are triggered already, for what it did.       *)
Reckons(t, f, g, rs) ==
    /\ IsActive(g, t)
    /\ \/ g.active.remaining <= Cardinality(DueOf(t, rs, {}, g.active.pending))
       \/ \E o \in f.queue : o.task = t /\ o.pending = {} /\ o.remaining = g.active.remaining

(* What prepare_queued_task_activation counts.                              *)
LEMMA ActivatedLow ==
  ASSUME NEW e \in Entry, NEW rs, NEW s \in {NoApi, Seen(rs)}, NEW a, a = Activate(e, s),
         e.pending # {}
  PROVE  a.remaining <= Cardinality(DueOf(e.task, rs, {}, a.pending))
<1> DEFINE t == e.task
           todo == Todo(e, s)
           waits == Waits(e, s)
           T == DueOf(t, rs, {}, todo)
           live(d) == CHOOSE r \in RunIds : r[1] = t /\ r[2] = d /\ rs[r] \in ActiveStates
           h == [d \in todo \cup waits |-> IF d \in todo THEN <<t, d, 0>> ELSE live(d)]
<1>1. /\ t \in Tasks /\ a.pending = todo /\ a.remaining = Cardinality(todo \cup waits)
      /\ todo \subseteq e.pending /\ waits \subseteq e.pending /\ e.pending \in SUBSET Datasets
  BY DEF Activate, Entry, Todo, Waits
<1>2. ASSUME NEW d \in waits
      PROVE  live(d) \in RunIds /\ live(d)[1] = t /\ live(d)[2] = d /\ rs[live(d)] \in ActiveStates
  <2>1. <<t, d>> \in s.live
    BY DEF Waits
  <2>2. s.live = {<<r[1], r[2]>> : r \in {x \in RunIds : rs[x] \in ActiveStates}}
    BY <2>1 DEF NoApi, Seen
  <2>3. \E r \in RunIds : r[1] = t /\ r[2] = d /\ rs[r] \in ActiveStates
    BY <2>1, <2>2
  <2> QED BY <2>3
<1>3. IsFiniteSet(T)
  <2>1. todo \in SUBSET Datasets /\ {} \in SUBSET RunIds
    BY <1>1
  <2> QED BY <1>1, <2>1, DueFinite
<1>4. \A d \in todo \cup waits : h[d] \in T /\ h[d][2] = d
  <2> SUFFICES ASSUME NEW d \in todo \cup waits PROVE h[d] \in T /\ h[d][2] = d
    OBVIOUS
  <2>1. CASE d \in todo
    <3>1. h[d] = <<t, d, 0>>
      BY <2>1
    <3> QED BY <2>1, <3>1 DEF DueOf
  <2>2. CASE d \notin todo
    <3>1. h[d] = live(d) /\ d \in waits
      BY <2>2
    <3>2. live(d) \in LiveIn(rs, t)
      BY <1>2, <3>1 DEF LiveIn
    <3> QED BY <1>2, <3>1, <3>2 DEF DueOf
  <2> QED BY <2>1, <2>2
<1>5. h \in Injection(todo \cup waits, T)
  <2>1. h \in [todo \cup waits -> T]
    BY <1>4
  <2>2. \A x, y \in todo \cup waits : h[x] = h[y] => x = y
    BY <1>4
  <2> HIDE DEF h
  <2> QED BY <2>1, <2>2 DEF Injection, IsInjective
<1> HIDE DEF h, T, todo, waits
<1>6. Cardinality(todo \cup waits) <= Cardinality(T)
  BY <1>3, <1>5, FS_Injection
<1> QED BY <1>1, <1>6 DEF T
(* The queue q of a hand-over has entries of the file, and those whose runs *)
(* are all to be triggered.                                                 *)
LEMMA AdvancesLow ==
  ASSUME NEW f, FileOK(f), NEW q \in SUBSET Entry,
         \A e \in q : e \in f.queue \/ (e.pending # {} /\ e.completed = {}),
         NEW rs, NEW s \in {NoApi, Seen(rs)}, NEW g \in Advances(q, s)
  PROVE  Recalls(f, g) /\ \A t : IF IsActive(g, t) THEN Reckons(t, f, g, rs) ELSE LowKept(t, f, g)
<1> DEFINE ok == {e \in q : Startable(e, s)}
<1>1. CASE ok = {}
  <2>1. g = Empty
    BY <1>1 DEF Advances
  <2>2. Entries(g) = {} /\ g.active = NoEntry
    BY <2>1 DEF Entries, Empty
  <2> QED BY <2>2 DEF Recalls, LowKept, IsActive
<1>2. CASE ok # {}
  <2>1. PICK n \in Heads(ok) :
          g = [active |-> Activate(n, s), queue |-> {e \in q \ {n} : Before(n, e)}]
    BY <1>2 DEF Advances
  <2> DEFINE a == Activate(n, s)
  <2>2. n \in q /\ Startable(n, s)
    BY DEF Heads
  <2>3. a \in Entry /\ a.task = n.task /\ a # NoEntry
    BY <2>2, ActivateType, FileAssumption
  <2>4. a.completed = {} /\ (n.pending = {} => a.remaining = n.remaining)
    BY <2>2 DEF Activate, Entry
  <2>5. n.pending # {} => a.remaining <= Cardinality(DueOf(n.task, rs, {}, a.pending))
    BY <2>2, ActivatedLow
  <2>6. g.active = a /\ g.queue \subseteq q /\ Entries(g) = g.queue \cup {a}
    BY <2>1, <2>3 DEF Entries
  <2> HIDE DEF a
  <2>7. Recalls(f, g)
    <3>1. \A e \in g.queue : e \in Entries(f) \/ e.completed = {}
      BY <2>6, EntryPlaces
    <3> QED BY <2>4, <2>6, <3>1 DEF Recalls
  <2>8. ASSUME NEW t, IsActive(g, t) PROVE Reckons(t, f, g, rs)
    <3>1. n.task = t
      BY <2>3, <2>6, <2>8 DEF IsActive
    <3>2. n.pending = {} => n \in f.queue
      BY <2>2
    <3> QED BY <2>4, <2>5, <2>6, <2>8, <3>1, <3>2 DEF Reckons
  <2>9. ASSUME NEW t, ~IsActive(g, t) PROVE LowKept(t, f, g)
    <3> SUFFICES ASSUME NEW e \in Entries(g), e.task = t, Awaits(g, e)
                 PROVE  e \in Entries(f) /\ Awaits(f, e)
      BY DEF LowKept
    <3>1. e \in g.queue
      BY <2>3, <2>6, <2>9 DEF IsActive
    <3>2. e.pending = {}
      BY <3>1 DEF Awaits
    <3>3. e \in f.queue
      BY <2>6, <3>1, <3>2
    <3> QED BY <3>2, <3>3, EntryPlaces
  <2> QED BY <2>7, <2>8, <2>9
<1> QED BY <1>1, <1>2

(* What an operation on task u does to the other ones.                      *)
LowOr(t, f, g, rs, over) == LowKept(t, f, g) \/ (over /\ Reckons(t, f, g, rs))

LEMMA RemovedLow ==
  ASSUME NEW f, FileOK(f), NEW u, NEW rs, NEW s \in {NoApi, Seen(rs)}, NEW g \in Removed(f, u, s)
  PROVE  Recalls(f, g) /\ \A t : LowOr(t, f, g, rs, IsActive(f, u))
<1>1. CASE IsActive(f, u)
  <2>1. g \in Advances(Without(f.queue, u), s)
    BY <1>1 DEF Removed
  <2>2. Without(f.queue, u) \in SUBSET Entry /\ \A e \in Without(f.queue, u) : e \in f.queue
    BY EntryPlaces DEF Without
  <2>3. Recalls(f, g) /\ \A t : IF IsActive(g, t) THEN Reckons(t, f, g, rs) ELSE LowKept(t, f, g)
    BY <2>1, <2>2, AdvancesLow
  <2> QED BY <1>1, <2>3 DEF LowOr
<1>2. CASE ~IsActive(f, u)
  <2>1. g = [active |-> f.active, queue |-> Without(f.queue, u)]
    BY <1>2 DEF Removed
  <2>2. g.active = f.active /\ g.queue \subseteq f.queue
    BY <2>1 DEF Without
  <2>3. \A e \in Entries(g) : e \in Entries(f) /\ (Awaits(g, e) => Awaits(f, e))
    BY <2>2, EntryPlaces DEF Entries, Awaits
  <2> QED BY <2>3 DEF Recalls, LowOr, LowKept
<1> QED BY <1>1, <1>2

(* The entry of the task counts the runs ids.                               *)
CountedIn(t, f, g, ids) ==
    \A e \in Entries(g) : e.task = t =>
       \E o \in Entries(f) : /\ o.task = t /\ (Awaits(g, e) => Awaits(f, o))
                             /\ e.remaining = o.remaining - Counts(o, ids)
                             /\ e.completed = o.completed \cup ids

RecallsBut(t, f, g) ==
    \A e \in Entries(g) : e.task # t =>
       \/ e.completed = {}
       \/ \E o \in Entries(f) : o.task = e.task /\ o.completed = e.completed

LEMMA CountedParts ==
  ASSUME NEW e \in Entry, NEW ids, NEW k, k = Counted(e, ids)
  PROVE  /\ k.task = e.task /\ k.draining = e.draining /\ k.pending = e.pending
         /\ k.remaining = e.remaining - Counts(e, ids) /\ k.completed = e.completed \cup ids
BY DEF Counted, Entry

Marks(f, u, ids, rs, g) ==
    FileOK(f) /\ ids \in SUBSET RunIds /\ g \in Marked(f, u, ids, Seen(rs))

LEMMA MarkedLow ==
  ASSUME NEW f, NEW u, NEW ids, NEW rs, NEW g, Marks(f, u, ids, rs, g)
  PROVE  /\ CountedIn(u, f, g, ids) /\ RecallsBut(u, f, g)
         /\ \A t : t # u => LowOr(t, f, g, rs, IsActive(f, u) /\ UsedUp(f.active, ids))
<1> USE DEF Marks
<1>1. FileOK(g)
  BY MarkedOK
<1>2. CASE IsActive(f, u) /\ UsedUp(f.active, ids)
  <2>1. g \in Advances(f.queue, Seen(rs))
    BY <1>2 DEF Marked
  <2>2. f.queue \in SUBSET Entry /\ \A e \in f.queue : e.task # u
    BY <1>2, EntryPlaces, ActiveAlone DEF InQueue
  <2>3. Recalls(f, g) /\ \A t : IF IsActive(g, t) THEN Reckons(t, f, g, rs) ELSE LowKept(t, f, g)
    BY <2>1, <2>2, AdvancesLow
  <2>4. ~InFile(g, u)
    BY <2>1, <2>2, AdvancesGone
  <2>5. CountedIn(u, f, g, ids)
    BY <2>4 DEF CountedIn, InFile
  <2> QED BY <1>2, <2>3, <2>5 DEF LowOr, Recalls, RecallsBut
<1>3. CASE IsActive(f, u) /\ ~UsedUp(f.active, ids)
  <2>1. g = [active |-> Counted(f.active, ids), queue |-> f.queue]
    BY <1>3 DEF Marked
  <2>2. /\ f.active # NoEntry /\ f.active \in Entry /\ f.active \in Entries(f) /\ f.active.task = u
        /\ Awaits(f, f.active) <=> ~f.active.draining
    BY <1>3, EntryPlaces DEF IsActive
  <2> DEFINE a == Counted(f.active, ids)
  <2>3. /\ a.task = u /\ a.draining = f.active.draining
        /\ a.remaining = f.active.remaining - Counts(f.active, ids)
        /\ a.completed = f.active.completed \cup ids
    BY <2>2, CountedParts
  <2>4. g.active = a /\ g.queue = f.queue
    BY <2>1
  <2> HIDE DEF a
  <2>5. \A e \in f.queue : /\ e \in Entries(f) /\ (Awaits(g, e) => Awaits(f, e))
                           /\ e.task # u
    BY <1>3, <2>4, EntryPlaces, ActiveAlone DEF Awaits, InQueue
  <2>6. \A e \in Entries(g) : e \in f.queue \/ (e = a /\ (Awaits(g, e) <=> ~e.draining))
    BY <1>1, <2>4, EntryPlaces
  <2>7. CountedIn(u, f, g, ids)
    BY <2>2, <2>3, <2>5, <2>6 DEF CountedIn
  <2>8. RecallsBut(u, f, g) /\ \A t : t # u => LowKept(t, f, g)
    BY <2>3, <2>5, <2>6 DEF RecallsBut, LowKept
  <2> QED BY <2>7, <2>8 DEF LowOr
<1>4. CASE ~IsActive(f, u)
  <2> DEFINE q == {IF e.task = u THEN Counted(e, ids) ELSE e :
                     e \in {o \in f.queue : o.task # u \/ ~UsedUp(o, ids)}}
  <2>1. g.active = f.active /\ g.queue = q
    BY <1>4 DEF Marked
  <2>2. ASSUME NEW e \in q
        PROVE  \/ e \in f.queue /\ e.task # u
               \/ \E o \in f.queue : e = Counted(o, ids) /\ o.task = u
    OBVIOUS
  <2> HIDE DEF q
  <2>3. \A e \in f.queue : e \in Entry /\ e \in Entries(f) /\ (Awaits(f, e) <=> e.pending = {})
    BY EntryPlaces
  <2>4. \A e \in q : Awaits(g, e) <=> e.pending = {}
    BY <2>1 DEF Awaits
  <2>5. ASSUME NEW e \in Entries(g), e \notin q
        PROVE  e \in Entries(f) /\ (Awaits(g, e) => Awaits(f, e)) /\ e.task # u
    <3>1. e = f.active /\ f.active # NoEntry
      BY <1>1, <2>1, <2>5, EntryPlaces
    <3>2. e.task # u
      BY <1>4, <3>1 DEF IsActive
    <3>3. (Awaits(g, e) <=> ~e.draining) /\ e \in Entries(f) /\ (Awaits(f, e) <=> ~e.draining)
      BY <1>1, <2>1, <3>1, EntryPlaces
    <3> QED BY <3>2, <3>3
  <2>6. ASSUME NEW e \in Entries(g), e.task = u
        PROVE  \E o \in Entries(f) : /\ o.task = u /\ (Awaits(g, e) => Awaits(f, o))
                                     /\ e.remaining = o.remaining - Counts(o, ids)
                                     /\ e.completed = o.completed \cup ids
    <3>1. e \in q
      BY <2>5, <2>6
    <3>2. PICK o \in f.queue : e = Counted(o, ids) /\ o.task = u
      BY <2>2, <2>6, <3>1
    <3>3. /\ e.pending = o.pending
          /\ e.remaining = o.remaining - Counts(o, ids) /\ e.completed = o.completed \cup ids
      BY <2>3, <3>2, CountedParts
    <3> QED BY <2>3, <2>4, <3>1, <3>2, <3>3
  <2>7. ASSUME NEW e \in Entries(g), e.task # u
        PROVE  e \in Entries(f) /\ (Awaits(g, e) => Awaits(f, e))
    <3>1. CASE e \in q
      <4>1. e \in f.queue
        BY <2>2, <2>3, <2>7, <3>1, CountedParts
      <4> QED BY <2>3, <2>4, <3>1, <4>1
    <3>2. CASE e \notin q
      BY <2>5, <3>2
    <3> QED BY <3>1, <3>2
  <2>8. CountedIn(u, f, g, ids)
    BY <2>6 DEF CountedIn
  <2>9. RecallsBut(u, f, g) /\ \A t : t # u => LowKept(t, f, g)
    BY <2>7 DEF RecallsBut, LowKept
  <2> QED BY <2>8, <2>9 DEF LowOr
<1> QED BY <1>2, <1>3, <1>4

LEMMA DrainedLow ==
  ASSUME NEW f, FileOK(f), f.active # NoEntry, NEW rs, NEW g \in Drained(f, Seen(rs))
  PROVE  Recalls(f, g) /\ \A t : IF IsActive(g, t) THEN Reckons(t, f, g, rs) ELSE LowKept(t, f, g)
<1>1. PICK at \in LastPlaces(f.queue) :
        g \in Advances(f.queue \cup {Preempted(f.active, at)}, Seen(rs))
  BY DEF Drained
<1> DEFINE b == Preempted(f.active, at)
<1>2. f.active \in Entry /\ f.queue \in SUBSET Entry
  BY EntryPlaces
<1>3. b \in Entry /\ b.completed = {} /\ b.pending = DatasetsOf[f.active.task] /\ f.active.task \in Tasks
  <2>1. b \in Entry
    BY <1>2, PreemptedType DEF LastPlaces
  <2> QED BY <1>2, <2>1 DEF Preempted, Entry
<1>4. b.pending # {}
  BY <1>3, FileAssumption
<1> HIDE DEF b
<1> QED BY <1>1, <1>2, <1>3, <1>4, AdvancesLow DEF b
-----------------------------------------------------------------------------
(* What the steps do to what is due.                                        *)

LEMMA ForeignLow ==
  ASSUME NEW t \in Tasks, NEW c, Shape(c), t \notin Touches(c), NEW f, NEW rs
  PROVE  Low(t, c, f, rs) <=> Low(t, Idle, f, rs)
<1>1. ComingOf(c, t) = {} /\ StoppedOf(c, t) = {} /\ ~Exempts(c, t)
  BY Foreign DEF Exempts
<1>2. ComingOf(Idle, t) = {} /\ StoppedOf(Idle, t) = {} /\ ~Exempts(Idle, t)
  <2>1. Idle.pc = "idle"
    BY DEF Idle
  <2> QED BY <2>1, IdleViews DEF Exempts
<1> QED BY <1>1, <1>2 DEF Low

LEMMA GoneLow ==
  ASSUME NEW t, NEW c, NEW f, NEW rs, ~InFile(f, t)
  PROVE  Low(t, c, f, rs)
BY DEF Low, InFile

(* Nothing of what c waits for is lost to k.                                *)
Outlives(t, c, k, rs, ss) ==
    /\ Spent(rs, t) => Spent(ss, t)
    /\ Exempts(c, t) => Exempts(k, t)
    /\ ~Exempts(k, t) => /\ LiveIn(rs, t) \subseteq LiveIn(ss, t) \cup StoppedOf(k, t)
                         /\ StoppedOf(c, t) \subseteq StoppedOf(k, t)
                         /\ ComingOf(c, t) \subseteq ComingOf(k, t)

LEMMA CountedAreNotLive ==
  ASSUME NEW f, NEW rs, CompletedOK(f, rs), NEW e \in Entries(f), NEW t
  PROVE  LiveIn(rs, t) \cap e.completed = {}
BY DEF CompletedOK, LiveIn, HasEnded

LEMMA OutlivesLow ==
  ASSUME NEW t \in Tasks, NEW c \in Command, NEW k \in Command, NEW f, FileOK(f), NEW g,
         LowKept(t, f, g), NEW rs, NEW ss, CompletedOK(f, rs), Outlives(t, c, k, rs, ss),
         Low(t, c, f, rs)
  PROVE  Low(t, k, g, ss)
<1> SUFFICES ASSUME ~Exempts(k, t), ~Spent(ss, t), NEW e \in Entries(g), e.task = t, Awaits(g, e)
             PROVE  e.remaining
                      <= Cardinality(DueOf(t, ss, StoppedOf(k, t) \ e.completed, ComingOf(k, t)))
  BY DEF Low
<1>1. PICK o \in Entries(f) : /\ o.task = t /\ Awaits(f, o)
                              /\ o.remaining = e.remaining /\ o.completed = e.completed
  BY DEF LowKept
<1> DEFINE was == DueOf(t, rs, StoppedOf(c, t) \ o.completed, ComingOf(c, t))
           is == DueOf(t, ss, StoppedOf(k, t) \ o.completed, ComingOf(k, t))
<1>2. o.remaining <= Cardinality(was)
  BY <1>1 DEF Low, Outlives
<1>3. LiveIn(rs, t) \cap o.completed = {}
  BY <1>1, CountedAreNotLive
<1>4. was \subseteq is
  BY <1>3 DEF Outlives, DueOf
<1>5. IsFiniteSet(is) /\ Cardinality(is) \in Nat
  <2>1. StoppedOf(k, t) \ o.completed \in SUBSET RunIds /\ ComingOf(k, t) \in SUBSET Datasets
    BY CommandParts
  <2> QED BY <2>1, DueFinite
<1>6. o.remaining \in Nat
  BY <1>1, EntriesType
<1> HIDE DEF was, is
<1>7. Cardinality(was) \in Nat /\ Cardinality(was) <= Cardinality(is)
  BY <1>4, <1>5, FS_Subset, FS_CardinalityType
<1>8. o.remaining <= Cardinality(is)
  BY <1>2, <1>5, <1>6, <1>7
<1> QED BY <1>1, <1>8 DEF is

(* Runs to come are due each on its own.                                    *)
LEMMA ComingAdds ==
  ASSUME NEW t \in Tasks, NEW rs, NEW ds \in SUBSET Datasets
  PROVE  Cardinality(DueOf(t, rs, {}, ds)) = Cardinality(DueOf(t, rs, {}, {})) + Cardinality(ds)
<1> DEFINE L == DueOf(t, rs, {}, {})
           T == {<<t, d, 0>> : d \in ds}
           h == [d \in ds |-> <<t, d, 0>>]
<1>1. IsFiniteSet(ds)
  BY FileAssumption, FS_Subset
<1>2. {} \in SUBSET RunIds /\ {} \in SUBSET Datasets
  OBVIOUS
<1>3. IsFiniteSet(L) /\ Cardinality(L) \in Nat
  BY <1>2, DueFinite
<1>4. h \in Bijection(ds, T)
  BY DEF Bijection, Injection, IsInjective, Surjection
<1>5. DueOf(t, rs, {}, ds) = L \cup T
  BY DEF DueOf
<1>6. L \cap T = {}
  <2>1. L = LiveIn(rs, t)
    BY DEF DueOf
  <2>2. \A r \in RunIds : r[3] # 0
    BY RunIdParts, FileAssumption
  <2> QED BY <2>1, <2>2 DEF LiveIn
<1> HIDE DEF h, L, T
<1>7. IsFiniteSet(T) /\ Cardinality(T) = Cardinality(ds)
  <2>1. h \in Surjection(ds, T) /\ h \in Injection(ds, T)
    BY <1>4 DEF Bijection
  <2> QED BY ONLY <1>1, <2>1, FS_Surjection
<1>8. Cardinality(L \cup T) = Cardinality(L) + Cardinality(T) - Cardinality(L \cap T)
  BY ONLY <1>3, <1>7, FS_Union
<1>9. Cardinality(L \cap T) = 0 /\ Cardinality(ds) \in Nat
  BY <1>1, <1>6, FS_EmptySet, FS_CardinalityType
<1>10. Cardinality(L \cup T) = Cardinality(L) + Cardinality(ds)
  BY ONLY <1>3, <1>7, <1>8, <1>9
<1> QED BY <1>5, <1>10 DEF L

LEMMA GrownLow ==
  ASSUME NEW t \in Tasks, NEW c \in Command, NEW k, NEW f, FileOK(f), NEW g, NEW rs,
         NEW ds \in SUBSET Datasets, Grown(t, f, g, Cardinality(ds)),
         ComingOf(c, t) = {}, StoppedOf(c, t) = {}, ~Exempts(c, t),
         ComingOf(k, t) = ds, StoppedOf(k, t) = {}, Low(t, c, f, rs)
  PROVE  Low(t, k, g, rs)
<1> DEFINE n == Cardinality(ds)
           L == DueOf(t, rs, {}, {})
<1>1. \A S : {} \ S = {}
  OBVIOUS
<1> SUFFICES ASSUME ~Spent(rs, t), NEW e \in Entries(g), e.task = t, Awaits(g, e)
             PROVE  e.remaining <= Cardinality(DueOf(t, rs, {}, ds))
  BY <1>1 DEF Low
<1>2. IsFiniteSet(ds) /\ n \in Nat
  BY FileAssumption, FS_Subset, FS_CardinalityType
<1>3. Cardinality(L) \in Nat
  <2>1. {} \in SUBSET RunIds /\ {} \in SUBSET Datasets
    OBVIOUS
  <2> QED BY <2>1, DueFinite
<1>4. Cardinality(DueOf(t, rs, {}, ds)) = Cardinality(L) + n
  BY ComingAdds
<1> HIDE DEF L, n
<1>5. CASE e.remaining = n
  BY <1>2, <1>3, <1>4, <1>5
<1>6. CASE e.remaining # n
  <2>1. PICK o \in Entries(f) : o.task = t /\ Awaits(f, o) /\ e.remaining = o.remaining + n
    BY <1>6 DEF Grown, n
  <2>2. o.remaining <= Cardinality(L)
    BY <1>1, <2>1 DEF Low, L
  <2>3. o.remaining \in Nat
    BY <2>1, EntriesType
  <2> QED BY <1>2, <1>3, <1>4, <2>1, <2>2, <2>3
<1> QED BY <1>5, <1>6

(* What k no longer waits for, the entry has counted.                       *)
CountsDown(t, c, k, rs, ss, ids) ==
    /\ Spent(rs, t) => Spent(ss, t)
    /\ Exempts(c, t) => Exempts(k, t)
    /\ LiveIn(rs, t) \subseteq LiveIn(ss, t) \cup StoppedOf(k, t) \cup ids
    /\ StoppedOf(c, t) \subseteq StoppedOf(k, t) \cup ids
    /\ ComingOf(c, t) \subseteq ComingOf(k, t)

LEMMA CountedLow ==
  ASSUME NEW t \in Tasks, NEW c \in Command, NEW k \in Command, NEW f, FileOK(f), NEW g,
         NEW ids \in SUBSET RunIds, CountedIn(t, f, g, ids), NEW rs, NEW ss, CompletedOK(f, rs),
         CountsDown(t, c, k, rs, ss, ids), Low(t, c, f, rs)
  PROVE  Low(t, k, g, ss)
<1> SUFFICES ASSUME ~Exempts(k, t), ~Spent(ss, t), NEW e \in Entries(g), e.task = t, Awaits(g, e)
             PROVE  e.remaining
                      <= Cardinality(DueOf(t, ss, StoppedOf(k, t) \ e.completed, ComingOf(k, t)))
  BY DEF Low
<1>1. PICK o \in Entries(f) : /\ o.task = t /\ Awaits(f, o)
                              /\ e.remaining = o.remaining - Counts(o, ids)
                              /\ e.completed = o.completed \cup ids
  BY DEF CountedIn
<1> DEFINE new == ids \ o.completed
           was == DueOf(t, rs, StoppedOf(c, t) \ o.completed, ComingOf(c, t))
           is == DueOf(t, ss, StoppedOf(k, t) \ e.completed, ComingOf(k, t))
<1>2. o.remaining <= Cardinality(was)
  BY <1>1 DEF Low, CountsDown
<1>3. LiveIn(rs, t) \cap o.completed = {}
  BY <1>1, CountedAreNotLive
<1>4. was \subseteq is \cup new
  BY <1>1, <1>3 DEF CountsDown, DueOf
<1>5. IsFiniteSet(is) /\ Cardinality(is) \in Nat
  <2>1. StoppedOf(k, t) \ e.completed \in SUBSET RunIds /\ ComingOf(k, t) \in SUBSET Datasets
    BY CommandParts
  <2> QED BY <2>1, DueFinite
<1>6. IsFiniteSet(new) /\ Cardinality(new) \in Nat /\ e.remaining = o.remaining - Cardinality(new)
  BY <1>1, FileAssumption, FS_Subset, FS_CardinalityType DEF Counts
<1>7. o.remaining \in Nat
  BY <1>1, EntriesType
<1> HIDE DEF was, is, new
<1>8. Cardinality(is \cup new) = Cardinality(is) + Cardinality(new) - Cardinality(is \cap new)
  BY ONLY <1>5, <1>6, FS_Union
<1>9. IsFiniteSet(is \cup new) /\ Cardinality(is \cap new) \in Nat
  BY <1>5, <1>6, FS_Union, FS_Intersection, FS_CardinalityType
<1>10. Cardinality(was) \in Nat /\ Cardinality(was) <= Cardinality(is \cup new)
  BY <1>4, <1>9, FS_Subset, FS_CardinalityType
<1>11. e.remaining <= Cardinality(is)
  BY <1>2, <1>5, <1>6, <1>7, <1>8, <1>9, <1>10
<1> QED BY <1>11 DEF is

(* A trigger gives every dataset its next try, unless they are used up.     *)
LEMMA TriggersAll ==
  ASSUME NEW t \in Tasks, NEW rs, InOrder(rs), ~Spent(rs, t),
         NEW coming \in SUBSET Datasets, NEW ds \in SUBSET coming
  PROVE  Cardinality(DueOf(t, rs, {}, coming))
           <= Cardinality(DueOf(t, Triggered(rs, t, ds), {}, coming \ ds))
<1> USE FileAssumption
<1> DEFINE ss == Triggered(rs, t, ds)
           S == DueOf(t, rs, {}, coming)
           T == DueOf(t, ss, {}, coming \ ds)
           try(d) == CHOOSE r \in RunIds : r[1] = t /\ r[2] = d /\ IsNextTry(rs, r)
           h == [x \in S |-> IF x[3] = 0 /\ x[2] \in ds THEN try(x[2]) ELSE x]
<1>1. ASSUME NEW d \in Datasets
      PROVE  try(d) \in RunIds /\ try(d)[1] = t /\ try(d)[2] = d /\ IsNextTry(rs, try(d))
  <2>1. PICK k \in 1..(MaxTries + 1) : \A j \in 1..MaxTries : rs[<<t, d, j>>] = "absent" <=> k <= j
    BY DEF InOrder
  <2>2. MaxTries \in 1..MaxTries
    OBVIOUS
  <2>3. <<t, d, MaxTries>> \in RunIds
    BY <2>2, TryIsRun
  <2>5. rs[<<t, d, MaxTries>>] = "absent"
    BY DEF Spent
  <2>6. k \in 1..MaxTries
    BY <2>1, <2>2, <2>5
  <2>7. \A j \in 1..(k - 1) : j \in 1..MaxTries /\ rs[<<t, d, j>>] # "absent"
    BY <2>1, <2>6
  <2>8. IsNextTry(rs, <<t, d, k>>)
    BY <2>1, <2>6, <2>7 DEF IsNextTry
  <2>9. \E r \in RunIds : r[1] = t /\ r[2] = d /\ IsNextTry(rs, r)
    BY <2>6, <2>8, TryIsRun
  <2> QED BY <2>9
<1>2. {} \in SUBSET RunIds /\ coming \ ds \in SUBSET Datasets
  OBVIOUS
<1>3. IsFiniteSet(T)
  BY <1>2, DueFinite
<1>4. \A x \in LiveIn(rs, t) : x[3] # 0 /\ x \in LiveIn(ss, t) /\ ~IsNextTry(rs, x)
  <2> SUFFICES ASSUME NEW x \in LiveIn(rs, t)
               PROVE  x[3] # 0 /\ x \in LiveIn(ss, t) /\ ~IsNextTry(rs, x)
    OBVIOUS
  <2>1. x \in RunIds /\ x[1] = t /\ rs[x] \in ActiveStates
    BY DEF LiveIn
  <2>2. ~IsNextTry(rs, x)
    BY <2>1 DEF IsNextTry, ActiveStates
  <2>3. ss[x] = rs[x]
    BY <2>1, <2>2 DEF Triggered
  <2> QED BY <2>1, <2>2, <2>3, RunIdParts DEF LiveIn
<1>5. \A x \in S : x \in LiveIn(rs, t) \/ \E d \in coming : x = <<t, d, 0>>
  BY DEF DueOf
<1>6. ASSUME NEW x \in S
      PROVE  \/ x \in LiveIn(rs, t) /\ h[x] = x /\ x[3] # 0
             \/ x \notin LiveIn(rs, t) /\ x[1] = t /\ x[2] \in ds /\ x = <<t, x[2], 0>> /\ h[x] = try(x[2])
             \/ x \notin LiveIn(rs, t) /\ x[2] \in coming \ ds /\ x = <<t, x[2], 0>> /\ h[x] = x
  <2>1. CASE x \in LiveIn(rs, t)
    BY <1>4, <2>1
  <2>2. CASE x \notin LiveIn(rs, t)
    <3>1. PICK d \in coming : x = <<t, d, 0>>
      BY <1>5, <2>2
    <3>2. x[1] = t /\ x[2] = d /\ x[3] = 0
      BY <3>1
    <3> QED BY <2>2, <3>1, <3>2
  <2> QED BY <2>1, <2>2
<1>7. ASSUME NEW d \in ds
      PROVE  try(d) \in LiveIn(ss, t) /\ try(d) \notin LiveIn(rs, t) /\ try(d)[3] # 0 /\ try(d)[2] = d
  <2>1. try(d) \in RunIds /\ try(d)[1] = t /\ try(d)[2] = d /\ IsNextTry(rs, try(d))
    BY <1>1
  <2> HIDE DEF try
  <2>2. ss[try(d)] = "queued"
    BY <2>1 DEF Triggered
  <2> QED BY <1>4, <2>1, <2>2, RunIdParts DEF LiveIn, ActiveStates
<1> HIDE DEF try
<1>8. \A x \in S : h[x] \in T
  <2> SUFFICES ASSUME NEW x \in S PROVE h[x] \in T
    OBVIOUS
  <2> QED BY <1>4, <1>6, <1>7 DEF DueOf
<1>9. ASSUME NEW x \in S, NEW y \in S, h[x] = h[y] PROVE x = y
  <2> HIDE DEF h
  <2>1. CASE x \in LiveIn(rs, t)
    BY <1>6, <1>7, <1>9, <2>1
  <2>2. CASE x \notin LiveIn(rs, t) /\ x[2] \in ds
    BY <1>6, <1>7, <1>9, <2>2
  <2>3. CASE x \notin LiveIn(rs, t) /\ x[2] \notin ds
    BY <1>6, <1>7, <1>9, <2>3
  <2> QED BY <2>1, <2>2, <2>3
<1>10. h \in Injection(S, T)
  <2>1. h \in [S -> T]
    BY <1>8
  <2> HIDE DEF h, S, T
  <2> QED BY <1>9, <2>1 DEF Injection, IsInjective
<1> HIDE DEF h, S, T
<1>11. Cardinality(S) <= Cardinality(T)
  BY <1>3, <1>10, FS_Injection
<1> QED BY <1>11 DEF S, T
LEMMA SpentStays ==
  ASSUME NEW t \in Tasks, NEW rs, NEW ss, RunsGo(rs, ss), Spent(rs, t)
  PROVE  Spent(ss, t)
<1>1. PICK d \in Datasets : rs[<<t, d, MaxTries>>] # "absent"
  BY DEF Spent
<1>2. MaxTries \in 1..MaxTries
  BY FileAssumption
<1>3. <<t, d, MaxTries>> \in RunIds
  BY <1>2, TryIsRun
<1>4. ss[<<t, d, MaxTries>>] # "absent"
  BY <1>1, <1>3, EndedGoes
<1> QED BY <1>4 DEF Spent

LEMMA DueGrows ==
  ASSUME NEW t \in Tasks, NEW rs, NEW a, NEW b \in SUBSET RunIds, a \subseteq b,
         NEW c, NEW d \in SUBSET Datasets, c \subseteq d
  PROVE  /\ Cardinality(DueOf(t, rs, a, c)) \in Nat /\ Cardinality(DueOf(t, rs, b, d)) \in Nat
         /\ Cardinality(DueOf(t, rs, a, c)) <= Cardinality(DueOf(t, rs, b, d))
<1>1. IsFiniteSet(DueOf(t, rs, b, d)) /\ Cardinality(DueOf(t, rs, b, d)) \in Nat
  BY DueFinite
<1>2. DueOf(t, rs, a, c) \subseteq DueOf(t, rs, b, d)
  BY DEF DueOf
<1> QED BY <1>1, <1>2, FS_Subset, FS_CardinalityType

(* The runs of the task stay as they are.                                   *)
LEMMA LowAlike ==
  ASSUME NEW t \in Tasks, NEW c \in Command, NEW f, FileOK(f), NEW g, LowKept(t, f, g),
         NEW rs, NEW ss, \A r \in RunIds : r[1] = t => ss[r] = rs[r], CompletedOK(f, rs),
         Low(t, c, f, rs)
  PROVE  Low(t, c, g, ss)
<1>1. Spent(rs, t) => Spent(ss, t)
  <2> SUFFICES ASSUME NEW d \in Datasets, rs[<<t, d, MaxTries>>] # "absent"
               PROVE  ss[<<t, d, MaxTries>>] # "absent"
    BY DEF Spent
  <2>1. MaxTries \in 1..MaxTries
    BY FileAssumption
  <2> QED BY <2>1, TryIsRun
<1>2. LiveIn(rs, t) \subseteq LiveIn(ss, t)
  BY DEF LiveIn
<1>3. Outlives(t, c, c, rs, ss)
  BY <1>1, <1>2 DEF Outlives
<1> QED BY <1>3, OutlivesLow

(* A task that is activated waits for no more than is due and to come.      *)
Enough(t, g, rs) ==
    Spent(rs, t) \/ g.active.remaining <= Cardinality(DueOf(t, rs, {}, g.active.pending))

LEMMA LowActivated ==
  ASSUME NEW t \in Tasks, NEW c \in Command, NEW f, FileOK(f), NEW g, FileOK(g), NEW rs,
         Reckons(t, f, g, rs), Low(t, c, f, rs), ComingOf(c, t) = {}, StoppedOf(c, t) = {},
         ~Exempts(c, t)
  PROVE  Enough(t, g, rs)
<1>1. g.active.pending \in SUBSET Datasets /\ g.active.remaining \in Nat /\ {} \in SUBSET RunIds
  <2>1. g.active \in Entry
    BY EntryPlaces DEF Reckons, IsActive
  <2> QED BY <2>1 DEF Entry
<1>2. CASE \E o \in f.queue : o.task = t /\ o.pending = {} /\ o.remaining = g.active.remaining
  <2>1. PICK o \in f.queue : o.task = t /\ o.pending = {} /\ o.remaining = g.active.remaining
    BY <1>2
  <2>2. o \in Entries(f) /\ Awaits(f, o)
    BY <2>1, EntryPlaces
  <2>3. {} \ o.completed = {}
    OBVIOUS
  <2>4. Spent(rs, t) \/ o.remaining <= Cardinality(DueOf(t, rs, {}, {}))
    BY <2>1, <2>2, <2>3 DEF Low
  <2>5. /\ Cardinality(DueOf(t, rs, {}, {})) \in Nat
        /\ Cardinality(DueOf(t, rs, {}, g.active.pending)) \in Nat
        /\ Cardinality(DueOf(t, rs, {}, {})) <= Cardinality(DueOf(t, rs, {}, g.active.pending))
    BY <1>1, DueGrows
  <2> QED BY <1>1, <2>1, <2>4, <2>5 DEF Enough
<1>3. CASE g.active.remaining <= Cardinality(DueOf(t, rs, {}, g.active.pending))
  BY <1>3 DEF Enough
<1> QED BY <1>2, <1>3 DEF Reckons

LEMMA LowActive ==
  ASSUME NEW t \in Tasks, NEW k \in Command, NEW g, FileOK(g), IsActive(g, t), NEW rs,
         NEW ds, ds \subseteq ComingOf(k, t),
         Spent(rs, t) \/ g.active.remaining <= Cardinality(DueOf(t, rs, {}, ds))
  PROVE  Low(t, k, g, rs)
<1> SUFFICES ASSUME ~Spent(rs, t), NEW e \in Entries(g), e.task = t
             PROVE  e.remaining
                      <= Cardinality(DueOf(t, rs, StoppedOf(k, t) \ e.completed, ComingOf(k, t)))
  BY DEF Low
<1>1. e = g.active /\ e.remaining \in Nat
  BY ActiveAlone, EntriesType
<1>2. ComingOf(k, t) \in SUBSET Datasets /\ StoppedOf(k, t) \ e.completed \in SUBSET RunIds
  BY CommandParts
<1>3. /\ Cardinality(DueOf(t, rs, {}, ds)) \in Nat
      /\ Cardinality(DueOf(t, rs, StoppedOf(k, t) \ e.completed, ComingOf(k, t))) \in Nat
      /\ Cardinality(DueOf(t, rs, {}, ds))
           <= Cardinality(DueOf(t, rs, StoppedOf(k, t) \ e.completed, ComingOf(k, t)))
  BY <1>2, DueGrows
<1> QED BY <1>1, <1>3

(* Airflow triggers what is to come of the task that it activates.          *)
LEMMA LowStarts ==
  ASSUME NEW t \in Tasks, NEW d \in Command, NEW g, FileOK(g), IsActive(g, t), NEW rs,
         InOrder(rs), Enough(t, g, rs), NEW stopped, HandOver(g, rs, stopped)
  PROVE  Low(t, d, g, runs')
<1>1. PICK ds : ds = g.active.pending
  OBVIOUS
<1>2. g.active \in Entry /\ g.active.task = t /\ g.active # NoEntry
  BY EntryPlaces DEF IsActive
<1>3. ds \in SUBSET Datasets /\ g.active.remaining \in Nat /\ ds \in SUBSET ds /\ ds \ ds = {}
  BY <1>1, <1>2 DEF Entry
<1>4. runs' = Triggered(rs, t, ds)
  BY <1>1, <1>2 DEF HandOver
<1>5. Spent(rs, t) => Spent(runs', t)
  BY <1>4, TriggeredGo, SpentStays
<1>6. ASSUME ~Spent(rs, t) PROVE g.active.remaining <= Cardinality(DueOf(t, runs', {}, {}))
  <2>1. g.active.remaining <= Cardinality(DueOf(t, rs, {}, ds))
    BY <1>1, <1>6 DEF Enough
  <2>2. Cardinality(DueOf(t, rs, {}, ds)) <= Cardinality(DueOf(t, runs', {}, {}))
    BY <1>3, <1>4, <1>6, TriggersAll
  <2>3. {} \in SUBSET RunIds /\ {} \in SUBSET Datasets
    OBVIOUS
  <2>4. Cardinality(DueOf(t, rs, {}, ds)) \in Nat /\ Cardinality(DueOf(t, runs', {}, {})) \in Nat
    BY <1>3, <2>3, DueFinite
  <2> QED BY <1>3, <2>1, <2>2, <2>4
<1>7. {} \subseteq ComingOf(d, t)
  OBVIOUS
<1> QED BY <1>5, <1>6, <1>7, LowActive

-----------------------------------------------------------------------------
(* The invariant, and the steps.                                            *)
RunsFit(f, rs, cs) == InOrder(rs) /\ CompletedOK(f, rs) /\ \A p \in Procs : FailsIn(cs[p], rs)

LHolds == /\ RunsFit(file, runs, cmd)
          /\ "abort" \notin faults =>
               \A t \in Tasks, c \in Command : Works(t, c) => Low(t, c, file, runs)

LInv == overlap = {} => LHolds

LEMMA FitGoes ==
  ASSUME NEW f, FileOK(f), NEW g, Recalls(f, g), NEW rs, NEW ss, RunsGo(rs, ss),
         NEW cs \in [Procs -> Command], RunsFit(f, rs, cs)
  PROVE  RunsFit(g, ss, cs)
<1>1. InOrder(ss) /\ CompletedOK(g, ss)
  BY InOrderGoes, CompletedGo DEF RunsFit
<1>2. \A p \in Procs : FailsIn(cs[p], ss)
  BY FailsGo DEF RunsFit
<1> QED BY <1>1, <1>2 DEF RunsFit

LEMMA FitNext ==
  ASSUME NEW f, NEW rs, RunsFit(f, rs, cmd), cmd \in [Procs -> Command], NEW p \in Procs, NEW k,
         FailsIn(k, rs), cmd' = [cmd EXCEPT ![p] = k]
  PROVE  RunsFit(f, rs, cmd')
BY DEF RunsFit

CarriesLow(t, c, k) == Low(t, c, file, runs) => Low(t, k, file', runs')

LEMMA CarryLow ==
  ASSUME RInv, LHolds, Watch, overlap' = {}, faults \subseteq faults', NEW p \in Procs,
         NEW k \in Command, Shape(k), cmd' = [cmd EXCEPT ![p] = k],
         RunsFit(file', runs', cmd'),
         \A t \in Tasks : t \in Touches(cmd[p]) \cup Touches(k) => CarriesLow(t, cmd[p], k),
         \A t \in Tasks, d \in Command :
            t \notin Touches(cmd[p]) \cup Touches(k) /\ Shape(d) /\ Stays(t, d) => CarriesLow(t, d, d)
  PROVE  LHolds'
<1>1. cmd \in [Procs -> Command] /\ cmd'[p] = k /\ \A q \in Procs \ {p} : cmd'[q] = cmd[q]
  BY RInvParts
<1>2. Shape(cmd[p]) /\ cmd[p] \in Command /\ \A q \in Procs : cmd[q] \in Command /\ Shape(cmd[q])
  BY RInvParts
<1>3. Idle \in Command /\ Shape(Idle) /\ Touches(Idle) = {}
  BY IdleReady, ProcAssumption DEF Shape, Other, Touches, Idle
<1>4. Overlapping(cmd') = {} /\ Displaced = {} /\ overlap = {} /\ Overlapping(cmd) = {}
  <2>1. Overlapping(cmd') = {} /\ Displaced = {} /\ overlap = {}
    BY DEF Watch
  <2> QED BY <2>1 DEF RInv, Alone
<1>5. ASSUME "abort" \notin faults', NEW t \in Tasks, NEW d \in Command, Works(t, d)'
      PROVE  Low(t, d, file', runs')
  <2>1. \A e \in Command : Works(t, e) => Low(t, e, file, runs)
    BY <1>5 DEF LHolds
  <2>2. \/ \E q \in Procs : d = cmd'[q] /\ t \in Touches(d)
        \/ d = Idle /\ \A q \in Procs : t \notin Touches(cmd'[q])
    BY <1>5 DEF Works
  <2>3. CASE t \in Touches(cmd[p])
    <3>1. \A q \in Procs \ {p} : t \notin Touches(cmd[q])
      BY <1>4, <2>3 DEF Overlapping
    <3>2. Low(t, cmd[p], file, runs)
      BY <1>2, <2>1, <2>3 DEF Works
    <3>3. Low(t, k, file', runs')
      BY <2>3, <3>2 DEF CarriesLow
    <3>4. d = k \/ (d = Idle /\ t \notin Touches(k))
      BY <1>1, <2>2, <3>1
    <3> QED BY <3>3, <3>4, ForeignLow
  <2>4. CASE t \notin Touches(cmd[p]) /\ t \in Touches(k)
    <3>1. \A q \in Procs \ {p} : t \notin Touches(cmd'[q])
      BY <1>1, <1>4, <2>4 DEF Overlapping
    <3>2. d = k
      BY <1>1, <2>2, <2>4, <3>1
    <3>3. Low(t, Idle, file, runs)
      BY <1>1, <1>3, <2>1, <2>4, <3>1 DEF Works
    <3>4. Low(t, cmd[p], file, runs)
      BY <1>2, <2>4, <3>3, ForeignLow
    <3> QED BY <2>4, <3>2, <3>4 DEF CarriesLow
  <2>5. CASE t \notin Touches(cmd[p]) \cup Touches(k)
    <3>1. CASE \E q \in Procs : d = cmd'[q] /\ t \in Touches(d)
      <4>1. PICK q \in Procs : d = cmd'[q] /\ t \in Touches(d)
        BY <3>1
      <4>2. q # p /\ cmd'[q] = cmd[q] /\ d = cmd[q]
        BY <1>1, <2>5, <4>1
      <4>3. Low(t, d, file, runs) /\ Shape(d)
        BY <1>2, <2>1, <4>1, <4>2 DEF Works
      <4>4. Stays(t, d)
        BY <1>4, <4>1, <4>2 DEF Stays, Displaced
      <4> QED BY <2>5, <4>3, <4>4 DEF CarriesLow
    <3>2. CASE d = Idle /\ \A q \in Procs : t \notin Touches(cmd'[q])
      <4>1. Works(t, d)
        BY <1>1, <2>5, <3>2 DEF Works
      <4>2. Low(t, d, file, runs)
        BY <2>1, <4>1
      <4> QED BY <1>3, <2>5, <3>2, <4>2 DEF CarriesLow, Stays
    <3> QED BY <2>2, <3>1, <3>2
  <2> QED BY <2>3, <2>4, <2>5
<1> QED BY <1>5 DEF LHolds

LEMMA CarryLowAirflow ==
  ASSUME RInv, LHolds, Watch, overlap' = {}, UNCHANGED <<cmd, faults>>,
         RunsFit(file', runs', cmd),
         \A t \in Tasks, d \in Command : Shape(d) /\ Stays(t, d) => CarriesLow(t, d, d)
  PROVE  LHolds'
<1>1. \A q \in Procs : cmd[q] \in Command /\ Shape(cmd[q])
  BY RInvParts
<1>2. ASSUME "abort" \notin faults', NEW t \in Tasks, NEW d \in Command, Works(t, d)'
      PROVE  Low(t, d, file', runs')
  <2>1. t \notin Displaced
    BY DEF Watch
  <2>2. Works(t, d)
    BY <1>2 DEF Works
  <2>3. Low(t, d, file, runs)
    BY <1>2, <2>2 DEF LHolds
  <2>4. Shape(d)
    BY <1>1, <2>2 DEF Works, Shape, Other
  <2>5. Stays(t, d)
    BY <2>1, <2>2 DEF Works, Stays, Displaced
  <2> QED BY <2>3, <2>4, <2>5 DEF CarriesLow
<1> QED BY <1>2 DEF LHolds
-----------------------------------------------------------------------------
(* The steps that leave the entries, and what a command waits for, alone.   *)

LEMMA NextParts ==
  ASSUME RInv, RInv', NEW p \in Procs, NEW k, cmd' = [cmd EXCEPT ![p] = k]
  PROVE  /\ k \in Command /\ Shape(k) /\ FileOK(file') /\ cmd'[p] = k
         /\ cmd[p] \in Command /\ Shape(cmd[p]) /\ FileOK(file) /\ cmd \in [Procs -> Command]
<1>1. /\ cmd[p] \in Command /\ Shape(cmd[p]) /\ FileOK(file) /\ cmd \in [Procs -> Command]
      /\ cmd'[p] = k
  BY RInvParts
<1>2. cmd'[p] \in Command /\ Shape(cmd'[p]) /\ FileOK(file')
  BY DEF RInv, QInv, Core, CmdOK, Shapes
<1> QED BY <1>1, <1>2

LEMMA LowCalm ==
  ASSUME RInv, RInv', LHolds, Watch, overlap' = {}, faults \subseteq faults', NEW p \in Procs,
         NEW k, cmd' = [cmd EXCEPT ![p] = k], UNCHANGED runs, Recalls(file, file'),
         \A t \in Tasks : LowKept(t, file, file'), FailsIn(k, runs),
         \A t \in Tasks : Outlives(t, cmd[p], k, runs, runs)
  PROVE  LHolds'
<1>1. /\ k \in Command /\ Shape(k) /\ FileOK(file') /\ cmd'[p] = k
      /\ cmd[p] \in Command /\ Shape(cmd[p]) /\ FileOK(file) /\ cmd \in [Procs -> Command]
  BY NextParts
<1>2. RunsFit(file, runs, cmd) /\ CompletedOK(file, runs)
  BY DEF LHolds, RunsFit
<1>3. RunsFit(file', runs, cmd)
  BY <1>1, <1>2, SameGo, FitGoes
<1>4. RunsFit(file', runs', cmd')
  BY <1>1, <1>3, FitNext
<1>5. \A t \in Tasks : CarriesLow(t, cmd[p], k)
  BY <1>1, <1>2, OutlivesLow DEF CarriesLow
<1>6. \A t \in Tasks, d \in Command : CarriesLow(t, d, d)
  BY <1>1, <1>2, LowAlike DEF CarriesLow
<1> QED BY <1>1, <1>4, <1>5, <1>6, CarryLow

(* A command that waits for nothing.                                        *)
Bare(c, t) == ComingOf(c, t) = {} /\ StoppedOf(c, t) = {} /\ ~Exempts(c, t)

BarePcs == {"idle", "pause", "list", "register", "refresh", "airflow", "erase_files", "erase_runs"}

LEMMA BareOf ==
  ASSUME NEW c \in Command, Shape(c), c.pc \in BarePcs \/ (c.pc = "hand_over" /\ c.ds = {})
  PROVE  \A t : Bare(c, t)
<1>1. c.pc \notin {"fail", "clear", "unpause", "trigger"}
  BY DEF BarePcs
<1>2. c.op = "stop_datasets" => c.ids = {}
  BY <1>1 DEF Shape, Registering, Stopping, Other, Idle
<1>3. \A t : ComingOf(c, t) = {}
  BY <1>1 DEF ComingOf, BarePcs
<1> QED BY <1>1, <1>2, <1>3 DEF Bare, StoppedOf, Exempts

LEMMA LowBare ==
  ASSUME RInv, RInv', LHolds, Watch, overlap' = {}, faults \subseteq faults', NEW p \in Procs,
         NEW k, cmd' = [cmd EXCEPT ![p] = k], UNCHANGED runs, Recalls(file, file'),
         \A t \in Tasks : LowKept(t, file, file'), FailsIn(k, runs),
         cmd[p].pc \in BarePcs \/ (cmd[p].pc = "hand_over" /\ cmd[p].ds = {})
  PROVE  LHolds'
<1>1. \A t : Bare(cmd[p], t)
  BY RInvParts, BareOf
<1>2. \A t \in Tasks : Outlives(t, cmd[p], k, runs, runs)
  BY <1>1 DEF Outlives, Bare
<1> QED BY <1>2, LowCalm

LEMMA LowQuiet ==
  ASSUME RInv, RInv', LHolds, Watch, overlap' = {}, faults \subseteq faults', NEW p \in Procs,
         NEW k, cmd' = [cmd EXCEPT ![p] = k], UNCHANGED <<file, runs>>, FailsIn(k, runs),
         cmd[p].pc \in BarePcs \/ (cmd[p].pc = "hand_over" /\ cmd[p].ds = {})
  PROVE  LHolds'
<1>1. Recalls(file, file') /\ \A t \in Tasks : LowKept(t, file, file')
  BY SameRecalls, SameLowKept
<1> QED BY <1>1, LowBare

LEMMA NoFailsIn == \A k, rs : k.pc # "fail" => FailsIn(k, rs)
BY DEF FailsIn

LEMMA LowOfStart ==
  ASSUME RInv, RInv', LHolds, Watch, overlap' = {}, NEW p \in Procs, Start(p)
  PROVE  LHolds'
<1>1. PICK k : Begin(p, k) /\ Shape(k) /\ Quiet(k)
  BY StartQuiet
<1>2. /\ cmd' = [cmd EXCEPT ![p] = k] /\ UNCHANGED <<file, runs>> /\ faults \subseteq faults'
      /\ k.pc # "fail" /\ cmd[p] = Idle
  BY <1>1 DEF Begin, Quiet, Start, CanBegin
<1>3. Idle.pc \in BarePcs
  BY DEF Idle, BarePcs
<1> QED BY <1>2, <1>3, NoFailsIn, LowQuiet

LEMMA LowOfGoto ==
  ASSUME RInv, RInv', LHolds, Watch, overlap' = {}, NEW p \in Procs,
         PauseDag(p) \/ EraseFiles(p) \/ PauseFails(p) \/ CleanupWithoutAirflow(p)
  PROVE  LHolds'
<1>1. PICK pc : /\ cmd' = [cmd EXCEPT ![p] = [cmd[p] EXCEPT !.pc = pc]] /\ UNCHANGED <<file, runs>>
                /\ faults \subseteq faults' /\ pc # "fail"
                /\ cmd[p].pc \in {"pause", "airflow", "erase_files"}
  <2>1. CASE PauseDag(p)
    <3>1. PICK pc \in {"register", "list"} : Goto(p, pc)
      BY <2>1 DEF PauseDag
    <3> QED BY <2>1, <3>1 DEF PauseDag, At, Goto
  <2>2. CASE EraseFiles(p)
    BY <2>2 DEF EraseFiles, At, Goto
  <2>3. CASE PauseFails(p)
    BY <2>3 DEF PauseFails, At, Goto, Fault
  <2>4. CASE CleanupWithoutAirflow(p)
    BY <2>4 DEF CleanupWithoutAirflow, At, Goto, Fault
  <2> QED BY <2>1, <2>2, <2>3, <2>4
<1>2. PICK k : k = [cmd[p] EXCEPT !.pc = pc]
  OBVIOUS
<1>3. k.pc = pc
  BY <1>2, RInvParts DEF Command
<1>4. cmd[p].pc \in BarePcs
  BY <1>1 DEF BarePcs
<1> QED BY <1>1, <1>2, <1>3, <1>4, NoFailsIn, LowQuiet

LEMMA LowOfUnpause ==
  ASSUME RInv, RInv', LHolds, Watch, overlap' = {}, NEW p \in Procs, cmd[p].pc = "unpause",
         Goto(p, "trigger"), UNCHANGED <<file, runs>>, faults \subseteq faults'
  PROVE  LHolds'
<1>1. PICK c, k : c = cmd[p] /\ k = [c EXCEPT !.pc = "trigger"]
  OBVIOUS
<1>2. cmd' = [cmd EXCEPT ![p] = k] /\ c \in Command /\ Shape(c)
  BY <1>1, RInvParts DEF Goto
<1>3. k.op = c.op /\ k.task = c.task /\ k.ids = c.ids /\ k.ds = c.ds /\ k.pc = "trigger"
      /\ c.pc = "unpause"
  BY <1>1, <1>2 DEF Command
<1>4. \A t \in Tasks : Outlives(t, c, k, runs, runs)
  BY <1>3 DEF Outlives, Exempts, ComingOf, StoppedOf
<1>5. Recalls(file, file') /\ \A t \in Tasks : LowKept(t, file, file')
  BY SameRecalls, SameLowKept
<1>6. FailsIn(k, runs)
  BY <1>3, NoFailsIn
<1> QED BY <1>1, <1>2, <1>4, <1>5, <1>6, LowCalm

LEMMA LowOfHandOverEnds ==
  ASSUME RInv, RInv', LHolds, Watch, overlap' = {}, NEW p \in Procs, cmd[p].pc = "hand_over",
         cmd[p].ds = {}, UNCHANGED <<file, runs>>, faults \subseteq faults',
         cmd' = [cmd EXCEPT ![p] = AfterQueue([cmd[p] EXCEPT !.next = NoTask])]
  PROVE  LHolds'
<1>1. PICK c, b : c = cmd[p] /\ b = [c EXCEPT !.next = NoTask]
  OBVIOUS
<1>2. PICK k, e : k = AfterQueue(b) /\ e = [b EXCEPT !.pc = "erase_files"]
  OBVIOUS
<1>3. c \in Command
  BY <1>1, RInvParts
<1>4. e.pc = "erase_files" /\ Idle.pc = "idle"
  BY <1>1, <1>2, <1>3 DEF Command, Idle
<1>5. k = e \/ k = Idle
  BY <1>2 DEF AfterQueue
<1>6. FailsIn(k, runs)
  BY <1>4, <1>5, NoFailsIn
<1>7. cmd' = [cmd EXCEPT ![p] = k]
  BY <1>1, <1>2
<1> QED BY <1>6, <1>7, LowQuiet

LEMMA LowOfListRuns ==
  ASSUME RInv, RInv', LHolds, Watch, overlap' = {}, NEW p \in Procs, ListRuns(p)
  PROVE  LHolds'
<1>1. PICK c, ids : c = cmd[p] /\ ids = {r \in Live(c.task) : r[2] \in c.ds}
  OBVIOUS
<1>2. PICK k : k = [c EXCEPT !.pc = "fail", !.ids = ids, !.left = ids, !.ds = {}]
  OBVIOUS
<1>3. c.pc = "list" /\ cmd' = [cmd EXCEPT ![p] = k] /\ UNCHANGED <<file, runs>>
      /\ faults \subseteq faults' /\ c \in Command
  BY <1>1, <1>2, RInvParts DEF ListRuns, At
<1>4. k.ids = ids /\ k.left = ids
  BY <1>2, <1>3 DEF Command
<1>5. FailsIn(k, runs)
  BY <1>1, <1>4 DEF FailsIn, Live, ActiveStates
<1>6. c.pc \in BarePcs
  BY <1>3 DEF BarePcs
<1> QED BY <1>1, <1>3, <1>5, <1>6, LowQuiet

LEMMA LowOfAbort ==
  ASSUME RInv, RInv', LHolds, NEW p \in Procs, Abort(p)
  PROVE  LHolds'
<1>1. cmd' = [cmd EXCEPT ![p] = Idle] /\ UNCHANGED <<file, runs>> /\ "abort" \in faults'
  BY DEF Abort, End, Fault
<1>2. cmd \in [Procs -> Command] /\ Idle.pc = "idle" /\ RunsFit(file, runs, cmd)
  BY RInvParts DEF LHolds, Idle
<1>3. FailsIn(Idle, runs)
  BY <1>2, NoFailsIn
<1>4. RunsFit(file, runs, cmd')
  BY <1>1, <1>2, <1>3, FitNext
<1> QED BY <1>1, <1>4 DEF LHolds
-----------------------------------------------------------------------------
(* Registering, triggering and failing runs.                                *)

LEMMA LowOfRegistered ==
  ASSUME RInv, RInv', LHolds, Watch, overlap' = {}, faults \subseteq faults', NEW p \in Procs,
         At(p, "register"), NEW c, c = cmd[p], NEW k, cmd' = [cmd EXCEPT ![p] = k],
         UNCHANGED runs, NEW f, f = Refresh(file, config), Recalls(f, file'),
         Grown(c.task, f, file', Cardinality(c.ds)),
         \A t : t # c.task => LowKept(t, f, file'),
         k.op = c.op, k.task = c.task, k.next = NoTask, k.ids = {}, k.ds = c.ds,
         k.pc \in {"unpause", "trigger"}
  PROVE  LHolds'
<1>1. /\ k \in Command /\ Shape(k) /\ FileOK(file')
      /\ c \in Command /\ Shape(c) /\ FileOK(file) /\ cmd \in [Procs -> Command] /\ FileOK(f)
  BY NextParts, RInvParts
<1>2. /\ c.task \in Tasks /\ c.next = NoTask /\ c.ds \in SUBSET Datasets
      /\ c.op \in {"submit", "resume"} /\ c.pc = "register"
  BY RegisterParts DEF RInv
<1>3. RunsFit(file, runs, cmd) /\ CompletedOK(file, runs)
  BY DEF LHolds, RunsFit
<1>4. Recalls(file, f) /\ \A t : LowKept(t, file, f)
  BY <1>1, RefreshLow
<1>5. Recalls(file, file')
  BY <1>4, RecallsTrans
<1>6. FailsIn(k, runs)
  BY NoFailsIn
<1>7. RunsFit(file', runs', cmd')
  BY <1>1, <1>3, <1>5, <1>6, SameGo, FitGoes, FitNext
<1>8. c.pc \in BarePcs
  BY <1>2 DEF BarePcs
<1>9. ASSUME NEW t \in Tasks, t \in Touches(c) \cup Touches(k), Low(t, c, file, runs)
      PROVE  Low(t, k, file', runs)
  <2>1. t = c.task
    BY <1>2, <1>9, TouchesOf, ProcAssumption
  <2>2. Low(t, c, f, runs)
    BY <1>1, <1>3, <1>4, <1>9, LowAlike
  <2>3. Bare(c, t)
    BY <1>1, <1>8, BareOf
  <2>4. ComingOf(k, t) = c.ds /\ StoppedOf(k, t) = {}
    BY <2>1 DEF ComingOf, StoppedOf
  <2> QED BY <1>1, <1>2, <2>1, <2>2, <2>3, <2>4, GrownLow DEF Bare
<1>10. ASSUME NEW t \in Tasks, NEW d \in Command, t \notin Touches(c) \cup Touches(k)
       PROVE  CarriesLow(t, d, d)
  <2>1. t # c.task
    BY <1>2, <1>10, TouchesOf
  <2>2. LowKept(t, file, file')
    BY <1>4, <2>1, LowKeptTrans
  <2> QED BY <1>1, <1>3, <2>2, LowAlike DEF CarriesLow
<1>11. \A t \in Tasks : t \in Touches(cmd[p]) \cup Touches(k) => CarriesLow(t, cmd[p], k)
  BY <1>9 DEF CarriesLow
<1> QED BY <1>1, <1>7, <1>10, <1>11, CarryLow

LEMMA LowOfRegisterStarts ==
  ASSUME RInv, RInv', LHolds, Watch, overlap' = {}, NEW p \in Procs, RegisterStarts(p)
  PROVE  LHolds'
<1>1. PICK c, f : c = cmd[p] /\ f = Refresh(file, config)
  OBVIOUS
<1>2. PICK k : k = [c EXCEPT !.pc = "unpause"]
  OBVIOUS
<1>3. /\ At(p, "register") /\ Starts(f, c.task)
      /\ file' = Started(f, c.task, Cardinality(c.ds), c.prio)
      /\ cmd' = [cmd EXCEPT ![p] = k] /\ UNCHANGED runs /\ faults \subseteq faults'
  BY <1>1, <1>2 DEF RegisterStarts, Goto
<1>4. /\ c \in Command /\ c.task \in Tasks /\ c.next = NoTask /\ c.ids = {} /\ c.prio \in Prios
      /\ Cardinality(c.ds) \in Nat \ {0}
  BY <1>1, <1>3, RegisterParts DEF RInv
<1>5. /\ k.op = c.op /\ k.task = c.task /\ k.next = NoTask /\ k.ids = {} /\ k.ds = c.ds
      /\ k.pc = "unpause"
  BY <1>2, <1>4 DEF Command
<1>6. FileOK(f)
  BY <1>1, RInvParts
<1>7. /\ Recalls(f, file') /\ Grown(c.task, f, file', Cardinality(c.ds))
      /\ \A t : t # c.task => LowKept(t, f, file')
  BY <1>3, <1>4, <1>6, StartedLow
<1> QED BY <1>1, <1>3, <1>5, <1>7, LowOfRegistered

LEMMA LowOfRegisterQueues ==
  ASSUME RInv, RInv', LHolds, Watch, overlap' = {}, NEW p \in Procs, RegisterQueues(p)
  PROVE  LHolds'
<1>1. PICK c, f : c = cmd[p] /\ f = Refresh(file, config)
  OBVIOUS
<1>2. PICK k : k = [c EXCEPT !.pc = "trigger"]
  OBVIOUS
<1>3. /\ At(p, "register") /\ ~Starts(f, c.task) /\ UNCHANGED runs /\ faults \subseteq faults'
  BY <1>1 DEF RegisterQueues
<1>4. PICK g \in Queued(f, c.task, Cardinality(c.ds), c.prio) :
        \/ file' = file /\ cmd' = [cmd EXCEPT ![p] = Idle]
        \/ file' = SoftPreempt(g) /\ cmd' = [cmd EXCEPT ![p] = k]
  BY <1>1, <1>2 DEF RegisterQueues, Goto, End
<1>5. /\ c \in Command /\ c.task \in Tasks /\ c.next = NoTask /\ c.ids = {} /\ c.prio \in Prios
      /\ Cardinality(c.ds) \in Nat \ {0}
  BY <1>1, <1>3, RegisterParts DEF RInv
<1>6. /\ k.op = c.op /\ k.task = c.task /\ k.next = NoTask /\ k.ids = {} /\ k.ds = c.ds
      /\ k.pc = "trigger"
  BY <1>2, <1>5 DEF Command
<1>7. FileOK(f) /\ FileOK(g)
  <2>1. FileOK(f)
    BY <1>1, RInvParts
  <2> QED BY <1>3, <1>5, <2>1, QueuedOK
<1>8. CASE file' = file /\ cmd' = [cmd EXCEPT ![p] = Idle]
  <2>1. cmd[p].pc \in BarePcs /\ Idle.pc = "idle"
    BY <1>3 DEF At, BarePcs, Idle
  <2>2. FailsIn(Idle, runs)
    BY <2>1, NoFailsIn
  <2> QED BY <1>3, <1>8, <2>1, <2>2, LowQuiet
<1>9. CASE file' = SoftPreempt(g) /\ cmd' = [cmd EXCEPT ![p] = k]
  <2>1. /\ Recalls(f, g) /\ Grown(c.task, f, g, Cardinality(c.ds))
        /\ \A t : t # c.task => LowKept(t, f, g)
    BY <1>3, <1>5, <1>7, QueuedLow
  <2>2. Recalls(g, file') /\ \A t : LowKept(t, g, file')
    BY <1>7, <1>9, SoftPreemptLow
  <2>3. Recalls(f, file')
    BY <2>1, <2>2, RecallsTrans
  <2>4. \A t : t # c.task => LowKept(t, f, file')
    BY <2>1, <2>2, LowKeptTrans
  <2>5. Grown(c.task, f, file', Cardinality(c.ds))
    <3> SUFFICES ASSUME NEW e \in Entries(file'), e.task = c.task, Awaits(file', e)
                 PROVE  \/ e.remaining = Cardinality(c.ds)
                        \/ \E o \in Entries(f) : /\ o.task = c.task /\ Awaits(f, o)
                                                 /\ e.remaining = o.remaining + Cardinality(c.ds)
      BY DEF Grown
    <3>1. LowKept(c.task, g, file')
      BY <2>2
    <3>2. PICK i \in Entries(g) : /\ i.task = c.task /\ Awaits(g, i)
                                  /\ i.remaining = e.remaining
      BY <3>1 DEF LowKept
    <3> QED BY <2>1, <3>2 DEF Grown
  <2>6. k.pc \in {"unpause", "trigger"}
    BY <1>6
  <2> QED BY <1>1, <1>3, <1>6, <1>9, <2>3, <2>4, <2>5, <2>6, LowOfRegistered
<1> QED BY <1>4, <1>8, <1>9

(* The runs of ds are triggered: they are live instead of to come.          *)
LEMMA TriggeredLow ==
  ASSUME NEW t \in Tasks, NEW c \in Command, NEW k \in Command, NEW f, NEW rs, InOrder(rs),
         FileOK(f), NEW ds, ds \subseteq ComingOf(c, t), ComingOf(k, t) = ComingOf(c, t) \ ds,
         StoppedOf(c, t) = {}, StoppedOf(k, t) = {}, ~Exempts(c, t), Low(t, c, f, rs)
  PROVE  Low(t, k, f, Triggered(rs, t, ds))
<1> DEFINE ss == Triggered(rs, t, ds)
<1>1. Spent(rs, t) => Spent(ss, t)
  BY TriggeredGo, SpentStays
<1> SUFFICES ASSUME ~Spent(rs, t), NEW e \in Entries(f), e.task = t, Awaits(f, e)
             PROVE  e.remaining <= Cardinality(DueOf(t, ss, {}, ComingOf(k, t)))
  <2>1. \A S : {} \ S = {}
    OBVIOUS
  <2> QED BY <1>1, <2>1 DEF Low
<1>2. {} \ e.completed = {}
  OBVIOUS
<1>3. e.remaining <= Cardinality(DueOf(t, rs, {}, ComingOf(c, t))) /\ e.remaining \in Nat
  BY <1>2, EntriesType DEF Low
<1>4. ComingOf(c, t) \in SUBSET Datasets /\ ComingOf(k, t) \in SUBSET Datasets
  BY CommandParts
<1>5. Cardinality(DueOf(t, rs, {}, ComingOf(c, t))) <= Cardinality(DueOf(t, ss, {}, ComingOf(k, t)))
  BY <1>4, TriggersAll
<1>6. {} \in SUBSET RunIds
  OBVIOUS
<1>7. /\ Cardinality(DueOf(t, rs, {}, ComingOf(c, t))) \in Nat
      /\ Cardinality(DueOf(t, ss, {}, ComingOf(k, t))) \in Nat
  BY <1>4, <1>6, DueFinite
<1> QED BY <1>3, <1>5, <1>7

(* The runs of ds are triggered for task u, and p goes on from c to k.       *)
Triggers(p, c, k, u, ds) ==
    /\ c = cmd[p] /\ cmd' = [cmd EXCEPT ![p] = k] /\ UNCHANGED <<file, faults>>
    /\ runs' = Triggered(runs, u, ds) /\ u \in Touches(c) /\ k.pc # "fail"
    /\ c.pc \in {"trigger", "hand_over"} /\ c.op # "cleanup"
    /\ ds \subseteq ComingOf(c, u) /\ ComingOf(k, u) = ComingOf(c, u) \ ds
    /\ \A t \in Tasks \ {u} : ComingOf(c, t) = {}
    /\ StoppedOf(k, u) = {} /\ \A t : StoppedOf(c, t) = {}

LEMMA LowOfTrigger ==
  ASSUME RInv, RInv', LHolds, Watch, overlap' = {}, NEW p \in Procs, NEW c, NEW k,
         NEW u \in Tasks, NEW ds, Triggers(p, c, k, u, ds)
  PROVE  LHolds'
<1> USE DEF Triggers
<1>1. /\ k \in Command /\ Shape(k) /\ c \in Command /\ FileOK(file) /\ cmd \in [Procs -> Command]
  BY NextParts
<1>2. RunsFit(file, runs, cmd) /\ CompletedOK(file, runs) /\ InOrder(runs)
  BY DEF LHolds, RunsFit
<1>3. RunsGo(runs, runs') /\ FailsIn(k, runs')
  BY TriggeredGo, NoFailsIn
<1>4. RunsFit(file, runs', cmd)
  BY <1>1, <1>2, <1>3, SameRecalls, FitGoes
<1>5. RunsFit(file', runs', cmd')
  BY <1>1, <1>3, <1>4, FitNext
<1>6. \A t : ~Exempts(c, t)
  BY DEF Exempts
<1>7. ASSUME NEW t \in Tasks, t # u
      PROVE  \A r \in RunIds : r[1] = t => runs'[r] = runs[r]
  BY <1>7 DEF Triggered
<1>8. ASSUME NEW t \in Tasks, Low(t, c, file, runs) PROVE Low(t, k, file, runs')
  <2>1. CASE t = u
    BY <1>1, <1>2, <1>6, <1>8, <2>1, TriggeredLow
  <2>2. CASE t # u
    <3>1. LiveIn(runs, t) \subseteq LiveIn(runs', t)
      BY <1>7, <2>2 DEF LiveIn
    <3>2. Spent(runs, t) => Spent(runs', t)
      BY <1>3, SpentStays
    <3>3. Outlives(t, c, k, runs, runs')
      BY <1>6, <2>2, <3>1, <3>2 DEF Outlives
    <3> QED BY <1>1, <1>2, <1>8, <3>3, SameLowKept, OutlivesLow
  <2> QED BY <2>1, <2>2
<1>9. ASSUME NEW t \in Tasks, NEW d \in Command, t \notin Touches(c) \cup Touches(k)
      PROVE  CarriesLow(t, d, d)
  <2>1. \A r \in RunIds : r[1] = t => runs'[r] = runs[r]
    BY <1>7, <1>9
  <2> QED BY <1>1, <1>2, <2>1, SameLowKept, LowAlike DEF CarriesLow
<1>10. \A t \in Tasks : CarriesLow(t, cmd[p], k)
  BY <1>8 DEF CarriesLow
<1>11. faults \subseteq faults'
  OBVIOUS
<1> QED BY <1>1, <1>5, <1>9, <1>10, <1>11, CarryLow

LEMMA LowOfTriggerRun ==
  ASSUME RInv, RInv', LHolds, Watch, overlap' = {}, NEW p \in Procs, NEW d \in Datasets,
         TriggerRun(p, d)
  PROVE  LHolds'
<1>1. PICK c, j : c = cmd[p] /\ j = [c EXCEPT !.ds = @ \ {d}]
  OBVIOUS
<1>2. PICK k : k = IF c.ds = {d} THEN Idle ELSE j
  OBVIOUS
<1>3. /\ c.pc = "trigger" /\ d \in c.ds /\ runs' = Triggered(runs, c.task, {d})
      /\ cmd' = [cmd EXCEPT ![p] = k] /\ UNCHANGED <<file, faults>>
  BY <1>1, <1>2 DEF TriggerRun, At
<1>4. c \in Command /\ Shape(c)
  BY <1>1, RInvParts
<1>5. /\ c.op \in {"submit", "resume"} /\ c.task \in Tasks /\ c.next = NoTask /\ c.ids = {}
  BY <1>3, <1>4 DEF Shape, Registering, Stopping, Other, Idle
<1>6. j.op = c.op /\ j.task = c.task /\ j.ids = {} /\ j.pc = "trigger" /\ j.ds = c.ds \ {d}
  BY <1>1, <1>3, <1>4, <1>5 DEF Command
<1>7. Idle.pc = "idle" /\ Idle.op = "none"
  BY DEF Idle
<1>8. k.pc # "fail" /\ StoppedOf(k, c.task) = {} /\ \A t : StoppedOf(c, t) = {}
  BY <1>2, <1>5, <1>6, <1>7 DEF StoppedOf
<1>9. ComingOf(c, c.task) = c.ds /\ \A t \in Tasks \ {c.task} : ComingOf(c, t) = {}
  BY <1>3 DEF ComingOf
<1>10. ComingOf(k, c.task) = c.ds \ {d}
  BY <1>2, <1>3, <1>6, <1>7 DEF ComingOf
<1>11. c.task \in Touches(c)
  BY <1>5, TouchesOf
<1>12. {d} \subseteq ComingOf(c, c.task) /\ c.pc \in {"trigger", "hand_over"} /\ c.op # "cleanup"
       /\ ComingOf(k, c.task) = ComingOf(c, c.task) \ {d}
  BY <1>3, <1>5, <1>9, <1>10
<1>13. Triggers(p, c, k, c.task, {d})
  BY <1>1, <1>3, <1>8, <1>9, <1>11, <1>12 DEF Triggers
<1> QED BY <1>5, <1>13, LowOfTrigger

LEMMA LowOfTriggerNext ==
  ASSUME RInv, RInv', LHolds, Watch, overlap' = {}, NEW p \in Procs, NEW d \in Datasets,
         TriggerNext(p, d)
  PROVE  LHolds'
<1>1. PICK c : c = cmd[p]
  OBVIOUS
<1>2. PICK k : k = [c EXCEPT !.ds = @ \ {d}]
  OBVIOUS
<1>3. /\ c.pc = "hand_over" /\ d \in c.ds /\ runs' = Triggered(runs, c.next, {d})
      /\ cmd' = [cmd EXCEPT ![p] = k] /\ UNCHANGED <<file, faults>>
  BY <1>1, <1>2 DEF TriggerNext, At
<1>4. c \in Command /\ Shape(c)
  BY <1>1, RInvParts
<1>5. /\ c.op \in {"stop", "stop_datasets", "delete"} /\ c.task \in Tasks
      /\ c.next \in Tasks \ {c.task} /\ c.ids = {}
  BY <1>3, <1>4 DEF Shape, Registering, Stopping, Other, Idle
<1>6. k.op = c.op /\ k.next = c.next /\ k.ids = {} /\ k.pc = "hand_over" /\ k.ds = c.ds \ {d}
  BY <1>2, <1>3, <1>4, <1>5 DEF Command
<1>7. k.pc # "fail" /\ StoppedOf(k, c.next) = {} /\ \A t : StoppedOf(c, t) = {}
  BY <1>5, <1>6 DEF StoppedOf
<1>8. ComingOf(c, c.next) = c.ds /\ \A t \in Tasks \ {c.next} : ComingOf(c, t) = {}
  BY <1>3 DEF ComingOf
<1>9. {d} \subseteq ComingOf(c, c.next) /\ ComingOf(k, c.next) = ComingOf(c, c.next) \ {d}
  BY <1>3, <1>6, <1>8 DEF ComingOf
<1>10. c.next \in Touches(c) /\ c.op # "cleanup" /\ c.pc \in {"trigger", "hand_over"}
  BY <1>3, <1>5, TouchesOf
<1>11. Triggers(p, c, k, c.next, {d})
  BY <1>1, <1>3, <1>7, <1>8, <1>9, <1>10 DEF Triggers
<1> QED BY <1>5, <1>11, LowOfTrigger

LEMMA LowOfFailRun ==
  ASSUME RInv, RInv', LHolds, Watch, overlap' = {}, NEW p \in Procs, NEW x \in RunIds, FailRun(p, x)
  PROVE  LHolds'
<1>1. PICK c, k : c = cmd[p] /\ k = [c EXCEPT !.left = @ \ {x}]
  OBVIOUS
<1>2. /\ c.pc = "fail" /\ x \in c.left /\ runs' = [runs EXCEPT ![x] = "failed"]
      /\ cmd' = [cmd EXCEPT ![p] = k] /\ UNCHANGED <<file, faults>> /\ faults \subseteq faults'
  BY <1>1 DEF FailRun, At
<1>3. /\ k \in Command /\ Shape(k) /\ c \in Command /\ Shape(c) /\ FileOK(file)
      /\ cmd \in [Procs -> Command] /\ runs \in [RunIds -> RunStates]
  BY <1>1, <1>2, NextParts, RInvParts
<1>4. /\ c.op \in {"stop", "stop_datasets", "delete"} /\ c.task \in Tasks /\ c.next = NoTask
      /\ c.left \subseteq c.ids /\ \A r \in c.ids : r[1] = c.task
  BY <1>2, <1>3 DEF Shape, Registering, Stopping, Other, Idle
<1>5. k.op = c.op /\ k.task = c.task /\ k.next = NoTask /\ k.pc = "fail" /\ k.ids = c.ids
      /\ k.left = c.left \ {x}
  BY <1>1, <1>2, <1>3, <1>4 DEF Command
<1>6. x[1] = c.task /\ runs'[x] = "failed" /\ \A r \in RunIds : r # x => runs'[r] = runs[r]
  BY <1>2, <1>3, <1>4
<1>7. RunsFit(file, runs, cmd) /\ CompletedOK(file, runs) /\ FailsIn(c, runs)
  BY <1>1 DEF LHolds, RunsFit
<1>8. runs[x] # "absent"
  BY <1>2, <1>4, <1>7 DEF FailsIn
<1>9. RunsGo(runs, runs')
  BY <1>2, <1>3, <1>8, OneGoes DEF ActiveStates
<1>10. FailsIn(k, runs')
  <2>1. c.ids \in SUBSET RunIds
    BY <1>3 DEF Command
  <2> QED BY <1>2, <1>5, <1>6, <1>7, <2>1 DEF FailsIn, ActiveStates
<1>11. RunsFit(file, runs', cmd)
  BY <1>3, <1>7, <1>9, SameRecalls, FitGoes
<1>12. RunsFit(file', runs', cmd')
  BY <1>2, <1>3, <1>10, <1>11, FitNext
<1>13. ASSUME NEW t \in Tasks, t \in Touches(c) \cup Touches(k)
       PROVE  CarriesLow(t, c, k)
  <2>1. t = c.task
    BY <1>4, <1>5, <1>13, TouchesOf, ProcAssumption
  <2>2. Spent(runs, t) => Spent(runs', t)
    BY <1>9, SpentStays
  <2>3. Exempts(c, t) <=> Exempts(k, t)
    BY <1>2, <1>5 DEF Exempts
  <2>4. ~Exempts(k, t) => k.op = "stop_datasets"
    BY <1>4, <1>5, <2>1 DEF Exempts
  <2>5. StoppedOf(c, t) = StoppedOf(k, t) /\ (k.op = "stop_datasets" => x \in StoppedOf(k, t))
    BY <1>2, <1>4, <1>5, <2>1 DEF StoppedOf
  <2>6. LiveIn(runs, t) \subseteq LiveIn(runs', t) \cup {x}
    BY <1>6 DEF LiveIn
  <2>7. ComingOf(c, t) = {}
    BY <1>2 DEF ComingOf
  <2>8. Outlives(t, c, k, runs, runs')
    BY <2>2, <2>3, <2>4, <2>5, <2>6, <2>7 DEF Outlives
  <2> QED BY <1>2, <1>3, <1>7, <2>8, SameLowKept, OutlivesLow DEF CarriesLow
<1>14. ASSUME NEW t \in Tasks, NEW d \in Command, t \notin Touches(c) \cup Touches(k)
       PROVE  CarriesLow(t, d, d)
  <2>1. t # c.task
    BY <1>4, <1>14, TouchesOf
  <2>2. \A r \in RunIds : r[1] = t => runs'[r] = runs[r]
    BY <1>6, <2>1
  <2> QED BY <1>2, <1>3, <1>7, <2>2, SameLowKept, LowAlike DEF CarriesLow
<1>15. \A t \in Tasks : t \in Touches(cmd[p]) \cup Touches(k) => CarriesLow(t, cmd[p], k)
  BY <1>1, <1>13
<1>16. \A t \in Tasks, d \in Command :
         t \notin Touches(cmd[p]) \cup Touches(k) /\ Shape(d) /\ Stays(t, d) => CarriesLow(t, d, d)
  BY <1>1, <1>14
<1> QED BY <1>2, <1>3, <1>12, <1>15, <1>16, CarryLow
-----------------------------------------------------------------------------
(* Ends of commands that change the file or the runs as a whole.            *)

LEMMA LowOfRefreshQueue ==
  ASSUME RInv, RInv', LHolds, Watch, overlap' = {}, NEW p \in Procs, RefreshQueue(p)
  PROVE  LHolds'
<1>1. PICK f : f = Refresh(file, config)
  OBVIOUS
<1>2. /\ cmd[p].pc = "refresh" /\ cmd' = [cmd EXCEPT ![p] = Idle] /\ UNCHANGED <<runs, faults>>
      /\ file' = file \/ file' = SoftPreempt(f)
  BY <1>1 DEF RefreshQueue, At, End
<1>3. FileOK(file) /\ FileOK(f)
  BY <1>1, RInvParts
<1>4. Recalls(file, file') /\ \A t \in Tasks : LowKept(t, file, file')
  <2>1. Recalls(file, f) /\ \A t : LowKept(t, file, f)
    BY <1>1, <1>3, RefreshLow
  <2>2. CASE file' = file
    BY <2>2, SameRecalls, SameLowKept
  <2>3. CASE file' = SoftPreempt(f)
    <3>1. Recalls(f, file') /\ \A t : LowKept(t, f, file')
      BY <1>3, <2>3, SoftPreemptLow
    <3> QED BY <2>1, <3>1, RecallsTrans, LowKeptTrans
  <2> QED BY <1>2, <2>2, <2>3
<1>5. cmd[p].pc \in BarePcs /\ Idle.pc = "idle" /\ faults \subseteq faults'
  BY <1>2 DEF BarePcs, Idle
<1>6. FailsIn(Idle, runs)
  BY <1>5, NoFailsIn
<1> QED BY <1>2, <1>4, <1>5, <1>6, LowBare

(* An empty file waits for nothing.                                         *)
LEMMA LowOfEmpty ==
  ASSUME RInv, RInv', LHolds, Watch, overlap' = {}, NEW p \in Procs, file' = Empty,
         cmd' = [cmd EXCEPT ![p] = Idle], UNCHANGED runs, faults \subseteq faults'
  PROVE  LHolds'
<1>1. FileOK(file) /\ cmd \in [Procs -> Command] /\ Idle \in Command /\ Shape(Idle)
  BY NextParts
<1>2. Entries(file') = {}
  BY DEF Empty, Entries
<1>3. Recalls(file, file')
  BY <1>2 DEF Recalls
<1>4. FailsIn(Idle, runs')
  <2>1. Idle.pc # "fail"
    BY DEF Idle
  <2> QED BY <2>1, NoFailsIn
<1>5. RunsFit(file, runs, cmd)
  BY DEF LHolds
<1>6. RunsFit(file', runs', cmd)
  BY <1>1, <1>3, <1>5, SameGo, FitGoes
<1>7. RunsFit(file', runs', cmd')
  BY <1>1, <1>4, <1>6, FitNext
<1>8. \A t, c, k : CarriesLow(t, c, k)
  <2>1. \A t : ~InFile(file', t)
    BY <1>2 DEF InFile
  <2> QED BY <2>1, GoneLow DEF CarriesLow
<1> QED BY <1>1, <1>7, <1>8, CarryLow

LEMMA LowOfFailAllRuns ==
  ASSUME RInv, RInv', LHolds, Watch, overlap' = {}, NEW p \in Procs, FailAllRuns(p)
  PROVE  LHolds'
<1>1. PICK c, k : c = cmd[p] /\ k = [c EXCEPT !.pc = "clear"]
  OBVIOUS
<1>2. /\ c.pc = "airflow" /\ cmd' = [cmd EXCEPT ![p] = k] /\ UNCHANGED <<file, faults>>
      /\ runs' = [r \in RunIds |-> IF runs[r] \in ActiveStates THEN "failed" ELSE runs[r]]
  BY <1>1 DEF FailAllRuns, At, Goto
<1>3. /\ k \in Command /\ Shape(k) /\ c \in Command /\ Shape(c) /\ FileOK(file)
      /\ cmd \in [Procs -> Command] /\ runs \in [RunIds -> RunStates]
  BY <1>1, <1>2, NextParts, RInvParts
<1>4. c.op = "cleanup"
  BY <1>2, <1>3 DEF Shape, Registering, Stopping, Other, Idle
<1>5. k.pc = "clear"
  BY <1>1, <1>3 DEF Command
<1>6. RunsGo(runs, runs')
  BY <1>2, <1>3 DEF RunsGo, ActiveStates
<1>7. FailsIn(k, runs')
  BY <1>5, NoFailsIn
<1>8. RunsFit(file, runs, cmd)
  BY DEF LHolds
<1>9. RunsFit(file, runs', cmd)
  BY <1>3, <1>6, <1>8, SameRecalls, FitGoes
<1>10. RunsFit(file', runs', cmd')
  BY <1>2, <1>3, <1>7, <1>9, FitNext
<1>11. \A t \in Tasks : CarriesLow(t, cmd[p], k)
  BY <1>5 DEF CarriesLow, Low, Exempts
<1>12. \A t \in Tasks : t \in Touches(cmd[p]) \cup Touches(k)
  BY <1>1, <1>4 DEF Touches
<1> QED BY <1>2, <1>3, <1>10, <1>11, <1>12, CarryLow

(* The runs of a task that has no entry are erased.                         *)
LEMMA LowOfEraseRuns ==
  ASSUME RInv, RInv', LHolds, PHolds, overlap = {}, Watch, overlap' = {}, NEW p \in Procs,
         EraseRuns(p)
  PROVE  LHolds'
<1>1. PICK c, u : c = cmd[p] /\ u = c.task
  OBVIOUS
<1>2. /\ c.pc = "erase_runs" /\ cmd' = [cmd EXCEPT ![p] = Idle] /\ UNCHANGED <<file, faults>>
      /\ runs' = [r \in RunIds |-> IF r[1] = u THEN "absent" ELSE runs[r]]
  BY <1>1 DEF EraseRuns, At, End
<1>3. /\ Idle \in Command /\ Shape(Idle) /\ c \in Command /\ Shape(c) /\ FileOK(file)
      /\ cmd \in [Procs -> Command] /\ runs \in [RunIds -> RunStates]
      /\ \A q \in Procs : cmd[q] \in Command /\ Shape(cmd[q])
  BY <1>1, <1>2, NextParts, RInvParts
<1>4. u \in Tasks /\ c.op # "cleanup" /\ c.next = NoTask
  BY <1>1, <1>2, <1>3 DEF Shape, Registering, Stopping, Other, Idle
<1>5. ~InFile(file, u)
  BY <1>1, <1>2 DEF PHolds, Removes
<1>6. \A r \in RunIds : r[1] # u => runs'[r] = runs[r]
  BY <1>2
<1>7. InOrder(runs) /\ CompletedOK(file, runs) /\ \A q \in Procs : FailsIn(cmd[q], runs)
  BY DEF LHolds, RunsFit
<1>8. InOrder(runs')
  <2> SUFFICES ASSUME NEW t \in Tasks, NEW d \in Datasets
               PROVE  \E k \in 1..(MaxTries + 1) :
                        \A j \in 1..MaxTries : runs'[<<t, d, j>>] = "absent" <=> k <= j
    BY DEF InOrder
  <2>1. CASE t = u
    <3>1. \A j \in 1..MaxTries : runs'[<<t, d, j>>] = "absent"
      BY <1>2, <2>1, TryIsRun
    <3>2. 1 \in 1..(MaxTries + 1) /\ \A j \in 1..MaxTries : 1 <= j
      BY FileAssumption
    <3> QED BY <3>1, <3>2
  <2>2. CASE t # u
    <3>1. \A j \in 1..MaxTries : runs'[<<t, d, j>>] = runs[<<t, d, j>>]
      BY <1>6, <2>2, TryIsRun
    <3> QED BY <1>7, <3>1 DEF InOrder
  <2> QED BY <2>1, <2>2
<1>9. CompletedOK(file, runs')
  <2> SUFFICES ASSUME NEW e \in Entries(file), NEW r \in e.completed
               PROVE  r[1] = e.task /\ HasEnded(runs', r)
    BY <1>2 DEF CompletedOK
  <2>1. r[1] = e.task /\ HasEnded(runs, r)
    BY <1>7 DEF CompletedOK
  <2>2. e.task # u /\ r \in RunIds
    BY <1>3, <1>5, EntriesType DEF InFile
  <2> QED BY <1>6, <2>1, <2>2 DEF HasEnded
<1>10. \A q \in Procs : FailsIn(cmd'[q], runs')
  <2> SUFFICES ASSUME NEW q \in Procs PROVE FailsIn(cmd'[q], runs')
    OBVIOUS
  <2>1. CASE q = p
    <3>1. cmd'[q].pc # "fail"
      BY <1>2, <1>3, <2>1 DEF Idle
    <3> QED BY <3>1, NoFailsIn
  <2>2. CASE q # p
    <3>1. cmd'[q] = cmd[q] /\ cmd[q].task # u
      BY <1>1, <1>2, <1>3, <1>4, <2>2, NotShared
    <3> SUFFICES ASSUME cmd[q].pc = "fail" PROVE FailsIn(cmd[q], runs')
      BY <3>1 DEF FailsIn
    <3>2. \A r \in cmd[q].ids : r \in RunIds /\ r[1] = cmd[q].task
      BY <1>3 DEF Shape, Registering, Stopping, Other, Idle, Command
    <3>3. \A r \in cmd[q].ids : runs'[r] = runs[r]
      BY <1>6, <3>1, <3>2
    <3> QED BY <1>7, <3>3 DEF FailsIn
  <2> QED BY <2>1, <2>2
<1>11. RunsFit(file', runs', cmd')
  BY <1>2, <1>8, <1>9, <1>10 DEF RunsFit
<1>12. \A c1, k1 : CarriesLow(u, c1, k1)
  BY <1>2, <1>5, GoneLow DEF CarriesLow
<1>13. ASSUME NEW t \in Tasks, t # u, NEW d \in Command PROVE CarriesLow(t, d, d)
  <2>1. \A r \in RunIds : r[1] = t => runs'[r] = runs[r]
    BY <1>6, <1>13
  <2> QED BY <1>2, <1>3, <1>7, <2>1, SameLowKept, LowAlike DEF CarriesLow
<1>14. \A t \in Tasks : t \in Touches(cmd[p]) \cup Touches(Idle) <=> t = u
  <2>1. Touches(Idle) = {}
    BY <1>4, IdleViews
  <2> QED BY <1>1, <1>4, <2>1, TouchesOf, ProcAssumption
<1>15. \A t \in Tasks : t \in Touches(cmd[p]) \cup Touches(Idle) => CarriesLow(t, cmd[p], Idle)
  BY <1>12, <1>14
<1>16. \A t \in Tasks, d \in Command :
         t \notin Touches(cmd[p]) \cup Touches(Idle) /\ Shape(d) /\ Stays(t, d) => CarriesLow(t, d, d)
  BY <1>13, <1>14
<1>17. faults \subseteq faults'
  BY <1>2
<1> QED BY <1>2, <1>3, <1>11, <1>15, <1>16, <1>17, CarryLow
-----------------------------------------------------------------------------
(* The lock sections of a stopping command, which may hand over.            *)

Section(p, c, f, g, k) ==
    /\ c \in Command /\ c.op \in {"stop", "stop_datasets", "delete"} /\ c.task \in Tasks
    /\ c.next = NoTask /\ cmd[p].op = c.op /\ cmd[p].task = c.task /\ cmd[p].next = NoTask
    /\ f = Refresh(file, config) /\ file' = g /\ UNCHANGED runs /\ faults \subseteq faults'
    /\ k = HandedOver(c, f, g) /\ cmd' = [cmd EXCEPT ![p] = k]
    /\ CompletedOK(g, runs) /\ CarriesLow(c.task, cmd[p], k)
    /\ \A t \in Tasks \ {c.task} : LowOr(t, f, g, runs, IsActive(f, c.task))

LEMMA SectionLow ==
  ASSUME RInv, RInv', LHolds, Watch, overlap' = {}, NEW p \in Procs, NEW c, NEW f, NEW g, NEW k,
         Section(p, c, f, g, k)
  PROVE  LHolds'
<1>1. /\ c \in Command /\ c.op \in {"stop", "stop_datasets", "delete"} /\ c.task \in Tasks
      /\ c.next = NoTask /\ cmd[p].op = c.op /\ cmd[p].task = c.task /\ cmd[p].next = NoTask
      /\ f = Refresh(file, config) /\ file' = g /\ UNCHANGED runs /\ faults \subseteq faults'
      /\ k = HandedOver(c, f, g) /\ cmd' = [cmd EXCEPT ![p] = k]
      /\ CompletedOK(g, runs) /\ CarriesLow(c.task, cmd[p], k)
  BY DEF Section
<1>2. \A t \in Tasks \ {c.task} : LowOr(t, f, g, runs, IsActive(f, c.task))
  BY DEF Section
<1>3. /\ k \in Command /\ Shape(k) /\ FileOK(g) /\ FileOK(file) /\ FileOK(f)
      /\ cmd[p] \in Command /\ Shape(cmd[p]) /\ cmd \in [Procs -> Command]
  <2>1. k \in Command /\ Shape(k) /\ FileOK(file') /\ cmd \in [Procs -> Command]
    BY <1>1, NextParts
  <2> QED BY <1>1, <2>1, RInvParts
<1>4. /\ k.pc \notin {"register", "unpause", "fail", "clear"} /\ k.op # "cleanup"
      /\ Over(c, f, g) => /\ k.pc = "hand_over" /\ k.next = g.active.task
                          /\ k.ds = g.active.pending /\ k.task = c.task
      /\ ~Over(c, f, g) => \A t \in Tasks : t \in Touches(k) => t = c.task
  BY <1>1, <1>3, AfterSection
<1>5. \A t \in Tasks : t \in Touches(cmd[p]) <=> t = c.task
  BY <1>1, TouchesOf, ProcAssumption
<1>6. RunsFit(file, runs, cmd) /\ CompletedOK(file, runs)
  BY DEF LHolds, RunsFit
<1>7. RunsFit(file', runs', cmd')
  <2>1. RunsFit(g, runs, cmd)
    BY <1>1, <1>6 DEF RunsFit
  <2>2. FailsIn(k, runs)
    BY <1>4, NoFailsIn
  <2>3. RunsFit(g, runs, cmd')
    BY <1>1, <1>3, <2>1, <2>2, FitNext
  <2> QED BY <1>1, <2>3
<1>8. \A t \in Tasks : LowKept(t, file, f)
  BY <1>1, <1>3, RefreshLow
<1>9. ASSUME NEW t \in Tasks, t # c.task, IsActive(g, t), IsActive(f, c.task)
      PROVE  t = k.next /\ t \in Touches(k) /\ ComingOf(k, t) = g.active.pending
  <2>1. Over(c, f, g) /\ g.active.task = t
    BY <1>9 DEF Over, IsActive
  <2>2. t = k.next /\ k.pc = "hand_over" /\ k.ds = g.active.pending
    BY <1>4, <2>1
  <2> QED BY <1>4, <2>2, TouchesOf DEF ComingOf
<1>10. ASSUME NEW t \in Tasks, t \in Touches(cmd[p]) \cup Touches(k)
       PROVE  CarriesLow(t, cmd[p], k)
  <2>1. CASE t = c.task
    BY <1>1, <2>1
  <2>2. CASE t # c.task
    <3>1. Bare(cmd[p], t)
      <4>1. cmd[p].pc # "clear"
        BY <1>1, <1>3 DEF Shape, Registering, Stopping, Other, Idle
      <4> QED BY <1>1, <2>2, <4>1, ProcAssumption DEF Bare, ComingOf, StoppedOf, Exempts
    <3> SUFFICES ASSUME Low(t, cmd[p], file, runs) PROVE Low(t, k, g, runs)
      BY <1>1 DEF CarriesLow
    <3>2. CASE LowKept(t, f, g)
      <4>1. LowKept(t, file, g)
        BY <1>8, <3>2, LowKeptTrans
      <4>2. Outlives(t, cmd[p], k, runs, runs)
        BY <3>1 DEF Outlives, Bare
      <4> QED BY <1>3, <1>6, <4>1, <4>2, OutlivesLow
    <3>3. CASE IsActive(f, c.task) /\ Reckons(t, f, g, runs)
      <4>1. Low(t, cmd[p], f, runs)
        BY <1>3, <1>6, <1>8, LowAlike
      <4>2. Enough(t, g, runs)
        BY <1>3, <3>1, <3>3, <4>1, LowActivated DEF Bare
      <4>3. IsActive(g, t)
        BY <3>3 DEF Reckons
      <4>4. ComingOf(k, t) = g.active.pending
        BY <1>9, <2>2, <3>3, <4>3
      <4> QED BY <1>3, <4>2, <4>3, <4>4, LowActive DEF Enough
    <3> QED BY <1>2, <2>2, <3>2, <3>3 DEF LowOr
  <2> QED BY <2>1, <2>2
<1>11. ASSUME NEW t \in Tasks, NEW d \in Command, t \notin Touches(cmd[p]) \cup Touches(k)
       PROVE  CarriesLow(t, d, d)
  <2>1. t # c.task
    BY <1>5, <1>11
  <2>2. LowKept(t, f, g)
    BY <1>2, <1>9, <1>11, <2>1 DEF LowOr, Reckons
  <2>3. LowKept(t, file, g)
    BY <1>8, <2>2, LowKeptTrans
  <2> QED BY <1>1, <1>3, <1>6, <2>3, LowAlike DEF CarriesLow
<1>12. \A t \in Tasks : t \in Touches(cmd[p]) \cup Touches(k) => CarriesLow(t, cmd[p], k)
  BY <1>10
<1>13. \A t \in Tasks, d \in Command :
         t \notin Touches(cmd[p]) \cup Touches(k) /\ Shape(d) /\ Stays(t, d) => CarriesLow(t, d, d)
  BY <1>11
<1>14. faults \subseteq faults' /\ cmd' = [cmd EXCEPT ![p] = k]
  BY <1>1
<1> QED BY <1>3, <1>7, <1>12, <1>13, <1>14, CarryLow

LEMMA LowOfRemove ==
  ASSUME RInv, RInv', LHolds, Watch, overlap' = {}, NEW p \in Procs,
         RemoveFromQueue(p) \/ DeleteWithoutApi(p)
  PROVE  LHolds'
<1>1. PICK f : f = Refresh(file, config)
  OBVIOUS
<1>2. PICK c, s, g : /\ s \in {NoApi, Seen(runs)} /\ g \in Removed(f, c.task, s) /\ file' = g
                     /\ cmd' = [cmd EXCEPT ![p] = HandedOver(c, f, g)]
                     /\ c = cmd[p] \/ c = [cmd[p] EXCEPT !.ds = {}]
                     /\ cmd[p].op \in {"stop", "delete"} /\ cmd[p].pc \in {"fail", "list"}
  <2>1. CASE RemoveFromQueue(p)
    BY <1>1, <2>1 DEF RemoveFromQueue, At
  <2>2. CASE DeleteWithoutApi(p)
    <3>1. cmd[p] \in Command
      BY RInvParts
    <3>2. [cmd[p] EXCEPT !.ds = {}].task = cmd[p].task
      BY <3>1 DEF Command
    <3> QED BY <1>1, <2>2, <3>2 DEF DeleteWithoutApi, At
  <2> QED BY <2>1, <2>2
<1>3. UNCHANGED runs /\ faults \subseteq faults'
  BY DEF RemoveFromQueue, DeleteWithoutApi, Fault
<1>4. cmd[p] \in Command /\ Shape(cmd[p]) /\ FileOK(file) /\ FileOK(f)
  BY <1>1, RInvParts
<1>5. cmd[p].task \in Tasks /\ cmd[p].next = NoTask
  BY <1>2, <1>4 DEF Shape, Registering, Stopping, Other, Idle
<1>6. c \in Command /\ c.op = cmd[p].op /\ c.task = cmd[p].task /\ c.next = NoTask
  BY <1>2, <1>4, <1>5 DEF Command
<1>7. Recalls(f, g) /\ \A t : LowOr(t, f, g, runs, IsActive(f, c.task))
  BY <1>2, <1>4, RemovedLow
<1>8. CompletedOK(g, runs)
  <2>1. Recalls(file, g)
    BY <1>1, <1>4, <1>7, RefreshLow, RecallsTrans
  <2> QED BY <1>4, <2>1, SameGo, CompletedGo DEF LHolds, RunsFit
<1>9. \A k : CarriesLow(c.task, cmd[p], k)
  <2>1. ~InFile(g, c.task)
    BY <1>2, <1>4, RemovedGone
  <2> QED BY <1>2, <2>1, GoneLow DEF CarriesLow
<1>10. Section(p, c, f, g, HandedOver(c, f, g))
  BY <1>1, <1>2, <1>3, <1>5, <1>6, <1>7, <1>8, <1>9 DEF Section
<1> QED BY <1>10, SectionLow

(* An entry that counts runs that have ended.                               *)
LEMMA CountedOK ==
  ASSUME NEW f, NEW g, NEW u, NEW ids, CountedIn(u, f, g, ids), RecallsBut(u, f, g),
         NEW rs, CompletedOK(f, rs), \A r \in ids : r[1] = u /\ HasEnded(rs, r)
  PROVE  CompletedOK(g, rs)
<1> SUFFICES ASSUME NEW e \in Entries(g), NEW r \in e.completed
             PROVE  r[1] = e.task /\ HasEnded(rs, r)
  BY DEF CompletedOK
<1>1. CASE e.task = u
  <2>1. PICK o \in Entries(f) : o.task = u /\ e.completed = o.completed \cup ids
    BY <1>1 DEF CountedIn
  <2> QED BY <1>1, <2>1 DEF CompletedOK
<1>2. CASE e.task # u
  <2>1. PICK o \in Entries(f) : o.task = e.task /\ o.completed = e.completed
    BY <1>2 DEF RecallsBut
  <2> QED BY <2>1 DEF CompletedOK
<1> QED BY <1>1, <1>2

LEMMA LowOfMark ==
  ASSUME RInv, RInv', LHolds, Watch, overlap' = {}, NEW p \in Procs, MarkCompleted(p)
  PROVE  LHolds'
<1>1. PICK c, f, u : c = cmd[p] /\ f = Refresh(file, config) /\ u = c.task
  OBVIOUS
<1>2. /\ c.pc = "fail" /\ c.left = {} /\ c.op = "stop_datasets" /\ UNCHANGED <<runs, faults>>
      /\ IF ~Writes(p) THEN file' = file /\ cmd' = [cmd EXCEPT ![p] = Idle]
         ELSE \E g \in Marked(f, u, c.ids, Seen(runs)) :
                file' = g /\ cmd' = [cmd EXCEPT ![p] = HandedOver(c, f, g)]
  BY <1>1 DEF MarkCompleted, At, End
<1>3. c \in Command /\ Shape(c) /\ FileOK(file) /\ FileOK(f) /\ cmd \in [Procs -> Command]
  BY <1>1, RInvParts
<1>4. /\ u \in Tasks /\ c.next = NoTask /\ c.ids \in SUBSET RunIds /\ \A r \in c.ids : r[1] = u
  BY <1>1, <1>2, <1>3 DEF Shape, Registering, Stopping, Other, Idle, Command
<1>5. RunsFit(file, runs, cmd) /\ CompletedOK(file, runs) /\ FailsIn(c, runs)
  BY <1>1 DEF LHolds, RunsFit
<1>6. ~Exempts(c, u) /\ StoppedOf(c, u) = c.ids /\ ComingOf(c, u) = {}
  BY <1>1, <1>2 DEF Exempts, StoppedOf, ComingOf
<1>7. CASE ~Writes(p)
  <2>1. file' = file /\ cmd' = [cmd EXCEPT ![p] = Idle]
    BY <1>2, <1>7
  <2>2. Idle \in Command /\ Shape(Idle) /\ Touches(Idle) = {}
    BY <1>4, IdleViews, IdleQuiet
  <2>3. RunsFit(file', runs', cmd')
    <3>1. FailsIn(Idle, runs)
      BY NoFailsIn DEF Idle
    <3>2. RunsFit(file, runs, cmd')
      BY <1>3, <1>5, <2>1, <3>1, FitNext
    <3> QED BY <1>2, <2>1, <3>2
  <2>4. CarriesLow(u, cmd[p], Idle)
    <3>1. CASE c.ids = {}
      <4>1. Outlives(u, c, Idle, runs, runs)
        BY <1>6, <3>1 DEF Outlives
      <4> QED BY <1>1, <1>2, <1>3, <1>4, <1>5, <2>1, <2>2, <4>1, SameLowKept, OutlivesLow DEF CarriesLow
    <3>2. CASE Place(file, u) = "none"
      <4>1. ~InFile(file, u)
        BY <3>2 DEF Place, InFile, Entries, IsActive
      <4> QED BY <2>1, <4>1, GoneLow DEF CarriesLow
    <3> QED BY <1>1, <1>7, <3>1, <3>2 DEF Writes
  <2>5. ASSUME NEW t \in Tasks, t \in Touches(cmd[p]) \cup Touches(Idle)
        PROVE  CarriesLow(t, cmd[p], Idle)
    <3>1. t = u
      BY <1>1, <1>2, <1>4, <2>2, <2>5, TouchesOf, ProcAssumption
    <3> QED BY <2>4, <3>1
  <2>6. ASSUME NEW t \in Tasks, NEW d \in Command PROVE CarriesLow(t, d, d)
    BY <1>2, <2>1 DEF CarriesLow
  <2>7. faults \subseteq faults'
    BY <1>2
  <2> QED BY <2>1, <2>2, <2>3, <2>5, <2>6, <2>7, CarryLow
<1>8. CASE Writes(p)
  <2>1. PICK g \in Marked(f, u, c.ids, Seen(runs)) :
          file' = g /\ cmd' = [cmd EXCEPT ![p] = HandedOver(c, f, g)]
    BY <1>2, <1>8
  <2>2. PICK k : k = HandedOver(c, f, g)
    OBVIOUS
  <2>3. /\ CountedIn(u, f, g, c.ids) /\ RecallsBut(u, f, g)
        /\ \A t : t # u => LowOr(t, f, g, runs, IsActive(f, u) /\ UsedUp(f.active, c.ids))
    <3>1. Marks(f, u, c.ids, runs, g)
      BY <1>3, <1>4, <2>1 DEF Marks
    <3> QED BY <3>1, MarkedLow
  <2>4. CompletedOK(f, runs) /\ LowKept(u, file, f)
    BY <1>1, <1>3, <1>5, RefreshLow, SameGo, CompletedGo
  <2>5. CompletedOK(g, runs)
    <3>1. \A r \in c.ids : r[1] = u /\ HasEnded(runs, r)
      BY <1>2, <1>4, <1>5 DEF FailsIn, HasEnded
    <3> QED BY <2>3, <2>4, <3>1, CountedOK
  <2>6. CarriesLow(u, c, k)
    <3> SUFFICES ASSUME Low(u, c, file, runs) PROVE Low(u, k, g, runs)
      BY <1>2, <2>1 DEF CarriesLow
    <3>1. k \in Command
      BY <2>1, <2>2, NextParts
    <3>2. Low(u, c, f, runs)
      BY <1>3, <1>4, <1>5, <2>4, LowAlike
    <3>3. CountsDown(u, c, k, runs, runs, c.ids)
      BY <1>6 DEF CountsDown
    <3> QED BY <1>3, <1>4, <2>3, <2>4, <3>1, <3>2, <3>3, CountedLow
  <2>7. \A t \in Tasks \ {u} : LowOr(t, f, g, runs, IsActive(f, u))
    BY <2>3 DEF LowOr
  <2>8. Section(p, c, f, g, k)
    BY <1>1, <1>2, <1>3, <1>4, <2>1, <2>2, <2>5, <2>6, <2>7 DEF Section
  <2> QED BY <2>8, SectionLow
<1> QED BY <1>7, <1>8
-----------------------------------------------------------------------------
(* The steps of Airflow.                                                    *)

LEMMA LowOfStartRun ==
  ASSUME RInv, LHolds, Watch, overlap' = {}, NEW x \in RunIds, StartRun(x)
  PROVE  LHolds'
<1>1. /\ runs[x] = "queued" /\ runs' = [runs EXCEPT ![x] = "running"]
      /\ UNCHANGED <<file, cmd, faults>>
  BY DEF StartRun
<1>2. FileOK(file) /\ cmd \in [Procs -> Command] /\ runs \in [RunIds -> RunStates]
  BY RInvParts
<1>3. RunsGo(runs, runs')
  BY <1>1, <1>2, OneGoes DEF ActiveStates
<1>4. RunsFit(file, runs, cmd) /\ CompletedOK(file, runs)
  BY DEF LHolds, RunsFit
<1>5. RunsFit(file', runs', cmd)
  BY <1>1, <1>2, <1>3, <1>4, SameRecalls, FitGoes
<1>6. ASSUME NEW t \in Tasks, NEW d \in Command PROVE CarriesLow(t, d, d)
  <2>1. LiveIn(runs, t) \subseteq LiveIn(runs', t)
    BY <1>1, <1>2 DEF LiveIn, ActiveStates
  <2>2. Outlives(t, d, d, runs, runs')
    BY <1>3, <2>1, SpentStays DEF Outlives
  <2> QED BY <1>1, <1>2, <1>4, <2>2, SameLowKept, OutlivesLow DEF CarriesLow
<1> QED BY <1>1, <1>5, <1>6, CarryLowAirflow

(* The runs that a hand-over triggers come on top.                          *)
LEMMA HandOverLow ==
  ASSUME NEW g, FileOK(g), NEW rs, CompletedOK(g, rs), NEW stopped, HandOver(g, rs, stopped)
  PROVE  /\ RunsGo(rs, runs')
         /\ \A t \in Tasks, d \in Command : Low(t, d, g, rs) => Low(t, d, g, runs')
<1>1. RunsGo(rs, runs')
  BY TriggeredGo, SameGo DEF HandOver
<1>2. ASSUME NEW t \in Tasks, NEW d \in Command, Low(t, d, g, rs) PROVE Low(t, d, g, runs')
  <2>1. \A r \in RunIds : rs[r] \in ActiveStates => runs'[r] \in ActiveStates
    BY DEF HandOver, Triggered, ActiveStates
  <2>2. LiveIn(rs, t) \subseteq LiveIn(runs', t)
    BY <2>1 DEF LiveIn
  <2>3. Outlives(t, d, d, rs, runs')
    BY <1>1, <2>2, SpentStays DEF Outlives
  <2> QED BY <1>2, <2>3, SameLowKept, OutlivesLow
<1> QED BY <1>1, <1>2

(* A task that a hand-over of Airflow activates is one that no command      *)
(* works on.                                                                *)
LEMMA LowActivatedByAirflow ==
  ASSUME NEW t \in Tasks, NEW d \in Command, d = Idle, NEW f, FileOK(f), NEW g, FileOK(g),
         NEW rs, InOrder(rs), Reckons(t, f, g, rs), Low(t, d, f, rs),
         NEW stopped, HandOver(g, rs, stopped)
  PROVE  Low(t, d, g, runs')
<1>1. ComingOf(d, t) = {} /\ StoppedOf(d, t) = {}
  BY IdleViews
<1>2. ~Exempts(d, t)
  BY DEF Exempts, Idle
<1>3. Enough(t, g, rs)
  BY <1>1, <1>2, LowActivated
<1> QED BY <1>3, LowStarts DEF Reckons

LEMMA LowOfCountRun ==
  ASSUME RInv, RInv', LHolds, Watch, overlap' = {}, NEW x \in RunIds,
         NEW result \in {"success", "failed"}, CountRun(x, result)
  PROVE  LHolds'
<1>1. PICK f, rs, u : f = Refresh(file, config) /\ rs = [runs EXCEPT ![x] = result] /\ u = x[1]
  OBVIOUS
<1>2. /\ runs[x] = "running" /\ UNCHANGED <<cmd, faults>> /\ runs \in [RunIds -> RunStates]
      /\ cmd \in [Procs -> Command] /\ FileOK(file) /\ FileOK(f) /\ u \in Tasks
  BY <1>1, RInvParts, RunIdParts DEF CountRun
<1>3. PICK g \in Marked(f, u, {x}, Seen(rs)) :
        /\ file' = g
        /\ IF IsActive(f, u) /\ UsedUp(f.active, {x}) THEN HandOver(g, rs, {})
           ELSE runs' = rs /\ UNCHANGED paused
  BY <1>1 DEF CountRun
<1>4. FileOK(g)
  BY <1>3 DEF RInv, QInv, Core
<1>5. RunsGo(runs, rs)
  BY <1>1, <1>2, OneGoes DEF ActiveStates
<1>6. RunsFit(file, runs, cmd) /\ CompletedOK(file, runs)
  BY DEF LHolds, RunsFit
<1>7. Recalls(file, f) /\ \A t : LowKept(t, file, f)
  BY <1>1, <1>2, RefreshLow
<1>8. RunsFit(f, rs, cmd)
  BY <1>2, <1>5, <1>6, <1>7, FitGoes
<1>9. CompletedOK(f, rs) /\ InOrder(rs) /\ CompletedOK(f, runs)
  BY <1>2, <1>6, <1>7, <1>8, SameGo, CompletedGo DEF RunsFit
<1>10. /\ CountedIn(u, f, g, {x}) /\ RecallsBut(u, f, g)
       /\ \A t : t # u => LowOr(t, f, g, rs, IsActive(f, u) /\ UsedUp(f.active, {x}))
  <2>1. Marks(f, u, {x}, rs, g)
    BY <1>2, <1>3 DEF Marks
  <2> QED BY <2>1, MarkedLow
<1>11. CompletedOK(g, rs)
  <2>1. \A r \in {x} : r[1] = u /\ HasEnded(rs, r)
    BY <1>1, <1>2 DEF HasEnded, ActiveStates
  <2> QED BY <1>9, <1>10, <2>1, CountedOK
<1>12. /\ RunsGo(rs, runs')
       /\ \A t \in Tasks, d \in Command : Low(t, d, g, rs) => Low(t, d, g, runs')
  BY <1>3, <1>4, <1>11, HandOverLow, SameGo
<1>13. RunsFit(file', runs', cmd)
  <2>1. RunsFit(g, rs, cmd)
    BY <1>8, <1>11 DEF RunsFit
  <2> QED BY <1>2, <1>3, <1>4, <1>12, <2>1, SameRecalls, FitGoes
<1>14. ASSUME NEW d \in Command PROVE CarriesLow(u, d, d)
  <2> SUFFICES ASSUME Low(u, d, file, runs) PROVE Low(u, d, g, runs')
    BY <1>3 DEF CarriesLow
  <2>1. Low(u, d, f, runs)
    BY <1>2, <1>6, <1>7, LowAlike
  <2>2. LiveIn(runs, u) \subseteq LiveIn(rs, u) \cup {x}
    BY <1>1, <1>2 DEF LiveIn
  <2>3. CountsDown(u, d, d, runs, rs, {x})
    BY <1>2, <1>5, <2>2, SpentStays DEF CountsDown
  <2>4. Low(u, d, g, rs)
    BY <1>2, <1>9, <1>10, <2>1, <2>3, CountedLow
  <2> QED BY <1>2, <1>12, <2>4
<1>15. ASSUME NEW t \in Tasks, t # u, NEW d \in Command, Stays(t, d) PROVE CarriesLow(t, d, d)
  <2> SUFFICES ASSUME Low(t, d, file, runs) PROVE Low(t, d, g, runs')
    BY <1>3 DEF CarriesLow
  <2>1. \A r \in RunIds : r[1] = t => rs[r] = runs[r]
    BY <1>1, <1>2, <1>15
  <2>2. Low(t, d, f, rs)
    BY <1>2, <1>6, <1>7, <2>1, LowAlike
  <2>3. CASE LowKept(t, f, g)
    <3>1. Low(t, d, g, rs)
      BY <1>2, <1>9, <2>2, <2>3, LowAlike
    <3> QED BY <1>12, <3>1
  <2>4. CASE IsActive(f, u) /\ UsedUp(f.active, {x}) /\ Reckons(t, f, g, rs)
    <3>1. HandOver(g, rs, {})
      BY <1>3, <2>4
    <3>2. IsActive(g, t) /\ ~IsActive(f, t)
      BY <1>15, <2>4 DEF Reckons, IsActive
    <3>3. Place(file, t) = Place(f, t)
      <4>1. (IsActive(f, t) <=> IsActive(file, t)) /\ (InQueue(f, t) <=> InQueue(file, t))
        BY <1>1, <1>2, RefreshKept, RefreshOK
      <4> QED BY <4>1 DEF Place, InQueue
    <3>4. d = Idle
      BY <1>3, <1>15, <3>2, <3>3 DEF Stays, Place
    <3> QED BY <1>2, <1>4, <1>9, <2>2, <2>4, <3>1, <3>4, LowActivatedByAirflow
  <2> QED BY <1>10, <1>15, <2>3, <2>4 DEF LowOr
<1>16. \A t \in Tasks, d \in Command : Shape(d) /\ Stays(t, d) => CarriesLow(t, d, d)
  BY <1>14, <1>15
<1> QED BY <1>2, <1>13, <1>16, CarryLowAirflow

LEMMA LowOfDrainRun ==
  ASSUME RInv, RInv', LHolds, Watch, overlap' = {}, NEW x \in RunIds,
         NEW result \in {"success", "failed"}, DrainRun(x, result)
  PROVE  LHolds'
<1>1. PICK f, rs, u : f = Refresh(file, config) /\ rs = [runs EXCEPT ![x] = result] /\ u = x[1]
  OBVIOUS
<1>2. /\ runs[x] = "running" /\ UNCHANGED <<cmd, faults>> /\ runs \in [RunIds -> RunStates]
      /\ cmd \in [Procs -> Command] /\ FileOK(file) /\ FileOK(f) /\ u \in Tasks
      /\ IsActive(f, u) /\ Drains(f)
  BY <1>1, RInvParts, RunIdParts DEF DrainRun
<1>3. RunsGo(runs, rs) /\ \A r \in RunIds : r[1] # u => rs[r] = runs[r]
  BY <1>1, <1>2, OneGoes DEF ActiveStates
<1>4. RunsFit(file, runs, cmd) /\ CompletedOK(file, runs)
  BY DEF LHolds, RunsFit
<1>5. Recalls(file, f) /\ \A t : LowKept(t, file, f)
  BY <1>1, <1>2, RefreshLow
<1>6. \A t \in Tasks : /\ Place(file, t) = Place(f, t)
                       /\ IsActive(file, t) <=> IsActive(f, t)
  <2> SUFFICES ASSUME NEW t \in Tasks
               PROVE  Place(file, t) = Place(f, t) /\ (IsActive(file, t) <=> IsActive(f, t))
    OBVIOUS
  <2>1. (IsActive(f, t) <=> IsActive(file, t)) /\ (InQueue(f, t) <=> InQueue(file, t))
    BY <1>1, <1>2, RefreshKept, RefreshOK
  <2> QED BY <2>1 DEF Place, InQueue
<1>7. file.active # NoEntry /\ file.active.draining
  <2>1. IsActive(file, u)
    BY <1>2, <1>6
  <2>2. f.active.draining = file.active.draining
    BY <1>1, <1>2, <2>1, RefreshUpToDate DEF IsActive
  <2> QED BY <1>2, <2>1, <2>2 DEF Drains, IsActive
<1>8. ASSUME NEW t \in Tasks, NEW d \in Command, Low(t, d, file, runs)
      PROVE  Low(t, d, file, rs) /\ Low(t, d, f, rs)
  <2>1. CASE t # u
    BY <1>2, <1>3, <1>4, <1>5, <1>8, <2>1, SameLowKept, LowAlike
  <2>2. CASE t = u
    <3>1. ASSUME NEW h \in {file, f}, NEW e \in Entries(h), e.task = u PROVE ~Awaits(h, e)
      <4>1. FileOK(h) /\ IsActive(h, u) /\ h.active.draining
        BY <1>2, <1>6, <1>7, <3>1 DEF Drains
      <4>2. e = h.active
        BY <3>1, <4>1, ActiveAlone
      <4> QED BY <4>1, <4>2, EntryPlaces DEF IsActive
    <3> QED BY <2>2, <3>1 DEF Low
  <2> QED BY <2>1, <2>2
<1>9. CASE \E o \in Live(u) \ {x} : runs[o] = "running"
  <2>1. runs' = rs /\ file' = file
    BY <1>1, <1>9 DEF DrainRun
  <2>2. RunsFit(file', runs', cmd)
    BY <1>2, <1>3, <1>4, <2>1, SameRecalls, FitGoes
  <2>3. \A t \in Tasks, d \in Command : CarriesLow(t, d, d)
    BY <1>8, <2>1 DEF CarriesLow
  <2> QED BY <1>2, <2>2, <2>3, CarryLowAirflow
<1>10. CASE ~\E o \in Live(u) \ {x} : runs[o] = "running"
  <2>1. PICK g \in Drained(f, Seen(rs)) : file' = g /\ HandOver(g, rs, {u})
    BY <1>1, <1>10 DEF DrainRun
  <2>2. FileOK(g) /\ f.active # NoEntry
    BY <1>2, <2>1 DEF RInv, QInv, Core, IsActive
  <2>3. Recalls(f, g) /\ \A t : IF IsActive(g, t) THEN Reckons(t, f, g, rs) ELSE LowKept(t, f, g)
    BY <1>2, <2>1, <2>2, DrainedLow
  <2>4. RunsFit(g, rs, cmd)
    BY <1>2, <1>3, <1>4, <1>5, <2>3, RecallsTrans, FitGoes
  <2>5. InOrder(rs) /\ CompletedOK(g, rs) /\ CompletedOK(f, rs)
    <3>1. RunsFit(f, rs, cmd)
      BY <1>2, <1>3, <1>4, <1>5, FitGoes
    <3> QED BY <2>4, <3>1 DEF RunsFit
  <2>6. /\ RunsGo(rs, runs')
        /\ \A t \in Tasks, d \in Command : Low(t, d, g, rs) => Low(t, d, g, runs')
    BY <2>1, <2>2, <2>5, HandOverLow
  <2>7. RunsFit(file', runs', cmd)
    BY <1>2, <2>1, <2>2, <2>4, <2>6, SameRecalls, FitGoes
  <2>8. g.active # NoEntry => ~g.active.draining
    <3>1. PICK at \in LastPlaces(f.queue) :
            g \in Advances(f.queue \cup {Preempted(f.active, at)}, Seen(rs))
      BY <2>1 DEF Drained
    <3>2. f.active \in Entry /\ f.queue \in SUBSET Entry /\ at \in 1..MaxRank
      BY <1>2, <2>2 DEF FileOK, File, LastPlaces
    <3>3. f.queue \cup {Preempted(f.active, at)} \in SUBSET Entry
      BY <3>2, PreemptedType
    <3> QED BY <3>1, <3>3, AdvancesEntries
  <2>9. ASSUME NEW t \in Tasks, NEW d \in Command, Stays(t, d) PROVE CarriesLow(t, d, d)
    <3> SUFFICES ASSUME Low(t, d, file, runs) PROVE Low(t, d, g, runs')
      BY <2>1 DEF CarriesLow
    <3>1. Low(t, d, f, rs)
      BY <1>8
    <3>2. CASE IsActive(g, t)
      <4>1. d = Idle
        <5>1. CASE t = u
          <6>1. Restarted(t)
            BY <1>2, <1>6, <1>7, <2>1, <2>8, <3>2, <5>1 DEF Restarted, IsActive
          <6> QED BY <2>9, <6>1 DEF Stays
        <5>2. CASE t # u
          <6>1. ~IsActive(f, t)
            BY <1>2, <5>2 DEF IsActive
          <6> QED BY <1>6, <2>1, <2>9, <3>2, <6>1 DEF Stays, Place
        <5> QED BY <5>1, <5>2
      <4> QED BY <1>2, <2>1, <2>2, <2>3, <2>5, <3>1, <3>2, <4>1, LowActivatedByAirflow
    <3>3. CASE ~IsActive(g, t)
      <4>1. Low(t, d, g, rs)
        BY <1>2, <2>3, <2>5, <3>1, <3>3, LowAlike
      <4> QED BY <2>6, <4>1
    <3> QED BY <3>2, <3>3
  <2> QED BY <1>2, <2>7, <2>9, CarryLowAirflow
<1> QED BY <1>9, <1>10
-----------------------------------------------------------------------------
(* The invariant, and what it says.                                         *)

LEMMA InitLow == Init => LInv
<1> SUFFICES ASSUME Init PROVE LHolds
  BY DEF LInv
<1>1. Entries(file) = {} /\ \A r \in RunIds : runs[r] = "absent"
  BY DEF Init, Empty, Entries
<1>2. InOrder(runs)
  <2> SUFFICES ASSUME NEW t \in Tasks, NEW d \in Datasets
               PROVE  \E k \in 1..(MaxTries + 1) :
                        \A j \in 1..MaxTries : runs[<<t, d, j>>] = "absent" <=> k <= j
    BY DEF InOrder
  <2>1. \A j \in 1..MaxTries : runs[<<t, d, j>>] = "absent"
    BY <1>1, TryIsRun
  <2>2. 1 \in 1..(MaxTries + 1) /\ \A j \in 1..MaxTries : 1 <= j
    BY FileAssumption
  <2> QED BY <2>1, <2>2
<1>3. CompletedOK(file, runs)
  BY <1>1 DEF CompletedOK
<1>4. \A p \in Procs : FailsIn(cmd[p], runs)
  <2>1. \A p \in Procs : cmd[p].pc # "fail"
    BY DEF Init, Idle
  <2> QED BY <2>1, NoFailsIn
<1>5. \A t \in Tasks, c \in Command : Low(t, c, file, runs)
  BY <1>1, GoneLow DEF InFile
<1> QED BY <1>2, <1>3, <1>4, <1>5 DEF LHolds, RunsFit

LEMMA LowOfStep ==
  ASSUME RInv, RInv', LHolds, PHolds, overlap = {}, Watch, overlap' = {}, NEW p \in Procs, Step(p)
  PROVE  LHolds'
<1>1. CASE PauseDag(p) \/ EraseFiles(p)
  BY <1>1, LowOfGoto
<1>2. CASE RegisterStarts(p)
  BY <1>2, LowOfRegisterStarts
<1>3. CASE RegisterQueues(p)
  BY <1>3, LowOfRegisterQueues
<1>4. CASE UnpauseStarted(p)
  BY <1>4, LowOfUnpause DEF UnpauseStarted, At
<1>5. CASE \E d \in Datasets : TriggerRun(p, d) \/ TriggerNext(p, d)
  BY <1>5, LowOfTriggerRun, LowOfTriggerNext
<1>6. CASE ListRuns(p)
  BY <1>6, LowOfListRuns
<1>7. CASE \E r \in RunIds : FailRun(p, r)
  BY <1>7, LowOfFailRun
<1>8. CASE RemoveFromQueue(p)
  BY <1>8, LowOfRemove
<1>9. CASE MarkCompleted(p)
  BY <1>9, LowOfMark
<1>10. CASE UnpauseNext(p)
  BY <1>10, LowOfHandOverEnds DEF UnpauseNext, At
<1>11. CASE EraseRuns(p)
  BY <1>11, LowOfEraseRuns
<1>12. CASE RefreshQueue(p)
  BY <1>12, LowOfRefreshQueue
<1>13. CASE FailAllRuns(p)
  BY <1>13, LowOfFailAllRuns
<1>14. CASE ClearQueue(p)
  BY <1>14, LowOfEmpty DEF ClearQueue, End
<1> QED BY <1>1, <1>2, <1>3, <1>4, <1>5, <1>6, <1>7, <1>8, <1>9, <1>10, <1>11, <1>12, <1>13,
           <1>14 DEF Step

LEMMA LowOfFails ==
  ASSUME RInv, RInv', LHolds, Watch, overlap' = {}, NEW p \in Procs, Fails(p)
  PROVE  LHolds'
<1>1. CASE Abort(p)
  BY <1>1, LowOfAbort
<1>2. CASE PauseFails(p) \/ CleanupWithoutAirflow(p)
  BY <1>2, LowOfGoto
<1>3. CASE UnpauseFails(p)
  <2>1. UNCHANGED <<file, runs>> /\ faults \subseteq faults'
    BY <1>3 DEF UnpauseFails, Fault
  <2>2. CASE cmd[p].pc = "unpause" /\ Goto(p, "trigger")
    BY <2>1, <2>2, LowOfUnpause
  <2>3. CASE /\ cmd[p].pc = "hand_over" /\ cmd[p].ds = {}
             /\ cmd' = [cmd EXCEPT ![p] = AfterQueue([cmd[p] EXCEPT !.next = NoTask])]
    BY <2>1, <2>3, LowOfHandOverEnds
  <2> QED BY <1>3, <2>2, <2>3 DEF UnpauseFails, At
<1>4. CASE DeleteWithoutApi(p)
  BY <1>4, LowOfRemove
<1>5. CASE CrashInWrite(p)
  <2>1. /\ file' = Empty /\ cmd' = [cmd EXCEPT ![p] = Idle] /\ UNCHANGED runs
        /\ faults \subseteq faults'
    BY <1>5 DEF CrashInWrite, End, Fault
  <2> QED BY <2>1, LowOfEmpty
<1> QED BY <1>1, <1>2, <1>3, <1>4, <1>5 DEF Fails

LEMMA NextLow == RInv /\ PInv /\ LInv /\ RInv' /\ [Next]_vars => LInv'
<1> SUFFICES ASSUME RInv, PInv, LInv, RInv', [Next]_vars, overlap' = {} PROVE LHolds'
  BY DEF LInv
<1>1. CASE UNCHANGED vars
  <2>1. overlap = {} /\ LHolds
    BY <1>1 DEF vars, LInv
  <2> QED BY <1>1, <2>1 DEF vars, LHolds, RunsFit, Works
<1>2. CASE Next
  <2>1. Watch /\ overlap = {}
    BY <1>2 DEF Next, Watch
  <2>2. LHolds /\ PHolds
    BY <2>1 DEF LInv, PInv
  <2>3. CASE \E p \in Procs : Start(p) \/ Step(p) \/ Fails(p)
    BY <2>1, <2>2, <2>3, LowOfStart, LowOfStep, LowOfFails
  <2>4. CASE Airflow
    BY <2>1, <2>2, <2>4, LowOfStartRun, LowOfCountRun, LowOfDrainRun DEF Airflow, EndRun
  <2> QED BY <1>2, <2>3, <2>4 DEF Next
<1> QED BY <1>1, <1>2

LEMMA CompletionsAreDue == RInv /\ LInv => CompletionsArrive
<1> SUFFICES ASSUME RInv, LInv, NEW t, t = file.active.task,
                    file.active # NoEntry, ~file.active.draining, overlap = {}, Unattended(t),
                    "abort" \notin faults,
                    \A d \in Datasets : runs[<<t, d, MaxTries>>] = "absent"
             PROVE  Cardinality(Live(t)) >= file.active.remaining
  BY DEF CompletionsArrive
<1>1. FileOK(file) /\ IsActive(file, t)
  BY RInvParts DEF IsActive
<1>2. /\ file.active \in Entries(file) /\ file.active \in Entry /\ Awaits(file, file.active)
      /\ t \in Tasks /\ file.active.remaining \in Nat
  <2>1. file.active \in Entries(file) /\ Awaits(file, file.active)
    BY <1>1, EntryPlaces
  <2> QED BY <1>1, <2>1, EntriesType
<1>3. /\ Idle \in Command /\ ComingOf(Idle, t) = {} /\ StoppedOf(Idle, t) = {}
      /\ ~Exempts(Idle, t)
  BY <1>2, IdleViews DEF Exempts, Idle
<1>4. Works(t, Idle)
  BY DEF Works, Unattended
<1>5. Low(t, Idle, file, runs)
  BY <1>2, <1>3, <1>4 DEF LInv, LHolds
<1>6. ~Spent(runs, t)
  BY DEF Spent
<1>7. {} \ file.active.completed = {}
  OBVIOUS
<1>8. file.active.remaining <= Cardinality(DueOf(t, runs, {}, {}))
  BY <1>2, <1>3, <1>5, <1>6, <1>7 DEF Low
<1>9. DueOf(t, runs, {}, {}) = Live(t)
  BY DEF DueOf, LiveIn, Live
<1>10. Cardinality(Live(t)) \in Nat
  <2>1. LiveIn(runs, t) = Live(t) /\ {} \in SUBSET RunIds /\ {} \in SUBSET Datasets
    BY DEF LiveIn, Live
  <2> QED BY <1>2, <2>1, DueFinite
<1> QED BY <1>2, <1>8, <1>9, <1>10

(* The queue file never waits for more completions of the active task than  *)
(* the DagRuns the task has, once no command works on it: the last of them  *)
(* hands over.  As CompletionsArrive says, this is so as long as no two     *)
(* commands overlapped, none died half-way, and Airflow takes more runs of  *)
(* every dataset.                                                           *)
THEOREM CompletionsDoArrive == Spec => []CompletionsArrive
<1>1. Init => RInv /\ PInv /\ LInv
  BY InitRuns, InitPriorities, InitLow
<1>2. RInv /\ PInv /\ LInv /\ [Next]_vars => (RInv /\ PInv /\ LInv)'
  BY NextRuns, NextPriorities, NextLow
<1>3. RInv /\ PInv /\ LInv => CompletionsArrive
  BY CompletionsAreDue
<1> QED BY <1>1, <1>2, <1>3, PTL DEF Spec
=============================================================================
