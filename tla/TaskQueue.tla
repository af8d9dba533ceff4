----------------------------- MODULE TaskQueue -----------------------------
(***************************************************************************)
(* The commands of scripts/task_manager.py (submit, resume, stop, priority,*)
(* delete, restart-cleanup), run by concurrent processes over the queue    *)
(* file, the task configurations and Airflow.                              *)
(*                                                                         *)
(* One flock section on the queue file is one action; so is one request to *)
(* Airflow, and one read or write of a configuration.  Between two of them *)
(* every other process and Airflow may step in.  Tasks are exclusive (the  *)
(* default): one task at a time is active, and the DAGs of the others stay *)
(* paused.  The tail of a generated DAG, which counts a finished run in    *)
(* the queue and hands over to the next task, is not in this repository    *)
(* and is modelled from the file operations that are.                      *)
(***************************************************************************)
EXTENDS TaskQueueFile

CONSTANTS Procs,      \* numbers of the processes that may run commands at a time
          MaxCalls,   \* bound on the commands
          MaxFaults,  \* bound on the kinds of fault of a behaviour
          NoTask      \* no task

ASSUME ProcAssumption == /\ Procs \subseteq Nat
                         /\ MaxCalls \in Nat /\ MaxFaults \in Nat
                         /\ NoTask \notin Tasks

VARIABLES
    file,     \* the queue file
    config,   \* task -> the priority in its configuration, NotYet or Gone
    paused,   \* tasks whose DAG is paused in Airflow
    runs,     \* run id -> state of the DagRun
    cmd,      \* process -> the command it executes
    calls,    \* commands begun so far
    faults,   \* kinds of fault that have happened
    overlap   \* tasks that two commands worked on at the same time

vars == <<file, config, paused, runs, cmd, calls, faults, overlap>>

ActiveStates == {"queued", "running"}
RunStates == ActiveStates \cup {"absent", "success", "failed"}
FaultKinds == {"abort", "pause", "unpause", "write", "api", "orm"}
Ops == {"none", "submit", "resume", "stop", "stop_datasets", "priority", "delete",
        "cleanup"}

Steps == {"idle", "pause", "register", "unpause", "trigger", "list", "fail", "hand_over",
          "erase_files", "erase_runs", "refresh", "airflow", "clear"}

Command == [op: Ops, pc: Steps, task: Tasks \cup {NoTask}, ds: SUBSET Datasets,
            prio: Prios \cup {0}, ids: SUBSET RunIds, left: SUBSET RunIds,
            next: Tasks \cup {NoTask}]

Idle == [op |-> "none", pc |-> "idle", task |-> NoTask, ds |-> {}, prio |-> 0,
         ids |-> {}, left |-> {}, next |-> NoTask]

Live(t) == {r \in RunIds : r[1] = t /\ runs[r] \in ActiveStates}

(* What a command sees of the runs when it asks Airflow.                    *)
Seen(rs) == [done |-> {<<r[1], r[2]>> : r \in {x \in RunIds : rs[x] = "success"}},
             live |-> {<<r[1], r[2]>> : r \in {x \in RunIds : rs[x] \in ActiveStates}}]

IsNextTry(rs, r) == /\ rs[r] = "absent"
                    /\ \A k \in 1..(r[3] - 1) : rs[<<r[1], r[2], k>>] # "absent"

(* A request that is repeated although it was served.                       *)
TriggeredTwice(rs, t, ds) ==
    [r \in RunIds |-> IF /\ r[1] = t /\ r[2] \in ds /\ rs[r] = "absent"
                        /\ Cardinality({k \in 1..(r[3] - 1) : rs[<<r[1], r[2], k>>] = "absent"}) <= 1
                     THEN "queued" ELSE rs[r]]

(* trigger_dag: a new run of each dataset, which waits while the DAG is     *)
(* paused.                                                                  *)
Triggered(rs, t, ds) ==
    [r \in RunIds |-> IF r[1] = t /\ r[2] \in ds /\ IsNextTry(rs, r) THEN "queued" ELSE rs[r]]

(* The tasks a command works on.                                            *)
Touches(c) == IF c.op = "cleanup" THEN Tasks ELSE {c.task, c.next} \ {NoTask}

Overlapping(cs) == {t \in Tasks : \E p, q \in Procs : /\ p # q
                                                      /\ t \in Touches(cs[p])
                                                      /\ t \in Touches(cs[q])}

(* A command works on a task while its place in the queue changes by the    *)
(* hand of another one or of Airflow: what the command read, paused or      *)
(* registered before may not hold for what it does after.                   *)
Place(f, t) == IF IsActive(f, t) THEN "active"
               ELSE IF \E e \in f.queue : e.task = t THEN "queued" ELSE "none"

(* A drained task may be the first of the queue that it was put back into.  *)
Restarted(t) == /\ IsActive(file, t) /\ file.active.draining
                /\ IsActive(file', t) /\ ~file'.active.draining

Displaced == {t \in Tasks : /\ Place(file, t) # Place(file', t) \/ Restarted(t)
                            /\ \E p \in Procs : t \in Touches(cmd[p]) /\ cmd'[p] = cmd[p]}

(* Runs are registered for a task whose entry has pending runs, or for a    *)
(* dataset that has a run that did not fail: the file counts the runs one   *)
(* by one, the next activation counts the datasets that have none.          *)
RegisteredAgain ==
    {t \in Tasks : \E p \in Procs :
        /\ cmd[p].pc = "register" /\ cmd[p].task = t /\ cmd'[p].pc # "register"
        /\ \/ \E e \in Entries(file) : e.task = t /\ e.pending # {}
           \/ \E r \in RunIds : /\ r[1] = t /\ r[2] \in cmd[p].ds
                               /\ runs[r] \in ActiveStates \cup {"success"}}

Init == /\ file = Empty
        /\ config = [t \in Tasks |-> NotYet]
        /\ paused = Tasks
        /\ runs = [r \in RunIds |-> "absent"]
        /\ cmd = [p \in Procs |-> Idle]
        /\ calls = 0
        /\ faults = {}
        /\ overlap = {}

-----------------------------------------------------------------------------
(* The beginning of a command: its arguments and what it reads first.  A    *)
(* command is a process of its own and takes the first number that is free. *)

CanBegin(p) == /\ calls < MaxCalls
               /\ cmd[p] = Idle /\ \A q \in Procs : q < p => cmd[q] # Idle

Begin(p, c) == /\ cmd' = [cmd EXCEPT ![p] = c]
               /\ calls' = calls + 1
               /\ UNCHANGED <<file, paused, runs, faults>>

Call(op, pc, t) == [Idle EXCEPT !.op = op, !.pc = pc, !.task = t]

(* prepare_submission installs the configuration and the DAG; generated     *)
(* names are not used again.                                                *)
Submit(p, t, n) ==
    /\ config[t] = NotYet
    /\ config' = [config EXCEPT ![t] = n]
    /\ Begin(p, [Call("submit", "pause", t) EXCEPT !.ds = DatasetsOf[t], !.prio = n])

(* The named datasets, or those that have a failed run.                     *)
Resume(p, t, ds) ==
    /\ config[t] \in Prios
    /\ ds \subseteq DatasetsOf[t] /\ ds # {}
    /\ Begin(p, [Call("resume", "pause", t) EXCEPT !.ds = ds, !.prio = config[t]])
    /\ UNCHANGED config

Stop(p, t) ==
    /\ config[t] \in Prios
    /\ Begin(p, [Call("stop", "pause", t) EXCEPT !.ds = DatasetsOf[t]])
    /\ UNCHANGED config

(* A stop of selected datasets leaves the DAG unpaused.                     *)
StopDatasets(p, t, ds) ==
    /\ config[t] \in Prios
    /\ ds \subseteq DatasetsOf[t] /\ ds # {}
    /\ Begin(p, [Call("stop_datasets", "list", t) EXCEPT !.ds = ds])
    /\ UNCHANGED config

(* update_task_priority_config saves the priority; the queue file comes     *)
(* later.                                                                   *)
SetTaskPriority(p, t, n) ==
    /\ config[t] \in Prios
    /\ config' = [config EXCEPT ![t] = n]
    /\ Begin(p, Call("priority", "refresh", t))

Delete(p, t) ==
    /\ config[t] \in Prios
    /\ Begin(p, [Call("delete", "pause", t) EXCEPT !.ds = DatasetsOf[t]])
    /\ UNCHANGED config

RestartCleanup(p) ==
    /\ Begin(p, Call("cleanup", "airflow", NoTask))
    /\ UNCHANGED config

-----------------------------------------------------------------------------
(* The steps of a command.                                                  *)

At(p, pc) == cmd[p].pc = pc
Goto(p, pc) == cmd' = [cmd EXCEPT ![p] = [cmd[p] EXCEPT !.pc = pc]]
End(p) == cmd' = [cmd EXCEPT ![p] = Idle]

(* Registers without pausing first.                                         *)
PauseForgotten(p) ==
    /\ At(p, "pause")
    /\ Goto(p, IF cmd[p].op \in {"submit", "resume"} THEN "register" ELSE "list")
    /\ UNCHANGED <<file, config, paused, runs, calls, faults>>

PauseDag(p) ==
    /\ At(p, "pause")
    /\ paused' = paused \cup {cmd[p].task}
    /\ Goto(p, IF cmd[p].op \in {"submit", "resume"} THEN "register" ELSE "list")
    /\ UNCHANGED <<file, config, runs, calls, faults>>

(* register_task_queue: a task that starts has its DAG unpaused next; one   *)
(* that is queued may ask the active one to drain.                          *)
RegisterStarts(p) ==
    LET c == cmd[p]
        f == Refresh(file, config)
    IN /\ At(p, "register")
       /\ Starts(f, c.task)
       /\ file' = Started(f, c.task, Cardinality(c.ds), c.prio)
       /\ Goto(p, "unpause")
       /\ UNCHANGED <<config, paused, runs, calls, faults>>

RegisterQueues(p) ==
    LET c == cmd[p]
        f == Refresh(file, config)
    IN /\ At(p, "register")
       /\ ~Starts(f, c.task)
       /\ \E g \in Queued(f, c.task, Cardinality(c.ds), c.prio) :
            IF PreemptRaises(g, config)
            THEN file' = file /\ End(p)
            ELSE file' = SoftPreempt(g) /\ Goto(p, "trigger")
       /\ UNCHANGED <<config, paused, runs, calls, faults>>

UnpauseStarted(p) ==
    /\ At(p, "unpause")
    /\ paused' = paused \ {cmd[p].task}
    /\ Goto(p, "trigger")
    /\ UNCHANGED <<file, config, runs, calls, faults>>

TriggerRun(p, d) ==
    /\ At(p, "trigger") /\ d \in cmd[p].ds
    /\ runs' = Triggered(runs, cmd[p].task, {d})
    /\ cmd' = [cmd EXCEPT ![p] = IF cmd[p].ds = {d} THEN Idle
                                 ELSE [cmd[p] EXCEPT !.ds = @ \ {d}]]
    /\ UNCHANGED <<file, config, paused, calls, faults>>

(* The active runs of the selected datasets, then one PATCH for each.       *)
ListRuns(p) ==
    LET c == cmd[p]
        ids == {r \in Live(c.task) : r[2] \in c.ds}
    IN /\ At(p, "list")
       /\ cmd' = [cmd EXCEPT ![p] = [c EXCEPT !.pc = "fail", !.ids = ids, !.left = ids,
                                              !.ds = {}]]
       /\ UNCHANGED <<file, config, paused, runs, calls, faults>>

FailRun(p, r) ==
    /\ At(p, "fail") /\ r \in cmd[p].left
    /\ runs' = [runs EXCEPT ![r] = "failed"]
    /\ cmd' = [cmd EXCEPT ![p] = [cmd[p] EXCEPT !.left = @ \ {r}]]
    /\ UNCHANGED <<file, config, paused, calls, faults>>

(* What follows the lock section: the pending runs of the next task, its    *)
(* DAG, and for a deletion the files of the deleted one.                    *)
AfterQueue(c) == IF c.op = "delete" THEN [c EXCEPT !.pc = "erase_files"] ELSE Idle

(* Drops the pending runs of the next task.                                 *)
HandedOverBare(c, f, g) ==
    IF IsActive(f, c.task) /\ g.active # NoEntry /\ ~IsActive(g, c.task)
    THEN [c EXCEPT !.pc = "hand_over", !.next = g.active.task, !.ds = {}, !.ids = {}]
    ELSE AfterQueue([c EXCEPT !.ids = {}])

HandedOver(c, f, g) ==
    IF IsActive(f, c.task) /\ g.active # NoEntry /\ ~IsActive(g, c.task)
    THEN [c EXCEPT !.pc = "hand_over", !.next = g.active.task, !.ds = g.active.pending,
                   !.ids = {}]
    ELSE AfterQueue([c EXCEPT !.ids = {}])

RemoveFromQueue(p) ==
    LET c == cmd[p]
        f == Refresh(file, config)
    IN /\ At(p, "fail") /\ c.left = {} /\ c.op \in {"stop", "delete"}
       /\ \E g \in Removed(f, c.task, Seen(runs)) :
            /\ file' = g
            /\ cmd' = [cmd EXCEPT ![p] = HandedOver(c, f, g)]
       /\ UNCHANGED <<config, paused, runs, calls, faults>>

(* A stop of datasets counts the runs it failed; without a run or an entry  *)
(* it does not write.                                                       *)
Writes(p) == cmd[p].ids # {} /\ Place(file, cmd[p].task) # "none"

MarkCompleted(p) ==
    LET c == cmd[p]
        f == Refresh(file, config)
    IN /\ At(p, "fail") /\ c.left = {} /\ c.op = "stop_datasets"
       /\ IF ~Writes(p)
          THEN file' = file /\ End(p)
          ELSE \E g \in Marked(f, c.task, c.ids, Seen(runs)) :
                 /\ file' = g
                 /\ cmd' = [cmd EXCEPT ![p] = HandedOver(c, f, g)]
       /\ UNCHANGED <<config, paused, runs, calls, faults>>

TriggerNext(p, d) ==
    /\ At(p, "hand_over") /\ d \in cmd[p].ds
    /\ runs' = Triggered(runs, cmd[p].next, {d})
    /\ cmd' = [cmd EXCEPT ![p] = [cmd[p] EXCEPT !.ds = @ \ {d}]]
    /\ UNCHANGED <<file, config, paused, calls, faults>>

(* Leaves the DAG of the next task paused.                                  *)
UnpauseForgotten(p) ==
    /\ At(p, "hand_over") /\ cmd[p].ds = {}
    /\ cmd' = [cmd EXCEPT ![p] = AfterQueue([cmd[p] EXCEPT !.next = NoTask])]
    /\ UNCHANGED <<file, config, paused, runs, calls, faults>>

UnpauseNext(p) ==
    /\ At(p, "hand_over") /\ cmd[p].ds = {}
    /\ paused' = paused \ {cmd[p].next}
    /\ cmd' = [cmd EXCEPT ![p] = AfterQueue([cmd[p] EXCEPT !.next = NoTask])]
    /\ UNCHANGED <<file, config, runs, calls, faults>>

EraseFiles(p) ==
    /\ At(p, "erase_files")
    /\ config' = [config EXCEPT ![cmd[p].task] = Gone]
    /\ Goto(p, "erase_runs")
    /\ UNCHANGED <<file, paused, runs, calls, faults>>

EraseRuns(p) ==
    /\ At(p, "erase_runs")
    /\ runs' = [r \in RunIds |-> IF r[1] = cmd[p].task THEN "absent" ELSE runs[r]]
    /\ End(p)
    /\ UNCHANGED <<file, config, paused, calls, faults>>

(* A refresh without allow_preempt.                                         *)
RefreshOnly(p) ==
    /\ At(p, "refresh")
    /\ file' = Refresh(file, config)
    /\ End(p)
    /\ UNCHANGED <<config, paused, runs, calls, faults>>

(* refresh_task_queue_file with allow_preempt.                              *)
RefreshQueue(p) ==
    LET f == Refresh(file, config)
    IN /\ At(p, "refresh")
       /\ file' = IF PreemptRaises(f, config) THEN file ELSE SoftPreempt(f)
       /\ End(p)
       /\ UNCHANGED <<config, paused, runs, calls, faults>>

(* stop_generated_airflow_runs is one transaction; the queue comes after.   *)
FailAllRuns(p) ==
    /\ At(p, "airflow")
    /\ paused' = Tasks
    /\ runs' = [r \in RunIds |-> IF runs[r] \in ActiveStates THEN "failed" ELSE runs[r]]
    /\ Goto(p, "clear")
    /\ UNCHANGED <<file, config, calls, faults>>

ClearQueue(p) ==
    /\ At(p, "clear")
    /\ file' = Empty
    /\ End(p)
    /\ UNCHANGED <<config, paused, runs, calls, faults>>

-----------------------------------------------------------------------------
(* Airflow.                                                                 *)

Drains(f) == f.active # NoEntry /\ f.active.draining /\ f.queue # {}

StartRun(r) ==
    /\ runs[r] = "queued" /\ r[1] \notin paused
    /\ runs' = [runs EXCEPT ![r] = "running"]
    /\ UNCHANGED <<file, config, paused, cmd, calls, faults>>

(* The task that Airflow makes active gets its pending runs and its DAG at  *)
(* once.                                                                    *)
HandOver(g, rs, stopped) ==
    IF g.active = NoEntry
    THEN runs' = rs /\ paused' = paused \cup stopped
    ELSE /\ runs' = Triggered(rs, g.active.task, g.active.pending)
         /\ paused' = (paused \cup stopped) \ {g.active.task}

(* A run ends and is counted; the last run of the active task hands over.   *)
CountRun(r, result) ==
    LET f == Refresh(file, config)
        rs == [runs EXCEPT ![r] = result]
    IN /\ runs[r] = "running"
       /\ ~(IsActive(f, r[1]) /\ Drains(f))
       /\ \E g \in Marked(f, r[1], {r}, Seen(rs)) :
            /\ file' = g
            /\ IF IsActive(f, r[1]) /\ UsedUp(f.active, {r}) THEN HandOver(g, rs, {})
               ELSE runs' = rs /\ UNCHANGED paused
       /\ UNCHANGED <<config, cmd, calls, faults>>

(* The runs of a draining task stop at their next stage boundary; the last  *)
(* one that was running puts the task back and pauses its DAG.              *)
DrainRun(r, result) ==
    LET f == Refresh(file, config)
        rs == [runs EXCEPT ![r] = result]
    IN /\ runs[r] = "running"
       /\ IsActive(f, r[1]) /\ Drains(f)
       /\ IF \E o \in Live(r[1]) \ {r} : runs[o] = "running"
          THEN runs' = rs /\ UNCHANGED <<file, paused>>
          ELSE \E g \in Drained(f, Seen(rs)) : file' = g /\ HandOver(g, rs, {r[1]})
       /\ UNCHANGED <<config, cmd, calls, faults>>

EndRun(r, result) == CountRun(r, result) \/ DrainRun(r, result)

-----------------------------------------------------------------------------
(* Faults.  A call that raises, or a process that dies, ends its command    *)
(* where it is; pausing and unpausing through the CLI only warn; a deletion *)
(* goes on without the API, a cleanup without Airflow's ORM; a crash inside *)
(* write_task_queue_file leaves an empty file.                              *)

Fault(kind) == /\ kind \notin faults
               /\ Cardinality(faults) < MaxFaults
               /\ faults' = faults \cup {kind}

Abort(p) ==
    /\ cmd[p] # Idle
    /\ Fault("abort")
    /\ End(p)
    /\ UNCHANGED <<file, config, paused, runs, calls>>

PauseFails(p) ==
    /\ At(p, "pause") /\ cmd[p].op \in {"submit", "resume"}
    /\ Fault("pause")
    /\ Goto(p, "register")
    /\ UNCHANGED <<file, config, paused, runs, calls>>

UnpauseFails(p) ==
    /\ Fault("unpause")
    /\ \/ At(p, "unpause") /\ Goto(p, "trigger")
       \/ /\ At(p, "hand_over") /\ cmd[p].ds = {}
          /\ cmd' = [cmd EXCEPT ![p] = AfterQueue([cmd[p] EXCEPT !.next = NoTask])]
    /\ UNCHANGED <<file, config, paused, runs, calls>>

DeleteWithoutApi(p) ==
    LET c == cmd[p]
        f == Refresh(file, config)
    IN /\ At(p, "list") /\ c.op = "delete"
       /\ Fault("api")
       /\ \E g \in Removed(f, c.task, NoApi) :
            /\ file' = g
            /\ cmd' = [cmd EXCEPT ![p] = HandedOver([c EXCEPT !.ds = {}], f, g)]
       /\ UNCHANGED <<config, paused, runs, calls>>

CleanupWithoutAirflow(p) ==
    /\ At(p, "airflow")
    /\ Fault("orm")
    /\ Goto(p, "clear")
    /\ UNCHANGED <<file, config, paused, runs, calls>>

CrashInWrite(p) ==
    /\ \/ cmd[p].pc \in {"register", "refresh", "clear"}
       \/ At(p, "fail") /\ cmd[p].left = {} /\ (cmd[p].op = "stop_datasets" => Writes(p))
    /\ Fault("write")
    /\ file' = Empty
    /\ End(p)
    /\ UNCHANGED <<config, paused, runs, calls>>

-----------------------------------------------------------------------------
Start(p) ==
    /\ CanBegin(p)
    /\ \/ \E t \in Tasks, n \in Prios : Submit(p, t, n) \/ SetTaskPriority(p, t, n)
       \/ \E t \in Tasks, ds \in SUBSET Datasets : Resume(p, t, ds) \/ StopDatasets(p, t, ds)
       \/ \E t \in Tasks : Stop(p, t) \/ Delete(p, t)
       \/ RestartCleanup(p)

Step(p) == \/ PauseDag(p) \/ RegisterStarts(p) \/ RegisterQueues(p) \/ UnpauseStarted(p)
           \/ \E d \in Datasets : TriggerRun(p, d) \/ TriggerNext(p, d)
           \/ ListRuns(p) \/ \E r \in RunIds : FailRun(p, r)
           \/ RemoveFromQueue(p) \/ MarkCompleted(p) \/ UnpauseNext(p)
           \/ EraseFiles(p) \/ EraseRuns(p) \/ RefreshQueue(p)
           \/ FailAllRuns(p) \/ ClearQueue(p)

Airflow == \/ \E r \in RunIds : StartRun(r) \/ \E s \in {"success", "failed"} : EndRun(r, s)

Fails(p) == \/ Abort(p) \/ PauseFails(p) \/ UnpauseFails(p) \/ DeleteWithoutApi(p)
            \/ CleanupWithoutAirflow(p) \/ CrashInWrite(p)

Watch == overlap' = overlap \cup Overlapping(cmd') \cup Displaced
                            \cup RegisteredAgain

Next == /\ \/ \E p \in Procs : Start(p) \/ Step(p) \/ Fails(p)
           \/ Airflow
        /\ Watch

(* As long as a command has not ended or an unpaused DAG has runs, some     *)
(* step of one of them happens.                                             *)
Work == (\E p \in Procs : Step(p)) \/ Airflow

Fairness == WF_vars(Work /\ Watch)

Spec == Init /\ [][Next]_vars /\ Fairness

-----------------------------------------------------------------------------
(* Every variable keeps its type; in particular every entry of the queue    *)
(* file waits for at least one run and has a legal priority.                *)
TypeOK ==
    /\ file \in [active: Entry \cup {NoEntry}, queue: SUBSET Entry]
    /\ config \in [Tasks -> Prios \cup {NotYet, Gone}]
    /\ paused \subseteq Tasks
    /\ runs \in [RunIds -> RunStates]
    /\ cmd \in [Procs -> Command]
    /\ calls \in 0..MaxCalls
    /\ faults \subseteq FaultKinds
    /\ overlap \subseteq Tasks

(* The file never queues a task while none is active, whichever command or  *)
(* run removed the active one, and no task has two entries.                 *)
FileIsSound == /\ file.active = NoEntry => file.queue = {}
               /\ \A e \in file.queue : ~IsActive(file, e.task)
               /\ \A e, o \in file.queue : e.task = o.task => e = o

(* A DagRun only runs while its task is the active one (the DAG of a queued *)
(* task remains paused, task_manager.py 2286), even when commands die       *)
(* half-way or do not get a DAG unpaused.  The exceptions are the tasks     *)
(* under `overlap', an ignored failure to pause, a lost queue file, and     *)
(* commands that went on without Airflow.                                   *)
OnlyActiveRuns ==
    \A r \in RunIds : runs[r] = "running" =>
        \/ IsActive(file, r[1])
        \/ r[1] \in overlap
        \/ faults \cap {"pause", "write", "api", "orm"} # {}

(* A queued task that is more urgent than the active one has made it drain, *)
(* except in the moment between the two halves of a priority command, and   *)
(* after one that died there.                                               *)
Saving == \E p \in Procs : At(p, "refresh")

NoSilentInversion ==
    /\ Preempts(Refresh(file, config)) /\ ~Saving
    /\ overlap = {} /\ "abort" \notin faults
    => file.active.draining

(* The active task waits for every DagRun it has once no command works on   *)
(* it: with fewer completions it would hand over while its runs execute.    *)
(* The exceptions are a lost queue file, and commands that went on without  *)
(* Airflow.                                                                 *)
Unattended(t) == t \notin overlap /\ \A p \in Procs : t \notin Touches(cmd[p])

RunsAreCounted ==
    \A t \in Tasks :
       /\ IsActive(file, t) /\ Unattended(t)
       /\ faults \cap {"write", "api", "orm"} = {}
       => Cardinality(Live(t)) <= file.active.remaining

(* ... and it waits for no more than these, or it would never hand over,    *)
(* unless a command died between registering and triggering.                *)
CompletionsArrive ==
    LET t == file.active.task
        triesLeft == \A d \in Datasets : runs[<<t, d, MaxTries>>] = "absent"
    IN /\ file.active # NoEntry /\ ~file.active.draining
       /\ overlap = {} /\ Unattended(t) /\ "abort" \notin faults /\ triesLeft
       => Cardinality(Live(t)) >= file.active.remaining

(* A task that entered the queue file leaves it: it is activated in turn,   *)
(* its runs start, and the last of them removes it.                         *)
TaskIsServed ==
    \A t \in Tasks : Place(file, t) # "none" ~>
        \/ Place(file, t) = "none"
        \/ overlap # {} \/ faults \cap {"abort", "unpause"} # {}
=============================================================================
