----------------------------- MODULE Submission -----------------------------
(***************************************************************************)
(* The submission of tasks, at once or at a scheduled time: the file of    *)
(* the scheduled submissions and the processes of the task submit          *)
(* scheduler (scripts/task_manager.py), and what a submission installs on  *)
(* disk (TaskService.prepare_submission, core/task_store.py).              *)
(*                                                                         *)
(* A job is one call of submit, of a client or for a scheduled item.  A    *)
(* task is named by a prefix and the second of its submission.  One flock  *)
(* section on the schedule file is one action; each file operation of      *)
(* prepare_submission is one, too.  What submit does after the task is     *)
(* installed is TaskQueue; here it succeeds or fails.                      *)
(***************************************************************************)
EXTENDS Naturals, FiniteSets

CONSTANTS Schedulers,  \* processes that run `submit scheduler'
          Ids,         \* ids of scheduled submissions
          Clients,     \* calls of submit from the command line
          Prefixes, PrefixOf,
          MaxTime,     \* bound on the time, in seconds
          Times,       \* times that submissions are scheduled for
          MaxFaults,   \* bound on the faults
          NoJob

Jobs == Ids \cup Clients
Seconds == 0..MaxTime
Names == Prefixes \X Seconds

ASSUME SubmissionAssumption ==
    /\ MaxTime \in Nat /\ MaxFaults \in Nat /\ Times \subseteq Seconds
    /\ Ids \cap Clients = {} /\ NoJob \notin Jobs
    /\ PrefixOf \in [Jobs -> Prefixes]

VARIABLES
    now,      \* the time
    items,    \* id -> the item in the schedule file
    sched,    \* scheduler -> what it has claimed and submits
    sub,      \* job -> its submission
    dir,      \* task name -> the job that made its directory
    yaml,     \* task name -> the job whose config is in it
    dag,      \* task name -> the job that wrote its DAG
    started,  \* jobs whose task was launched: put into the queue, or left
              \* alone as --no-trigger asks
    begun,    \* jobs that were begun more than once, and those begun
    overlap,  \* jobs that prepared the same task at the same time as another
    faults    \* faults so far

disk == <<dir, yaml, dag>>
ghosts == <<begun, overlap>>
vars == <<now, items, sched, sub, disk, started, ghosts, faults>>

Statuses == {"none", "scheduled", "running", "submitted", "failed", "removed", "stopped", "lost"}
Item == [status: Statuses, after: Seconds]
Scheduler == [pc: {"idle", "busy", "dead"}, todo: SUBSET Ids, job: Ids \cup {NoJob}]
Preparing == {"check", "mkdir", "copy", "render", "write", "undo"}
Sub == [pc: Preparing \cup {"idle", "launch", "done", "failed", "dead"}, at: Seconds]

Fault == faults < MaxFaults /\ faults' = faults + 1

NameOf(j) == <<PrefixOf[j], sub[j].at>>
IdleScheduler == [pc |-> "idle", todo |-> {}, job |-> NoJob]

Init == /\ now = 0
        /\ items = [i \in Ids |-> [status |-> "none", after |-> 0]]
        /\ sched = [s \in Schedulers |-> IdleScheduler]
        /\ sub = [j \in Jobs |-> [pc |-> "idle", at |-> 0]]
        /\ dir = [n \in Names |-> NoJob]
        /\ yaml = [n \in Names |-> NoJob]
        /\ dag = [n \in Names |-> NoJob]
        /\ started = {}
        /\ begun = [j \in Jobs |-> 0]
        /\ overlap = {}
        /\ faults = 0

Tick == /\ now < MaxTime
        /\ now' = now + 1
        /\ UNCHANGED <<items, sched, sub, disk, started, ghosts, faults>>

InFile(i) == items[i].status \notin {"none", "lost"}
WithStatus(i, status) == [status |-> status, after |-> items[i].after]
SetStatus(i, status) == items' = [items EXCEPT ![i] = WithStatus(i, status)]

-----------------------------------------------------------------------------
(* Commands on the schedule file.                                           *)

OnFile == UNCHANGED <<now, sched, sub, disk, started, ghosts, faults>>

RegisterScheduledSubmit(i, after) ==
    /\ items[i].status = "none"
    /\ items' = [items EXCEPT ![i] = [status |-> "scheduled", after |-> after]]
    /\ OnFile

(* Removes what is claimed, as well.                                        *)
RemovableAny(i) == items[i].status \in {"scheduled", "running"}

Removable(i) == items[i].status = "scheduled"

RemoveScheduledSubmit(i) ==
    /\ Removable(i)
    /\ SetStatus(i, "removed")
    /\ OnFile

(* Stops what has ended, as well.                                           *)
StoppableAny(i) == InFile(i)

Stoppable(i) == items[i].status \in {"scheduled", "running"}

StopScheduledSubmits ==
    /\ \E i \in Ids : Stoppable(i)
    /\ items' = [i \in Ids |-> IF Stoppable(i) THEN WithStatus(i, "stopped") ELSE items[i]]
    /\ OnFile

(* A process dies while it writes: the file was truncated.                  *)
LoseFile == items' = [i \in Ids |-> IF InFile(i) THEN WithStatus(i, "lost") ELSE items[i]]

CommandDiesInWrite ==
    /\ Fault /\ LoseFile
    /\ UNCHANGED <<now, sched, sub, disk, started, ghosts>>

-----------------------------------------------------------------------------
(* A submission of job j, in the process that runs it.                      *)

Running(j) == IF j \in Clients THEN TRUE
              ELSE \E s \in Schedulers : sched[s].pc = "busy" /\ sched[s].job = j

Goto(j, pc) == sub' = [sub EXCEPT ![j] = [pc |-> pc, at |-> sub[j].at]]

At(j, pc) == sub[j].pc = pc /\ Running(j)

Rest == UNCHANGED <<now, items, sched, started, ghosts>>

(* build_task_name: the second is read from the clock.                      *)
Begin(j) ==
    LET same == {k \in Jobs \ {j} : sub[k].pc \in Preparing /\ NameOf(k) = <<PrefixOf[j], now>>}
    IN /\ sub' = [sub EXCEPT ![j] = [pc |-> "check", at |-> now]]
       /\ begun' = [begun EXCEPT ![j] = IF @ = 2 THEN 2 ELSE @ + 1]
       /\ overlap' = IF same = {} THEN overlap ELSE overlap \cup same \cup {j}

(* Does not look for a task of this second.                                 *)
ExistsNever(n) == FALSE

Exists(n) == dir[n] # NoJob \/ yaml[n] # NoJob \/ dag[n] # NoJob

(* The YAML may be gone or changed since it was scheduled.                  *)
Check(j) ==
    /\ At(j, "check")
    /\ \/ /\ Goto(j, IF Exists(NameOf(j)) THEN "failed" ELSE "mkdir")
          /\ UNCHANGED faults
       \/ Goto(j, "failed") /\ Fault
    /\ UNCHANGED disk /\ Rest

MakeDir(j) ==
    /\ At(j, "mkdir")
    /\ IF dir[NameOf(j)] = NoJob
       THEN dir' = [dir EXCEPT ![NameOf(j)] = j] /\ Goto(j, "copy")
       ELSE UNCHANGED dir /\ Goto(j, "undo")
    /\ UNCHANGED <<yaml, dag, faults>> /\ Rest

Copy(j) ==
    /\ At(j, "copy")
    /\ \/ /\ dir[NameOf(j)] # NoJob
          /\ yaml' = [yaml EXCEPT ![NameOf(j)] = j]
          /\ Goto(j, "render")
          /\ UNCHANGED faults
       \/ /\ IF dir[NameOf(j)] = NoJob THEN UNCHANGED faults ELSE Fault
          /\ Goto(j, "undo")
          /\ UNCHANGED yaml
    /\ UNCHANGED <<dir, dag>> /\ Rest

(* render_dag.                                                              *)
Render(j) ==
    /\ At(j, "render")
    /\ \/ /\ Goto(j, IF dag[NameOf(j)] = NoJob THEN "write" ELSE "undo")
          /\ UNCHANGED faults
       \/ Goto(j, "undo") /\ Fault
    /\ UNCHANGED disk /\ Rest

WriteDag(j) ==
    /\ At(j, "write")
    /\ dag' = [dag EXCEPT ![NameOf(j)] = j]
    /\ Goto(j, "launch")
    /\ UNCHANGED <<dir, yaml, faults>> /\ Rest

(* The handler of prepare_submission removes the directory of the task.     *)
Undo(j) ==
    /\ At(j, "undo")
    /\ dir' = [dir EXCEPT ![NameOf(j)] = NoJob]
    /\ yaml' = [yaml EXCEPT ![NameOf(j)] = NoJob]
    /\ Goto(j, "failed")
    /\ UNCHANGED <<dag, faults>> /\ Rest

(* The rest of submit: it may fail before or after the task is launched.    *)
Launch(j) ==
    /\ At(j, "launch")
    /\ \/ Goto(j, "done") /\ started' = started \cup {j} /\ UNCHANGED faults
       \/ Goto(j, "failed") /\ started' \in {started, started \cup {j}} /\ Fault
    /\ UNCHANGED <<now, items, sched, disk, ghosts>>

Submit(j) == Check(j) \/ MakeDir(j) \/ Copy(j) \/ Render(j) \/ WriteDag(j) \/ Undo(j) \/ Launch(j)

ClientSubmits(c) ==
    /\ sub[c].pc = "idle"
    /\ Begin(c)
    /\ UNCHANGED <<now, items, sched, disk, started, faults>>

ClientDies(c) ==
    /\ sub[c].pc \in Preparing \cup {"launch"}
    /\ Fault /\ Goto(c, "dead")
    /\ UNCHANGED <<disk>> /\ Rest

-----------------------------------------------------------------------------
(* The task submit scheduler.                                               *)

(* Leaves out what is due right now.                                        *)
DueLate(i) == items[i].status = "scheduled" /\ items[i].after < now

(* Takes what another scheduler has claimed, as well.                       *)
DueAgain(i) == items[i].status \in {"scheduled", "running"} /\ items[i].after <= now

Due(i) == items[i].status = "scheduled" /\ items[i].after <= now

(* claim_due_scheduled_submits.                                             *)
Claim(s) ==
    LET due == {i \in Ids : Due(i)}
    IN /\ sched[s].pc = "idle" /\ due # {}
       /\ items' = [i \in Ids |-> IF i \in due THEN WithStatus(i, "running") ELSE items[i]]
       /\ sched' = [sched EXCEPT ![s] = [pc |-> "busy", todo |-> due, job |-> NoJob]]
       /\ UNCHANGED <<now, sub, disk, started, ghosts, faults>>

SubmitScheduledItem(s, i) ==
    /\ sched[s].pc = "busy" /\ sched[s].job = NoJob /\ i \in sched[s].todo
    /\ sched' = [sched EXCEPT ![s] = [pc |-> "busy", todo |-> sched[s].todo \ {i}, job |-> i]]
    /\ Begin(i)
    /\ UNCHANGED <<now, items, disk, started, faults>>

(* Does not look at how the submission ended.                               *)
OutcomeGood(i) == "submitted"

Outcome(i) == IF sub[i].pc = "done" THEN "submitted" ELSE "failed"

(* Goes on although nothing is left to submit.                              *)
NextJobAlways(s) == [pc |-> "busy", todo |-> sched[s].todo, job |-> NoJob]

NextJob(s) == IF sched[s].todo = {} THEN IdleScheduler
              ELSE [pc |-> "busy", todo |-> sched[s].todo, job |-> NoJob]

(* update_scheduled_submit, whatever the status is by now.  When it fails   *)
(* after a submission, the item is marked as failed.                        *)
Finish(s) ==
    LET i == sched[s].job
    IN /\ sched[s].pc = "busy" /\ i # NoJob
       /\ sub[i].pc \in {"done", "failed"}
       /\ \/ /\ IF InFile(i) THEN SetStatus(i, Outcome(i)) ELSE UNCHANGED items
             /\ UNCHANGED faults
          \/ /\ InFile(i) /\ SetStatus(i, "failed")
             /\ Fault
       /\ sched' = [sched EXCEPT ![s] = NextJob(s)]
       /\ UNCHANGED <<now, sub, disk, started, ghosts>>

DeadScheduler == [pc |-> "dead", todo |-> {}, job |-> NoJob]

(* What it has claimed stays running.                                       *)
SchedulerDies(s) ==
    LET i == sched[s].job
    IN /\ sched[s].pc # "dead"
       /\ Fault
       /\ sched' = [sched EXCEPT ![s] = DeadScheduler]
       /\ IF i = NoJob THEN UNCHANGED sub ELSE Goto(i, "dead")
       /\ UNCHANGED <<now, items, disk, started, ghosts>>

SchedulerDiesInWrite(s) ==
    /\ \/ sched[s].pc = "idle"
       \/ sched[s].pc = "busy" /\ sched[s].job # NoJob /\ sub[sched[s].job].pc \in {"done", "failed"}
    /\ Fault /\ LoseFile
    /\ sched' = [sched EXCEPT ![s] = DeadScheduler]
    /\ UNCHANGED <<now, sub, disk, started, ghosts>>

SchedulerStarts(s) ==
    /\ sched[s].pc = "dead"
    /\ sched' = [sched EXCEPT ![s] = IdleScheduler]
    /\ UNCHANGED <<now, items, sub, disk, started, ghosts, faults>>

SchedulerStep(s) ==
    \/ Claim(s) \/ Finish(s)
    \/ \E i \in Ids : SubmitScheduledItem(s, i) \/ (sched[s].job = i /\ Submit(i))

Next ==
    \/ Tick \/ StopScheduledSubmits \/ CommandDiesInWrite
    \/ \E i \in Ids : RemoveScheduledSubmit(i)
                      \/ \E after \in Times : RegisterScheduledSubmit(i, after)
    \/ \E c \in Clients : ClientSubmits(c) \/ Submit(c) \/ ClientDies(c)
    \/ \E s \in Schedulers : \/ SchedulerStep(s)
                             \/ SchedulerDies(s) \/ SchedulerDiesInWrite(s) \/ SchedulerStarts(s)

(* Time passes, and a scheduler that runs scans the file again and again.   *)
Spec == Init /\ [][Next]_vars /\ WF_vars(Tick) /\ \A s \in Schedulers : WF_vars(SchedulerStep(s))

-----------------------------------------------------------------------------
TypeOK ==
    /\ now \in Seconds
    /\ items \in [Ids -> Item]
    /\ sched \in [Schedulers -> Scheduler]
    /\ \A s \in Schedulers :
         sched[s].pc = "busy" <=> (sched[s].todo # {} \/ sched[s].job # NoJob)
    /\ sub \in [Jobs -> Sub]
    /\ dir \in [Names -> Jobs \cup {NoJob}]
    /\ yaml \in [Names -> Jobs \cup {NoJob}]
    /\ dag \in [Names -> Jobs \cup {NoJob}]
    /\ started \subseteq Jobs
    /\ begun \in [Jobs -> 0..2]
    /\ overlap \subseteq Jobs
    /\ faults \in 0..MaxFaults

(* A scheduled submission is submitted at most once, with several           *)
(* schedulers, their deaths and restarts, and a file that is lost.          *)
SubmittedOnce == \A i \in Ids : begun[i] <= 1

(* What was removed is never submitted: a removal and a claim exclude each  *)
(* other.                                                                   *)
RemovedIsNeverSubmitted == \A i \in Ids : items[i].status = "removed" => begun[i] = 0

(* A submission that is called submitted was installed and launched.        *)
SubmittedIsStarted == \A i \in Ids : items[i].status = "submitted" => i \in started

(* A launched task has the config and the DAG of its submission, also       *)
(* when others with the same prefix come in the same second, as long as     *)
(* they come one after the other.                                           *)
TaskIsItsOwn ==
    \A j \in started \ overlap : yaml[NameOf(j)] = j /\ dag[NameOf(j)] = j

(* The status of a submission that has ended does not change again.         *)
EndedIsFinal ==
    [][\A i \in Ids : items[i].status \in {"submitted", "failed", "removed"} =>
                        items'[i].status \in {items[i].status, "lost"}]_vars

(* A submission that is due ends, unless every scheduler is dead or the one *)
(* that claimed it died: nobody claims it again.                            *)
Orphan(i) == /\ items[i].status = "running"
             /\ \A s \in Schedulers : i \notin sched[s].todo \cup {sched[s].job}

DueEnds ==
    \A i \in Ids : (items[i].status = "scheduled" /\ items[i].after <= now)
                     ~> \/ items[i].status \notin {"scheduled", "running"}
                        \/ Orphan(i)
                        \/ \A s \in Schedulers : sched[s].pc = "dead"

(* A launched task has the config of its submission: a second submission in *)
(* the same second is told to wait.                                         *)
TaskHasItsConfig == \A j \in started : yaml[NameOf(j)] = j
=============================================================================
