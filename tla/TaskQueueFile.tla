--------------------------- MODULE TaskQueueFile ---------------------------
(***************************************************************************)
(* The task queue file (core/queue_state.py) and the operations that       *)
(* scripts/task_manager.py applies to it inside one flock section, as      *)
(* operators from the file they read to the files they may write.          *)
(*                                                                         *)
(* An entry keeps what the operations read again: its task, whether it was *)
(* asked to drain, the runs it still waits for, the run ids it has already *)
(* counted, the datasets of pending_run_confs, its priority, and `at', the *)
(* order of queued_at among the entries of the queue.  total_runs, the     *)
(* failed ids and the drain bookkeeping are only written here.             *)
(***************************************************************************)
EXTENDS Naturals, FiniteSets

CONSTANTS Tasks,        \* generated task names
          Datasets,     \* dataset names
          DatasetsOf,   \* task -> the datasets of its configuration
          Prios,        \* priorities; a smaller number is served first
          MaxTries,     \* bound on the DagRuns of one dataset of a task
          MaxRank,      \* bound on `at'
          NotYet, Gone, \* a task whose configuration is not written, or erased
          NoEntry       \* no active entry

RunIds == Tasks \X Datasets \X (1..MaxTries)

Entry == [task: Tasks, draining: BOOLEAN, remaining: Nat \ {0},
          completed: SUBSET RunIds, pending: SUBSET Datasets,
          prio: Prios, at: 0..MaxRank]

ASSUME FileAssumption ==
    /\ DatasetsOf \in [Tasks -> (SUBSET Datasets) \ {{}}]
    /\ IsFiniteSet(Datasets) /\ IsFiniteSet(RunIds)
    /\ Prios \subseteq Nat
    /\ MaxTries \in Nat \ {0} /\ MaxRank \in Nat
    /\ {NotYet, Gone} \cap Prios = {}
    /\ NoEntry \notin Entry

Empty == [active |-> NoEntry, queue |-> {}]

Entries(f) == f.queue \cup ({f.active} \ {NoEntry})

(* queue_entry_sort_key: priority, then the time the entry was queued.      *)
Before(e, o) == \/ e.prio < o.prio
                \/ e.prio = o.prio /\ e.at < o.at

(* The entry that sort_queued_tasks puts first, as the set that holds it.   *)
Heads(q) == {e \in q : \A o \in q \ {e} : Before(e, o)}

(* The value of queued_at for an entry that enters the queue now.           *)
LastPlaces(q) == {r \in 1..MaxRank : /\ \A e \in q : e.at < r
                                     /\ r = 1 \/ \E e \in q : e.at = r - 1}

-----------------------------------------------------------------------------
(* Every operation first brings the priorities up to date from the task     *)
(* configurations; a task without one keeps the priority it has.            *)

RefreshEntry(e, config) ==
    [e EXCEPT !.prio = IF config[e.task] \in Prios THEN config[e.task] ELSE @]

Refresh(f, config) ==
    [active |-> IF f.active = NoEntry THEN NoEntry ELSE RefreshEntry(f.active, config),
     queue  |-> {RefreshEntry(e, config) : e \in f.queue}]

(* apply_soft_preemption_if_needed: the active task is asked to drain.  The *)
(* call raises when it must list the pending runs of a task that is gone.   *)

Preempts(f) == f.active # NoEntry /\ \E e \in f.queue : e.prio < f.active.prio

PreemptRaises(f, config) == /\ Preempts(f)
                            /\ f.active.pending = {}
                            /\ config[f.active.task] \notin Prios

Drain(e) == [e EXCEPT !.draining = TRUE,
                      !.pending = IF @ = {} THEN DatasetsOf[e.task] ELSE @]

SoftPreempt(f) ==
    IF Preempts(f) THEN [active |-> Drain(f.active), queue |-> f.queue] ELSE f

-----------------------------------------------------------------------------
(* register_task_queue and refresh_task_queue_file.                         *)

BuildEntry(t, n, p, at) ==
    [task |-> t, draining |-> FALSE, remaining |-> n, completed |-> {},
     pending |-> {}, prio |-> p, at |-> at]

AddRuns(e, n, p) == [e EXCEPT !.remaining = @ + n, !.prio = p]

(* The queue after n runs of task t were queued with the priority the       *)
(* command loaded, which may be older than the configuration.               *)
Enqueued(q, t, n, p) ==
    IF \E e \in q : e.task = t
    THEN {{IF e.task = t THEN AddRuns(e, n, p) ELSE e : e \in q}}
    ELSE {q \cup {BuildEntry(t, n, p, at)} : at \in LastPlaces(q)}

Starts(f, t) == f.active # NoEntry => f.active.task = t

(* The files before the soft preemption: a task that starts is not compared *)
(* with the queue.                                                          *)
Started(f, t, n, p) ==
    [active |-> IF f.active = NoEntry THEN BuildEntry(t, n, p, 0)
                                      ELSE AddRuns(f.active, n, p),
     queue |-> f.queue]

Queued(f, t, n, p) == {[active |-> f.active, queue |-> q] : q \in Enqueued(f.queue, t, n, p)}

-----------------------------------------------------------------------------
(* Activation.  seen holds the dataset runs the command finds in Airflow,   *)
(* those that succeeded and those still active; without the API it finds    *)
(* none, and every pending run is triggered.                                *)

NoApi == [done |-> {}, live |-> {}]

Todo(e, seen) == {d \in e.pending : <<e.task, d>> \notin seen.done \cup seen.live}
Waits(e, seen) == {d \in e.pending : <<e.task, d>> \in seen.live \ seen.done}

(* prepare_queued_task_activation: nothing pending means that the runs were *)
(* triggered by the command that queued them; an entry whose pending runs   *)
(* are all done is dropped.                                                 *)
Startable(e, seen) == e.pending = {} \/ Todo(e, seen) \cup Waits(e, seen) # {}

Activate(e, seen) ==
    [e EXCEPT !.draining = FALSE, !.completed = {}, !.at = 0,
              !.pending = Todo(e, seen),
              !.remaining = IF e.pending = {} THEN @
                            ELSE Cardinality(Todo(e, seen) \cup Waits(e, seen))]

(* A hand-over that forgets the queue.                                      *)
AdvancesNever(q, seen) == {[active |-> NoEntry, queue |-> q]}

(* The best entry that can start becomes active, the better ones are gone.  *)
Advances(q, seen) ==
    LET ok == {e \in q : Startable(e, seen)}
    IN IF ok = {} THEN {Empty}
       ELSE {[active |-> Activate(n, seen), queue |-> {e \in q \ {n} : Before(n, e)}] :
               n \in Heads(ok)}

Without(q, t) == {e \in q : e.task # t}

IsActive(f, t) == f.active # NoEntry /\ f.active.task = t

(* remove_task_from_queue, on the refreshed file.                           *)
Removed(f, t, seen) ==
    IF IsActive(f, t) THEN Advances(Without(f.queue, t), seen)
    ELSE {[active |-> f.active, queue |-> Without(f.queue, t)]}

(* mark_runs_completed_in_queue: a run id counts once for an entry.         *)
Counts(e, ids) == Cardinality(ids \ e.completed)
UsedUpLate(e, ids) == e.remaining < Counts(e, ids)   \* leaves an entry that waits for none
UsedUp(e, ids) == e.remaining <= Counts(e, ids)
Counted(e, ids) == [e EXCEPT !.remaining = @ - Counts(e, ids), !.completed = @ \cup ids]

Marked(f, t, ids, seen) ==
    IF IsActive(f, t)
    THEN IF UsedUp(f.active, ids) THEN Advances(f.queue, seen)
         ELSE {[active |-> Counted(f.active, ids), queue |-> f.queue]}
    ELSE {[active |-> f.active,
           queue |-> {IF e.task = t THEN Counted(e, ids) ELSE e :
                        e \in {o \in f.queue : o.task # t \/ ~UsedUp(o, ids)}}]}

(* build_preempted_queue_entry: every dataset is pending again.             *)
Preempted(e, at) ==
    [e EXCEPT !.draining = FALSE, !.completed = {}, !.at = at,
              !.pending = DatasetsOf[e.task],
              !.remaining = Cardinality(DatasetsOf[e.task])]

(* The drained task goes to the back of the queue and the best one starts.  *)
Drained(f, seen) ==
    UNION {Advances(f.queue \cup {Preempted(f.active, at)}, seen) : at \in LastPlaces(f.queue)}
=============================================================================
