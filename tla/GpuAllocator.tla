---------------------------- MODULE GpuAllocator ----------------------------
(***************************************************************************)
(* The reservation of GPUs by the stages of the pipelines                  *)
(* (core/services/gpu_allocator.py, core/gateways/gpu_runtime.py) and the  *)
(* commands that read and clean the reservations                           *)
(* (core/gateways/gpu_reservations.py, clear_all_gpu_locks).               *)
(*                                                                         *)
(* There is one file per GPU; one flock section on it is one action.  A    *)
(* stage scans its pool file by file, in any order of the configuration.   *)
(* Reservations belong to process ids: they are looked up by pid, and a    *)
(* pid is given again to another process after its owner died.             *)
(***************************************************************************)
EXTENDS Naturals, FiniteSets

CONSTANTS Gpus,          \* GPU ids
          Procs,         \* process ids of the stages
          Tasks, TaskOf, \* the task of a stage process
          Total,         \* memory of a GPU
          Sizes,         \* memory a stage asks for
          IdleMax,       \* exclusive_idle_used_max_mb
          Patient,       \* processes without max_wait_sec
          Foreign,       \* processes the commands may not signal (another user's)
          Pools,         \* the pools of GPUs that configurations name
          MaxRequests,   \* bound on the requests for a GPU
          MaxEvents,     \* bound on the deaths, failed queries, cleanups and changes
                         \* of the memory used by others
          NoGpu, NoTask

ASSUME GpuAssumption ==
    /\ TaskOf \in [Procs -> Tasks] /\ NoTask \notin Tasks /\ NoGpu \notin Gpus
    /\ Total \in Nat /\ IdleMax \in Nat
    /\ Sizes \subseteq Nat \ {0}
    /\ MaxRequests \in Nat /\ MaxEvents \in Nat
    /\ Pools \subseteq (SUBSET Gpus) \ {{}}
    /\ Patient \subseteq Procs /\ Foreign \subseteq Procs
    /\ Gpus \subseteq Nat /\ IsFiniteSet(Gpus) /\ IsFiniteSet(Procs)

VARIABLES
    res,        \* GPU -> the reservations in its file
    external,   \* GPU -> memory used outside the platform
    simulated,  \* the runtime is the simulator, not nvidia-smi
    proc,       \* pid -> the process that has it
    lost,       \* processes whose reservation was removed while they hold the GPU
    wait,       \* wait_for_task_reservations, as one command at a time
    requests,   \* requests so far
    events      \* other events so far

vars == <<res, external, simulated, proc, lost, wait, requests, events>>

(* The token of a reservation is the pid and the time of the request.       *)
Reservation == [pid: Procs, no: 1..MaxRequests, mb: Sizes, exclusive: BOOLEAN]

Process == [pc: {"idle", "scan", "hold", "run", "dead"}, no: 0..MaxRequests,
            gpu: Gpus \cup {NoGpu}, mb: Sizes \cup {0}, exclusive: BOOLEAN,
            pool: SUBSET Gpus, left: SUBSET Gpus]

NewProcess == [pc |-> "idle", no |-> 0, gpu |-> NoGpu, mb |-> 0,
                  exclusive |-> FALSE, pool |-> {}, left |-> {}]

Wait == [pc: {"off", "scan", "clean", "timeout"}, task: Tasks \cup {NoTask},
         left: SUBSET Gpus, found: BOOLEAN, before: SUBSET (Procs \X (0..MaxRequests))]

NoWait == [pc |-> "off", task |-> NoTask, left |-> {}, found |-> FALSE, before |-> {}]

Event == /\ events < MaxEvents
         /\ events' = events + 1
         /\ UNCHANGED requests

Alive(p) == proc[p].pc # "dead"
Holders(g) == {p \in Procs : proc[p].pc \in {"hold", "run"} /\ proc[p].gpu = g}
ReservationOf(p) == [pid |-> p, no |-> proc[p].no, mb |-> proc[p].mb,
                     exclusive |-> proc[p].exclusive]

(* The memory of a set of reservations, counted unit by unit.               *)
Units(rs) == UNION {{r} \X (1..r.mb) : r \in rs}
Mb(rs) == Cardinality(Units(rs))

(* The simulator reports what others use; nvidia-smi sees the stages, too.  *)
Used(g) == external[g] + (IF simulated THEN 0
              ELSE Mb({ReservationOf(p) : p \in {q \in Holders(g) : proc[q].pc = "run"}}))

Free(g) == IF Used(g) < Total THEN Total - Used(g) ELSE 0

Init == /\ res = [g \in Gpus |-> {}]
        /\ external = [g \in Gpus |-> 0]
        /\ simulated \in BOOLEAN
        /\ proc = [p \in Procs |-> NewProcess]
        /\ lost = {}
        /\ wait = NoWait
        /\ requests = 0 /\ events = 0

(* The file of GPU g is written; a process that holds g and whose           *)
(* reservation is not in it any more has lost it.                           *)
Write(g, rs) ==
    /\ res' = [res EXCEPT ![g] = rs]
    /\ lost' = {p \in lost \cup {x \in Holders(g) : ReservationOf(x) \notin rs} :
                  proc'[p].pc \in {"hold", "run"}}

-----------------------------------------------------------------------------
(* A stage.                                                                 *)

(* acquire.                                                                 *)
Request(p, pool, mb, exclusive) ==
    /\ proc[p].pc = "idle"
    /\ requests < MaxRequests /\ requests' = requests + 1
    /\ proc' = [proc EXCEPT ![p] = [NewProcess EXCEPT
                  !.pc = "scan", !.no = requests', !.mb = mb, !.exclusive = exclusive,
                  !.pool = pool, !.left = pool]]
    /\ UNCHANGED <<res, external, simulated, lost, wait, events>>

(* Nobody prunes.                                                           *)
PrunedNever(rs) == rs

Pruned(rs) == {r \in rs : Alive(r.pid)}

(* Ignores that another stage needs the GPU for itself.                     *)
AdmitsShared(p, g, rs) ==
    /\ proc[p].exclusive => rs = {} /\ Used(g) <= IdleMax
    /\ Mb(rs) + proc[p].mb <= Free(g)

(* Forgets what is reserved and not used yet.                               *)
AdmitsFree(p, g, rs) ==
    /\ IF proc[p].exclusive THEN rs = {} /\ Used(g) <= IdleMax
                            ELSE \A r \in rs : ~r.exclusive
    /\ proc[p].mb <= Free(g)

Admits(p, g, rs) ==
    /\ IF proc[p].exclusive THEN rs = {} /\ Used(g) <= IdleMax
                            ELSE \A r \in rs : ~r.exclusive
    /\ Mb(rs) + proc[p].mb <= Free(g)

(* Forgets which GPU the reservation is on.                                 *)
AcquireUnnamed(p, g) ==
    LET rs == Pruned(res[g])
    IN /\ proc[p].pc = "scan" /\ g \in proc[p].left
       /\ Admits(p, g, rs)
       /\ proc' = [proc EXCEPT ![p] = [proc[p] EXCEPT !.pc = "hold", !.pool = {}, !.left = {}]]
       /\ Write(g, rs \cup {ReservationOf(p)})
       /\ UNCHANGED <<external, simulated, wait, requests, events>>

(* One GPU of try_acquire: the dead are pruned, and the stage gets the GPU  *)
(* or goes on to the next one.                                              *)
Acquire(p, g) ==
    LET rs == Pruned(res[g])
    IN /\ proc[p].pc = "scan" /\ g \in proc[p].left
       /\ Admits(p, g, rs)
       /\ proc' = [proc EXCEPT ![p] = [proc[p] EXCEPT !.pc = "hold", !.gpu = g,
                                                      !.pool = {}, !.left = {}]]
       /\ Write(g, rs \cup {ReservationOf(p)})
       /\ UNCHANGED <<external, simulated, wait, requests, events>>

(* The query of the memory may fail as well.                                *)
Skip(p, g) ==
    LET rs == Pruned(res[g])
    IN /\ proc[p].pc = "scan" /\ g \in proc[p].left
       /\ IF Admits(p, g, rs) THEN Event ELSE UNCHANGED <<requests, events>>
       /\ proc' = [proc EXCEPT ![p] = [proc[p] EXCEPT !.left = @ \ {g}]]
       /\ Write(g, rs)
       /\ UNCHANGED <<external, simulated, wait>>

(* No GPU was free: the stage sleeps and scans again, or gives up.          *)
Rescan(p) ==
    /\ proc[p].pc = "scan" /\ proc[p].left = {}
    /\ proc' = [proc EXCEPT ![p] = [proc[p] EXCEPT !.left = proc[p].pool]]
    /\ UNCHANGED <<res, external, simulated, lost, wait, requests, events>>

GiveUp(p) ==
    /\ proc[p].pc = "scan" /\ proc[p].left = {} /\ p \notin Patient
    /\ proc' = [proc EXCEPT ![p] = NewProcess]
    /\ UNCHANGED <<res, external, simulated, lost, wait, requests, events>>

(* The stage's container allocates its memory.                              *)
Load(p) ==
    /\ proc[p].pc = "hold"
    /\ proc' = [proc EXCEPT ![p] = [proc[p] EXCEPT !.pc = "run"]]
    /\ UNCHANGED <<res, external, simulated, lost, wait, requests, events>>

Release(p) ==
    LET g == proc[p].gpu
    IN /\ proc[p].pc \in {"hold", "run"}
       /\ proc' = [proc EXCEPT ![p] = NewProcess]
       /\ Write(g, res[g] \ {ReservationOf(p)})
       /\ UNCHANGED <<external, simulated, wait, requests, events>>

(* A process dies anywhere, and its pid is given to another one.            *)
Die(p) ==
    /\ Alive(p)
    /\ Event
    /\ proc' = [proc EXCEPT ![p] = [NewProcess EXCEPT !.pc = "dead"]]
    /\ lost' = lost \ {p}
    /\ UNCHANGED <<res, external, simulated, wait>>

Spawn(p) ==
    /\ ~Alive(p)
    /\ proc' = [proc EXCEPT ![p] = NewProcess]
    /\ UNCHANGED <<res, external, simulated, lost, wait, requests, events>>

(* It dies in _write_state: the file was truncated.                         *)
DieInWrite(p, g) ==
    /\ \/ proc[p].pc = "scan" /\ g \in proc[p].left
       \/ proc[p].pc \in {"hold", "run"} /\ g = proc[p].gpu
    /\ Event
    /\ proc' = [proc EXCEPT ![p] = [NewProcess EXCEPT !.pc = "dead"]]
    /\ Write(g, {})
    /\ UNCHANGED <<external, simulated, wait>>

SetExternalUsed(g, mb) ==
    /\ external[g] # mb
    /\ Event
    /\ external' = [external EXCEPT ![g] = mb]
    /\ UNCHANGED <<res, simulated, proc, lost, wait>>

-----------------------------------------------------------------------------
(* Commands.  They take a process they may not signal for a dead one.       *)

SeenDead(r) == ~Alive(r.pid) \/ r.pid \in Foreign

(* reservations(cleanup_dead), also of a diagnosis or a verification.       *)
CleanDead(g) ==
    /\ Event
    /\ UNCHANGED proc
    /\ Write(g, {r \in res[g] : ~SeenDead(r)})
    /\ UNCHANGED <<external, simulated, wait>>

RemoveForTask(t, g) ==
    /\ Event
    /\ UNCHANGED proc
    /\ Write(g, {r \in res[g] : TaskOf[r.pid] # t})
    /\ UNCHANGED <<external, simulated, wait>>

ClearGpuLock(g) ==
    /\ Event
    /\ UNCHANGED proc
    /\ Write(g, {})
    /\ UNCHANGED <<external, simulated, wait>>

(* wait_for_task_reservations of a stop or a deletion.  `before' holds the  *)
(* processes of the task that hold a GPU when it begins.                    *)
BeginWait(t) ==
    /\ wait.pc = "off"
    /\ Event
    /\ wait' = [pc |-> "scan", task |-> t, left |-> Gpus, found |-> FALSE,
                before |-> {<<p, proc[p].no>> : p \in
                             {x \in UNION {Holders(g) : g \in Gpus} : TaskOf[x] = t}}]
    /\ UNCHANGED <<res, external, simulated, proc, lost>>

(* The files are read in the order of their names.                          *)
FirstOf(g, S) == g \in S /\ \A h \in S : g <= h

(* Looks only at the last GPU.                                              *)
WaitReadsLast(g) ==
    /\ wait.pc = "scan" /\ FirstOf(g, wait.left)
    /\ UNCHANGED proc
    /\ Write(g, {r \in res[g] : ~SeenDead(r)})
    /\ wait' = [wait EXCEPT !.left = @ \ {g},
                            !.found = \E r \in res[g] : ~SeenDead(r) /\ TaskOf[r.pid] = wait.task]
    /\ UNCHANGED <<external, simulated, requests, events>>

WaitReads(g) ==
    /\ wait.pc = "scan" /\ FirstOf(g, wait.left)
    /\ UNCHANGED proc
    /\ Write(g, {r \in res[g] : ~SeenDead(r)})
    /\ wait' = [wait EXCEPT !.left = @ \ {g},
                            !.found = \/ @
                                      \/ \E r \in res[g] : ~SeenDead(r) /\ TaskOf[r.pid] = wait.task]
    /\ UNCHANGED <<external, simulated, requests, events>>

WaitAgain ==
    /\ wait.pc = "scan" /\ wait.left = {} /\ wait.found
    /\ wait' = [wait EXCEPT !.left = Gpus, !.found = FALSE]
    /\ UNCHANGED <<res, external, simulated, proc, lost, requests, events>>

(* "No matching GPU reservations remain".                                   *)
WaitEnds ==
    /\ wait.pc = "scan" /\ wait.left = {} /\ ~wait.found
    /\ wait' = [wait EXCEPT !.pc = "clean"]
    /\ UNCHANGED <<res, external, simulated, proc, lost, requests, events>>

WaitTimesOut ==
    /\ wait.pc = "scan" /\ wait.left = {} /\ wait.found
    /\ wait' = [wait EXCEPT !.pc = "timeout"]
    /\ UNCHANGED <<res, external, simulated, proc, lost, requests, events>>

-----------------------------------------------------------------------------
Stage(p) == \/ \E g \in Gpus : Acquire(p, g) \/ Skip(p, g)
            \/ Rescan(p) \/ Load(p) \/ Release(p)

Requests(p) == \E pool \in Pools, mb \in Sizes, exclusive \in BOOLEAN :
                 Request(p, pool, mb, exclusive)

Waits == (\E g \in Gpus : WaitReads(g)) \/ WaitAgain \/ WaitEnds

Commands == \/ \E g \in Gpus : \/ CleanDead(g) \/ ClearGpuLock(g)
                               \/ \E t \in Tasks : RemoveForTask(t, g)
            \/ \E t \in Tasks : BeginWait(t)
            \/ Waits \/ WaitTimesOut

Next == \/ \E p \in Procs : \/ Requests(p) \/ Stage(p) \/ GiveUp(p) \/ Die(p) \/ Spawn(p)
                            \/ \E g \in Gpus : DieInWrite(p, g)
        \/ \E g \in Gpus, mb \in {0, Total} : SetExternalUsed(g, mb)
        \/ Commands

(* A stage that waits polls, one that runs ends, a command goes on.         *)
Fairness == (\A p \in Procs : WF_vars(Stage(p))) /\ WF_vars(Waits)

Spec == Init /\ [][Next]_vars /\ Fairness

-----------------------------------------------------------------------------
TypeOK ==
    /\ res \in [Gpus -> SUBSET Reservation]
    /\ external \in [Gpus -> {0, Total}]
    /\ simulated \in BOOLEAN
    /\ proc \in [Procs -> Process]
    /\ \A p \in Procs :
         /\ proc[p].pc \in {"scan", "hold", "run"} => proc[p].no > 0 /\ proc[p].mb \in Sizes
         /\ proc[p].pc \in {"hold", "run"} => proc[p].gpu \in Gpus
    /\ lost \subseteq Procs
    /\ wait \in Wait
    /\ requests \in 0..MaxRequests /\ events \in 0..MaxEvents

(* A stage that asked for a GPU for itself shares it with no stage, however *)
(* requests, prunings, deaths and new owners of a pid interleave, unless    *)
(* the reservation of one of the two was taken away while it held the GPU.  *)
ExclusiveIsAlone ==
    \A g \in Gpus : \A p, q \in Holders(g) \ lost : proc[p].exclusive => p = q

(* What the stages on a GPU were promised fits into it, with the same       *)
(* exception.                                                               *)
PromisesFit == \A g \in Gpus : Mb({ReservationOf(p) : p \in Holders(g) \ lost}) <= Total

(* A wait that reports no reservation is right about every stage that held  *)
(* a GPU when it began, although it reads the files one after the other.    *)
WaitIsRight ==
    wait.pc = "clean" =>
        \A g \in Gpus : \A p \in Holders(g) \ lost : <<p, proc[p].no>> \notin wait.before

(* A stage that waits without a limit gets a GPU of its pool that has room  *)
(* for it: the reservation of a dead process does not block it for good,    *)
(* unless its pid has a new owner.  (Requests are bounded: the code has no  *)
(* queue, and a stream of other stages may starve it.)                      *)
HasRoom(p) == \E g \in proc[p].pool :
                 /\ external[g] = 0
                 /\ \A r \in res[g] : Alive(r.pid) => r.no = proc[r.pid].no

WaiterIsServed ==
    \A p \in Patient : proc[p].pc = "scan" ~> (proc[p].pc # "scan" \/ ~HasRoom(p))
=============================================================================
