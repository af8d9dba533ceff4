------------------------- MODULE GpuAllocatorProofs -------------------------
(***************************************************************************)
(* Type correctness of GpuAllocator, that an exclusive stage shares its    *)
(* GPU with no other stage, that what was promised fits into the memory,   *)
(* and that a wait is right about what it reports, for any number of GPUs, *)
(* processes and requests.                                                 *)
(*                                                                         *)
(* ExclusiveIsAlone follows from two facts about the files.  FileAlone: a  *)
(* file that holds an exclusive reservation holds nothing else.  Backed:   *)
(* a stage that holds a GPU, and did not lose its reservation, is in the   *)
(* file.  Neither needs tokens to be unique.                               *)
(***************************************************************************)
EXTENDS GpuAllocator, FiniteSetTheorems, TLAPS

FileAlone == \A g \in Gpus : \A r \in res[g] : r.exclusive => res[g] = {r}

Backed == \A g \in Gpus : \A p \in Holders(g) \ lost : ReservationOf(p) \in res[g]

IInv == TypeOK /\ FileAlone /\ Backed

(* A process that holds a GPU after the step held it before, in the same    *)
(* way.                                                                     *)
Kept(p) == proc'[p].pc \in {"hold", "run"} =>
              /\ proc[p].pc \in {"hold", "run"}
              /\ proc'[p].gpu = proc[p].gpu /\ proc'[p].no = proc[p].no
              /\ proc'[p].mb = proc[p].mb /\ proc'[p].exclusive = proc[p].exclusive

-----------------------------------------------------------------------------
LEMMA InvImpliesAlone == IInv => ExclusiveIsAlone
<1> SUFFICES ASSUME IInv,
                    NEW g \in Gpus, NEW p \in Holders(g) \ lost, NEW q \in Holders(g) \ lost,
                    proc[p].exclusive
             PROVE  p = q
  BY DEF ExclusiveIsAlone
<1>1. ReservationOf(p) \in res[g] /\ ReservationOf(q) \in res[g]
  BY DEF IInv, Backed
<1>2. ReservationOf(p).exclusive
  BY DEF ReservationOf
<1>3. res[g] = {ReservationOf(p)}
  BY <1>1, <1>2 DEF IInv, FileAlone
<1>4. ReservationOf(p) = ReservationOf(q)
  BY <1>1, <1>3
<1> QED BY <1>4 DEF ReservationOf

(* A step that writes no file.                                              *)
LEMMA StaysBacked ==
  ASSUME Backed, UNCHANGED res, lost' = lost,
         \A p \in Procs : Kept(p)
  PROVE  Backed'
BY DEF Backed, Holders, ReservationOf, Kept

(* A step that writes the file of g: who is not in it any more is lost.     *)
LEMMA WriteBacks ==
  ASSUME Backed, TypeOK, NEW g \in Gpus, NEW rs, Write(g, rs),
         \A p \in Procs : Kept(p)
                          \/ (proc'[p].gpu = g /\ ReservationOf(p)' \in rs)
  PROVE  Backed'
<1> SUFFICES ASSUME NEW h \in Gpus, NEW p \in Procs,
                    proc'[p].pc \in {"hold", "run"}, proc'[p].gpu = h, p \notin lost'
             PROVE  ReservationOf(p)' \in res'[h]
  BY DEF Backed, Holders
<1>1. res' = [res EXCEPT ![g] = rs] /\ res \in [Gpus -> SUBSET Reservation]
  BY DEF Write, TypeOK
<1>2. p \notin lost /\ ~(p \in Holders(g) /\ ReservationOf(p) \notin rs)
  BY DEF Write, Holders
<1>3. CASE Kept(p)
  <2>1. p \in Holders(h) /\ ReservationOf(p)' = ReservationOf(p)
    BY <1>3 DEF Kept, Holders, ReservationOf
  <2>2. CASE h = g
    BY <1>1, <1>2, <2>1, <2>2
  <2>3. CASE h # g
    <3>1. ReservationOf(p) \in res[h]
      BY <1>2, <2>1 DEF Backed
    <3> QED BY <1>1, <2>1, <2>3, <3>1
  <2> QED BY <2>2, <2>3
<1>4. CASE proc'[p].gpu = g /\ ReservationOf(p)' \in rs
  BY <1>1, <1>4
<1> QED BY <1>3, <1>4

(* A step that takes reservations out of the file of g.                     *)
LEMMA WriteLess ==
  ASSUME TypeOK, FileAlone, NEW g \in Gpus, NEW rs \in SUBSET res[g], Write(g, rs)
  PROVE  /\ FileAlone'
         /\ res' \in [Gpus -> SUBSET Reservation]
         /\ lost' \subseteq Procs
<1>1. res' = [res EXCEPT ![g] = rs] /\ res \in [Gpus -> SUBSET Reservation]
  BY DEF Write, TypeOK
<1>2. lost' \subseteq Procs
  BY DEF Write, TypeOK, Holders
<1>3. FileAlone'
  <2> SUFFICES ASSUME NEW h \in Gpus, NEW r \in res'[h], r.exclusive
               PROVE  res'[h] = {r}
    BY DEF FileAlone
  <2>1. r \in res[h] /\ res'[h] \subseteq res[h]
    BY <1>1
  <2>2. res[h] = {r}
    BY <2>1 DEF FileAlone
  <2> QED BY <2>1, <2>2
<1> QED BY <1>1, <1>2, <1>3

(* What the type invariant says of the process of one pid.                  *)
ProcOK(c) == /\ c \in Process
             /\ c.pc \in {"scan", "hold", "run"} => c.no > 0 /\ c.mb \in Sizes
             /\ c.pc \in {"hold", "run"} => c.gpu \in Gpus

LEMMA ReplaceProc ==
  ASSUME TypeOK, NEW p \in Procs, NEW c, ProcOK(c), proc' = [proc EXCEPT ![p] = c]
  PROVE  /\ proc' \in [Procs -> Process]
         /\ \A q \in Procs : ProcOK(proc'[q])
         /\ proc'[p] = c
         /\ \A q \in Procs : q # p => proc'[q] = proc[q]
<1>1. proc \in [Procs -> Process] /\ c \in Process
  BY DEF TypeOK, ProcOK
<1>2. \A q \in Procs : ProcOK(proc[q])
  BY DEF TypeOK, ProcOK
<1> QED BY <1>1, <1>2

LEMMA EventType ==
  ASSUME TypeOK, Event
  PROVE  requests' \in 0..MaxRequests /\ events' \in 0..MaxEvents
BY GpuAssumption DEF Event, TypeOK

LEMMA SameProcs ==
  ASSUME UNCHANGED proc
  PROVE  \A p \in Procs : Kept(p)
BY DEF Kept

LEMMA NewIsProcess ==
  /\ ProcOK(NewProcess)
  /\ ProcOK([NewProcess EXCEPT !.pc = "dead"])
<1> DEFINE c == [NewProcess EXCEPT !.pc = "dead"]
<1>1. 0 \in 0..MaxRequests
  BY GpuAssumption
<1>2. NewProcess \in Process
  BY <1>1 DEF NewProcess, Process
<1>3. c \in Process /\ c.pc = "dead"
  BY <1>1 DEF NewProcess, Process
<1>4. ProcOK(NewProcess)
  BY <1>2 DEF ProcOK, NewProcess
<1>5. ProcOK(c)
  <2> HIDE DEF c
  <2> QED BY <1>3 DEF ProcOK
<1> QED BY <1>4, <1>5

(* A process leaves for good: nothing of it is held after the step.         *)
LEMMA LeaverIsKept ==
  ASSUME NEW p \in Procs, proc'[p].pc \notin {"hold", "run"},
         \A q \in Procs : q # p => proc'[q] = proc[q]
  PROVE  \A q \in Procs : Kept(q)
BY DEF Kept

(* A command that takes reservations out of one file.                       *)
LEMMA CommandKeeps ==
  ASSUME IInv, NEW g \in Gpus, NEW rs \in SUBSET res[g], UNCHANGED proc, Write(g, rs),
         UNCHANGED <<external, simulated>>, wait' \in Wait,
         requests' \in 0..MaxRequests, events' \in 0..MaxEvents
  PROVE  IInv'
<1>1. FileAlone' /\ res' \in [Gpus -> SUBSET Reservation] /\ lost' \subseteq Procs
  BY WriteLess DEF IInv
<1>2. Backed'
  BY SameProcs, WriteBacks DEF IInv
<1>3. TypeOK'
  BY <1>1 DEF IInv, TypeOK
<1> QED BY <1>1, <1>2, <1>3 DEF IInv

(* A step of one process that writes no file.                               *)
LEMMA StepKeeps ==
  ASSUME IInv, NEW p \in Procs, NEW c, ProcOK(c), proc' = [proc EXCEPT ![p] = c],
         c.pc \in {"hold", "run"} =>
            /\ proc[p].pc \in {"hold", "run"}
            /\ c.gpu = proc[p].gpu /\ c.no = proc[p].no
            /\ c.mb = proc[p].mb /\ c.exclusive = proc[p].exclusive,
         UNCHANGED <<res, external, simulated, lost, wait>>,
         requests' \in 0..MaxRequests, events' \in 0..MaxEvents
  PROVE  IInv'
<1>1. /\ proc' \in [Procs -> Process]
      /\ \A q \in Procs : ProcOK(proc'[q])
      /\ proc'[p] = c
      /\ \A q \in Procs : q # p => proc'[q] = proc[q]
  BY ReplaceProc DEF IInv
<1>2. \A q \in Procs : Kept(q)
  BY <1>1 DEF Kept
<1>3. Backed'
  BY <1>2, StaysBacked DEF IInv
<1>4. FileAlone'
  BY DEF IInv, FileAlone
<1>5. TypeOK'
  BY <1>1 DEF IInv, TypeOK, ProcOK
<1> QED BY <1>3, <1>4, <1>5 DEF IInv

(* A step of one process that writes the file of one GPU.                   *)
LEMMA WriterKeeps ==
  ASSUME IInv, NEW p \in Procs, NEW c, ProcOK(c), proc' = [proc EXCEPT ![p] = c],
         NEW g \in Gpus, NEW rs \in SUBSET res[g], Write(g, rs),
         c.pc \notin {"hold", "run"},
         UNCHANGED <<external, simulated, wait>>,
         requests' \in 0..MaxRequests, events' \in 0..MaxEvents
  PROVE  IInv'
<1>1. /\ proc' \in [Procs -> Process]
      /\ \A q \in Procs : ProcOK(proc'[q])
      /\ proc'[p] = c
      /\ \A q \in Procs : q # p => proc'[q] = proc[q]
  BY ReplaceProc DEF IInv
<1>2. \A q \in Procs : Kept(q)
  BY <1>1, LeaverIsKept
<1>3. FileAlone' /\ res' \in [Gpus -> SUBSET Reservation] /\ lost' \subseteq Procs
  BY WriteLess DEF IInv
<1>4. Backed'
  BY <1>2, WriteBacks DEF IInv
<1>5. TypeOK'
  BY <1>1, <1>3 DEF IInv, TypeOK, ProcOK
<1> QED BY <1>3, <1>4, <1>5 DEF IInv

-----------------------------------------------------------------------------
(* The actions of a stage.                                                  *)

LEMMA RequestKeeps ==
  ASSUME IInv, NEW p \in Procs, NEW pool \in Pools, NEW mb \in Sizes,
         NEW exclusive \in BOOLEAN, Request(p, pool, mb, exclusive)
  PROVE  IInv'
<1> DEFINE c == [NewProcess EXCEPT !.pc = "scan", !.no = requests', !.mb = mb,
                    !.exclusive = exclusive, !.pool = pool, !.left = pool]
<1>1. /\ requests' \in 0..MaxRequests /\ requests' > 0
      /\ events' \in 0..MaxEvents
  BY GpuAssumption DEF Request, IInv, TypeOK
<1>2. pool \subseteq Gpus
  BY GpuAssumption
<1>3. ProcOK(c) /\ c.pc \notin {"hold", "run"}
  <2>1. /\ c.pc = "scan" /\ c.no = requests' /\ c.mb = mb
        /\ c \in Process
    BY <1>1, <1>2 DEF Process, NewProcess
  <2> HIDE DEF c
  <2> QED BY <1>1, <2>1 DEF ProcOK
<1>4. proc' = [proc EXCEPT ![p] = c]
  BY DEF Request
<1>5. UNCHANGED <<res, external, simulated, lost, wait>>
  BY DEF Request
<1> HIDE DEF c
<1> QED BY <1>1, <1>3, <1>4, <1>5, StepKeeps

LEMMA PrunedIsLess == \A g \in Gpus : Pruned(res[g]) \in SUBSET res[g]
BY DEF Pruned

LEMMA AcquireKeeps ==
  ASSUME IInv, NEW p \in Procs, NEW g \in Gpus, Acquire(p, g)
  PROVE  IInv'
<1> DEFINE rs == Pruned(res[g])
           c == [proc[p] EXCEPT !.pc = "hold", !.gpu = g, !.pool = {}, !.left = {}]
           all == rs \cup {ReservationOf(p)}
<1>1. /\ proc[p] \in Process /\ proc[p].pc = "scan" /\ proc[p].no > 0
      /\ proc[p].mb \in Sizes /\ proc[p].exclusive \in BOOLEAN
      /\ proc[p].no \in 1..MaxRequests
  BY GpuAssumption DEF Acquire, IInv, TypeOK, Process
<1>2. ProcOK(c) /\ proc' = [proc EXCEPT ![p] = c]
  BY <1>1 DEF ProcOK, Process, Acquire
<1>3. /\ proc' \in [Procs -> Process]
      /\ \A q \in Procs : ProcOK(proc'[q])
      /\ proc'[p] = c
      /\ \A q \in Procs : q # p => proc'[q] = proc[q]
  BY <1>2, ReplaceProc DEF IInv
<1>4. /\ c.gpu = g /\ c.no = proc[p].no /\ c.mb = proc[p].mb
      /\ c.exclusive = proc[p].exclusive
  BY <1>1 DEF Process
<1> HIDE DEF c
<1>5. ReservationOf(p)' = ReservationOf(p) /\ ReservationOf(p) \in Reservation
  BY <1>1, <1>3, <1>4 DEF ReservationOf, Reservation
<1>6. rs \subseteq res[g] /\ res \in [Gpus -> SUBSET Reservation]
  BY PrunedIsLess DEF IInv, TypeOK
<1>7. Write(g, all)
  BY DEF Acquire
<1>8. res' = [res EXCEPT ![g] = all] /\ lost' \subseteq Procs
  BY <1>7 DEF Write, Holders, IInv, TypeOK
<1>9. Backed'
  <2>1. \A q \in Procs : Kept(q) \/ (proc'[q].gpu = g /\ ReservationOf(q)' \in all)
    BY <1>3, <1>4, <1>5 DEF Kept
  <2> HIDE DEF all
  <2> QED BY <1>7, <2>1, WriteBacks DEF IInv
<1>10. FileAlone'
  <2> SUFFICES ASSUME NEW h \in Gpus, NEW r \in res'[h], r.exclusive
               PROVE  res'[h] = {r}
    BY DEF FileAlone
  <2>1. CASE h # g
    BY <1>6, <1>8, <2>1 DEF IInv, FileAlone
  <2>2. CASE h = g
    <3>1. res'[h] = all
      BY <1>6, <1>8, <2>2
    <3>2. CASE proc[p].exclusive
      <4>1. rs = {}
        BY <3>2 DEF Acquire, Admits
      <4> QED BY <3>1, <4>1
    <3>3. CASE ~proc[p].exclusive
      <4>1. \A x \in rs : ~x.exclusive
        BY <3>3 DEF Acquire, Admits
      <4>2. ~ReservationOf(p).exclusive
        BY <3>3 DEF ReservationOf
      <4> QED BY <3>1, <4>1, <4>2
    <3> QED BY <3>2, <3>3
  <2> QED BY <2>1, <2>2
<1>11. TypeOK'
  <2>1. res' \in [Gpus -> SUBSET Reservation]
    BY <1>5, <1>6, <1>8
  <2> QED BY <1>3, <1>8, <2>1 DEF IInv, TypeOK, ProcOK, Acquire
<1> QED BY <1>9, <1>10, <1>11 DEF IInv

LEMMA SkipKeeps ==
  ASSUME IInv, NEW p \in Procs, NEW g \in Gpus, Skip(p, g)
  PROVE  IInv'
<1> DEFINE c == [proc[p] EXCEPT !.left = @ \ {g}]
<1>1. proc[p] \in Process /\ proc[p].pc = "scan" /\ ProcOK(proc[p])
  BY DEF Skip, IInv, TypeOK, ProcOK
<1>2. ProcOK(c) /\ proc' = [proc EXCEPT ![p] = c] /\ c.pc \notin {"hold", "run"}
  BY <1>1 DEF ProcOK, Process, Skip
<1>3. requests' \in 0..MaxRequests /\ events' \in 0..MaxEvents
  <2>1. CASE Event
    BY <2>1, EventType DEF IInv
  <2>2. CASE UNCHANGED <<requests, events>>
    BY <2>2 DEF IInv, TypeOK
  <2> QED BY <2>1, <2>2 DEF Skip
<1>4. Write(g, Pruned(res[g])) /\ UNCHANGED <<external, simulated, wait>>
  BY DEF Skip
<1> HIDE DEF c
<1> QED BY <1>2, <1>3, <1>4, PrunedIsLess, WriterKeeps

LEMMA RescanKeeps ==
  ASSUME IInv, NEW p \in Procs, Rescan(p)
  PROVE  IInv'
<1> DEFINE c == [proc[p] EXCEPT !.left = proc[p].pool]
<1>1. proc[p] \in Process /\ proc[p].pc = "scan" /\ ProcOK(proc[p])
  BY DEF Rescan, IInv, TypeOK, ProcOK
<1>2. ProcOK(c) /\ proc' = [proc EXCEPT ![p] = c] /\ c.pc \notin {"hold", "run"}
  BY <1>1 DEF ProcOK, Process, Rescan
<1>3. requests' \in 0..MaxRequests /\ events' \in 0..MaxEvents
  BY DEF IInv, TypeOK, Rescan
<1>4. UNCHANGED <<res, external, simulated, lost, wait>>
  BY DEF Rescan
<1> HIDE DEF c
<1> QED BY <1>2, <1>3, <1>4, StepKeeps

LEMMA LoadKeeps ==
  ASSUME IInv, NEW p \in Procs, Load(p)
  PROVE  IInv'
<1> DEFINE c == [proc[p] EXCEPT !.pc = "run"]
<1>1. proc[p] \in Process /\ proc[p].pc = "hold" /\ ProcOK(proc[p])
  BY DEF Load, IInv, TypeOK, ProcOK
<1>2. /\ ProcOK(c) /\ proc' = [proc EXCEPT ![p] = c]
      /\ c.gpu = proc[p].gpu /\ c.no = proc[p].no
      /\ c.mb = proc[p].mb /\ c.exclusive = proc[p].exclusive
  BY <1>1 DEF ProcOK, Process, Load
<1>3. requests' \in 0..MaxRequests /\ events' \in 0..MaxEvents
  BY DEF IInv, TypeOK, Load
<1>4. UNCHANGED <<res, external, simulated, lost, wait>>
  BY DEF Load
<1> HIDE DEF c
<1> QED BY <1>1, <1>2, <1>3, <1>4, StepKeeps

LEMMA ReleaseKeeps ==
  ASSUME IInv, NEW p \in Procs, Release(p)
  PROVE  IInv'
<1>1. proc[p].gpu \in Gpus
  BY DEF Release, IInv, TypeOK
<1>2. /\ proc' = [proc EXCEPT ![p] = NewProcess]
      /\ Write(proc[p].gpu, res[proc[p].gpu] \ {ReservationOf(p)})
      /\ UNCHANGED <<external, simulated, wait, requests, events>>
  BY DEF Release
<1>3. requests' \in 0..MaxRequests /\ events' \in 0..MaxEvents
  BY <1>2 DEF IInv, TypeOK
<1>4. NewProcess.pc \notin {"hold", "run"}
  BY DEF NewProcess
<1> QED BY <1>1, <1>2, <1>3, <1>4, NewIsProcess, WriterKeeps

(* A process that becomes a new or a dead one, and writes no file.          *)
LEMMA ResetKeeps ==
  ASSUME IInv, NEW p \in Procs, NEW c, c \in {NewProcess, [NewProcess EXCEPT !.pc = "dead"]},
         proc' = [proc EXCEPT ![p] = c],
         UNCHANGED <<res, external, simulated, wait>>, lost' = lost,
         requests' \in 0..MaxRequests, events' \in 0..MaxEvents
  PROVE  IInv'
<1>1. ProcOK(c)
  BY NewIsProcess
<1>2. c.pc \notin {"hold", "run"}
  BY DEF NewProcess
<1> QED BY <1>1, <1>2, StepKeeps

LEMMA DieKeeps ==
  ASSUME IInv, NEW p \in Procs, Die(p)
  PROVE  IInv'
<1> DEFINE c == [NewProcess EXCEPT !.pc = "dead"]
<1>1. ProcOK(c) /\ c.pc \notin {"hold", "run"} /\ proc' = [proc EXCEPT ![p] = c]
  BY NewIsProcess DEF NewProcess, Die
<1> HIDE DEF c
<1>2. /\ proc' \in [Procs -> Process]
      /\ \A q \in Procs : ProcOK(proc'[q])
      /\ proc'[p] = c
      /\ \A q \in Procs : q # p => proc'[q] = proc[q]
  BY <1>1, ReplaceProc DEF IInv
<1>3. UNCHANGED <<res, external, simulated, wait>> /\ lost' = lost \ {p}
  BY DEF Die
<1>4. requests' \in 0..MaxRequests /\ events' \in 0..MaxEvents
  BY EventType DEF Die, IInv
<1>5. Backed'
  BY <1>1, <1>2, <1>3 DEF IInv, Backed, Holders, ReservationOf
<1>6. FileAlone'
  BY <1>3 DEF IInv, FileAlone
<1>7. TypeOK'
  BY <1>2, <1>3, <1>4 DEF IInv, TypeOK, ProcOK
<1> QED BY <1>5, <1>6, <1>7 DEF IInv

LEMMA DieInWriteKeeps ==
  ASSUME IInv, NEW p \in Procs, NEW g \in Gpus, DieInWrite(p, g)
  PROVE  IInv'
<1> DEFINE c == [NewProcess EXCEPT !.pc = "dead"]
<1>1. ProcOK(c) /\ c.pc \notin {"hold", "run"} /\ proc' = [proc EXCEPT ![p] = c]
  BY NewIsProcess DEF NewProcess, DieInWrite
<1> HIDE DEF c
<1>2. Write(g, {}) /\ UNCHANGED <<external, simulated, wait>> /\ {} \in SUBSET res[g]
  BY DEF DieInWrite
<1>3. requests' \in 0..MaxRequests /\ events' \in 0..MaxEvents
  BY EventType DEF DieInWrite, IInv
<1> QED BY <1>1, <1>2, <1>3, WriterKeeps

-----------------------------------------------------------------------------
(* The commands.                                                            *)

LEMMA CommandsKeep ==
  ASSUME IInv, Commands
  PROVE  IInv'
<1>0. wait \in Wait /\ requests \in 0..MaxRequests /\ events \in 0..MaxEvents
  BY DEF IInv, TypeOK
<1>1. ASSUME NEW g \in Gpus, CleanDead(g) PROVE IInv'
  <2> DEFINE rs == {r \in res[g] : ~SeenDead(r)}
  <2>1. rs \in SUBSET res[g] /\ Write(g, rs) /\ UNCHANGED <<external, simulated, proc, wait>>
    BY <1>1 DEF CleanDead
  <2>2. requests' \in 0..MaxRequests /\ events' \in 0..MaxEvents
    BY <1>1, EventType DEF CleanDead, IInv
  <2> HIDE DEF rs
  <2> QED BY <1>0, <2>1, <2>2, CommandKeeps
<1>2. ASSUME NEW g \in Gpus, ClearGpuLock(g) PROVE IInv'
  <2>1. {} \in SUBSET res[g] /\ Write(g, {}) /\ UNCHANGED <<external, simulated, proc, wait>>
    BY <1>2 DEF ClearGpuLock
  <2>2. requests' \in 0..MaxRequests /\ events' \in 0..MaxEvents
    BY <1>2, EventType DEF ClearGpuLock, IInv
  <2> QED BY <1>0, <2>1, <2>2, CommandKeeps
<1>3. ASSUME NEW g \in Gpus, NEW t \in Tasks, RemoveForTask(t, g) PROVE IInv'
  <2> DEFINE rs == {r \in res[g] : TaskOf[r.pid] # t}
  <2>1. rs \in SUBSET res[g] /\ Write(g, rs) /\ UNCHANGED <<external, simulated, proc, wait>>
    BY <1>3 DEF RemoveForTask
  <2>2. requests' \in 0..MaxRequests /\ events' \in 0..MaxEvents
    BY <1>3, EventType DEF RemoveForTask, IInv
  <2> HIDE DEF rs
  <2> QED BY <1>0, <2>1, <2>2, CommandKeeps
<1>4. ASSUME NEW g \in Gpus, WaitReads(g) PROVE IInv'
  <2> DEFINE rs == {r \in res[g] : ~SeenDead(r)}
  <2>1. /\ rs \in SUBSET res[g] /\ Write(g, rs) /\ UNCHANGED <<external, simulated, proc>>
        /\ requests' = requests /\ events' = events
    BY <1>4 DEF WaitReads
  <2>2. wait' \in Wait
    BY <1>0, <1>4 DEF WaitReads, Wait
  <2> HIDE DEF rs
  <2> QED BY <1>0, <2>1, <2>2, CommandKeeps
<1>5. ASSUME UNCHANGED <<res, external, simulated, proc, lost>>, wait' \in Wait,
             requests' \in 0..MaxRequests, events' \in 0..MaxEvents
      PROVE  IInv'
  BY <1>5 DEF IInv, TypeOK, FileAlone, Backed, Holders, ReservationOf
<1>6. ASSUME NEW t \in Tasks, BeginWait(t) PROVE IInv'
  <2>1. \A p \in Procs : proc[p].no \in 0..MaxRequests
    BY DEF IInv, TypeOK, Process
  <2>2. wait' \in Wait
    BY <1>6, <2>1 DEF BeginWait, Wait, Holders
  <2>3. requests' \in 0..MaxRequests /\ events' \in 0..MaxEvents
    BY <1>6, EventType DEF BeginWait, IInv
  <2> QED BY <1>5, <1>6, <2>2, <2>3 DEF BeginWait
<1>7. ASSUME WaitAgain PROVE IInv'
  BY <1>0, <1>5, <1>7 DEF WaitAgain, Wait
<1>8. ASSUME WaitEnds PROVE IInv'
  BY <1>0, <1>5, <1>8 DEF WaitEnds, Wait
<1>9. ASSUME WaitTimesOut PROVE IInv'
  BY <1>0, <1>5, <1>9 DEF WaitTimesOut, Wait
<1> QED BY <1>1, <1>2, <1>3, <1>4, <1>6, <1>7, <1>8, <1>9 DEF Commands, Waits

-----------------------------------------------------------------------------
LEMMA InitInv == Init => IInv
<1> SUFFICES ASSUME Init PROVE IInv
  OBVIOUS
<1>1. NewProcess \in Process /\ NoWait \in Wait
  BY GpuAssumption DEF NewProcess, Process, NoWait, Wait
<1>2. TypeOK
  <2>1. external \in [Gpus -> {0, Total}] /\ requests \in 0..MaxRequests /\ events \in 0..MaxEvents
    BY GpuAssumption DEF Init
  <2> QED BY <1>1, <2>1 DEF Init, TypeOK, NewProcess
<1>3. FileAlone
  BY DEF Init, FileAlone
<1>4. Backed
  BY DEF Init, Backed, Holders, NewProcess
<1> QED BY <1>2, <1>3, <1>4 DEF IInv

LEMMA NextInv == IInv /\ [Next]_vars => IInv'
<1> SUFFICES ASSUME IInv, [Next]_vars PROVE IInv'
  OBVIOUS
<1>1. requests \in 0..MaxRequests /\ events \in 0..MaxEvents
  BY DEF IInv, TypeOK
<1>2. ASSUME NEW p \in Procs, Requests(p) PROVE IInv'
  BY <1>2, RequestKeeps DEF Requests
<1>3. ASSUME NEW p \in Procs, Stage(p) PROVE IInv'
  BY <1>3, AcquireKeeps, SkipKeeps, RescanKeeps, LoadKeeps, ReleaseKeeps DEF Stage
<1>4. ASSUME NEW p \in Procs, GiveUp(p) PROVE IInv'
  BY <1>1, <1>4, ResetKeeps DEF GiveUp
<1>5. ASSUME NEW p \in Procs, Spawn(p) PROVE IInv'
  BY <1>1, <1>5, ResetKeeps DEF Spawn
<1>6. ASSUME NEW g \in Gpus, NEW mb \in {0, Total}, SetExternalUsed(g, mb) PROVE IInv'
  <2>1. requests' \in 0..MaxRequests /\ events' \in 0..MaxEvents
    BY <1>6, EventType DEF SetExternalUsed, IInv
  <2>2. external' \in [Gpus -> {0, Total}]
    BY <1>6 DEF SetExternalUsed, IInv, TypeOK
  <2> QED BY <1>6, <2>1, <2>2 DEF SetExternalUsed, IInv, TypeOK, FileAlone, Backed, Holders,
                                   ReservationOf
<1>7. ASSUME UNCHANGED vars PROVE IInv'
  BY <1>7 DEF vars, IInv, TypeOK, FileAlone, Backed, Holders, ReservationOf
<1> QED BY <1>2, <1>3, <1>4, <1>5, <1>6, <1>7, CommandsKeep, DieKeeps, DieInWriteKeeps DEF Next

-----------------------------------------------------------------------------
(* TypeOK: the reservations in the files, the processes and the wait keep   *)
(* the types the code gives them.                                           *)
THEOREM GpuTypeCorrect == Spec => []TypeOK
<1>1. IInv => TypeOK
  BY DEF IInv
<1> QED BY <1>1, InitInv, NextInv, PTL DEF Spec

(* ExclusiveIsAlone: an exclusive stage shares its GPU with no other stage, *)
(* for any number of GPUs, processes, requests and deaths.                  *)
THEOREM GpuExclusive == Spec => []ExclusiveIsAlone
<1> QED BY InitInv, NextInv, InvImpliesAlone, PTL DEF Spec
-----------------------------------------------------------------------------
(***************************************************************************)
(* The wait of a stop.  A stage that held a GPU when the wait began, and    *)
(* still does, is on a GPU that was not read yet or was found.  A number    *)
(* of a request is given once, so that a stage cannot come back under it.  *)
(***************************************************************************)
StillHeld(g) == {p \in Holders(g) \ lost : <<p, proc[p].no>> \in wait.before}

(* The numbers of requests are given in order.                              *)
NumbersGiven == \A p \in Procs : proc[p].no <= requests

Watched ==
    /\ NumbersGiven
    /\ \A x \in wait.before : x[2] <= requests /\ TaskOf[x[1]] = wait.task
    /\ \A p \in Procs : proc[p].pc = "scan" => <<p, proc[p].no>> \notin wait.before
    /\ wait.pc = "scan" =>
          \A g \in Gpus : StillHeld(g) # {} => g \in wait.left \/ wait.found
    /\ wait.pc = "clean" => \A g \in Gpus : StillHeld(g) = {}

LEMMA WatchedImpliesRight == Watched => WaitIsRight
BY DEF Watched, WaitIsRight, StillHeld

(* What a step of the processes and of the other commands may do.           *)
Undisturbed ==
    /\ requests' >= requests
    /\ \A p \in Procs : \/ Kept(p)
                        \/ proc[p].pc = "scan" /\ proc'[p].no = proc[p].no
    /\ \A p \in Procs : proc'[p].pc = "scan" =>
                         \/ proc[p].pc = "scan" /\ proc'[p].no = proc[p].no
                         \/ proc'[p].no > requests
    /\ \A p \in Procs : proc'[p].no \in {proc[p].no, 0, requests'}
    /\ \A p \in lost : proc'[p].pc \in {"hold", "run"} => p \in lost'

LEMMA UndisturbedHeld ==
  ASSUME Watched, Undisturbed, wait'.before = wait.before
  PROVE  \A g \in Gpus : StillHeld(g)' \subseteq StillHeld(g)
<1> SUFFICES ASSUME NEW g \in Gpus, NEW p \in Procs,
                    proc'[p].pc \in {"hold", "run"}, proc'[p].gpu = g, p \notin lost',
                    <<p, proc'[p].no>> \in wait.before
             PROVE  p \in StillHeld(g)
  BY DEF StillHeld, Holders
<1>1. p \notin lost
  BY DEF Undisturbed
<1>2. Kept(p)
  BY DEF Undisturbed, Watched
<1> QED BY <1>1, <1>2 DEF Kept, StillHeld, Holders

LEMMA UndisturbedScan ==
  ASSUME TypeOK, Watched, Undisturbed, wait'.before = wait.before, wait'.task = wait.task,
         requests' \in 0..MaxRequests
  PROVE  /\ NumbersGiven'
         /\ \A x \in wait'.before : x[2] <= requests' /\ TaskOf[x[1]] = wait'.task
         /\ \A p \in Procs : proc'[p].pc = "scan" => <<p, proc'[p].no>> \notin wait'.before
<1>1. ASSUME NEW x \in wait.before PROVE x[2] <= requests'
  <2>1. x[2] \in 0..MaxRequests /\ requests \in 0..MaxRequests
    BY DEF TypeOK, Wait
  <2>2. x[2] <= requests /\ requests' >= requests
    BY DEF Watched, Undisturbed
  <2> QED BY <2>1, <2>2, GpuAssumption
<1>2. ASSUME NEW p \in Procs, proc'[p].pc = "scan", <<p, proc'[p].no>> \in wait.before
      PROVE  FALSE
  <2>1. CASE proc[p].pc = "scan" /\ proc'[p].no = proc[p].no
    BY <1>2, <2>1 DEF Watched
  <2>2. CASE proc'[p].no > requests
    <3>1. <<p, proc'[p].no>>[2] <= requests
      BY <1>2 DEF Watched
    <3>2. proc'[p].no \in 0..MaxRequests /\ requests \in 0..MaxRequests
      BY <1>2 DEF TypeOK, Wait
    <3> QED BY <2>2, <3>1, <3>2, GpuAssumption
  <2> QED BY <1>2, <2>1, <2>2 DEF Undisturbed
<1>3. ASSUME NEW p \in Procs PROVE proc'[p].no <= requests'
  <2>1. proc[p].no <= requests /\ requests' >= requests
    BY DEF Watched, NumbersGiven, Undisturbed
  <2>2. proc[p].no \in 0..MaxRequests /\ requests \in 0..MaxRequests
    BY DEF TypeOK, Process
  <2>3. proc[p].no <= requests' /\ 0 <= requests' /\ requests' <= requests'
    BY <2>1, <2>2, GpuAssumption
  <2> QED BY <2>3 DEF Undisturbed
<1> QED BY <1>1, <1>2, <1>3 DEF Watched, NumbersGiven

LEMMA UndisturbedWatched ==
  ASSUME TypeOK, Watched, Undisturbed, wait' = wait, requests' \in 0..MaxRequests
  PROVE  Watched'
<1>1. \A g \in Gpus : StillHeld(g)' \subseteq StillHeld(g)
  BY UndisturbedHeld
<1> QED BY <1>1, UndisturbedScan DEF Watched

(* Every step but those of the wait leaves it undisturbed.                  *)
LEMMA WriteMarks ==
  ASSUME NEW g, NEW rs, Write(g, rs)
  PROVE  \A p \in lost : proc'[p].pc \in {"hold", "run"} => p \in lost'
BY DEF Write

LEMMA OneProcUndisturbed ==
  ASSUME TypeOK, NEW p \in Procs, NEW c, proc' = [proc EXCEPT ![p] = c],
         \A q \in lost : proc'[q].pc \in {"hold", "run"} => q \in lost',
         c.pc \in {"hold", "run"} =>
            \/ /\ proc[p].pc \in {"hold", "run"}
               /\ c.gpu = proc[p].gpu /\ c.no = proc[p].no
               /\ c.mb = proc[p].mb /\ c.exclusive = proc[p].exclusive
            \/ proc[p].pc = "scan" /\ c.no = proc[p].no,
         c.pc = "scan" => \/ proc[p].pc = "scan" /\ c.no = proc[p].no
                          \/ c.no > requests,
         c.no \in {proc[p].no, 0, requests'},
         requests' = requests \/ requests' = requests + 1
  PROVE  Undisturbed
<1>1. requests' >= requests
  BY GpuAssumption DEF TypeOK
<1>2. proc'[p] = c /\ \A q \in Procs : q # p => proc'[q] = proc[q]
  BY DEF TypeOK
<1> QED BY <1>1, <1>2 DEF Undisturbed, Kept

LEMMA SameProcsUndisturbed ==
  ASSUME TypeOK, UNCHANGED proc, requests' = requests,
         \A q \in lost : proc'[q].pc \in {"hold", "run"} => q \in lost'
  PROVE  Undisturbed
<1>1. requests' >= requests
  BY GpuAssumption DEF TypeOK
<1> QED BY <1>1 DEF Undisturbed, Kept

LEMMA StageUndisturbed ==
  ASSUME IInv, NEW p \in Procs,
         Requests(p) \/ Stage(p) \/ GiveUp(p) \/ Die(p) \/ Spawn(p)
         \/ \E g \in Gpus : DieInWrite(p, g)
  PROVE  Undisturbed
<1>0. TypeOK
  BY DEF IInv
<1>1. ASSUME Requests(p) PROVE Undisturbed
  <2>1. PICK pool \in Pools, mb \in Sizes, exclusive \in BOOLEAN :
               Request(p, pool, mb, exclusive)
    BY <1>1 DEF Requests
  <2> DEFINE c == [NewProcess EXCEPT !.pc = "scan", !.no = requests', !.mb = mb,
                     !.exclusive = exclusive, !.pool = pool, !.left = pool]
  <2>2. c.pc = "scan" /\ c.no = requests'
    BY DEF NewProcess
  <2>3. proc' = [proc EXCEPT ![p] = c] /\ requests' = requests + 1 /\ lost' = lost
    BY <2>1 DEF Request
  <2>4. requests + 1 > requests
    BY <1>0, GpuAssumption DEF TypeOK
  <2> HIDE DEF c
  <2> QED BY <1>0, <2>2, <2>3, <2>4, OneProcUndisturbed
<1>2. ASSUME NEW g \in Gpus, Acquire(p, g) PROVE Undisturbed
  <2> DEFINE c == [proc[p] EXCEPT !.pc = "hold", !.gpu = g, !.pool = {}, !.left = {}]
  <2>1. c.pc = "hold" /\ c.no = proc[p].no
    BY <1>0 DEF TypeOK, Process
  <2>2. /\ proc[p].pc = "scan" /\ proc' = [proc EXCEPT ![p] = c]
        /\ requests' = requests /\ Write(g, Pruned(res[g]) \cup {ReservationOf(p)})
    BY <1>2 DEF Acquire
  <2> HIDE DEF c
  <2> QED BY <1>0, <2>1, <2>2, WriteMarks, OneProcUndisturbed
<1>3. ASSUME NEW g \in Gpus, Skip(p, g) PROVE Undisturbed
  <2> DEFINE c == [proc[p] EXCEPT !.left = @ \ {g}]
  <2>1. proc[p].pc = "scan" /\ c.pc = "scan" /\ c.no = proc[p].no
    BY <1>0, <1>3 DEF TypeOK, Process, Skip
  <2>2. /\ proc' = [proc EXCEPT ![p] = c]
        /\ requests' = requests /\ Write(g, Pruned(res[g]))
    BY <1>3 DEF Skip, Event
  <2> HIDE DEF c
  <2> QED BY <1>0, <2>1, <2>2, WriteMarks, OneProcUndisturbed
<1>4. ASSUME Rescan(p) PROVE Undisturbed
  <2> DEFINE c == [proc[p] EXCEPT !.left = proc[p].pool]
  <2>1. proc[p].pc = "scan" /\ c.pc = "scan" /\ c.no = proc[p].no
    BY <1>0, <1>4 DEF TypeOK, Process, Rescan
  <2>2. proc' = [proc EXCEPT ![p] = c] /\ requests' = requests /\ lost' = lost
    BY <1>4 DEF Rescan
  <2> HIDE DEF c
  <2> QED BY <1>0, <2>1, <2>2, OneProcUndisturbed
<1>5. ASSUME Load(p) PROVE Undisturbed
  <2> DEFINE c == [proc[p] EXCEPT !.pc = "run"]
  <2>1. /\ proc[p].pc = "hold" /\ c.pc = "run" /\ c.no = proc[p].no
        /\ c.gpu = proc[p].gpu /\ c.mb = proc[p].mb /\ c.exclusive = proc[p].exclusive
    BY <1>0, <1>5 DEF TypeOK, Process, Load
  <2>2. proc' = [proc EXCEPT ![p] = c] /\ requests' = requests /\ lost' = lost
    BY <1>5 DEF Load
  <2> HIDE DEF c
  <2> QED BY <1>0, <2>1, <2>2, OneProcUndisturbed
<1>6. ASSUME NEW c, c \in {NewProcess, [NewProcess EXCEPT !.pc = "dead"]},
             proc' = [proc EXCEPT ![p] = c], requests' = requests,
             \A q \in lost : proc'[q].pc \in {"hold", "run"} => q \in lost'
      PROVE  Undisturbed
  <2>1. c.pc \notin {"scan", "hold", "run"} /\ c.no = 0
    BY <1>6 DEF NewProcess
  <2> QED BY <1>0, <1>6, <2>1, OneProcUndisturbed
<1>7. ASSUME Release(p) PROVE Undisturbed
  <2>1. \A q \in lost : proc'[q].pc \in {"hold", "run"} => q \in lost'
    BY <1>7, WriteMarks DEF Release
  <2> QED BY <1>6, <1>7, <2>1 DEF Release
<1>8. ASSUME GiveUp(p) PROVE Undisturbed
  BY <1>6, <1>8 DEF GiveUp
<1>9. ASSUME Spawn(p) PROVE Undisturbed
  BY <1>6, <1>9 DEF Spawn
<1>10. ASSUME Die(p) PROVE Undisturbed
  <2>1. proc'[p].pc = "dead"
    BY <1>0, <1>10 DEF Die, TypeOK, NewProcess
  <2>2. \A q \in lost : proc'[q].pc \in {"hold", "run"} => q \in lost'
    BY <1>10, <2>1 DEF Die
  <2> QED BY <1>6, <1>10, <2>2 DEF Die, Event
<1>11. ASSUME NEW g \in Gpus, DieInWrite(p, g) PROVE Undisturbed
  <2>1. \A q \in lost : proc'[q].pc \in {"hold", "run"} => q \in lost'
    BY <1>11, WriteMarks DEF DieInWrite
  <2> QED BY <1>6, <1>11, <2>1 DEF DieInWrite, Event
<1> QED BY <1>1, <1>2, <1>3, <1>4, <1>5, <1>7, <1>8, <1>9, <1>10, <1>11 DEF Stage

LEMMA StageKeepsWait ==
  ASSUME IInv, NEW p \in Procs,
         Requests(p) \/ Stage(p) \/ GiveUp(p) \/ Die(p) \/ Spawn(p)
         \/ \E g \in Gpus : DieInWrite(p, g)
  PROVE  wait' = wait
BY DEF Requests, Request, Stage, Acquire, Skip, Rescan, Load, Release, GiveUp, Die, Spawn,
       DieInWrite

LEMMA BeginWaitWatched ==
  ASSUME IInv, Watched, NEW t \in Tasks, BeginWait(t)
  PROVE  Watched'
<1>1. /\ wait'.pc = "scan" /\ wait'.left = Gpus /\ wait'.task = t
      /\ wait'.before = {<<p, proc[p].no>> : p \in
                             {x \in UNION {Holders(g) : g \in Gpus} : TaskOf[x] = t}}
      /\ UNCHANGED <<proc, lost, requests>>
  BY DEF BeginWait, Event
<1>2. ASSUME NEW x \in wait'.before PROVE x[2] <= requests' /\ TaskOf[x[1]] = wait'.task
  <2>1. PICK p \in Procs : /\ x = <<p, proc[p].no>> /\ TaskOf[p] = t
                            /\ proc[p].pc \in {"hold", "run"}
    BY <1>1 DEF Holders
  <2>2. x[1] = p /\ x[2] = proc[p].no
    BY <2>1
  <2>3. proc[p].no <= requests
    BY DEF Watched, NumbersGiven
  <2> QED BY <1>1, <2>1, <2>2, <2>3
<1>3. ASSUME NEW p \in Procs, proc'[p].pc = "scan" PROVE <<p, proc'[p].no>> \notin wait'.before
  BY <1>1, <1>3 DEF Holders
<1>4. \A g \in Gpus : g \in wait'.left
  BY <1>1
<1>5. NumbersGiven'
  BY <1>1 DEF Watched, NumbersGiven
<1> QED BY <1>1, <1>2, <1>3, <1>4, <1>5 DEF Watched

LEMMA WaitReadsWatched ==
  ASSUME IInv, Watched, NEW g \in Gpus, WaitReads(g)
  PROVE  Watched'
<1>1. /\ wait.pc = "scan" /\ wait'.pc = "scan"
      /\ wait'.left = wait.left \ {g} /\ wait'.task = wait.task
      /\ wait'.before = wait.before
      /\ wait'.found = (wait.found \/ \E r \in res[g] : ~SeenDead(r) /\ TaskOf[r.pid] = wait.task)
      /\ UNCHANGED <<proc, requests>> /\ TypeOK
  BY DEF WaitReads, IInv, TypeOK, Wait
<1>2. Write(g, {r \in res[g] : ~SeenDead(r)})
  BY DEF WaitReads
<1>3. Undisturbed
  BY <1>1, <1>2, WriteMarks, SameProcsUndisturbed
<1>4. \A h \in Gpus : StillHeld(h)' \subseteq StillHeld(h)
  BY <1>1, <1>3, UndisturbedHeld
<1>5. ASSUME NEW p \in StillHeld(g)' PROVE wait'.found
  <2>1. p \in Holders(g) \ lost /\ <<p, proc[p].no>> \in wait.before
    BY <1>4, <1>5 DEF StillHeld
  <2>2. ReservationOf(p) \in res[g]
    BY <2>1 DEF IInv, Backed
  <2>3. ~SeenDead(ReservationOf(p))
    BY <1>1, <1>2, <1>5, <2>1 DEF Write, StillHeld, Holders
  <2>4. TaskOf[p] = wait.task
    <3>1. TaskOf[<<p, proc[p].no>>[1]] = wait.task
      BY <2>1 DEF Watched
    <3> QED BY <3>1
  <2>5. ReservationOf(p).pid = p
    BY DEF ReservationOf
  <2> QED BY <1>1, <2>2, <2>3, <2>4, <2>5
<1>6. ASSUME NEW h \in Gpus, StillHeld(h)' # {} PROVE h \in wait'.left \/ wait'.found
  <2>1. CASE h = g
    BY <1>5, <1>6, <2>1
  <2>2. CASE h # g
    BY <1>1, <1>4, <1>6, <2>2 DEF Watched
  <2> QED BY <2>1, <2>2
<1>7. requests' \in 0..MaxRequests
  BY <1>1 DEF TypeOK
<1> QED BY <1>1, <1>3, <1>6, <1>7, UndisturbedScan DEF Watched

LEMMA WaitStepWatched ==
  ASSUME IInv, Watched, WaitAgain \/ WaitEnds \/ WaitTimesOut
  PROVE  Watched'
<1>1. /\ UNCHANGED <<proc, lost, requests>> /\ wait'.before = wait.before
      /\ wait'.task = wait.task
      /\ \/ wait'.pc = "scan" /\ wait'.left = Gpus
         \/ wait'.pc = "clean" /\ wait.pc = "scan" /\ wait.left = {} /\ ~wait.found
         \/ wait'.pc = "timeout"
  BY DEF WaitAgain, WaitEnds, WaitTimesOut, IInv, TypeOK, Wait
<1>2. \A g \in Gpus : StillHeld(g)' = StillHeld(g)
  BY <1>1 DEF StillHeld, Holders
<1>3. NumbersGiven'
  BY <1>1 DEF Watched, NumbersGiven
<1> QED BY <1>1, <1>2, <1>3 DEF Watched

LEMMA CommandsWatched ==
  ASSUME IInv, Watched, Commands
  PROVE  Watched'
<1>0. TypeOK /\ requests \in 0..MaxRequests
  BY DEF IInv, TypeOK
<1>1. ASSUME NEW g \in Gpus, CleanDead(g) \/ ClearGpuLock(g)
                             \/ \E t \in Tasks : RemoveForTask(t, g)
      PROVE  Watched'
  <2>1. /\ UNCHANGED <<proc, wait>> /\ requests' = requests
        /\ \E rs : Write(g, rs)
    BY <1>1 DEF CleanDead, ClearGpuLock, RemoveForTask, Event
  <2>2. Undisturbed
    BY <1>0, <2>1, WriteMarks, SameProcsUndisturbed
  <2> QED BY <1>0, <2>1, <2>2, UndisturbedWatched
<1> QED BY <1>1, BeginWaitWatched, WaitReadsWatched, WaitStepWatched DEF Commands, Waits

LEMMA InitWatched == Init => Watched
<1>1. ASSUME Init PROVE NumbersGiven
  BY <1>1 DEF Init, NumbersGiven, NewProcess
<1> QED BY <1>1 DEF Init, Watched, NoWait, NewProcess

LEMMA NextWatched == IInv /\ IInv' /\ Watched /\ [Next]_vars => Watched'
<1> SUFFICES ASSUME IInv, IInv', Watched, [Next]_vars PROVE Watched'
  OBVIOUS
<1>0. TypeOK /\ requests' \in 0..MaxRequests
  BY DEF IInv, TypeOK
<1>1. ASSUME NEW p \in Procs,
             Requests(p) \/ Stage(p) \/ GiveUp(p) \/ Die(p) \/ Spawn(p)
             \/ \E g \in Gpus : DieInWrite(p, g)
      PROVE  Watched'
  BY <1>0, <1>1, StageUndisturbed, StageKeepsWait, UndisturbedWatched
<1>2. ASSUME UNCHANGED <<proc, lost, wait, requests>> PROVE Watched'
  <2>1. \A g \in Gpus : StillHeld(g)' = StillHeld(g)
    BY <1>2 DEF StillHeld, Holders
  <2>2. NumbersGiven'
    BY <1>2 DEF Watched, NumbersGiven
  <2> QED BY <1>2, <2>1, <2>2 DEF Watched
<1>3. ASSUME NEW g \in Gpus, NEW mb \in {0, Total}, SetExternalUsed(g, mb) PROVE Watched'
  BY <1>2, <1>3 DEF SetExternalUsed, Event
<1> QED BY <1>1, <1>2, <1>3, CommandsWatched DEF Next, vars

(* WaitIsRight: when a stop or a deletion reports that no reservation       *)
(* remains, no stage that held a GPU when the wait began still holds it,    *)
(* but those whose reservation was taken away.                              *)
THEOREM GpuWaitIsRight == Spec => []WaitIsRight
<1> QED BY InitInv, NextInv, InitWatched, NextWatched, WatchedImpliesRight, PTL DEF Spec
-----------------------------------------------------------------------------
(***************************************************************************)
(* The memory that was promised.  The stages of a GPU that did not lose    *)
(* their reservations are in its file, so what they were promised is part  *)
(* of what the next stage finds reserved there.                            *)
(***************************************************************************)
Promised(g) == {ReservationOf(p) : p \in Holders(g) \ lost}

FilesFinite == \A g \in Gpus : IsFiniteSet(res[g])

LEMMA UnitsFinite ==
  ASSUME NEW rs, IsFiniteSet(rs), \A r \in rs : r.mb \in Nat
  PROVE  IsFiniteSet(Units(rs)) /\ Mb(rs) \in Nat
<1> DEFINE T == {{r} \X (1..r.mb) : r \in rs}
           f == [r \in rs |-> {r} \X (1..r.mb)]
<1>1. f \in Surjection(rs, T)
  BY DEF Surjection
<1>2. IsFiniteSet(T)
  BY <1>1, FS_Surjection
<1>3. ASSUME NEW r \in rs PROVE IsFiniteSet({r} \X (1..r.mb))
  <2>1. IsFiniteSet({r})
    BY FS_Singleton
  <2>2. 1 \in Int /\ r.mb \in Int
    OBVIOUS
  <2>3. IsFiniteSet(1..r.mb)
    BY ONLY <2>2, FS_Interval
  <2> QED BY <2>1, <2>3, FS_Product
<1>4. \A t \in T : IsFiniteSet(t)
  BY <1>3
<1> HIDE DEF f, T
<1>5. IsFiniteSet(UNION T)
  BY <1>2, <1>4, FS_UNION
<1>6. Units(rs) = UNION T
  BY DEF Units, T
<1> QED BY <1>5, <1>6, FS_CardinalityType DEF Mb

(* Fewer reservations need no more memory.                                  *)
LEMMA MbOfPart ==
  ASSUME NEW rs, NEW part \in SUBSET rs, IsFiniteSet(rs), \A r \in rs : r.mb \in Nat
  PROVE  Mb(part) <= Mb(rs) /\ Mb(part) \in Nat
<1>1. IsFiniteSet(Units(rs)) /\ Mb(rs) \in Nat
  BY UnitsFinite
<1>2. Units(part) \subseteq Units(rs)
  BY DEF Units
<1>3. IsFiniteSet(Units(part)) /\ Cardinality(Units(part)) <= Cardinality(Units(rs))
  BY <1>1, <1>2, FS_Subset
<1> QED BY <1>3, FS_CardinalityType DEF Mb

(* One more reservation needs no more than its own memory on top.           *)
LEMMA MbOfOneMore ==
  ASSUME NEW rs, NEW x, IsFiniteSet(rs), \A r \in rs : r.mb \in Nat, x.mb \in Nat
  PROVE  Mb(rs \cup {x}) <= Mb(rs) + x.mb
<1> DEFINE U == {x} \X (1..x.mb)
<1>1. IsFiniteSet(U) /\ Cardinality(U) = x.mb
  <2>1. IsFiniteSet({x}) /\ Cardinality({x}) = 1
    BY FS_Singleton
  <2>2. 1 \in Int /\ x.mb \in Int
    OBVIOUS
  <2>3. IsFiniteSet(1..x.mb) /\ Cardinality(1..x.mb) = IF 1 > x.mb THEN 0 ELSE x.mb - 1 + 1
    BY ONLY <2>2, FS_Interval
  <2>4. IsFiniteSet(1..x.mb) /\ Cardinality(1..x.mb) = x.mb
    BY <2>3
  <2>5. IsFiniteSet(U) /\ Cardinality(U) = 1 * x.mb
    BY <2>1, <2>4, FS_Product
  <2> QED BY <2>5
<1>2. Units(rs \cup {x}) = Units(rs) \cup U
  BY DEF Units
<1>3. IsFiniteSet(Units(rs)) /\ Mb(rs) \in Nat
  BY UnitsFinite
<1> HIDE DEF U
<1>4. /\ Cardinality(Units(rs) \cup U)
            = Cardinality(Units(rs)) + Cardinality(U) - Cardinality(Units(rs) \cap U)
      /\ Cardinality(Units(rs) \cap U) \in Nat
  <2>1. IsFiniteSet(Units(rs) \cap U)
    BY <1>1, FS_Subset
  <2> QED BY <1>1, <1>3, <2>1, FS_Union, FS_CardinalityType
<1>5. Mb(rs \cup {x}) = Mb(rs) + x.mb - Cardinality(Units(rs) \cap U)
  BY <1>1, <1>2, <1>4 DEF Mb
<1> QED BY <1>3, <1>4, <1>5

(* The processes that hold a GPU have finitely many reservations.           *)
LEMMA HeldFinite ==
  ASSUME TypeOK, NEW g \in Gpus, NEW Q \in SUBSET Holders(g)
  PROVE  /\ IsFiniteSet({ReservationOf(p) : p \in Q})
         /\ \A r \in {ReservationOf(p) : p \in Q} : r.mb \in Nat
<1> DEFINE T == {ReservationOf(p) : p \in Q}
           f == [p \in Q |-> ReservationOf(p)]
<1>1. f \in Surjection(Q, T)
  BY DEF Surjection
<1>2. IsFiniteSet(Q)
  BY GpuAssumption, FS_Subset DEF Holders
<1>3. IsFiniteSet(T)
  BY <1>1, <1>2, FS_Surjection
<1>4. \A p \in Q : proc[p].mb \in Nat
  BY GpuAssumption DEF TypeOK, Holders
<1> QED BY <1>3, <1>4 DEF ReservationOf

LEMMA FreeIsOfTheGpu ==
  ASSUME TypeOK, NEW g \in Gpus
  PROVE  Free(g) \in Nat /\ Free(g) <= Total
<1> DEFINE Q == {q \in Holders(g) : proc[q].pc = "run"}
<1>1. Mb({ReservationOf(p) : p \in Q}) \in Nat
  BY HeldFinite, UnitsFinite
<1>2. external[g] \in Nat
  BY GpuAssumption DEF TypeOK
<1>3. Used(g) \in Nat
  BY <1>1, <1>2 DEF Used
<1> QED BY <1>3, GpuAssumption DEF Free

-----------------------------------------------------------------------------
(* The file of a GPU grows only when a stage acquires it.                   *)
LEMMA InitFinite == Init => FilesFinite
BY FS_EmptySet DEF Init, FilesFinite

LEMMA WriteFinite ==
  ASSUME TypeOK, FilesFinite, NEW g \in Gpus, NEW rs, IsFiniteSet(rs), Write(g, rs)
  PROVE  FilesFinite'
BY DEF Write, TypeOK, FilesFinite

LEMMA NextFinite == TypeOK /\ FilesFinite /\ [Next]_vars => FilesFinite'
<1> SUFFICES ASSUME TypeOK, FilesFinite, [Next]_vars PROVE FilesFinite'
  OBVIOUS
<1>1. ASSUME NEW g \in Gpus, NEW rs \in SUBSET res[g], Write(g, rs) PROVE FilesFinite'
  BY <1>1, FS_Subset, WriteFinite DEF FilesFinite
<1>2. ASSUME UNCHANGED res PROVE FilesFinite'
  BY <1>2 DEF FilesFinite
<1>3. ASSUME NEW p \in Procs, NEW g \in Gpus, Acquire(p, g) PROVE FilesFinite'
  <2>1. IsFiniteSet(Pruned(res[g]))
    BY FS_Subset DEF FilesFinite, Pruned
  <2>2. IsFiniteSet(Pruned(res[g]) \cup {ReservationOf(p)})
    BY <2>1, FS_AddElement
  <2> QED BY <1>3, <2>2, WriteFinite DEF Acquire
<1>4. ASSUME NEW p \in Procs, NEW g \in Gpus, Skip(p, g) PROVE FilesFinite'
  BY <1>1, <1>4, PrunedIsLess DEF Skip
<1>5. ASSUME NEW p \in Procs, Release(p) PROVE FilesFinite'
  <2>1. proc[p].gpu \in Gpus
    BY <1>5 DEF Release, TypeOK
  <2> QED BY <1>1, <1>5, <2>1 DEF Release
<1>6. ASSUME NEW p \in Procs, NEW g \in Gpus, DieInWrite(p, g) PROVE FilesFinite'
  BY <1>1, <1>6 DEF DieInWrite
<1>7. ASSUME NEW g \in Gpus, CleanDead(g) \/ ClearGpuLock(g) \/ WaitReads(g)
                             \/ \E t \in Tasks : RemoveForTask(t, g)
      PROVE  FilesFinite'
  BY <1>1, <1>7 DEF CleanDead, ClearGpuLock, WaitReads, RemoveForTask
<1>8. ASSUME NEW p \in Procs, Requests(p) \/ Stage(p) \/ GiveUp(p) \/ Die(p) \/ Spawn(p)
      PROVE  FilesFinite'
  BY <1>2, <1>3, <1>4, <1>5, <1>8
     DEF Requests, Request, Stage, Rescan, Load, GiveUp, Die, Spawn
<1>9. ASSUME Commands PROVE FilesFinite'
  BY <1>2, <1>7, <1>9 DEF Commands, Waits, BeginWait, WaitAgain, WaitEnds, WaitTimesOut
<1> QED BY <1>2, <1>6, <1>8, <1>9 DEF Next, SetExternalUsed, vars

-----------------------------------------------------------------------------
(* A step after which every process holds what it held before, or nothing.  *)
Granting == \E p \in Procs, g \in Gpus : Acquire(p, g)

LEMMA OthersGrantNothing ==
  ASSUME TypeOK, [Next]_vars, ~Granting
  PROVE  /\ \A p \in Procs : Kept(p)
         /\ \A p \in lost : proc'[p].pc \in {"hold", "run"} => p \in lost'
<1> DEFINE Goal == /\ \A p \in Procs : Kept(p)
                   /\ \A p \in lost : proc'[p].pc \in {"hold", "run"} => p \in lost'
<1>1. ASSUME UNCHANGED proc, lost' = lost \/ \E g, rs : Write(g, rs) PROVE Goal
  BY <1>1, SameProcs, WriteMarks
<1>2. ASSUME NEW p \in Procs, NEW c, proc' = [proc EXCEPT ![p] = c],
             \/ c.pc \notin {"hold", "run"}
             \/ proc[p].pc = "hold" /\ c = [proc[p] EXCEPT !.pc = "run"],
             \/ lost' = lost
             \/ lost' = lost \ {p} /\ c.pc = "dead"
             \/ \E g, rs : Write(g, rs)
      PROVE  Goal
  <2>1. proc'[p] = c /\ \A q \in Procs : q # p => proc'[q] = proc[q]
    BY <1>2 DEF TypeOK
  <2>2. proc[p] \in Process
    BY DEF TypeOK
  <2>3. \A q \in Procs : Kept(q)
    BY <1>2, <2>1, <2>2 DEF Kept, Process
  <2>4. \A q \in lost : proc'[q].pc \in {"hold", "run"} => q \in lost'
    BY <1>2, <2>1, WriteMarks DEF TypeOK
  <2> QED BY <2>3, <2>4
<1> HIDE DEF Goal
<1>3. ASSUME NEW p \in Procs, Requests(p) PROVE Goal
  <2>1. PICK pool \in Pools, mb \in Sizes, exclusive \in BOOLEAN :
               Request(p, pool, mb, exclusive)
    BY <1>3 DEF Requests
  <2> DEFINE c == [NewProcess EXCEPT !.pc = "scan", !.no = requests', !.mb = mb,
                     !.exclusive = exclusive, !.pool = pool, !.left = pool]
  <2>2. c.pc = "scan"
    BY DEF NewProcess
  <2>3. proc' = [proc EXCEPT ![p] = c] /\ lost' = lost
    BY <2>1 DEF Request
  <2> HIDE DEF c
  <2> QED BY <1>2, <2>2, <2>3
<1>4. ASSUME NEW p \in Procs, Stage(p) PROVE Goal
  <2>1. ASSUME NEW g \in Gpus, Skip(p, g) PROVE Goal
    <3> DEFINE c == [proc[p] EXCEPT !.left = @ \ {g}]
    <3>1. c.pc = "scan"
      BY <2>1 DEF TypeOK, Process, Skip
    <3>2. proc' = [proc EXCEPT ![p] = c] /\ Write(g, Pruned(res[g]))
      BY <2>1 DEF Skip
    <3> HIDE DEF c
    <3> QED BY <1>2, <3>1, <3>2
  <2>2. ASSUME Rescan(p) PROVE Goal
    <3> DEFINE c == [proc[p] EXCEPT !.left = proc[p].pool]
    <3>1. c.pc = "scan"
      BY <2>2 DEF TypeOK, Process, Rescan
    <3>2. proc' = [proc EXCEPT ![p] = c] /\ lost' = lost
      BY <2>2 DEF Rescan
    <3> HIDE DEF c
    <3> QED BY <1>2, <3>1, <3>2
  <2>3. ASSUME Load(p) PROVE Goal
    <3>1. /\ proc[p].pc = "hold" /\ lost' = lost
          /\ proc' = [proc EXCEPT ![p] = [proc[p] EXCEPT !.pc = "run"]]
      BY <2>3 DEF Load
    <3> QED BY <1>2, <3>1
  <2>4. ASSUME Release(p) PROVE Goal
    <3>1. NewProcess.pc = "idle"
      BY DEF NewProcess
    <3> QED BY <1>2, <2>4, <3>1 DEF Release
  <2> QED BY <1>4, <2>1, <2>2, <2>3, <2>4 DEF Stage, Granting
<1>5. ASSUME NEW p \in Procs, GiveUp(p) \/ Die(p) \/ Spawn(p) \/ \E g \in Gpus : DieInWrite(p, g)
      PROVE  Goal
  <2>1. NewProcess.pc = "idle" /\ [NewProcess EXCEPT !.pc = "dead"].pc = "dead"
    BY DEF NewProcess
  <2>2. ASSUME NEW c, proc' = [proc EXCEPT ![p] = c],
               c \in {NewProcess, [NewProcess EXCEPT !.pc = "dead"]},
               \/ lost' = lost
               \/ lost' = lost \ {p} /\ c.pc = "dead"
               \/ \E g, rs : Write(g, rs)
        PROVE  Goal
    BY <1>2, <2>1, <2>2
  <2>3. CASE GiveUp(p) \/ Spawn(p)
    BY <2>2, <2>3 DEF GiveUp, Spawn
  <2>4. CASE Die(p) \/ \E g \in Gpus : DieInWrite(p, g)
    BY <2>1, <2>2, <2>4 DEF Die, DieInWrite
  <2> QED BY <1>5, <2>3, <2>4
<1>6. ASSUME Commands PROVE Goal
  BY <1>1, <1>6 DEF Commands, Waits, BeginWait, WaitAgain, WaitEnds, WaitTimesOut,
                    CleanDead, ClearGpuLock, WaitReads, RemoveForTask
<1>7. Goal
  BY <1>1, <1>3, <1>4, <1>5, <1>6 DEF Next, SetExternalUsed, vars
<1> QED BY <1>7 DEF Goal

(* What is promised after such a step was promised before.                  *)
LEMMA OthersPromiseNothing ==
  ASSUME TypeOK, PromisesFit, [Next]_vars, ~Granting
  PROVE  PromisesFit'
<1> SUFFICES ASSUME NEW g \in Gpus PROVE Mb(Promised(g)') <= Total
  BY DEF PromisesFit, Promised, Mb, Units
<1>1. Promised(g)' \subseteq Promised(g)
  <2> SUFFICES ASSUME NEW p \in Procs, p \in Holders(g)', p \notin lost'
               PROVE  ReservationOf(p)' \in Promised(g)
    BY DEF Promised, Holders
  <2>1. proc'[p].pc \in {"hold", "run"} /\ proc'[p].gpu = g
    BY DEF Holders
  <2>2. Kept(p) /\ p \notin lost
    BY <2>1, OthersGrantNothing
  <2>3. p \in Holders(g) \ lost /\ ReservationOf(p)' = ReservationOf(p)
    BY <2>1, <2>2 DEF Kept, Holders, ReservationOf
  <2> QED BY <2>3 DEF Promised
<1>2. IsFiniteSet(Promised(g)) /\ \A r \in Promised(g) : r.mb \in Nat
  BY HeldFinite DEF Promised
<1>3. Mb(Promised(g)') <= Mb(Promised(g)) /\ Mb(Promised(g)') \in Nat
  BY <1>1, <1>2, MbOfPart
<1>4. Mb(Promised(g)) <= Total /\ Mb(Promised(g)) \in Nat
  BY <1>2, UnitsFinite DEF PromisesFit, Promised
<1> QED BY <1>3, <1>4, GpuAssumption

(* A stage gets a GPU: its file holds what was promised there, and Admits   *)
(* added the memory of the stage to it.                                     *)
LEMMA GrantFits ==
  ASSUME IInv, FilesFinite, PromisesFit, NEW p \in Procs, NEW g \in Gpus, Acquire(p, g)
  PROVE  PromisesFit'
<1> DEFINE rs == Pruned(res[g])
           x == ReservationOf(p)
<1>1. /\ TypeOK /\ proc[p].pc = "scan" /\ proc[p] \in Process
      /\ proc[p].mb \in Nat /\ x.mb = proc[p].mb
  BY GpuAssumption DEF Acquire, IInv, TypeOK, ReservationOf
<1>2. /\ proc'[p].gpu = g /\ proc'[p].pc = "hold" /\ ReservationOf(p)' = x
      /\ \A q \in Procs : q # p => proc'[q] = proc[q]
  BY <1>1 DEF Acquire, TypeOK, Process, ReservationOf
<1>3. /\ Write(g, rs \cup {x})
      /\ Mb(rs) + proc[p].mb <= Free(g)
  BY DEF Acquire, Admits
<1>4. IsFiniteSet(rs) /\ \A r \in rs : r.mb \in Nat
  BY <1>1, FS_Subset, GpuAssumption DEF FilesFinite, TypeOK, Pruned, Reservation
<1>5. Mb(rs \cup {x}) <= Total
  <2>1. Mb(rs) \in Nat
    BY <1>4, UnitsFinite
  <2>2. Mb(rs \cup {x}) <= Mb(rs) + x.mb
    BY <1>1, <1>4, MbOfOneMore
  <2>3. IsFiniteSet(rs \cup {x}) /\ \A r \in rs \cup {x} : r.mb \in Nat
    BY <1>1, <1>4, FS_AddElement
  <2>4. Mb(rs \cup {x}) \in Nat
    BY <2>3, UnitsFinite
  <2> QED BY <1>1, <1>3, <2>1, <2>2, <2>4, FreeIsOfTheGpu, GpuAssumption
<1> HIDE DEF rs, x
<1> SUFFICES ASSUME NEW h \in Gpus PROVE Mb(Promised(h)') <= Total
  BY DEF PromisesFit, Promised, Mb, Units
<1>6. CASE h = g
  <2>1. Promised(h)' \subseteq rs \cup {x}
    <3> SUFFICES ASSUME NEW q \in Procs, q \in Holders(g)', q \notin lost'
                 PROVE  ReservationOf(q)' \in rs \cup {x}
      BY <1>6 DEF Promised, Holders
    <3>1. CASE q = p
      BY <1>2, <3>1
    <3>2. CASE q # p
      <4>1. q \in Holders(g) /\ ReservationOf(q)' = ReservationOf(q)
        BY <1>2, <3>2 DEF Holders, ReservationOf
      <4>2. ReservationOf(q) \in rs \cup {x}
        BY <1>3, <4>1 DEF Write, Holders
      <4> QED BY <4>1, <4>2
    <3> QED BY <3>1, <3>2
  <2>2. IsFiniteSet(rs \cup {x}) /\ \A r \in rs \cup {x} : r.mb \in Nat
    BY <1>1, <1>4, FS_AddElement
  <2>3. Mb(Promised(h)') <= Mb(rs \cup {x}) /\ Mb(Promised(h)') \in Nat /\ Mb(rs \cup {x}) \in Nat
    BY <2>1, <2>2, MbOfPart, UnitsFinite
  <2> QED BY <1>5, <2>3, GpuAssumption
<1>7. CASE h # g
  <2>1. Promised(h)' \subseteq Promised(h)
    <3> SUFFICES ASSUME NEW q \in Procs, q \in Holders(h)', q \notin lost'
                 PROVE  ReservationOf(q)' \in Promised(h)
      BY DEF Promised, Holders
    <3>1. q # p
      BY <1>2, <1>7 DEF Holders
    <3>2. q \in Holders(h) /\ ReservationOf(q)' = ReservationOf(q)
      BY <1>2, <3>1 DEF Holders, ReservationOf
    <3>3. q \notin lost
      BY <1>3 DEF Write, Holders
    <3> QED BY <3>2, <3>3 DEF Promised
  <2>2. IsFiniteSet(Promised(h)) /\ \A r \in Promised(h) : r.mb \in Nat
    BY <1>1, HeldFinite DEF Promised
  <2>3. Mb(Promised(h)') <= Mb(Promised(h)) /\ Mb(Promised(h)') \in Nat
    BY <2>1, <2>2, MbOfPart
  <2>4. Mb(Promised(h)) <= Total /\ Mb(Promised(h)) \in Nat
    BY <2>2, UnitsFinite DEF PromisesFit, Promised
  <2> QED BY <2>3, <2>4, GpuAssumption
<1> QED BY <1>6, <1>7

LEMMA InitFits == Init => PromisesFit
<1> SUFFICES ASSUME Init, NEW g \in Gpus PROVE Mb(Promised(g)) <= Total
  BY DEF PromisesFit, Promised
<1>1. Units(Promised(g)) = {}
  BY DEF Init, Promised, Holders, NewProcess, Units
<1> QED BY <1>1, FS_EmptySet, GpuAssumption DEF Mb

LEMMA NextFits == IInv /\ FilesFinite /\ PromisesFit /\ [Next]_vars => PromisesFit'
BY OthersPromiseNothing, GrantFits DEF IInv, Granting

(* PromisesFit: what the stages on a GPU were promised fits into it, for    *)
(* any number of stages and any sizes, but for reservations that were taken *)
(* away.                                                                    *)
THEOREM GpuPromisesFit == Spec => []PromisesFit
<1>1. IInv => TypeOK
  BY DEF IInv
<1> QED BY <1>1, InitInv, NextInv, InitFinite, NextFinite, InitFits, NextFits, PTL DEF Spec
=============================================================================
