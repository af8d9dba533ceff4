-------------------------- MODULE SubmissionProofs --------------------------
(***************************************************************************)
(* Scheduled submissions are submitted at most once, removed ones never,   *)
(* what has ended does not change, and a launched task is its own, for any *)
(* number of schedulers, submissions, clients and faults.                  *)
(*                                                                         *)
(* The inductive invariant: a scheduler owns what it has claimed, nobody   *)
(* else does (Single), an owned item is neither waiting nor ended (Owned), *)
(* and an item that was not begun stays so until its owner takes it out of *)
(* its list (Fresh).                                                       *)
(***************************************************************************)
EXTENDS Submission, TLAPS

Owns(s, i) == i \in sched[s].todo \/ sched[s].job = i

Owned == \A s \in Schedulers, i \in Ids :
            Owns(s, i) => items[i].status \in {"running", "stopped", "lost"}

Single == \A s, t \in Schedulers, i \in Ids : Owns(s, i) /\ Owns(t, i) => s = t

Fresh == /\ \A i \in Ids : /\ begun[i] <= 1
                           /\ items[i].status \in {"none", "scheduled", "removed"} => begun[i] = 0
         /\ \A s \in Schedulers : \A i \in sched[s].todo : begun[i] = 0 /\ sched[s].job # i

Reported == /\ \A j \in Jobs : sub[j].pc = "done" => j \in started
        /\ \A i \in Ids : items[i].status = "submitted" => i \in started

IInv == TypeOK /\ Owned /\ Single /\ Fresh /\ Reported

-----------------------------------------------------------------------------
(* A step that leaves the claims alone, and moves the status of an item     *)
(* only to one it may have.                                                 *)
StatusMoves ==
    \A i \in Ids :
       \/ items'[i] = items[i]
       \/ items[i].status = "none" /\ items'[i].status = "scheduled"
       \/ items[i].status = "scheduled" /\ items'[i].status \in {"removed", "stopped"}
       \/ items[i].status = "running" /\ items'[i].status = "stopped"
       \/ items[i].status # "none" /\ items'[i].status = "lost"

LEMMA CommandKeeps ==
  ASSUME IInv, StatusMoves, items' \in [Ids -> Item], faults' \in 0..MaxFaults,
         UNCHANGED <<now, sched, sub, disk, started, ghosts>>
  PROVE  IInv'
<1>1. TypeOK'
  BY DEF IInv, TypeOK, disk, ghosts
<1>2. Owned'
  BY DEF IInv, Owned, Owns, StatusMoves
<1>3. Single'
  BY DEF IInv, Single, Owns
<1>4. Fresh'
  BY DEF IInv, Fresh, StatusMoves, ghosts
<1>5. Reported'
  BY DEF IInv, Reported, StatusMoves
<1> QED BY <1>1, <1>2, <1>3, <1>4, <1>5 DEF IInv

LEMMA WithStatusType ==
  ASSUME TypeOK, NEW i \in Ids, NEW status \in Statuses
  PROVE  /\ WithStatus(i, status) \in Item
         /\ WithStatus(i, status).status = status
BY DEF TypeOK, WithStatus, Item

LEMMA SetStatusType ==
  ASSUME TypeOK, NEW i \in Ids, NEW status \in Statuses, SetStatus(i, status)
  PROVE  /\ items' \in [Ids -> Item]
         /\ items'[i].status = status
         /\ \A k \in Ids \ {i} : items'[k] = items[k]
BY WithStatusType DEF TypeOK, SetStatus

LEMMA LoseFileMoves ==
  ASSUME TypeOK, LoseFile
  PROVE  items' \in [Ids -> Item] /\ StatusMoves
<1>1. "lost" \in Statuses
  BY DEF Statuses
<1>2. \A i \in Ids : /\ WithStatus(i, "lost") \in Item
                     /\ WithStatus(i, "lost").status = "lost"
                     /\ items[i] \in Item
  BY <1>1, WithStatusType DEF TypeOK
<1> QED BY <1>2 DEF LoseFile, StatusMoves, InFile

LEMMA FaultType ==
  ASSUME TypeOK, Fault
  PROVE  faults' \in 0..MaxFaults
BY SubmissionAssumption DEF TypeOK, Fault

LEMMA CommandsKeep ==
  ASSUME IInv,
         \/ StopScheduledSubmits \/ CommandDiesInWrite
         \/ \E i \in Ids : RemoveScheduledSubmit(i)
                           \/ \E after \in Times : RegisterScheduledSubmit(i, after)
  PROVE  IInv'
<1>0. TypeOK /\ faults \in 0..MaxFaults /\ {"scheduled", "removed", "stopped", "lost"} \subseteq Statuses
  BY DEF IInv, TypeOK, Statuses
<1>1. ASSUME StopScheduledSubmits PROVE IInv'
  <2>1. \A i \in Ids : /\ WithStatus(i, "stopped") \in Item
                       /\ WithStatus(i, "stopped").status = "stopped"
                       /\ items[i] \in Item
    BY <1>0, WithStatusType DEF TypeOK
  <2>2. items' \in [Ids -> Item] /\ StatusMoves
    BY <1>1, <2>1 DEF StopScheduledSubmits, StatusMoves, Stoppable
  <2> QED BY <1>0, <1>1, <2>2, CommandKeeps DEF StopScheduledSubmits, OnFile
<1>2. ASSUME CommandDiesInWrite PROVE IInv'
  BY <1>0, <1>2, LoseFileMoves, FaultType, CommandKeeps DEF CommandDiesInWrite
<1>3. ASSUME NEW i \in Ids, RemoveScheduledSubmit(i) PROVE IInv'
  <2>1. SetStatus(i, "removed") /\ items[i].status = "scheduled"
    BY <1>3 DEF RemoveScheduledSubmit, Removable
  <2>2. items' \in [Ids -> Item] /\ StatusMoves
    BY <1>0, <2>1, SetStatusType DEF StatusMoves
  <2> QED BY <1>0, <1>3, <2>2, CommandKeeps DEF RemoveScheduledSubmit, OnFile
<1>4. ASSUME NEW i \in Ids, NEW after \in Times, RegisterScheduledSubmit(i, after) PROVE IInv'
  <2>1. after \in Seconds
    BY SubmissionAssumption
  <2>2. items' \in [Ids -> Item] /\ StatusMoves
    BY <1>0, <1>4, <2>1 DEF RegisterScheduledSubmit, StatusMoves, TypeOK, Item
  <2> QED BY <1>0, <1>4, <2>2, CommandKeeps DEF RegisterScheduledSubmit, OnFile
<1> QED BY <1>1, <1>2, <1>3, <1>4

-----------------------------------------------------------------------------
(* The steps of a submission.                                               *)

(* A step that leaves the file, the claims and the counts alone.            *)
LEMMA StepKeeps ==
  ASSUME IInv, NEW j \in Jobs, NEW pc, Goto(j, pc),
         [pc |-> pc, at |-> sub[j].at] \in Sub,
         dir' \in [Names -> Jobs \cup {NoJob}],
         yaml' \in [Names -> Jobs \cup {NoJob}],
         dag' \in [Names -> Jobs \cup {NoJob}],
         started \subseteq started', started' \subseteq Jobs,
         pc = "done" => j \in started',
         faults' \in 0..MaxFaults,
         UNCHANGED <<now, items, sched, ghosts>>
  PROVE  IInv'
<1>1. sub' \in [Jobs -> Sub] /\ sub'[j].pc = pc /\ \A k \in Jobs \ {j} : sub'[k] = sub[k]
  BY DEF Goto, IInv, TypeOK
<1>2. TypeOK'
  BY <1>1 DEF IInv, TypeOK, ghosts
<1>3. Owned' /\ Single' /\ Fresh'
  BY DEF IInv, Owned, Single, Fresh, Owns, ghosts
<1>4. Reported'
  BY <1>1 DEF IInv, Reported
<1> QED BY <1>2, <1>3, <1>4 DEF IInv

LEMMA SubmitKeeps ==
  ASSUME IInv, NEW j \in Jobs, Submit(j)
  PROVE  IInv'
<1>0. /\ TypeOK /\ sub[j] \in Sub /\ sub[j].at \in Seconds
      /\ NameOf(j) \in Names /\ faults \in 0..MaxFaults
  BY SubmissionAssumption DEF IInv, TypeOK, Sub, NameOf, Names
<1>1. \A pc \in Preparing \cup {"launch", "done", "failed"} : [pc |-> pc, at |-> sub[j].at] \in Sub
  BY <1>0 DEF Sub
<1>2. /\ dir \in [Names -> Jobs \cup {NoJob}] /\ yaml \in [Names -> Jobs \cup {NoJob}]
      /\ dag \in [Names -> Jobs \cup {NoJob}] /\ started \subseteq Jobs
  BY <1>0 DEF TypeOK
<1>3. ASSUME Check(j) PROVE IInv'
  <2>1. PICK pc \in {"failed", "mkdir"} : Goto(j, pc) /\ faults' \in 0..MaxFaults
    BY <1>0, <1>3, FaultType DEF Check
  <2> QED BY <1>1, <1>2, <1>3, <2>1, StepKeeps DEF Check, Rest, disk, Preparing
<1>4. ASSUME MakeDir(j) PROVE IInv'
  <2>1. PICK pc \in {"copy", "undo"} : Goto(j, pc) /\ dir' \in [Names -> Jobs \cup {NoJob}]
    BY <1>2, <1>4 DEF MakeDir
  <2> QED BY <1>0, <1>1, <1>2, <1>4, <2>1, StepKeeps DEF MakeDir, Rest, Preparing
<1>5. ASSUME Copy(j) PROVE IInv'
  <2>1. PICK pc \in {"render", "undo"} : /\ Goto(j, pc) /\ yaml' \in [Names -> Jobs \cup {NoJob}]
                                         /\ faults' \in 0..MaxFaults
    BY <1>0, <1>2, <1>5, FaultType DEF Copy
  <2> QED BY <1>1, <1>2, <1>5, <2>1, StepKeeps DEF Copy, Rest, Preparing
<1>6. ASSUME Render(j) PROVE IInv'
  <2>1. PICK pc \in {"write", "undo"} : Goto(j, pc) /\ faults' \in 0..MaxFaults
    BY <1>0, <1>6, FaultType DEF Render
  <2> QED BY <1>1, <1>2, <1>6, <2>1, StepKeeps DEF Render, Rest, disk, Preparing
<1>7. ASSUME WriteDag(j) PROVE IInv'
  <2>1. Goto(j, "launch") /\ dag' \in [Names -> Jobs \cup {NoJob}]
    BY <1>2, <1>7 DEF WriteDag
  <2> QED BY <1>0, <1>1, <1>2, <1>7, <2>1, StepKeeps DEF WriteDag, Rest
<1>8. ASSUME Undo(j) PROVE IInv'
  <2>1. /\ Goto(j, "failed") /\ dir' \in [Names -> Jobs \cup {NoJob}]
        /\ yaml' \in [Names -> Jobs \cup {NoJob}]
    BY <1>2, <1>8 DEF Undo
  <2> QED BY <1>0, <1>1, <1>2, <1>8, <2>1, StepKeeps DEF Undo, Rest
<1>9. ASSUME Launch(j) PROVE IInv'
  <2>1. PICK pc \in {"done", "failed"} :
           /\ Goto(j, pc) /\ started \subseteq started' /\ started' \subseteq Jobs
           /\ pc = "done" => j \in started'
           /\ faults' \in 0..MaxFaults
    BY <1>0, <1>2, <1>9, FaultType DEF Launch
  <2> QED BY <1>1, <1>2, <1>9, <2>1, StepKeeps DEF Launch, disk
<1> QED BY <1>3, <1>4, <1>5, <1>6, <1>7, <1>8, <1>9 DEF Submit

LEMMA ClientsAreNoIds == \A c \in Clients : c \in Jobs /\ c \notin Ids
BY SubmissionAssumption DEF Jobs

LEMMA BeginType ==
  ASSUME TypeOK, NEW j \in Jobs, Begin(j)
  PROVE  /\ sub' \in [Jobs -> Sub] /\ sub'[j].pc = "check"
         /\ \A k \in Jobs \ {j} : sub'[k] = sub[k]
         /\ begun' \in [Jobs -> 0..2] /\ begun'[j] = (IF begun[j] = 2 THEN 2 ELSE begun[j] + 1)
         /\ \A k \in Jobs \ {j} : begun'[k] = begun[k]
         /\ overlap' \subseteq Jobs
<1>1. [pc |-> "check", at |-> now] \in Sub
  BY DEF TypeOK, Sub, Preparing
<1>2. begun[j] \in 0..2
  BY DEF TypeOK
<1>3. (IF begun[j] = 2 THEN 2 ELSE begun[j] + 1) \in 0..2
  BY <1>2
<1> QED BY <1>1, <1>3 DEF Begin, TypeOK

LEMMA ClientSubmitsKeeps ==
  ASSUME IInv, NEW c \in Clients, ClientSubmits(c)
  PROVE  IInv'
<1>1. c \in Jobs /\ \A i \in Ids : i \in Jobs \ {c}
  BY ClientsAreNoIds DEF Jobs
<1>2. /\ sub' \in [Jobs -> Sub] /\ sub'[c].pc = "check"
      /\ \A k \in Jobs \ {c} : sub'[k] = sub[k]
      /\ begun' \in [Jobs -> 0..2]
      /\ \A k \in Jobs \ {c} : begun'[k] = begun[k]
      /\ overlap' \subseteq Jobs
  BY <1>1, BeginType DEF ClientSubmits, IInv
<1>3. UNCHANGED <<now, items, sched, disk, started, faults>>
  BY DEF ClientSubmits
<1>4. TypeOK'
  BY <1>2, <1>3 DEF IInv, TypeOK, disk
<1>5. Owned' /\ Single'
  BY <1>3 DEF IInv, Owned, Single, Owns
<1>6. Fresh'
  <2>1. \A s \in Schedulers : sched[s].todo \subseteq Ids
    BY DEF IInv, TypeOK, Scheduler
  <2> QED BY <1>1, <1>2, <1>3, <2>1 DEF IInv, Fresh
<1>7. Reported'
  BY <1>2, <1>3 DEF IInv, Reported
<1> QED BY <1>4, <1>5, <1>6, <1>7 DEF IInv

LEMMA ClientDiesKeeps ==
  ASSUME IInv, NEW c \in Clients, ClientDies(c)
  PROVE  IInv'
<1>1. c \in Jobs /\ [pc |-> "dead", at |-> sub[c].at] \in Sub
  BY ClientsAreNoIds DEF IInv, TypeOK, Sub
<1>2. Goto(c, "dead") /\ faults' \in 0..MaxFaults /\ UNCHANGED <<now, items, sched, started, ghosts, disk>>
  BY FaultType DEF ClientDies, Rest, IInv
<1> QED BY <1>1, <1>2, StepKeeps DEF IInv, TypeOK, disk
-----------------------------------------------------------------------------
(* The steps of a scheduler.                                                *)

(* Replacing what one scheduler holds by less.                              *)
LEMMA LessOwned ==
  ASSUME TypeOK, NEW s \in Schedulers, NEW c, sched' = [sched EXCEPT ![s] = c],
         c.todo \subseteq sched[s].todo, c.job \in {NoJob, sched[s].job}
  PROVE  /\ \A t \in Schedulers, i \in Ids : Owns(t, i)' => Owns(t, i)
         /\ \A t \in Schedulers : sched'[t].todo \subseteq sched[t].todo
<1>1. NoJob \notin Ids
  BY SubmissionAssumption DEF Jobs
<1>2. sched'[s] = c /\ \A t \in Schedulers \ {s} : sched'[t] = sched[t]
  BY DEF TypeOK
<1> QED BY <1>1, <1>2 DEF Owns

SchedulerOK(c) == c \in Scheduler /\ (c.pc = "busy" <=> (c.todo # {} \/ c.job # NoJob))

LEMMA ReplaceScheduler ==
  ASSUME TypeOK, NEW s \in Schedulers, NEW c, SchedulerOK(c), sched' = [sched EXCEPT ![s] = c]
  PROVE  /\ sched' \in [Schedulers -> Scheduler]
         /\ \A t \in Schedulers :
              sched'[t].pc = "busy" <=> (sched'[t].todo # {} \/ sched'[t].job # NoJob)
         /\ sched'[s] = c /\ \A t \in Schedulers \ {s} : sched'[t] = sched[t]
BY DEF TypeOK, SchedulerOK

LEMMA NoClaims == SchedulerOK(IdleScheduler) /\ SchedulerOK(DeadScheduler)
BY DEF SchedulerOK, IdleScheduler, DeadScheduler, Scheduler

LEMMA ClaimKeeps ==
  ASSUME IInv, NEW s \in Schedulers, Claim(s)
  PROVE  IInv'
<1> DEFINE due == {i \in Ids : Due(i)}
           c == [pc |-> "busy", todo |-> due, job |-> NoJob]
<1>1. /\ sched[s].pc = "idle" /\ due # {}
      /\ items' = [i \in Ids |-> IF i \in due THEN WithStatus(i, "running") ELSE items[i]]
      /\ sched' = [sched EXCEPT ![s] = c]
      /\ UNCHANGED <<now, sub, disk, started, ghosts, faults>>
  BY DEF Claim
<1>2. SchedulerOK(c) /\ c.todo = due /\ c.job = NoJob
  BY <1>1 DEF SchedulerOK, Scheduler
<1>3. \A i \in due : items[i].status = "scheduled"
  BY DEF Due
<1>4. due \subseteq Ids
  OBVIOUS
<1> HIDE DEF due, c
<1>5. /\ sched' \in [Schedulers -> Scheduler]
      /\ \A t \in Schedulers :
              sched'[t].pc = "busy" <=> (sched'[t].todo # {} \/ sched'[t].job # NoJob)
      /\ sched'[s] = c /\ \A t \in Schedulers \ {s} : sched'[t] = sched[t]
  BY <1>1, <1>2, ReplaceScheduler DEF IInv
<1>6. \A i \in Ids : /\ WithStatus(i, "running") \in Item
                     /\ WithStatus(i, "running").status = "running"
                     /\ items[i] \in Item
  <2>1. "running" \in Statuses
    BY DEF Statuses
  <2> QED BY <2>1, WithStatusType DEF IInv, TypeOK
<1>7. /\ items' \in [Ids -> Item]
      /\ \A i \in due : items'[i].status = "running"
      /\ \A i \in Ids \ due : items'[i] = items[i]
  BY <1>1, <1>4, <1>6
<1>8. TypeOK'
  BY <1>1, <1>5, <1>7 DEF IInv, TypeOK, disk, ghosts
<1>9. \A t \in Schedulers, i \in due : ~Owns(t, i)
  BY <1>3, <1>4 DEF IInv, Owned
<1>10. NoJob \notin Ids
  BY SubmissionAssumption DEF Jobs
<1>11. \A i \in Ids : Owns(s, i)' <=> i \in due
  BY <1>2, <1>5, <1>10 DEF Owns
<1>12. \A t \in Schedulers \ {s}, i \in Ids : Owns(t, i)' <=> Owns(t, i)
  BY <1>5 DEF Owns
<1>13. Owned'
  <2> SUFFICES ASSUME NEW t \in Schedulers, NEW i \in Ids, Owns(t, i)'
               PROVE  items'[i].status \in {"running", "stopped", "lost"}
    BY DEF Owned
  <2>1. CASE i \in due
    BY <1>7, <2>1
  <2>2. CASE i \notin due
    BY <1>7, <1>11, <1>12, <2>2 DEF IInv, Owned
  <2> QED BY <2>1, <2>2
<1>14. Single'
  BY <1>9, <1>11, <1>12 DEF IInv, Single
<1>15. Fresh'
  <2>1. \A i \in due : begun[i] = 0
    BY <1>3, <1>4 DEF IInv, Fresh
  <2>2. \A i \in Ids : /\ begun'[i] <= 1
                       /\ items'[i].status \in {"none", "scheduled", "removed"} => begun'[i] = 0
    BY <1>1, <1>7 DEF IInv, Fresh, ghosts
  <2>3. \A t \in Schedulers : \A i \in sched'[t].todo : begun'[i] = 0 /\ sched'[t].job # i
    BY <1>1, <1>2, <1>4, <1>5, <1>10, <2>1 DEF IInv, Fresh, ghosts
  <2> QED BY <2>2, <2>3 DEF Fresh
<1>16. Reported'
  BY <1>1, <1>7 DEF IInv, Reported
<1> QED BY <1>8, <1>13, <1>14, <1>15, <1>16 DEF IInv

LEMMA SubmitScheduledItemKeeps ==
  ASSUME IInv, NEW s \in Schedulers, NEW i \in Ids, SubmitScheduledItem(s, i)
  PROVE  IInv'
<1> DEFINE c == [pc |-> "busy", todo |-> sched[s].todo \ {i}, job |-> i]
<1>1. /\ sched[s].job = NoJob /\ i \in sched[s].todo
      /\ sched' = [sched EXCEPT ![s] = c] /\ Begin(i)
      /\ UNCHANGED <<now, items, disk, started, faults>>
  BY DEF SubmitScheduledItem
<1>2. sched[s] \in Scheduler /\ NoJob \notin Ids /\ i \in Jobs
  BY SubmissionAssumption DEF IInv, TypeOK, Jobs
<1>3. SchedulerOK(c) /\ c.todo = sched[s].todo \ {i} /\ c.job = i
  BY <1>2 DEF SchedulerOK, Scheduler
<1> HIDE DEF c
<1>4. /\ sched' \in [Schedulers -> Scheduler]
      /\ \A t \in Schedulers :
              sched'[t].pc = "busy" <=> (sched'[t].todo # {} \/ sched'[t].job # NoJob)
      /\ sched'[s] = c /\ \A t \in Schedulers \ {s} : sched'[t] = sched[t]
  BY <1>1, <1>3, ReplaceScheduler DEF IInv
<1>5. /\ sub' \in [Jobs -> Sub] /\ sub'[i].pc = "check"
      /\ \A k \in Jobs \ {i} : sub'[k] = sub[k]
      /\ begun' \in [Jobs -> 0..2] /\ begun'[i] = (IF begun[i] = 2 THEN 2 ELSE begun[i] + 1)
      /\ \A k \in Jobs \ {i} : begun'[k] = begun[k]
      /\ overlap' \subseteq Jobs
  BY <1>1, <1>2, BeginType DEF IInv
<1>6. begun[i] = 0 /\ begun'[i] = 1
  BY <1>1, <1>5 DEF IInv, Fresh
<1>7. TypeOK'
  BY <1>1, <1>4, <1>5 DEF IInv, TypeOK, disk
<1>8. \A t \in Schedulers, k \in Ids : Owns(t, k)' <=> Owns(t, k)
  BY <1>1, <1>2, <1>3, <1>4 DEF Owns
<1>9. Owned' /\ Single'
  BY <1>1, <1>8 DEF IInv, Owned, Single
<1>10. Owns(s, i)
  BY <1>1 DEF Owns
<1>11. Fresh'
  <2>1. \A k \in Ids : /\ begun'[k] <= 1
                       /\ items'[k].status \in {"none", "scheduled", "removed"} => begun'[k] = 0
    <3> SUFFICES ASSUME NEW k \in Ids
                 PROVE  /\ begun'[k] <= 1
                        /\ items'[k].status \in {"none", "scheduled", "removed"} => begun'[k] = 0
      OBVIOUS
    <3>1. CASE k = i
      <4>1. items[i].status \in {"running", "stopped", "lost"}
        BY <1>10 DEF IInv, Owned
      <4> QED BY <1>1, <1>6, <3>1, <4>1
    <3>2. CASE k # i
      <4>1. k \in Jobs
        BY DEF Jobs
      <4> QED BY <1>1, <1>5, <3>2, <4>1 DEF IInv, Fresh
    <3> QED BY <3>1, <3>2
  <2>2. ASSUME NEW t \in Schedulers, NEW k \in sched'[t].todo
        PROVE  begun'[k] = 0 /\ sched'[t].job # k
    <3>0. k \in Ids /\ k \in Jobs
      BY <1>4, <2>2 DEF Scheduler, Jobs
    <3>1. CASE t = s
      <4>1. k # i /\ k \in sched[s].todo
        BY <1>3, <1>4, <2>2, <3>1
      <4> QED BY <1>3, <1>4, <1>5, <3>0, <3>1, <4>1 DEF IInv, Fresh
    <3>2. CASE t # s
      <4>1. sched'[t] = sched[t] /\ Owns(t, k)
        BY <1>4, <2>2, <3>2 DEF Owns
      <4>2. k # i
        BY <1>10, <3>2, <4>1 DEF IInv, Single
      <4> QED BY <1>5, <2>2, <3>0, <4>1, <4>2 DEF IInv, Fresh
    <3> QED BY <3>1, <3>2
  <2> QED BY <2>1, <2>2 DEF Fresh
<1>12. Reported'
  BY <1>1, <1>5 DEF IInv, Reported
<1> QED BY <1>7, <1>9, <1>11, <1>12 DEF IInv

(* A scheduler gives up some or all of what it owns.                        *)
LEMMA DisownKeeps ==
  ASSUME IInv, NEW s \in Schedulers, NEW c, SchedulerOK(c), sched' = [sched EXCEPT ![s] = c],
         c.todo \subseteq sched[s].todo, c.job = NoJob,
         StatusMoves, items' \in [Ids -> Item], faults' \in 0..MaxFaults,
         sub' = sub, UNCHANGED <<now, disk, started, ghosts>>
  PROVE  IInv'
<1>1. /\ sched' \in [Schedulers -> Scheduler]
      /\ \A t \in Schedulers :
              sched'[t].pc = "busy" <=> (sched'[t].todo # {} \/ sched'[t].job # NoJob)
      /\ sched'[s] = c /\ \A t \in Schedulers \ {s} : sched'[t] = sched[t]
  BY ReplaceScheduler DEF IInv
<1>2. /\ \A t \in Schedulers, i \in Ids : Owns(t, i)' => Owns(t, i)
      /\ \A t \in Schedulers : sched'[t].todo \subseteq sched[t].todo
  BY LessOwned DEF IInv
<1>3. TypeOK'
  BY <1>1 DEF IInv, TypeOK, disk, ghosts
<1>4. Owned' /\ Single'
  BY <1>2 DEF IInv, Owned, Single, StatusMoves
<1>5. NoJob \notin Ids
  BY SubmissionAssumption DEF Jobs
<1>6. \A t \in Schedulers : \A i \in sched'[t].todo : begun'[i] = 0 /\ sched'[t].job # i
  <2> SUFFICES ASSUME NEW t \in Schedulers, NEW i \in sched'[t].todo
               PROVE  begun'[i] = 0 /\ sched'[t].job # i
    OBVIOUS
  <2>1. i \in sched[t].todo /\ i \in Ids
    BY <1>1, <1>2 DEF Scheduler
  <2>2. begun'[i] = 0 /\ sched[t].job # i
    BY <2>1 DEF IInv, Fresh, ghosts
  <2> QED BY <1>1, <1>5, <2>1, <2>2
<1>7. Fresh'
  <2>1. \A i \in Ids : /\ begun'[i] <= 1
                       /\ items'[i].status \in {"none", "scheduled", "removed"} => begun'[i] = 0
    BY DEF IInv, Fresh, StatusMoves, ghosts
  <2> QED BY <1>6, <2>1 DEF Fresh
<1>8. Reported'
  BY DEF IInv, Reported, StatusMoves
<1> QED BY <1>3, <1>4, <1>7, <1>8 DEF IInv

LEMMA NothingMoves == UNCHANGED items /\ TypeOK => StatusMoves /\ items' \in [Ids -> Item]
BY DEF StatusMoves, TypeOK

LEMMA StartsKeeps ==
  ASSUME IInv, NEW s \in Schedulers,
         SchedulerStarts(s) \/ SchedulerDiesInWrite(s)
  PROVE  IInv'
<1>0. /\ TypeOK /\ faults \in 0..MaxFaults
      /\ IdleScheduler.todo = {} /\ IdleScheduler.job = NoJob
      /\ DeadScheduler.todo = {} /\ DeadScheduler.job = NoJob
  BY DEF IInv, TypeOK, IdleScheduler, DeadScheduler
<1>1. ASSUME SchedulerStarts(s) PROVE IInv'
  <2>1. /\ sched' = [sched EXCEPT ![s] = IdleScheduler] /\ faults' \in 0..MaxFaults
        /\ sub' = sub /\ UNCHANGED <<now, disk, started, ghosts>>
        /\ StatusMoves /\ items' \in [Ids -> Item]
    BY <1>0, <1>1, NothingMoves DEF SchedulerStarts
  <2> QED BY <1>0, <2>1, NoClaims, DisownKeeps
<1>2. ASSUME SchedulerDiesInWrite(s) PROVE IInv'
  <2>1. /\ sched' = [sched EXCEPT ![s] = DeadScheduler] /\ faults' \in 0..MaxFaults
        /\ sub' = sub /\ UNCHANGED <<now, disk, started, ghosts>>
        /\ StatusMoves /\ items' \in [Ids -> Item]
    BY <1>0, <1>2, LoseFileMoves, FaultType DEF SchedulerDiesInWrite
  <2> QED BY <1>0, <2>1, NoClaims, DisownKeeps
<1> QED BY <1>1, <1>2

(* The claims after a scheduler gave up some or all of what it owns.        *)
LEMMA DisownClaims ==
  ASSUME IInv, NEW s \in Schedulers, NEW c, SchedulerOK(c), sched' = [sched EXCEPT ![s] = c],
         c.todo \subseteq sched[s].todo, c.job = NoJob
  PROVE  /\ sched' \in [Schedulers -> Scheduler]
         /\ \A t \in Schedulers :
              sched'[t].pc = "busy" <=> (sched'[t].todo # {} \/ sched'[t].job # NoJob)
         /\ \A t \in Schedulers, i \in Ids : Owns(t, i)' => Owns(t, i)
         /\ \A t \in Schedulers : sched'[t].todo \subseteq sched[t].todo
         /\ \A t \in Schedulers : sched'[t].job \in {NoJob, sched[t].job}
         /\ sched'[s] = c
<1>1. /\ sched' \in [Schedulers -> Scheduler]
      /\ \A t \in Schedulers :
              sched'[t].pc = "busy" <=> (sched'[t].todo # {} \/ sched'[t].job # NoJob)
      /\ sched'[s] = c /\ \A t \in Schedulers \ {s} : sched'[t] = sched[t]
  BY ReplaceScheduler DEF IInv
<1>2. /\ \A t \in Schedulers, i \in Ids : Owns(t, i)' => Owns(t, i)
      /\ \A t \in Schedulers : sched'[t].todo \subseteq sched[t].todo
  BY LessOwned DEF IInv
<1> QED BY <1>1, <1>2

LEMMA FreshLists ==
  ASSUME IInv, sched' \in [Schedulers -> Scheduler], UNCHANGED begun,
         \A t \in Schedulers : sched'[t].todo \subseteq sched[t].todo,
         \A t \in Schedulers : sched'[t].job \in {NoJob, sched[t].job}
  PROVE  \A t \in Schedulers : \A i \in sched'[t].todo : begun'[i] = 0 /\ sched'[t].job # i
<1> SUFFICES ASSUME NEW t \in Schedulers, NEW i \in sched'[t].todo
             PROVE  begun'[i] = 0 /\ sched'[t].job # i
  OBVIOUS
<1>1. i \in sched[t].todo /\ i \in Ids /\ NoJob \notin Ids
  BY SubmissionAssumption DEF Scheduler, Jobs
<1>2. begun'[i] = 0 /\ sched[t].job # i
  BY <1>1 DEF IInv, Fresh
<1> QED BY <1>1, <1>2

LEMMA SchedulerDiesKeeps ==
  ASSUME IInv, NEW s \in Schedulers, SchedulerDies(s)
  PROVE  IInv'
<1>0. /\ DeadScheduler.todo = {} /\ DeadScheduler.job = NoJob
      /\ sched' = [sched EXCEPT ![s] = DeadScheduler]
      /\ UNCHANGED <<now, items, disk, started, ghosts>>
      /\ faults' \in 0..MaxFaults
  BY FaultType DEF SchedulerDies, DeadScheduler, IInv
<1>1. /\ sched' \in [Schedulers -> Scheduler]
      /\ \A t \in Schedulers :
              sched'[t].pc = "busy" <=> (sched'[t].todo # {} \/ sched'[t].job # NoJob)
      /\ \A t \in Schedulers, i \in Ids : Owns(t, i)' => Owns(t, i)
      /\ \A t \in Schedulers : sched'[t].todo \subseteq sched[t].todo
      /\ \A t \in Schedulers : sched'[t].job \in {NoJob, sched[t].job}
  BY <1>0, NoClaims, DisownClaims
<1>2. sub' \in [Jobs -> Sub] /\ \A j \in Jobs : sub'[j] = sub[j] \/ sub'[j].pc = "dead"
  <2>1. CASE sched[s].job = NoJob
    BY <2>1 DEF SchedulerDies, IInv, TypeOK
  <2>2. CASE sched[s].job # NoJob
    <3>1. sched[s].job \in Jobs
      BY <2>2 DEF IInv, TypeOK, Scheduler, Jobs
    <3>2. [pc |-> "dead", at |-> sub[sched[s].job].at] \in Sub
      BY <3>1 DEF IInv, TypeOK, Sub
    <3> QED BY <2>2, <3>1, <3>2 DEF SchedulerDies, Goto, IInv, TypeOK
  <2> QED BY <2>1, <2>2
<1>3. TypeOK'
  BY <1>0, <1>1, <1>2 DEF IInv, TypeOK, disk, ghosts
<1>4. Owned' /\ Single'
  BY <1>0, <1>1 DEF IInv, Owned, Single
<1>5. Fresh'
  <2>1. \A t \in Schedulers : \A i \in sched'[t].todo : begun'[i] = 0 /\ sched'[t].job # i
    BY <1>0, <1>1, FreshLists DEF ghosts
  <2> QED BY <1>0, <2>1 DEF IInv, Fresh, ghosts
<1>6. Reported'
  <2>1. \A j \in Jobs : sub'[j].pc = "done" => sub[j].pc = "done"
    BY <1>2
  <2> QED BY <1>0, <2>1 DEF IInv, Reported
<1> QED BY <1>3, <1>4, <1>5, <1>6 DEF IInv

(* Only the item of the job that ended changes, and it becomes submitted    *)
(* only if its task was started.                                            *)
LEMMA FinishChanges ==
  ASSUME IInv, NEW s \in Schedulers, Finish(s)
  PROVE  /\ sched[s].job \in Ids
         /\ items' \in [Ids -> Item]
         /\ items' = items \/ /\ items'[sched[s].job].status \in {"submitted", "failed"}
                              /\ \A k \in Ids \ {sched[s].job} : items'[k] = items[k]
         /\ items'[sched[s].job].status = "submitted"
              => items' = items \/ sched[s].job \in started
         /\ faults' \in 0..MaxFaults
<1> DEFINE i == sched[s].job
<1>1. i \in Ids /\ i \in Jobs
  BY DEF Finish, IInv, TypeOK, Scheduler, Jobs
<1>2. TypeOK /\ faults \in 0..MaxFaults /\ Outcome(i) \in {"submitted", "failed"}
  BY DEF IInv, TypeOK, Outcome
<1>3. Outcome(i) = "submitted" => i \in started
  BY <1>1 DEF Outcome, IInv, Reported
<1>4. {"submitted", "failed"} \subseteq Statuses
  BY DEF Statuses
<1>5. CASE UNCHANGED items /\ UNCHANGED faults
  BY <1>1, <1>2, <1>5 DEF TypeOK
<1>6. CASE SetStatus(i, Outcome(i)) /\ UNCHANGED faults
  <2>1. Outcome(i) \in Statuses
    BY <1>2, <1>4
  <2> HIDE DEF i
  <2>2. /\ items' \in [Ids -> Item] /\ items'[i].status = Outcome(i)
        /\ \A k \in Ids \ {i} : items'[k] = items[k]
    BY <1>1, <1>2, <1>6, <2>1, SetStatusType
  <2>3. UNCHANGED faults
    BY <1>6
  <2>4. faults' \in 0..MaxFaults
    BY <1>2, <2>3
  <2>5. /\ i \in Ids /\ items' \in [Ids -> Item]
        /\ items'[i].status \in {"submitted", "failed"}
        /\ items'[i].status = "submitted" => i \in started
    BY <1>1, <1>2, <1>3, <2>2
  <2> USE DEF i
  <2> QED BY <2>2, <2>4, <2>5
<1>7. CASE SetStatus(i, "failed") /\ Fault
  <2>0. "failed" \in Statuses
    BY <1>4
  <2> HIDE DEF i
  <2>1. /\ items' \in [Ids -> Item] /\ items'[i].status = "failed"
        /\ \A k \in Ids \ {i} : items'[k] = items[k]
    BY <1>1, <1>2, <1>7, <2>0, SetStatusType
  <2>2. faults' \in 0..MaxFaults
    BY <1>2, <1>7, FaultType
  <2>3. i \in Ids
    BY <1>1
  <2> USE DEF i
  <2> QED BY <2>1, <2>2, <2>3
<1>8. \/ UNCHANGED items /\ UNCHANGED faults
      \/ SetStatus(i, Outcome(i)) /\ UNCHANGED faults
      \/ SetStatus(i, "failed") /\ Fault
  BY DEF Finish
<1> QED BY <1>5, <1>6, <1>7, <1>8

LEMMA FinishKeeps ==
  ASSUME IInv, NEW s \in Schedulers, Finish(s)
  PROVE  IInv'
<1>0. PICK i \in Ids : i = sched[s].job
  BY FinishChanges
<1> DEFINE c == NextJob(s)
<1>1. /\ i \in Ids /\ items' \in [Ids -> Item] /\ faults' \in 0..MaxFaults
      /\ items' = items \/ /\ items'[i].status \in {"submitted", "failed"}
                           /\ \A k \in Ids \ {i} : items'[k] = items[k]
      /\ items'[i].status = "submitted" => items' = items \/ i \in started
  BY <1>0, FinishChanges
<1>2. SchedulerOK(c) /\ c.todo \subseteq sched[s].todo /\ c.job = NoJob
  BY DEF NextJob, SchedulerOK, IdleScheduler, Scheduler, IInv, TypeOK
<1>3. /\ sched' = [sched EXCEPT ![s] = c]
      /\ UNCHANGED <<now, sub, disk, started, ghosts>>
  BY DEF Finish
<1> HIDE DEF c
<1>4. /\ sched' \in [Schedulers -> Scheduler]
      /\ \A t \in Schedulers :
              sched'[t].pc = "busy" <=> (sched'[t].todo # {} \/ sched'[t].job # NoJob)
      /\ \A t \in Schedulers, k \in Ids : Owns(t, k)' => Owns(t, k)
      /\ \A t \in Schedulers : sched'[t].todo \subseteq sched[t].todo
      /\ \A t \in Schedulers : sched'[t].job \in {NoJob, sched[t].job}
      /\ sched'[s] = c
  BY <1>2, <1>3, DisownClaims
<1>5. \A t \in Schedulers : ~Owns(t, i)'
  <2>1. Owns(s, i) /\ NoJob \notin Ids
    BY <1>0, SubmissionAssumption DEF Owns, Jobs
  <2>2. i \notin sched[s].todo
    BY <1>0 DEF IInv, Fresh
  <2>3. ~Owns(s, i)'
    BY <1>1, <1>2, <1>4, <2>1, <2>2 DEF Owns
  <2>4. \A t \in Schedulers \ {s} : ~Owns(t, i)
    BY <1>1, <2>1 DEF IInv, Single
  <2> QED BY <1>1, <1>4, <2>3, <2>4
<1>6. items[i].status \in {"running", "stopped", "lost"}
  BY <1>0, <1>1 DEF IInv, Owned, Owns
<1>7. TypeOK'
  BY <1>1, <1>3, <1>4 DEF IInv, TypeOK, disk, ghosts
<1>8. Owned'
  <2> SUFFICES ASSUME NEW t \in Schedulers, NEW k \in Ids, Owns(t, k)'
               PROVE  items'[k].status \in {"running", "stopped", "lost"}
    BY DEF Owned
  <2>1. k # i /\ Owns(t, k)
    BY <1>4, <1>5
  <2> QED BY <1>1, <2>1 DEF IInv, Owned
<1>9. Single'
  BY <1>4 DEF IInv, Single
<1>10. Fresh'
  <2>1. \A t \in Schedulers : \A k \in sched'[t].todo : begun'[k] = 0 /\ sched'[t].job # k
    BY <1>3, <1>4, FreshLists DEF ghosts
  <2>2. \A k \in Ids : /\ begun'[k] <= 1
                       /\ items'[k].status \in {"none", "scheduled", "removed"} => begun'[k] = 0
    BY <1>1, <1>3 DEF IInv, Fresh, ghosts
  <2> QED BY <2>1, <2>2 DEF Fresh
<1>11. Reported'
  BY <1>1, <1>3 DEF IInv, Reported
<1> QED BY <1>7, <1>8, <1>9, <1>10, <1>11 DEF IInv

-----------------------------------------------------------------------------
LEMMA InitInv == Init => IInv
<1> SUFFICES ASSUME Init PROVE IInv
  OBVIOUS
<1>1. TypeOK
  BY SubmissionAssumption
  DEF Init, TypeOK, Seconds, Item, Statuses, Scheduler, IdleScheduler, Sub, Jobs, Names, Preparing
<1>2. Owned /\ Single
  BY SubmissionAssumption DEF Init, Owned, Single, Owns, IdleScheduler, Jobs
<1>3. Fresh
  BY DEF Init, Fresh, IdleScheduler, Jobs
<1>4. Reported
  BY DEF Init, Reported
<1> QED BY <1>1, <1>2, <1>3, <1>4 DEF IInv

LEMMA StutterKeeps ==
  ASSUME IInv, now' \in Seconds, UNCHANGED <<items, sched, sub, disk, started, ghosts, faults>>
  PROVE  IInv'
<1>1. TypeOK'
  BY DEF IInv, TypeOK, disk, ghosts
<1>2. Owned' /\ Single'
  BY DEF IInv, Owned, Single, Owns
<1>3. Fresh' /\ Reported'
  BY DEF IInv, Fresh, Reported, ghosts
<1> QED BY <1>1, <1>2, <1>3 DEF IInv

LEMMA NextInv == IInv /\ [Next]_vars => IInv'
<1> SUFFICES ASSUME IInv, [Next]_vars PROVE IInv'
  OBVIOUS
<1>1. CASE Tick
  <2>1. now' \in Seconds
    BY <1>1, SubmissionAssumption DEF Tick, IInv, TypeOK, Seconds
  <2> QED BY <1>1, <2>1, StutterKeeps DEF Tick
<1>2. CASE StopScheduledSubmits \/ CommandDiesInWrite
  BY <1>2, CommandsKeep
<1>3. CASE \E i \in Ids : RemoveScheduledSubmit(i)
                          \/ \E after \in Times : RegisterScheduledSubmit(i, after)
  BY <1>3, CommandsKeep
<1>4. ASSUME NEW c \in Clients, ClientSubmits(c) \/ Submit(c) \/ ClientDies(c) PROVE IInv'
  <2>1. c \in Jobs
    BY DEF Jobs
  <2> QED BY <1>4, <2>1, ClientSubmitsKeeps, SubmitKeeps, ClientDiesKeeps
<1>5. ASSUME NEW s \in Schedulers, SchedulerStep(s) PROVE IInv'
  <2>1. \A i \in Ids : i \in Jobs
    BY DEF Jobs
  <2> QED BY <1>5, <2>1, ClaimKeeps, FinishKeeps, SubmitScheduledItemKeeps, SubmitKeeps
      DEF SchedulerStep
<1>6. ASSUME NEW s \in Schedulers,
             SchedulerDies(s) \/ SchedulerDiesInWrite(s) \/ SchedulerStarts(s)
      PROVE  IInv'
  BY <1>6, SchedulerDiesKeeps, StartsKeeps
<1>7. CASE UNCHANGED vars
  <2>1. now' \in Seconds
    BY <1>7 DEF vars, IInv, TypeOK
  <2> QED BY <1>7, <2>1, StutterKeeps DEF vars
<1> QED BY <1>1, <1>2, <1>3, <1>4, <1>5, <1>6, <1>7 DEF Next

LEMMA Inductive == Spec => []IInv
BY InitInv, NextInv, PTL DEF Spec

(* The schedule file, the schedulers, the submissions and the disk have the *)
(* types the code gives them, and a scheduler is busy exactly while it owns *)
(* something.                                                               *)
THEOREM SubmissionTypeCorrect == Spec => []TypeOK
<1>1. IInv => TypeOK
  BY DEF IInv
<1> QED BY <1>1, Inductive, PTL

(* claim_due_scheduled_submits: no scheduled submission is begun twice, by  *)
(* any number of schedulers that die, restart and lose the file.            *)
THEOREM ScheduledOnce == Spec => []SubmittedOnce
<1>1. IInv => SubmittedOnce
  BY DEF IInv, Fresh, SubmittedOnce
<1> QED BY <1>1, Inductive, PTL

(* remove_scheduled_submits: what was removed was not and is never begun.   *)
THEOREM RemovedStaysOut == Spec => []RemovedIsNeverSubmitted
<1>1. IInv => RemovedIsNeverSubmitted
  BY DEF IInv, Fresh, RemovedIsNeverSubmitted
<1> QED BY <1>1, Inductive, PTL

(* update_scheduled_submit: an item called submitted was installed and      *)
(* launched.                                                                *)
THEOREM SubmittedIsTrue == Spec => []SubmittedIsStarted
<1>1. IInv => SubmittedIsStarted
  BY DEF IInv, Reported, SubmittedIsStarted
<1> QED BY <1>1, Inductive, PTL

-----------------------------------------------------------------------------
EndedStays == \A i \in Ids : items[i].status \in {"submitted", "failed", "removed"} =>
                               items'[i].status \in {items[i].status, "lost"}

LEMMA EndedStep == IInv /\ [Next]_vars => EndedStays
<1> SUFFICES ASSUME IInv, [Next]_vars PROVE EndedStays
  OBVIOUS
<1>0. TypeOK /\ "lost" \in Statuses
  BY DEF IInv, Statuses
<1>1. CASE UNCHANGED items
  BY <1>1 DEF EndedStays
<1>2. ASSUME StopScheduledSubmits PROVE EndedStays
  BY <1>2 DEF StopScheduledSubmits, Stoppable, EndedStays
<1>3. ASSUME LoseFile PROVE EndedStays
  <2>1. \A i \in Ids : WithStatus(i, "lost").status = "lost"
    BY <1>0, WithStatusType
  <2> QED BY <1>3, <2>1 DEF LoseFile, EndedStays
<1>4. ASSUME NEW i \in Ids, RemoveScheduledSubmit(i) PROVE EndedStays
  <2>1. "removed" \in Statuses /\ items[i].status = "scheduled" /\ SetStatus(i, "removed")
    BY <1>4 DEF Statuses, RemoveScheduledSubmit, Removable
  <2> QED BY <1>0, <2>1, SetStatusType DEF EndedStays
<1>5. ASSUME NEW i \in Ids, NEW after \in Times, RegisterScheduledSubmit(i, after)
      PROVE  EndedStays
  BY <1>0, <1>5 DEF RegisterScheduledSubmit, EndedStays, TypeOK
<1>6. ASSUME NEW s \in Schedulers, Claim(s) PROVE EndedStays
  BY <1>6 DEF Claim, Due, EndedStays
<1>7. ASSUME NEW s \in Schedulers, Finish(s) PROVE EndedStays
  <2>1. items[sched[s].job].status \in {"running", "stopped", "lost"}
    BY <1>7, FinishChanges DEF IInv, Owned, Owns
  <2> QED BY <1>7, <2>1, FinishChanges DEF EndedStays
<1>8. ASSUME NEW j \in Jobs, Submit(j) PROVE UNCHANGED items
  BY <1>8 DEF Submit, Check, MakeDir, Copy, Render, WriteDag, Undo, Launch, Rest
<1>9. ASSUME NEW c \in Clients, ClientSubmits(c) \/ ClientDies(c) PROVE UNCHANGED items
  BY <1>9 DEF ClientSubmits, ClientDies, Rest
<1>10. ASSUME NEW s \in Schedulers,
              \/ SchedulerDies(s) \/ SchedulerStarts(s)
              \/ \E i \in Ids : SubmitScheduledItem(s, i)
       PROVE  UNCHANGED items
  BY <1>10 DEF SchedulerDies, SchedulerStarts, SubmitScheduledItem
<1>11. \A j : j \in Clients \/ j \in Ids => j \in Jobs
  BY DEF Jobs
<1>12. CASE Tick \/ UNCHANGED vars
  BY <1>1, <1>12 DEF Tick, vars
<1>13. CASE CommandDiesInWrite
  BY <1>3, <1>13 DEF CommandDiesInWrite
<1>14. ASSUME NEW s \in Schedulers, SchedulerStep(s) PROVE EndedStays
  BY <1>1, <1>6, <1>7, <1>8, <1>10, <1>11, <1>14 DEF SchedulerStep
<1>15. ASSUME NEW s \in Schedulers,
              SchedulerDies(s) \/ SchedulerDiesInWrite(s) \/ SchedulerStarts(s)
       PROVE  EndedStays
  BY <1>1, <1>3, <1>10, <1>15 DEF SchedulerDiesInWrite
<1>16. ASSUME NEW c \in Clients, ClientSubmits(c) \/ Submit(c) \/ ClientDies(c)
       PROVE  EndedStays
  BY <1>1, <1>8, <1>9, <1>11, <1>16
<1> QED BY <1>2, <1>4, <1>5, <1>12, <1>13, <1>14, <1>15, <1>16 DEF Next

(* update_scheduled_submit writes whatever the status is by then: still,    *)
(* what has ended does not change, since only the owner writes.             *)
THEOREM SubmissionEndedIsFinal == Spec => EndedIsFinal
<1>1. IInv /\ [Next]_vars => [EndedStays]_vars
  BY EndedStep
<1>2. Spec => [][EndedStays]_vars
  BY <1>1, Inductive, PTL DEF Spec
<1> QED BY <1>2 DEF EndedIsFinal, EndedStays

-----------------------------------------------------------------------------
(***************************************************************************)
(* What a launched task has on disk.  A job that overlaps with no other of *)
(* its name prepares the task alone (PreparesAlone), so what it wrote is   *)
(* there until it launches; from then on the task exists, no other job of  *)
(* its name passes the check, and none that passed it is left (Installed). *)
(***************************************************************************)
Writing == {"mkdir", "copy", "render", "write", "undo"}

PreparesAlone(j) ==
    \A k \in Jobs \ {j} : sub[k].pc \in Preparing => NameOf(k) # NameOf(j)

Installed(j) ==
    /\ yaml[NameOf(j)] = j /\ dag[NameOf(j)] = j
    /\ \A k \in Jobs : NameOf(k) = NameOf(j) => sub[k].pc \notin Writing

(* What was not begun, and no dead scheduler had, was not started.          *)
Unbegun == /\ \A i \in Ids : i \in started \/ sub[i].pc \notin {"idle", "dead"}
                               => begun[i] # 0
           /\ \A c \in Clients : c \in started => sub[c].pc # "idle"

Own == /\ Unbegun
       /\ \A j \in Jobs \ overlap :
            /\ sub[j].pc \in Preparing => PreparesAlone(j)
            /\ sub[j].pc \in {"render", "write"} => yaml[NameOf(j)] = j
            /\ j \in started \/ sub[j].pc = "launch" => Installed(j)

LEMMA OwnIsEnough == IInv /\ Own => TaskIsItsOwn
BY DEF IInv, TypeOK, Own, Installed, TaskIsItsOwn

LEMMA NamesAreNames ==
  ASSUME TypeOK
  PROVE  \A j \in Jobs : NameOf(j) \in Names
BY SubmissionAssumption DEF TypeOK, Sub, NameOf, Names

(* A step that touches no submission and no task.                           *)
LEMMA OwnRests ==
  ASSUME Own, UNCHANGED <<sub, disk, started, ghosts>>
  PROVE  Own'
BY DEF Own, Unbegun, PreparesAlone, Installed, NameOf, disk, ghosts

(* A job begins: whoever prepares a task of its name is marked with it.     *)
LEMMA BeginOwn ==
  ASSUME TypeOK, Own, NEW j \in Jobs, j \notin started, Begin(j),
         UNCHANGED <<disk, started>>
  PROVE  Own'
<1> DEFINE same == {k \in Jobs \ {j} : sub[k].pc \in Preparing
                                       /\ NameOf(k) = <<PrefixOf[j], now>>}
<1>1. /\ sub'[j] = [pc |-> "check", at |-> now]
      /\ \A k \in Jobs \ {j} : sub'[k] = sub[k]
      /\ overlap' = IF same = {} THEN overlap ELSE overlap \cup same \cup {j}
  BY DEF Begin, TypeOK
<1>2. /\ begun'[j] = (IF begun[j] = 2 THEN 2 ELSE begun[j] + 1)
      /\ \A k \in Jobs \ {j} : begun'[k] = begun[k]
      /\ begun[j] \in 0..2
  BY BeginType DEF TypeOK
<1>3. begun'[j] # 0
  BY <1>2
<1>4. NameOf(j)' = <<PrefixOf[j], now>> /\ \A k \in Jobs \ {j} : NameOf(k)' = NameOf(k)
  BY <1>1 DEF NameOf
<1>5. \A h \in Jobs \ overlap' : h \notin overlap /\ h \notin same /\ (h = j => same = {})
  BY <1>1
<1>6. Unbegun'
  <2>1. \A i \in Ids : i \in Jobs
    BY DEF Jobs
  <2>2. \A c \in Clients : c \in Jobs
    BY DEF Jobs
  <2> QED BY <1>1, <1>2, <1>3, <2>1, <2>2 DEF Own, Unbegun
<1>7. ASSUME NEW h \in Jobs, h \notin overlap', sub'[h].pc \in Preparing
      PROVE  PreparesAlone(h)'
  <2> SUFFICES ASSUME NEW k \in Jobs \ {h}, sub'[k].pc \in Preparing
               PROVE  NameOf(k)' # NameOf(h)'
    BY DEF PreparesAlone
  <2>1. CASE h = j
    <3>1. k \notin same
      BY <1>5, <1>7, <2>1
    <3> HIDE DEF same
    <3> QED BY <1>1, <1>4, <2>1, <3>1 DEF same
  <2>2. CASE k = j
    <3>1. h \notin same
      BY <1>5, <1>7
    <3> HIDE DEF same
    <3> QED BY <1>1, <1>4, <1>7, <2>2, <3>1 DEF same
  <2>3. CASE h # j /\ k # j
    <3> HIDE DEF same
    <3> QED BY <1>1, <1>4, <1>5, <1>7, <2>3 DEF Own, PreparesAlone
  <2> QED BY <2>1, <2>2, <2>3
<1> HIDE DEF same
<1>8. ASSUME NEW h \in Jobs, h \notin overlap', sub'[h].pc \in {"render", "write"}
      PROVE  yaml'[NameOf(h)'] = h
  BY <1>1, <1>4, <1>5, <1>8 DEF Own, disk
<1>9. ASSUME NEW h \in Jobs, h \notin overlap', h \in started' \/ sub'[h].pc = "launch"
      PROVE  Installed(h)'
  <2>1. h # j
    BY <1>1, <1>9
  <2>2. Installed(h) /\ NameOf(h)' = NameOf(h)
    BY <1>1, <1>4, <1>5, <1>9, <2>1 DEF Own
  <2>3. \A k \in Jobs : NameOf(k)' = NameOf(h)' => sub'[k].pc \notin Writing
    BY <1>1, <1>4, <2>2 DEF Installed, Writing
  <2> QED BY <2>2, <2>3 DEF Installed, disk
<1> QED BY <1>6, <1>7, <1>8, <1>9 DEF Own

(* A job goes on, or dies.  It writes only the task of its name, and only   *)
(* after the check, which it does not pass when the task exists.            *)
LEMMA StepOwn ==
  ASSUME TypeOK, Own, NEW j \in Jobs, NEW pc, Goto(j, pc), UNCHANGED ghosts,
         pc # "idle", pc # "dead" => sub[j].pc \notin {"idle", "dead"},
         pc \in Preparing => sub[j].pc \in Preparing,
         \A n \in Names : n # NameOf(j) => yaml'[n] = yaml[n] /\ dag'[n] = dag[n],
         sub[j].pc \notin Writing => UNCHANGED <<yaml, dag>>,
         pc \in Writing => sub[j].pc \in Writing \/ yaml[NameOf(j)] = NoJob,
         j \notin overlap /\ pc \in {"render", "write"} => yaml'[NameOf(j)] = j,
         j \notin overlap /\ pc = "launch" =>
            sub[j].pc \in Preparing /\ yaml'[NameOf(j)] = j /\ dag'[NameOf(j)] = j,
         \/ started' = started
         \/ started' = started \cup {j} /\ sub[j].pc = "launch" /\ pc \notin Preparing
  PROVE  Own'
<1>1. sub'[j].pc = pc /\ \A k \in Jobs \ {j} : sub'[k] = sub[k]
  BY DEF Goto, TypeOK
<1>2. \A k \in Jobs : NameOf(k)' = NameOf(k) /\ NameOf(k) \in Names
  BY <1>1, NamesAreNames DEF Goto, TypeOK, NameOf
<1>3. overlap' = overlap /\ begun' = begun
  BY DEF ghosts
<1>4. Unbegun'
  <2>1. (\A i \in Ids : i \in Jobs) /\ (\A c \in Clients : c \in Jobs)
    BY DEF Jobs
  <2> QED BY <1>1, <1>3, <2>1 DEF Own, Unbegun
<1>5. ASSUME NEW h \in Jobs, h \notin overlap', sub'[h].pc \in Preparing
      PROVE  PreparesAlone(h)'
  <2>1. sub[h].pc \in Preparing /\ \A k \in Jobs : sub'[k].pc \in Preparing => sub[k].pc \in Preparing
    BY <1>1, <1>5
  <2> QED BY <1>2, <1>3, <1>5, <2>1 DEF Own, PreparesAlone
<1>6. ASSUME NEW h \in Jobs, h \notin overlap', sub'[h].pc \in {"render", "write"}
      PROVE  yaml'[NameOf(h)'] = h
  <2>1. CASE h = j
    BY <1>1, <1>2, <1>3, <1>6, <2>1
  <2>2. CASE h # j
    <3>1. /\ sub[h].pc \in Preparing /\ yaml[NameOf(h)] = h /\ PreparesAlone(h)
      BY <1>1, <1>3, <1>6, <2>2 DEF Own, Preparing
    <3>2. NameOf(h) = NameOf(j) => sub[j].pc \notin Writing
      BY <2>2, <3>1 DEF PreparesAlone, Writing, Preparing
    <3> QED BY <1>2, <3>1, <3>2
  <2> QED BY <2>1, <2>2
<1>7. ASSUME NEW h \in Jobs, Installed(h) PROVE Installed(h)'
  <2>1. NameOf(h) = NameOf(j) => UNCHANGED <<yaml, dag>>
    BY <1>7 DEF Installed
  <2>2. yaml'[NameOf(h)] = h /\ dag'[NameOf(h)] = h
    BY <1>2, <1>7, <2>1 DEF Installed
  <2>3. NameOf(h) = NameOf(j) => pc \notin Writing
    BY <1>7, SubmissionAssumption DEF Installed
  <2>4. \A k \in Jobs : NameOf(k) = NameOf(h) => sub'[k].pc \notin Writing
    BY <1>1, <1>7, <2>3 DEF Installed
  <2> QED BY <1>2, <2>2, <2>4 DEF Installed
<1>8. ASSUME NEW h \in Jobs, h \notin overlap', h \in started' \/ sub'[h].pc = "launch"
      PROVE  Installed(h)'
  <2>1. CASE h \in started \/ sub[h].pc = "launch"
    BY <1>3, <1>7, <1>8, <2>1 DEF Own
  <2>2. CASE h \notin started /\ sub[h].pc # "launch"
    <3>1. h = j /\ pc = "launch"
      BY <1>1, <1>8, <2>2
    <3>2. sub[j].pc \in Preparing /\ yaml'[NameOf(j)] = j /\ dag'[NameOf(j)] = j
      BY <1>3, <1>8, <3>1
    <3>3. \A k \in Jobs \ {j} : NameOf(k) = NameOf(j) => sub[k].pc \notin Preparing
      BY <1>3, <1>8, <3>1, <3>2 DEF Own, PreparesAlone
    <3>4. \A k \in Jobs : NameOf(k) = NameOf(j) => sub'[k].pc \notin Writing
      BY <1>1, <3>1, <3>3 DEF Writing, Preparing
    <3> QED BY <1>2, <3>1, <3>2, <3>4 DEF Installed
  <2> QED BY <2>1, <2>2
<1> QED BY <1>4, <1>5, <1>6, <1>8 DEF Own

LEMMA SubmitOwn ==
  ASSUME TypeOK, Own, NEW j \in Jobs, Submit(j)
  PROVE  Own'
<1>0. /\ NameOf(j) \in Names
      /\ dir \in [Names -> Jobs \cup {NoJob}] /\ yaml \in [Names -> Jobs \cup {NoJob}]
      /\ dag \in [Names -> Jobs \cup {NoJob}]
  BY NamesAreNames DEF TypeOK
<1>1. j \notin overlap => /\ sub[j].pc \in {"render", "write"} => yaml[NameOf(j)] = j
  BY DEF Own
<1>2. ASSUME Check(j) PROVE Own'
  <2>1. /\ sub[j].pc = "check" /\ UNCHANGED <<yaml, dag, started, ghosts>>
        /\ \/ Goto(j, "failed")
           \/ Goto(j, "mkdir") /\ yaml[NameOf(j)] = NoJob
    BY <1>2 DEF Check, At, Rest, Exists, disk
  <2>2. CASE Goto(j, "failed")
    BY <2>1, <2>2, StepOwn DEF Writing, Preparing
  <2>3. CASE Goto(j, "mkdir") /\ yaml[NameOf(j)] = NoJob
    BY <2>1, <2>3, StepOwn DEF Writing, Preparing
  <2> QED BY <2>1, <2>2, <2>3
<1>3. ASSUME MakeDir(j) PROVE Own'
  <2>1. /\ sub[j].pc = "mkdir" /\ UNCHANGED <<yaml, dag, started, ghosts>>
        /\ Goto(j, "copy") \/ Goto(j, "undo")
    BY <1>3 DEF MakeDir, At, Rest
  <2>2. CASE Goto(j, "copy")
    BY <2>1, <2>2, StepOwn DEF Writing, Preparing
  <2>3. CASE Goto(j, "undo")
    BY <2>1, <2>3, StepOwn DEF Writing, Preparing
  <2> QED BY <2>1, <2>2, <2>3
<1>4. ASSUME Copy(j) PROVE Own'
  <2>1. /\ sub[j].pc = "copy" /\ UNCHANGED <<dag, started, ghosts>>
        /\ \/ Goto(j, "render") /\ yaml' = [yaml EXCEPT ![NameOf(j)] = j]
           \/ Goto(j, "undo") /\ UNCHANGED yaml
    BY <1>4 DEF Copy, At, Rest
  <2>2. CASE Goto(j, "render") /\ yaml' = [yaml EXCEPT ![NameOf(j)] = j]
    <3>1. yaml'[NameOf(j)] = j /\ \A n \in Names : n # NameOf(j) => yaml'[n] = yaml[n]
      BY <1>0, <2>2
    <3> QED BY <2>1, <2>2, <3>1, StepOwn DEF Writing, Preparing
  <2>3. CASE Goto(j, "undo") /\ UNCHANGED yaml
    BY <2>1, <2>3, StepOwn DEF Writing, Preparing
  <2> QED BY <2>1, <2>2, <2>3
<1>5. ASSUME Render(j) PROVE Own'
  <2>1. /\ sub[j].pc = "render" /\ UNCHANGED <<yaml, dag, started, ghosts>>
        /\ Goto(j, "write") \/ Goto(j, "undo")
    BY <1>5 DEF Render, At, Rest, disk
  <2>2. CASE Goto(j, "write")
    BY <1>1, <2>1, <2>2, StepOwn DEF Writing, Preparing
  <2>3. CASE Goto(j, "undo")
    BY <2>1, <2>3, StepOwn DEF Writing, Preparing
  <2> QED BY <2>1, <2>2, <2>3
<1>6. ASSUME WriteDag(j) PROVE Own'
  <2>1. /\ sub[j].pc = "write" /\ UNCHANGED <<yaml, started, ghosts>>
        /\ Goto(j, "launch") /\ dag' = [dag EXCEPT ![NameOf(j)] = j]
    BY <1>6 DEF WriteDag, At, Rest
  <2>2. dag'[NameOf(j)] = j /\ \A n \in Names : n # NameOf(j) => dag'[n] = dag[n]
    BY <1>0, <2>1
  <2> QED BY <1>1, <2>1, <2>2, StepOwn DEF Writing, Preparing
<1>7. ASSUME Undo(j) PROVE Own'
  <2>1. /\ sub[j].pc = "undo" /\ UNCHANGED <<dag, started, ghosts>>
        /\ Goto(j, "failed") /\ yaml' = [yaml EXCEPT ![NameOf(j)] = NoJob]
    BY <1>7 DEF Undo, At, Rest
  <2>2. \A n \in Names : n # NameOf(j) => yaml'[n] = yaml[n]
    BY <1>0, <2>1
  <2> QED BY <2>1, <2>2, StepOwn DEF Writing, Preparing
<1>8. ASSUME Launch(j) PROVE Own'
  <2>1. /\ sub[j].pc = "launch" /\ UNCHANGED <<yaml, dag, ghosts>>
        /\ Goto(j, "done") \/ Goto(j, "failed")
        /\ started' = started \/ started' = started \cup {j}
    BY <1>8 DEF Launch, At, disk
  <2>2. CASE Goto(j, "done")
    BY <2>1, <2>2, StepOwn DEF Writing, Preparing
  <2>3. CASE Goto(j, "failed")
    BY <2>1, <2>3, StepOwn DEF Writing, Preparing
  <2> QED BY <2>1, <2>2, <2>3
<1> QED BY <1>2, <1>3, <1>4, <1>5, <1>6, <1>7, <1>8 DEF Submit

LEMMA DiesOwn ==
  ASSUME TypeOK, Own, NEW j \in Jobs, Goto(j, "dead"), UNCHANGED <<disk, started, ghosts>>
  PROVE  Own'
BY StepOwn DEF disk, Preparing, Writing

LEMMA InitOwn == Init => Own
BY DEF Init, Own, Unbegun, Jobs, Preparing

LEMMA NextOwn == IInv /\ Own /\ [Next]_vars => Own'
<1> SUFFICES ASSUME IInv, Own, [Next]_vars PROVE Own'
  OBVIOUS
<1>0. /\ TypeOK
      /\ \A i \in Ids : i \in Jobs
      /\ \A c \in Clients : c \in Jobs
  BY DEF IInv, Jobs
<1>1. ASSUME NEW s \in Schedulers, NEW i \in Ids, SubmitScheduledItem(s, i) PROVE Own'
  <2>1. i \notin started
    BY <1>1 DEF SubmitScheduledItem, IInv, Fresh, Own, Unbegun
  <2> QED BY <1>0, <1>1, <2>1, BeginOwn DEF SubmitScheduledItem
<1>2. ASSUME NEW c \in Clients, ClientSubmits(c) PROVE Own'
  <2>1. c \notin started
    BY <1>2 DEF ClientSubmits, Own, Unbegun
  <2> QED BY <1>0, <1>2, <2>1, BeginOwn DEF ClientSubmits
<1>3. ASSUME NEW c \in Clients, ClientDies(c) PROVE Own'
  BY <1>0, <1>3, DiesOwn DEF ClientDies, Rest
<1>4. ASSUME NEW s \in Schedulers, SchedulerDies(s) PROVE Own'
  <2>1. CASE sched[s].job = NoJob
    BY <1>4, <2>1, OwnRests DEF SchedulerDies
  <2>2. CASE sched[s].job # NoJob
    <3>1. sched[s].job \in Jobs
      BY <1>0, <2>2 DEF TypeOK, Scheduler
    <3> QED BY <1>0, <1>4, <2>2, <3>1, DiesOwn DEF SchedulerDies
  <2> QED BY <2>1, <2>2
<1>5. ASSUME NEW s \in Schedulers,
             Claim(s) \/ Finish(s) \/ SchedulerDiesInWrite(s) \/ SchedulerStarts(s)
      PROVE  Own'
  BY <1>5, OwnRests DEF Claim, Finish, SchedulerDiesInWrite, SchedulerStarts
<1>6. ASSUME NEW i \in Ids, RemoveScheduledSubmit(i)
                            \/ \E after \in Times : RegisterScheduledSubmit(i, after)
      PROVE  Own'
  BY <1>6, OwnRests DEF RemoveScheduledSubmit, RegisterScheduledSubmit, OnFile
<1>7. CASE Tick \/ StopScheduledSubmits \/ CommandDiesInWrite
  BY <1>7, OwnRests DEF Tick, StopScheduledSubmits, CommandDiesInWrite, OnFile
<1>8. CASE UNCHANGED vars
  BY <1>8, OwnRests DEF vars
<1>9. ASSUME NEW j \in Jobs, Submit(j) PROVE Own'
  BY <1>0, <1>9, SubmitOwn
<1>10. ASSUME NEW s \in Schedulers, SchedulerStep(s) PROVE Own'
  BY <1>0, <1>1, <1>5, <1>9, <1>10 DEF SchedulerStep
<1> QED BY <1>0, <1>2, <1>3, <1>4, <1>5, <1>6, <1>7, <1>8, <1>9, <1>10 DEF Next

(* prepare_submission: a launched task has the config and the DAG of its    *)
(* submission, also when others of the same name come in the same second,   *)
(* as long as they come one after the other.                                *)
THEOREM LaunchedIsItsOwn == Spec => []TaskIsItsOwn
BY InitOwn, NextOwn, OwnIsEnough, Inductive, PTL DEF Spec
=============================================================================
