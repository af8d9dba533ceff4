---------------------------- MODULE EventStream ----------------------------
(***************************************************************************)
(* GET /runs/{run_id}/events (api/app.py): the history of a run from the   *)
(* audit log, then what the broker (api/events.py) publishes.              *)
(*                                                                         *)
(* Everything runs on one event loop, and nothing is awaited between the   *)
(* update of a row, its audit event and its publication, since a queue     *)
(* without a bound takes an event at once: no other task sees them apart.  *)
(* But an update or an append may raise, and a crash may come: the row is  *)
(* then ahead of the events, for good.  The requests of a run are one      *)
(* after another; ReviewFlow has them overlap.                             *)
(***************************************************************************)
EXTENDS Naturals, Sequences, FiniteSets, SequencesExt

CONSTANTS Clients,
          Limit,             \* events in the history of a stream
          MaxEvents,         \* bound: events of the run before its last
          MaxCrashes         \* bound

VARIABLES
    status,   \* the status in the row of the run, "none" without a row
    busy,     \* a request on the run is being handled
    audit,    \* the events of the run in the audit log
    stream,   \* client -> its stream
    crashes

vars == <<status, busy, audit, stream, crashes>>

Terminal == {"COMPLETED", "FAILED", "UNCERTAIN"}
Published == {"RUN_CREATED", "WAITING_FOR_REVIEW", "FINAL_RESPONSE", "ERROR"}
LastEvents == {"FINAL_RESPONSE", "ERROR"}
Outcomes == {"WAITING_FOR_REVIEW", "COMPLETED", "UNCERTAIN"}   \* of apply_state
Events == Published \cup {"GRAPH", "REVIEW"}

Stream == [pc: {"off", "requested", "history", "live", "ended", "gone"},
           status: Terminal \cup {"none", "RUNNING", "WAITING_FOR_REVIEW"},  \* of the row, at the request
           queue: Seq(Events),  \* to be sent
           told: BOOLEAN,       \* a last event was sent
           missed: {"nothing", "status", "event"}]  \* of the end: it was announced after the
                                \* row was read, or after the history was read, too
NoStream == [pc |-> "off", status |-> "none", queue |-> <<>>, told |-> FALSE, missed |-> "nothing"]

Init ==
    /\ status = "none" /\ busy = FALSE
    /\ audit = <<>>
    /\ stream = [c \in Clients |-> NoStream]
    /\ crashes = 0

-----------------------------------------------------------------------------
(* AuditStore.append and EventBroker.publish.                               *)
Emit(event) ==
    /\ audit' = Append(audit, event)
    /\ stream' = [c \in Clients |->
         CASE stream[c].pc = "live" /\ event \in Published ->
                [stream[c] EXCEPT !.queue = Append(@, event)]
           [] stream[c].pc = "requested" /\ event \in LastEvents ->
                [stream[c] EXCEPT !.missed = "status"]
           [] stream[c].pc = "history" /\ event \in LastEvents ->
                [stream[c] EXCEPT !.missed = "event"]
           [] OTHER -> stream[c]]

(* The row, and then the event, unless the append raises.                   *)
CreateRun ==
    /\ status = "none" /\ status' = "RUNNING"
    /\ \/ busy' = TRUE /\ Emit("RUN_CREATED")
       \/ UNCHANGED <<busy, audit, stream>>
    /\ UNCHANGED crashes

(* A step of the graph that is audited.                                     *)
GraphStep ==
    /\ busy /\ Len(audit) < MaxEvents
    /\ Emit("GRAPH")
    /\ UNCHANGED <<status, busy, crashes>>

(* An append that raises fails the request before it does anything.         *)
Review ==
    /\ status = "WAITING_FOR_REVIEW" /\ ~busy /\ Len(audit) < MaxEvents
    /\ busy' = TRUE
    /\ Emit("REVIEW")
    /\ UNCHANGED <<status, crashes>>

(* apply_state, when nothing raises.                                        *)
ApplyState ==
    /\ busy /\ busy' = FALSE
    /\ status' \in Outcomes
    /\ IF status' = "WAITING_FOR_REVIEW"
       THEN Len(audit) < MaxEvents /\ Emit("WAITING_FOR_REVIEW")
       ELSE Emit("FINAL_RESPONSE")
    /\ UNCHANGED crashes

(* The graph or apply_state raises in the request that creates the run,     *)
(* which turns even a row that has an outcome to FAILED.                    *)
FailRun ==
    /\ busy /\ busy' = FALSE
    /\ status = "RUNNING" /\ status' = "FAILED"
    /\ Emit("ERROR")
    /\ UNCHANGED crashes

(* A request ends without its event: a review whose graph or update raises, *)
(* or whose append raises after the update; and a request that creates the  *)
(* run, when the FAILED row cannot be written, or its event appended.       *)
EndSilently ==
    /\ busy /\ busy' = FALSE
    /\ \/ UNCHANGED status
       \/ status' \in Outcomes
       \/ status = "RUNNING" /\ status' = "FAILED"
    /\ UNCHANGED <<audit, stream, crashes>>

(* The process dies, maybe between a row and its event.                     *)
Crash ==
    /\ status # "none" /\ crashes < MaxCrashes
    /\ crashes' = crashes + 1
    /\ busy' = FALSE
    /\ \/ UNCHANGED status
       \/ busy /\ status' \in Outcomes
       \/ busy /\ status = "RUNNING" /\ status' = "FAILED"
    /\ stream' = [c \in Clients |-> IF stream[c].pc = "off" THEN NoStream
                                    ELSE [NoStream EXCEPT !.pc = "gone"]]
    /\ UNCHANGED audit

-----------------------------------------------------------------------------
(* The statuses whose history is all there is, without the uncertain one.   *)
EndsWithoutUncertain(c) == stream[c].status \in Terminal \ {"UNCERTAIN"}

EndsWithHistory(c) == stream[c].status \in Terminal

(* The row is read by the request.                                          *)
Request(c) ==
    /\ stream[c].pc \in {"off", "gone", "ended"} /\ status # "none"
    /\ stream' = [stream EXCEPT ![c] = [NoStream EXCEPT !.pc = "requested", !.status = status]]
    /\ UNCHANGED <<status, busy, audit, crashes>>

(* AuditStore.query: the oldest events, at most Limit.                      *)
History == SubSeq(audit, 1, IF Len(audit) < Limit THEN Len(audit) ELSE Limit)

(* After the history, without a pause, the stream ends or subscribes.       *)
AfterHistory(c, told) ==
    stream' = [stream EXCEPT ![c].pc = IF EndsWithHistory(c) THEN "ended" ELSE "live",
                             ![c].queue = <<>>, ![c].told = told]

QueryHistory(c) ==
    /\ stream[c].pc = "requested"
    /\ IF History = <<>> THEN AfterHistory(c, FALSE)
       ELSE stream' = [stream EXCEPT ![c].pc = "history", ![c].queue = History]
    /\ UNCHANGED <<status, busy, audit, crashes>>

SendHistory(c) ==
    /\ stream[c].pc = "history"
    /\ AfterHistory(c, ToSet(stream[c].queue) \cap LastEvents # {})
    /\ UNCHANGED <<status, busy, audit, crashes>>

SendLive(c) ==
    LET event == Head(stream[c].queue)
    IN /\ stream[c].pc = "live" /\ stream[c].queue # <<>>
       /\ stream' = [stream EXCEPT ![c].queue = Tail(@),
                                   ![c].told = @ \/ event \in LastEvents,
                                   ![c].pc = IF event \in LastEvents THEN "ended" ELSE @]
       /\ UNCHANGED <<status, busy, audit, crashes>>

(* The client leaves, or the query of the history raises.                   *)
Disconnect(c) ==
    /\ stream[c].pc \in {"requested", "history", "live"}
    /\ stream' = [stream EXCEPT ![c] = [NoStream EXCEPT !.pc = "gone"]]
    /\ UNCHANGED <<status, busy, audit, crashes>>

StreamStep(c) == QueryHistory(c) \/ SendHistory(c) \/ SendLive(c)

Next ==
    \/ CreateRun \/ GraphStep \/ Review
    \/ ApplyState \/ FailRun \/ EndSilently \/ Crash
    \/ \E c \in Clients : Request(c) \/ StreamStep(c) \/ Disconnect(c)

(* The event loop goes on with every stream.                                *)
Fairness == \A c \in Clients : WF_vars(StreamStep(c))
Spec == Init /\ [][Next]_vars /\ Fairness

-----------------------------------------------------------------------------
TypeOK ==
    /\ status \in Terminal \cup {"none", "RUNNING", "WAITING_FOR_REVIEW"}
    /\ busy \in BOOLEAN /\ busy => status \in {"RUNNING", "WAITING_FOR_REVIEW"}
    /\ audit \in Seq(Events) /\ Len(audit) <= MaxEvents + 1
    /\ stream \in [Clients -> Stream]
    /\ crashes \in 0..MaxCrashes

Active(c) == stream[c].pc \in {"requested", "history", "live"}
Ended(c) == stream[c].pc = "ended"

(* The end of the run was announced: its last event was appended.           *)
Announced == ToSet(audit) \cap LastEvents # {}

(* ... and is among the events of a history.                                *)
InHistory == ToSet(History) \cap LastEvents # {}

(* A stream of a run that has ended ends, and has told how the run ended,   *)
(* or its client leaves; a stream requested after the end tells what is in  *)
(* its history.  Left open are only a stream that had read the row before   *)
(* an end that was never announced, one that read its history before the    *)
(* end and subscribed after it, and one that read its row before the end    *)
(* and its history after it: that one has told the end all the same.        *)
StreamTellsTheEnd ==
    \A c \in Clients :
       (status \in Terminal /\ Active(c)) ~>
          \/ stream[c].pc = "gone"
          \/ Ended(c) /\ (stream[c].told \/ (stream[c].status \in Terminal /\ ~InHistory))
          \/ stream[c].status \notin Terminal /\ ~Announced
          \/ stream[c].missed = "event"
          \/ stream[c].missed = "status" /\ (stream[c].told \/ ~InHistory)
=============================================================================
