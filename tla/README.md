# Verification of AutoDriveDataOpsAgent

TLA+ models of the V3.9 agent (`deploy_ci_cloud_agentv3`), checked with TLC, and
theorems about them checked with TLAPS. Paths below are relative to
`src/deploy_ci_cloud_agentv3/`; `platform_backend/` is abbreviated `pb/`.

The system lets an operator ask for changes to a data-processing platform in
natural language. A model proposes; a human reviews a frozen, fingerprinted
action; a deterministic service writes at most once and proves the effect by
reading it back. The platform behind it is a task queue over Airflow with GPU
reservations. What is worth verifying is everything that decides *whether a write
happens, how often, and what is said about it*, and the platform's own locked
state: the queue, the scheduled submissions and the GPU reservations.

## 1. Inventory

| Component | State | Operations | Hard behaviour | What makes it correct | Module |
|---|---|---|---|---|---|
| Write service (`services/write_service.py`, `verification.py`, `pending_action.py`, `persistence/write_execution_store.py`, `pb/core/services/mutation_service.py`, `precondition_service.py`) | a row per fingerprint in SQLite; the platform's config, queue and DagRuns | freeze, approve, execute (lookup, precheck, revalidate, claim, dispatch, verify or reconcile, save) | concurrent executions of one action, lost requests and replies, crashes between claim, dispatch and save, other users of the platform | at most one mutation attempt per fingerprint; no attempt without approval and durable row; VERIFIED resumes have a new run; returned outcomes survive | `WriteService`, abstractly `MutationLedger` |
| Review lifecycle (`agent/graph.py`, `runtime.py`, `final_guard.py`, `api/runs.py`, `api/reviews.py`, `persistence/run_store.py`) | run rows, the thread's checkpoint, the state a call holds | POST /runs, approve, reject, edit; the nodes agent, model_tools, review, execute_write | overlapping requests on one thread, a node that raises between two checkpoints, crashes, reuse of a thread | only what a reviewer approved by name is attempted; withdrawn actions are not; the final response is true; finished runs stay finished; every request ends | `ReviewFlow` |
| Events and audit (`api/app.py`, `api/events.py`, `persistence/audit_store.py`) | append-only audit rows; in-memory queues of subscribers | append, publish, stream (history, then live) | the gap between history and subscription, a stale status, a limited history | a stream of a run that ended ends, and tells how | `EventStream` |
| Task queue (`pb/scripts/task_manager.py`, `pb/core/queue_state.py`) | a JSON file under `flock`: the active task and a priority queue | submit, register, count completed runs, activate, preempt, stop, resume, delete, set priority, restart-cleanup | effects on Airflow outside the lock, partial failure, preemption by draining, truncating writes | one active task, only its runs execute; its entry waits for as many runs as there are; the most urgent task drains the active one; every queued task is served | `TaskQueue` over `TaskQueueFile` |
| Scheduled submission (`pb/scripts/task_manager.py`, `pb/core/services/task_service.py`, `pb/core/task_store.py`) | a JSON list of items with a status; the directories, YAML files and DAGs of tasks | add, claim due, submit, update, stop, remove; prepare_submission | a scheduler dies after a claim, or races with a stop; two submissions of one prefix in one second | an item is submitted at most once, a removed one never, an ended one does not change; a task has its own config | `Submission` |
| Task configuration (`pb/core/config.py`, `pb/core/task_store.py`, `pb/dags/templates/`) | the installed YAML; the conf of each run | validate, build_trigger_conf, resume, update priority | values the validation lets through, scripts that change, a truncating write | what was accepted can be run, now and later | `TaskConfig` |
| GPU allocation (`pb/core/services/gpu_allocator.py`, `pb/core/gateways/gpu_reservations.py`, `gpu_runtime.py`) | a reservation file per GPU under `flock` | try_acquire, acquire, release, reservations, remove_for_task, wait_for_task_reservations | dead owners, reused pids, exclusive and shared waiters, removal under a live owner | an exclusive reservation is alone; promised memory fits; a wait that reports no reservation is right; a waiter is served | `GpuAllocator` |
| Retrieval (`pb/rag/`), model retry (`pb/integrations/model_retry.py`) | the index file, the sidecar of dense vectors, a cached retriever per service | search, build, the retried requests to the provider | edits of the sources during a build, resumed and concurrent builds, threads of one service | a search answers from the sources as they are, ranks each chunk by its own vector, and ends | `KnowledgeIndex` |
| Stage pipeline DAG (`pb/dags/templates/`), Airflow and Docker gateways (`pb/core/gateways/`) | none of their own | HTTP and subprocess calls | failures and delays of external services | - | environment actions and faults of `TaskQueue`; the DAG's parameters are in `TaskConfig` |
| MCP client, server, tools (`mcp/`) | none | call_tool | lost requests and replies | - | `LoseRequest`, `ReplyError` of `WriteService` |
| Model providers (`providers/`) | none | invoke | retries | - | nondeterministic answers in `ReviewFlow` |
| Context builder, prompts, diagnosis, health, observability, evaluation, command line | trace records | read-only or wording | - | quality of text, not of control | not modelled |

How they interact: the API handlers call `AgentRuntime.start` and `review`, which run
the LangGraph graph on a thread whose state is checkpointed in SQLite after every node.
The graph's `execute_write` calls `WriteService.execute`, which calls the platform
through the MCP runtime profile. Handlers write the run rows, append audit rows and
publish events. The platform's services and its command-line tools share the queue file,
the schedule file and the GPU files through file locks.

`PROJECT.json` lists the components, and under `hazards` every place where this code is hard to test.

## 2. Modules

* `MutationLedger` is the abstract promise of the write path: for each approved action a
  row, the attempts to mutate, the attempts that took effect. The attempt is made once and
  only after the row exists; answers may be recorded any number of times. It is README
  section 7's "at-most-one mutation attempt per approved fingerprint, not an exactly-once
  claim".
* `WriteService` is the detailed system. Each `await` of `execute` separates two actions, so
  any other execution, the platform and its users may step in. `pc` is the place in
  `execute`, `act` the action it executes, `base` the resume baseline of the checkpointed
  action, `out` the result, `req` the fate of the one request it may send (sent, checked by
  the platform, refused, lost, applied). `store` is the row of `WriteExecutionStore`; `NoRow`
  is its absence. Reviewers, other operators, Airflow, lost requests and crashes are
  actions. The kinds of action are a priority change (also standing for `delete_task` and
  `stop_task`, whose verification is likewise a predicate on one snapshot), a submission, and
  resumes with failed and with explicit targets.
* `ReviewFlow` is the review lifecycle. `record` is the run store, `saved` the thread's latest
  checkpoint, and each call has its place `pc`, its request and its own copy `st` of the
  state, since a call works on the state it loaded and writes checkpoints as it goes: of two
  calls on one thread the last writer wins. The write enters through the actions of
  `MutationLedger` (`Open`, `Attempt`, `Answer`) and the statuses `WriteService` may return;
  `WriteService` implements that ledger, by the theorem `Refinement`.
* `TaskQueueFile` holds the operations of `task_manager.py` on the queue file as operators from
  the file they read to the files they may write: refresh of the priorities, registration, soft
  preemption, activation, removal, completion, draining. `TaskQueue` runs the commands over it:
  each process has its place in a command (`cmd`), one `flock` section is one action, and so is
  each request to Airflow, so that other commands and Airflow step in between. `runs` are the
  DagRuns, `paused` the paused DAGs, `config` the priorities. The tail of a generated DAG
  (`CountRun`, `DrainRun`) is not in the repository and modelled from the file operations that
  are. Faults: a command dies or its call raises, pausing or unpausing fails with a warning, the
  queue file is lost in its truncating write, a deletion goes on without the API, a cleanup
  without Airflow's ORM.
* `Submission` has the schedule file (`items`), the schedulers with what they claimed (`sched`),
  and the jobs of `submit` (`sub`), which install `dir`, `yaml` and `dag` file by file as
  `prepare_submission` does. A task is named by its prefix and the second.
* `GpuAllocator` has one set of reservations per GPU, and processes by pid: a pid gets a new owner
  after a death. A stage scans its pool file by file. Cleaning and waiting commands read the
  files one after the other, too.
* `KnowledgeIndex` has the index, the sidecar and the cached retrievers; a worker is a thread of a
  service in a search or a build, at one of the reads, writes and lock sections of
  `KnowledgeIndex.ensure`, `_get_retriever` and `DenseEmbeddingIndex.ensure`. A chunk's id contains
  the hash of its content, so a chunk stands for both, and a vector for the chunk it was made of.
* `TaskConfig` has one submitted configuration, its installed copy, and the conf of each dataset's
  last trigger; each validator of `core/config.py` is an operator that holds when the function
  raises nothing.
  A value has the types YAML gives it as far as the code tells them apart: integers, fractions,
  numbers in a string, `true`, None; text, and what should be text and is not.
* `EventStream` has one run, its audit rows and the streams of clients; the requests of the run come
  one at a time (their overlaps are in `ReviewFlow`). No `await` that suspends stands between the
  update of the row, its audit event and its publication, so that a request ends in one step; but
  the step has the outcomes of each of the calls raising: `ApplyState` writes row, event and
  publication, `FailRun` the FAILED row and its event, `EndSilently` a row without its event, or nothing.
* `MCWriteService`, `MCReviewFlow`, `MCTaskQueue`, `MCSubmission` and `MCGpuAllocator` define the
  instances for TLC. `MCServices` puts the last three parts side by side: each behaviour is one of
  them, since they share nothing.
* The modules `...Proofs` hold the theorems.

Abstractions. A fingerprint is collision free (SHA-256 over identity and content), so an
action stands for its content and a wrong fingerprint is another action. The platform is
the part the checks and read-backs tell apart: one task's configuration, the queue, and the
DagRuns of one dataset. Messages, tool results and wording of the agent are dropped; what
the model answers is a nondeterministic choice. LangGraph 1.2.11 is external and modelled
from its use: it checkpoints after each node before the next one starts, a node that
raises leaves the checkpoint before it, `Command(resume=...)` continues at the latest
checkpoint whatever node is next, and only a waiting review node takes the decision. The
in-memory checkpointer of tests is not modelled.

Ghost variables say when a promise is off, never what the code does: `overlap` in `TaskQueue`
and `Submission` (two commands, or a command and Airflow, worked on one task at a time; in
`TaskQueue` also when a drained task is put back and started again at once under a command), `lost`
in `GpuAllocator` (a reservation was taken away under its owner), `past`, `quiet` and `raced` in
`KnowledgeIndex` (an edit, or a reader that was overtaken), `missed` in `EventStream` (the run ended while a stream was
between its row, its history and its subscription). Each
exemption is a gap in the code that TLC showed, described in section 5.

Some operators stand before the one they resemble (`ClaimReplaces` before `Claim`): they are
the same step with a plausible bug, kept to show that a property would notice it.

## 3. Runs

All runs set `CHECK_DEADLOCK FALSE`: requests, commands and executions are one-shot or bounded,
and the system stops when all have ended.

| Run | Instance | Shows |
|---|---|---|
| `write_service_resumes` | 2 executions, a failed-target and an explicit-target resume, at most 2 DagRuns, symmetry of executions | types, `AtMostOneAttempt`, `AttemptIsApprovedAndRecorded`, `ResumeVerifiedHasNewRun`, `ReturnedOutcomeIsDurable`, the inductive invariant `IInv`, and `ImplementsLedger` |
| `write_service_changes` | 2 executions, a priority change and a submission, 2 configurations, weak fairness | `DefinitiveRowIsFinal`, `ExecutionsEnd` |
| `write_service_own_effect` | the same | violated: an approved change of the priority from 1 to 2 is dispatched and its request lost; another operator sets 2; the reconciliation reports VERIFIED. (Changes to the value the task already had when they were frozen are left out.) |
| `write_service_not_executed` | as `write_service_changes`, no fairness | violated: PRECONDITION_FAILED is returned, and worded as "was not executed", for an action a concurrent execution did execute |
| `review_flow_serial` | 4 requests one at a time, 2 runs on one thread, 2 actions, budget 2 | types, `WithdrawnIsNeverAttempted`, `FinalResponseIsTrue`, `FinishedRunIsFinal` |
| `review_flow_concurrent` | 3 overlapping requests, 2 runs, 2 actions, budget 1, weak fairness | `OnlyApprovedIsAttempted`, `CallsEnd` |
| `review_flow_reject` | 3 requests one at a time, 1 run, 1 action | violated: after an approval that raised inside `execute_write`, a reject request performs the write |
| `task_queue` | 3 commands of 2 processes on 2 tasks with one dataset each, 2 priorities, 3 DagRuns a dataset, one fault of any kind, weak fairness | types, `FileIsSound`, `OnlyActiveRuns`, `NoSilentInversion`, `RunsAreCounted`, `CompletionsArrive`, `TaskIsServed` |
| `gpu_allocator` | 2 GPUs of 2 units, 2 stages, 2 requests of 1 or 2 units, shared or exclusive, 2 events (deaths, failed queries, cleanups, waits, memory of others), weak fairness | types, `ExclusiveIsAlone`, `PromisesFit`, `WaitIsRight`, `WaiterIsServed` |
| `scheduled_submission` | 2 schedulers, 2 items and a client with one prefix, 2 seconds, 2 faults, weak fairness | types, `SubmittedOnce`, `RemovedIsNeverSubmitted`, `SubmittedIsStarted`, `TaskIsItsOwn`, `EndedIsFinal`, `DueEnds` |
| `submission_collision` | a scheduler, an item and a client with one prefix, no fault | violated: of two submissions in one second the one that loses removes the directory the other has installed |
| `services` | `KnowledgeIndex`: 2 threads of a service, 2 versions of the sources that share a chunk, batches of 2, 2 attempts, an edit, a build and a fault. `TaskConfig`: about 1000 configurations that vary one or a few values of a good one, 2 changes. `EventStream`: a client, 5 events, histories of 4, 2 crashes. Weak fairness | types, `SearchIsCurrent`, `DenseIsWhole`, `SearchEnds`; `TriggeredIsRunnable`; `StreamTellsTheEnd` |

Why the bounds are enough. Races in `execute` are between two executions of one action
(claim against lookup, save against reconcile); two executions race on one action and leave
the other action to interact through the platform. Two DagRuns give a resume a baseline, a
run of its own and a foreign run in its place; `MaxRuns` bounds only the history Airflow
keeps. Four requests allow create, failed approve, edit or reject, and a later review or a
second run on the same thread; two actions allow an edit that replaces one. Requests and
fingerprints are numbered in the order in which they arrive and are frozen: this breaks
their symmetry and excludes no behaviour. `MaxSteps` is the agent's budget; one step is
enough to propose, the step after a write then exceeds it, and two allow a round of tool
calls before the proposal. `Serial` is a fact about clients, not about the code: the
properties of `review_flow_serial` are stated for clients that wait for an answer before
the next request, since the code does not order overlapping requests on a thread.

Two tasks and two processes give an active and a queued task, a preemption in either direction
and a command on each; a third command stops, resumes, deletes or re-prioritizes in the middle;
one dataset with three DagRuns lets a resume and a preemption add runs to those that failed.
One kind of fault at a time is a bound: each is explored with every interleaving. Two GPUs let a
scan pass a full one, and two requests let a pid be used twice; a larger pool adds no file
operation. Two schedulers race for a claim, and two items let one hold a list of claims when it
dies. Two versions that share a chunk let vectors be kept from an older sidecar, and a batch of
two can come back in either order. The history limit of 4 is below the 5 events a run can
have, so that the end can be cut off.

Fairness. `ExecutionsEnd` and `CallsEnd` assume weak fairness of the steps of an execution
or call that has begun (`Step(e)`, `Step(c)`): the event loop schedules it, and the MCP
client, the provider and SQLite return or raise. Which of the two they do is not fair, and
reviewers, other users, the platform's worker and crashes owe nothing. `TaskIsServed` assumes only
that as long as some command has a step left or an unpaused DAG a run, one of these steps
happens: processes run and Airflow executes unpaused DAGs. Commands, faults and failures of runs
owe nothing. `WaiterIsServed` assumes that a stage's process runs and ends; requests are bounded,
since the allocator has no queue and a stream of other stages may starve a waiter. `DueEnds`
assumes that time passes and a scheduler that lives scans again; `SearchEnds` that a thread which
has begun goes on, while others may fail or die in the lock sections; `StreamTellsTheEnd` that the
event loop goes on with each stream.

Four runs end in a violation; each is a disagreement between the code and a sentence of
the repository, quoted in `PROJECT.json` under `findings`.

## 4. Proofs

All theorems hold for every value of the constants that the modules assume: any number of
executions, actions, requests, runs, tasks, processes, GPUs and workers, any bounds.

`WriteServiceProofs`: `Invariance` proves `Spec => []IInv`. `AtMostOneAttempt` alone is not
inductive: it does not say that an execution about to dispatch is the only one. `IInv` adds,
in named parts, what an execution has established at each place (`Control`), that the right
to attempt has one holder (`OneOwner`: the claimer of the row, before or after its attempt),
that a VERIFIED resume's new run is in the history (`Evidence`), and that rows exist only for
approved, frozen actions (`FrozenBeforeUse`). One lemma per action shows it is preserved.
`TypeCorrect`, `SingleAttempt`, `AttemptIsAccountedFor`, `ResumeIsProven` and
`OutcomeIsDurable` follow. `DefinitiveRowStays` is about two moments, and says that what is `Settled`
(a definitive row, and executions that have ended or have not looked at it yet) stays so. `Refinement` proves that every step of the service is a step of
`MutationLedger` under the mapping at the end of `WriteService`, or a stutter: only `Claim`
opens a row, only `Dispatch` attempts, only `Mutate` has an effect, only `SaveResult` answers.

`ReviewFlowProofs`: `ReviewInvariance` proves `Spec => []RInv`: what a checkpoint or a call's
state holds as approved was approved by a reviewer, a thread at the review or the write has
an action, one that goes on has budget left, and a call beyond the approval check carries
the action that was approved. It holds for overlapping requests too. `ReviewTypeCorrect` and
`ApprovalIsRequired` follow.

Its second part: `WithdrawnStaysUnattempted`, `FinalResponseIsHonest` and `FinishedRunStaysFinal`, for
clients that send one request at a time (`Serial`, which the code does not enforce). All three
follow from `SInv`: the one live call works on the latest checkpoint and its row is as it found it
(`Serves`); a fingerprint that was used belongs to a run (`Owned`); a checkpoint that has a verified
answer has one on record, and one before the write has no attempt; a withdrawn action is neither
pending nor attempted; a finished run has its definitive response and no call can reach it.

`TaskQueueProofs`: `TaskQueueTypeCorrect` and `QueueFileIsSound`, for any tasks, datasets, processes
and faults. The invariant is `TypeOK` with `FileIsSound`: each is needed for the other, since an
activation is well typed only if the entry waits for a run, and the head of a queue exists only
among sound entries. Each operation of `TaskQueueFile` has a lemma that it maps a sound file to
sound files, and each action cites the one it uses.

`TaskRunsProofs`: `OnlyActiveRunsHolds`, `RunsStayCounted`, `OneRunPerDatasetHolds`,
`NoInversionIsSilent` and `CompletionsDoArrive`. None of the properties is inductive: between two lock sections a command
has registered what it has not triggered, or failed what it has not counted. `RInv` adds to the
invariant of `TaskQueueProofs` the form of every half-executed command (`Shapes`), that commands which
share a task are recorded in `overlap` (`Alone`), and for each task without an exception (`Sound`) what
the one command that works on it may rely on: a dataset is in one place only (it has a live run, the
command will trigger one, it has succeeded, or none of these: `SlotsOf`); the entry waits for at least
what is due, the live runs, those to come, and those a stop has failed and not counted yet (`CountsOK`
over `DueOf`); and the DAG is paused unless the task is active, but for an ignored pause failure
(`PausedOK`). A step shows this for the tasks it works on and leaves it alone for the others
(`CarryStep`, `CarryAirflow`), where a task whose place changes under a command is `Displaced` and
claims nothing. `OneRunPerDatasetHolds` is a consequence that no run states: neither a hand-over nor a
drain that puts every dataset back starts a second DagRun. `PHolds`, for as long as no two commands
overlap, follows the priorities: entries belong to configured tasks, a registration holds the priority
of the configuration it loaded, a deletion leaves no entry once its section is over, and outside of a
priority command a more urgent entry has made the active one drain. `LHolds`, under the same condition,
is the other bound of `CompletionsArrive`: an entry that waits for completions waits for no more than is
due (`Low`). An entry does not wait for completions while its runs are still to be triggered by its
activation or while it drains (`Awaits`); a command about to remove the entry, or a dataset whose
last try is used, exempts the task. Three facts carry it (`RunsFit`): the tries of a dataset are used in
order, so a trigger always makes a run; what an entry has counted has ended, so no due run is counted in
advance; and a run that a stop is failing exists. An activation is the subtle step: it forgets what the
entry waited for and reckons it anew from the history (`Reckons`), for a task that no command works on.
The erasure of a deleted task's runs needs `PHolds`: its entry is gone. TLC checked the three
invariants on the instance of `task_queue` before they were proved. `MaxTries` is assumed to be at
least 1, so that a DagRun can exist at all.

`GpuAllocatorProofs`: `GpuTypeCorrect`, `GpuExclusive`, `GpuWaitIsRight`, `GpuPromisesFit`. `ExclusiveIsAlone` speaks of
processes, so its invariant speaks of the files: an exclusive reservation is alone in its file
(`FileAlone`), and a stage that holds a GPU and did not lose its reservation is in the file
(`Backed`). `WaitIsRight` adds that a waiting command has not passed the file of a stage that held
a GPU when it began. `PromisesFit` sums over a set; the sum is the cardinality of a set of units, and the
proof adds that the files are finite and that what is promised on a GPU is a part of its file.

`SubmissionProofs`: `SubmissionTypeCorrect`, `ScheduledOnce`, `RemovedStaysOut`, `SubmittedIsTrue`,
`SubmissionEndedIsFinal`, `LaunchedIsItsOwn`. What a scheduler has claimed nobody else has (`Single`), is neither waiting
nor ended in the file (`Owned`), and was not begun until it leaves the claimed list (`Fresh`); an
item called submitted was started (`Reported`). Without `Single` two schedulers could each begin
an item once; without `Owned` a removal could meet a claim. `LaunchedIsItsOwn` has an invariant of its own (`Own`):
a submission that prepares its task alone finds on disk exactly what it has installed so far, and
one that has not begun has nothing there.

`KnowledgeIndexProofs`: `KnowledgeTypeCorrect`, `VectorsAreWhole`, `SearchStaysCurrent`. The first invariant follows the vectors
through the sidecar (`SidecarIsSound`: each of its own chunk, and all of them where the file says
complete), the workers (`Holds`: what a worker may assume at its place) and the cached
retrievers (`RetrieverIsSound`). The only way past it is the second reading of the sidecar, which
`raced` marks. The order of a provider's reply is settled in `EmbeddedType`.
The second one (`CInv`) follows the labels: no label is of a version that never was; before an edit
is undone what is labelled with the sources is made of them; a search that saw no edit has their
label; and where such a search runs, every thread of its service has that label and a retriever
that returns it.

`TaskConfigProofs`: `ConfigTypeCorrect` and `AcceptedIsRunnable`, for any configurations of the shape the code
reads (`WellFormed`: every value is there or a set that may be empty, datasets are a list). `AcceptedIsRunnable`
compares the two ends of the path of a value: a conf that is built from an accepted dataset meets the DAG's
parameters exactly if the dataset has no odd value, and while no script has changed it is built. The
invariant (`CInv`) remembers what a later trigger relies on: some version of the scripts with which the
configuration was accepted, which is the first one as long as the scripts are what they were at first
(`ValidatedWith`; a script that was removed does not come back, and one that wants GPUs goes on wanting them, so a
changed version is never the first one again); that the submission's loop has triggered the first
datasets and that there is another (`LoopAtNext`); and that the installed copy differs in its priority only,
which plays no part in a trigger (`SameRun`). As many names as datasets means that no name is empty or used twice
(`NamesDiffer`, by cardinalities), so the dataset a name is mapped to is the one that was validated.
`CInv` was checked by TLC on the configurations of `services` first.

Only model-checked: liveness (`ExecutionsEnd`, `CallsEnd`, `TaskIsServed`, `WaiterIsServed`, `DueEnds`,
`SearchEnds`, `StreamTellsTheEnd`), which the prover cannot do under fairness; and of the types that
`services` checks (`ServicesTypeOK`), those of `EventStream`. `StreamTellsTheEnd` is the only property of that module.

## 5. What the models showed

Four disagreements with a sentence of the repository are findings in `PROJECT.json`. Others are gaps
about which the repository promises nothing; the properties exempt exactly them:

* A command's effects on Airflow follow its lock section. A second command on the same task, or a
  hand-over that activates it in between, is undone by the first one's pause or unpause, and a
  resume of a task that has pending runs, or of a dataset with a run that did not fail, is counted
  differently by the next activation (`overlap`).
* A command that dies between registering and triggering leaves an entry that waits for runs that
  nobody starts. A task asked to drain stays so after its preemptor is gone.
* A submission whose scheduler died stays running for ever (`Orphan`). One that is stopped while it
  executes gets the outcome of its execution.
* A GPU reservation removed under a live owner, or lost with its file in a truncating write that
  crashed, lets another stage in (`lost`); `os.kill` answered
  with a PermissionError counts the owner as dead; a reused pid keeps a dead owner's reservation.
* Two threads of a service that search while the sources change may leave a retriever under the label
  of another search, which then serves until the next edit (`Mislabelled`). An index that was
  labelled before an edit and loaded after it is taken for fresh when the edit is undone (`past`). The sidecar is
  read again after it was found fresh (`raced`). A title is not part of a chunk's id, so that a
  changed title keeps the vector of the old one; chunks here have no titles.
* A value may pass the validation and be refused by the DAG: `int()` takes a fraction, a number in a
  string and `true` for a timeout, which is handed on as it is; a tier or an image of precheck may
  be null; a name, a pool, a tier or an image need not be text. `TriggeredIsRunnable` calls these
  values odd and says that of accepted datasets exactly those with one are refused, as long as no script
  changes. What `str()` makes of a list of GPU ids is no list of GPUs.
  An update of the priority truncates the YAML before it dumps the new one.
* In a request the row is written before the event, and what raises in between is not caught by the
  review routes: the row has ended and no event tells it. A stream that had read the row before is
  left open. So is one that queried its history before the end of the run and subscribed after
  it, which never tells the end, and one that read the row before the end and its history after it, which
  has told it. A history is cut at its limit. `StreamTellsTheEnd` names each of these; every other
  stream of a run that has ended ends.

## 6. Not modelled

Text handling, scoring, diagnosis, tracing, evaluation and the command line change no
state that the control above depends on. The pipeline DAG is not in the repository, and the
shell scripts run one container each. Of `task_manager.py`: the file lock of the task lock mode, the
deletion by task name without the API, recovery code that nothing calls, listings and printing. Of
retrieval: the agent's own `rag/` (a rebuild of three files on demand), the Gemini provider's
transport, the delays between attempts. The path
handling of artifacts and redaction are data that no property tells apart. The platform's
precondition check and mutation are two actions, as in the code, and nothing is claimed about the
window between them. Airflow, LangGraph, SQLite, `flock` and the provider are external.

## 7. Plan

What is left, in order of importance:

1. Stop and restart-cleanup across the queue, Airflow and the GPU reservations, composing `TaskQueue`
   and `GpuAllocator`.
2. Two processes of the API on one database: `EventStream` with the overlaps of `ReviewFlow`.
