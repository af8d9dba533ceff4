----------------------------- MODULE TaskConfig -----------------------------
(***************************************************************************)
(* The YAML of a task (core/config.py, core/task_store.py): what is        *)
(* accepted at submission, the conf that every run is triggered with, then *)
(* and later, and the parameters the generated DAG declares for it.        *)
(*                                                                         *)
(* A value that may be missing is a set of at most one element.  YAML has  *)
(* values of any type: one that should be an integer is one of Ints, one   *)
(* that should be text is "null", "number" (anything true that is not      *)
(* text), or text.                                                         *)
(***************************************************************************)
EXTENDS Naturals, Sequences, FiniteSets, SequencesExt

CONSTANTS Configs,      \* the configurations that are submitted
          ValidStages,  \* stages with a name of the right form
          Scripts,      \* stages with a script run_<stage>.sh, at first
          GpuScripts,   \* ... that requires GPU_IDS, at first
          TaskTypes,    \* task types of task_types.yaml
          MaxChanges    \* bound: changes of a script, and of the priority

VARIABLES
    task,       \* "new", "rejected", "submitting", "submitted"
    given,      \* the configuration that was validated
    installed,  \* the copy in the configuration directory, {} while it is empty
    updater,    \* an update of the priority: the configuration it will write
    scripts,    \* the stages with a script, and those whose script wants GPUs
    run,        \* dataset -> the conf of its last trigger, {} if it failed
    changes     \* changes so far

configVars == <<task, given, installed, updater, scripts, run, changes>>

(* None, what int() refuses (or false), and numbers, which int() cuts off:  *)
(* "zero" is also a half, "fraction" is one and a half, "one" may be 1.0;   *)
(* "text" is a positive number in a string, "flag" is true.                 *)
Ints == {"null", "bad", "negative", "zero", "one", "fraction", "text", "flag"}

IsText(v) == v \notin {"null", "number"}

(* A value for everything the code reads; datasets are a list, and GPU_IDS  *)
(* is missing, empty, text (or a number), or what str() makes no GPUs of, a *)
(* list.                                                                    *)
Fields == {"stages", "exclusive", "waitInterval", "taskType", "priority", "grace",
           "gpuStagesKey", "gpuStages", "gpuIds", "memory", "gpuWait", "pending",
           "exclusiveStages", "idleUsedMax", "datasets", "maxActiveRuns"}

WellFormed(c) ==
    /\ c = [field \in Fields |-> c[field]]
    /\ Len(c.datasets) \in Nat
    /\ c.datasets = [i \in 1..Len(c.datasets) |-> c.datasets[i]]
    /\ c.gpuIds \in {"absent", "empty", "text", "list"}

(* Configurations have the shape that is read, and what wants GPUs exists.  *)
ASSUME TaskConfigAssumption ==
    /\ \A c \in Configs : WellFormed(c)
    /\ GpuScripts \subseteq Scripts
    /\ MaxChanges \in Nat

LocalImageOptionalStages == {"precheck"}

-----------------------------------------------------------------------------
(* core/config.py: each operator holds when its function raises nothing.    *)

PositiveInt(v) == v \in {"one", "fraction", "text", "flag"}
PriorityInt(v) == v \in {"zero", "one", "fraction", "text"}
RequireConfig(value) == value # {} /\ value # {"null"}

ParseBool(v) == v \in {"null", "true", "false"}

StagesOf(c) == ToSet(FlattenSeq(c.stages))

NormalizePipelineStages(c) ==
    /\ c.stages # <<>> /\ \A i \in DOMAIN c.stages : c.stages[i] # <<>>
    /\ StagesOf(c) \subseteq ValidStages
    /\ IsInjective(FlattenSeq(c.stages))

ValidateStageScripts(c, s) == StagesOf(c) \subseteq s.present

NormalizeTaskLock(c) ==
    /\ \A v \in c.exclusive : ParseBool(v)
    /\ \A v \in c.waitInterval : PositiveInt(v)

NormalizeTaskPriority(c) ==
    /\ c.taskType \subseteq TaskTypes
    /\ \A v \in c.priority \ {"null"} : PriorityInt(v)

NormalizePreempt(c) == \A v \in c.grace : PriorityInt(v)

(* Without a list of its own every stage with GPUs is exclusive.            *)
ExclusiveStages(c) == IF c.exclusiveStages = {} THEN c.gpuStages
                      ELSE UNION c.exclusiveStages

NormalizeExclusiveGpu(c) ==
    /\ c.gpuStages \subseteq ValidStages /\ ExclusiveStages(c) \subseteq c.gpuStages
    /\ c.exclusiveStages # {} => ExclusiveStages(c) \subseteq StagesOf(c)
    /\ ExclusiveStages(c) # {} => \A v \in c.idleUsedMax : PriorityInt(v)

(* The stages whose memory is given are read, not those that need it.       *)
StageMemoryUnchecked(c) ==
    \E m \in c.memory : DOMAIN m # {} /\ \A stage \in DOMAIN m : PositiveInt(m[stage])

StageMemory(c) ==
    \E m \in c.memory : /\ DOMAIN m # {} /\ \A stage \in DOMAIN m : PositiveInt(m[stage])
                        /\ c.gpuStages \subseteq DOMAIN m

ScriptRequiresGpu(stage, s) == stage \in s.gpu

(* A script that is gone cannot be read.                                    *)
NormalizeGpu(c, s) ==
    /\ c.gpuStagesKey /\ StagesOf(c) \subseteq s.present
    /\ \A stage \in StagesOf(c) : ScriptRequiresGpu(stage, s) => stage \in c.gpuStages
    /\ c.gpuStages # {} =>
          /\ c.gpuIds \notin {"absent", "empty"}
          /\ StageMemory(c)
          /\ RequireConfig(c.gpuWait) /\ \A v \in c.gpuWait : PositiveInt(v)
          /\ RequireConfig(c.pending) /\ \A v \in c.pending : PositiveInt(v)
    /\ NormalizeExclusiveGpu(c)

(* A relative path is refused, and one that is not text; so is a name that  *)
(* is not text when the path is made from it.                               *)
DatasetPath(ds) == IF ds.path = "absent" THEN IsText(ds.name) ELSE ds.path # "relative"

DatasetNames(c) == {c.datasets[i].name : i \in DOMAIN c.datasets} \ {""}

ValidateDatasets(c) ==
    /\ c.datasets # <<>>
    /\ Cardinality(DatasetNames(c)) = Len(c.datasets)
    /\ \A i \in DOMAIN c.datasets :
          LET ds == c.datasets[i]
          IN /\ DatasetPath(ds) /\ \A v \in ds.timeout : PositiveInt(v)
             /\ StagesOf(c) \ LocalImageOptionalStages \subseteq DOMAIN ds.images

ValidateConfig(c, s) ==
    /\ NormalizePipelineStages(c)
    /\ ValidateStageScripts(c, s)
    /\ NormalizeTaskLock(c) /\ NormalizeTaskPriority(c) /\ NormalizePreempt(c)
    /\ NormalizeGpu(c, s)
    /\ ValidateDatasets(c)
    /\ \A v \in c.maxActiveRuns : PositiveInt(v)

-----------------------------------------------------------------------------
(* Of a stage that needs no image, null stays null.                         *)
Image(ds, stage) ==
    IF stage \notin LocalImageOptionalStages THEN ds.images[stage]
    ELSE IF ds.precheck = "absent" THEN "local" ELSE ds.precheck

Pool(ds) ==
    IF ds.pool # {} /\ ds.pool # {"null"} THEN CHOOSE p \in ds.pool : TRUE
    ELSE IF ds.tier \in {"large", "medium"} THEN ds.tier ELSE "small"

(* dataset_map: of two datasets of a name, the last.                        *)
DatasetMap(c, name) ==
    c.datasets[CHOOSE i \in DOMAIN c.datasets :
                 c.datasets[i].name = name /\ \A j \in DOMAIN c.datasets :
                                                 c.datasets[j].name = name => j <= i]

(* What was parsed is a number now; name, pool, tier, timeout and images    *)
(* are handed on as they are, and GPUs are turned into text by str().       *)
TriggerConf(c, ds) ==
    [dataset |-> ds.name, pool |-> Pool(ds), tier |-> ds.tier, timeout |-> ds.timeout,
     images |-> [stage \in StagesOf(c) |-> Image(ds, stage)],
     gpuStages |-> c.gpuStages,
     gpuIds |-> IF c.gpuStages = {} THEN "empty"
                ELSE IF c.gpuIds = "list" THEN "garbled" ELSE c.gpuIds,
     memory |-> IF c.gpuStages = {} THEN {} ELSE UNION {DOMAIN m : m \in c.memory},
     exclusive |-> ExclusiveStages(c)]

BuildTriggerConf(c, s, ds) == NormalizeGpu(c, s) /\ DatasetPath(ds)
                              /\ NormalizeTaskLock(c) /\ NormalizePreempt(c)

(* The parameters of the generated DAG: the timeout is an integer; name,    *)
(* pool, tier and every image are strings.                                  *)
ParamsAccept(conf) ==
    /\ conf.timeout \subseteq {"one"}
    /\ IsText(conf.dataset) /\ IsText(conf.pool) /\ IsText(conf.tier)
    /\ \A stage \in DOMAIN conf.images : IsText(conf.images[stage])

Run(c, name) ==
    LET ds == DatasetMap(c, name)
        conf == TriggerConf(c, ds)
    IN IF BuildTriggerConf(c, scripts, ds) /\ ParamsAccept(conf) THEN {conf} ELSE {}

-----------------------------------------------------------------------------
ConfigInit ==
    /\ task = "new"
    /\ given \in Configs
    /\ installed = {} /\ updater = {}
    /\ scripts = [present |-> Scripts, gpu |-> GpuScripts]
    /\ run = [name \in {} |-> {}]
    /\ changes = 0

(* TaskService.prepare_submission: nothing is installed that is not valid.  *)
Submit ==
    /\ task = "new"
    /\ IF ValidateConfig(given, scripts)
       THEN task' = "submitting" /\ installed' = {given}
       ELSE task' = "rejected" /\ UNCHANGED installed
    /\ UNCHANGED <<given, updater, scripts, run, changes>>

(* The loop of submit_task: the datasets in their order, the first failure  *)
(* ends it.                                                                 *)
TriggerNext ==
    LET i == Cardinality(DOMAIN run) + 1
        name == given.datasets[i].name
        conf == Run(given, name)
    IN /\ task = "submitting"
       /\ run' = [n \in DOMAIN run \cup {name} |-> IF n = name THEN conf ELSE run[n]]
       /\ task' = IF conf = {} \/ i = Len(given.datasets) THEN "submitted" ELSE task
       /\ UNCHANGED <<given, installed, updater, scripts, changes>>

(* resume_task, for a dataset that it finds in the configuration it loads.  *)
Resume(name) ==
    /\ task = "submitted"
    /\ \E c \in installed :
         /\ name \in DatasetNames(c) /\ NormalizePipelineStages(c)
         /\ run' = [n \in DOMAIN run \cup {name} |-> IF n = name THEN Run(c, name) ELSE run[n]]
    /\ UNCHANGED <<task, given, installed, updater, scripts, changes>>

(* update_task_priority_config loads the file and writes it again ...       *)
UpdatePriority(v) ==
    /\ task \in {"submitting", "submitted"} /\ updater = {} /\ changes < MaxChanges
    /\ PriorityInt(v)
    /\ \E c \in installed :
         NormalizeTaskPriority(c) /\ updater' = {[c EXCEPT !.priority = {v}]}
    /\ changes' = changes + 1
    /\ UNCHANGED <<task, given, installed, scripts, run>>

(* ... which empties it first (save_task_config); a crash leaves it so.     *)
TruncateConfig ==
    /\ updater # {} /\ installed # {}
    /\ installed' = {}
    /\ UNCHANGED <<task, given, updater, scripts, run, changes>>

SaveConfig ==
    /\ updater # {} /\ installed = {}
    /\ installed' = updater /\ updater' = {}
    /\ UNCHANGED <<task, given, scripts, run, changes>>

UpdaterCrashes ==
    /\ updater # {} /\ updater' = {}
    /\ UNCHANGED <<task, given, installed, scripts, run, changes>>

(* Somebody installs another version of the scripts.                        *)
ChangeScript(stage) ==
    /\ changes < MaxChanges /\ changes' = changes + 1
    /\ \/ scripts' = [present |-> scripts.present \ {stage}, gpu |-> scripts.gpu \ {stage}]
       \/ stage \in scripts.present /\ scripts' = [scripts EXCEPT !.gpu = @ \cup {stage}]
    /\ UNCHANGED <<task, given, installed, updater, run>>

ConfigNext ==
    \/ Submit \/ TriggerNext
    \/ \E name \in DatasetNames(given) : Resume(name)
    \/ \E v \in Ints : UpdatePriority(v)
    \/ TruncateConfig \/ SaveConfig \/ UpdaterCrashes
    \/ \E stage \in Scripts : ChangeScript(stage)

ConfigSpec == ConfigInit /\ [][ConfigNext]_configVars

-----------------------------------------------------------------------------
ConfigTypeOK ==
    /\ task \in {"new", "rejected", "submitting", "submitted"} /\ WellFormed(given)
    /\ \A c \in installed \cup updater : [c EXCEPT !.priority = given.priority] = given
    /\ scripts.gpu \subseteq scripts.present /\ scripts.present \subseteq Scripts
    /\ task \in {"submitting", "submitted"} => DOMAIN run \subseteq DatasetNames(given)
    /\ changes \in 0..MaxChanges

Unchanged == scripts = [present |-> Scripts, gpu |-> GpuScripts]

(* Values that pass the validation and that a run does not take: a timeout  *)
(* that is no integer (in a string, true, one and a half), and a name, a    *)
(* pool, a tier or an image that is not text.                               *)
Odd(c, ds) ==
    \/ ~(ds.timeout \subseteq {"one"})
    \/ ~IsText(ds.name) \/ ~IsText(Pool(ds)) \/ ~IsText(ds.tier)
    \/ \E stage \in StagesOf(c) \ LocalImageOptionalStages : ~IsText(ds.images[stage])
    \/ ~IsText(ds.precheck) /\ StagesOf(c) \cap LocalImageOptionalStages # {}

(* What the validation accepted can be run: each trigger, now and later,    *)
(* succeeds, unless a script has changed, for exactly the datasets without  *)
(* an odd value, and hands the run an image of each stage, and for each     *)
(* stage with GPUs, which every stage is whose script wanted them at        *)
(* submission, the memory and the GPUs (but for GPUs that str() garbles).   *)
TriggeredIsRunnable ==
    \A name \in DOMAIN run :
       /\ run[name] = {} => Odd(given, DatasetMap(given, name)) \/ ~Unchanged
       /\ run[name] # {} => ~Odd(given, DatasetMap(given, name))
       /\ \A conf \in run[name] :
             /\ DOMAIN conf.images = StagesOf(given)
             /\ StagesOf(given) \cap GpuScripts \subseteq conf.gpuStages
             /\ conf.gpuStages # {} => conf.gpuIds = "text" \/ given.gpuIds = "list"
             /\ conf.gpuStages \subseteq conf.memory
             /\ conf.exclusive \subseteq conf.gpuStages
=============================================================================
