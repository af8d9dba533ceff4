-------------------------- MODULE TaskConfigProofs --------------------------
(***************************************************************************)
(* Proofs about TaskConfig for any configurations, stages, scripts and     *)
(* number of changes: what the validation accepted can be run.             *)
(***************************************************************************)
EXTENDS TaskConfig, FiniteSetTheorems, TLAPS

-----------------------------------------------------------------------------
(* The invariant.                                                           *)

Original == [present |-> Scripts, gpu |-> GpuScripts]
Versions == [present: SUBSET Scripts, gpu: SUBSET Scripts]

(* A script that wanted GPUs wants them as long as it is there.             *)
KeepsGpus(s) == GpuScripts \cap s.present \subseteq s.gpu

(* The scripts are what they were at the validation, if they are what they  *)
(* were at first.                                                           *)
ValidatedWith(s) == /\ ValidateConfig(given, s) /\ KeepsGpus(s)
                    /\ scripts = Original => s = Original

Validated == task \in {"submitting", "submitted"} => \E s \in Versions : ValidatedWith(s)

FirstNames(c, k) == {c.datasets[i].name : i \in 1..k}

(* The loop has triggered the first datasets, and there is another.         *)
LoopAtNext ==
    /\ task \in {"new", "rejected"} => DOMAIN run = {}
    /\ task = "submitting" =>
          \E k \in 0..Len(given.datasets) - 1 : DOMAIN run = FirstNames(given, k)

CInv == /\ ConfigTypeOK /\ scripts \in Versions /\ KeepsGpus(scripts)
        /\ Validated /\ LoopAtNext /\ TriggeredIsRunnable
-----------------------------------------------------------------------------
(* Configurations that differ in their priority only.                       *)

Same(c, d) == /\ DOMAIN c = DOMAIN d
              /\ \A field \in Fields \ {"priority"} : c[field] = d[field]

LEMMA PriorityIsApart ==
  ASSUME NEW c, WellFormed(given), [c EXCEPT !.priority = given.priority] = given
  PROVE  Same(c, given)
  <1> DEFINE d == [c EXCEPT !.priority = given.priority]
  <1>1. DOMAIN d = DOMAIN c /\ \A field \in DOMAIN c \ {"priority"} : d[field] = c[field]
    OBVIOUS
  <1>2. DOMAIN given = Fields
    BY DEF WellFormed
  <1> QED
    BY <1>1, <1>2 DEF Same

LEMMA PriorityIsSet ==
  ASSUME NEW c, NEW v, WellFormed(given), [c EXCEPT !.priority = given.priority] = given
  PROVE  [[c EXCEPT !.priority = v] EXCEPT !.priority = given.priority] = given
  OBVIOUS

(* The priority plays no part in a trigger.                                 *)
LEMMA SameRun ==
  ASSUME NEW c, WellFormed(given), Same(c, given), NEW name
  PROVE  /\ DatasetNames(c) = DatasetNames(given)
         /\ Run(c, name) = Run(given, name)
  <1>1. /\ c.stages = given.stages /\ c.exclusive = given.exclusive
        /\ c.waitInterval = given.waitInterval /\ c.grace = given.grace
        /\ c.gpuStagesKey = given.gpuStagesKey /\ c.gpuStages = given.gpuStages
        /\ c.gpuIds = given.gpuIds /\ c.memory = given.memory
        /\ c.gpuWait = given.gpuWait /\ c.pending = given.pending
        /\ c.exclusiveStages = given.exclusiveStages
        /\ c.idleUsedMax = given.idleUsedMax /\ c.datasets = given.datasets
    BY DEF Same, Fields
  <1>2. /\ DatasetNames(c) = DatasetNames(given)
        /\ DatasetMap(c, name) = DatasetMap(given, name)
        /\ StagesOf(c) = StagesOf(given)
        /\ ExclusiveStages(c) = ExclusiveStages(given)
    BY <1>1 DEF DatasetNames, DatasetMap, StagesOf, ExclusiveStages
  <1>3. /\ NormalizeTaskLock(c) = NormalizeTaskLock(given)
        /\ NormalizePreempt(c) = NormalizePreempt(given)
        /\ StageMemory(c) = StageMemory(given)
        /\ NormalizeExclusiveGpu(c) = NormalizeExclusiveGpu(given)
    BY <1>1, <1>2 DEF NormalizeTaskLock, NormalizePreempt, StageMemory, NormalizeExclusiveGpu
  <1>4. NormalizeGpu(c, scripts) = NormalizeGpu(given, scripts)
    BY <1>1, <1>2, <1>3 DEF NormalizeGpu
  <1>5. \A ds : TriggerConf(c, ds) = TriggerConf(given, ds)
    BY <1>1, <1>2 DEF TriggerConf
  <1> QED
    BY <1>2, <1>3, <1>4, <1>5 DEF Run, BuildTriggerConf

-----------------------------------------------------------------------------
(* The names of a configuration that was accepted.                          *)

Named(c) == /\ \A i, j \in 1..Len(c.datasets) : c.datasets[i].name = c.datasets[j].name => i = j
            /\ \A i \in 1..Len(c.datasets) : c.datasets[i].name # ""

(* As many names as datasets: no name is empty, and no two are the same.    *)
LEMMA NamesDiffer ==
  ASSUME NEW c, WellFormed(c), ValidateDatasets(c)
  PROVE  Named(c)
  <1> DEFINE n == Len(c.datasets)
             f == [i \in 1..n |-> c.datasets[i].name]
             names == {c.datasets[i].name : i \in 1..n}
  <1>1. n \in Nat /\ DOMAIN c.datasets = 1..n
    BY DEF WellFormed
  <1>2. DatasetNames(c) = names \ {""} /\ Cardinality(names \ {""}) = n
    <2>1. DatasetNames(c) = names \ {""}
      BY <1>1 DEF DatasetNames
    <2> QED
      BY <2>1 DEF ValidateDatasets
  <1>3. IsFiniteSet(1..n) /\ Cardinality(1..n) = n
    <2>1. /\ IsFiniteSet(1..n)
          /\ Cardinality(1..n) = IF 1 > n THEN 0 ELSE n - 1 + 1
      <3>1. 1 \in Int /\ n \in Int
        BY <1>1
      <3> QED
        BY <3>1, FS_Interval
    <2> QED
      BY <2>1, <1>1
  <1>4. f \in Surjection(1..n, names)
    BY DEF Surjection
  <1>5. /\ IsFiniteSet(names) /\ Cardinality(names) <= n
        /\ Cardinality(names) = n <=> f \in Injection(1..n, names)
    BY <1>3, <1>4, FS_Surjection
  <1>6. /\ Cardinality(names \ {""}) <= Cardinality(names)
        /\ Cardinality(names) = Cardinality(names \ {""}) => names = names \ {""}
    BY <1>5, FS_Subset
  <1>7. Cardinality(names) \in Nat
    BY <1>5, FS_CardinalityType
  <1>8. Cardinality(names) = n /\ names = names \ {""}
    <2>1. Cardinality(names) <= n /\ n <= Cardinality(names) /\ n \in Nat
      BY <1>1, <1>2, <1>5, <1>6
    <2>2. Cardinality(names) = n
      <3> HIDE DEF names, n
      <3> QED
        BY <2>1, <1>7
    <2> QED
      BY <2>2, <1>2, <1>6
  <1>9. f \in Injection(1..n, names)
    BY <1>5, <1>8
  <1>10. \A i, j \in 1..n : f[i] = f[j] => i = j
    BY <1>9 DEF Injection, IsInjective
  <1> QED
    BY <1>8, <1>10 DEF Named

LEMMA NamedDataset ==
  ASSUME NEW c, WellFormed(c), Named(c), NEW i \in 1..Len(c.datasets)
  PROVE  /\ DatasetMap(c, c.datasets[i].name) = c.datasets[i]
         /\ c.datasets[i].name \in DatasetNames(c)
  <1>1. Len(c.datasets) \in Nat /\ DOMAIN c.datasets = 1..Len(c.datasets)
    BY DEF WellFormed
  <1> DEFINE Latest(k) == /\ c.datasets[k].name = c.datasets[i].name
                          /\ \A j \in DOMAIN c.datasets :
                               c.datasets[j].name = c.datasets[i].name => j <= k
  <1>2. i \in DOMAIN c.datasets /\ Latest(i)
    <2>1. ASSUME NEW j \in DOMAIN c.datasets, c.datasets[j].name = c.datasets[i].name
          PROVE  j = i
      BY <1>1, <2>1 DEF Named
    <2>2. i \in Int
      BY <1>1
    <2> QED
      BY <1>1, <2>1, <2>2
  <1>3. ASSUME NEW k \in DOMAIN c.datasets, Latest(k) PROVE k = i
    BY <1>1, <1>3 DEF Named
  <1>4. (CHOOSE k \in DOMAIN c.datasets : Latest(k)) = i
    BY <1>2, <1>3
  <1> QED
    BY <1>1, <1>2, <1>4 DEF DatasetMap, DatasetNames, Named

LEMMA CountFirst ==
  ASSUME NEW c, WellFormed(c), Named(c), NEW k \in 0..Len(c.datasets)
  PROVE  Cardinality(FirstNames(c, k)) = k
  <1> DEFINE f == [i \in 1..k |-> c.datasets[i].name]
  <1>1. Len(c.datasets) \in Nat /\ k \in Nat
    BY DEF WellFormed
  <1>2. f \in Surjection(1..k, FirstNames(c, k)) /\ f \in Injection(1..k, FirstNames(c, k))
    <2>1. f \in [1..k -> FirstNames(c, k)]
      BY DEF FirstNames
    <2>2. \A name \in FirstNames(c, k) : \E i \in 1..k : f[i] = name
      BY DEF FirstNames
    <2>3. 1..k \subseteq 1..Len(c.datasets)
      BY <1>1
    <2>4. \A i, j \in 1..k : f[i] = f[j] => i = j
      BY <2>3 DEF Named
    <2> QED
      BY <2>1, <2>2, <2>4 DEF Surjection, Injection, IsInjective
  <1>3. /\ IsFiniteSet(1..k)
        /\ Cardinality(1..k) = IF 1 > k THEN 0 ELSE k - 1 + 1
    <2>1. 1 \in Int /\ k \in Int
      BY <1>1
    <2> QED
      BY <2>1, FS_Interval
  <1>4. Cardinality(FirstNames(c, k)) = Cardinality(1..k)
    BY <1>2, <1>3, FS_Surjection
  <1> QED
    BY <1>1, <1>3, <1>4

-----------------------------------------------------------------------------
(* A trigger of what was accepted.                                          *)

(* What TriggeredIsRunnable says of a dataset and the conf of its run.      *)
Runnable(name, confs) ==
    /\ confs = {} => Odd(given, DatasetMap(given, name)) \/ ~Unchanged
    /\ confs # {} => ~Odd(given, DatasetMap(given, name))
    /\ \A conf \in confs :
          /\ DOMAIN conf.images = StagesOf(given)
          /\ StagesOf(given) \cap GpuScripts \subseteq conf.gpuStages
          /\ conf.gpuStages # {} => conf.gpuIds = "text" \/ given.gpuIds = "list"
          /\ conf.gpuStages \subseteq conf.memory
          /\ conf.exclusive \subseteq conf.gpuStages

(* Every stage whose script wants GPUs was given them.                      *)
LEMMA GpusAreGiven ==
  ASSUME NEW s, ValidateConfig(given, s), KeepsGpus(s)
  PROVE  StagesOf(given) \cap GpuScripts \subseteq given.gpuStages
  <1>1. NormalizeGpu(given, s)
    BY DEF ValidateConfig
  <1> QED
    BY <1>1 DEF NormalizeGpu, KeepsGpus, ScriptRequiresGpu

LEMMA AcceptedRuns ==
  ASSUME WellFormed(given), NEW s, ValidatedWith(s), NEW i \in 1..Len(given.datasets)
  PROVE  Runnable(given.datasets[i].name, Run(given, given.datasets[i].name))
  <1> DEFINE ds == given.datasets[i]
             conf == TriggerConf(given, ds)
  <1>1. /\ NormalizeGpu(given, s) /\ ValidateDatasets(given)
        /\ NormalizeTaskLock(given) /\ NormalizePreempt(given)
    BY DEF ValidatedWith, ValidateConfig
  <1>2. DatasetMap(given, ds.name) = ds
    BY <1>1, NamesDiffer, NamedDataset
  <1>3. Run(given, ds.name) = IF BuildTriggerConf(given, scripts, ds) /\ ParamsAccept(conf)
                              THEN {conf} ELSE {}
    BY <1>2 DEF Run
  <1>4. ParamsAccept(conf) <=> ~Odd(given, ds)
    <2>1. /\ conf.timeout = ds.timeout /\ conf.dataset = ds.name
          /\ conf.pool = Pool(ds) /\ conf.tier = ds.tier
          /\ conf.images = [stage \in StagesOf(given) |-> Image(ds, stage)]
      BY DEF TriggerConf
    <2>2. (\A stage \in DOMAIN conf.images : IsText(conf.images[stage]))
          <=> \A stage \in StagesOf(given) : IsText(Image(ds, stage))
      BY <2>1
    <2>3. \A stage \in StagesOf(given) \ LocalImageOptionalStages :
             IsText(Image(ds, stage)) <=> IsText(ds.images[stage])
      BY DEF Image
    <2>4. \A stage \in StagesOf(given) \cap LocalImageOptionalStages :
             IsText(Image(ds, stage)) <=> IsText(ds.precheck)
      BY DEF Image, IsText
    <2> HIDE DEF conf, ds
    <2> QED
      BY <2>1, <2>2, <2>3, <2>4 DEF ParamsAccept, Odd
  <1>5. ASSUME Run(given, ds.name) = {}, Unchanged PROVE Odd(given, ds)
    <2>1. s = scripts
      BY <1>5 DEF ValidatedWith, Unchanged, Original
    <2>2. DatasetPath(ds)
      <3>1. DOMAIN given.datasets = 1..Len(given.datasets)
        BY DEF WellFormed
      <3> QED
        BY <1>1, <3>1 DEF ValidateDatasets
    <2>3. BuildTriggerConf(given, scripts, ds)
      BY <1>1, <2>1, <2>2 DEF BuildTriggerConf
    <2> HIDE DEF conf, ds
    <2> QED
      BY <1>3, <1>4, <1>5, <2>3
  <1>6. DOMAIN conf.images = StagesOf(given)
    BY DEF TriggerConf
  <1>7. conf.gpuStages = given.gpuStages /\ conf.exclusive = ExclusiveStages(given)
    BY DEF TriggerConf
  <1>8. StagesOf(given) \cap GpuScripts \subseteq conf.gpuStages
    BY <1>7, GpusAreGiven DEF ValidatedWith
  <1>9. conf.gpuStages # {} => conf.gpuIds = "text" \/ given.gpuIds = "list"
    BY <1>1 DEF TriggerConf, NormalizeGpu, WellFormed
  <1>10. conf.gpuStages \subseteq conf.memory
    <2>1. CASE given.gpuStages = {}
      BY <2>1 DEF TriggerConf
    <2>2. CASE given.gpuStages # {}
      <3>1. conf.memory = UNION {DOMAIN m : m \in given.memory}
        BY <2>2 DEF TriggerConf
      <3>2. PICK m \in given.memory : given.gpuStages \subseteq DOMAIN m
        BY <1>1, <2>2 DEF NormalizeGpu, StageMemory
      <3> QED
        BY <1>7, <3>1, <3>2
    <2> QED
      BY <2>1, <2>2
  <1>11. conf.exclusive \subseteq conf.gpuStages
    BY <1>1, <1>7 DEF NormalizeGpu, NormalizeExclusiveGpu
  <1>12. ASSUME NEW k \in Run(given, ds.name) PROVE k = conf /\ ~Odd(given, ds)
    <2> HIDE DEF conf, ds
    <2> QED
      BY <1>3, <1>4, <1>12
  <1> HIDE DEF conf
  <1> QED
    BY <1>2, <1>5, <1>6, <1>8, <1>9, <1>10, <1>11, <1>12 DEF Runnable

LEMMA RunnableByName ==
  ASSUME CInv, task \in {"submitting", "submitted"}, NEW name \in DatasetNames(given)
  PROVE  Runnable(name, Run(given, name))
  <1>1. PICK s \in Versions : ValidatedWith(s)
    BY DEF CInv, Validated
  <1>2. WellFormed(given)
    BY DEF CInv, ConfigTypeOK
  <1>3. PICK i \in DOMAIN given.datasets : name = given.datasets[i].name
    BY DEF DatasetNames
  <1>4. i \in 1..Len(given.datasets)
    BY <1>2 DEF WellFormed
  <1>5. Runnable(given.datasets[i].name, Run(given, given.datasets[i].name))
    BY <1>1, <1>2, <1>4, AcceptedRuns
  <1> QED
    BY <1>3, <1>5

LEMMA RunnableIsInvariant ==
  TriggeredIsRunnable <=> \A name \in DOMAIN run : Runnable(name, run[name])
  BY DEF TriggeredIsRunnable, Runnable

-----------------------------------------------------------------------------
(* The steps.                                                               *)

LEMMA InitCInv == ConfigInit => CInv
  <1> SUFFICES ASSUME ConfigInit PROVE CInv
    OBVIOUS
  <1>1. WellFormed(given)
    BY TaskConfigAssumption DEF ConfigInit
  <1>2. ConfigTypeOK
    BY <1>1, TaskConfigAssumption DEF ConfigInit, ConfigTypeOK
  <1>3. scripts \in Versions /\ KeepsGpus(scripts)
    BY TaskConfigAssumption DEF ConfigInit, Versions, KeepsGpus
  <1>4. Validated /\ LoopAtNext /\ TriggeredIsRunnable
    BY DEF ConfigInit, Validated, LoopAtNext, TriggeredIsRunnable
  <1> QED
    BY <1>2, <1>3, <1>4 DEF CInv

LEMMA SubmitPreservesCInv == ASSUME CInv, Submit PROVE CInv'
  <1>1. /\ ConfigTypeOK /\ scripts \in Versions /\ KeepsGpus(scripts) /\ LoopAtNext
        /\ UNCHANGED <<given, updater, scripts, run, changes>> /\ task = "new"
    BY DEF CInv, Submit
  <1>2. WellFormed(given) /\ DOMAIN run = {}
    BY <1>1 DEF ConfigTypeOK, LoopAtNext
  <1>3. [given EXCEPT !.priority = given.priority] = given
    BY <1>2 DEF WellFormed
  <1>4. (scripts \in Versions /\ KeepsGpus(scripts))' /\ TriggeredIsRunnable'
    BY <1>1, <1>2 DEF KeepsGpus, TriggeredIsRunnable
  <1>5. CASE ValidateConfig(given, scripts)
    <2>1. task' = "submitting" /\ installed' = {given}
      BY <1>5 DEF Submit
    <2>2. ConfigTypeOK'
      BY <1>1, <1>2, <1>3, <2>1 DEF ConfigTypeOK
    <2>3. Validated'
      <3>1. ValidatedWith(scripts)'
        BY <1>1, <1>5 DEF ValidatedWith, KeepsGpus
      <3> QED
        BY <1>1, <3>1 DEF Validated
    <2>4. LoopAtNext'
      <3>1. given.datasets # <<>>
        BY <1>5 DEF ValidateConfig, ValidateDatasets
      <3>2. Len(given.datasets) \in Nat \ {0}
        BY <1>2, <3>1 DEF WellFormed
      <3>3. 0 \in 0..Len(given.datasets) - 1 /\ DOMAIN run = FirstNames(given, 0)
        BY <1>2, <3>2 DEF FirstNames
      <3> QED
        BY <1>1, <2>1, <3>3 DEF LoopAtNext
    <2> QED
      BY <1>4, <2>2, <2>3, <2>4 DEF CInv
  <1>6. CASE ~ValidateConfig(given, scripts)
    <2>1. task' = "rejected" /\ installed' = installed
      BY <1>6 DEF Submit
    <2> QED
      BY <1>1, <1>2, <1>4, <2>1 DEF CInv, ConfigTypeOK, Validated, LoopAtNext
  <1> QED
    BY <1>5, <1>6

(* A step that leaves the runs and the scripts alone.                       *)
LEMMA RunsAreKept ==
  ASSUME CInv, UNCHANGED <<task, given, scripts, run>>
  PROVE  (scripts \in Versions /\ KeepsGpus(scripts) /\ Validated /\ LoopAtNext /\ TriggeredIsRunnable)'
  <1>1. (scripts \in Versions /\ KeepsGpus(scripts))'
    BY DEF CInv, KeepsGpus
  <1>2. Validated' /\ LoopAtNext'
    BY DEF CInv, Validated, ValidatedWith, LoopAtNext
  <1>3. TriggeredIsRunnable'
    BY DEF CInv, TriggeredIsRunnable, Unchanged
  <1> QED
    BY <1>1, <1>2, <1>3

(* One more run, of a dataset of the configuration.                         *)
LEMMA TriggerIsRunnable ==
  ASSUME CInv, task \in {"submitting", "submitted"}, NEW name \in DatasetNames(given),
         run' = [n \in DOMAIN run \cup {name} |-> IF n = name THEN Run(given, name) ELSE run[n]],
         UNCHANGED <<given, scripts>>
  PROVE  TriggeredIsRunnable'
  <1>1. Runnable(name, Run(given, name))
    BY RunnableByName
  <1>2. \A n \in DOMAIN run : Runnable(n, run[n])
    BY RunnableIsInvariant DEF CInv
  <1>3. \A n \in DOMAIN run' : Runnable(n, run'[n])
    BY <1>1, <1>2
  <1> QED
    BY <1>3 DEF TriggeredIsRunnable, Runnable, Unchanged

LEMMA TriggerNextPreservesCInv == ASSUME CInv, TriggerNext PROVE CInv'
  <1> DEFINE i == Cardinality(DOMAIN run) + 1
             name == given.datasets[i].name
  <1>1. /\ ConfigTypeOK /\ Validated /\ LoopAtNext /\ scripts \in Versions /\ KeepsGpus(scripts)
        /\ task = "submitting" /\ UNCHANGED <<given, installed, updater, scripts, changes>>
        /\ run' = [n \in DOMAIN run \cup {name} |-> IF n = name THEN Run(given, name) ELSE run[n]]
        /\ task' = IF Run(given, name) = {} \/ i = Len(given.datasets) THEN "submitted" ELSE task
    BY DEF CInv, TriggerNext
  <1>2. WellFormed(given) /\ DOMAIN run \subseteq DatasetNames(given)
    BY <1>1 DEF ConfigTypeOK
  <1>3. PICK s \in Versions : ValidatedWith(s)
    BY <1>1 DEF Validated
  <1>4. Named(given)
    BY <1>2, <1>3, NamesDiffer DEF ValidatedWith, ValidateConfig
  <1>5. PICK k \in 0..Len(given.datasets) - 1 : DOMAIN run = FirstNames(given, k)
    BY <1>1 DEF LoopAtNext
  <1>6. Len(given.datasets) \in Nat /\ k \in Nat /\ k < Len(given.datasets)
    BY <1>2, <1>5 DEF WellFormed
  <1>7. i = k + 1 /\ i \in 1..Len(given.datasets)
    <2>1. k \in 0..Len(given.datasets)
      BY <1>6
    <2>2. Cardinality(FirstNames(given, k)) = k
      BY <2>1, <1>2, <1>4, CountFirst
    <2> QED
      BY <2>2, <1>5, <1>6
  <1>8. name \in DatasetNames(given)
    BY <1>2, <1>4, <1>7, NamedDataset
  <1> HIDE DEF i, name
  <1>9. TriggeredIsRunnable'
    BY <1>1, <1>8, TriggerIsRunnable
  <1>10. task' \in {"submitting", "submitted"} /\ DOMAIN run' = DOMAIN run \cup {name}
    BY <1>1
  <1>11. ConfigTypeOK'
    BY <1>1, <1>2, <1>8, <1>10 DEF ConfigTypeOK
  <1>12. Validated'
    BY <1>1, <1>3 DEF Validated, ValidatedWith
  <1>13. LoopAtNext'
    <2>1. DOMAIN run' = FirstNames(given, k + 1)
      <3>1. 1..(k + 1) = 1..k \cup {k + 1}
        BY <1>6
      <3> QED
        BY <3>1, <1>5, <1>7, <1>10 DEF FirstNames, name
    <2>2. ASSUME task' = "submitting" PROVE k + 1 \in 0..Len(given.datasets) - 1
      <3>1. i # Len(given.datasets)
        BY <2>2, <1>1
      <3> QED
        BY <3>1, <1>6, <1>7
    <2> QED
      BY <2>1, <2>2, <1>1, <1>10 DEF LoopAtNext
  <1> QED
    BY <1>1, <1>9, <1>11, <1>12, <1>13 DEF CInv, KeepsGpus

LEMMA ResumePreservesCInv ==
  ASSUME CInv, NEW name \in DatasetNames(given), Resume(name) PROVE CInv'
  <1>1. /\ ConfigTypeOK /\ Validated /\ scripts \in Versions /\ KeepsGpus(scripts)
        /\ task = "submitted" /\ UNCHANGED <<task, given, installed, updater, scripts, changes>>
    BY DEF CInv, Resume
  <1>2. PICK c \in installed :
          run' = [n \in DOMAIN run \cup {name} |-> IF n = name THEN Run(c, name) ELSE run[n]]
    BY DEF Resume
  <1>3. WellFormed(given) /\ [c EXCEPT !.priority = given.priority] = given
        /\ DOMAIN run \subseteq DatasetNames(given)
    BY <1>1 DEF ConfigTypeOK
  <1>4. Same(c, given)
    BY <1>3, PriorityIsApart
  <1>5. Run(c, name) = Run(given, name)
    BY <1>3, <1>4, SameRun
  <1>6. TriggeredIsRunnable'
    BY <1>1, <1>2, <1>5, TriggerIsRunnable
  <1>7. DOMAIN run' \subseteq DatasetNames(given)
    BY <1>2, <1>3
  <1>8. ConfigTypeOK'
    BY <1>1, <1>7 DEF ConfigTypeOK
  <1>9. Validated' /\ LoopAtNext'
    BY <1>1 DEF Validated, ValidatedWith, LoopAtNext
  <1> QED
    BY <1>1, <1>6, <1>8, <1>9 DEF CInv, KeepsGpus

LEMMA UpdatePriorityPreservesCInv ==
  ASSUME CInv, NEW v, UpdatePriority(v) PROVE CInv'
  <1>1. ConfigTypeOK /\ changes < MaxChanges /\ changes' = changes + 1
        /\ UNCHANGED <<task, given, installed, scripts, run>>
    BY DEF CInv, UpdatePriority
  <1>2. PICK c \in installed : updater' = {[c EXCEPT !.priority = {v}]}
    BY DEF UpdatePriority
  <1>3. WellFormed(given) /\ [c EXCEPT !.priority = given.priority] = given
    BY <1>1 DEF ConfigTypeOK
  <1>4. \A d \in updater' : [d EXCEPT !.priority = given.priority] = given
    BY <1>2, <1>3, PriorityIsSet
  <1>5. changes' \in 0..MaxChanges
    BY <1>1, TaskConfigAssumption DEF ConfigTypeOK
  <1>6. ConfigTypeOK'
    BY <1>1, <1>4, <1>5 DEF ConfigTypeOK
  <1> QED
    BY <1>1, <1>6, RunsAreKept DEF CInv

(* The writer of the priority empties the file, writes it, or dies.         *)
LEMMA WriterPreservesCInv ==
  ASSUME CInv, TruncateConfig \/ SaveConfig \/ UpdaterCrashes PROVE CInv'
  <1>1. /\ UNCHANGED <<task, given, scripts, run, changes>>
        /\ installed' \cup updater' \subseteq installed \cup updater
    BY DEF TruncateConfig, SaveConfig, UpdaterCrashes
  <1>2. ConfigTypeOK'
    BY <1>1 DEF CInv, ConfigTypeOK
  <1> QED
    BY <1>1, <1>2, RunsAreKept DEF CInv

(* Scripts that were changed are never again what they were at first.       *)
LEMMA ChangeScriptPreservesCInv ==
  ASSUME CInv, NEW stage \in Scripts, ChangeScript(stage) PROVE CInv'
  <1>1. /\ ConfigTypeOK /\ scripts \in Versions /\ KeepsGpus(scripts) /\ Validated /\ LoopAtNext
        /\ changes < MaxChanges /\ changes' = changes + 1
        /\ UNCHANGED <<task, given, installed, updater, run>>
    BY DEF CInv, ChangeScript
  <1>2. /\ scripts' \in Versions /\ KeepsGpus(scripts')
        /\ scripts'.gpu \subseteq scripts'.present
        /\ scripts' = Original => scripts = Original
    <2>1. CASE scripts' = [present |-> scripts.present \ {stage}, gpu |-> scripts.gpu \ {stage}]
      BY <1>1, <2>1 DEF Versions, KeepsGpus, Original, ConfigTypeOK
    <2>2. CASE stage \in scripts.present /\ scripts' = [scripts EXCEPT !.gpu = @ \cup {stage}]
      <3>1. scripts = [present |-> scripts.present, gpu |-> scripts.gpu]
        BY <1>1 DEF Versions
      <3>2. scripts'.present = scripts.present /\ scripts'.gpu = scripts.gpu \cup {stage}
        BY <2>2, <3>1
      <3>3. scripts' \in Versions
        BY <1>1, <2>2 DEF Versions
      <3>4. ASSUME scripts' = Original PROVE scripts.present = Scripts /\ scripts.gpu = GpuScripts
        <4>1. scripts.present = Scripts /\ scripts.gpu \cup {stage} = GpuScripts
          BY <3>2, <3>4 DEF Original
        <4>2. GpuScripts \subseteq scripts.gpu
          BY <1>1, <4>1, TaskConfigAssumption DEF KeepsGpus
        <4> QED
          BY <4>1, <4>2
      <3> QED
        BY <1>1, <2>2, <3>1, <3>2, <3>3, <3>4 DEF KeepsGpus, Original, ConfigTypeOK
    <2> QED
      BY <2>1, <2>2 DEF ChangeScript
  <1>3. scripts'.present \subseteq Scripts /\ changes' \in 0..MaxChanges
    BY <1>1, <1>2, TaskConfigAssumption DEF Versions, ConfigTypeOK
  <1>4. ConfigTypeOK'
    BY <1>1, <1>2, <1>3 DEF ConfigTypeOK
  <1>5. Validated' /\ LoopAtNext'
    <2>1. \A s : ValidatedWith(s) => ValidatedWith(s)'
      BY <1>1, <1>2 DEF ValidatedWith, Original
    <2> QED
      BY <1>1, <2>1 DEF Validated, LoopAtNext
  <1>6. TriggeredIsRunnable'
    BY <1>1, <1>2 DEF CInv, TriggeredIsRunnable, Unchanged, Original
  <1> QED
    BY <1>2, <1>4, <1>5, <1>6 DEF CInv

LEMMA NextPreservesCInv == CInv /\ [ConfigNext]_configVars => CInv'
  <1> SUFFICES ASSUME CInv, [ConfigNext]_configVars PROVE CInv'
    OBVIOUS
  <1>1. CASE Submit
    BY <1>1, SubmitPreservesCInv
  <1>2. CASE TriggerNext
    BY <1>2, TriggerNextPreservesCInv
  <1>3. CASE \E name \in DatasetNames(given) : Resume(name)
    BY <1>3, ResumePreservesCInv
  <1>4. CASE \E v \in Ints : UpdatePriority(v)
    BY <1>4, UpdatePriorityPreservesCInv
  <1>5. CASE TruncateConfig \/ SaveConfig \/ UpdaterCrashes
    BY <1>5, WriterPreservesCInv
  <1>6. CASE \E stage \in Scripts : ChangeScript(stage)
    BY <1>6, ChangeScriptPreservesCInv
  <1>7. CASE UNCHANGED configVars
    <2>1. ConfigTypeOK'
      BY <1>7 DEF CInv, ConfigTypeOK, configVars
    <2> QED
      BY <1>7, <2>1, RunsAreKept DEF CInv, configVars
  <1> QED
    BY <1>1, <1>2, <1>3, <1>4, <1>5, <1>6, <1>7 DEF ConfigNext

-----------------------------------------------------------------------------
(* For the configuration that is submitted, of whatever shape the values    *)
(* the code reads have, and for whatever happens to the scripts, the        *)
(* priority and the file: CInv is an invariant.                             *)
THEOREM ConfigInvariance == ConfigSpec => []CInv
  <1>1. ConfigInit => CInv
    BY InitCInv
  <1>2. CInv /\ [ConfigNext]_configVars => CInv'
    BY NextPreservesCInv
  <1> QED
    BY <1>1, <1>2, PTL DEF ConfigSpec

(* The copy in the configuration directory and what an update is about to   *)
(* write differ from the accepted configuration in their priority only, and *)
(* nothing is triggered but its datasets.                                   *)
THEOREM ConfigTypeCorrect == ConfigSpec => []ConfigTypeOK
  <1>1. CInv => ConfigTypeOK
    BY DEF CInv
  <1> QED
    BY <1>1, ConfigInvariance, PTL

(* validate_config promises what build_trigger_conf and the parameters of   *)
(* the DAG will ask for, but for what it does not check itself: a dataset   *)
(* of a task that was accepted, while no script has changed, is triggered   *)
(* exactly if no value of it is odd (a timeout that is no integer, a name,  *)
(* a pool, a tier or an image that is not text), and its run has an image   *)
(* for each stage, and the memory and the GPUs for each stage whose script  *)
(* wanted them.                                                             *)
THEOREM AcceptedIsRunnable == ConfigSpec => []TriggeredIsRunnable
  <1>1. CInv => TriggeredIsRunnable
    BY DEF CInv
  <1> QED
    BY <1>1, ConfigInvariance, PTL
=============================================================================
