----------------------------- MODULE MCServices -----------------------------
(* The parts beside the tasks and the runs, one in each behaviour: the      *)
(* index of the knowledge, the configuration of a task, and the streams.    *)
EXTENDS KnowledgeIndex, TaskConfig, TLC

CONSTANTS Clients, Limit, MaxEvents, MaxCrashes

VARIABLES part,
          status, busy, audit, stream, crashes

streamVars == <<status, busy, audit, stream, crashes>>

-----------------------------------------------------------------------------
OneService == [w \in Workers |-> CHOOSE s \in Services : TRUE]
OfVersion == [v \in Versions |-> IF v = "old" THEN {1, 2} ELSE {2, 3}]

(* A configuration that is valid, and others that differ from it.           *)
Images == [stage \in {"train", "eval"} |-> "text"]
SomeDataset == [name |-> "d1", path |-> "absolute", timeout |-> {"one"}, images |-> Images,
                precheck |-> "absent", tier |-> "small", pool |-> {}]
OtherDataset == [SomeDataset EXCEPT !.name = "d2", !.timeout = {}]
SomeConfig ==
    [stages |-> <<<<"precheck">>, <<"train", "eval">>>>,
     exclusive |-> {}, waitInterval |-> {}, taskType |-> {}, priority |-> {}, grace |-> {},
     gpuStagesKey |-> TRUE, gpuStages |-> {"train"}, gpuIds |-> "text",
     memory |-> {"train" :> "one"}, gpuWait |-> {"one"}, pending |-> {"one"},
     exclusiveStages |-> {}, idleUsedMax |-> {},
     datasets |-> <<SomeDataset, OtherDataset>>, maxActiveRuns |-> {}]

Numbers == Ints
Optional(S) == {{}} \cup {{x} : x \in S}
SomeImages == UNION {[S -> {"text", "number"}] : S \in SUBSET {"train", "eval"}}
Datasets ==
    UNION {
      {[SomeDataset EXCEPT !.name = n, !.path = p, !.timeout = t] :
         n \in {"d1", "", "number"}, p \in {"absent", "absolute", "relative"}, t \in Optional(Numbers)},
      {[SomeDataset EXCEPT !.images = m, !.precheck = p] :
         m \in SomeImages, p \in {"absent", "null", "text", "number"}},
      {[SomeDataset EXCEPT !.name = n, !.tier = t, !.pool = p] :
         n \in {"d1", "number"}, t \in {"small", "null", "number"},
         p \in Optional({"null", "own", "number"})}}
Memories == UNION {[S -> {"zero", "one"}] : S \in SUBSET {"train", "eval"}}

ConfigsOfOneValue ==
    UNION {
      {[SomeConfig EXCEPT !.exclusive = v] : v \in Optional({"null", "true", "false", "bad"})},
      {[SomeConfig EXCEPT !.waitInterval = v] : v \in Optional(Numbers)},
      {[SomeConfig EXCEPT !.grace = v] : v \in Optional(Numbers)},
      {[SomeConfig EXCEPT !.priority = v] : v \in Optional(Numbers)},
      {[SomeConfig EXCEPT !.idleUsedMax = v] : v \in Optional(Numbers)},
      {[SomeConfig EXCEPT !.maxActiveRuns = v] : v \in Optional(Numbers)},
      {[SomeConfig EXCEPT !.gpuWait = v, !.pending = w] : v, w \in Optional({"null", "zero", "one"})},
      {[SomeConfig EXCEPT !.taskType = v] : v \in Optional({"known", "unknown"})},
      {[SomeConfig EXCEPT !.gpuStagesKey = FALSE]},
      {[SomeConfig EXCEPT !.stages = v] :
         v \in {<<>>, <<<<>>>>, <<<<"train">>, <<"eval">>>>, <<<<"train">>, <<"train">>>>,
                <<<<"train", "train">>>>, <<<<"no name">>>>, <<<<"train">>, <<"lost">>>>}},
      {[SomeConfig EXCEPT !.datasets = v] :
         v \in {<<>>, <<SomeDataset, SomeDataset>>} \cup {<<OtherDataset, ds>> : ds \in Datasets}}}
ConfigsOfGpus ==
    {[SomeConfig EXCEPT !.gpuStages = g, !.gpuIds = i, !.memory = m, !.exclusiveStages = e] :
       g \in SUBSET {"train", "eval"}, i \in {"absent", "empty", "text", "list"},
       m \in Optional(Memories), e \in Optional({{}, {"train"}, {"eval"}, {"precheck"}})}

ConfigsTried == ConfigsOfOneValue \cup ConfigsOfGpus

E == INSTANCE EventStream

-----------------------------------------------------------------------------
ServicesInit ==
    /\ part \in {"index", "config", "stream"}
    /\ Init
    /\ ConfigInit
    /\ E!Init
    /\ source = "old"
    /\ part # "config" => given = SomeConfig

ServicesNext ==
    \/ part = "index" /\ Next /\ UNCHANGED <<part, configVars, streamVars>>
    \/ part = "config" /\ ConfigNext /\ UNCHANGED <<part, vars, streamVars>>
    \/ part = "stream" /\ E!Next /\ UNCHANGED <<part, vars, configVars>>

ServicesSpec ==
    /\ ServicesInit /\ [][ServicesNext]_<<part, vars, configVars, streamVars>>
    /\ Fairness /\ E!Fairness

ServicesTypeOK == TypeOK /\ ConfigTypeOK /\ E!TypeOK
StreamTellsTheEnd == E!StreamTellsTheEnd
=============================================================================
