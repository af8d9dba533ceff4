------------------------ MODULE KnowledgeIndexProofs ------------------------
(***************************************************************************)
(* A search ranks each chunk by the vector of that chunk, and answers from *)
(* the sources as they are, for any number of services, threads, versions, *)
(* chunks, edits, builds and faults.                                       *)
(*                                                                         *)
(* The first inductive invariant: wherever vectors are kept, in the sidecar, by  *)
(* a worker, in the cache of a service, each is of its own chunk (Own),    *)
(* and they are whole where the file says complete (SidecarIsSound) and    *)
(* where a worker takes them for whole (Holds), but for the exempt races.  *)
(* The second one (CInv) says where a label of the sources may be trusted. *)
(***************************************************************************)
EXTENDS KnowledgeIndex, TLAPS

Own(vectors) == \A c \in DOMAIN vectors : vectors[c] = c
Whole(r) == DOMAIN r.vectors = ChunksOf[r.content]

(* What a worker holds.                                                     *)
Holds(r) ==
    /\ Own(r.vectors)
    /\ r.pc \in {"write", "fresh", "vectors", "dense", "embed"} => r.content \in Versions
    /\ r.pc = "store" /\ ~r.build => r.content \in Versions
    /\ r.pc = "embed" => DOMAIN r.vectors \subseteq ChunksOf[r.content]
    /\ r.pc \in {"store", "query", "done"} /\ ~r.build /\ ~r.raced => Whole(r)

SidecarIsSound(file) == Own(file.vectors) /\ (file.complete => DOMAIN file.vectors = file.expected)

RetrieverIsSound(r) ==
    r # NoRetriever => r.content \in Versions /\ Own(r.vectors) /\ (~r.raced => Whole(r))

IInv ==
    /\ TypeOK
    /\ \A w \in Workers : Holds(worker[w])
    /\ \A w \in Workers : worker[w].pc \in {"check", "chunks"} => index.content \in Versions
    /\ SidecarIsSound(sidecar)
    /\ \A s \in Services : RetrieverIsSound(cache[s].retriever)

-----------------------------------------------------------------------------
LEMMA NoVectorsType == NoVectors \in Vectors /\ Own(NoVectors)
<1>1. NoVectors \in [{} -> Chunks] /\ {} \in SUBSET Chunks
  BY DEF NoVectors
<1> QED BY <1>1 DEF Vectors, Own, NoVectors

LEMMA VectorsType ==
  ASSUME NEW v \in Vectors
  PROVE  /\ DOMAIN v \subseteq Chunks /\ v \in [DOMAIN v -> Chunks]
BY DEF Vectors

LEMMA IdleType == IdleWorker \in Worker /\ Holds(IdleWorker)
<1>1. 1 \in 1..Attempts
  BY KnowledgeIndexAssumption
<1> QED BY <1>1, NoVectorsType DEF IdleWorker, Worker, Holds, OrNone

LEMMA NoRetrieverType == NoRetriever \in Retriever
BY NoVectorsType DEF NoRetriever, Retriever, OrNone

CacheType == [Services -> [retriever: Retriever, label: OrNone]]
CountsType == [edits: 0..MaxEdits, builds: 0..MaxBuilds, faults: 0..MaxFaults]

LEMMA InitIInv == Init => IInv
<1> SUFFICES ASSUME Init PROVE IInv
  OBVIOUS
<1>1. index \in Index /\ sidecar \in Sidecar
  BY NoVectorsType DEF Init, Index, Sidecar, OrNone
<1>2. counts \in CountsType
  BY KnowledgeIndexAssumption DEF Init, CountsType
<1>3. cache \in CacheType
  BY NoRetrieverType DEF Init, CacheType, OrNone
<1>4. \A w \in Workers : worker[w] = IdleWorker
  BY DEF Init
<1>5. worker \in [Workers -> Worker]
  BY IdleType DEF Init
<1>6. \A w \in Workers : worker[w].pc = "idle" /\ w # NoWorker
  BY <1>4, KnowledgeIndexAssumption DEF IdleWorker
<1>7. TypeOK
  BY <1>1, <1>2, <1>3, <1>5, <1>6 DEF TypeOK, Init, CacheType, CountsType
<1>8. SidecarIsSound(sidecar)
  BY NoVectorsType DEF Init, SidecarIsSound, NoVectors
<1>9. \A s \in Services : RetrieverIsSound(cache[s].retriever)
  BY DEF Init, RetrieverIsSound
<1> QED BY <1>4, <1>6, <1>7, <1>8, <1>9, IdleType DEF IInv

-----------------------------------------------------------------------------
(* A worker becomes r; it may enter or leave a section, and what is shared  *)
(* stays sound.                                                             *)
LEMMA WorkerKeeps ==
  ASSUME IInv, NEW w \in Workers, NEW r \in Worker, Become(w, r), Holds(r),
         source' \in Versions, index' \in Index, sidecar' \in Sidecar, SidecarIsSound(sidecar'),
         index.content \in Versions => index'.content \in Versions,
         r.pc \in {"check", "chunks"} => index'.content \in Versions,
         indexLock' \in {indexLock, w, NoWorker}, sidecarLock' \in {sidecarLock, w, NoWorker},
         indexLock' = w <=> r.pc \in {"load", "write"},
         sidecarLock' = w <=> r.pc = "embed",
         indexLock' # indexLock => indexLock \in {w, NoWorker},
         sidecarLock' # sidecarLock => sidecarLock \in {w, NoWorker},
         cache' \in CacheType, \A s \in Services : RetrieverIsSound(cache'[s].retriever),
         counts' \in CountsType, past' \subseteq Versions, quiet' \subseteq Workers
  PROVE  IInv'
<1>1. worker' \in [Workers -> Worker] /\ worker'[w] = r
  BY DEF IInv, TypeOK, Become
<1>2. \A v \in Workers \ {w} : worker'[v] = worker[v]
  BY DEF IInv, TypeOK, Become
<1>3. \A v \in Workers : v # NoWorker
  BY KnowledgeIndexAssumption
<1>4. \A v \in Workers : /\ indexLock' = v <=> worker'[v].pc \in {"load", "write"}
                         /\ sidecarLock' = v <=> worker'[v].pc = "embed"
  <2> SUFFICES ASSUME NEW v \in Workers
               PROVE  /\ indexLock' = v <=> worker'[v].pc \in {"load", "write"}
                      /\ sidecarLock' = v <=> worker'[v].pc = "embed"
    OBVIOUS
  <2>1. CASE v = w
    BY <2>1, <1>1
  <2>2. CASE v # w
    <3>1. worker'[v] = worker[v]
      BY <2>2, <1>2
    <3>2. indexLock' = v <=> indexLock = v
      BY <2>2, <1>3
    <3>3. sidecarLock' = v <=> sidecarLock = v
      BY <2>2, <1>3
    <3> QED BY <3>1, <3>2, <3>3 DEF IInv, TypeOK
  <2> QED BY <2>1, <2>2
<1>5. indexLock' \in Workers \cup {NoWorker} /\ sidecarLock' \in Workers \cup {NoWorker}
  BY DEF IInv, TypeOK
<1>6. TypeOK'
  BY <1>1, <1>4, <1>5 DEF TypeOK, CacheType, CountsType
<1>7. \A v \in Workers : Holds(worker'[v])
  BY <1>1, <1>2 DEF IInv
<1>8. \A v \in Workers : worker'[v].pc \in {"check", "chunks"} => index'.content \in Versions
  BY <1>1, <1>2 DEF IInv
<1> QED BY <1>6, <1>7, <1>8 DEF IInv

(* ... or it keeps the sections it is in, and nothing shared changes.       *)
LEMMA LocalKeeps ==
  ASSUME IInv, NEW w \in Workers, NEW r \in Worker, Become(w, r), Holds(r),
         worker[w].pc \in {"load", "write"} <=> r.pc \in {"load", "write"},
         worker[w].pc = "embed" <=> r.pc = "embed",
         r.pc \in {"check", "chunks"} => index.content \in Versions,
         UNCHANGED <<Files, locks, cache, past>>,
         counts' \in CountsType, quiet' \subseteq Workers
  PROVE  IInv'
<1>1. index' = index /\ sidecar' = sidecar /\ cache' = cache /\ source' = source /\ past' = past
      /\ indexLock' = indexLock /\ sidecarLock' = sidecarLock
  BY DEF Files, locks
<1>2. /\ source \in Versions /\ index \in Index /\ sidecar \in Sidecar /\ SidecarIsSound(sidecar)
      /\ cache \in CacheType /\ \A s \in Services : RetrieverIsSound(cache[s].retriever)
      /\ past \subseteq Versions
      /\ indexLock = w <=> worker[w].pc \in {"load", "write"}
      /\ sidecarLock = w <=> worker[w].pc = "embed"
  BY DEF IInv, TypeOK, CacheType
<1> QED BY <1>1, <1>2, WorkerKeeps

(* The worker before a step.                                                *)
LEMMA Before ==
  ASSUME IInv, NEW w \in Workers
  PROVE  /\ worker[w] \in Worker /\ Holds(worker[w])
         /\ counts \in CountsType /\ quiet \subseteq Workers
         /\ worker[w].pc \in {"check", "chunks"} => index.content \in Versions
BY DEF IInv, TypeOK, CountsType

(* A worker goes on to pc, with what it holds.                              *)
LEMMA GotoType ==
  ASSUME NEW r \in Worker, NEW pc \in Searching \cup {"idle", "done", "failed"}
  PROVE  /\ [r EXCEPT !.pc = pc] \in Worker
         /\ [r EXCEPT !.pc = pc].pc = pc
         /\ [r EXCEPT !.pc = pc].content = r.content
         /\ [r EXCEPT !.pc = pc].vectors = r.vectors
         /\ [r EXCEPT !.pc = pc].build = r.build
         /\ [r EXCEPT !.pc = pc].raced = r.raced
BY DEF Worker

LEMMA CountType ==
  ASSUME counts \in CountsType, NEW what \in {"edits", "builds", "faults"},
         NEW bound, bound = (CASE what = "edits" -> MaxEdits [] what = "builds" -> MaxBuilds
                               [] what = "faults" -> MaxFaults),
         Count(what, bound)
  PROVE  counts' \in CountsType
<1>1. CASE what = "edits"
  BY <1>1, KnowledgeIndexAssumption DEF Count, CountsType
<1>2. CASE what = "builds"
  BY <1>2, KnowledgeIndexAssumption DEF Count, CountsType
<1>3. CASE what = "faults"
  BY <1>3, KnowledgeIndexAssumption DEF Count, CountsType
<1> QED BY <1>1, <1>2, <1>3

LEMMA SearchKeeps ==
  ASSUME IInv, NEW w \in Workers, Search(w)
  PROVE  IInv'
<1> DEFINE r == [IdleWorker EXCEPT !.pc = "stats", !.label = source]
<1>1. r \in Worker /\ Holds(r) /\ r.pc = "stats"
  BY IdleType DEF IInv, TypeOK, Worker, Holds, OrNone, Searching, IdleWorker
<1>2. /\ Become(w, r) /\ worker[w].pc = "idle" /\ counts' = counts
      /\ UNCHANGED <<Files, locks, cache, past>>
  BY DEF Search, Start, At
<1>3. quiet' \subseteq Workers
  BY Before DEF Search, Start
<1> HIDE DEF r
<1> QED BY <1>1, <1>2, <1>3, Before, LocalKeeps

LEMMA BuildKeeps ==
  ASSUME IInv, NEW w \in Workers, NEW reset \in BOOLEAN, Build(w, reset)
  PROVE  IInv'
<1> DEFINE r == [IdleWorker EXCEPT !.pc = "lock", !.label = source, !.build = TRUE, !.reset = reset]
<1>1. r \in Worker /\ Holds(r) /\ r.pc = "lock"
  BY IdleType DEF IInv, TypeOK, Worker, Holds, OrNone, Searching, IdleWorker
<1>2. counts' \in CountsType
  BY Before, CountType DEF Build
<1>3. /\ Become(w, r) /\ worker[w].pc = "idle"
      /\ UNCHANGED <<Files, locks, cache, past>>
  BY DEF Build, Start, At
<1>4. quiet' \subseteq Workers
  BY Before DEF Build, Start
<1> HIDE DEF r
<1> QED BY <1>1, <1>2, <1>3, <1>4, LocalKeeps

(* A worker that only goes on.                                              *)
LEMMA GotoKeeps ==
  ASSUME IInv, NEW w \in Workers, NEW pc \in Searching \cup {"idle", "done", "failed"}, Goto(w, pc),
         worker[w].pc \in {"load", "write"} <=> pc \in {"load", "write"},
         worker[w].pc = "embed" <=> pc = "embed",
         pc \in {"check", "chunks"} => index.content \in Versions,
         Holds([worker[w] EXCEPT !.pc = pc]),
         UNCHANGED <<Files, locks, cache, counts, Ghosts>>
  PROVE  IInv'
<1> DEFINE r == [worker[w] EXCEPT !.pc = pc]
<1>1. r \in Worker /\ r.pc = pc /\ Become(w, r) /\ Holds(r)
  BY Before, GotoType DEF Goto
<1>2. counts' \in CountsType /\ quiet' \subseteq Workers /\ UNCHANGED <<Files, locks, cache, past>>
  BY Before DEF Ghosts
<1> HIDE DEF r
<1> QED BY <1>1, <1>2, LocalKeeps

LEMMA CheckStatsKeeps ==
  ASSUME IInv, NEW w \in Workers, CheckStats(w)
  PROVE  IInv'
<1> DEFINE pc == IF IsIndexed(worker[w].label) THEN "check" ELSE "lock"
<1>1. /\ pc \in {"check", "lock"} /\ Goto(w, pc) /\ worker[w].pc = "stats"
      /\ UNCHANGED <<Files, locks, cache, counts, Ghosts>>
  BY DEF CheckStats, At
<1>2. pc = "check" => index.content \in Versions
  BY DEF IsIndexed, IInv, TypeOK, Index, OrNone
<1> HIDE DEF pc
<1>3. Holds([worker[w] EXCEPT !.pc = pc])
  BY <1>1, Before, GotoType DEF Holds, Searching
<1> QED BY <1>1, <1>2, <1>3, GotoKeeps DEF Searching

LEMMA CheckCacheKeeps ==
  ASSUME IInv, NEW w \in Workers, CheckCache(w)
  PROVE  IInv'
<1> DEFINE pc == IF Cached(ServiceOf[w], worker[w].label) THEN "return" ELSE "chunks"
<1>1. /\ pc \in {"return", "chunks"} /\ Goto(w, pc) /\ worker[w].pc = "check"
      /\ UNCHANGED <<Files, locks, cache, counts, Ghosts>>
  BY DEF CheckCache, At
<1>2. index.content \in Versions
  BY <1>1, Before
<1> HIDE DEF pc
<1>3. Holds([worker[w] EXCEPT !.pc = pc])
  BY <1>1, Before, GotoType DEF Holds, Searching
<1> QED BY <1>1, <1>2, <1>3, GotoKeeps DEF Searching

LEMMA CheckFreshKeeps ==
  ASSUME IInv, NEW w \in Workers, CheckFresh(w)
  PROVE  IInv'
<1> DEFINE pc == IF IsFresh(w) THEN "vectors" ELSE "dense"
<1>1. /\ pc \in {"vectors", "dense"} /\ Goto(w, pc) /\ worker[w].pc = "fresh"
      /\ UNCHANGED <<Files, locks, cache, counts, Ghosts>>
  BY DEF CheckFresh, At
<1> HIDE DEF pc
<1>2. Holds([worker[w] EXCEPT !.pc = pc])
  BY <1>1, Before, GotoType DEF Holds, Searching
<1> QED BY <1>1, <1>2, GotoKeeps DEF Searching

LEMMA LockIndexKeeps ==
  ASSUME IInv, NEW w \in Workers, LockIndex(w)
  PROVE  IInv'
<1> DEFINE label == IF worker[w].build THEN worker[w].label ELSE source
           here == [worker[w] EXCEPT !.pc = IF worker[w].build THEN "chunks" ELSE "check", !.label = label]
           load == [worker[w] EXCEPT !.pc = "load", !.label = label]
<1>1. worker[w].pc = "lock" /\ indexLock = NoWorker
      /\ UNCHANGED <<Files, sidecarLock, cache, counts, Ghosts>>
  BY DEF LockIndex, At, Free
<1>2. label \in OrNone
  BY Before DEF IInv, TypeOK, OrNone, Worker
<1>3. CASE IsIndexed(label) /\ Become(w, here) /\ UNCHANGED indexLock
  <2>1. here \in Worker /\ here.pc \in {"chunks", "check"} /\ here.vectors = worker[w].vectors
    BY <1>2, Before DEF Worker, Searching
  <2>2. Holds(here)
    BY <2>1, Before DEF Holds
  <2>3. index.content \in Versions
    BY <1>3 DEF IsIndexed, IInv, TypeOK, Index, OrNone
  <2>4. counts' \in CountsType /\ quiet' \subseteq Workers /\ UNCHANGED <<Files, locks, cache, past>>
    BY <1>1, <1>3, Before DEF Ghosts, locks
  <2> HIDE DEF here
  <2> QED BY <1>1, <1>3, <2>1, <2>2, <2>3, <2>4, LocalKeeps
<1>4. CASE Become(w, load) /\ indexLock' = w
  <2>1. load \in Worker /\ load.pc = "load" /\ load.vectors = worker[w].vectors
    BY <1>2, Before DEF Worker, Searching
  <2>2. Holds(load)
    BY <2>1, Before DEF Holds
  <2>3. /\ source' \in Versions /\ index' = index /\ index' \in Index
        /\ sidecar' \in Sidecar /\ SidecarIsSound(sidecar')
        /\ cache' \in CacheType /\ \A s \in Services : RetrieverIsSound(cache'[s].retriever)
        /\ counts' \in CountsType /\ past' \subseteq Versions /\ quiet' \subseteq Workers
        /\ sidecarLock' = sidecarLock /\ sidecarLock # w
    BY <1>1, Before DEF IInv, TypeOK, CacheType, Files, Ghosts
  <2> HIDE DEF load
  <2> QED BY <1>1, <1>4, <2>1, <2>2, <2>3, WorkerKeeps
<1> HIDE DEF here, load, label
<1> QED BY <1>3, <1>4 DEF LockIndex, here, load, label

(* What is shared before a step.                                            *)
LEMMA Shared ==
  ASSUME IInv
  PROVE  /\ source \in Versions /\ index \in Index /\ sidecar \in Sidecar /\ SidecarIsSound(sidecar)
         /\ cache \in CacheType /\ \A s \in Services : RetrieverIsSound(cache[s].retriever)
         /\ counts \in CountsType /\ past \subseteq Versions /\ quiet \subseteq Workers
BY DEF IInv, TypeOK, CacheType, CountsType

(* ... and of it what concerns a worker.                                    *)
LEMMA SharedOf ==
  ASSUME IInv, NEW w \in Workers
  PROVE  /\ indexLock = w <=> worker[w].pc \in {"load", "write"}
         /\ sidecarLock = w <=> worker[w].pc = "embed"
         /\ w # NoWorker /\ ServiceOf[w] \in Services
         /\ cache[ServiceOf[w]] \in [retriever: Retriever, label: OrNone]
         /\ RetrieverIsSound(cache[ServiceOf[w]].retriever)
<1>1. w # NoWorker /\ ServiceOf[w] \in Services
  BY KnowledgeIndexAssumption
<1>2. /\ indexLock = w <=> worker[w].pc \in {"load", "write"}
      /\ sidecarLock = w <=> worker[w].pc = "embed"
  BY DEF IInv, TypeOK
<1>3. /\ cache[ServiceOf[w]] \in [retriever: Retriever, label: OrNone]
      /\ RetrieverIsSound(cache[ServiceOf[w]].retriever)
  BY <1>1, Shared DEF CacheType
<1> QED BY <1>1, <1>2, <1>3

LEMMA LoadSourcesKeeps ==
  ASSUME IInv, NEW w \in Workers, LoadSources(w)
  PROVE  IInv'
<1> DEFINE r == [worker[w] EXCEPT !.pc = "write", !.content = source]
<1>1. /\ r \in Worker /\ r.pc = "write" /\ r.content \in Versions /\ r.vectors = worker[w].vectors
  BY Before, Shared DEF Worker, Searching, OrNone
<1>2. Holds(r)
  BY <1>1, Before DEF Holds
<1>3. /\ Become(w, r) /\ worker[w].pc = "load" /\ counts' = counts /\ quiet' = quiet
      /\ UNCHANGED <<Files, locks, cache, past>>
  BY DEF LoadSources, At, Ghosts
<1> HIDE DEF r
<1> QED BY <1>1, <1>2, <1>3, Before, LocalKeeps

LEMMA WriteIndexKeeps ==
  ASSUME IInv, NEW w \in Workers, WriteIndex(w)
  PROVE  IInv'
<1> DEFINE pc == IF worker[w].build THEN "chunks" ELSE "check"
           r == [worker[w] EXCEPT !.pc = pc]
<1>1. /\ pc \in {"chunks", "check"} /\ Become(w, r) /\ worker[w].pc = "write"
      /\ index' = [label |-> worker[w].label, content |-> worker[w].content]
      /\ indexLock' = NoWorker
      /\ UNCHANGED <<source, sidecar, sidecarLock, cache, counts, Ghosts>>
  BY DEF WriteIndex, At, Goto
<1> HIDE DEF pc
<1>0. pc \in Searching \cup {"idle", "done", "failed"}
  BY <1>1 DEF Searching
<1>2. /\ r \in Worker /\ r.pc = pc /\ r.content = worker[w].content /\ r.vectors = worker[w].vectors
  BY <1>0, Before, GotoType
<1>3. Holds(r)
  BY <1>1, <1>2, Before DEF Holds
<1>4. worker[w].content \in Versions
  BY <1>1, Before DEF Holds
<1>5. index' \in Index /\ index'.content \in Versions
  BY <1>1, <1>4, Before DEF Index, OrNone, Worker
<1>6. indexLock = w /\ sidecarLock # w /\ w # NoWorker
  BY <1>1, SharedOf
<1>7. /\ sidecar' = sidecar /\ cache' = cache /\ counts' = counts /\ source' = source
      /\ past' = past /\ quiet' = quiet /\ sidecarLock' = sidecarLock
  BY <1>1 DEF Ghosts
<1> HIDE DEF r
<1> QED BY <1>1, <1>2, <1>3, <1>5, <1>6, <1>7, Shared, WorkerKeeps

LEMMA LoadChunksKeeps ==
  ASSUME IInv, NEW w \in Workers, LoadChunks(w)
  PROVE  IInv'
<1> DEFINE pc == IF worker[w].reset THEN "dense" ELSE "fresh"
           r == [worker[w] EXCEPT !.pc = pc, !.content = index.content]
<1>1. /\ pc \in {"dense", "fresh"} /\ Become(w, r) /\ worker[w].pc = "chunks"
      /\ counts' = counts /\ quiet' = quiet /\ UNCHANGED <<Files, locks, cache, past>>
  BY DEF LoadChunks, At, Ghosts
<1>2. index.content \in Versions
  BY <1>1, Before
<1> HIDE DEF pc
<1>3. /\ r \in Worker /\ r.pc = pc /\ r.content \in Versions /\ r.vectors = worker[w].vectors
  BY <1>1, <1>2, Before DEF Worker, Searching, OrNone
<1>4. Holds(r)
  BY <1>1, <1>3, Before DEF Holds
<1> HIDE DEF r
<1> QED BY <1>1, <1>3, <1>4, Before, LocalKeeps

(* A worker goes on and the cache of its service changes.                   *)
LEMMA CacheKeeps ==
  ASSUME IInv, NEW w \in Workers, NEW pc \in {"store", "label", "return", "done"}, Goto(w, pc),
         worker[w].pc \in {"store", "label"}, Holds([worker[w] EXCEPT !.pc = pc]),
         NEW r \in Retriever, RetrieverIsSound(r), NEW label \in OrNone,
         cache' = [cache EXCEPT ![ServiceOf[w]] = [retriever |-> r, label |-> label]],
         UNCHANGED <<Files, locks, counts, Ghosts>>
  PROVE  IInv'
<1> DEFINE x == [worker[w] EXCEPT !.pc = pc]
<1>0. pc \in Searching \cup {"idle", "done", "failed"}
  BY DEF Searching
<1>1. x \in Worker /\ x.pc = pc /\ Become(w, x) /\ Holds(x)
  BY <1>0, Before, GotoType DEF Goto
<1>2. cache' \in CacheType /\ \A s \in Services : RetrieverIsSound(cache'[s].retriever)
  BY Shared DEF CacheType
<1>3. indexLock # w /\ sidecarLock # w /\ w # NoWorker
  BY SharedOf
<1>4. /\ index' = index /\ sidecar' = sidecar /\ counts' = counts /\ source' = source
      /\ past' = past /\ quiet' = quiet /\ sidecarLock' = sidecarLock /\ indexLock' = indexLock
  BY DEF Ghosts, Files, locks
<1> HIDE DEF x
<1> QED BY <1>1, <1>2, <1>3, <1>4, Shared, WorkerKeeps

LEMMA StoreRetrieverKeeps ==
  ASSUME IInv, NEW w \in Workers, StoreRetriever(w)
  PROVE  IInv'
<1> DEFINE r == IF worker[w].build THEN NoRetriever
                ELSE [label |-> worker[w].label, content |-> worker[w].content,
                      vectors |-> worker[w].vectors, raced |-> worker[w].raced]
           pc == IF worker[w].build THEN "done" ELSE "label"
           label == cache[ServiceOf[w]].label
<1>1. /\ pc \in {"done", "label"} /\ Goto(w, pc) /\ worker[w].pc = "store"
      /\ cache' = [cache EXCEPT ![ServiceOf[w]] = [retriever |-> r, label |-> label]]
      /\ UNCHANGED <<Files, locks, counts, Ghosts>>
  BY Shared DEF StoreRetriever, At, CacheType
<1>2. r \in Retriever
  BY Before, NoRetrieverType DEF Worker, Retriever
<1>3. RetrieverIsSound(r)
  <2>1. CASE worker[w].build
    BY <2>1 DEF RetrieverIsSound
  <2>2. CASE ~worker[w].build
    BY <2>2, <1>1, Before DEF RetrieverIsSound, Holds, Whole
  <2> QED BY <2>1, <2>2
<1>4. pc = "done" => worker[w].build
  OBVIOUS
<1>5. label \in OrNone
  BY SharedOf
<1> HIDE DEF r, pc, label
<1>7. pc \in Searching \cup {"idle", "done", "failed"}
  BY <1>1 DEF Searching
<1>6. Holds([worker[w] EXCEPT !.pc = pc])
  BY <1>1, <1>4, <1>7, Before, GotoType DEF Holds
<1> QED BY <1>1, <1>2, <1>3, <1>5, <1>6, CacheKeeps

LEMMA StoreLabelKeeps ==
  ASSUME IInv, NEW w \in Workers, StoreLabel(w)
  PROVE  IInv'
<1> DEFINE r == cache[ServiceOf[w]].retriever
           pc == IF worker[w].build THEN "store" ELSE "return"
           label == IF worker[w].build THEN NoVersion ELSE worker[w].label
<1>1. /\ pc \in {"store", "return"} /\ Goto(w, pc) /\ worker[w].pc = "label"
      /\ cache' = [cache EXCEPT ![ServiceOf[w]] = [retriever |-> r, label |-> label]]
      /\ UNCHANGED <<Files, locks, counts, Ghosts>>
  BY Shared DEF StoreLabel, At, CacheType
<1>2. r \in Retriever /\ RetrieverIsSound(r)
  BY SharedOf
<1>3. pc = "store" => worker[w].build
  OBVIOUS
<1>4. label \in OrNone
  BY Before DEF Worker, OrNone
<1> HIDE DEF r, pc, label
<1>6. pc \in Searching \cup {"idle", "done", "failed"}
  BY <1>1 DEF Searching
<1>5. Holds([worker[w] EXCEPT !.pc = pc])
  BY <1>1, <1>3, <1>6, Before, GotoType DEF Holds
<1> QED BY <1>1, <1>2, <1>4, <1>5, CacheKeeps

LEMMA ReturnRetrieverKeeps ==
  ASSUME IInv, NEW w \in Workers, ReturnRetriever(w)
  PROVE  IInv'
<1> DEFINE r == cache[ServiceOf[w]].retriever
           failed == [worker[w] EXCEPT !.pc = "failed"]
           pc == IF ChunksOf[r.content] = {} THEN "done" ELSE "query"
           x == [worker[w] EXCEPT !.pc = pc, !.content = r.content, !.vectors = r.vectors,
                                  !.raced = r.raced]
<1>1. /\ worker[w].pc = "return"
      /\ UNCHANGED <<Files, locks, cache, counts, Ghosts>>
  BY DEF ReturnRetriever, At
<1>2. CASE r = NoRetriever
  <2>1. Goto(w, "failed")
    BY <1>2 DEF ReturnRetriever, Goto
  <2>2. Holds([worker[w] EXCEPT !.pc = "failed"])
    BY Before, GotoType DEF Holds
  <2> QED BY <1>1, <2>1, <2>2, GotoKeeps
<1>3. CASE r # NoRetriever
  <2>1. Become(w, x)
    BY <1>3 DEF ReturnRetriever
  <2>2. r \in Retriever /\ RetrieverIsSound(r)
    BY SharedOf
  <2>3. pc \in {"done", "query"}
    OBVIOUS
  <2> HIDE DEF r, pc
  <2>4. /\ x \in Worker /\ x.pc = pc /\ x.content = r.content /\ x.vectors = r.vectors
        /\ x.raced = r.raced
    BY <2>2, <2>3, Before DEF Worker, Retriever, Searching
  <2>5. Holds(x)
    BY <2>2, <2>3, <2>4, <1>3 DEF Holds, RetrieverIsSound, Whole
  <2>6. counts' \in CountsType /\ quiet' \subseteq Workers /\ UNCHANGED <<Files, locks, cache, past>>
    BY <1>1, Before DEF Ghosts
  <2> HIDE DEF x
  <2> QED BY <1>1, <2>1, <2>3, <2>4, <2>5, <2>6, LocalKeeps
<1> QED BY <1>2, <1>3

LEMMA LoadVectorsKeeps ==
  ASSUME IInv, NEW w \in Workers, LoadVectors(w)
  PROVE  IInv'
<1> DEFINE pc == Indexed(w)
           raced == sidecar.label # worker[w].label \/ sidecar.expected # Ids(w) \/ ~sidecar.complete
           r == [worker[w] EXCEPT !.pc = pc, !.vectors = sidecar.vectors, !.raced = raced]
<1>1. /\ Become(w, r) /\ worker[w].pc = "vectors" /\ counts' = counts /\ quiet' = quiet
      /\ UNCHANGED <<Files, locks, cache, past>>
  BY DEF LoadVectors, At, Ghosts
<1>2. pc \in {"label", "store"}
  BY DEF Indexed
<1>3. ~raced => DOMAIN sidecar.vectors = ChunksOf[worker[w].content]
  BY Shared DEF SidecarIsSound, Ids
<1>4. raced \in BOOLEAN
  OBVIOUS
<1>5. Own(sidecar.vectors) /\ sidecar.vectors \in Vectors
  BY Shared DEF SidecarIsSound, Sidecar
<1>6. worker[w].content \in Versions
  BY <1>1, Before DEF Holds
<1> HIDE DEF pc, raced
<1>7. /\ r \in Worker /\ r.pc = pc /\ r.content = worker[w].content /\ r.vectors = sidecar.vectors
      /\ r.raced = raced
  BY <1>2, <1>4, <1>5, Before DEF Worker, Searching
<1>8. Holds(r)
  BY <1>2, <1>3, <1>5, <1>6, <1>7 DEF Holds, Whole
<1> HIDE DEF r
<1> QED BY <1>1, <1>2, <1>7, <1>8, Before, LocalKeeps

(* A failed attempt is repeated, or its error is raised.                    *)
LEMMA AttemptFailsType ==
  ASSUME IInv, NEW w \in Workers, NEW raised, AttemptFails(w, raised)
  PROVE  /\ counts' \in CountsType
         /\ \/ Become(w, raised)
            \/ \E n \in 1..Attempts : Become(w, [worker[w] EXCEPT !.attempt = n])
<1>1. counts' \in CountsType
  BY Before, CountType DEF AttemptFails
<1>2. PICK f \in Failures :
         Become(w, IF Retryable(f) /\ worker[w].attempt < Attempts
                   THEN [worker[w] EXCEPT !.attempt = worker[w].attempt + 1] ELSE raised)
  BY DEF AttemptFails
<1>3. CASE Retryable(f) /\ worker[w].attempt < Attempts
  <2>1. worker[w].attempt + 1 \in 1..Attempts
    BY <1>3, Before, KnowledgeIndexAssumption DEF Worker
  <2> QED BY <1>1, <1>2, <1>3, <2>1
<1>4. CASE ~(Retryable(f) /\ worker[w].attempt < Attempts)
  BY <1>1, <1>2, <1>4
<1> QED BY <1>3, <1>4

LEMMA AttemptType ==
  ASSUME NEW r \in Worker, NEW n \in 1..Attempts
  PROVE  /\ [r EXCEPT !.attempt = n] \in Worker
         /\ [r EXCEPT !.attempt = n].pc = r.pc
         /\ [r EXCEPT !.attempt = n].vectors = r.vectors
         /\ Holds(r) => Holds([r EXCEPT !.attempt = n])
BY DEF Worker, Holds, Whole

LEMMA EmbedQueryKeeps ==
  ASSUME IInv, NEW w \in Workers, EmbedQuery(w)
  PROVE  IInv'
<1> DEFINE done == [worker[w] EXCEPT !.pc = "done"]
           failed == [worker[w] EXCEPT !.pc = "failed"]
<1>1. /\ worker[w].pc = "query" /\ quiet' \subseteq Workers
      /\ UNCHANGED <<Files, locks, cache, past>>
  BY Before DEF EmbedQuery, At, Ghosts
<1>2. /\ done \in Worker /\ done.pc = "done" /\ done.vectors = worker[w].vectors
      /\ done.content = worker[w].content /\ done.build = worker[w].build
      /\ done.raced = worker[w].raced
  BY Before, GotoType
<1>3. /\ failed \in Worker /\ failed.pc = "failed" /\ failed.vectors = worker[w].vectors
  BY Before, GotoType
<1>4. Holds(done) /\ Holds(failed)
  BY <1>1, <1>2, <1>3, Before DEF Holds, Whole
<1>5. CASE Goto(w, "done") /\ UNCHANGED counts
  <2>1. Become(w, done) /\ counts' \in CountsType
    BY <1>5, Before DEF Goto
  <2> HIDE DEF done
  <2> QED BY <1>1, <1>2, <1>4, <2>1, LocalKeeps
<1>6. CASE AttemptFails(w, failed)
  <2> HIDE DEF failed
  <2>1. counts' \in CountsType
    BY <1>6, AttemptFailsType
  <2>2. CASE Become(w, failed)
    BY <1>1, <1>3, <1>4, <2>1, <2>2, LocalKeeps
  <2>3. CASE \E n \in 1..Attempts : Become(w, [worker[w] EXCEPT !.attempt = n])
    <3>1. PICK n \in 1..Attempts : Become(w, [worker[w] EXCEPT !.attempt = n])
      BY <2>3
    <3> DEFINE again == [worker[w] EXCEPT !.attempt = n]
    <3>2. again \in Worker /\ again.pc = "query" /\ Holds(again) /\ Become(w, again)
      BY <1>1, <3>1, Before, AttemptType
    <3> HIDE DEF again
    <3> QED BY <1>1, <2>1, <3>2, LocalKeeps
  <2> QED BY <1>6, <2>2, <2>3, AttemptFailsType
<1> QED BY <1>5, <1>6 DEF EmbedQuery

-----------------------------------------------------------------------------
(* A checkpoint is sound where its vectors are.                             *)
LEMMA CheckpointType ==
  ASSUME IInv, NEW w \in Workers, worker[w].content \in Versions,
         NEW v \in Vectors, Own(v), NEW complete \in BOOLEAN, complete => DOMAIN v = Ids(w),
         Checkpoint(w, v, complete)
  PROVE  sidecar' \in Sidecar /\ SidecarIsSound(sidecar')
<1>1. Ids(w) \in SUBSET Chunks
  BY KnowledgeIndexAssumption DEF Ids
<1>2. worker[w].label \in OrNone
  BY Before DEF Worker
<1> QED BY <1>1, <1>2 DEF Checkpoint, Sidecar, SidecarIsSound

(* A worker that replaces the sidecar, in the section or entering it.       *)
LEMMA SidecarKeeps ==
  ASSUME IInv, NEW w \in Workers, NEW r \in Worker, Become(w, r), Holds(r),
         worker[w].pc = "embed" \/ (worker[w].pc = "dense" /\ sidecarLock = NoWorker),
         r.pc \in {"label", "store", "embed", "failed"},
         sidecar' \in Sidecar, SidecarIsSound(sidecar'),
         sidecarLock' = IF r.pc = "embed" THEN w ELSE NoWorker,
         UNCHANGED <<source, index, indexLock, cache, Ghosts>>, counts' \in CountsType
  PROVE  IInv'
<1>1. /\ index' = index /\ source' = source /\ cache' = cache /\ indexLock' = indexLock
      /\ past' = past /\ quiet' = quiet
  BY DEF Ghosts
<1>2. indexLock # w /\ w # NoWorker /\ sidecarLock \in {w, NoWorker}
  BY SharedOf
<1>3. sidecarLock' = w <=> r.pc = "embed"
  BY <1>2
<1>4. r.pc \notin {"check", "chunks", "load", "write"}
  OBVIOUS
<1>5. sidecarLock' \in {sidecarLock, w, NoWorker}
  OBVIOUS
<1> QED BY <1>1, <1>2, <1>3, <1>4, <1>5, Shared, WorkerKeeps

(* What is kept of the sidecar is of the chunks of the worker.              *)
LEMMA KeptType ==
  ASSUME IInv, NEW w \in Workers
  PROVE  Kept(w) \in Vectors /\ Own(Kept(w)) /\ DOMAIN Kept(w) \subseteq Ids(w)
<1>1. CASE worker[w].reset
  <2>1. Kept(w) = NoVectors /\ DOMAIN NoVectors = {}
    BY <1>1 DEF Kept, NoVectors
  <2> QED BY <2>1, NoVectorsType
<1>2. CASE ~worker[w].reset
  <2> DEFINE D == Ids(w) \cap DOMAIN sidecar.vectors
             kept == [c \in D |-> sidecar.vectors[c]]
  <2>1. sidecar.vectors \in Vectors /\ Own(sidecar.vectors)
    BY Shared DEF Sidecar, SidecarIsSound
  <2>2. D \in SUBSET Chunks /\ \A c \in D : sidecar.vectors[c] = c /\ c \in Chunks
    BY <2>1, VectorsType DEF Own
  <2>3. kept \in [D -> Chunks]
    BY <2>2
  <2>4. kept \in Vectors
    BY <2>2, <2>3 DEF Vectors
  <2>5. Own(kept) /\ DOMAIN kept \subseteq Ids(w)
    BY <2>2 DEF Own
  <2>6. Kept(w) = kept
    BY <1>2 DEF Kept
  <2> HIDE DEF kept
  <2> QED BY <2>4, <2>5, <2>6
<1> QED BY <1>1, <1>2

LEMMA LockSidecarKeeps ==
  ASSUME IInv, NEW w \in Workers, LockSidecar(w)
  PROVE  IInv'
<1> DEFINE kept == Kept(w)
           whole == DOMAIN kept = Ids(w)
           found == [worker[w] EXCEPT !.pc = Indexed(w), !.vectors = sidecar.vectors]
           pc == IF whole THEN Indexed(w) ELSE "embed"
           r == [worker[w] EXCEPT !.pc = pc, !.vectors = kept]
<1>1. /\ worker[w].pc = "dense" /\ sidecarLock = NoWorker /\ counts' \in CountsType
      /\ UNCHANGED <<source, index, indexLock, cache, Ghosts>>
  BY Before DEF LockSidecar, At, Free
<1>2. worker[w].content \in Versions
  BY <1>1, Before DEF Holds
<1>3. Indexed(w) \in {"label", "store"}
  BY DEF Indexed
<1>6. worker[w] \in Worker
  BY Before
<1>4. CASE IsFresh(w) /\ ~worker[w].reset
  <2>1. Become(w, found) /\ UNCHANGED <<sidecar, sidecarLock>>
    BY <1>4 DEF LockSidecar
  <2>2. sidecar.vectors \in Vectors /\ Own(sidecar.vectors)
    BY Shared DEF Sidecar, SidecarIsSound
  <2>3. Indexed(w) \in Searching
    BY <1>3 DEF Searching
  <2>4. /\ found \in Worker /\ found.pc = Indexed(w) /\ found.vectors = sidecar.vectors
        /\ found.content = worker[w].content
    BY <1>6, <2>2, <2>3 DEF Worker
  <2>5. DOMAIN sidecar.vectors = ChunksOf[worker[w].content]
    BY <1>4 DEF IsFresh, Ids
  <2> HIDE DEF found
  <2>6. Holds(found)
    BY <1>2, <1>3, <2>2, <2>4, <2>5 DEF Holds, Whole
  <2>7. sidecar' \in Sidecar /\ SidecarIsSound(sidecar') /\ sidecarLock' = NoWorker
    BY <1>1, <2>1, Shared
  <2> QED BY <1>1, <1>3, <2>1, <2>4, <2>6, <2>7, SidecarKeeps
<1>5. CASE ~(IsFresh(w) /\ ~worker[w].reset)
  <2>1. Checkpoint(w, kept, whole) /\ Become(w, r) /\ sidecarLock' = IF whole THEN NoWorker ELSE w
    BY <1>5 DEF LockSidecar
  <2>2. kept \in Vectors /\ Own(kept) /\ DOMAIN kept \subseteq Ids(w)
    BY KeptType
  <2> HIDE DEF kept
  <2>3. whole \in BOOLEAN /\ pc \in {"label", "store", "embed"} /\ (whole <=> pc # "embed")
    BY <1>3
  <2>4. whole => DOMAIN kept = Ids(w)
    OBVIOUS
  <2> HIDE DEF whole, pc
  <2>5. sidecar' \in Sidecar /\ SidecarIsSound(sidecar')
    BY <1>2, <2>1, <2>2, <2>3, <2>4, CheckpointType
  <2>6. pc \in Searching
    BY <2>3 DEF Searching
  <2>7. /\ r \in Worker /\ r.pc = pc /\ r.vectors = kept /\ r.content = worker[w].content
    BY <1>6, <2>2, <2>6 DEF Worker
  <2> HIDE DEF r
  <2>8. Holds(r)
    BY <1>2, <2>2, <2>3, <2>4, <2>7 DEF Holds, Whole, Ids
  <2>9. sidecarLock' = IF r.pc = "embed" THEN w ELSE NoWorker
    BY <2>1, <2>3, <2>7
  <2> QED BY <1>1, <2>1, <2>3, <2>5, <2>7, <2>8, <2>9, SidecarKeeps
<1> QED BY <1>4, <1>5

(* The vectors of a batch go to its chunks, whatever the order of the       *)
(* reply.                                                                   *)
LEMMA EmbeddedType ==
  ASSUME IInv, NEW w \in Workers, worker[w].content \in Versions,
         DOMAIN worker[w].vectors \subseteq Ids(w),
         NEW batch \in Batches(w), NEW reply \in Replies(batch)
  PROVE  LET v == Embedded(w, batch, Ordered(batch, reply))
         IN v \in Vectors /\ Own(v) /\ DOMAIN v \subseteq Ids(w)
<1> DEFINE old == worker[w].vectors
           D == DOMAIN old \cup {batch[i] : i \in DOMAIN batch}
           embedded == Ordered(batch, reply)
           v == Embedded(w, batch, embedded)
<1>1. PICK n \in 1..BatchSize : batch \in [1..n -> Missing(w)]
  BY DEF Batches
<1>2. \A i \in DOMAIN batch : batch[i] \in Ids(w)
  BY <1>1 DEF Missing
<1>3. Ids(w) \subseteq Chunks
  BY KnowledgeIndexAssumption DEF Ids
<1>4. \A c \in DOMAIN old : old[c] = c
  BY Before DEF Holds, Own
<1>5. \A i \in DOMAIN batch : embedded[i] = batch[i]
  <2> SUFFICES ASSUME NEW i \in DOMAIN batch PROVE embedded[i] = batch[i]
    OBVIOUS
  <2> DEFINE k == CHOOSE k \in DOMAIN batch : reply[k] = i
  <2>1. k \in DOMAIN batch /\ reply[k] = i
    BY DEF Replies
  <2>2. embedded[i] = batch[reply[k]]
    BY DEF Ordered
  <2> QED BY <2>1, <2>2
<1>6. /\ v = [c \in D |-> IF c \in DOMAIN old THEN old[c]
                          ELSE embedded[CHOOSE i \in DOMAIN batch : batch[i] = c]]
  BY DEF Embedded
<1> HIDE DEF embedded
<1>7. ASSUME NEW c \in D PROVE v[c] = c
  <2>1. CASE c \in DOMAIN old
    BY <2>1, <1>4, <1>6
  <2>2. CASE c \notin DOMAIN old
    <3> DEFINE i == CHOOSE i \in DOMAIN batch : batch[i] = c
    <3>1. i \in DOMAIN batch /\ batch[i] = c
      BY <2>2
    <3>2. v[c] = embedded[i]
      BY <2>2, <1>6
    <3> HIDE DEF i
    <3> QED BY <3>1, <3>2, <1>5
  <2> QED BY <2>1, <2>2
<1>8. DOMAIN v = D /\ D \subseteq Ids(w)
  BY <1>2, <1>6
<1>9. v \in Vectors
  <2>1. D \in SUBSET Chunks
    BY <1>3, <1>8
  <2>2. v \in [D -> Chunks]
    BY <1>6, <1>7, <2>1
  <2> HIDE DEF v, D
  <2> QED BY <2>1, <2>2 DEF Vectors
<1>10. Own(v)
  BY <1>7, <1>8 DEF Own
<1> QED BY <1>8, <1>9, <1>10 DEF embedded

LEMMA EmbedBatchKeeps ==
  ASSUME IInv, NEW w \in Workers, EmbedBatch(w)
  PROVE  IInv'
<1> DEFINE failed == [worker[w] EXCEPT !.pc = "failed"]
<1>1. /\ worker[w].pc = "embed" /\ UNCHANGED <<source, index, indexLock, cache, Ghosts>>
  BY DEF EmbedBatch, At
<1>2. /\ worker[w] \in Worker /\ Own(worker[w].vectors) /\ worker[w].content \in Versions
      /\ DOMAIN worker[w].vectors \subseteq Ids(w)
  BY <1>1, Before DEF Holds, Ids
<1>3. worker[w].vectors \in Vectors
  BY <1>2 DEF Worker
<1>4. ASSUME NEW batch \in Batches(w), NEW reply \in Replies(batch), NEW v,
             v = Embedded(w, batch, Ordered(batch, reply)),
             Become(w, [worker[w] EXCEPT !.vectors = v, !.attempt = 1]),
             Checkpoint(w, v, FALSE), UNCHANGED <<sidecarLock, counts>>
      PROVE  IInv'
  <2> DEFINE r == [worker[w] EXCEPT !.vectors = v, !.attempt = 1]
  <2>1. v \in Vectors /\ Own(v) /\ DOMAIN v \subseteq Ids(w)
    BY <1>2, <1>4, EmbeddedType
  <2>2. sidecar' \in Sidecar /\ SidecarIsSound(sidecar')
    BY <1>2, <1>4, <2>1, CheckpointType
  <2>3. 1 \in 1..Attempts
    BY KnowledgeIndexAssumption
  <2>4. /\ r \in Worker /\ r.pc = "embed" /\ r.vectors = v /\ r.content = worker[w].content
    BY <1>1, <1>2, <2>1, <2>3 DEF Worker
  <2> HIDE DEF r
  <2>5. Holds(r)
    BY <1>2, <2>1, <2>4 DEF Holds, Ids
  <2>6. counts' \in CountsType
    BY <1>4, Before
  <2>7. Become(w, r) /\ sidecarLock' = w
    BY <1>1, <1>4, SharedOf DEF r
  <2> QED BY <1>1, <2>2, <2>4, <2>5, <2>6, <2>7, SidecarKeeps
<1>5. CASE /\ AttemptFails(w, failed)
           /\ IF worker'[w].pc = "failed"
              THEN Checkpoint(w, worker[w].vectors, FALSE) /\ UnlockSidecar(w)
              ELSE UNCHANGED <<sidecar, sidecarLock>>
  <2>1. counts' \in CountsType
    BY <1>5, AttemptFailsType
  <2>2. failed \in Worker /\ failed.pc = "failed" /\ failed.vectors = worker[w].vectors
    BY <1>2 DEF Worker, Searching
  <2> HIDE DEF failed
  <2>3. CASE Become(w, failed)
    <3>1. worker'[w] = failed
      BY <2>3 DEF Become, IInv, TypeOK
    <3>2. Checkpoint(w, worker[w].vectors, FALSE) /\ sidecarLock' = NoWorker
      BY <1>5, <2>2, <3>1 DEF UnlockSidecar
    <3>3. sidecar' \in Sidecar /\ SidecarIsSound(sidecar')
      BY <1>2, <1>3, <3>2, CheckpointType
    <3>4. Holds(failed)
      BY <1>2, <2>2 DEF Holds
    <3> QED BY <1>1, <2>1, <2>2, <2>3, <3>2, <3>3, <3>4, SidecarKeeps
  <2>4. CASE \E n \in 1..Attempts : Become(w, [worker[w] EXCEPT !.attempt = n])
    <3>1. PICK n \in 1..Attempts : Become(w, [worker[w] EXCEPT !.attempt = n])
      BY <2>4
    <3> DEFINE again == [worker[w] EXCEPT !.attempt = n]
    <3>2. again \in Worker /\ again.pc = "embed" /\ Holds(again) /\ Become(w, again)
      BY <1>1, <3>1, Before, AttemptType
    <3> HIDE DEF again
    <3>3. worker'[w] = again
      BY <3>2 DEF Become, IInv, TypeOK
    <3>4. UNCHANGED <<Files, locks, cache, past>> /\ quiet' \subseteq Workers
      BY <1>1, <1>5, <3>2, <3>3, Before DEF Files, locks, Ghosts
    <3> QED BY <1>1, <2>1, <3>2, <3>4, LocalKeeps
  <2> QED BY <1>5, <2>3, <2>4, AttemptFailsType
<1> QED BY <1>4, <1>5 DEF EmbedBatch

LEMMA CompleteSidecarKeeps ==
  ASSUME IInv, NEW w \in Workers, CompleteSidecar(w)
  PROVE  IInv'
<1> DEFINE r == [worker[w] EXCEPT !.pc = Indexed(w)]
<1>1. /\ worker[w].pc = "embed" /\ Missing(w) = {} /\ Become(w, r)
      /\ Checkpoint(w, worker[w].vectors, TRUE) /\ sidecarLock' = NoWorker
      /\ UNCHANGED <<source, index, indexLock, cache, Ghosts>> /\ counts' \in CountsType
  BY Before DEF CompleteSidecar, At, Goto, UnlockSidecar
<1>2. /\ worker[w] \in Worker /\ Own(worker[w].vectors) /\ worker[w].content \in Versions
      /\ DOMAIN worker[w].vectors = Ids(w)
  BY <1>1, Before DEF Holds, Ids, Missing
<1>3. worker[w].vectors \in Vectors
  BY <1>2 DEF Worker
<1>4. sidecar' \in Sidecar /\ SidecarIsSound(sidecar')
  BY <1>1, <1>2, <1>3, CheckpointType
<1>5. Indexed(w) \in {"label", "store"} /\ Indexed(w) \in Searching
  BY DEF Indexed, Searching
<1>6. /\ r \in Worker /\ r.pc = Indexed(w) /\ r.vectors = worker[w].vectors
      /\ r.content = worker[w].content
  BY <1>2, <1>5 DEF Worker
<1> HIDE DEF r
<1>7. Holds(r)
  BY <1>2, <1>5, <1>6 DEF Holds, Whole, Ids
<1> QED BY <1>1, <1>4, <1>5, <1>6, <1>7, SidecarKeeps

LEMMA EndKeeps ==
  ASSUME IInv, NEW w \in Workers, End(w)
  PROVE  IInv'
<1>1. /\ Become(w, IdleWorker) /\ worker[w].pc \in {"done", "failed"}
      /\ UNCHANGED <<Files, locks, cache, past>> /\ counts' \in CountsType /\ quiet' \subseteq Workers
  BY Before DEF End, Ghosts
<1>2. IdleWorker.pc = "idle"
  BY DEF IdleWorker
<1> QED BY <1>1, <1>2, IdleType, LocalKeeps

-----------------------------------------------------------------------------
LEMMA EditSourcesKeeps ==
  ASSUME IInv, NEW v \in Versions, EditSources(v)
  PROVE  IInv'
<1>1. counts' \in CountsType
  BY Shared, CountType DEF EditSources
<1>2. /\ source' = v /\ past' = past \cup {source} /\ quiet' \subseteq quiet
      /\ UNCHANGED <<index, sidecar, indexLock, sidecarLock, cache, worker>>
  BY DEF EditSources, locks
<1>3. TypeOK'
  BY <1>1, <1>2 DEF IInv, TypeOK, CountsType
<1> QED BY <1>2, <1>3 DEF IInv

LEMMA DieKeeps ==
  ASSUME IInv, NEW s \in Services, Die(s)
  PROVE  IInv'
<1> DEFINE its == {w \in Workers : ServiceOf[w] = s}
<1>1. counts' \in CountsType
  BY Shared, CountType DEF Die
<1>2. /\ worker' = [w \in Workers |-> IF w \in its THEN IdleWorker ELSE worker[w]]
      /\ indexLock' = IF indexLock \in its THEN NoWorker ELSE indexLock
      /\ sidecarLock' = IF sidecarLock \in its THEN NoWorker ELSE sidecarLock
      /\ cache' = [cache EXCEPT ![s] = [retriever |-> NoRetriever, label |-> NoVersion]]
      /\ source' = source /\ index' = index /\ sidecar' = sidecar /\ past' = past /\ quiet' = quiet
  BY DEF Die, Files, Ghosts
<1>3. worker' \in [Workers -> Worker]
  BY <1>2, Before, IdleType
<1>4. cache' \in CacheType /\ \A t \in Services : RetrieverIsSound(cache'[t].retriever)
  BY <1>2, Shared, NoRetrieverType DEF CacheType, RetrieverIsSound, OrNone
<1>5. \A w \in Workers : /\ indexLock' = w <=> worker'[w].pc \in {"load", "write"}
                         /\ sidecarLock' = w <=> worker'[w].pc = "embed"
  <2> SUFFICES ASSUME NEW w \in Workers
               PROVE  /\ indexLock' = w <=> worker'[w].pc \in {"load", "write"}
                      /\ sidecarLock' = w <=> worker'[w].pc = "embed"
    OBVIOUS
  <2>1. w # NoWorker
    BY SharedOf
  <2>2. CASE w \in its
    <3>1. worker'[w].pc = "idle"
      BY <1>2, <2>2 DEF IdleWorker
    <3>2. indexLock' # w /\ sidecarLock' # w
      BY <1>2, <2>1, <2>2
    <3> QED BY <3>1, <3>2
  <2>3. CASE w \notin its
    <3>1. worker'[w] = worker[w]
      BY <1>2, <2>3
    <3>2. (indexLock' = w <=> indexLock = w) /\ (sidecarLock' = w <=> sidecarLock = w)
      BY <1>2, <2>1, <2>3
    <3> QED BY <3>1, <3>2, SharedOf
  <2> QED BY <2>2, <2>3
<1>6. indexLock' \in Workers \cup {NoWorker} /\ sidecarLock' \in Workers \cup {NoWorker}
  BY <1>2 DEF IInv, TypeOK
<1>7. TypeOK'
  BY <1>1, <1>2, <1>3, <1>4, <1>5, <1>6 DEF IInv, TypeOK, CacheType, CountsType
<1>8. \A w \in Workers : Holds(worker'[w])
  BY <1>2, Before, IdleType
<1>9. \A w \in Workers : worker'[w].pc \in {"check", "chunks"} => index'.content \in Versions
  BY <1>2, Before DEF IdleWorker
<1> QED BY <1>2, <1>4, <1>7, <1>8, <1>9 DEF IInv

-----------------------------------------------------------------------------
LEMMA WorkerStepKeeps ==
  ASSUME IInv, NEW w \in Workers, WorkerStep(w)
  PROVE  IInv'
BY CheckStatsKeeps, LockIndexKeeps, LoadSourcesKeeps, WriteIndexKeeps, CheckCacheKeeps,
   LoadChunksKeeps, StoreRetrieverKeeps, StoreLabelKeeps, ReturnRetrieverKeeps, CheckFreshKeeps,
   LoadVectorsKeeps, LockSidecarKeeps, EmbedBatchKeeps, CompleteSidecarKeeps, EmbedQueryKeeps
   DEF WorkerStep

LEMMA NextKeeps == IInv /\ [Next]_vars => IInv'
<1> SUFFICES ASSUME IInv, [Next]_vars PROVE IInv'
  OBVIOUS
<1>1. CASE \E v \in Versions : EditSources(v)
  BY <1>1, EditSourcesKeeps
<1>2. CASE \E w \in Workers : \/ Search(w) \/ WorkerStep(w) \/ End(w)
                              \/ \E reset \in BOOLEAN : Build(w, reset)
  BY <1>2, SearchKeeps, WorkerStepKeeps, EndKeeps, BuildKeeps
<1>3. CASE \E s \in Services : Die(s)
  BY <1>3, DieKeeps
<1>4. CASE UNCHANGED vars
  <2>1. /\ UNCHANGED <<source, index, sidecar, indexLock, sidecarLock, cache, worker, counts>>
        /\ UNCHANGED <<past, quiet>>
    BY <1>4 DEF vars, locks
  <2> QED BY <2>1 DEF IInv, TypeOK
<1> QED BY <1>1, <1>2, <1>3, <1>4 DEF Next

LEMMA IInvHolds == Spec => []IInv
<1> QED BY InitIInv, NextKeeps, PTL DEF Spec

(* Every file, cache and worker keeps its type, and a flock section has the *)
(* one worker that is in it.                                                *)
THEOREM KnowledgeTypeCorrect == Spec => []TypeOK
<1>1. IInv => TypeOK
  BY DEF IInv
<1> QED BY <1>1, IInvHolds, PTL

(* A search ranks each of its chunks by the vector of that chunk, but for   *)
(* the sidecar that was replaced between its check and its reading.         *)
THEOREM VectorsAreWhole == Spec => []DenseIsWhole
<1>1. ASSUME IInv PROVE DenseIsWhole
  <2> SUFFICES ASSUME NEW w \in Workers, At(w, "done"), ~worker[w].build, ~worker[w].raced
               PROVE  /\ DOMAIN worker[w].vectors = Ids(w)
                      /\ \A c \in Ids(w) : worker[w].vectors[c] = c
    BY DEF DenseIsWhole
  <2> QED BY <1>1, Before DEF At, Holds, Own, Whole, Ids
<1>2. IInv => DenseIsWhole
  BY <1>1
<1> QED BY <1>2, IInvHolds, PTL
-----------------------------------------------------------------------------
(* The second invariant, for what a search answers from.  A content that    *)
(* the sources have for the first time (source \notin past) was the label   *)
(* of nothing before they had it.                                           *)

Known(label) == label \in past \cup {source, NoVersion}

LabelsAreKnown ==
    /\ Known(index.label)
    /\ \A w \in Workers : Known(worker[w].label)
    /\ \A s \in Services : Known(cache[s].retriever.label)

(* From here on the index holds the sources, whoever writes it.             *)
IndexHolds ==
    index.content = source /\ \A w \in Workers : At(w, "write") => worker[w].content = source

Carrying == {"write", "fresh", "vectors", "dense", "embed", "store", "label"}

(* A worker under the label of the sources goes by an index that holds them,*)
(* and then carries them.                                                   *)
WorkerIsCurrent(r) ==
    r.label = source => /\ r.pc \in {"check", "chunks"} => IndexHolds
                        /\ r.pc \in Carrying => r.content = source

(* What is labelled with the sources was loaded from them.                  *)
FirstIsCurrent ==
    source \notin past =>
      /\ index.label = source => IndexHolds
      /\ \A w \in Workers : WorkerIsCurrent(worker[w])
      /\ \A s \in Services :
           cache[s].retriever.label = source => cache[s].retriever.content = source

(* A search that saw no edit has the label of the sources.                  *)
QuietIsCurrent(r) ==
    /\ r.pc # "idle" => r.label = source
    /\ source \notin past /\ r.pc \in {"query", "done"} /\ ~r.build => r.content = source

(* The retriever of the service is of the sources, if it has one.           *)
Ours(s) == cache[s].retriever = NoRetriever \/ cache[s].retriever.label = source

Calm(s) == \E w \in quiet : ServiceOf[w] = s /\ Active(w)

(* Where a quiet search runs, every thread of the service has the label of  *)
(* the sources, and those that will return or label the retriever find one  *)
(* of the sources.                                                          *)
CalmIsOurs(s) ==
    Calm(s) =>
      /\ cache[s].label = source => Ours(s)
      /\ \A w \in Workers : ServiceOf[w] = s /\ Active(w) =>
           /\ worker[w].label = source
           /\ worker[w].pc \in {"label", "return"} /\ ~worker[w].build => Ours(s)

CInv ==
    /\ LabelsAreKnown
    /\ FirstIsCurrent
    /\ \A w \in quiet : QuietIsCurrent(worker[w])
    /\ \A s \in Services : CalmIsOurs(s)

LEMMA InitCInv == Init => CInv
<1> SUFFICES ASSUME Init PROVE CInv
  OBVIOUS
<1>1. \A w \in Workers : worker[w] = IdleWorker
  BY DEF Init
<1>2. IdleWorker.label = NoVersion /\ IdleWorker.pc = "idle" /\ NoRetriever.label = NoVersion
  BY DEF IdleWorker, NoRetriever
<1>3. source \in Versions /\ source # NoVersion
  BY KnowledgeIndexAssumption DEF Init
<1>4. /\ index.label = NoVersion /\ quiet = {}
      /\ \A s \in Services : cache[s].retriever.label = NoVersion
  BY <1>2 DEF Init
<1>5. LabelsAreKnown
  BY <1>1, <1>2, <1>4 DEF LabelsAreKnown, Known
<1>6. FirstIsCurrent
  BY <1>1, <1>2, <1>3, <1>4 DEF FirstIsCurrent, WorkerIsCurrent
<1>7. \A s \in Services : CalmIsOurs(s)
  BY <1>4 DEF CalmIsOurs, Calm
<1> QED BY <1>4, <1>5, <1>6, <1>7 DEF CInv

(* The worker before a step, once more.                                     *)
LEMMA CurrentBefore ==
  ASSUME IInv, CInv, NEW w \in Workers
  PROVE  /\ Known(worker[w].label) /\ Known(index.label) /\ ServiceOf[w] \in Services
         /\ source \notin past => /\ WorkerIsCurrent(worker[w])
                                  /\ index.label = source => IndexHolds
         /\ w \in quiet => QuietIsCurrent(worker[w])
         /\ Active(w) /\ Calm(ServiceOf[w]) =>
              /\ worker[w].label = source
              /\ worker[w].pc \in {"label", "return"} /\ ~worker[w].build => Ours(ServiceOf[w])
         /\ source \in Versions /\ source # NoVersion
<1>1. ServiceOf[w] \in Services
  BY KnowledgeIndexAssumption
<1>2. source \in Versions /\ source # NoVersion
  BY KnowledgeIndexAssumption DEF IInv, TypeOK
<1> QED BY <1>1, <1>2 DEF CInv, LabelsAreKnown, FirstIsCurrent, CalmIsOurs

(* A worker that runs becomes r: what it takes with it, and what it leaves  *)
(* in the index and in the cache, is current.                               *)
LEMMA StepIsCurrent ==
  ASSUME IInv, CInv, NEW w \in Workers, NEW r \in Worker, Become(w, r),
         source' = source, past' = past, quiet' = quiet,
         Known(index'.label), IndexHolds => IndexHolds',
         source \notin past /\ index'.label = source => IndexHolds',
         Known(r.label),
         source \notin past /\ r.label = source =>
           /\ r.pc \in {"check", "chunks"} => IndexHolds'
           /\ r.pc \in Carrying => r.content = source,
         w \in quiet => QuietIsCurrent(r),
         r.pc \in Searching => Active(w),
         r.pc \in Searching /\ Calm(ServiceOf[w]) =>
           /\ r.label = source
           /\ r.pc \in {"label", "return"} /\ ~r.build => Ours(ServiceOf[w])',
         \A s \in Services : Known(cache'[s].retriever.label),
         \A s \in Services : source \notin past /\ cache'[s].retriever.label = source
                               => cache'[s].retriever.content = source,
         \A s \in Services : Calm(s) => /\ Ours(s) => Ours(s)'
                                        /\ cache'[s].label = source => Ours(s)'
  PROVE  CInv'
<1>1. worker'[w] = r /\ \A v \in Workers \ {w} : worker'[v] = worker[v]
  BY DEF IInv, TypeOK, Become
<1>2. \A label : Known(label) <=> Known(label)'
  BY DEF Known
<1>3. LabelsAreKnown'
  BY <1>1, <1>2 DEF CInv, LabelsAreKnown, Known
<1>4. FirstIsCurrent'
  <2> SUFFICES ASSUME source \notin past
               PROVE  /\ index'.label = source => IndexHolds'
                      /\ \A v \in Workers : WorkerIsCurrent(worker[v])'
                      /\ \A s \in Services : cache'[s].retriever.label = source
                                               => cache'[s].retriever.content = source
    BY DEF FirstIsCurrent
  <2>1. ASSUME NEW v \in Workers PROVE WorkerIsCurrent(worker[v])'
    <3>1. CASE v = w
      BY <1>1, <3>1 DEF WorkerIsCurrent
    <3>2. CASE v # w
      BY <1>1, <3>2 DEF CInv, FirstIsCurrent, WorkerIsCurrent
    <3> QED BY <3>1, <3>2
  <2> QED BY <2>1
<1>5. \A v \in quiet' : QuietIsCurrent(worker[v])'
  <2> SUFFICES ASSUME NEW v \in quiet PROVE QuietIsCurrent(worker[v])'
    OBVIOUS
  <2>1. v \in Workers
    BY DEF IInv, TypeOK
  <2>2. CASE v = w
    BY <1>1, <2>2 DEF QuietIsCurrent
  <2>3. CASE v # w
    BY <1>1, <2>1, <2>3 DEF CInv, QuietIsCurrent
  <2> QED BY <2>2, <2>3
<1>6. \A v \in Workers : Active(v)' => Active(v)
  BY <1>1 DEF Active
<1>7. ASSUME NEW s \in Services PROVE CalmIsOurs(s)'
  <2> SUFFICES ASSUME Calm(s)'
               PROVE  /\ cache'[s].label = source => Ours(s)'
                      /\ \A v \in Workers : ServiceOf[v] = s /\ Active(v)' =>
                           /\ worker'[v].label = source
                           /\ worker'[v].pc \in {"label", "return"} /\ ~worker'[v].build
                                => Ours(s)'
    BY DEF CalmIsOurs
  <2>1. Calm(s)
    BY <1>6 DEF Calm, IInv, TypeOK
  <2>2. ASSUME NEW v \in Workers, ServiceOf[v] = s, Active(v)'
        PROVE  /\ worker'[v].label = source
               /\ worker'[v].pc \in {"label", "return"} /\ ~worker'[v].build => Ours(s)'
    <3>1. CASE v = w
      BY <1>1, <2>1, <2>2, <3>1 DEF Active
    <3>2. CASE v # w
      BY <1>1, <1>6, <2>1, <2>2, <3>2 DEF CInv, CalmIsOurs
    <3> QED BY <3>1, <3>2
  <2> QED BY <2>1, <2>2
<1> QED BY <1>3, <1>4, <1>5, <1>7 DEF CInv

(* ... when the index and the cache stay.                                   *)
LEMMA LocalIsCurrent ==
  ASSUME IInv, CInv, NEW w \in Workers, NEW r \in Worker, Become(w, r),
         source' = source, past' = past, quiet' = quiet, index' = index, cache' = cache,
         Known(r.label), r.pc = "write" => r.content = source,
         source \notin past => WorkerIsCurrent(r),
         w \in quiet => QuietIsCurrent(r),
         r.pc \in Searching => Active(w),
         r.pc \in Searching /\ Calm(ServiceOf[w]) =>
           /\ r.label = source
           /\ r.pc \in {"label", "return"} /\ ~r.build => Ours(ServiceOf[w])
  PROVE  CInv'
<1>1. worker'[w] = r /\ \A v \in Workers \ {w} : worker'[v] = worker[v]
  BY DEF IInv, TypeOK, Become
<1>2. IndexHolds => IndexHolds'
  BY <1>1 DEF IndexHolds, At
<1>3. \A s : Ours(s)' <=> Ours(s)
  BY DEF Ours
<1>4. /\ Known(index.label)
      /\ source \notin past /\ index.label = source => IndexHolds
      /\ \A s \in Services : /\ Known(cache[s].retriever.label)
                             /\ source \notin past /\ cache[s].retriever.label = source
                                  => cache[s].retriever.content = source
                             /\ Calm(s) /\ cache[s].label = source => Ours(s)
  BY DEF CInv, LabelsAreKnown, FirstIsCurrent, CalmIsOurs
<1>5. Known(index'.label) /\ (source \notin past /\ index'.label = source => IndexHolds')
  BY <1>2, <1>4
<1>6. source \notin past /\ r.label = source =>
        /\ r.pc \in {"check", "chunks"} => IndexHolds'
        /\ r.pc \in Carrying => r.content = source
  BY <1>2 DEF WorkerIsCurrent
<1>7. \A s \in Services : /\ Known(cache'[s].retriever.label)
                          /\ source \notin past /\ cache'[s].retriever.label = source
                               => cache'[s].retriever.content = source
                          /\ Calm(s) => /\ Ours(s) => Ours(s)'
                                        /\ cache'[s].label = source => Ours(s)'
  BY <1>3, <1>4
<1>8. r.pc \in Searching /\ Calm(ServiceOf[w]) =>
        /\ r.label = source
        /\ r.pc \in {"label", "return"} /\ ~r.build => Ours(ServiceOf[w])'
  BY <1>3
<1> QED BY <1>2, <1>5, <1>6, <1>7, <1>8, StepIsCurrent

(* A worker goes on, with its label and what it took from the index.        *)
LEMMA CarryIsCurrent ==
  ASSUME IInv, CInv, NEW w \in Workers, NEW r \in Worker, Become(w, r),
         source' = source, past' = past, quiet' = quiet, index' = index, cache' = cache,
         worker[w].pc \in {"fresh", "vectors", "dense", "embed"},
         r.label = worker[w].label, r.content = worker[w].content, r.build = worker[w].build,
         \/ r.pc \in {"fresh", "vectors", "dense", "embed", "store", "failed"}
         \/ r.pc = "label" /\ r.build
  PROVE  CInv'
<1>1. Active(w)
  BY DEF Active, Searching
<1>2. source \notin past => WorkerIsCurrent(r)
  BY CurrentBefore DEF WorkerIsCurrent, Carrying
<1>3. w \in quiet => QuietIsCurrent(r)
  BY CurrentBefore DEF QuietIsCurrent
<1> QED BY <1>1, <1>2, <1>3, CurrentBefore, LocalIsCurrent

LEMMA CheckStatsIsCurrent ==
  ASSUME IInv, CInv, NEW w \in Workers, CheckStats(w)
  PROVE  CInv'
<1> DEFINE pc == IF IsIndexed(worker[w].label) THEN "check" ELSE "lock"
           r == [worker[w] EXCEPT !.pc = pc]
<1>1. /\ Become(w, r) /\ worker[w].pc = "stats" /\ pc \in {"check", "lock"}
      /\ pc = "check" => index.label = worker[w].label
      /\ source' = source /\ past' = past /\ quiet' = quiet /\ index' = index /\ cache' = cache
  BY DEF CheckStats, Goto, At, IsIndexed, Files, Ghosts
<1>2. pc \in Searching \cup {"idle", "done", "failed"}
  BY <1>1 DEF Searching
<1> HIDE DEF pc
<1>3. /\ r \in Worker /\ r.pc = pc /\ r.label = worker[w].label
  BY <1>2, Before, GotoType DEF Worker
<1> HIDE DEF r
<1>4. Active(w)
  BY <1>1 DEF Active, Searching
<1>5. source \notin past => WorkerIsCurrent(r)
  BY <1>1, <1>3, CurrentBefore DEF WorkerIsCurrent, Carrying
<1>6. w \in quiet => QuietIsCurrent(r)
  BY <1>1, <1>3, CurrentBefore DEF QuietIsCurrent
<1> QED BY <1>1, <1>3, <1>4, <1>5, <1>6, CurrentBefore, LocalIsCurrent

LEMMA LockIndexIsCurrent ==
  ASSUME IInv, CInv, NEW w \in Workers, LockIndex(w)
  PROVE  CInv'
<1> DEFINE label == IF worker[w].build THEN worker[w].label ELSE source
           r(pc) == [worker[w] EXCEPT !.pc = pc, !.label = label]
<1>1. /\ worker[w].pc = "lock" /\ source' = source /\ past' = past /\ quiet' = quiet
      /\ index' = index /\ cache' = cache
      /\ \E pc \in {"chunks", "check", "load"} :
           /\ Become(w, r(pc))
           /\ pc \in {"chunks", "check"} => index.label = label
  BY DEF LockIndex, At, IsIndexed, Files, Ghosts
<1>2. Known(label) /\ label \in OrNone /\ (w \in quiet => label = source)
      /\ (Calm(ServiceOf[w]) => label = source)
  BY <1>1, Before, CurrentBefore DEF Known, QuietIsCurrent, Active, Searching, Worker, OrNone
<1> HIDE DEF label
<1>3. PICK pc \in {"chunks", "check", "load"} :
        Become(w, r(pc)) /\ (pc \in {"chunks", "check"} => index.label = label)
  BY <1>1
<1> DEFINE q == r(pc)
<1>4. q \in Worker /\ q.pc = pc /\ q.label = label
  BY <1>2, Before DEF Worker, Searching
<1>5. Become(w, q)
  BY <1>3
<1> HIDE DEF q
<1>6. Active(w)
  BY <1>1 DEF Active, Searching
<1>7. source \notin past => WorkerIsCurrent(q)
  BY <1>3, <1>4, CurrentBefore DEF WorkerIsCurrent, Carrying
<1>8. w \in quiet => QuietIsCurrent(q)
  BY <1>2, <1>4 DEF QuietIsCurrent
<1> QED BY <1>1, <1>2, <1>4, <1>5, <1>6, <1>7, <1>8, LocalIsCurrent

LEMMA LoadSourcesIsCurrent ==
  ASSUME IInv, CInv, NEW w \in Workers, LoadSources(w)
  PROVE  CInv'
<1> DEFINE r == [worker[w] EXCEPT !.pc = "write", !.content = source]
<1>1. /\ Become(w, r) /\ worker[w].pc = "load"
      /\ source' = source /\ past' = past /\ quiet' = quiet /\ index' = index /\ cache' = cache
  BY DEF LoadSources, At, Files, Ghosts
<1>2. r \in Worker /\ r.pc = "write" /\ r.label = worker[w].label /\ r.content = source
  BY Before, CurrentBefore DEF Worker, Searching, OrNone
<1> HIDE DEF r
<1>3. Active(w)
  BY <1>1 DEF Active, Searching
<1>4. w \in quiet => QuietIsCurrent(r)
  BY <1>1, <1>2, CurrentBefore DEF QuietIsCurrent
<1>5. WorkerIsCurrent(r)
  BY <1>2 DEF WorkerIsCurrent
<1> QED BY <1>1, <1>2, <1>3, <1>4, <1>5, CurrentBefore, LocalIsCurrent

LEMMA CheckCacheIsCurrent ==
  ASSUME IInv, CInv, NEW w \in Workers, CheckCache(w)
  PROVE  CInv'
<1> DEFINE pc == IF Cached(ServiceOf[w], worker[w].label) THEN "return" ELSE "chunks"
           r == [worker[w] EXCEPT !.pc = pc]
<1>1. /\ Become(w, r) /\ worker[w].pc = "check" /\ pc \in {"return", "chunks"}
      /\ pc = "return" => cache[ServiceOf[w]].label = worker[w].label
      /\ source' = source /\ past' = past /\ quiet' = quiet /\ index' = index /\ cache' = cache
  BY DEF CheckCache, Goto, At, Cached, Files, Ghosts
<1>2. pc \in Searching \cup {"idle", "done", "failed"}
  BY <1>1 DEF Searching
<1> HIDE DEF pc
<1>3. /\ r \in Worker /\ r.pc = pc /\ r.label = worker[w].label
  BY <1>2, Before, GotoType DEF Worker
<1> HIDE DEF r
<1>4. Active(w)
  BY <1>1 DEF Active, Searching
<1>5. source \notin past => WorkerIsCurrent(r)
  BY <1>1, <1>3, CurrentBefore DEF WorkerIsCurrent, Carrying
<1>6. w \in quiet => QuietIsCurrent(r)
  BY <1>1, <1>3, CurrentBefore DEF QuietIsCurrent
<1>7. Calm(ServiceOf[w]) => r.label = source /\ (r.pc = "return" => Ours(ServiceOf[w]))
  BY <1>1, <1>3, <1>4, CurrentBefore DEF CInv, CalmIsOurs
<1> QED BY <1>1, <1>3, <1>4, <1>5, <1>6, <1>7, CurrentBefore, LocalIsCurrent

LEMMA LoadChunksIsCurrent ==
  ASSUME IInv, CInv, NEW w \in Workers, LoadChunks(w)
  PROVE  CInv'
<1> DEFINE pc == IF worker[w].reset THEN "dense" ELSE "fresh"
           r == [worker[w] EXCEPT !.pc = pc, !.content = index.content]
<1>1. /\ Become(w, r) /\ worker[w].pc = "chunks" /\ pc \in {"dense", "fresh"}
      /\ source' = source /\ past' = past /\ quiet' = quiet /\ index' = index /\ cache' = cache
  BY DEF LoadChunks, At, Files, Ghosts
<1> HIDE DEF pc
<1>2. r \in Worker /\ r.pc = pc /\ r.label = worker[w].label /\ r.content = index.content
  BY <1>1, Before DEF Worker, Searching, IInv, TypeOK, Index
<1> HIDE DEF r
<1>3. Active(w)
  BY <1>1 DEF Active, Searching
<1>4. source \notin past => WorkerIsCurrent(r)
  BY <1>1, <1>2, CurrentBefore DEF WorkerIsCurrent, IndexHolds
<1>5. w \in quiet => QuietIsCurrent(r)
  BY <1>1, <1>2, CurrentBefore DEF QuietIsCurrent
<1> QED BY <1>1, <1>2, <1>3, <1>4, <1>5, CurrentBefore, LocalIsCurrent

LEMMA ReturnRetrieverIsCurrent ==
  ASSUME IInv, CInv, NEW w \in Workers, ReturnRetriever(w)
  PROVE  CInv'
<1> DEFINE c == cache[ServiceOf[w]].retriever
           pc == IF ChunksOf[c.content] = {} THEN "done" ELSE "query"
           failed == [worker[w] EXCEPT !.pc = "failed"]
           r == [worker[w] EXCEPT !.pc = pc, !.content = c.content, !.vectors = c.vectors,
                                  !.raced = c.raced]
<1>1. /\ worker[w].pc = "return" /\ pc \in {"done", "query"}
      /\ (c = NoRetriever /\ Become(w, failed)) \/ (c # NoRetriever /\ Become(w, r))
      /\ source' = source /\ past' = past /\ quiet' = quiet /\ index' = index /\ cache' = cache
  BY DEF ReturnRetriever, At, Files, Ghosts
<1>2. Active(w) /\ ServiceOf[w] \in Services
  BY <1>1, CurrentBefore DEF Active, Searching
<1>3. CASE c = NoRetriever /\ Become(w, failed)
  <2>1. failed \in Worker /\ failed.pc = "failed" /\ failed.label = worker[w].label
    BY Before, GotoType DEF Worker
  <2> HIDE DEF failed
  <2>2. WorkerIsCurrent(failed)
    BY <2>1 DEF WorkerIsCurrent, Carrying
  <2>3. w \in quiet => QuietIsCurrent(failed)
    BY <1>1, <2>1, CurrentBefore DEF QuietIsCurrent
  <2> QED BY <1>1, <1>2, <1>3, <2>1, <2>2, <2>3, CurrentBefore, LocalIsCurrent DEF Searching
<1>4. CASE c # NoRetriever /\ Become(w, r)
  <2>1. c \in Retriever
    BY <1>2 DEF IInv, TypeOK
  <2>2. r \in Worker /\ r.pc = pc /\ r.label = worker[w].label /\ r.content = c.content
        /\ r.build = worker[w].build
    BY <1>1, <2>1, Before DEF Worker, Searching, Retriever
  <2>3. w \in quiet => QuietIsCurrent(r)
    <3> SUFFICES ASSUME w \in quiet PROVE QuietIsCurrent(r)
      OBVIOUS
    <3>1. Calm(ServiceOf[w])
      BY <1>2 DEF Calm
    <3>2. ~worker[w].build => c.label = source
      BY <1>1, <1>2, <1>4, <3>1, CurrentBefore DEF Ours
    <3>3. source \notin past /\ ~worker[w].build => c.content = source
      BY <1>2, <3>2 DEF CInv, FirstIsCurrent
    <3> HIDE DEF c, r
    <3> QED BY <1>1, <2>2, <3>3, CurrentBefore DEF QuietIsCurrent
  <2> HIDE DEF pc, r
  <2>4. WorkerIsCurrent(r)
    BY <1>1, <2>2 DEF WorkerIsCurrent, Carrying
  <2>5. r.pc \in Searching /\ Calm(ServiceOf[w]) =>
          /\ r.label = source
          /\ r.pc \in {"label", "return"} /\ ~r.build => Ours(ServiceOf[w])
    BY <1>1, <1>2, <2>2, CurrentBefore
  <2> QED BY <1>1, <1>2, <1>4, <2>2, <2>3, <2>4, <2>5, CurrentBefore, LocalIsCurrent
<1> QED BY <1>1, <1>3, <1>4

(* The vectors do not matter here.                                          *)
LEMMA CheckFreshIsCurrent ==
  ASSUME IInv, CInv, NEW w \in Workers, CheckFresh(w)
  PROVE  CInv'
<1> DEFINE pc == IF IsFresh(w) THEN "vectors" ELSE "dense"
           r == [worker[w] EXCEPT !.pc = pc]
<1>1. /\ Become(w, r) /\ worker[w].pc = "fresh" /\ pc \in {"vectors", "dense"}
      /\ source' = source /\ past' = past /\ quiet' = quiet /\ index' = index /\ cache' = cache
  BY DEF CheckFresh, Goto, At, Files, Ghosts
<1> HIDE DEF pc
<1>2. /\ r \in Worker /\ r.pc = pc /\ r.label = worker[w].label /\ r.content = worker[w].content
      /\ r.build = worker[w].build
  BY <1>1, Before DEF Worker, Searching
<1> HIDE DEF r
<1> QED BY <1>1, <1>2, CarryIsCurrent

LEMMA LoadVectorsIsCurrent ==
  ASSUME IInv, CInv, NEW w \in Workers, LoadVectors(w)
  PROVE  CInv'
<1> DEFINE pc == Indexed(w)
           raced == sidecar.label # worker[w].label \/ sidecar.expected # Ids(w) \/ ~sidecar.complete
           r == [worker[w] EXCEPT !.pc = pc, !.vectors = sidecar.vectors, !.raced = raced]
<1>1. /\ Become(w, r) /\ worker[w].pc = "vectors"
      /\ source' = source /\ past' = past /\ quiet' = quiet /\ index' = index /\ cache' = cache
  BY DEF LoadVectors, At, Files, Ghosts
<1>2. pc = "store" \/ (pc = "label" /\ worker[w].build)
  BY DEF Indexed
<1>3. raced \in BOOLEAN /\ sidecar.vectors \in Vectors
  BY Shared DEF Sidecar
<1> HIDE DEF pc, raced
<1>4. /\ r \in Worker /\ r.pc = pc /\ r.label = worker[w].label /\ r.content = worker[w].content
      /\ r.build = worker[w].build
  BY <1>2, <1>3, Before DEF Worker, Searching
<1> HIDE DEF r
<1> QED BY <1>1, <1>2, <1>4, CarryIsCurrent

LEMMA LockSidecarIsCurrent ==
  ASSUME IInv, CInv, NEW w \in Workers, LockSidecar(w)
  PROVE  CInv'
<1>1. /\ worker[w].pc = "dense" /\ source' = source /\ past' = past /\ quiet' = quiet
      /\ index' = index /\ cache' = cache
  BY DEF LockSidecar, At, Ghosts
<1>2. Indexed(w) = "store" \/ (Indexed(w) = "label" /\ worker[w].build)
  BY DEF Indexed
<1>3. \E pc \in {Indexed(w), "embed"}, v \in Vectors :
        Become(w, [worker[w] EXCEPT !.pc = pc, !.vectors = v])
  <2>1. sidecar.vectors \in Vectors /\ Kept(w) \in Vectors
    BY Shared, <1>1, KeptType, Before DEF Sidecar, Holds
  <2> QED BY <2>1 DEF LockSidecar
<1>4. PICK pc \in {Indexed(w), "embed"}, v \in Vectors :
        Become(w, [worker[w] EXCEPT !.pc = pc, !.vectors = v])
  BY <1>3
<1> DEFINE r == [worker[w] EXCEPT !.pc = pc, !.vectors = v]
<1>5. /\ r \in Worker /\ r.pc = pc /\ r.label = worker[w].label /\ r.content = worker[w].content
      /\ r.build = worker[w].build /\ Become(w, r)
  BY <1>2, <1>4, Before DEF Worker, Searching
<1> HIDE DEF r
<1> QED BY <1>1, <1>2, <1>5, CarryIsCurrent

LEMMA EmbedBatchIsCurrent ==
  ASSUME IInv, CInv, NEW w \in Workers, EmbedBatch(w)
  PROVE  CInv'
<1>1. /\ worker[w].pc = "embed" /\ source' = source /\ past' = past /\ quiet' = quiet
      /\ index' = index /\ cache' = cache
  BY DEF EmbedBatch, At, Ghosts
<1>2. /\ worker[w] \in Worker /\ Own(worker[w].vectors) /\ DOMAIN worker[w].vectors \subseteq Ids(w)
      /\ worker[w].content \in Versions /\ 1 \in 1..Attempts
  BY <1>1, Before, KnowledgeIndexAssumption DEF Holds, Ids
<1>3. ASSUME NEW r \in Worker, Become(w, r), r.pc \in {"embed", "failed"},
             r.label = worker[w].label, r.content = worker[w].content, r.build = worker[w].build
      PROVE  CInv'
  BY <1>1, <1>3, CarryIsCurrent
<1>4. ASSUME NEW batch \in Batches(w), NEW reply \in Replies(batch), NEW v,
             v = Embedded(w, batch, Ordered(batch, reply)),
             Become(w, [worker[w] EXCEPT !.vectors = v, !.attempt = 1])
      PROVE  CInv'
  <2> DEFINE r == [worker[w] EXCEPT !.vectors = v, !.attempt = 1]
  <2>1. v \in Vectors
    BY <1>2, <1>4, EmbeddedType
  <2>2. /\ r \in Worker /\ r.pc = "embed" /\ r.label = worker[w].label
        /\ r.content = worker[w].content /\ r.build = worker[w].build /\ Become(w, r)
    BY <1>1, <1>2, <1>4, <2>1 DEF Worker
  <2> HIDE DEF r
  <2> QED BY <2>2, <1>3
<1> DEFINE failed == [worker[w] EXCEPT !.pc = "failed"]
<1>5. CASE AttemptFails(w, failed)
  <2>1. /\ failed \in Worker /\ failed.pc = "failed" /\ failed.label = worker[w].label
        /\ failed.content = worker[w].content /\ failed.build = worker[w].build
    BY <1>2 DEF Worker
  <2> HIDE DEF failed
  <2>2. CASE Become(w, failed)
    BY <1>3, <2>1, <2>2
  <2>3. CASE \E n \in 1..Attempts : Become(w, [worker[w] EXCEPT !.attempt = n])
    <3>1. PICK n \in 1..Attempts : Become(w, [worker[w] EXCEPT !.attempt = n])
      BY <2>3
    <3> DEFINE again == [worker[w] EXCEPT !.attempt = n]
    <3>2. /\ again \in Worker /\ again.pc = "embed" /\ again.label = worker[w].label
          /\ again.content = worker[w].content /\ again.build = worker[w].build
          /\ Become(w, again)
      BY <1>1, <1>2, <3>1 DEF Worker
    <3> HIDE DEF again
    <3> QED BY <3>2, <1>3
  <2> QED BY <1>5, <2>2, <2>3, AttemptFailsType
<1> QED BY <1>4, <1>5 DEF EmbedBatch

LEMMA CompleteSidecarIsCurrent ==
  ASSUME IInv, CInv, NEW w \in Workers, CompleteSidecar(w)
  PROVE  CInv'
<1> DEFINE pc == Indexed(w)
           r == [worker[w] EXCEPT !.pc = pc]
<1>1. /\ Become(w, r) /\ worker[w].pc = "embed"
      /\ source' = source /\ past' = past /\ quiet' = quiet /\ index' = index /\ cache' = cache
  BY DEF CompleteSidecar, Goto, At, Ghosts
<1>2. pc = "store" \/ (pc = "label" /\ worker[w].build)
  BY DEF Indexed
<1> HIDE DEF pc
<1>3. /\ r \in Worker /\ r.pc = pc /\ r.label = worker[w].label /\ r.content = worker[w].content
      /\ r.build = worker[w].build
  BY <1>2, Before DEF Worker, Searching
<1> HIDE DEF r
<1> QED BY <1>1, <1>2, <1>3, CarryIsCurrent

LEMMA EmbedQueryIsCurrent ==
  ASSUME IInv, CInv, NEW w \in Workers, EmbedQuery(w)
  PROVE  CInv'
<1> DEFINE done == [worker[w] EXCEPT !.pc = "done"]
           failed == [worker[w] EXCEPT !.pc = "failed"]
<1>1. /\ worker[w].pc = "query" /\ worker[w] \in Worker
      /\ source' = source /\ past' = past /\ quiet' = quiet /\ index' = index /\ cache' = cache
  BY Before DEF EmbedQuery, At, Files, Ghosts
<1>2. ASSUME NEW r \in Worker, Become(w, r), r.pc \in {"query", "done", "failed"},
             r.label = worker[w].label, r.content = worker[w].content, r.build = worker[w].build
      PROVE  CInv'
  <2>1. Active(w)
    BY <1>1 DEF Active, Searching
  <2>2. WorkerIsCurrent(r)
    BY <1>2 DEF WorkerIsCurrent, Carrying
  <2>3. w \in quiet => QuietIsCurrent(r)
    BY <1>1, <1>2, CurrentBefore DEF QuietIsCurrent
  <2> QED BY <1>1, <1>2, <2>1, <2>2, <2>3, CurrentBefore, LocalIsCurrent
<1>3. /\ done \in Worker /\ done.pc = "done" /\ done.label = worker[w].label
      /\ done.content = worker[w].content /\ done.build = worker[w].build
      /\ failed \in Worker /\ failed.pc = "failed" /\ failed.label = worker[w].label
      /\ failed.content = worker[w].content /\ failed.build = worker[w].build
  BY <1>1 DEF Worker
<1>4. CASE Goto(w, "done")
  <2>1. Become(w, done)
    BY <1>4 DEF Goto
  <2> HIDE DEF done
  <2> QED BY <1>2, <1>3, <2>1
<1>5. CASE AttemptFails(w, failed)
  <2> HIDE DEF failed
  <2>1. CASE Become(w, failed)
    BY <1>2, <1>3, <2>1
  <2>2. CASE \E n \in 1..Attempts : Become(w, [worker[w] EXCEPT !.attempt = n])
    <3>1. PICK n \in 1..Attempts : Become(w, [worker[w] EXCEPT !.attempt = n])
      BY <2>2
    <3> DEFINE again == [worker[w] EXCEPT !.attempt = n]
    <3>2. /\ again \in Worker /\ again.pc = "query" /\ again.label = worker[w].label
          /\ again.content = worker[w].content /\ again.build = worker[w].build
          /\ Become(w, again)
      BY <1>1, <3>1 DEF Worker
    <3> HIDE DEF again
    <3> QED BY <3>2, <1>2
  <2> QED BY <1>5, <2>1, <2>2, AttemptFailsType
<1> QED BY <1>4, <1>5 DEF EmbedQuery

LEMMA EndIsCurrent ==
  ASSUME IInv, CInv, NEW w \in Workers, End(w)
  PROVE  CInv'
<1>1. /\ Become(w, IdleWorker)
      /\ source' = source /\ past' = past /\ quiet' = quiet /\ index' = index /\ cache' = cache
  BY DEF End, Files, Ghosts
<1>2. IdleWorker.pc = "idle" /\ IdleWorker.label = NoVersion /\ IdleWorker \in Worker
  BY IdleType DEF IdleWorker
<1>3. Known(IdleWorker.label) /\ QuietIsCurrent(IdleWorker) /\ WorkerIsCurrent(IdleWorker)
  BY <1>2 DEF Known, QuietIsCurrent, WorkerIsCurrent, Carrying
<1>4. "idle" \notin Searching
  BY DEF Searching
<1> QED BY <1>1, <1>2, <1>3, <1>4, LocalIsCurrent

-----------------------------------------------------------------------------
(* The index takes the label and the content of the worker in its section,  *)
(* which is the only one there.                                             *)
LEMMA WriteIndexIsCurrent ==
  ASSUME IInv, CInv, NEW w \in Workers, WriteIndex(w)
  PROVE  CInv'
<1> DEFINE pc == IF worker[w].build THEN "chunks" ELSE "check"
           r == [worker[w] EXCEPT !.pc = pc]
<1>1. /\ pc \in {"chunks", "check"} /\ Become(w, r) /\ worker[w].pc = "write"
      /\ index'.label = worker[w].label /\ index'.content = worker[w].content
      /\ source' = source /\ past' = past /\ quiet' = quiet /\ cache' = cache
  BY DEF WriteIndex, At, Goto, Ghosts
<1> HIDE DEF pc
<1>2. r \in Worker /\ r.pc = pc /\ r.label = worker[w].label
  BY <1>1, Before DEF Worker, Searching
<1> HIDE DEF r
<1>3. \A v \in Workers : v # w => worker[v].pc # "write"
  BY <1>1 DEF IInv, TypeOK
<1>4. worker'[w] = r /\ \A v \in Workers \ {w} : worker'[v] = worker[v]
  BY <1>1 DEF IInv, TypeOK, Become
<1>5. \A v \in Workers : worker'[v].pc # "write"
  BY <1>1, <1>2, <1>3, <1>4
<1>6. worker[w].content = source => IndexHolds'
  BY <1>1, <1>5 DEF IndexHolds, At
<1>7. IndexHolds => IndexHolds'
  BY <1>1, <1>6 DEF IndexHolds, At
<1>8. source \notin past /\ worker[w].label = source => IndexHolds'
  BY <1>1, <1>6, CurrentBefore DEF WorkerIsCurrent, Carrying
<1>9. Active(w)
  BY <1>1 DEF Active, Searching
<1>10. w \in quiet => QuietIsCurrent(r)
  BY <1>1, <1>2, CurrentBefore DEF QuietIsCurrent
<1>11. \A s : Ours(s)' <=> Ours(s)
  BY <1>1 DEF Ours
<1>12. \A s \in Services : /\ Known(cache'[s].retriever.label)
                           /\ source \notin past /\ cache'[s].retriever.label = source
                                => cache'[s].retriever.content = source
                           /\ Calm(s) => /\ Ours(s) => Ours(s)'
                                         /\ cache'[s].label = source => Ours(s)'
  BY <1>1, <1>11 DEF CInv, LabelsAreKnown, FirstIsCurrent, CalmIsOurs
<1> QED BY <1>1, <1>2, <1>7, <1>8, <1>9, <1>10, <1>12, CurrentBefore, StepIsCurrent DEF Carrying

(* The cache of the service changes under a worker that carries what the    *)
(* index gave it.                                                           *)
LEMMA StoreRetrieverIsCurrent ==
  ASSUME IInv, CInv, NEW w \in Workers, StoreRetriever(w)
  PROVE  CInv'
<1> DEFINE c == IF worker[w].build THEN NoRetriever
                ELSE [label |-> worker[w].label, content |-> worker[w].content,
                      vectors |-> worker[w].vectors, raced |-> worker[w].raced]
           pc == IF worker[w].build THEN "done" ELSE "label"
           r == [worker[w] EXCEPT !.pc = pc]
           s1 == ServiceOf[w]
<1>1. /\ Become(w, r) /\ worker[w].pc = "store"
      /\ cache' = [cache EXCEPT ![s1] = [retriever |-> c, label |-> cache[s1].label]]
      /\ source' = source /\ past' = past /\ quiet' = quiet /\ index' = index
  BY Shared DEF StoreRetriever, Goto, At, Files, Ghosts, CacheType
<1>2. /\ (pc = "done" /\ worker[w].build) \/ (pc = "label" /\ ~worker[w].build)
      /\ worker[w].build => c = NoRetriever /\ c.label = NoVersion
      /\ ~worker[w].build => c.label = worker[w].label /\ c.content = worker[w].content
  BY Before DEF NoRetriever, Worker
<1> HIDE DEF c, pc
<1>3. r \in Worker /\ r.pc = pc /\ r.label = worker[w].label /\ r.content = worker[w].content
      /\ r.build = worker[w].build
  BY <1>2, Before DEF Worker, Searching
<1> HIDE DEF r
<1>4. /\ cache'[s1].retriever = c /\ cache'[s1].label = cache[s1].label
      /\ \A s \in Services \ {s1} : cache'[s] = cache[s]
  BY <1>1, CurrentBefore, Shared DEF CacheType
<1>5. worker'[w] = r /\ \A v \in Workers \ {w} : worker'[v] = worker[v]
  BY <1>1 DEF IInv, TypeOK, Become
<1>6. IndexHolds => IndexHolds'
  BY <1>1, <1>2, <1>3, <1>5 DEF IndexHolds, At
<1>7. Active(w) /\ source # NoVersion
  BY <1>1, CurrentBefore DEF Active, Searching
<1>8. /\ source \notin past /\ worker[w].label = source => worker[w].content = source
      /\ Calm(s1) => worker[w].label = source
  BY <1>1, <1>7, CurrentBefore DEF WorkerIsCurrent, Carrying
<1>9. w \in quiet => QuietIsCurrent(r)
  BY <1>1, <1>2, <1>3, CurrentBefore DEF QuietIsCurrent
<1>10. Known(c.label)
  BY <1>2, CurrentBefore DEF Known
<1>11. Calm(s1) => Ours(s1)'
  BY <1>2, <1>4, <1>8, <1>1 DEF Ours
<1>12. ASSUME NEW s \in Services
       PROVE  /\ Known(cache'[s].retriever.label)
              /\ source \notin past /\ cache'[s].retriever.label = source
                   => cache'[s].retriever.content = source
              /\ Calm(s) => /\ Ours(s) => Ours(s)'
                            /\ cache'[s].label = source => Ours(s)'
  <2>1. CASE s = s1
    BY <2>1, <1>2, <1>4, <1>7, <1>8, <1>10, <1>11
  <2>2. CASE s # s1
    <3>1. cache'[s] = cache[s] /\ (Ours(s)' <=> Ours(s))
      BY <2>2, <1>1, <1>4 DEF Ours
    <3> QED BY <3>1 DEF CInv, LabelsAreKnown, FirstIsCurrent, CalmIsOurs
  <2> QED BY <2>1, <2>2
<1>13. source \notin past /\ r.label = source =>
         /\ r.pc \in {"check", "chunks"} => IndexHolds'
         /\ r.pc \in Carrying => r.content = source
  BY <1>2, <1>3, <1>8
<1>14. Known(index'.label) /\ (source \notin past /\ index'.label = source => IndexHolds')
  BY <1>1, <1>6, CurrentBefore
<1>15. Calm(s1) => r.label = source /\ (r.pc \in {"label", "return"} => Ours(s1)')
  BY <1>3, <1>8, <1>11
<1> QED BY <1>1, <1>3, <1>6, <1>7, <1>9, <1>12, <1>13, <1>14, <1>15, CurrentBefore, StepIsCurrent

LEMMA StoreLabelIsCurrent ==
  ASSUME IInv, CInv, NEW w \in Workers, StoreLabel(w)
  PROVE  CInv'
<1> DEFINE label == IF worker[w].build THEN NoVersion ELSE worker[w].label
           pc == IF worker[w].build THEN "store" ELSE "return"
           r == [worker[w] EXCEPT !.pc = pc]
           s1 == ServiceOf[w]
<1>1. /\ Become(w, r) /\ worker[w].pc = "label"
      /\ cache' = [cache EXCEPT ![s1] = [retriever |-> cache[s1].retriever, label |-> label]]
      /\ source' = source /\ past' = past /\ quiet' = quiet /\ index' = index
  BY Shared DEF StoreLabel, Goto, At, Files, Ghosts, CacheType
<1>2. /\ (pc = "store" /\ worker[w].build) \/ (pc = "return" /\ ~worker[w].build)
      /\ worker[w].build => label = NoVersion
  BY Before DEF Worker
<1> HIDE DEF label, pc
<1>3. r \in Worker /\ r.pc = pc /\ r.label = worker[w].label /\ r.content = worker[w].content
      /\ r.build = worker[w].build
  BY <1>2, Before DEF Worker, Searching
<1> HIDE DEF r
<1>4. /\ cache'[s1].retriever = cache[s1].retriever /\ cache'[s1].label = label
      /\ \A s \in Services \ {s1} : cache'[s] = cache[s]
  BY <1>1, CurrentBefore, Shared DEF CacheType
<1>5. worker'[w] = r /\ \A v \in Workers \ {w} : worker'[v] = worker[v]
  BY <1>1 DEF IInv, TypeOK, Become
<1>6. IndexHolds => IndexHolds'
  BY <1>1, <1>2, <1>3, <1>5 DEF IndexHolds, At
<1>7. Active(w) /\ source # NoVersion
  BY <1>1, CurrentBefore DEF Active, Searching
<1>8. \A s \in Services : cache'[s].retriever = cache[s].retriever /\ (Ours(s)' <=> Ours(s))
  BY <1>1, <1>4 DEF Ours
<1>9. w \in quiet => QuietIsCurrent(r)
  BY <1>1, <1>2, <1>3, CurrentBefore DEF QuietIsCurrent
<1>10. Calm(s1) => worker[w].label = source /\ (~worker[w].build => Ours(s1))
  BY <1>1, <1>7, CurrentBefore
<1>11. ASSUME NEW s \in Services
       PROVE  /\ Known(cache'[s].retriever.label)
              /\ source \notin past /\ cache'[s].retriever.label = source
                   => cache'[s].retriever.content = source
              /\ Calm(s) => /\ Ours(s) => Ours(s)'
                            /\ cache'[s].label = source => Ours(s)'
  <2>1. Calm(s) /\ cache'[s].label = source => Ours(s)'
    <3>1. CASE s = s1
      BY <3>1, <1>2, <1>4, <1>7, <1>8, <1>10
    <3>2. CASE s # s1
      BY <3>2, <1>4, <1>8 DEF CInv, CalmIsOurs
    <3> QED BY <3>1, <3>2
  <2> QED BY <2>1, <1>8 DEF CInv, LabelsAreKnown, FirstIsCurrent
<1>12. source \notin past /\ r.label = source =>
         /\ r.pc \in {"check", "chunks"} => IndexHolds'
         /\ r.pc \in Carrying => r.content = source
  BY <1>1, <1>2, <1>3, CurrentBefore DEF WorkerIsCurrent, Carrying
<1>13. Known(index'.label) /\ (source \notin past /\ index'.label = source => IndexHolds')
  BY <1>1, <1>6, CurrentBefore
<1>14. Calm(s1) => r.label = source /\ (r.pc \in {"label", "return"} /\ ~r.build => Ours(s1)')
  BY <1>3, <1>8, <1>10, CurrentBefore
<1> QED BY <1>1, <1>3, <1>6, <1>7, <1>9, <1>11, <1>12, <1>13, <1>14, CurrentBefore, StepIsCurrent

-----------------------------------------------------------------------------
(* A thread that starts is quiet only where all others of the service are,  *)
(* and where the retriever has its own label.                               *)
LEMMA StartIsCurrent ==
  ASSUME IInv, CInv, NEW w \in Workers, NEW r \in Worker, Start(w, r), r.label = source,
         r.pc \in {"stats", "lock"}
  PROVE  CInv'
<1>1. /\ worker[w].pc = "idle" /\ Become(w, r)
      /\ source' = source /\ past' = past /\ index' = index /\ cache' = cache
      /\ quiet' \subseteq quiet \cup {w}
      /\ w \in quiet' => /\ \A v \in Workers \ {w} :
                              Active(v) /\ ServiceOf[v] = ServiceOf[w] => v \in quiet
                         /\ ~Mislabelled(ServiceOf[w])
  BY DEF Start, At, Files
<1>2. worker'[w] = r /\ \A v \in Workers \ {w} : worker'[v] = worker[v]
  BY <1>1 DEF IInv, TypeOK, Become
<1>3. IndexHolds' <=> IndexHolds
  BY <1>1, <1>2 DEF IndexHolds, At
<1>4. LabelsAreKnown'
  BY <1>1, <1>2 DEF CInv, LabelsAreKnown, Known
<1>5. FirstIsCurrent'
  <2>1. WorkerIsCurrent(worker[w])'
    BY <1>2 DEF WorkerIsCurrent, Carrying
  <2>2. ASSUME source \notin past, NEW v \in Workers \ {w} PROVE WorkerIsCurrent(worker[v])'
    BY <1>1, <1>2, <1>3, <2>2 DEF WorkerIsCurrent, CInv, FirstIsCurrent
  <2> QED BY <1>1, <1>3, <2>1, <2>2 DEF CInv, FirstIsCurrent
<1>6. ASSUME NEW v \in quiet' PROVE QuietIsCurrent(worker[v])'
  <2>1. CASE v = w
    BY <1>1, <1>2, <2>1 DEF QuietIsCurrent
  <2>2. CASE v # w
    <3>1. v \in quiet /\ v \in Workers
      BY <1>1, <2>2 DEF IInv, TypeOK
    <3> QED BY <1>1, <1>2, <2>2, <3>1 DEF CInv, QuietIsCurrent
  <2> QED BY <2>1, <2>2
<1>7. ASSUME NEW s \in Services PROVE CalmIsOurs(s)'
  <2> SUFFICES ASSUME Calm(s)'
               PROVE  /\ cache'[s].label = source => Ours(s)'
                      /\ \A v \in Workers : ServiceOf[v] = s /\ Active(v)' =>
                           /\ worker'[v].label = source
                           /\ worker'[v].pc \in {"label", "return"} /\ ~worker'[v].build
                                => Ours(s)'
    BY <1>1 DEF CalmIsOurs
  <2>1. Ours(s)' <=> Ours(s)
    BY <1>1 DEF Ours
  <2>2. \A v \in Workers \ {w} : Active(v)' <=> Active(v)
    BY <1>2 DEF Active
  <2>3. CASE Calm(s)
    <3>1. ASSUME NEW v \in Workers, ServiceOf[v] = s, Active(v)'
          PROVE  /\ worker'[v].label = source
                 /\ worker'[v].pc \in {"label", "return"} /\ ~worker'[v].build => Ours(s)'
      <4>1. CASE v = w
        BY <1>2, <4>1
      <4>2. CASE v # w
        BY <1>2, <2>1, <2>2, <2>3, <3>1, <4>2 DEF CInv, CalmIsOurs
      <4> QED BY <4>1, <4>2
    <3> QED BY <1>1, <2>1, <2>3, <3>1 DEF CInv, CalmIsOurs
  <2>4. CASE ~Calm(s)
    <3>1. ServiceOf[w] = s /\ w \in quiet'
      BY <1>1, <2>2, <2>4 DEF Calm, IInv, TypeOK
    <3>2. \A v \in Workers \ {w} : ServiceOf[v] = s => ~Active(v)
      BY <1>1, <2>4, <3>1 DEF Calm
    <3>3. cache[s].label = source => Ours(s)
      BY <1>1, <3>1 DEF Mislabelled, Ours
    <3> QED BY <1>1, <1>2, <2>1, <2>2, <3>2, <3>3
  <2> QED BY <2>3, <2>4
<1> QED BY <1>4, <1>5, <1>6, <1>7 DEF CInv

(* With an edit no search is quiet; the sources are new, or back.           *)
LEMMA EditSourcesIsCurrent ==
  ASSUME IInv, CInv, NEW v \in Versions, EditSources(v)
  PROVE  CInv'
<1>1. /\ v # source /\ v # NoVersion /\ source' = v /\ past' = past \cup {source}
      /\ \A w \in quiet' : worker[w].pc = "idle"
      /\ index' = index /\ cache' = cache /\ worker' = worker
  BY KnowledgeIndexAssumption DEF EditSources, At
<1>2. LabelsAreKnown'
  BY <1>1 DEF CInv, LabelsAreKnown, Known
<1>3. FirstIsCurrent'
  BY <1>1 DEF CInv, LabelsAreKnown, Known, FirstIsCurrent, WorkerIsCurrent
<1>4. \A w \in quiet' : QuietIsCurrent(worker[w])'
  BY <1>1 DEF QuietIsCurrent
<1>5. \A s \in Services : ~Calm(s)'
  BY <1>1 DEF Calm, Active, Searching
<1> QED BY <1>2, <1>3, <1>4, <1>5 DEF CInv, CalmIsOurs

LEMMA DieIsCurrent ==
  ASSUME IInv, CInv, NEW s \in Services, Die(s)
  PROVE  CInv'
<1> DEFINE none == [retriever |-> NoRetriever, label |-> NoVersion]
<1>1. /\ \A w \in Workers : worker'[w] = IF ServiceOf[w] = s THEN IdleWorker ELSE worker[w]
      /\ cache' = [cache EXCEPT ![s] = none]
      /\ source' = source /\ index' = index /\ past' = past /\ quiet' = quiet
  BY DEF Die, Files, Ghosts
<1>2. /\ cache'[s] = none /\ \A t \in Services \ {s} : cache'[t] = cache[t]
      /\ quiet \subseteq Workers
  BY <1>1, Shared DEF CacheType
<1>3. IdleWorker.pc = "idle" /\ IdleWorker.label = NoVersion /\ NoRetriever.label = NoVersion
  BY DEF IdleWorker, NoRetriever
<1>4. source # NoVersion
  BY Shared, KnowledgeIndexAssumption
<1>5. IndexHolds => IndexHolds'
  BY <1>1, <1>3 DEF IndexHolds, At
<1>6. LabelsAreKnown'
  BY <1>1, <1>2, <1>3 DEF CInv, LabelsAreKnown, Known
<1>7. FirstIsCurrent'
  <2> SUFFICES ASSUME source \notin past
               PROVE  /\ index.label = source => IndexHolds'
                      /\ \A w \in Workers : WorkerIsCurrent(worker[w])'
                      /\ \A t \in Services : cache'[t].retriever.label = source
                                               => cache'[t].retriever.content = source
    BY <1>1 DEF FirstIsCurrent
  <2>1. \A w \in Workers : WorkerIsCurrent(worker[w])'
    BY <1>1, <1>3, <1>4, <1>5 DEF CInv, FirstIsCurrent, WorkerIsCurrent
  <2>2. \A t \in Services : cache'[t].retriever.label = source
                              => cache'[t].retriever.content = source
    BY <1>2, <1>3, <1>4 DEF CInv, FirstIsCurrent
  <2> QED BY <1>5, <2>1, <2>2 DEF CInv, FirstIsCurrent
<1>8. \A w \in quiet' : QuietIsCurrent(worker[w])'
  BY <1>1, <1>2, <1>3 DEF CInv, QuietIsCurrent
<1>9. ASSUME NEW t \in Services PROVE CalmIsOurs(t)'
  <2>1. \A w \in Workers : Active(w)' => Active(w) /\ ServiceOf[w] # s /\ worker'[w] = worker[w]
    BY <1>1, <1>3 DEF Active, Searching
  <2>2. Calm(t)' => Calm(t) /\ t # s
    BY <1>1, <1>2, <2>1 DEF Calm
  <2>3. t # s => cache'[t] = cache[t] /\ (Ours(t)' <=> Ours(t))
    BY <1>1, <1>2 DEF Ours
  <2> QED BY <1>1, <2>1, <2>2, <2>3 DEF CInv, CalmIsOurs
<1> QED BY <1>6, <1>7, <1>8, <1>9 DEF CInv

-----------------------------------------------------------------------------
LEMMA WorkerStepIsCurrent ==
  ASSUME IInv, CInv, NEW w \in Workers, WorkerStep(w)
  PROVE  CInv'
BY CheckStatsIsCurrent, LockIndexIsCurrent, LoadSourcesIsCurrent, WriteIndexIsCurrent,
   CheckCacheIsCurrent, LoadChunksIsCurrent, StoreRetrieverIsCurrent, StoreLabelIsCurrent,
   ReturnRetrieverIsCurrent, CheckFreshIsCurrent, LoadVectorsIsCurrent, LockSidecarIsCurrent,
   EmbedBatchIsCurrent, CompleteSidecarIsCurrent, EmbedQueryIsCurrent
   DEF WorkerStep

LEMMA NextIsCurrent == IInv /\ CInv /\ [Next]_vars => CInv'
<1> SUFFICES ASSUME IInv, CInv, [Next]_vars PROVE CInv'
  OBVIOUS
<1>1. CASE \E v \in Versions : EditSources(v)
  BY <1>1, EditSourcesIsCurrent
<1>2. ASSUME NEW w \in Workers, Search(w) PROVE CInv'
  <2> DEFINE r == [IdleWorker EXCEPT !.pc = "stats", !.label = source]
  <2>1. r \in Worker /\ r.label = source /\ r.pc = "stats" /\ Start(w, r)
    BY <1>2, IdleType, Shared DEF Search, Worker, OrNone, Searching, IdleWorker
  <2> HIDE DEF r
  <2> QED BY <2>1, StartIsCurrent
<1>3. ASSUME NEW w \in Workers, NEW reset \in BOOLEAN, Build(w, reset) PROVE CInv'
  <2> DEFINE r == [IdleWorker EXCEPT !.pc = "lock", !.label = source, !.build = TRUE,
                                     !.reset = reset]
  <2>1. r \in Worker /\ r.label = source /\ r.pc = "lock" /\ Start(w, r)
    BY <1>3, IdleType, Shared DEF Build, Worker, OrNone, Searching, IdleWorker
  <2> HIDE DEF r
  <2> QED BY <2>1, StartIsCurrent
<1>4. CASE \E w \in Workers : \/ Search(w) \/ WorkerStep(w) \/ End(w)
                              \/ \E reset \in BOOLEAN : Build(w, reset)
  BY <1>2, <1>3, <1>4, WorkerStepIsCurrent, EndIsCurrent
<1>5. CASE \E s \in Services : Die(s)
  BY <1>5, DieIsCurrent
<1>6. CASE UNCHANGED vars
  <2>1. UNCHANGED <<source, index, cache, worker, past, quiet>>
    BY <1>6 DEF vars
  <2>2. /\ IndexHolds' <=> IndexHolds
        /\ \A s : (Ours(s)' <=> Ours(s)) /\ (Calm(s)' <=> Calm(s))
        /\ \A w : Active(w)' <=> Active(w)
    BY <2>1 DEF IndexHolds, At, Ours, Calm, Active
  <2>3. LabelsAreKnown' /\ FirstIsCurrent'
    BY <2>1, <2>2 DEF CInv, LabelsAreKnown, Known, FirstIsCurrent, WorkerIsCurrent
  <2>4. \A w \in quiet' : QuietIsCurrent(worker[w])'
    BY <2>1 DEF CInv, QuietIsCurrent
  <2>5. \A s \in Services : CalmIsOurs(s)'
    BY <2>1, <2>2 DEF CInv, CalmIsOurs
  <2> QED BY <2>3, <2>4, <2>5 DEF CInv
<1> QED BY <1>1, <1>4, <1>5, <1>6 DEF Next

(* A search that saw no edit answers from the sources as they are, whatever *)
(* other services build, fail or die meanwhile, while the sources are not   *)
(* what they were before some edit.                                         *)
THEOREM SearchStaysCurrent == Spec => []SearchIsCurrent
<1>1. CInv => SearchIsCurrent
  BY DEF CInv, SearchIsCurrent, QuietIsCurrent, At
<1>2. Spec => [](IInv /\ CInv)
  BY InitIInv, InitCInv, NextKeeps, NextIsCurrent, PTL DEF Spec
<1> QED BY <1>1, <1>2, PTL

=============================================================================
