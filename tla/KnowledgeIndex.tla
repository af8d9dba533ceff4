--------------------------- MODULE KnowledgeIndex ---------------------------
(***************************************************************************)
(* Retrieval of the platform's knowledge (platform_backend/rag): the index *)
(* of the source directory, the sidecar with the dense vectors, the        *)
(* retriever a service keeps, and the calls to the embedding provider with *)
(* their retries (integrations/model_retry.py).                            *)
(*                                                                         *)
(* A worker is a thread of a service that searches or builds.  A file is   *)
(* replaced by a rename, and a flock section is entered in one action.  A  *)
(* version of the sources stands for their fingerprint; an id of a chunk   *)
(* contains the hash of its content, so that a chunk is its content.       *)
(***************************************************************************)
EXTENDS Naturals, Sequences, FiniteSets, SequencesExt

CONSTANTS Services, Workers, ServiceOf,
          Versions,   \* contents of the source directory
          Chunks,     \* chunks
          ChunksOf,   \* version -> its chunks
          BatchSize,  \* chunks in one request to the provider
          Attempts,   \* attempts of one model operation
          MaxEdits, MaxBuilds, MaxFaults,  \* bounds
          NoVersion, NoWorker

ASSUME KnowledgeIndexAssumption ==
    /\ ServiceOf \in [Workers -> Services]
    /\ ChunksOf \in [Versions -> SUBSET Chunks]
    /\ BatchSize \in Nat \ {0} /\ Attempts \in Nat \ {0}
    /\ MaxEdits \in Nat /\ MaxBuilds \in Nat /\ MaxFaults \in Nat
    /\ NoVersion \notin Versions /\ NoWorker \notin Workers

VARIABLES
    source,     \* the version in the source directory
    index,      \* the index file: a label and the version that was loaded
    sidecar,    \* the file of the dense vectors
    indexLock, sidecarLock,  \* the workers in the flock sections
    cache,      \* service -> its retriever, and the label of it
    worker,     \* worker -> where it is, and what it holds
    counts,     \* edits, builds and faults so far
    past,       \* versions the sources had before
    quiet       \* workers whose search, and all those whose traces it met on its
                \* service, saw no edit

locks == <<indexLock, sidecarLock>>
vars == <<source, index, sidecar, locks, cache, worker, counts, past, quiet>>

OrNone == Versions \cup {NoVersion}
Vectors == UNION {[S -> Chunks] : S \in SUBSET Chunks}  \* chunk -> what was embedded
NoVectors == [c \in {} |-> c]
Index == [label: OrNone, content: OrNone]
Sidecar == [label: OrNone, expected: SUBSET Chunks, complete: BOOLEAN, vectors: Vectors]
Retriever == [label: OrNone,  \* of the search that built it
              content: OrNone, vectors: Vectors, raced: BOOLEAN]
NoRetriever == [label |-> NoVersion, content |-> NoVersion, vectors |-> NoVectors, raced |-> FALSE]

Searching == {"stats", "lock", "load", "write", "check", "chunks", "fresh", "vectors", "dense",
              "embed", "store", "label", "return", "query"}
Worker == [pc: Searching \cup {"idle", "done", "failed"},
           build: BOOLEAN,      \* KnowledgeService.build, not a search
           reset: BOOLEAN,      \* ... that discards the dense vectors
           label: OrNone, content: OrNone, vectors: Vectors, raced: BOOLEAN,
           attempt: 1..Attempts]
IdleWorker == [pc |-> "idle", build |-> FALSE, reset |-> FALSE, label |-> NoVersion,
               content |-> NoVersion, vectors |-> NoVectors, raced |-> FALSE, attempt |-> 1]

Init ==
    /\ source \in Versions
    /\ index = [label |-> NoVersion, content |-> NoVersion]
    /\ sidecar = [label |-> NoVersion, expected |-> {}, complete |-> FALSE, vectors |-> NoVectors]
    /\ indexLock = NoWorker /\ sidecarLock = NoWorker
    /\ cache = [s \in Services |-> [retriever |-> NoRetriever, label |-> NoVersion]]
    /\ worker = [w \in Workers |-> IdleWorker]
    /\ counts = [edits |-> 0, builds |-> 0, faults |-> 0]
    /\ past = {}
    /\ quiet = {}

At(w, pc) == worker[w].pc = pc
Active(w) == worker[w].pc \in Searching
Become(w, r) == worker' = [worker EXCEPT ![w] = r]
Goto(w, pc) == Become(w, [worker[w] EXCEPT !.pc = pc])
(* Waits for nobody.                                                        *)
FreeAlways(lock) == TRUE

(* flock.                                                                   *)
Free(lock) == lock = NoWorker

Count(what, bound) == counts[what] < bound /\ counts' = [counts EXCEPT ![what] = @ + 1]
Files == <<source, index, sidecar>>
Ghosts == <<past, quiet>>

-----------------------------------------------------------------------------
(* Somebody edits the sources.                                              *)
EditSources(v) ==
    /\ v # source /\ Count("edits", MaxEdits)
    /\ source' = v
    /\ past' = past \cup {source}
    /\ quiet' = {w \in quiet : At(w, "idle")}
    /\ UNCHANGED <<index, sidecar, locks, cache, worker>>

-----------------------------------------------------------------------------
(* KnowledgeIndex.ensure and build.                                         *)

(* Of two searches, one stored the retriever, then the other its label.     *)
Mislabelled(s) == cache[s].retriever # NoRetriever /\ cache[s].retriever.label # cache[s].label

(* The fingerprint is read first.                                           *)
Start(w, r) ==
    /\ At(w, "idle")
    /\ Become(w, r)
    /\ quiet' = IF \/ \E v \in Workers \ {w} :
                         Active(v) /\ ServiceOf[v] = ServiceOf[w] /\ v \notin quiet
                   \/ Mislabelled(ServiceOf[w])
                THEN quiet \ {w} ELSE quiet \cup {w}
    /\ UNCHANGED <<Files, locks, cache, past>>

Search(w) ==
    /\ Start(w, [IdleWorker EXCEPT !.pc = "stats", !.label = source])
    /\ UNCHANGED counts

Build(w, reset) ==
    /\ Start(w, [IdleWorker EXCEPT !.pc = "lock", !.label = source, !.build = TRUE, !.reset = reset])
    /\ Count("builds", MaxBuilds)

IsIndexed(label) == index.content # NoVersion /\ index.label = label

CheckStats(w) ==
    /\ At(w, "stats")
    /\ Goto(w, IF IsIndexed(worker[w].label) THEN "check" ELSE "lock")
    /\ UNCHANGED <<Files, locks, cache, counts, Ghosts>>

(* ensure reads the fingerprint again under the lock, build does not; build *)
(* may be forced.                                                           *)
LockIndex(w) ==
    LET label == IF worker[w].build THEN worker[w].label ELSE source
    IN /\ At(w, "lock") /\ Free(indexLock)
       /\ \/ /\ IsIndexed(label)
             /\ Become(w, [worker[w] EXCEPT !.pc = IF worker[w].build THEN "chunks" ELSE "check",
                                            !.label = label])
             /\ UNCHANGED indexLock
          \/ /\ worker[w].build \/ ~IsIndexed(label)
             /\ Become(w, [worker[w] EXCEPT !.pc = "load", !.label = label])
             /\ indexLock' = w
       /\ UNCHANGED <<Files, sidecarLock, cache, counts, Ghosts>>

(* _build_unlocked: the sources are loaded after their fingerprint was      *)
(* read.                                                                    *)
LoadSources(w) ==
    /\ At(w, "load")
    /\ Become(w, [worker[w] EXCEPT !.pc = "write", !.content = source])
    /\ UNCHANGED <<Files, locks, cache, counts, Ghosts>>

WriteIndex(w) ==
    /\ At(w, "write")
    /\ index' = [label |-> worker[w].label, content |-> worker[w].content]
    /\ Goto(w, IF worker[w].build THEN "chunks" ELSE "check")
    /\ indexLock' = NoWorker
    /\ UNCHANGED <<source, sidecar, sidecarLock, cache, counts, Ghosts>>

-----------------------------------------------------------------------------
(* KnowledgeService._get_retriever.                                         *)

(* Keeps the retriever it has.                                              *)
CachedAlways(s, label) == cache[s].retriever # NoRetriever

Cached(s, label) == cache[s].retriever # NoRetriever /\ cache[s].label = label

CheckCache(w) ==
    /\ At(w, "check")
    /\ Goto(w, IF Cached(ServiceOf[w], worker[w].label) THEN "return" ELSE "chunks")
    /\ UNCHANGED <<Files, locks, cache, counts, Ghosts>>

(* load_chunks: the index may have been rebuilt by now.                     *)
LoadChunks(w) ==
    /\ At(w, "chunks")
    /\ Become(w, [worker[w] EXCEPT !.pc = IF worker[w].reset THEN "dense" ELSE "fresh",
                                   !.content = index.content])
    /\ UNCHANGED <<Files, locks, cache, counts, Ghosts>>

(* The retriever and then its label are assigned; a build drops the label   *)
(* and then the retriever.                                                  *)
StoreRetriever(w) ==
    LET r == IF worker[w].build THEN NoRetriever
             ELSE [label |-> worker[w].label, content |-> worker[w].content,
                   vectors |-> worker[w].vectors, raced |-> worker[w].raced]
    IN /\ At(w, "store")
       /\ cache' = [cache EXCEPT ![ServiceOf[w]] = [retriever |-> r, label |-> @.label]]
       /\ Goto(w, IF worker[w].build THEN "done" ELSE "label")
       /\ UNCHANGED <<Files, locks, counts, Ghosts>>

StoreLabel(w) ==
    /\ At(w, "label")
    /\ cache' = [cache EXCEPT ![ServiceOf[w]] =
                    [retriever |-> @.retriever,
                     label |-> IF worker[w].build THEN NoVersion ELSE worker[w].label]]
    /\ Goto(w, IF worker[w].build THEN "store" ELSE "return")
    /\ UNCHANGED <<Files, locks, counts, Ghosts>>

(* What another thread stored meanwhile is returned, if it stored one.      *)
ReturnRetriever(w) ==
    LET r == cache[ServiceOf[w]].retriever
    IN /\ At(w, "return")
       /\ Become(w, IF r = NoRetriever THEN [worker[w] EXCEPT !.pc = "failed"]
                    ELSE [worker[w] EXCEPT !.pc = IF ChunksOf[r.content] = {} THEN "done" ELSE "query",
                                           !.content = r.content, !.vectors = r.vectors,
                                           !.raced = r.raced])
       /\ UNCHANGED <<Files, locks, cache, counts, Ghosts>>

-----------------------------------------------------------------------------
(* retry_sync: an attempt fails with a status or without, in the transport  *)
(* or not.                                                                  *)
Failures == [status: {"none", "temporary", "other"}, transport: BOOLEAN]

(* classify_exception.                                                      *)
Retryable(f) == f.status = "temporary" \/ (f.status = "none" /\ f.transport)

(* Another attempt, or the error is raised.                                 *)
AttemptFails(w, raised) ==
    /\ Count("faults", MaxFaults)
    /\ \E f \in Failures :
         Become(w, IF Retryable(f) /\ worker[w].attempt < Attempts
                   THEN [worker[w] EXCEPT !.attempt = @ + 1]
                   ELSE raised)

(* HybridRetriever.search embeds the query.                                 *)
EmbedQuery(w) ==
    /\ At(w, "query")
    /\ \/ Goto(w, "done") /\ UNCHANGED counts
       \/ AttemptFails(w, [worker[w] EXCEPT !.pc = "failed"])
    /\ UNCHANGED <<Files, locks, cache, Ghosts>>

-----------------------------------------------------------------------------
(* DenseEmbeddingIndex.ensure.                                              *)

Ids(w) == ChunksOf[worker[w].content]

Indexed(w) == IF worker[w].build THEN "label" ELSE "store"

(* Does not ask whether the sidecar is complete.                            *)
IsFreshPartly(w) == sidecar.label = worker[w].label /\ sidecar.expected = Ids(w)

IsFresh(w) ==
    /\ sidecar.label = worker[w].label /\ sidecar.complete
    /\ sidecar.expected = Ids(w) /\ DOMAIN sidecar.vectors = Ids(w)

CheckFresh(w) ==
    /\ At(w, "fresh")
    /\ Goto(w, IF IsFresh(w) THEN "vectors" ELSE "dense")
    /\ UNCHANGED <<Files, locks, cache, counts, Ghosts>>

(* load_vectors reads the file again.                                       *)
LoadVectors(w) ==
    /\ At(w, "vectors")
    /\ Become(w, [worker[w] EXCEPT !.pc = Indexed(w), !.vectors = sidecar.vectors,
                                   !.raced = sidecar.label # worker[w].label
                                             \/ sidecar.expected # Ids(w) \/ ~sidecar.complete])
    /\ UNCHANGED <<Files, locks, cache, counts, Ghosts>>

Checkpoint(w, vectors, complete) ==
    sidecar' = [label |-> worker[w].label, expected |-> Ids(w), complete |-> complete,
                vectors |-> vectors]

Kept(w) == IF worker[w].reset THEN NoVectors
           ELSE [c \in Ids(w) \cap DOMAIN sidecar.vectors |-> sidecar.vectors[c]]

LockSidecar(w) ==
    LET kept == Kept(w)
        whole == DOMAIN kept = Ids(w)
    IN /\ At(w, "dense") /\ Free(sidecarLock)
       /\ IF IsFresh(w) /\ ~worker[w].reset
          THEN /\ Become(w, [worker[w] EXCEPT !.pc = Indexed(w), !.vectors = sidecar.vectors])
               /\ UNCHANGED <<sidecar, sidecarLock>>
          ELSE /\ Checkpoint(w, kept, whole)
               /\ Become(w, [worker[w] EXCEPT !.pc = IF whole THEN Indexed(w) ELSE "embed",
                                              !.vectors = kept])
               /\ sidecarLock' = IF whole THEN NoWorker ELSE w
       /\ UNCHANGED <<source, index, indexLock, cache, counts, Ghosts>>

Missing(w) == Ids(w) \ DOMAIN worker[w].vectors

(* The chunks of a request.                                                 *)
Batches(w) ==
    {batch \in UNION {[1..n -> Missing(w)] : n \in 1..BatchSize} :
       /\ \A i, j \in DOMAIN batch : batch[i] = batch[j] => i = j
       /\ Len(batch) = BatchSize \/ Missing(w) \subseteq ToSet(batch)}

(* A reply has one item for each text, with its index, in any order; with   *)
(* others the attempt fails.                                                *)
Replies(batch) == {reply \in [DOMAIN batch -> DOMAIN batch] :
                     \A i \in DOMAIN batch : \E k \in DOMAIN batch : reply[k] = i}

(* Takes the items in the order they come in.                               *)
OrderedAsReceived(batch, reply) == [i \in DOMAIN batch |-> batch[reply[i]]]

(* _request_batch puts the item at its index.                               *)
Ordered(batch, reply) ==
    [i \in DOMAIN batch |-> batch[reply[CHOOSE k \in DOMAIN batch : reply[k] = i]]]

(* Adds the vectors of a batch.                                             *)
Embedded(w, batch, embedded) ==
    [c \in DOMAIN worker[w].vectors \cup {batch[i] : i \in DOMAIN batch} |->
       IF c \in DOMAIN worker[w].vectors THEN worker[w].vectors[c]
       ELSE embedded[CHOOSE i \in DOMAIN batch : batch[i] = c]]

(* Leaves the lock to a process that will not release it.                   *)
UnlockSidecarNever(w) == UNCHANGED sidecarLock

UnlockSidecar(w) == sidecarLock' = NoWorker

EmbedBatch(w) ==
    /\ At(w, "embed") /\ Missing(w) # {}
    /\ \/ \E batch \in Batches(w) : \E reply \in Replies(batch) :
            LET vectors == Embedded(w, batch, Ordered(batch, reply))
            IN /\ Become(w, [worker[w] EXCEPT !.vectors = vectors, !.attempt = 1])
               /\ Checkpoint(w, vectors, FALSE)
               /\ UNCHANGED <<sidecarLock, counts>>
       \/ /\ AttemptFails(w, [worker[w] EXCEPT !.pc = "failed"])
          /\ IF worker'[w].pc = "failed"
             THEN Checkpoint(w, worker[w].vectors, FALSE) /\ UnlockSidecar(w)
             ELSE UNCHANGED <<sidecar, sidecarLock>>
    /\ UNCHANGED <<source, index, indexLock, cache, Ghosts>>

CompleteSidecar(w) ==
    /\ At(w, "embed") /\ Missing(w) = {}
    /\ Checkpoint(w, worker[w].vectors, TRUE)
    /\ Goto(w, Indexed(w))
    /\ UnlockSidecar(w)
    /\ UNCHANGED <<source, index, indexLock, cache, counts, Ghosts>>

-----------------------------------------------------------------------------
End(w) ==
    /\ worker[w].pc \in {"done", "failed"}
    /\ Become(w, IdleWorker)
    /\ UNCHANGED <<Files, locks, cache, counts, Ghosts>>

(* A process dies: its locks are released, its retriever is gone.           *)
Die(s) ==
    LET its == {w \in Workers : ServiceOf[w] = s}
    IN /\ \E w \in its : Active(w)
       /\ Count("faults", MaxFaults)
       /\ worker' = [w \in Workers |-> IF w \in its THEN IdleWorker ELSE worker[w]]
       /\ indexLock' = IF indexLock \in its THEN NoWorker ELSE indexLock
       /\ sidecarLock' = IF sidecarLock \in its THEN NoWorker ELSE sidecarLock
       /\ cache' = [cache EXCEPT ![s] = [retriever |-> NoRetriever, label |-> NoVersion]]
       /\ UNCHANGED <<Files, Ghosts>>

WorkerStep(w) ==
    \/ CheckStats(w) \/ LockIndex(w) \/ LoadSources(w) \/ WriteIndex(w)
    \/ CheckCache(w) \/ LoadChunks(w) \/ StoreRetriever(w) \/ StoreLabel(w) \/ ReturnRetriever(w)
    \/ CheckFresh(w) \/ LoadVectors(w) \/ LockSidecar(w) \/ EmbedBatch(w) \/ CompleteSidecar(w)
    \/ EmbedQuery(w)

Next ==
    \/ \E v \in Versions : EditSources(v)
    \/ \E w \in Workers : \/ Search(w) \/ WorkerStep(w) \/ End(w)
                          \/ \E reset \in BOOLEAN : Build(w, reset)
    \/ \E s \in Services : Die(s)

(* A thread that runs goes on; builds, edits and faults end at their bounds.*)
Fairness == \A w \in Workers : WF_vars(WorkerStep(w))
Spec == Init /\ [][Next]_vars /\ Fairness

-----------------------------------------------------------------------------
TypeOK ==
    /\ source \in Versions /\ index \in Index /\ sidecar \in Sidecar
    /\ indexLock \in Workers \cup {NoWorker} /\ sidecarLock \in Workers \cup {NoWorker}
    /\ \A w \in Workers : /\ indexLock = w <=> worker[w].pc \in {"load", "write"}
                          /\ sidecarLock = w <=> worker[w].pc = "embed"
    /\ cache \in [Services -> [retriever: Retriever, label: OrNone]]
    /\ worker \in [Workers -> Worker]
    /\ counts \in [edits: 0..MaxEdits, builds: 0..MaxBuilds, faults: 0..MaxFaults]
    /\ past \subseteq Versions /\ quiet \subseteq Workers

(* A search that saw no edit, and met neither a search of its service that  *)
(* did nor a retriever under the label of another search, answers from the  *)
(* sources as they are, unless they are what they were before an edit: then *)
(* an index that was labelled before that edit and loaded after it is taken *)
(* for fresh.                                                               *)
SearchIsCurrent ==
    \A w \in Workers :
       At(w, "done") /\ ~worker[w].build /\ w \in quiet /\ source \notin past
         => worker[w].content = source

(* A search ranks each of its chunks by the vector of that very chunk,      *)
(* after failed, resumed and concurrent builds, unless the sidecar was      *)
(* replaced between the check that it is fresh and the reading of it.       *)
DenseIsWhole ==
    \A w \in Workers :
       At(w, "done") /\ ~worker[w].build /\ ~worker[w].raced
         => /\ DOMAIN worker[w].vectors = Ids(w)
            /\ \A c \in Ids(w) : worker[w].vectors[c] = c

(* A search or build ends, although others hold the locks, fail or die.     *)
SearchEnds == \A w \in Workers : Active(w) ~> ~Active(w)
=============================================================================
