------------------------------ MODULE Ingestion ------------------------------
(***************************************************************************)
(* Document ingestion: DocumentIngestionService over the PostgreSQL job    *)
(* repository and the Weaviate vector index.                               *)
(*                                                                         *)
(* A Worker is a thread or process inside ingest() or retry(): the import  *)
(* CLI, or a request thread of the administration API.  Each PostgreSQL    *)
(* transaction and each Weaviate request is one action, so workers         *)
(* interleave between them.  A request may fail with no effect, or take    *)
(* effect and lose its answer, in which case the caller sees an exception; *)
(* a worker may die between any two of them.                               *)
(***************************************************************************)
EXTENDS Naturals, Sequences, FiniteSets

CONSTANTS
    Source, Version, Chunk,  \* source_id, source_version, chunk_id
    Key,                     \* idempotency keys; one names at most one job
    Payload,                 \* canonical payload hashes; equal hash, equal content
    Content,                 \* payload -> its chunk ids in position order
    Links,                   \* payload -> the <<source, chunk>> targets it declares
    Command,                 \* the ingestion commands that may be submitted
    Worker,
    None

ASSUME ContentAssumption ==
    /\ Content \in [Payload -> Seq(Chunk)]
    /\ \A p \in Payload : \A i, j \in 1..Len(Content[p]) :
          Content[p][i] = Content[p][j] => i = j
ASSUME LinksAssumption == Links \in [Payload -> SUBSET (Source \X Chunk)]
ASSUME CommandAssumption ==
    /\ Command \subseteq [key : Key, source : Source, version : Version, payload : Payload]
    \* the hash covers the identity of the source version
    /\ \A c, d \in Command : c.payload = d.payload => c.source = d.source /\ c.version = d.version

\* A row of sf.jobs.
Job == [source : Source, version : Version, payload : Payload,
        status : {"staged", "indexing", "indexed", "failed"}]

ASSUME NoneAssumption == None \notin Version \cup Key \cup Payload \cup Job

VARIABLES
    jobs,        \* sf.jobs: key -> row, or None
    versions,    \* sf.source_versions and sf.chunks: <<source, version>> -> payload, or None
    edges,       \* sf.relationships: [source, version, to], owner first
    current,     \* sf.sources: source -> key of current_job_id, or None
    index,       \* Weaviate: source -> chunk -> version of the stored object, or None
    call         \* worker -> where its ingest() or retry() stands

store == <<jobs, versions, edges, current, index>>
vars == <<jobs, versions, edges, current, index, call>>

-----------------------------------------------------------------------------
(* State *)

Relationship == [source : Source, version : Version, to : Source \X Chunk]

\* "returned" and "raised" are how the previous call of an idle worker ended.
AtRest == {"idle", "returned", "raised"}
Step == AtRest \cup {"loaded", "embed", "insert", "failing"}
Call == [pc : Step, key : Key \cup {None}, at : Nat \ {0}]

Left(pc) == [pc |-> pc, key |-> None, at |-> 1]
NotCalled == Left("idle")

TypeOK ==
    /\ jobs \in [Key -> Job \cup {None}]
    /\ versions \in [Source \X Version -> Payload \cup {None}]
    /\ edges \subseteq Relationship
    /\ current \in [Source -> Key \cup {None}]
    /\ index \in [Source -> [Chunk -> Version \cup {None}]]
    /\ call \in [Worker -> Call]

Init ==
    /\ jobs = [k \in Key |-> None]
    /\ versions = [sv \in Source \X Version |-> None]
    /\ edges = {}
    /\ current = [s \in Source |-> None]
    /\ index = [s \in Source |-> [c \in Chunk |-> None]]
    /\ call = [w \in Worker |-> NotCalled]

ChunksOf(p) == {Content[p][i] : i \in 1..Len(Content[p])}

\* _target_exists: the chunk belongs to the version its source currently points at.
TargetExists(t) ==
    /\ current[t[1]] # None
    /\ t[2] \in ChunksOf(jobs[current[t[1]]].payload)

\* Mutant: ingesting an indexed job again goes on to process it.
LoadedAlways(k) == "loaded"

\* _process answers at once for a job that was loaded as indexed.
Loaded(k) == IF jobs[k].status = "indexed" THEN "returned" ELSE "loaded"

Enter(w, k, pc) == call' = [call EXCEPT ![w] = [pc |-> pc, key |-> k, at |-> 1]]
Goto(w, pc) == call' = [call EXCEPT ![w].pc = pc]
Return(w) == Enter(w, call[w].key, "returned")
Raise(w) == call' = [call EXCEPT ![w] = Left("raised")]

JobOf(w) == jobs[call[w].key]

-----------------------------------------------------------------------------
(* stage: one transaction under the advisory lock of the source. *)

KeyReused(c) == jobs[c.key] # None /\ jobs[c.key].payload # c.payload

\* Mutant: the payload of a version is compared only for a known key.
VersionReusedByKey(c) ==
    jobs[c.key] # None /\ versions[<<c.source, c.version>>] # c.payload

VersionReused(c) ==
    versions[<<c.source, c.version>>] \notin {None, c.payload}

TargetMissing(c) ==
    /\ versions[<<c.source, c.version>>] = None
    /\ \E t \in Links[c.payload] : t[1] # c.source /\ ~TargetExists(t)

StageKnownJob(w, c) ==
    /\ jobs[c.key] # None
    /\ ~KeyReused(c)
    /\ Enter(w, c.key, Loaded(c.key))
    /\ UNCHANGED store

\* Mutant: the job is committed without its version and chunks.
StageJobOnly(w, c) ==
    /\ jobs[c.key] = None
    /\ ~VersionReused(c)
    /\ jobs' = [jobs EXCEPT ![c.key] =
          [source |-> c.source, version |-> c.version,
           payload |-> c.payload, status |-> "staged"]]
    /\ Enter(w, c.key, "loaded")
    /\ UNCHANGED <<versions, edges, current, index>>

\* The version, its chunks and relationships are inserted unless already there.
StageNewJob(w, c) ==
    /\ jobs[c.key] = None
    /\ ~VersionReused(c)
    /\ ~TargetMissing(c)
    /\ jobs' = [jobs EXCEPT ![c.key] =
          [source |-> c.source, version |-> c.version,
           payload |-> c.payload, status |-> "staged"]]
    /\ versions' = [versions EXCEPT ![<<c.source, c.version>>] = c.payload]
    /\ edges' = IF versions[<<c.source, c.version>>] = None
                THEN edges \cup {[source |-> c.source, version |-> c.version, to |-> t] :
                                   t \in Links[c.payload]}
                ELSE edges
    /\ UNCHANGED <<current, index>>
    /\ Enter(w, c.key, "loaded") \/ Raise(w)

\* A conflict, or a database that cannot be reached: nothing is committed.
StageRaises(w) == Raise(w) /\ UNCHANGED store

Ingest(w, c) ==
    /\ call[w].pc \in AtRest
    /\ StageKnownJob(w, c) \/ StageNewJob(w, c) \/ StageRaises(w)

\* retry: load the job by its identifier.
Retry(w, k) ==
    /\ call[w].pc \in AtRest
    /\ \/ jobs[k] # None /\ Enter(w, k, Loaded(k))
       \/ Raise(w)
    /\ UNCHANGED store

-----------------------------------------------------------------------------
(* _process *)

SetStatus(k, to) == jobs' = [jobs EXCEPT ![k].status = to]

\* Mutant: mark_indexing takes a job in any status.
MarkIndexingAny(w) ==
    /\ call[w].pc = "loaded"
    /\ SetStatus(call[w].key, "indexing")
    /\ Goto(w, "embed")
    /\ UNCHANGED <<versions, edges, current, index>>

\* Outside the try block: an exception here leaves the job as it stands.
MarkIndexing(w) ==
    /\ call[w].pc = "loaded"
    /\ \/ /\ JobOf(w).status \in {"staged", "indexing", "failed"}
          /\ SetStatus(call[w].key, "indexing")
          /\ Goto(w, "embed") \/ Raise(w)
       \/ Raise(w) /\ UNCHANGED jobs
    /\ UNCHANGED <<versions, edges, current, index>>

\* embed_documents fails, or answers with the wrong number of vectors.
EmbeddingFails(w) ==
    /\ call[w].pc = "embed"
    /\ Goto(w, "failing")
    /\ UNCHANGED store

\* delete_many over every version of the source.  What it reports of single objects
\* is not read: whether it answers or raises, some of them may remain.
DeleteVectors(w) ==
    LET s == JobOf(w).source IN
    /\ call[w].pc = "embed"
    /\ \E kept \in SUBSET Chunk :
          index' = [index EXCEPT ![s] =
                      [c \in Chunk |-> IF c \in kept THEN index[s][c] ELSE None]]
    /\ Goto(w, "insert") \/ Goto(w, "failing")
    /\ UNCHANGED <<jobs, versions, edges, current>>

\* The object identifier does not contain the version, and insert never overwrites.
InsertVector(w) ==
    LET s == JobOf(w).source
        chunks == Content[JobOf(w).payload]
        c == chunks[call[w].at]
    IN
    /\ call[w].pc = "insert"
    /\ call[w].at <= Len(chunks)
    /\ \/ /\ index[s][c] = None
          /\ index' = [index EXCEPT ![s][c] = JobOf(w).version]
          /\ \/ call' = [call EXCEPT ![w].at = @ + 1]
             \/ Goto(w, "failing")
       \/ Goto(w, "failing") /\ UNCHANGED index
    /\ UNCHANGED <<jobs, versions, edges, current>>

\* Mutants: the pointer names the version, not the job; a job of any status is
\* marked; a job is marked before its last chunk is inserted.
MarkIndexedWith(w, pointer, statuses, inserted) ==
    /\ call[w].pc = "insert"
    /\ inserted >= Len(Content[JobOf(w).payload])
    /\ JobOf(w).status \in statuses
    /\ SetStatus(call[w].key, "indexed")
    /\ current' = [current EXCEPT ![JobOf(w).source] = pointer]
    /\ Return(w)
    /\ UNCHANGED <<versions, edges, index>>

MarkIndexedVersion(w) ==
    MarkIndexedWith(w, JobOf(w).version, {"indexing"}, call[w].at - 1)
MarkIndexedAny(w) ==
    MarkIndexedWith(w, call[w].key, {"staged", "indexing", "failed"}, call[w].at - 1)
MarkIndexedEarly(w) ==
    MarkIndexedWith(w, call[w].key, {"indexing"}, call[w].at)

\* One transaction: the status and the pointer of the source.
MarkIndexed(w) ==
    LET k == call[w].key IN
    /\ call[w].pc = "insert"
    /\ call[w].at > Len(Content[JobOf(w).payload])
    /\ \/ /\ JobOf(w).status = "indexing"
          /\ SetStatus(k, "indexed")
          /\ current' = [current EXCEPT ![JobOf(w).source] = k]
          /\ Return(w) \/ Goto(w, "failing")
       \/ Goto(w, "failing") /\ UNCHANGED <<jobs, current>>
    /\ UNCHANGED <<versions, edges, index>>

\* Mutant: mark_failed overwrites any status.
MarkFailedAny(w) ==
    /\ call[w].pc = "failing"
    /\ SetStatus(call[w].key, "failed")
    /\ Raise(w)
    /\ UNCHANGED <<versions, edges, current, index>>

MarkFailed(w) ==
    /\ call[w].pc = "failing"
    /\ \/ JobOf(w).status = "indexing" /\ SetStatus(call[w].key, "failed")
       \/ UNCHANGED jobs
    /\ Raise(w)
    /\ UNCHANGED <<versions, edges, current, index>>

\* The process dies; what its requests did stays done.
Crash(w) ==
    /\ call[w].pc \notin AtRest
    /\ call' = [call EXCEPT ![w] = NotCalled]
    /\ UNCHANGED store

Process(w) ==
    \/ MarkIndexing(w)
    \/ EmbeddingFails(w)
    \/ DeleteVectors(w)
    \/ InsertVector(w)
    \/ MarkIndexed(w)
    \/ MarkFailed(w)
    \/ Crash(w)

Next ==
    \E w \in Worker :
        \/ \E c \in Command : Ingest(w, c)
        \/ \E k \in Key : Retry(w, k)
        \/ Process(w)

Spec == Init /\ [][Next]_vars

-----------------------------------------------------------------------------
(* Properties *)

\* A source never points at a job that is not completely indexed, nor at a job
\* of another source: "marks the PostgreSQL source pointer as current only
\* after indexing succeeds".  A late mark_failed or mark_indexing of another
\* worker on the same job is what could break it.
PublishedIsIndexed ==
    \A s \in Source : current[s] # None =>
        /\ jobs[current[s]] # None
        /\ jobs[current[s]].status = "indexed"
        /\ jobs[current[s]].source = s

\* A version's chunks are fixed by its first job: every later job of the version,
\* under any idempotency key, carries the same payload.
JobMatchesVersion ==
    \A k \in Key : jobs[k] # None =>
        versions[<<jobs[k].source, jobs[k].version>>] = jobs[k].payload

\* A caller that was told "indexed" was told the truth, and it stays true, even
\* if other workers were processing the same job when the answer was sent.
ReturnedMeansIndexed ==
    \A w \in Worker : call[w].pc = "returned" => JobOf(w).status = "indexed"

\* Search never sees a chunk of a version that was not staged first: each object
\* in the vector index is a chunk of a stored version of its source.
IndexHoldsStagedContent ==
    \A s \in Source, c \in Chunk : index[s][c] # None =>
        LET p == versions[<<s, index[s][c]>>] IN p # None /\ c \in ChunksOf(p)

\* Every chunk of the version a source points at is in the index, under that version.
Complete(s) ==
    LET row == jobs[current[s]] IN
    \A c \in ChunksOf(row.payload) : index[s][c] = row.version

HasOpenJob(s) ==
    \E k \in Key : /\ jobs[k] # None
                   /\ jobs[k].source = s
                   /\ jobs[k].status \in {"indexing", "failed"}

\* "Failed indexing jobs remain explicit ... No hidden fallback or silent data
\* loss is permitted": whenever a published source misses a chunk of its current
\* version in the index, or has it under another version, an unfinished or failed
\* job says so and can be retried.  Objects of other chunks may be left there:
\* nobody reads which objects a deletion could not remove.
LossIsExplicit ==
    \A s \in Source : current[s] # None => Complete(s) \/ HasOpenJob(s)

\* The same, asked only once nobody is working any more.
NoSilentLoss == (\A w \in Worker : call[w].pc \in AtRest) => LossIsExplicit

JobStatus == [k \in Key |-> IF jobs[k] = None THEN "absent" ELSE jobs[k].status]

Lifecycle == INSTANCE JobLifecycle WITH status <- JobStatus, published <- current

\* The job table is the state machine of JobLifecycle whatever the workers do.
ImplementsLifecycle == Lifecycle!LifecycleSpec
=============================================================================
