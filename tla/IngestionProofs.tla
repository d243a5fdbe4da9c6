--------------------------- MODULE IngestionProofs ---------------------------
(***************************************************************************)
(* Machine-checked theorems about Ingestion, for every set of sources,     *)
(* versions, chunks, keys, commands and workers, and about DatasetImport,  *)
(* for all files that an operator may import over it.                      *)
(***************************************************************************)
EXTENDS DatasetImport, DataInduction, FiniteSetTheorems

\* What may be ingested: the commands, and what an import submits.
Ingestible == [key : Key, source : Source, version : Version, payload : Payload]

\* What a worker that is inside a call, or has returned from one, may rely on.
CallHasJob ==
    \A w \in Worker : call[w].pc \notin {"idle", "raised"} =>
        call[w].key \in Key /\ jobs[call[w].key] \in Job

\* The inductive invariant: the safety properties support each other.
IInv ==
    /\ TypeOK
    /\ CallHasJob
    /\ PublishedIsIndexed
    /\ JobMatchesVersion
    /\ ReturnedMeansIndexed
    /\ IndexHoldsStagedContent

LEMMA InitIInv == Init => IInv
<1> SUFFICES ASSUME Init PROVE IInv
  OBVIOUS
<1>1. TypeOK
  BY DEF Init, TypeOK, NotCalled, Left, Call, Step, AtRest
<1>2. CallHasJob /\ ReturnedMeansIndexed
  BY DEF Init, CallHasJob, ReturnedMeansIndexed, NotCalled, Left
<1>3. PublishedIsIndexed /\ JobMatchesVersion /\ IndexHoldsStagedContent
  BY DEF Init, PublishedIsIndexed, JobMatchesVersion, IndexHoldsStagedContent
<1> QED
  BY <1>1, <1>2, <1>3 DEF IInv

-----------------------------------------------------------------------------
(* The two halves of a step: what it does to the store, and where it sends *)
(* the worker that takes it.                                               *)

StoreInv ==
    /\ jobs \in [Key -> Job \cup {None}]
    /\ versions \in [Source \X Version -> Payload \cup {None}]
    /\ edges \subseteq Relationship
    /\ current \in [Source -> Key \cup {None}]
    /\ index \in [Source -> [Chunk -> Version \cup {None}]]
    /\ PublishedIsIndexed
    /\ JobMatchesVersion
    /\ IndexHoldsStagedContent

\* Rows of sf.jobs are never removed, and an indexed job stays indexed.
JobsKept ==
    \A k \in Key : jobs[k] \in Job =>
        /\ jobs'[k] \in Job
        /\ jobs[k].status = "indexed" => jobs'[k].status = "indexed"

\* A place r for a worker to stand that the invariant allows once the step is done.
Allowed(r) ==
    /\ r \in Call
    /\ r.pc \notin {"idle", "raised"} => r.key \in Key /\ jobs'[r.key] \in Job
    /\ r.pc = "returned" => jobs'[r.key].status = "indexed"

LEMMA Split == IInv <=> /\ StoreInv
                        /\ call \in [Worker -> Call]
                        /\ CallHasJob
                        /\ ReturnedMeansIndexed
BY DEF IInv, StoreInv, TypeOK

LEMMA StepInv ==
    ASSUME IInv, StoreInv', JobsKept,
           NEW w \in Worker, NEW r, Allowed(r), call' = [call EXCEPT ![w] = r]
    PROVE  IInv'
<1>1. call' \in [Worker -> Call]
  BY DEF IInv, TypeOK, Allowed
<1>2. CallHasJob'
  <2> SUFFICES ASSUME NEW v \in Worker, call'[v].pc \notin {"idle", "raised"}
               PROVE  call'[v].key \in Key /\ jobs'[call'[v].key] \in Job
    BY DEF CallHasJob
  <2>1. CASE v = w
    BY <2>1 DEF Allowed, IInv, TypeOK
  <2>2. CASE v # w
    BY <2>2 DEF IInv, TypeOK, CallHasJob, JobsKept
  <2> QED
    BY <2>1, <2>2
<1>3. ReturnedMeansIndexed'
  <2> SUFFICES ASSUME NEW v \in Worker, call'[v].pc = "returned"
               PROVE  jobs'[call'[v].key].status = "indexed"
    BY DEF ReturnedMeansIndexed, JobOf
  <2>1. CASE v = w
    BY <2>1 DEF Allowed, IInv, TypeOK
  <2>2. CASE v # w
    BY <2>2 DEF IInv, TypeOK, CallHasJob, ReturnedMeansIndexed, JobOf, JobsKept
  <2> QED
    BY <2>1, <2>2
<1> QED
  BY <1>1, <1>2, <1>3, Split DEF IInv, StoreInv, TypeOK

LEMMA StoreUnchanged ==
    ASSUME IInv, UNCHANGED store
    PROVE  StoreInv' /\ JobsKept
BY DEF IInv, TypeOK, StoreInv, store, JobsKept, PublishedIsIndexed, JobMatchesVersion,
       IndexHoldsStagedContent

\* The three ways to leave a call that every action shares.
LEMMA LeaveAllowed ==
    ASSUME IInv, JobsKept, NEW w \in Worker
    PROVE  /\ Allowed(NotCalled)
           /\ Allowed(Left("raised"))
           /\ \A pc \in Step : call[w].pc \notin AtRest /\ pc # "returned" =>
                 Allowed([call[w] EXCEPT !.pc = pc])
BY NoneAssumption DEF Allowed, NotCalled, Left, Call, Step, AtRest, IInv, TypeOK, CallHasJob, JobsKept

-----------------------------------------------------------------------------
(* One lemma per action. *)

LEMMA KeepsStore ==
    ASSUME IInv, UNCHANGED store, NEW w \in Worker,
           \/ Raise(w)
           \/ call' = [call EXCEPT ![w] = NotCalled]
           \/ call[w].pc \notin AtRest /\ Goto(w, "failing")
    PROVE  IInv'
<1>1. StoreInv' /\ JobsKept
  BY StoreUnchanged
<1>2. CASE Raise(w)
  BY <1>1, <1>2, LeaveAllowed, StepInv DEF Raise
<1>3. CASE call' = [call EXCEPT ![w] = NotCalled]
  BY <1>1, <1>3, LeaveAllowed, StepInv
<1>4. CASE call[w].pc \notin AtRest /\ Goto(w, "failing")
  <2>1. call' = [call EXCEPT ![w] = [call[w] EXCEPT !.pc = "failing"]]
    BY <1>4 DEF Goto
  <2>2. Allowed([call[w] EXCEPT !.pc = "failing"])
    BY <1>1, <1>4, LeaveAllowed DEF Step
  <2> QED
    BY <1>1, <2>1, <2>2, StepInv
<1> QED
  BY <1>2, <1>3, <1>4

LEMMA LoadInv ==
    ASSUME IInv, NEW w \in Worker, NEW k \in Key, jobs[k] # None,
           UNCHANGED store, Enter(w, k, Loaded(k))
    PROVE  IInv'
<1>1. StoreInv' /\ JobsKept
  BY StoreUnchanged
<1>2. Allowed([pc |-> Loaded(k), key |-> k, at |-> 1])
  BY DEF Allowed, Loaded, Call, Step, AtRest, IInv, TypeOK, store
<1> QED
  BY <1>1, <1>2, StepInv DEF Enter

LEMMA StageNewJobInv ==
    ASSUME IInv, NEW w \in Worker, NEW c \in Ingestible, StageNewJob(w, c)
    PROVE  IInv'
<1> DEFINE sv == <<c.source, c.version>>
           row == [source |-> c.source, version |-> c.version,
                   payload |-> c.payload, status |-> "staged"]
<1>1. /\ c.key \in Key /\ c.source \in Source /\ c.version \in Version /\ c.payload \in Payload
      /\ row \in Job
      /\ sv \in Source \X Version
  BY DEF Ingestible, Job
<1>2. /\ jobs' = [jobs EXCEPT ![c.key] = row]
      /\ versions' = [versions EXCEPT ![sv] = c.payload]
      /\ versions[sv] \in {None, c.payload}
      /\ jobs[c.key] = None
      /\ UNCHANGED <<current, index>>
  BY DEF StageNewJob, VersionReused
<1>3. JobsKept
  BY <1>1, <1>2, NoneAssumption DEF JobsKept, IInv, TypeOK
<1>4. StoreInv'
  <2>1. /\ jobs' \in [Key -> Job \cup {None}]
        /\ versions' \in [Source \X Version -> Payload \cup {None}]
        /\ current' \in [Source -> Key \cup {None}]
        /\ index' \in [Source -> [Chunk -> Version \cup {None}]]
    BY <1>1, <1>2 DEF IInv, TypeOK
  <2>2. edges' \subseteq Relationship
    BY <1>1, LinksAssumption DEF StageNewJob, IInv, TypeOK, Relationship
  <2>3. PublishedIsIndexed'
    BY <1>1, <1>2, NoneAssumption DEF IInv, TypeOK, PublishedIsIndexed, Job
  <2>4. JobMatchesVersion'
    <3> SUFFICES ASSUME NEW k \in Key, jobs'[k] # None
                 PROVE  versions'[<<jobs'[k].source, jobs'[k].version>>] = jobs'[k].payload
      BY DEF JobMatchesVersion
    <3>1. CASE k = c.key
      BY <3>1, <1>1, <1>2 DEF IInv, TypeOK
    <3>2. CASE k # c.key
      <4>1. jobs'[k] = jobs[k] /\ jobs[k] \in Job
        BY <3>2, <1>2 DEF IInv, TypeOK
      <4>2. /\ versions[<<jobs[k].source, jobs[k].version>>] = jobs[k].payload
            /\ jobs[k].payload # None
            /\ <<jobs[k].source, jobs[k].version>> \in Source \X Version
        BY <4>1, NoneAssumption DEF IInv, JobMatchesVersion, Job
      <4> QED
        BY <4>1, <4>2, <1>1, <1>2 DEF IInv, TypeOK
    <3> QED
      BY <3>1, <3>2
  <2>5. IndexHoldsStagedContent'
    <3> SUFFICES ASSUME NEW s \in Source, NEW d \in Chunk, index[s][d] # None
                 PROVE  LET p == versions'[<<s, index[s][d]>>]
                        IN  p # None /\ d \in ChunksOf(p)
      BY <1>2 DEF IndexHoldsStagedContent
    <3>1. <<s, index[s][d]>> \in Source \X Version
      BY DEF IInv, TypeOK
    <3> QED
      BY <3>1, <1>1, <1>2 DEF IInv, TypeOK, IndexHoldsStagedContent
  <2> QED
    BY <2>1, <2>2, <2>3, <2>4, <2>5 DEF StoreInv
<1>5. CASE Raise(w)
  BY <1>3, <1>4, <1>5, LeaveAllowed, StepInv DEF Raise
<1>6. CASE Enter(w, c.key, "loaded")
  <2>1. Allowed([pc |-> "loaded", key |-> c.key, at |-> 1])
    BY <1>1, <1>2 DEF Allowed, Call, Step, AtRest, IInv, TypeOK
  <2> QED
    BY <1>3, <1>4, <1>6, <2>1, StepInv DEF Enter
<1> QED
  BY <1>5, <1>6 DEF StageNewJob

\* A status written to a job that is not indexed yet.  current may start to
\* point at it in the same step, provided that the step makes it indexed.
LEMMA StatusStoreInv ==
    ASSUME IInv, NEW k \in Key, jobs[k] \in Job, jobs[k].status # "indexed",
           NEW to \in {"staged", "indexing", "indexed", "failed"}, SetStatus(k, to),
           UNCHANGED <<versions, edges, index>>,
           \/ UNCHANGED current
           \/ to = "indexed" /\ current' = [current EXCEPT ![jobs[k].source] = k]
    PROVE  StoreInv' /\ JobsKept
<1> DEFINE row == [jobs[k] EXCEPT !.status = to]
<1>1. /\ jobs' = [jobs EXCEPT ![k] = row]
      /\ row \in Job
      /\ row.source = jobs[k].source /\ row.version = jobs[k].version
      /\ row.payload = jobs[k].payload /\ row.status = to
  BY DEF SetStatus, Job
<1> HIDE DEF row
<1>2. JobsKept
  BY <1>1, NoneAssumption DEF JobsKept, IInv, TypeOK
<1>3. /\ jobs' \in [Key -> Job \cup {None}]
      /\ versions' \in [Source \X Version -> Payload \cup {None}]
      /\ edges' \subseteq Relationship
      /\ current' \in [Source -> Key \cup {None}]
      /\ index' \in [Source -> [Chunk -> Version \cup {None}]]
  BY <1>1 DEF IInv, TypeOK
<1>4. PublishedIsIndexed'
  <2> SUFFICES ASSUME NEW s \in Source, current'[s] # None
               PROVE  /\ jobs'[current'[s]] # None
                      /\ jobs'[current'[s]].status = "indexed"
                      /\ jobs'[current'[s]].source = s
    BY DEF PublishedIsIndexed
  <2>1. CASE current'[s] = current[s]
    <3>1. current[s] \in Key /\ current[s] # k
      BY <2>1 DEF IInv, TypeOK, PublishedIsIndexed
    <3> QED
      BY <2>1, <3>1, <1>1 DEF IInv, TypeOK, PublishedIsIndexed
  <2>2. CASE current'[s] # current[s]
    <3>1. to = "indexed" /\ s = jobs[k].source /\ current'[s] = k
      BY <2>2 DEF IInv, TypeOK
    <3> QED
      BY <3>1, <1>1, NoneAssumption DEF IInv, TypeOK
  <2> QED
    BY <2>1, <2>2
<1>5. JobMatchesVersion'
  BY <1>1, NoneAssumption DEF IInv, TypeOK, JobMatchesVersion
<1>6. IndexHoldsStagedContent'
  BY DEF IInv, IndexHoldsStagedContent
<1> QED
  BY <1>2, <1>3, <1>4, <1>5, <1>6 DEF StoreInv

LEMMA MarkIndexingInv ==
    ASSUME IInv, NEW w \in Worker, MarkIndexing(w)
    PROVE  IInv'
<1>1. call[w].key \in Key /\ JobOf(w) \in Job /\ call[w].pc \notin AtRest
  BY DEF MarkIndexing, IInv, CallHasJob, JobOf, AtRest
<1>2. CASE Raise(w) /\ UNCHANGED jobs
  BY <1>2, KeepsStore DEF MarkIndexing, store
<1>3. CASE /\ JobOf(w).status \in {"staged", "indexing", "failed"}
           /\ SetStatus(call[w].key, "indexing")
           /\ Goto(w, "embed") \/ Raise(w)
  <2>1. StoreInv' /\ JobsKept
    BY <1>1, <1>3, StatusStoreInv DEF MarkIndexing, JobOf
  <2>2. CASE Raise(w)
    BY <2>1, <2>2, LeaveAllowed, StepInv DEF Raise
  <2>3. CASE Goto(w, "embed")
    <3>1. Allowed([call[w] EXCEPT !.pc = "embed"])
      BY <1>1, <2>1, LeaveAllowed DEF Step
    <3> QED
      BY <2>1, <2>3, <3>1, StepInv DEF Goto
  <2> QED
    BY <1>3, <2>2, <2>3
<1> QED
  BY <1>2, <1>3 DEF MarkIndexing

LEMMA MarkFailedInv ==
    ASSUME IInv, NEW w \in Worker, MarkFailed(w)
    PROVE  IInv'
<1>1. call[w].key \in Key /\ JobOf(w) \in Job
  BY DEF MarkFailed, IInv, CallHasJob, JobOf
<1>2. CASE UNCHANGED jobs
  BY <1>2, KeepsStore DEF MarkFailed, store
<1>3. CASE JobOf(w).status = "indexing" /\ SetStatus(call[w].key, "failed")
  <2>1. StoreInv' /\ JobsKept
    BY <1>1, <1>3, StatusStoreInv DEF MarkFailed, JobOf
  <2> QED
    BY <2>1, LeaveAllowed, StepInv DEF MarkFailed, Raise
<1> QED
  BY <1>2, <1>3 DEF MarkFailed

LEMMA MarkIndexedInv ==
    ASSUME IInv, NEW w \in Worker, MarkIndexed(w)
    PROVE  IInv'
<1> DEFINE k == call[w].key
<1>1. k \in Key /\ jobs[k] \in Job /\ call[w].pc \notin AtRest /\ JobOf(w) = jobs[k]
  BY DEF MarkIndexed, IInv, CallHasJob, JobOf, AtRest
<1>2. CASE Goto(w, "failing") /\ UNCHANGED <<jobs, current>>
  BY <1>1, <1>2, KeepsStore DEF MarkIndexed, store
<1>3. CASE /\ jobs[k].status = "indexing"
           /\ SetStatus(k, "indexed")
           /\ current' = [current EXCEPT ![jobs[k].source] = k]
           /\ Return(w) \/ Goto(w, "failing")
  <2>1. StoreInv' /\ JobsKept
    BY <1>1, <1>3, StatusStoreInv DEF MarkIndexed
  <2>2. CASE Goto(w, "failing")
    <3>1. Allowed([call[w] EXCEPT !.pc = "failing"])
      BY <1>1, <2>1, LeaveAllowed DEF Step
    <3> QED
      BY <2>1, <2>2, <3>1, StepInv DEF Goto
  <2>3. CASE Return(w)
    <3>1. jobs'[k] \in Job /\ jobs'[k].status = "indexed"
      BY <1>1, <1>3 DEF SetStatus, IInv, TypeOK, Job
    <3>2. Allowed([pc |-> "returned", key |-> k, at |-> 1])
      BY <1>1, <3>1 DEF Allowed, Call, Step, AtRest
    <3> QED
      BY <2>1, <2>3, <3>2, StepInv DEF Return, Enter
  <2> QED
    BY <1>3, <2>2, <2>3
<1> QED
  BY <1>1, <1>2, <1>3 DEF MarkIndexed

\* A change of the index alone that brings in staged content only.
LEMMA IndexStoreInv ==
    ASSUME IInv, UNCHANGED <<jobs, versions, edges, current>>,
           index' \in [Source -> [Chunk -> Version \cup {None}]],
           IndexHoldsStagedContent'
    PROVE  StoreInv' /\ JobsKept
BY DEF IInv, TypeOK, StoreInv, JobsKept, PublishedIsIndexed, JobMatchesVersion

LEMMA DeleteVectorsInv ==
    ASSUME IInv, NEW w \in Worker, DeleteVectors(w)
    PROVE  IInv'
<1>1. /\ call[w].pc \notin AtRest
      /\ JobOf(w).source \in Source
      /\ UNCHANGED <<jobs, versions, edges, current>>
  BY DEF DeleteVectors, IInv, CallHasJob, JobOf, AtRest, Job
<1>2. PICK kept \in SUBSET Chunk :
         index' = [index EXCEPT ![JobOf(w).source] =
                     [c \in Chunk |-> IF c \in kept THEN index[JobOf(w).source][c] ELSE None]]
  BY DEF DeleteVectors
<1>3. index' \in [Source -> [Chunk -> Version \cup {None}]]
  BY <1>1, <1>2 DEF IInv, TypeOK
<1>4. \A s \in Source, c \in Chunk : index'[s][c] \in {None, index[s][c]}
  BY <1>1, <1>2 DEF IInv, TypeOK
<1>5. StoreInv' /\ JobsKept
  <2>1. IndexHoldsStagedContent'
    BY <1>1, <1>4 DEF IInv, IndexHoldsStagedContent
  <2> QED
    BY <1>1, <1>3, <2>1, IndexStoreInv
<1>6. PICK pc \in {"insert", "failing"} : Goto(w, pc)
  BY DEF DeleteVectors
<1>7. Allowed([call[w] EXCEPT !.pc = pc])
  BY <1>1, <1>5, LeaveAllowed DEF Step
<1> QED
  BY <1>5, <1>6, <1>7, StepInv DEF Goto

LEMMA InsertVectorInv ==
    ASSUME IInv, NEW w \in Worker, InsertVector(w)
    PROVE  IInv'
<1> DEFINE row == JobOf(w)
           at == call[w].at
           c == Content[row.payload][at]
<1>1. /\ call[w].pc \notin AtRest
      /\ row \in Job
      /\ row.source \in Source /\ row.version \in Version /\ row.payload \in Payload
      /\ versions[<<row.source, row.version>>] = row.payload
      /\ call[w] \in Call
  BY NoneAssumption
     DEF InsertVector, IInv, TypeOK, CallHasJob, JobOf, AtRest, Job, JobMatchesVersion
<1>2. CASE Goto(w, "failing") /\ UNCHANGED index
  BY <1>1, <1>2, KeepsStore DEF InsertVector, store
<1>3. CASE /\ index' = [index EXCEPT ![row.source][c] = row.version]
           /\ \/ call' = [call EXCEPT ![w].at = @ + 1]
              \/ Goto(w, "failing")
  <2>1. at \in 1..Len(Content[row.payload]) /\ Content[row.payload] \in Seq(Chunk)
    BY <1>1, ContentAssumption DEF InsertVector, Call
  <2>2. c \in Chunk /\ c \in ChunksOf(row.payload)
    BY <2>1 DEF ChunksOf
  <2>3. index' \in [Source -> [Chunk -> Version \cup {None}]]
    BY <1>1, <1>3, <2>2 DEF IInv, TypeOK
  <2>4. IndexHoldsStagedContent'
    <3> SUFFICES ASSUME NEW s \in Source, NEW d \in Chunk, index'[s][d] # None
                 PROVE  LET p == versions[<<s, index'[s][d]>>]
                        IN  p # None /\ d \in ChunksOf(p)
      BY DEF IndexHoldsStagedContent, InsertVector
    <3>1. CASE s = row.source /\ d = c
      <4>1. index'[s][d] = row.version
        BY <1>1, <1>3, <2>2, <3>1 DEF IInv, TypeOK
      <4> QED
        BY <1>1, <2>2, <3>1, <4>1, NoneAssumption
    <3>2. CASE ~(s = row.source /\ d = c)
      <4>1. index'[s][d] = index[s][d]
        BY <1>1, <1>3, <2>2, <3>2 DEF IInv, TypeOK
      <4> QED
        BY <4>1 DEF IInv, IndexHoldsStagedContent
    <3> QED
      BY <3>1, <3>2
  <2>5. StoreInv' /\ JobsKept
    BY <2>3, <2>4, IndexStoreInv DEF InsertVector
  <2>6. CASE Goto(w, "failing")
    <3>1. Allowed([call[w] EXCEPT !.pc = "failing"])
      BY <1>1, <2>5, LeaveAllowed DEF Step
    <3> QED
      BY <2>5, <2>6, <3>1, StepInv DEF Goto
  <2>7. CASE call' = [call EXCEPT ![w].at = @ + 1]
    <3>1. call' = [call EXCEPT ![w] = [call[w] EXCEPT !.at = at + 1]]
      BY <2>7
    <3>2. Allowed([call[w] EXCEPT !.at = at + 1])
      BY <1>1, <2>5 DEF Allowed, Call, AtRest, IInv, CallHasJob, JobsKept
    <3> QED
      BY <2>5, <3>1, <3>2, StepInv
  <2> QED
    BY <1>3, <2>6, <2>7
<1> QED
  BY <1>2, <1>3 DEF InsertVector

LEMMA IngestInv ==
    ASSUME IInv, NEW w \in Worker, NEW c \in Ingestible, Ingest(w, c)
    PROVE  IInv'
<1>1. CASE StageKnownJob(w, c)
  BY <1>1, LoadInv DEF StageKnownJob, Ingestible
<1>2. CASE StageNewJob(w, c)
  BY <1>2, StageNewJobInv
<1>3. CASE StageRaises(w)
  BY <1>3, KeepsStore DEF StageRaises
<1> QED
  BY <1>1, <1>2, <1>3 DEF Ingest

LEMMA RetryInv ==
    ASSUME IInv, NEW w \in Worker, NEW k \in Key, Retry(w, k)
    PROVE  IInv'
BY LoadInv, KeepsStore DEF Retry

LEMMA ProcessInv ==
    ASSUME IInv, NEW w \in Worker, Process(w)
    PROVE  IInv'
<1>1. CASE MarkIndexing(w)
  BY <1>1, MarkIndexingInv
<1>2. CASE EmbeddingFails(w)
  BY <1>2, KeepsStore DEF EmbeddingFails, AtRest
<1>3. CASE DeleteVectors(w)
  BY <1>3, DeleteVectorsInv
<1>4. CASE InsertVector(w)
  BY <1>4, InsertVectorInv
<1>5. CASE MarkIndexed(w)
  BY <1>5, MarkIndexedInv
<1>6. CASE MarkFailed(w)
  BY <1>6, MarkFailedInv
<1>7. CASE Crash(w)
  BY <1>7, KeepsStore DEF Crash
<1> QED
  BY <1>1, <1>2, <1>3, <1>4, <1>5, <1>6, <1>7 DEF Process

LEMMA NextInv == IInv /\ [Next]_vars => IInv'
<1> SUFFICES ASSUME IInv, [Next]_vars PROVE IInv'
  OBVIOUS
<1>1. CASE Next
  BY <1>1, IngestInv, RetryInv, ProcessInv, CommandAssumption DEF Next, Ingestible
<1>2. CASE UNCHANGED vars
  BY <1>2 DEF vars, IInv, TypeOK, CallHasJob, PublishedIsIndexed, JobMatchesVersion,
              ReturnedMeansIndexed, IndexHoldsStagedContent, JobOf
<1> QED
  BY <1>1, <1>2

LEMMA InvariantHolds == Spec => []IInv
BY InitIInv, NextInv, PTL DEF Spec

\* The variables keep their types (the tables, the index and the workers).
THEOREM TypeCorrect == Spec => []TypeOK
BY InvariantHolds, PTL DEF IInv

\* However many workers, crashes and lost answers: a source points only at a
\* completely indexed job of its own.
THEOREM PublishedAlwaysIndexed == Spec => []PublishedIsIndexed
BY InvariantHolds, PTL DEF IInv

\* No two jobs of one source version ever disagree on its content.
THEOREM VersionContentFixed == Spec => []JobMatchesVersion
BY InvariantHolds, PTL DEF IInv

\* A call answers "indexed" only for a job that is, and remains, indexed.
THEOREM AnswersAreTrue == Spec => []ReturnedMeansIndexed
BY InvariantHolds, PTL DEF IInv

\* Nothing enters the vector index that PostgreSQL does not hold.
THEOREM IndexIsRebuildable == Spec => []IndexHoldsStagedContent
BY InvariantHolds, PTL DEF IInv

-----------------------------------------------------------------------------
(* Refinement of JobLifecycle. *)

LEMMA StatusOf ==
    ASSUME IInv, NEW k \in Key, jobs[k] \in Job
    PROVE  JobStatus[k] = jobs[k].status
BY NoneAssumption DEF JobStatus

\* Writing the status of one existing row is one Move of the lifecycle.
LEMMA SetStatusMoves ==
    ASSUME IInv, NEW k \in Key, jobs[k] \in Job,
           NEW to \in {"staged", "indexing", "indexed", "failed"}, SetStatus(k, to)
    PROVE  JobStatus' = [JobStatus EXCEPT ![k] = to]
<1>1. jobs' = [jobs EXCEPT ![k] = [jobs[k] EXCEPT !.status = to]]
  BY DEF SetStatus
<1>2. [jobs[k] EXCEPT !.status = to] \in Job /\ [jobs[k] EXCEPT !.status = to].status = to
  BY DEF Job
<1>3. jobs'[k] # None /\ jobs'[k].status = to
  BY <1>1, <1>2, NoneAssumption DEF IInv, TypeOK
<1>4. \A j \in Key : j # k => jobs'[j] = jobs[j]
  BY <1>1 DEF IInv, TypeOK
<1> QED
  BY <1>3, <1>4 DEF JobStatus

LEMMA LifecycleStep ==
    IInv /\ [Next]_vars => [Lifecycle!LifecycleNext]_(Lifecycle!lifecycleVars)
<1> SUFFICES ASSUME IInv, [Next]_vars
             PROVE  [Lifecycle!LifecycleNext]_(Lifecycle!lifecycleVars)
  OBVIOUS
<1> USE DEF Lifecycle!LifecycleNext, Lifecycle!lifecycleVars
<1>1. CASE UNCHANGED <<jobs, current>>
  BY <1>1 DEF JobStatus
<1>2. ASSUME NEW w \in Worker, NEW c \in Command, StageNewJob(w, c)
      PROVE  \E k \in Key : Lifecycle!StageJob(k)
  <2>1. /\ c.key \in Key
        /\ jobs[c.key] = None
        /\ [source |-> c.source, version |-> c.version,
            payload |-> c.payload, status |-> "staged"] \in Job
    BY <1>2, CommandAssumption DEF StageNewJob, Job
  <2>2. jobs'[c.key] # None /\ jobs'[c.key].status = "staged"
    BY <1>2, <2>1, NoneAssumption DEF StageNewJob, IInv, TypeOK
  <2>3. JobStatus' = [JobStatus EXCEPT ![c.key] = "staged"]
    BY <1>2, <2>1, <2>2 DEF StageNewJob, JobStatus, IInv, TypeOK
  <2>4. JobStatus[c.key] = "absent"
    BY <2>1 DEF JobStatus
  <2> QED
    BY <1>2, <2>1, <2>3, <2>4 DEF Lifecycle!StageJob, Lifecycle!Move, StageNewJob
<1>3. ASSUME NEW w \in Worker, MarkIndexing(w), ~UNCHANGED <<jobs, current>>
      PROVE  \E k \in Key : Lifecycle!BeginJob(k)
  <2>1. call[w].key \in Key /\ JobOf(w) \in Job /\ JobOf(w) = jobs[call[w].key]
    BY <1>3 DEF MarkIndexing, IInv, CallHasJob, JobOf
  <2> QED
    BY <1>3, <2>1, SetStatusMoves, StatusOf
       DEF MarkIndexing, Lifecycle!BeginJob, Lifecycle!Move
<1>4. ASSUME NEW w \in Worker, MarkIndexed(w), ~UNCHANGED <<jobs, current>>
      PROVE  \E k \in Key, s \in Source : Lifecycle!PublishJob(k, s)
  <2>1. /\ call[w].key \in Key /\ JobOf(w) \in Job /\ JobOf(w) = jobs[call[w].key]
        /\ JobOf(w).source \in Source
    BY <1>4 DEF MarkIndexed, IInv, CallHasJob, JobOf, Job
  <2> QED
    BY <1>4, <2>1, SetStatusMoves, StatusOf
       DEF MarkIndexed, Lifecycle!PublishJob, Lifecycle!Move
<1>5. ASSUME NEW w \in Worker, MarkFailed(w), ~UNCHANGED <<jobs, current>>
      PROVE  \E k \in Key : Lifecycle!FailJob(k)
  <2>1. call[w].key \in Key /\ JobOf(w) \in Job /\ JobOf(w) = jobs[call[w].key]
    BY <1>5 DEF MarkFailed, IInv, CallHasJob, JobOf
  <2> QED
    BY <1>5, <2>1, SetStatusMoves, StatusOf
       DEF MarkFailed, Lifecycle!FailJob, Lifecycle!Move
<1>6. CASE Next /\ ~UNCHANGED <<jobs, current>>
  <2>1. PICK w \in Worker : \/ \E c \in Command : StageNewJob(w, c)
                            \/ MarkIndexing(w)
                            \/ MarkIndexed(w)
                            \/ MarkFailed(w)
    BY <1>6 DEF Next, Ingest, StageKnownJob, StageRaises, Retry, Process, EmbeddingFails,
                DeleteVectors, InsertVector, Crash, store
  <2> QED
    BY <1>2, <1>3, <1>4, <1>5, <1>6, <2>1
<1> QED
  BY <1>1, <1>6 DEF vars

\* The job table implements the lifecycle, whatever the workers do.
THEOREM Refinement == Spec => ImplementsLifecycle
<1>1. Init => Lifecycle!LifecycleInit
  BY DEF Init, Lifecycle!LifecycleInit, JobStatus
<1> QED
  BY <1>1, LifecycleStep, InvariantHolds, PTL
     DEF Spec, ImplementsLifecycle, Lifecycle!LifecycleSpec

-----------------------------------------------------------------------------
(* One worker at a time: no loss is silent. *)

OneWorker == \A v, w \in Worker : v = w

\* What a lone worker has written so far.
Written(w) ==
    LET row == JobOf(w) IN
    \A i \in 1..Len(Content[row.payload]) :
        i < call[w].at => index[row.source][Content[row.payload][i]] = row.version

SerialCalls ==
    \A w \in Worker :
       /\ call[w].pc \in {"embed", "insert"} => JobOf(w).status = "indexing"
       /\ call[w].pc \in {"loaded", "embed"} => call[w].at = 1
       /\ call[w].pc = "insert" => Written(w)

\* LossIsExplicit of the sources that nothing else explains.
Explained(D) == \A s \in Source \ D : current[s] # None => Complete(s) \/ HasOpenJob(s)

SerialInv(D) == SerialCalls /\ Explained(D)

\* The part of SerialInv about workers holds after a step that takes the only
\* worker to a place where it promises nothing.
LEMMA SerialRests ==
    ASSUME OneWorker, NEW D, Explained(D)', NEW w \in Worker,
           call'[w].pc \notin {"embed", "insert"},
           call'[w].pc = "loaded" => call'[w].at = 1
    PROVE  SerialInv(D)'
BY DEF OneWorker, SerialInv, SerialCalls

LEMMA LossUnchanged ==
    ASSUME NEW D, Explained(D), UNCHANGED store
    PROVE  Explained(D)'
BY DEF Explained, store, Complete, HasOpenJob

\* Whatever happens to the index of one source, an open job of it explains it.
LEMMA OpenJobExplains ==
    ASSUME IInv, NEW D, Explained(D), NEW k \in Key, jobs[k] \in Job,
           jobs[k].status = "indexing",
           UNCHANGED <<jobs, current>>,
           \A s \in Source : s # jobs[k].source => index'[s] = index[s]
    PROVE  Explained(D)'
<1> SUFFICES ASSUME NEW s \in Source \ D, current'[s] # None
             PROVE  (Complete(s) \/ HasOpenJob(s))'
  BY DEF Explained
<1>1. CASE s = jobs[k].source
  BY <1>1, NoneAssumption DEF HasOpenJob
<1>2. CASE s # jobs[k].source
  BY <1>2 DEF Explained, Complete, HasOpenJob
<1> QED
  BY <1>1, <1>2

\* Opening a job, or turning an open job into a failed one, hides nothing.
LEMMA StaysOpen ==
    ASSUME IInv, NEW D, Explained(D), NEW k \in Key, jobs[k] \in Job,
           jobs[k].status # "indexed",
           NEW to \in {"indexing", "failed"}, SetStatus(k, to),
           UNCHANGED <<current, index>>
    PROVE  Explained(D)'
<1>1. /\ jobs' = [jobs EXCEPT ![k] = [jobs[k] EXCEPT !.status = to]]
      /\ jobs'[k] \in Job /\ jobs'[k].status = to /\ jobs'[k].source = jobs[k].source
      /\ \A j \in Key : j # k => jobs'[j] = jobs[j]
  BY DEF SetStatus, Job, IInv, TypeOK
<1> SUFFICES ASSUME NEW s \in Source \ D, current'[s] # None
             PROVE  (Complete(s) \/ HasOpenJob(s))'
  BY DEF Explained
<1>2. CASE s = jobs[k].source
  BY <1>1, <1>2, NoneAssumption DEF HasOpenJob
<1>3. CASE s # jobs[k].source
  <2>1. current[s] \in Key /\ current[s] # k
    BY <1>3 DEF IInv, TypeOK, PublishedIsIndexed
  <2>2. CASE Complete(s)
    BY <1>1, <2>1, <2>2 DEF Complete
  <2>3. CASE HasOpenJob(s)
    BY <1>1, <1>3, <2>3 DEF HasOpenJob
  <2> QED
    BY <2>2, <2>3 DEF Explained
<1> QED
  BY <1>2, <1>3

LEMMA SerialMarkIndexing ==
    ASSUME OneWorker, IInv, NEW D, SerialInv(D), NEW w \in Worker, MarkIndexing(w)
    PROVE  SerialInv(D)'
<1>1. call[w].key \in Key /\ JobOf(w) \in Job /\ JobOf(w) = jobs[call[w].key]
  BY DEF MarkIndexing, IInv, CallHasJob, JobOf
<1>2. CASE Raise(w) /\ UNCHANGED jobs
  BY <1>2, LossUnchanged, SerialRests
     DEF MarkIndexing, store, Raise, Left, IInv, TypeOK, SerialInv, SerialCalls
<1>3. CASE /\ JobOf(w).status \in {"staged", "indexing", "failed"}
           /\ SetStatus(call[w].key, "indexing")
           /\ Goto(w, "embed") \/ Raise(w)
  <2>1. Explained(D)'
    BY <1>1, <1>3, StaysOpen DEF MarkIndexing, SerialInv, SerialCalls
  <2>2. jobs'[call[w].key].status = "indexing"
    BY <1>1, <1>3 DEF SetStatus, IInv, TypeOK, Job
  <2>3. CASE Raise(w)
    BY <2>1, <2>3, SerialRests DEF Raise, Left, IInv, TypeOK
  <2>4. CASE Goto(w, "embed")
    <3>1. call' = [call EXCEPT ![w] = [call[w] EXCEPT !.pc = "embed"]]
      BY <2>4 DEF Goto
    <3>2. call[w] \in Call /\ call[w].at = 1
      BY DEF IInv, TypeOK, SerialInv, SerialCalls, MarkIndexing
    <3>3. call'[w].pc = "embed" /\ call'[w].key = call[w].key /\ call'[w].at = 1
      BY <3>1, <3>2 DEF Call, IInv, TypeOK
    <3> QED
      BY <2>1, <2>2, <3>3 DEF SerialInv, SerialCalls, JobOf, OneWorker
  <2> QED
    BY <1>3, <2>3, <2>4
<1> QED
  BY <1>2, <1>3 DEF MarkIndexing

\* What a lone worker knows while it is at work on its job.
LEMMA AtWork ==
    ASSUME IInv, NEW D, SerialInv(D), NEW w \in Worker,
           call[w].pc \in {"embed", "insert", "failing"}
    PROVE  /\ call[w] \in Call /\ call[w].key \in Key
           /\ JobOf(w) = jobs[call[w].key] /\ JobOf(w) \in Job
           /\ call[w].pc # "failing" => JobOf(w).status = "indexing"
           /\ Explained(D)
BY DEF IInv, TypeOK, CallHasJob, SerialInv, SerialCalls, JobOf

LEMMA SerialMarkFailed ==
    ASSUME OneWorker, IInv, NEW D, SerialInv(D), NEW w \in Worker, MarkFailed(w)
    PROVE  SerialInv(D)'
<1>1. call'[w].pc = "raised"
  BY DEF MarkFailed, Raise, Left, IInv, TypeOK
<1>2. Explained(D)'
  <2>1. CASE JobOf(w).status = "indexing" /\ SetStatus(call[w].key, "failed")
    BY <2>1, AtWork, StaysOpen DEF MarkFailed
  <2>2. CASE UNCHANGED jobs
    BY <2>2, AtWork, LossUnchanged DEF MarkFailed, store
  <2> QED
    BY <2>1, <2>2 DEF MarkFailed
<1> QED
  BY <1>1, <1>2, SerialRests

LEMMA SerialDeleteVectors ==
    ASSUME OneWorker, IInv, NEW D, SerialInv(D), NEW w \in Worker, DeleteVectors(w)
    PROVE  SerialInv(D)'
<1> DEFINE s == JobOf(w).source
<1>1. /\ call[w] \in Call /\ call[w].pc = "embed" /\ call[w].key \in Key
      /\ JobOf(w) = jobs[call[w].key] /\ JobOf(w) \in Job
      /\ JobOf(w).status = "indexing" /\ Explained(D) /\ s \in Source
  BY AtWork DEF DeleteVectors, Job
<1>2. index \in [Source -> [Chunk -> Version \cup {None}]] /\ call \in [Worker -> Call]
  BY DEF IInv, TypeOK
<1>3. \A r \in Source : r # s => index'[r] = index[r]
  BY <1>1, <1>2 DEF DeleteVectors
<1>4. Explained(D)'
  BY <1>1, <1>3, OpenJobExplains DEF DeleteVectors
<1>5. CASE Goto(w, "failing")
  BY <1>2, <1>4, <1>5, SerialRests DEF Goto, Call
<1>6. CASE Goto(w, "insert")
  <2>1. call' = [call EXCEPT ![w] = [call[w] EXCEPT !.pc = "insert"]]
    BY <1>6 DEF Goto
  <2>2. call'[w].pc = "insert" /\ call'[w].key = call[w].key /\ call'[w].at = call[w].at
    BY <1>1, <1>2, <2>1 DEF Call
  <2>3. JobOf(w)' = JobOf(w)
    BY <2>2 DEF DeleteVectors, JobOf
  <2>4. call[w].at = 1
    BY <1>1 DEF SerialInv, SerialCalls
  <2>5. Written(w)'
    BY <2>2, <2>3, <2>4 DEF Written
  <2> QED
    BY <1>1, <1>4, <2>2, <2>3, <2>5 DEF SerialInv, SerialCalls, OneWorker
<1> QED
  BY <1>5, <1>6 DEF DeleteVectors

LEMMA SerialInsertVector ==
    ASSUME OneWorker, IInv, NEW D, SerialInv(D), NEW w \in Worker, InsertVector(w)
    PROVE  SerialInv(D)'
<1> DEFINE row == JobOf(w)
           s == row.source
           chunks == Content[row.payload]
           at == call[w].at
           c == chunks[at]
<1>1. /\ call[w] \in Call /\ call[w].pc = "insert" /\ call[w].key \in Key
      /\ row = jobs[call[w].key] /\ row \in Job
      /\ row.status = "indexing" /\ Explained(D) /\ s \in Source
      /\ Written(w)
  BY AtWork DEF InsertVector, Job, SerialInv, SerialCalls
<1>2. index \in [Source -> [Chunk -> Version \cup {None}]] /\ call \in [Worker -> Call]
  BY DEF IInv, TypeOK
<1>3. \A r \in Source : r # s => index'[r] = index[r]
  BY <1>1, <1>2 DEF InsertVector
<1>4. Explained(D)'
  BY <1>1, <1>3, OpenJobExplains DEF InsertVector
<1>5. CASE Goto(w, "failing")
  BY <1>2, <1>4, <1>5, SerialRests DEF Goto, Call
<1>6. CASE /\ index' = [index EXCEPT ![s][c] = row.version]
           /\ call' = [call EXCEPT ![w].at = @ + 1]
  <2>1. call'[w].pc = "insert" /\ call'[w].key = call[w].key /\ call'[w].at = at + 1
    BY <1>1, <1>2, <1>6 DEF Call
  <2>2. JobOf(w)' = row
    BY <2>1 DEF InsertVector, JobOf
  <2>3. /\ chunks \in Seq(Chunk) /\ at \in 1..Len(chunks) /\ c \in Chunk
        /\ \A i, j \in 1..Len(chunks) : chunks[i] = chunks[j] => i = j
    <3>1. row.payload \in Payload /\ at \in Nat \ {0} /\ at <= Len(chunks)
      BY <1>1 DEF Job, Call, InsertVector
    <3>2. /\ chunks \in Seq(Chunk)
          /\ \A i, j \in 1..Len(chunks) : chunks[i] = chunks[j] => i = j
      BY <3>1, ContentAssumption
    <3> QED
      BY <3>1, <3>2
  <2>4. Written(w)'
    <3> SUFFICES ASSUME NEW i \in 1..Len(chunks), i < at + 1
                 PROVE  index'[s][chunks[i]] = row.version
      BY <2>1, <2>2 DEF Written
    <3>1. chunks[i] \in Chunk
      BY <2>3
    <3>2. CASE i = at
      BY <1>1, <1>2, <1>6, <2>3, <3>2
    <3>3. CASE i # at
      <4>1. chunks[i] # c /\ i < at
        BY <2>3, <3>3
      <4>2. index'[s][chunks[i]] = index[s][chunks[i]]
        BY <1>1, <1>2, <1>6, <3>1, <4>1
      <4> QED
        BY <1>1, <4>1, <4>2 DEF Written
    <3> QED
      BY <3>2, <3>3
  <2> QED
    BY <1>1, <1>4, <2>1, <2>2, <2>4 DEF SerialInv, SerialCalls, OneWorker
<1> QED
  BY <1>5, <1>6 DEF InsertVector

LEMMA SerialMarkIndexed ==
    ASSUME OneWorker, IInv, NEW D, SerialInv(D), NEW w \in Worker, MarkIndexed(w)
    PROVE  SerialInv(D)'
<1> DEFINE row == JobOf(w)
           s == row.source
           k == call[w].key
           chunks == Content[row.payload]
<1>1. /\ call[w] \in Call /\ call[w].pc = "insert" /\ k \in Key
      /\ row = jobs[k] /\ row \in Job
      /\ row.status = "indexing" /\ Explained(D) /\ s \in Source
      /\ Written(w)
  BY AtWork DEF MarkIndexed, Job, SerialInv, SerialCalls
<1>2. call \in [Worker -> Call] /\ jobs \in [Key -> Job \cup {None}]
      /\ current \in [Source -> Key \cup {None}]
  BY DEF IInv, TypeOK
<1>3. call'[w].pc \in {"returned", "failing"}
  BY <1>2 DEF MarkIndexed, Return, Enter, Goto, Call
<1>4. CASE UNCHANGED <<jobs, current>>
  BY <1>1, <1>3, <1>4, LossUnchanged, SerialRests DEF MarkIndexed, store
<1>5. CASE /\ SetStatus(k, "indexed")
           /\ current' = [current EXCEPT ![s] = k]
  <2>1. /\ jobs'[k] = [row EXCEPT !.status = "indexed"]
        /\ \A j \in Key : j # k => jobs'[j] = jobs[j]
    BY <1>1, <1>2, <1>5 DEF SetStatus
  <2>2. /\ jobs'[k].source = s /\ jobs'[k].payload = row.payload
        /\ jobs'[k].version = row.version
    BY <1>1, <2>1 DEF Job
  <2>3. UNCHANGED index
    BY DEF MarkIndexed
  <2>4. ASSUME NEW r \in Source, r = s PROVE Complete(r)'
    <3> SUFFICES ASSUME NEW c \in ChunksOf(row.payload)
                 PROVE  index[s][c] = row.version
      <4>1. current'[r] = k
        BY <1>1, <1>2, <1>5, <2>4
      <4> QED
        BY <4>1, <2>2, <2>3, <2>4 DEF Complete
    <3>1. chunks \in Seq(Chunk) /\ call[w].at \in Nat /\ call[w].at > Len(chunks)
      BY <1>1, ContentAssumption DEF Job, Call, MarkIndexed
    <3>2. \A i \in 1..Len(chunks) : i < call[w].at
      BY <3>1
    <3> QED
      BY <1>1, <3>2 DEF Written, ChunksOf
  <2>5. Explained(D)'
    <3> SUFFICES ASSUME NEW r \in Source \ D, current'[r] # None, r # s
                 PROVE  Complete(r)' \/ HasOpenJob(r)'
      BY <2>4 DEF Explained
    <3>1. current'[r] = current[r] /\ current[r] \in Key /\ current[r] # k
      BY <1>1, <1>2, <1>5, NoneAssumption DEF IInv, PublishedIsIndexed
    <3>2. CASE Complete(r)
      BY <2>1, <2>3, <3>1, <3>2 DEF Complete
    <3>3. CASE HasOpenJob(r)
      BY <1>1, <2>1, <3>3 DEF HasOpenJob
    <3> QED
      BY <1>1, <3>1, <3>2, <3>3 DEF Explained
  <2> QED
    BY <1>3, <2>5, SerialRests
<1> QED
  BY <1>4, <1>5 DEF MarkIndexed

LEMMA SerialStage ==
    ASSUME OneWorker, IInv, NEW D, SerialInv(D), NEW w \in Worker, NEW c \in Ingestible, Ingest(w, c)
    PROVE  SerialInv(D)'
<1>1. Explained(D) /\ call \in [Worker -> Call]
  BY DEF SerialInv, SerialCalls, IInv, TypeOK
<1>2. CASE StageKnownJob(w, c)
  BY <1>1, <1>2, LossUnchanged, SerialRests DEF StageKnownJob, Enter, Loaded
<1>3. CASE StageNewJob(w, c)
  <2>1. /\ c.key \in Key /\ jobs[c.key] = None
        /\ \A j \in Key : j # c.key => jobs'[j] = jobs[j]
        /\ UNCHANGED <<current, index>>
    BY <1>3 DEF Ingestible, StageNewJob, IInv, TypeOK
  <2>2. Explained(D)'
    <3> SUFFICES ASSUME NEW s \in Source \ D, current[s] # None
                 PROVE  (Complete(s) \/ HasOpenJob(s))'
      BY <2>1 DEF Explained
    <3>1. current[s] \in Key /\ current[s] # c.key
      BY <2>1 DEF IInv, TypeOK, PublishedIsIndexed
    <3>2. CASE Complete(s)
      BY <2>1, <3>1, <3>2 DEF Complete
    <3>3. CASE HasOpenJob(s)
      BY <2>1, <3>3 DEF HasOpenJob
    <3> QED
      BY <1>1, <3>2, <3>3 DEF Explained
  <2> QED
    BY <1>1, <1>3, <2>2, SerialRests DEF StageNewJob, Enter, Raise, Left
<1>4. CASE StageRaises(w)
  BY <1>1, <1>4, LossUnchanged, SerialRests DEF StageRaises, Raise, Left
<1> QED
  BY <1>2, <1>3, <1>4 DEF Ingest

\* Steps that leave the store alone and the worker outside of its work.
LEMMA SerialAtRest ==
    ASSUME OneWorker, IInv, NEW D, SerialInv(D), NEW w \in Worker, UNCHANGED store,
           call'[w].pc \notin {"embed", "insert"},
           call'[w].pc = "loaded" => call'[w].at = 1
    PROVE  SerialInv(D)'
BY LossUnchanged, SerialRests DEF SerialInv

LEMMA SerialRetry ==
    ASSUME OneWorker, IInv, NEW D, SerialInv(D), NEW w \in Worker, NEW k \in Key, Retry(w, k)
    PROVE  SerialInv(D)'
BY SerialAtRest DEF Retry, Enter, Loaded, Raise, Left, IInv, TypeOK

LEMMA SerialProcess ==
    ASSUME OneWorker, IInv, NEW D, SerialInv(D), NEW w \in Worker, Process(w)
    PROVE  SerialInv(D)'
<1>1. CASE EmbeddingFails(w) \/ Crash(w)
  BY <1>1, SerialAtRest DEF EmbeddingFails, Crash, Goto, NotCalled, Left, IInv, TypeOK, Call
<1> QED
  BY <1>1, SerialMarkIndexing, SerialDeleteVectors, SerialInsertVector,
     SerialMarkIndexed, SerialMarkFailed DEF Process

LEMMA SerialNext ==
    ASSUME OneWorker, IInv, NEW D, SerialInv(D), [Next]_vars
    PROVE  SerialInv(D)'
<1>1. CASE UNCHANGED vars
  <2>1. Explained(D)'
    BY <1>1, LossUnchanged DEF vars, store, SerialInv
  <2> QED
    BY <1>1, <2>1 DEF vars, SerialInv, SerialCalls, JobOf, Written
<1>2. ASSUME NEW w \in Worker, NEW c \in Command, Ingest(w, c)
      PROVE  SerialInv(D)'
  BY <1>2, SerialStage, CommandAssumption DEF Ingestible
<1> QED
  BY <1>1, <1>2, SerialRetry, SerialProcess DEF Next

\* "No hidden fallback or silent data loss is permitted": while one worker at a
\* time ingests and retries, whatever fails or dies and whatever deletions leave behind, a published source
\* that misses a chunk of its current version in the index has a job that says so.
THEOREM NoLossIsSilent == OneWorker /\ Spec => []LossIsExplicit
<1>1. Init => SerialInv({})
  BY DEF Init, SerialInv, SerialCalls, Explained, NotCalled, Left
<1>2. SerialInv({}) => LossIsExplicit
  BY DEF SerialInv, Explained, LossIsExplicit
<1> SUFFICES ASSUME OneWorker PROVE Spec => []LossIsExplicit
  OBVIOUS
<1>3. IInv /\ SerialInv({}) /\ [Next]_vars => SerialInv({})'
  BY SerialNext
<1> QED
  BY <1>1, <1>2, <1>3, InvariantHolds, PTL DEF Spec

-----------------------------------------------------------------------------
(* The import: where an execution stands, and what it may rely on there.   *)

Importing == {"staging", "relating", "deleting"}
StagedUpto(n) == \A i \in 1..n :
    jobs[Plan[i].key] # None /\ jobs[Plan[i].key].status = "indexed"

\* What a worker may rely on where it stands in execute().
ImporterOf(w) == LET i == importer[w] IN
    /\ i.phase # "stopped" => Accepted
    /\ i.step = "ingesting" => i.phase = "staging"
    /\ i.step = "drop" => i.phase = "deleting"
    /\ i.step = "record" => i.phase \in {"relating", "deleting"}
    /\ i.step # "do" => i.at <= Items(i.phase)
    /\ i.phase \in Importing => i.at <= Items(i.phase) + 1
    /\ i.phase = "staging" => StagedUpto(i.at - 1)
    /\ i.step = "ingesting" /\ call[w].pc # "raised" => call[w].key = Plan[i.at].key
    /\ i.phase \in {"relating", "deleting"} => SourcesStaged

\* Every job is an earlier import's, which is indexed, or one of the plan.
Planned(k) == Accepted /\ \E i \in 1..Len(Plan) : Plan[i].key = k
JobsPlanned == \A k \in Key : jobs[k] # None => jobs[k].status = "indexed" \/ Planned(k)

ImportInv ==
    /\ IInv
    /\ ImportTypeOK
    /\ \A w \in Worker : ImporterOf(w)
    /\ JobsPlanned
    /\ run # None => Accepted
    /\ RelationshipsAfterSources

-----------------------------------------------------------------------------
(* What prepare() makes of the files of an import.                         *)

LEMMA FileTypes ==
    ASSUME NEW d \in Dataset
    PROVE  /\ d.nodes \in Seq(Node) /\ d.operations \in Seq(Operation) /\ d.edges \in Seq(Edge)
           /\ SourceVersions(d) \subseteq Source \X Version
           /\ \A sv \in Source \X Version : DeclaredTargets(d, sv) \subseteq Source \X Chunk
<1>1. d.nodes \in Seq(Node) /\ d.operations \in Seq(Operation) /\ d.edges \in Seq(Edge)
  BY DatasetAssumption DEF Files
<1>2. SourceVersions(d) \subseteq Source \X Version
  <2>1. \A n \in Nodes(d) : n \in Node
    BY <1>1 DEF Nodes, Read, Here
  <2>2. \A n \in Nodes(d) : VersionOf(n) \in Source \X Version
    BY <2>1 DEF Node, VersionOf
  <2> QED
    BY <2>2 DEF SourceVersions
<1>3. \A e \in Relationships(d) : e \in Edge
  BY <1>1 DEF Relationships, Related, Here
<1>4. \A sv \in Source \X Version : DeclaredTargets(d, sv) \subseteq Source \X Chunk
  BY <1>3 DEF DeclaredTargets, OwnedEdges, Edge
<1> QED
  BY <1>1, <1>2, <1>4

LEMMA AcceptedVersions ==
    ASSUME NEW d \in Dataset, Accepts(d), NEW sv \in SourceVersions(d)
    PROVE  /\ CommandOf(sv) \in Ingestible /\ Links[CommandOf(sv).payload] = {}
           /\ CommandOf(sv).key = sv /\ CommandOf(sv).source = sv[1] /\ CommandOf(sv).version = sv[2]
           /\ CommandOf(sv).payload = sv
<1>1. sv \in Source \X Version
  BY FileTypes
<1>2. sv \in Key \cap Payload /\ Links[sv] = {}
  BY DatasetAssumption
<1> QED
  BY <1>1, <1>2 DEF CommandOf, Ingestible

\* The versions of a source are all listed, and nothing else.
LEMMA ListedVersions ==
    ASSUME NEW d \in Dataset, NEW s \in Source
    PROVE  /\ VersionsListed(d, s) \in Seq(SourceVersions(d))
           /\ \A sv \in SourceVersions(d) : sv[1] = s => Contains(VersionsListed(d, s), sv)
<1> DEFINE places == Places(d.nodes)
           mine == {i \in FirstListed(d) : d.nodes[i].source = s}
           firsts == Keep(places, mine)
<1>1. d.nodes \in Seq(Node) /\ Len(d.nodes) \in Nat /\ DOMAIN d.nodes = 1..Len(d.nodes)
  BY FileTypes
<1>2. /\ places \in Seq(Nat) /\ Len(places) = Len(d.nodes)
      /\ \A i \in 1..Len(d.nodes) : places[i] = i
  BY <1>1 DEF Places
<1>3. /\ VersionsListed(d, s) = [i \in DOMAIN firsts |-> VersionOf(d.nodes[firsts[i]])]
  BY DEF VersionsListed
<1>4. mine \subseteq Here(d.nodes) /\ Here(d.nodes) \subseteq 1..Len(d.nodes)
  BY <1>1 DEF FirstListed, Here
<1>5. /\ firsts \in Seq(Nat)
      /\ \A i \in 1..Len(firsts) : firsts[i] \in mine
      /\ \A i \in 1..Len(places) : places[i] \in mine => Contains(firsts, places[i])
  <2> HIDE DEF places, mine
  <2> QED
    BY <1>2, KeepElements
<1>6. \A i \in mine : VersionOf(d.nodes[i]) \in SourceVersions(d)
  BY <1>4 DEF SourceVersions, Nodes, Read
<1> HIDE DEF places, firsts
<1>7. VersionsListed(d, s) \in Seq(SourceVersions(d))
  <2>1. DOMAIN firsts = 1..Len(firsts) /\ Len(firsts) \in Nat
    BY <1>5
  <2> QED
    BY <1>3, <1>5, <1>6, <2>1
<1>8. ASSUME NEW sv \in SourceVersions(d), sv[1] = s
      PROVE  Contains(VersionsListed(d, s), sv)
  <2> DEFINE listed == {i \in Here(d.nodes) : VersionOf(d.nodes[i]) = sv}
  <2>1. listed # {} /\ listed \subseteq Nat
    BY <1>4 DEF SourceVersions, Nodes, Read
  <2>2. PICK i \in listed : \A j \in listed : i <= j
    <3> HIDE DEF listed
    <3> QED
      BY <2>1, LeastOfNat
  <2>3. i \in 1..Len(d.nodes) /\ VersionOf(d.nodes[i]) = sv
    BY <1>4
  <2>4. d.nodes[i].source = s
    BY <1>8, <2>3 DEF VersionOf
  <2>5. \A j \in Here(d.nodes) : j < i => VersionOf(d.nodes[j]) # sv
    BY <1>4, <2>2, <2>3
  <2>6. i \in mine
    BY <2>2, <2>3, <2>4, <2>5 DEF FirstListed
  <2> HIDE DEF mine, listed
  <2>7. PICK k \in 1..Len(firsts) : firsts[k] = i
    BY <1>2, <1>5, <2>3, <2>6 DEF Contains
  <2>8. DOMAIN firsts = 1..Len(firsts)
    BY <1>5
  <2>9. VersionsListed(d, s)[k] = sv /\ Len(VersionsListed(d, s)) = Len(firsts)
    BY <1>3, <1>5, <2>3, <2>7, <2>8
  <2> QED
    BY <2>7, <2>9 DEF Contains
<1> QED
  BY <1>7, <1>8

LEMMA OrderedSources == \A s \in Source : Contains(SourceOrder, s)
<1> SUFFICES ASSUME NEW s \in Source PROVE Contains(SourceOrder, s)
  OBVIOUS
<1>1. Cardinality({i \in DOMAIN SourceOrder : SourceOrder[i] = s}) = 1 /\ SourceOrder \in Seq(Source)
  BY SourceOrderAssumption
<1>2. {i \in DOMAIN SourceOrder : SourceOrder[i] = s} # {}
  BY <1>1, FS_EmptySet
<1> QED
  BY <1>1, <1>2 DEF Contains

LEMMA CommandsListed ==
    ASSUME NEW d \in Dataset
    PROVE  /\ SourceCommands(d) \in Seq(SourceVersions(d))
           /\ \A sv \in SourceVersions(d) : Contains(SourceCommands(d), sv)
<1> DEFINE parts == [i \in DOMAIN SourceOrder |-> VersionsListed(d, SourceOrder[i])]
<1>1. SourceOrder \in Seq(Source)
  BY SourceOrderAssumption
<1>2. /\ parts \in Seq(Seq(SourceVersions(d)))
      /\ Len(parts) = Len(SourceOrder)
      /\ \A i \in 1..Len(SourceOrder) : parts[i] = VersionsListed(d, SourceOrder[i])
  <2>1. \A i \in 1..Len(SourceOrder) :
           SourceOrder[i] \in Source /\ VersionsListed(d, SourceOrder[i]) \in Seq(SourceVersions(d))
    BY <1>1, ListedVersions
  <2>2. DOMAIN SourceOrder = 1..Len(SourceOrder) /\ Len(SourceOrder) \in Nat
    BY <1>1
  <2> QED
    BY <2>1, <2>2
<1>3. SourceCommands(d) = Joined(parts)
  BY DEF SourceCommands
<1> HIDE DEF parts
<1>4. Joined(parts) \in Seq(SourceVersions(d))
  BY <1>2, JoinedElements
<1>5. ASSUME NEW sv \in SourceVersions(d) PROVE Contains(Joined(parts), sv)
  <2>1. sv[1] \in Source
    BY FileTypes
  <2>2. PICK k \in 1..Len(SourceOrder) : SourceOrder[k] = sv[1]
    BY <2>1, OrderedSources DEF Contains
  <2>3. Contains(VersionsListed(d, sv[1]), sv)
    BY <2>1, ListedVersions
  <2>4. PICK j \in 1..Len(parts[k]) : parts[k][j] = sv
    BY <1>2, <2>2, <2>3 DEF Contains
  <2>5. Contains(Joined(parts), parts[k][j])
    BY <1>2, JoinedElements
  <2> QED
    BY <2>4, <2>5
<1> QED
  BY <1>3, <1>4, <1>5

LEMMA SelectedListed ==
    ASSUME NEW d \in Dataset
    PROVE  /\ RelationshipCommands(d) \in Seq(SourceVersions(d))
           /\ \A i \in 1..Len(RelationshipCommands(d)) :
                 LET sv == RelationshipCommands(d)[i] IN
                 Contains(SourceCommands(d), sv) /\ CurrentVersions(d)[sv[1]] = sv[2]
           /\ \A sv \in SourceVersions(d) :
                 CurrentVersions(d)[sv[1]] = sv[2] => Contains(RelationshipCommands(d), sv)
<1> DEFINE active == {sv \in SourceVersions(d) : CurrentVersions(d)[sv[1]] = sv[2]}
           all == SourceCommands(d)
           kept == Keep(all, active)
<1>1. RelationshipCommands(d) = kept
  BY DEF RelationshipCommands
<1>2. all \in Seq(SourceVersions(d)) /\ \A sv \in SourceVersions(d) : Contains(all, sv)
  BY CommandsListed
<1>3. /\ kept \in Seq(SourceVersions(d))
      /\ \A i \in 1..Len(kept) : kept[i] \in active /\ Contains(all, kept[i])
      /\ \A i \in 1..Len(all) : all[i] \in active => Contains(kept, all[i])
  <2> HIDE DEF active, all
  <2> QED
    BY <1>2, KeepElements
<1>4. ASSUME NEW sv \in active PROVE Contains(kept, sv)
  <2>1. Contains(all, sv)
    BY <1>2
  <2>2. PICK i \in 1..Len(all) : all[i] = sv
    <3> HIDE DEF all, active, kept
    <3> QED
      BY <2>1 DEF Contains
  <2> HIDE DEF all, active, kept
  <2> QED
    BY <1>3, <2>2
<1> QED
  BY <1>1, <1>3, <1>4

LEMMA DeletionsListed ==
    ASSUME NEW d \in Dataset
    PROVE  /\ DeletionCommands(d) \in Seq(Source)
           /\ \A i \in 1..Len(DeletionCommands(d)) : DeletionCommands(d)[i] \in DeletedSources(d)
           /\ \A s \in Source : s \in DeletedSources(d) => Contains(DeletionCommands(d), s)
<1>1. SourceOrder \in Seq(Source)
  BY SourceOrderAssumption
<1> DEFINE gone == DeletedSources(d)
           kept == Keep(SourceOrder, gone)
<1>2. DeletionCommands(d) = kept
  BY DEF DeletionCommands
<1> HIDE DEF gone
<1>3. /\ kept \in Seq(Source)
      /\ \A i \in 1..Len(kept) : kept[i] \in gone
      /\ \A i \in 1..Len(SourceOrder) : SourceOrder[i] \in gone => Contains(kept, SourceOrder[i])
  BY <1>1, KeepElements
<1> HIDE DEF kept
<1>4. \A s \in Source : s \in gone => Contains(kept, s)
  BY <1>3, OrderedSources DEF Contains
<1> QED
  BY <1>2, <1>3, <1>4 DEF gone


\* What an accepted dataset asks of the import.
LEMMA PlanFacts ==
    ASSUME Accepted
    PROVE  /\ files \in Dataset /\ Accepts(files)
           /\ Plan \in Seq(Ingestible) /\ Len(Plan) \in Nat
           /\ \A i \in 1..Len(Plan) : Plan[i] \in Ingestible /\ Links[Plan[i].payload] = {}
           /\ Deletions \in Seq(Source) /\ Deletions = DeletionCommands(files)
           /\ Plan = [i \in DOMAIN SourceCommands(files) |-> CommandOf(SourceCommands(files)[i])]
           /\ Selected = [i \in DOMAIN RelationshipCommands(files) |->
                            CommandOf(RelationshipCommands(files)[i])]
<1>1. files \in Dataset /\ Accepts(files)
  BY DEF Accepted, Prepared
<1> DEFINE plan == SourceCommands(files)
           chosen == RelationshipCommands(files)
<1>2. /\ Plan = [i \in DOMAIN plan |-> CommandOf(plan[i])]
      /\ Selected = [i \in DOMAIN chosen |-> CommandOf(chosen[i])]
      /\ Deletions = DeletionCommands(files)
  BY <1>1 DEF Plan, Selected, Deletions, Prepared
<1>3. /\ plan \in Seq(SourceVersions(files)) /\ chosen \in Seq(SourceVersions(files))
      /\ DeletionCommands(files) \in Seq(Source)
  BY <1>1, CommandsListed, SelectedListed, DeletionsListed
<1>4. \A sv \in SourceVersions(files) : CommandOf(sv) \in Ingestible /\ Links[CommandOf(sv).payload] = {}
  BY <1>1, AcceptedVersions
<1> HIDE DEF plan, chosen
<1>5. DOMAIN plan = 1..Len(plan) /\ Len(plan) \in Nat
  BY <1>3
<1>6. Plan \in Seq(Ingestible) /\ Len(Plan) = Len(plan)
  BY <1>2, <1>3, <1>4, <1>5
<1>7. \A i \in 1..Len(Plan) : Plan[i] \in Ingestible /\ Links[Plan[i].payload] = {}
  BY <1>2, <1>3, <1>4, <1>5, <1>6
<1> QED
  BY <1>1, <1>2, <1>3, <1>5, <1>6, <1>7 DEF plan, chosen

LEMMA SelectedFacts ==
    ASSUME Accepted
    PROVE  /\ Selected \in Seq(Ingestible) /\ Len(Selected) \in Nat
           /\ Len(Selected) = Len(RelationshipCommands(files))
           /\ \A i \in 1..Len(Selected) : LET sv == RelationshipCommands(files)[i] IN
                 /\ Selected[i] \in Ingestible
                 /\ sv \in SourceVersions(files) /\ sv = <<Selected[i].source, Selected[i].version>>
                 /\ Selected[i].key = sv
                 /\ CurrentVersions(files)[Selected[i].source] = Selected[i].version
                 /\ Declared(Selected[i]) = DeclaredTargets(files, sv)
                 /\ Declared(Selected[i]) \subseteq Source \X Chunk
                 /\ Builds(Selected[i]) = CommandBuilds(files, sv)
<1> DEFINE chosen == RelationshipCommands(files)
<1>1. files \in Dataset /\ Accepts(files) /\ Selected = [i \in DOMAIN chosen |-> CommandOf(chosen[i])]
  BY PlanFacts
<1>2. chosen \in Seq(SourceVersions(files))
  BY <1>1, SelectedListed
<1>3. DOMAIN chosen = 1..Len(chosen) /\ Len(chosen) \in Nat
  BY <1>2
<1>4. \A sv \in SourceVersions(files) : CommandOf(sv) \in Ingestible
  BY <1>1, AcceptedVersions
<1>5. Selected \in Seq(Ingestible) /\ Len(Selected) = Len(chosen)
  <2> HIDE DEF chosen
  <2> QED
    BY <1>1, <1>2, <1>3, <1>4
<1>6. ASSUME NEW i \in 1..Len(chosen)
      PROVE  LET sv == chosen[i] IN
                 /\ Selected[i] \in Ingestible
                 /\ sv \in SourceVersions(files) /\ sv = <<Selected[i].source, Selected[i].version>>
                 /\ Selected[i].key = sv
                 /\ CurrentVersions(files)[Selected[i].source] = Selected[i].version
                 /\ Declared(Selected[i]) = DeclaredTargets(files, sv)
                 /\ Declared(Selected[i]) \subseteq Source \X Chunk
                 /\ Builds(Selected[i]) = CommandBuilds(files, sv)
  <2> DEFINE sv == chosen[i]
  <2>1. sv \in SourceVersions(files) /\ Selected[i] = CommandOf(sv)
    BY <1>1, <1>2, <1>3
  <2>2. CurrentVersions(files)[sv[1]] = sv[2]
    BY <1>1, SelectedListed
  <2> HIDE DEF sv
  <2>3. /\ CommandOf(sv) \in Ingestible /\ CommandOf(sv).key = sv /\ CommandOf(sv).source = sv[1]
        /\ CommandOf(sv).version = sv[2]
    BY <1>1, <2>1, AcceptedVersions
  <2>4. sv \in Source \X Version
    BY <1>1, <2>1, FileTypes
  <2>5. Declared(Selected[i]) = DeclaredTargets(files, sv) /\ Builds(Selected[i]) = CommandBuilds(files, sv)
    BY <1>1, <2>1, <2>3 DEF Declared, Builds, Prepared
  <2>6. DeclaredTargets(files, sv) \subseteq Source \X Chunk
    BY <1>1, <2>4, FileTypes
  <2> QED
    BY <2>1, <2>2, <2>3, <2>4, <2>5, <2>6 DEF sv
<1> QED
  BY <1>3, <1>5, <1>6

-----------------------------------------------------------------------------
(* Before the first step: what earlier imports left is consistent.          *)

\* An earlier import of c, and nothing after it.
Loads(c) ==
    /\ jobs[c.key] \in Job /\ jobs[c.key].status = "indexed"
    /\ jobs[c.key].source = c.source /\ jobs[c.key].version = c.version
    /\ jobs[c.key].payload = c.payload
    /\ versions[<<c.source, c.version>>] = c.payload
    /\ current[c.source] = c.key
    /\ \A x \in Chunk :
          index[c.source][x] = IF x \in ChunksOf(c.payload) THEN c.version ELSE None

LEMMA PreloadedLoads ==
    ASSUME ImportInit, NEW c \in Preloaded
    PROVE  c \in Ingestible /\ Loads(c)
<1>1. c \in Ingestible
  BY PreloadedAssumption, CommandAssumption DEF Ingestible
<1>2. \A d \in Preloaded : c.source = d.source \/ c.key = d.key => c = d
  BY PreloadedAssumption
<1> DEFINE row == [source |-> c.source, version |-> c.version,
                   payload |-> c.payload, status |-> "indexed"]
<1>3. /\ row \in Job /\ c.key \in Key /\ c.source \in Source
      /\ <<c.source, c.version>> \in Source \X Version
  BY <1>1 DEF Ingestible, Job
<1>4. (CHOOSE d \in Preloaded : d.key = c.key) = c
  BY <1>2
<1>5. (CHOOSE d \in Preloaded : <<d.source, d.version>> = <<c.source, c.version>>) = c
  BY <1>2
<1>6. (CHOOSE d \in Preloaded : d.source = c.source) = c
  BY <1>2
<1>7. jobs[c.key] = row
  BY <1>3, <1>4 DEF ImportInit
<1>8. versions[<<c.source, c.version>>] = c.payload
  BY <1>3, <1>5 DEF ImportInit
<1>9. current[c.source] = c.key
  BY <1>3, <1>6 DEF ImportInit
<1>10. \A x \in Chunk :
          index[c.source][x] = IF x \in ChunksOf(c.payload) THEN c.version ELSE None
  <2> SUFFICES ASSUME NEW x \in Chunk
               PROVE  index[c.source][x] = IF x \in ChunksOf(c.payload) THEN c.version ELSE None
    OBVIOUS
  <2>1. index[c.source][x] =
          IF \E d \in Preloaded : d.source = c.source /\ x \in ChunksOf(d.payload)
          THEN (CHOOSE d \in Preloaded : d.source = c.source).version ELSE None
    BY <1>3 DEF ImportInit
  <2> QED
    BY <1>2, <1>6, <2>1
<1> QED
  BY <1>1, <1>3, <1>7, <1>8, <1>9, <1>10 DEF Loads

LEMMA ImportInitIInv == ImportInit => IInv
<1> SUFFICES ASSUME ImportInit PROVE IInv
  OBVIOUS
<1>1. \A c \in Preloaded : c \in Ingestible /\ Loads(c)
  BY PreloadedLoads
<1>4. ASSUME NEW k \in Key, jobs[k] # None PROVE \E c \in Preloaded : c.key = k
  BY <1>4 DEF ImportInit
<1>5. ASSUME NEW s \in Source, current[s] # None PROVE \E c \in Preloaded : c.source = s
  BY <1>5 DEF ImportInit
<1>6. ASSUME NEW s \in Source, NEW x \in Chunk, index[s][x] # None
      PROVE  \E c \in Preloaded : c.source = s /\ x \in ChunksOf(c.payload)
  BY <1>6 DEF ImportInit
<1>7. ASSUME NEW sv \in Source \X Version, versions[sv] # None
      PROVE  \E c \in Preloaded : <<c.source, c.version>> = sv
  BY <1>7 DEF ImportInit
<1>8. jobs \in [Key -> Job \cup {None}]
  <2>1. jobs = [k \in Key |-> jobs[k]]
    BY DEF ImportInit
  <2>2. \A k \in Key : jobs[k] \in Job \cup {None}
    BY <1>1, <1>4 DEF Loads
  <2> QED
    BY <2>1, <2>2
<1>9. versions \in [Source \X Version -> Payload \cup {None}]
  <2>1. versions = [sv \in Source \X Version |-> versions[sv]]
    BY DEF ImportInit
  <2>2. \A sv \in Source \X Version : versions[sv] \in Payload \cup {None}
    BY <1>1, <1>7 DEF Ingestible, Loads
  <2> QED
    BY <2>1, <2>2
<1>10. edges \subseteq Relationship
  BY <1>1, LinksAssumption DEF ImportInit, Relationship, Ingestible
<1>11. current \in [Source -> Key \cup {None}]
  <2>1. current = [s \in Source |-> current[s]]
    BY DEF ImportInit
  <2>2. \A s \in Source : current[s] \in Key \cup {None}
    <3> SUFFICES ASSUME NEW s \in Source, current[s] # None PROVE current[s] \in Key
      OBVIOUS
    <3>1. PICK c \in Preloaded : c.source = s
      BY <1>5
    <3> QED
      BY <1>1, <3>1 DEF Ingestible, Loads
  <2> QED
    BY <2>1, <2>2
<1>12. index \in [Source -> [Chunk -> Version \cup {None}]]
  <2>1. index = [s \in Source |-> index[s]] /\ \A s \in Source : index[s] = [x \in Chunk |-> index[s][x]]
    BY DEF ImportInit
  <2>2. \A s \in Source, x \in Chunk : index[s][x] \in Version \cup {None}
    <3> SUFFICES ASSUME NEW s \in Source, NEW x \in Chunk, index[s][x] # None
                 PROVE  index[s][x] \in Version
      OBVIOUS
    <3>1. PICK c \in Preloaded : c.source = s /\ x \in ChunksOf(c.payload)
      BY <1>6
    <3> QED
      BY <1>1, <3>1 DEF Ingestible, Loads
  <2>3. \A s \in Source : index[s] \in [Chunk -> Version \cup {None}]
    BY <2>1, <2>2
  <2> QED
    BY <2>1, <2>3
<1>13. call \in [Worker -> Call] /\ \A w \in Worker : call[w].pc = "idle"
  BY DEF ImportInit, NotCalled, Left, Call, Step, AtRest
<1>14. PublishedIsIndexed
  <2> SUFFICES ASSUME NEW s \in Source, current[s] # None
               PROVE  /\ jobs[current[s]] # None
                      /\ jobs[current[s]].status = "indexed"
                      /\ jobs[current[s]].source = s
    BY DEF PublishedIsIndexed
  <2>1. PICK c \in Preloaded : c.source = s
    BY <1>5
  <2> QED
    BY <1>1, <2>1, NoneAssumption DEF Loads
<1>15. JobMatchesVersion
  <2> SUFFICES ASSUME NEW k \in Key, jobs[k] # None
               PROVE  versions[<<jobs[k].source, jobs[k].version>>] = jobs[k].payload
    BY DEF JobMatchesVersion
  <2>1. PICK c \in Preloaded : c.key = k
    BY <1>4
  <2> QED
    BY <1>1, <2>1 DEF Loads
<1>16. IndexHoldsStagedContent
  <2> SUFFICES ASSUME NEW s \in Source, NEW x \in Chunk, index[s][x] # None
               PROVE  LET p == versions[<<s, index[s][x]>>] IN p # None /\ x \in ChunksOf(p)
    BY DEF IndexHoldsStagedContent
  <2>1. PICK c \in Preloaded : c.source = s /\ x \in ChunksOf(c.payload)
    BY <1>6
  <2> QED
    BY <1>1, <2>1, NoneAssumption DEF Ingestible, Loads
<1> QED
  BY <1>8, <1>9, <1>10, <1>11, <1>12, <1>13, <1>14, <1>15, <1>16
     DEF IInv, TypeOK, CallHasJob, ReturnedMeansIndexed, AtRest

LEMMA ImportInitInv == ImportInit => ImportInv
<1> SUFFICES ASSUME ImportInit PROVE ImportInv
  OBVIOUS
<1>1. IInv
  BY ImportInitIInv
<1>2. ImportTypeOK
  <2>1. Stopped \in Importer
    BY DEF Stopped, At, Importer, Phase
  <2>2. importer \in [Worker -> Importer] /\ files \in Dataset /\ run = None /\ calm = FALSE
    BY <2>1 DEF ImportInit
  <2> QED
    BY <1>1, <2>2 DEF ImportTypeOK, IInv
<1>3. \A w \in Worker : ImporterOf(w)
  BY DEF ImportInit, ImporterOf, Stopped, At, Importing
<1>4. JobsPlanned
  <2> SUFFICES ASSUME NEW k \in Key, jobs[k] # None PROVE jobs[k].status = "indexed"
    BY DEF JobsPlanned
  <2> QED
    BY DEF ImportInit
<1>5. run = None
  BY DEF ImportInit
<1>6. RelationshipsAfterSources
  <2> SUFFICES ASSUME Accepted, NEW i \in 1..Len(Selected), NEW t \in Declared(Selected[i]),
                      [source |-> Selected[i].source, version |-> Selected[i].version, to |-> t] \in edges
               PROVE  FALSE
    BY <1>5, StatusAssumption DEF RelationshipsAfterSources, Status
  <2> DEFINE e == [source |-> Selected[i].source, version |-> Selected[i].version, to |-> t]
  <2>1. PICK c \in Preloaded :
           e \in {[source |-> c.source, version |-> c.version, to |-> u] : u \in Links[c.payload]}
    BY DEF ImportInit
  <2>4. c.source = Selected[i].source /\ c.version = Selected[i].version /\ t \in Links[c.payload]
    BY <2>1
  <2>2. Declared(Selected[i]) = DeclaredTargets(files, <<Selected[i].source, Selected[i].version>>)
    BY SelectedFacts
  <2>3. files \in Dataset /\ Accepts(files)
    BY PlanFacts
  <2> QED
    BY <2>2, <2>3, <2>4, NewRelationships
<1> QED
  BY <1>1, <1>2, <1>3, <1>4, <1>5, <1>6 DEF ImportInv

-----------------------------------------------------------------------------
(* What every step keeps. *)

LEMMA IndexedStays ==
    ASSUME IInv, JobsKept, NEW k \in Key, jobs[k] # None
    PROVE  jobs'[k] # None /\ (jobs[k].status = "indexed" => jobs'[k].status = "indexed")
BY NoneAssumption DEF IInv, TypeOK, JobsKept

LEMMA StagedStays ==
    ASSUME IInv, JobsKept, UNCHANGED files, Accepted, NEW n \in Int, n <= Len(Plan), StagedUpto(n)
    PROVE  StagedUpto(n)'
<1>1. Plan' = Plan
  BY DEF Plan
<1>2. Len(Plan) \in Nat /\ \A i \in 1..Len(Plan) : Plan[i].key \in Key
  BY PlanFacts DEF Ingestible
<1> QED
  BY <1>1, <1>2, IndexedStays DEF StagedUpto

LEMMA SourcesStayStaged ==
    ASSUME IInv, JobsKept, UNCHANGED files, Accepted, SourcesStaged
    PROVE  SourcesStaged'
<1>1. Plan' = Plan
  BY DEF Plan
<1>2. Len(Plan) \in Nat /\ \A i \in 1..Len(Plan) : Plan[i].key \in Key
  BY PlanFacts DEF Ingestible
<1> QED
  BY <1>1, <1>2, IndexedStays DEF SourcesStaged

\* A worker that stays where it is may go on relying on what it did.
LEMMA StandsStill ==
    ASSUME ImportInv, JobsKept, UNCHANGED files, NEW w \in Worker, importer'[w] = importer[w],
           importer[w].step = "ingesting" /\ call'[w].pc # "raised" =>
               call[w].pc # "raised" /\ call'[w].key = call[w].key
    PROVE  ImporterOf(w)'
<1> DEFINE i == importer[w]
<1>1. /\ Accepted' = Accepted /\ Plan' = Plan
      /\ \A phase : Items(phase)' = Items(phase)
  BY DEF Accepted, Plan, Items, Selected, Deletions
<1>2. ImporterOf(w) /\ IInv /\ i \in Importer
  BY DEF ImportInv, ImportTypeOK
<1>3. i.phase # "stopped" => Accepted
  BY <1>2 DEF ImporterOf
<1>4. ASSUME i.phase = "staging" PROVE StagedUpto(i.at - 1)'
  <2>1. Accepted /\ i.at <= Len(Plan) + 1 /\ StagedUpto(i.at - 1) /\ i.at \in Nat
    BY <1>2, <1>4 DEF ImporterOf, Importing, Items, Importer
  <2>2. Len(Plan) \in Nat
    BY <2>1, PlanFacts
  <2>3. PICK n \in Int : n = i.at - 1
    BY <2>1
  <2>4. StagedUpto(n)'
    BY <1>2, <2>1, <2>2, <2>3, StagedStays
  <2> QED
    BY <2>3, <2>4
<1>5. ASSUME i.phase \in {"relating", "deleting"} PROVE SourcesStaged'
  BY <1>2, <1>3, <1>5, SourcesStayStaged DEF ImporterOf, Importing
<1> QED
  BY <1>1, <1>2, <1>4, <1>5 DEF ImporterOf

\* Where an importer relies on nothing.
LEMMA StandsAway ==
    ASSUME UNCHANGED files, NEW w \in Worker,
           importer'[w] = Stopped \/ (importer'[w] = At("failing") /\ Accepted)
    PROVE  ImporterOf(w)'
BY DEF ImporterOf, Stopped, At, Importing, Accepted

RunMoves ==
    /\ run' \in Status \cup {None}
    /\ run' # None => Accepted
    /\ run' \in {"relating", "deleting", "completed"} => run' = run \/ SourcesStaged

LEMMA RunStands == ASSUME ImportInv, UNCHANGED run PROVE RunMoves
BY DEF ImportInv, ImportTypeOK, RunMoves

NewJobsPlanned == \A k \in Key : jobs[k] = None /\ jobs'[k] # None => Planned(k)

LEMMA ImportStep ==
    ASSUME ImportInv, IInv', JobsKept, UNCHANGED files, RunMoves, NewJobsPlanned,
           importer' \in [Worker -> Importer], calm' \in BOOLEAN,
           \A w \in Worker : ImporterOf(w)',
           edges' \subseteq edges \/ SourcesStaged
    PROVE  ImportInv'
<1>1. /\ Accepted' = Accepted /\ Plan' = Plan /\ Selected' = Selected
      /\ \A c : Declared(c)' = Declared(c)
  BY DEF Accepted, Plan, Selected, Declared
<1>2. IInv /\ RelationshipsAfterSources /\ JobsPlanned
  BY DEF ImportInv
<1>3. ImportTypeOK'
  BY DEF ImportTypeOK, IInv, ImportInv, RunMoves
<1>4. JobsPlanned'
  <2> SUFFICES ASSUME NEW k \in Key, jobs'[k] # None
               PROVE  jobs'[k].status = "indexed" \/ Planned(k)'
    BY DEF JobsPlanned
  <2>1. Planned(k)' = Planned(k)
    BY <1>1 DEF Planned
  <2>2. CASE jobs[k] = None
    BY <2>1, <2>2 DEF NewJobsPlanned
  <2>3. CASE jobs[k] # None
    BY <1>2, <2>1, <2>3, IndexedStays DEF JobsPlanned
  <2> QED
    BY <2>2, <2>3
<1>5. (run # None => Accepted)'
  BY <1>1 DEF RunMoves
<1>6. Accepted /\ SourcesStaged => SourcesStaged'
  BY <1>2, SourcesStayStaged
<1>7. RelationshipsAfterSources'
  <2> SUFFICES ASSUME Accepted
               PROVE  /\ run' \in {"relating", "deleting", "completed"} => SourcesStaged'
                      /\ \A i \in 1..Len(Selected) : LET c == Selected[i] IN
                            (\E t \in Declared(c) :
                               [source |-> c.source, version |-> c.version, to |-> t] \in edges')
                            => SourcesStaged'
    BY <1>1 DEF RelationshipsAfterSources
  <2>1. run' \in {"relating", "deleting", "completed"} => SourcesStaged'
    BY <1>2, <1>6 DEF RunMoves, RelationshipsAfterSources
  <2>2. ASSUME NEW i \in 1..Len(Selected), NEW t \in Declared(Selected[i]),
               [source |-> Selected[i].source, version |-> Selected[i].version, to |-> t] \in edges'
        PROVE  SourcesStaged'
    BY <1>2, <1>6, <2>2 DEF RelationshipsAfterSources
  <2> QED
    BY <2>1, <2>2
<1> QED
  BY <1>3, <1>4, <1>5, <1>7 DEF ImportInv


-----------------------------------------------------------------------------
(* The calls into the ingestion. *)

LEMMA StatusKept ==
    ASSUME IInv, NEW k \in Key, jobs[k] \in Job, jobs[k].status # "indexed",
           NEW to \in {"indexing", "indexed", "failed"}, SetStatus(k, to)
    PROVE  JobsKept /\ \A j \in Key : jobs[j] = None => jobs'[j] = None
<1>1. jobs' = [jobs EXCEPT ![k] = [jobs[k] EXCEPT !.status = to]]
  BY DEF SetStatus
<1>2. \A j \in Key : j # k => jobs'[j] = jobs[j]
  BY <1>1 DEF IInv, TypeOK
<1>3. jobs'[k] \in Job
  BY <1>1 DEF IInv, TypeOK, Job
<1> QED
  BY <1>2, <1>3, NoneAssumption DEF JobsKept

LEMMA ProcessKeeps ==
    ASSUME IInv, NEW w \in Worker, Process(w)
    PROVE  /\ IInv' /\ JobsKept /\ NewJobsPlanned /\ UNCHANGED edges
           /\ \A v \in Worker : v # w => call'[v] = call[v]
           /\ call'[w].pc \in {"idle", "raised"} \/ call'[w].key = call[w].key
           /\ call[w].pc \notin AtRest
<1>1. IInv'
  BY ProcessInv
<1>2. call \in [Worker -> Call] /\ call[w] \in Call
  BY DEF IInv, TypeOK
<1>3. /\ call[w].pc \notin AtRest
      /\ UNCHANGED edges
      /\ \A v \in Worker : v # w => call'[v] = call[v]
      /\ call'[w].pc \in {"idle", "raised"} \/ call'[w].key = call[w].key
  <2>1. ASSUME NEW pc, Goto(w, pc)
        PROVE  call'[w].key = call[w].key /\ \A v \in Worker : v # w => call'[v] = call[v]
    BY <1>2, <2>1 DEF Goto, Call
  <2>2. ASSUME Raise(w)
        PROVE  call'[w].pc = "raised" /\ \A v \in Worker : v # w => call'[v] = call[v]
    BY <1>2, <2>2 DEF Raise, Left
  <2>3. CASE MarkIndexing(w)
    BY <2>1, <2>2, <2>3 DEF MarkIndexing, AtRest
  <2>4. CASE EmbeddingFails(w)
    BY <2>1, <2>4 DEF EmbeddingFails, AtRest, store
  <2>5. CASE DeleteVectors(w)
    BY <2>1, <2>5 DEF DeleteVectors, AtRest
  <2>6. CASE InsertVector(w)
    <3>1. CASE Goto(w, "failing")
      BY <2>1, <2>6, <3>1 DEF InsertVector, AtRest
    <3>2. CASE call' = [call EXCEPT ![w].at = @ + 1]
      BY <1>2, <2>6, <3>2 DEF InsertVector, AtRest, Call
    <3> QED
      BY <2>6, <3>1, <3>2 DEF InsertVector
  <2>7. CASE MarkIndexed(w)
    <3>1. CASE Goto(w, "failing")
      BY <2>1, <2>7, <3>1 DEF MarkIndexed, AtRest
    <3>2. CASE Return(w)
      BY <1>2, <2>7, <3>2 DEF MarkIndexed, AtRest, Return, Enter
    <3> QED
      BY <2>7, <3>1, <3>2 DEF MarkIndexed
  <2>8. CASE MarkFailed(w)
    BY <2>2, <2>8 DEF MarkFailed, AtRest
  <2>9. CASE Crash(w)
    BY <1>2, <2>9 DEF Crash, NotCalled, Left, store
  <2> QED
    BY <2>3, <2>4, <2>5, <2>6, <2>7, <2>8, <2>9 DEF Process
<1>4. JobsKept /\ \A j \in Key : jobs[j] = None => jobs'[j] = None
  <2>1. CASE UNCHANGED jobs
    BY <2>1 DEF JobsKept
  <2>2. call[w].key \in Key /\ jobs[call[w].key] \in Job /\ JobOf(w) = jobs[call[w].key]
    BY <1>3 DEF IInv, CallHasJob, JobOf, AtRest
  <2>3. CASE \E to \in {"indexing", "indexed", "failed"} :
                SetStatus(call[w].key, to) /\ JobOf(w).status # "indexed"
    BY <2>2, <2>3, StatusKept
  <2> QED
    BY <2>1, <2>3 DEF Process, MarkIndexing, EmbeddingFails, DeleteVectors, InsertVector,
       MarkIndexed, MarkFailed, Crash, store
<1> QED
  BY <1>1, <1>3, <1>4 DEF NewJobsPlanned

\* ingest() of a version that the plan names: its relationships wait.
LEMMA IngestKeeps ==
    ASSUME ImportInv, Accepted, NEW w \in Worker, NEW i \in 1..Len(Plan), Ingest(w, Plan[i])
    PROVE  /\ IInv' /\ JobsKept /\ NewJobsPlanned /\ edges' \subseteq edges
           /\ \A v \in Worker : v # w => call'[v] = call[v]
           /\ call'[w].pc = "raised" \/ call'[w].key = Plan[i].key
<1> DEFINE c == Plan[i]
<1>1. c \in Ingestible /\ c.key \in Key /\ Links[c.payload] = {}
  BY PlanFacts DEF Ingestible
<1>2. IInv /\ call \in [Worker -> Call]
  BY DEF ImportInv, IInv, TypeOK
<1>3. IInv'
  BY <1>1, <1>2, IngestInv
<1>4. Planned(c.key)
  BY DEF Planned
<1> HIDE DEF c
<1>5. CASE StageKnownJob(w, c) \/ StageRaises(w)
  <2>1. UNCHANGED <<jobs, edges>>
    BY <1>5 DEF StageKnownJob, StageRaises, store
  <2>2. JobsKept /\ NewJobsPlanned
    BY <2>1 DEF JobsKept, NewJobsPlanned
  <2>3. /\ \A v \in Worker : v # w => call'[v] = call[v]
        /\ call'[w].pc = "raised" \/ call'[w].key = c.key
    BY <1>2, <1>5 DEF StageKnownJob, StageRaises, Enter, Raise, Left
  <2> QED
    BY <1>3, <2>1, <2>2, <2>3 DEF c
<1>6. CASE StageNewJob(w, c)
  <2>1. JobsKept /\ NewJobsPlanned
    <3>1. \A k \in Key : k # c.key => jobs'[k] = jobs[k]
      BY <1>1, <1>2, <1>6 DEF StageNewJob, IInv, TypeOK
    <3>2. jobs[c.key] = None
      BY <1>6 DEF StageNewJob
    <3> QED
      BY <1>1, <1>4, <3>1, <3>2, NoneAssumption DEF JobsKept, NewJobsPlanned
  <2>2. edges' \subseteq edges
    BY <1>1, <1>6 DEF StageNewJob
  <2>3. /\ \A v \in Worker : v # w => call'[v] = call[v]
        /\ call'[w].pc = "raised" \/ call'[w].key = c.key
    BY <1>2, <1>6 DEF StageNewJob, Enter, Raise, Left
  <2> QED
    BY <1>3, <2>1, <2>2, <2>3 DEF c
<1> QED
  BY <1>5, <1>6 DEF Ingest, c


-----------------------------------------------------------------------------
(* One lemma per step of the import. *)

LEMMA InvFacts ==
    ASSUME ImportInv
    PROVE  /\ IInv /\ importer \in [Worker -> Importer] /\ call \in [Worker -> Call]
           /\ calm \in BOOLEAN /\ run \in Status \cup {None}
           /\ \A w \in Worker : ImporterOf(w) /\ importer[w] \in Importer
           /\ Stopped \in Importer /\ At("failing") \in Importer
BY DEF ImportInv, ImportTypeOK, IInv, TypeOK, Stopped, At, Importer, Phase

\* When the job table stands still.
LEMMA JobsStand == ASSUME UNCHANGED jobs PROVE JobsKept /\ NewJobsPlanned
BY DEF JobsKept, NewJobsPlanned

\* A step of one worker that leaves the calls alone, or ends the call of that worker.
LEMMA OneMoves ==
    ASSUME ImportInv, IInv', JobsKept, NewJobsPlanned, UNCHANGED setting, RunMoves, NEW w \in Worker,
           NEW r \in Importer, importer' = [importer EXCEPT ![w] = r], ImporterOf(w)',
           \A v \in Worker : v # w => call'[v] = call[v],
           edges' \subseteq edges \/ SourcesStaged
    PROVE  ImportInv'
<1>1. UNCHANGED <<files, calm>>
  BY DEF setting
<1>2. \A v \in Worker : v # w => ImporterOf(v)'
  BY <1>1, InvFacts, StandsStill
<1>3. importer' \in [Worker -> Importer] /\ calm' \in BOOLEAN
  BY <1>1, InvFacts
<1> QED
  BY <1>1, <1>2, <1>3, ImportStep

\* Nobody moves.
LEMMA NobodyMoves ==
    ASSUME ImportInv, IInv', JobsKept, NewJobsPlanned, UNCHANGED <<files, run, importer>>,
           calm' \in BOOLEAN,
           \A v \in Worker : importer[v].step = "ingesting" /\ call'[v].pc # "raised" =>
               call[v].pc # "raised" /\ call'[v].key = call[v].key,
           edges' \subseteq edges
    PROVE  ImportInv'
<1>1. \A v \in Worker : ImporterOf(v)'
  BY StandsStill
<1>2. importer' \in [Worker -> Importer]
  BY InvFacts
<1> QED
  BY <1>1, <1>2, RunStands, ImportStep

LEMMA StoreStands ==
    ASSUME IInv, UNCHANGED store, NEW w \in Worker,
           UNCHANGED call \/ call' = [call EXCEPT ![w] = NotCalled]
    PROVE  IInv' /\ JobsKept /\ NewJobsPlanned /\ edges' \subseteq edges
           /\ \A v \in Worker : v # w => call'[v] = call[v]
<1>1. IInv'
  <2>1. CASE UNCHANGED call
    BY <2>1 DEF IInv, TypeOK, CallHasJob, PublishedIsIndexed, JobMatchesVersion, ReturnedMeansIndexed,
                JobOf, IndexHoldsStagedContent, store
  <2> QED
    BY <2>1, KeepsStore
<1> QED
  BY <1>1, JobsStand DEF store, IInv, TypeOK

LEMMA StartInv == ASSUME ImportInv, NEW w \in Worker, Start(w) PROVE ImportInv'
<1>1. CASE UNCHANGED importVars
  <2>1. IInv'
    BY <1>1, InvFacts, StoreStands DEF importVars, store
  <2> QED
    BY <1>1, <2>1, InvFacts, JobsStand, NobodyMoves, StandsStill DEF importVars, ImporterOf, Start
<1>2. CASE /\ Accepted /\ run # "completed"
           /\ run' = IF run = None THEN "staging" ELSE run
           /\ call' = [call EXCEPT ![w] = NotCalled]
           /\ Move(w, At("staging")) \/ (~calm /\ UNCHANGED importer)
           /\ UNCHANGED <<store, setting>>
  <2>1. IInv' /\ JobsKept /\ NewJobsPlanned /\ edges' \subseteq edges
        /\ \A v \in Worker : v # w => call'[v] = call[v]
    BY <1>2, InvFacts, StoreStands
  <2>2. RunMoves
    BY <1>2, InvFacts, StatusAssumption DEF RunMoves, Status
  <2>3. At("staging") \in Importer
    BY DEF At, Importer, Phase
  <2>4. CASE Move(w, At("staging"))
    <3>1. importer'[w] = At("staging") /\ Accepted'
      BY <1>2, <2>4, InvFacts DEF Move, Accepted, setting
    <3>2. ImporterOf(w)'
      <4>1. Items("staging")' \in Nat
        BY <1>2, PlanFacts DEF Items, Plan, setting
      <4>2. StagedUpto(At("staging").at - 1)'
        BY DEF StagedUpto, At
      <4> QED
        BY <3>1, <4>1, <4>2 DEF ImporterOf, At
    <3> QED
      BY <1>2, <2>1, <2>2, <2>3, <2>4, <3>2, OneMoves DEF Move
  <2>5. CASE UNCHANGED importer
    <3>1. importer' = [importer EXCEPT ![w] = importer[w]]
      BY <2>5, InvFacts
    <3>2. ImporterOf(w)'
      <4>1. importer[w].step # "ingesting"
        BY InvFacts DEF Start, ImporterOf
      <4> QED
        BY <1>2, <2>1, <2>5, <4>1, StandsStill DEF setting
    <3> QED
      BY <1>2, <2>1, <2>2, <3>1, <3>2, InvFacts, OneMoves
  <2> QED
    BY <1>2, <2>4, <2>5
<1> QED
  BY <1>1, <1>2 DEF Start

LEMMA StageSourceInv == ASSUME ImportInv, NEW w \in Worker, StageSource(w) PROVE ImportInv'
<1> DEFINE i == importer[w]
<1>1. /\ i.phase = "staging" /\ i.step = "do" /\ i.at <= Len(Plan)
      /\ Ingest(w, Plan[i.at])
      /\ importer' = [importer EXCEPT ![w] = [i EXCEPT !.step = "ingesting"]]
      /\ UNCHANGED <<run, setting>>
  BY DEF StageSource, Doing, Items, Then
<1>2. /\ Accepted /\ ImporterOf(w) /\ i \in Importer /\ i.at \in 1..Len(Plan)
      /\ StagedUpto(i.at - 1)
  BY <1>1, InvFacts, PlanFacts DEF ImporterOf, Importing, Importer
<1>3. /\ IInv' /\ JobsKept /\ NewJobsPlanned /\ edges' \subseteq edges
      /\ \A v \in Worker : v # w => call'[v] = call[v]
      /\ call'[w].pc = "raised" \/ call'[w].key = Plan[i.at].key
  BY <1>1, <1>2, IngestKeeps
<1> DEFINE r == [i EXCEPT !.step = "ingesting"]
<1>4. r \in Importer /\ r.phase = "staging" /\ r.at = i.at /\ r.step = "ingesting" /\ importer'[w] = r
  BY <1>1, <1>2, InvFacts DEF Importer
<1>5. Accepted' /\ Plan' = Plan
  BY <1>1, <1>2 DEF Accepted, Plan, setting
<1>6. StagedUpto(importer[w].at - 1)'
  <2>1. PICK n \in Int : n = i.at - 1
    BY <1>2
  <2>2. n <= Len(Plan) /\ StagedUpto(n)
    BY <1>2, <2>1
  <2>3. StagedUpto(n)'
    BY <1>1, <1>2, <1>3, <2>2, InvFacts, StagedStays DEF setting
  <2>4. importer'[w].at - 1 = n
    BY <1>4, <2>1
  <2> QED
    BY <1>4, <2>3, <2>4
<1>7. ImporterOf(w)'
  <2> HIDE DEF r
  <2> QED
    BY <1>2, <1>3, <1>4, <1>5, <1>6, PlanFacts DEF ImporterOf, Items
<1> QED
  BY <1>1, <1>3, <1>4, <1>7, RunStands, OneMoves

LEMMA WorkInv == ASSUME ImportInv, NEW w \in Worker, Work(w) PROVE ImportInv'
<1>1. /\ IInv' /\ JobsKept /\ NewJobsPlanned /\ UNCHANGED <<edges, run, setting>>
      /\ \A v \in Worker : v # w => call'[v] = call[v]
      /\ call'[w].pc \in {"idle", "raised"} \/ call'[w].key = call[w].key
      /\ call[w].pc # "raised"
  BY InvFacts, ProcessKeeps DEF Work, AtRest
<1>2. CASE Move(w, Stopped)
  <2>1. ImporterOf(w)'
    BY <1>1, <1>2, InvFacts, StandsAway DEF Move, setting
  <2> QED
    BY <1>1, <1>2, <2>1, InvFacts, RunStands, OneMoves DEF Move
<1>3. CASE UNCHANGED importer /\ call'[w].pc # "idle"
  <2>1. \A v \in Worker : importer[v].step = "ingesting" /\ call'[v].pc # "raised" =>
           call[v].pc # "raised" /\ call'[v].key = call[v].key
    BY <1>1, <1>3
  <2>2. UNCHANGED <<files, run, importer>> /\ calm' \in BOOLEAN /\ edges' \subseteq edges
    BY <1>1, <1>3, InvFacts DEF setting
  <2> QED
    BY <1>1, <2>1, <2>2, NobodyMoves
<1> QED
  BY <1>2, <1>3 DEF Work


\* A worker that leaves the import.
LEMMA OneLeaves ==
    ASSUME ImportInv, IInv', JobsKept, NewJobsPlanned, UNCHANGED setting, RunMoves, NEW w \in Worker,
           Move(w, Stopped) \/ (Fail(w) /\ Accepted),
           \A v \in Worker : v # w => call'[v] = call[v],
           edges' \subseteq edges \/ SourcesStaged
    PROVE  ImportInv'
<1>1. PICK r \in {Stopped, At("failing")} :
          importer' = [importer EXCEPT ![w] = r] /\ (r = Stopped \/ Accepted)
  BY DEF Fail, Move
<1>2. r \in Importer /\ importer'[w] = r
  BY <1>1, InvFacts
<1>3. ImporterOf(w)'
  BY <1>1, <1>2, StandsAway DEF setting
<1> QED
  BY <1>1, <1>2, <1>3, OneMoves

\* A worker that relates or deletes, and goes on.
LEMMA OneGoesOn ==
    ASSUME ImportInv, IInv', JobsKept, NewJobsPlanned, UNCHANGED setting, RunMoves, NEW w \in Worker,
           NEW r \in Importer, Move(w, r),
           r.phase \in {"relating", "deleting"}, r.at <= Items(r.phase) + 1,
           r.step \in {"do", "drop", "record"}, r.step = "drop" => r.phase = "deleting",
           r.step # "do" => r.at <= Items(r.phase),
           Accepted, SourcesStaged,
           \A v \in Worker : v # w => call'[v] = call[v]
    PROVE  ImportInv'
<1>1. IInv /\ importer' = [importer EXCEPT ![w] = r] /\ importer'[w] = r
  BY InvFacts DEF Move
<1>2. Accepted' /\ SourcesStaged' /\ \A phase : Items(phase)' = Items(phase)
  BY <1>1, SourcesStayStaged DEF setting, Accepted, Items, Plan, Selected, Deletions
<1>3. ImporterOf(w)'
  BY <1>1, <1>2 DEF ImporterOf
<1> QED
  BY <1>1, <1>3, OneMoves

LEMMA IngestRaisesInv == ASSUME ImportInv, NEW w \in Worker, IngestRaises(w) PROVE ImportInv'
BY InvFacts, StoreStands, RunStands, OneLeaves DEF IngestRaises, ImporterOf

LEMMA RecordInv == ASSUME ImportInv, NEW w \in Worker, Record(w) PROVE ImportInv'
<1> DEFINE i == importer[w]
           r == [phase |-> i.phase, at |-> i.at + 1, step |-> "do"]
<1>1. /\ IInv /\ ImporterOf(w) /\ i \in Importer /\ i.at \in Nat
      /\ UNCHANGED <<store, setting>>
      /\ i.step = "record" \/ (i.step = "ingesting" /\ call[w].pc = "returned")
  BY InvFacts DEF Record, Importer
<1>2. /\ IInv' /\ JobsKept /\ NewJobsPlanned /\ edges' \subseteq edges
      /\ \A v \in Worker : v # w => call'[v] = call[v]
  BY <1>1, StoreStands DEF Record
<1>3. /\ Accepted /\ i.phase \in Importing /\ i.at <= Items(i.phase)
      /\ i.phase \in {"relating", "deleting"} => SourcesStaged
      /\ i.step = "ingesting" => i.phase = "staging"
      /\ i.step = "record" => i.phase \in {"relating", "deleting"}
      /\ i.phase = "staging" => StagedUpto(i.at - 1) /\ call[w].key = Plan[i.at].key
  BY <1>1 DEF ImporterOf, Importing
<1>4. RunMoves
  BY <1>3, InvFacts, StatusAssumption DEF Record, RunMoves, Importing, Status, ImportInv
<1>5. r \in Importer
  BY <1>1 DEF Importer
<1>6. CASE Fail(w)
  BY <1>1, <1>2, <1>3, <1>4, <1>6, OneLeaves
<1>7. CASE Move(w, r) /\ i.phase # "staging"
  <2>1. i.phase \in {"relating", "deleting"}
    BY <1>3, <1>7 DEF Importing
  <2>2. Items(i.phase) \in Nat
    BY <1>3, <2>1, PlanFacts, SelectedFacts DEF Items
  <2>3. r.at <= Items(r.phase) + 1
    BY <1>1, <1>3, <2>2
  <2> QED
    BY <1>1, <1>2, <1>3, <1>4, <1>5, <1>7, <2>1, <2>3, OneGoesOn
<1>8. CASE Move(w, r) /\ i.phase = "staging"
  <2>1. /\ Len(Plan) \in Nat /\ i.at <= Len(Plan) /\ StagedUpto(i.at - 1)
        /\ call[w].key = Plan[i.at].key /\ call[w].pc = "returned"
    BY <1>1, <1>3, <1>8, PlanFacts DEF Items
  <2>2. jobs[call[w].key] # None /\ jobs[call[w].key].status = "indexed"
    BY <1>1, <2>1, NoneAssumption DEF IInv, CallHasJob, ReturnedMeansIndexed, JobOf
  <2>3. StagedUpto(i.at)
    BY <1>1, <2>1, <2>2 DEF StagedUpto, Importer
  <2>4. PICK n \in Int : n = i.at
    BY <1>1
  <2>5. StagedUpto(n)'
    BY <1>1, <1>2, <1>3, <2>1, <2>3, <2>4, StagedStays DEF setting
  <2>6. importer'[w] = r /\ importer'[w].at - 1 = n
    BY <1>1, <1>8, <2>4, InvFacts DEF Move
  <2>7. StagedUpto(importer[w].at - 1)'
    BY <2>5, <2>6
  <2>8. Accepted' /\ Items("staging")' = Len(Plan)
    BY <1>1, <1>3 DEF Accepted, Items, Plan, setting
  <2>9. ImporterOf(w)'
    BY <1>1, <1>8, <2>1, <2>6, <2>7, <2>8 DEF ImporterOf
  <2> QED
    BY <1>1, <1>2, <1>4, <1>5, <1>8, <2>9, OneMoves DEF Move
<1> QED
  BY <1>3, <1>6, <1>7, <1>8 DEF Record, MayFail

LEMMA AdvanceInv == ASSUME ImportInv, NEW w \in Worker, Advance(w) PROVE ImportInv'
<1> DEFINE i == importer[w]
           next == After(i.phase)
<1>1. /\ IInv /\ ImporterOf(w) /\ i \in Importer /\ i.at \in Nat
      /\ UNCHANGED <<store, call, setting>>
      /\ i.phase \in Importing /\ i.step = "do" /\ i.at > Items(i.phase)
  BY InvFacts DEF Advance, Importer, Importing
<1>2. /\ IInv' /\ JobsKept /\ NewJobsPlanned /\ edges' \subseteq edges
      /\ \A v \in Worker : v # w => call'[v] = call[v]
  BY <1>1, StoreStands
<1>3. Accepted /\ (i.phase \in {"relating", "deleting"} => SourcesStaged)
  BY <1>1 DEF ImporterOf, Importing
<1>4. SourcesStaged
  <2>1. CASE i.phase = "staging"
    <3>1. Len(Plan) \in Nat /\ i.at > Len(Plan) /\ StagedUpto(i.at - 1)
      BY <1>1, <1>3, <2>1, PlanFacts DEF ImporterOf, Items
    <3> QED
      BY <1>1, <3>1 DEF StagedUpto, SourcesStaged
  <2> QED
    BY <1>1, <1>3, <2>1 DEF Importing
<1>5. next \in {"relating", "deleting", "completed"}
  BY <1>1 DEF After, Importing
<1>6. RunMoves
  BY <1>3, <1>4, <1>5, InvFacts, StatusAssumption DEF Advance, RunMoves, Status, ImportInv
<1>7. CASE Fail(w) \/ Move(w, Stopped)
  BY <1>1, <1>2, <1>3, <1>6, <1>7, OneLeaves
<1>8. CASE next # "completed" /\ Move(w, At(next))
  <2>1. At(next) \in Importer /\ next \in {"relating", "deleting"}
    BY <1>5, <1>8 DEF At, Importer, Phase
  <2>2. 1 <= Items(next) + 1
    BY <1>3, <2>1, PlanFacts, SelectedFacts DEF Items
  <2> HIDE DEF next
  <2> QED
    BY <1>1, <1>2, <1>3, <1>4, <1>6, <1>8, <2>1, <2>2, OneGoesOn DEF At
<1> QED
  BY <1>7, <1>8 DEF Advance, MayFail

LEMMA FailImportInv == ASSUME ImportInv, NEW w \in Worker, FailImport(w) PROVE ImportInv'
<1>1. IInv' /\ JobsKept /\ NewJobsPlanned /\ edges' \subseteq edges
      /\ \A v \in Worker : v # w => call'[v] = call[v]
  BY InvFacts, StoreStands DEF FailImport
<1>2. RunMoves
  BY InvFacts, StatusAssumption DEF FailImport, RunMoves, Status, ImportInv, ImporterOf
<1> QED
  BY <1>1, <1>2, OneLeaves DEF FailImport

LEMMA CrashImportInv == ASSUME ImportInv, NEW w \in Worker, CrashImport(w) PROVE ImportInv'
BY InvFacts, StoreStands, RunStands, OneLeaves DEF CrashImport

LEMMA RetryJobInv ==
    ASSUME ImportInv, NEW w \in Worker, NEW k \in Key, RetryJob(w, k) PROVE ImportInv'
<1>1. IInv' /\ UNCHANGED store
  BY InvFacts, RetryInv DEF RetryJob, Retry
<1>2. JobsKept /\ NewJobsPlanned /\ edges' \subseteq edges
  BY <1>1, JobsStand DEF store
<1>3. \A v \in Worker : v # w => call'[v] = call[v]
  BY InvFacts DEF RetryJob, Retry, Enter, Raise
<1>4. importer[w].step # "ingesting"
  BY InvFacts DEF RetryJob, ImporterOf
<1> QED
  BY <1>1, <1>2, <1>3, <1>4, InvFacts, NobodyMoves DEF RetryJob, setting

LEMMA BecomeCalmInv == ASSUME ImportInv, BecomeCalm PROVE ImportInv'
<1>1. IInv'
  BY InvFacts DEF BecomeCalm, IInv, TypeOK, CallHasJob, PublishedIsIndexed, JobMatchesVersion,
                  ReturnedMeansIndexed, JobOf, IndexHoldsStagedContent, store
<1> QED
  BY <1>1, InvFacts, JobsStand, NobodyMoves DEF BecomeCalm, store, ImporterOf

-----------------------------------------------------------------------------
(* Relationships and deletions touch neither jobs nor calls.               *)

LEMMA StoreShrinks ==
    ASSUME IInv, UNCHANGED <<jobs, versions, call>>, edges' \subseteq Relationship,
           current' \in [Source -> Key \cup {None}],
           \A s \in Source : current'[s] \in {None, current[s]},
           index' \in [Source -> [Chunk -> Version \cup {None}]],
           \A s \in Source, c \in Chunk : index'[s][c] \in {None, index[s][c]}
    PROVE  IInv' /\ JobsKept /\ NewJobsPlanned
<1>1. PublishedIsIndexed'
  BY DEF IInv, PublishedIsIndexed
<1>2. IndexHoldsStagedContent'
  BY DEF IInv, IndexHoldsStagedContent
<1> QED
  BY <1>1, <1>2, JobsStand DEF IInv, TypeOK, CallHasJob, JobMatchesVersion, ReturnedMeansIndexed, JobOf

LEMMA ReplaceRelationshipsInv ==
    ASSUME ImportInv, NEW w \in Worker, ReplaceRelationships(w) PROVE ImportInv'
<1> DEFINE i == importer[w]
           c == Selected[i.at]
<1>1. /\ i.phase = "relating" /\ i.step = "do" /\ i.at <= Items("relating")
      /\ UNCHANGED <<jobs, versions, current, index, call, run, setting>>
      /\ ImporterOf(w) /\ i \in Importer /\ IInv
  BY InvFacts DEF ReplaceRelationships, Doing
<1>2. Accepted /\ SourcesStaged
  BY <1>1 DEF ImporterOf, Importing
<1>3. i.at \in 1..Len(Selected)
  BY <1>1, <1>2, SelectedFacts DEF Items, Importer
<1>4. edges' \subseteq Relationship
  <2>1. c \in Ingestible /\ Declared(c) \subseteq Source \X Chunk
    BY <1>2, <1>3, SelectedFacts
  <2> HIDE DEF c
  <2>2. {[source |-> c.source, version |-> c.version, to |-> t] : t \in Declared(c)} \subseteq Relationship
    BY <2>1 DEF Relationship, Ingestible
  <2>3. edges \subseteq Relationship
    BY <1>1 DEF IInv, TypeOK
  <2> QED
    BY <2>2, <2>3 DEF ReplaceRelationships, c
<1>5. IInv' /\ JobsKept /\ NewJobsPlanned
  BY <1>1, <1>4, StoreShrinks DEF IInv, TypeOK
<1>6. CASE Fail(w)
  BY <1>1, <1>2, <1>5, <1>6, RunStands, OneLeaves
<1>7. CASE Then(w, "record")
  <2> DEFINE r == [i EXCEPT !.step = "record"]
  <2>1. r \in Importer /\ r.phase = "relating" /\ r.at = i.at /\ r.step = "record" /\ Move(w, r)
    BY <1>1, <1>7 DEF Importer, Then, Move
  <2> HIDE DEF r
  <2>2. r.at <= Items(r.phase) /\ r.at <= Items(r.phase) + 1
    BY <1>1, <1>2, <1>3, <2>1, SelectedFacts DEF Items
  <2> QED
    BY <1>1, <1>2, <1>5, <2>1, <2>2, RunStands, OneGoesOn
<1> QED
  BY <1>6, <1>7 DEF ReplaceRelationships, MayFail

LEMMA DeletingFacts ==
    ASSUME ImportInv, NEW w \in Worker, importer[w].phase = "deleting",
           importer[w].at <= Items("deleting")
    PROVE  /\ Accepted /\ SourcesStaged
           /\ importer[w].at \in 1..Len(Deletions) /\ Deletions[importer[w].at] \in Source
<1>1. Accepted /\ SourcesStaged /\ importer[w] \in Importer
  BY InvFacts DEF ImporterOf, Importing
<1>2. Deletions \in Seq(Source)
  BY <1>1, PlanFacts
<1>3. importer[w].at \in 1..Len(Deletions)
  BY <1>1, <1>2 DEF Items, Importer
<1> QED
  BY <1>1, <1>2, <1>3

\* From the index to the repository, and on to the record.
LEMMA DeletingGoesOn ==
    ASSUME ImportInv, IInv', JobsKept, NewJobsPlanned, UNCHANGED <<call, run, setting>>,
           edges' \subseteq edges,
           NEW w \in Worker, importer[w].phase = "deleting", importer[w].at <= Items("deleting"),
           NEW step \in {"drop", "record"}, Then(w, step)
    PROVE  ImportInv'
<1> DEFINE i == importer[w]
           r == [i EXCEPT !.step = step]
<1>1. i \in Importer /\ Accepted /\ SourcesStaged /\ Items("deleting") \in Nat
  BY InvFacts, DeletingFacts, PlanFacts DEF Items
<1>2. r \in Importer /\ r.phase = "deleting" /\ r.at = i.at /\ r.step = step /\ Move(w, r)
  BY <1>1 DEF Importer, Then, Move
<1> HIDE DEF r
<1>3. r.at <= Items(r.phase) /\ r.at <= Items(r.phase) + 1
  BY <1>1, <1>2 DEF Importer
<1> QED
  BY <1>1, <1>2, <1>3, RunStands, OneGoesOn

LEMMA DeleteFromIndexInv ==
    ASSUME ImportInv, NEW w \in Worker, DeleteFromIndex(w) PROVE ImportInv'
<1> DEFINE s == Deletions[importer[w].at]
<1>1. /\ importer[w].phase = "deleting" /\ importer[w].at <= Items("deleting")
      /\ UNCHANGED <<jobs, versions, edges, current, call, run, setting>>
  BY DEF DeleteFromIndex, Doing
<1>2. PICK kept \in SUBSET Chunk :
          /\ index' = [index EXCEPT ![s] =
                         [c \in Chunk |-> IF c \in kept THEN index[s][c] ELSE None]]
          /\ Then(w, "drop") \/ MayFail(w)
  BY DEF DeleteFromIndex
<1>3. s \in Source
  BY <1>1, DeletingFacts
<1> HIDE DEF s
<1>4. /\ index' \in [Source -> [Chunk -> Version \cup {None}]]
      /\ \A r \in Source, c \in Chunk : index'[r][c] \in {None, index[r][c]}
  BY <1>2, <1>3, InvFacts DEF IInv, TypeOK
<1>5. IInv' /\ JobsKept /\ NewJobsPlanned
  BY <1>1, <1>4, InvFacts, StoreShrinks DEF IInv, TypeOK
<1> QED
  BY <1>1, <1>2, <1>5, RunStands, OneLeaves, DeletingFacts, DeletingGoesOn DEF MayFail

LEMMA DropSourceInv == ASSUME ImportInv, NEW w \in Worker, DropSource(w) PROVE ImportInv'
<1> DEFINE s == Deletions[importer[w].at]
<1>1. /\ importer[w].phase = "deleting" /\ importer[w].at <= Items("deleting")
      /\ UNCHANGED <<jobs, versions, index, call, run, setting>>
  BY InvFacts DEF DropSource, ImporterOf
<1>2. s \in Source
  BY <1>1, DeletingFacts
<1>3. /\ edges' \subseteq edges
      /\ UNCHANGED current \/ current' = [current EXCEPT ![s] = None]
      /\ Then(w, "record") \/ Fail(w)
  BY DEF DropSource, MayFail
<1> HIDE DEF s
<1>4. /\ current' \in [Source -> Key \cup {None}]
      /\ \A r \in Source : current'[r] \in {None, current[r]}
  BY <1>2, <1>3, InvFacts DEF IInv, TypeOK
<1>5. IInv' /\ JobsKept /\ NewJobsPlanned
  BY <1>1, <1>3, <1>4, InvFacts, StoreShrinks DEF IInv, TypeOK
<1> QED
  BY <1>1, <1>3, <1>5, RunStands, OneLeaves, DeletingFacts, DeletingGoesOn

LEMMA ImportNextInv == ImportInv /\ [ImportNext]_importVars => ImportInv'
<1> SUFFICES ASSUME ImportInv, [ImportNext]_importVars PROVE ImportInv'
  OBVIOUS
<1>1. CASE UNCHANGED importVars
  <2>1. IInv'
    BY <1>1, InvFacts DEF importVars, IInv, TypeOK, CallHasJob, PublishedIsIndexed, JobMatchesVersion,
                          ReturnedMeansIndexed, JobOf, IndexHoldsStagedContent
  <2>2. \A v \in Worker : ImporterOf(v)'
    BY <1>1, JobsStand, StandsStill DEF importVars
  <2> QED
    BY <1>1, <2>1, <2>2, InvFacts, JobsStand, RunStands, ImportStep DEF importVars
<1>2. ASSUME NEW w \in Worker, Progress(w) PROVE ImportInv'
  BY <1>2, StartInv, StageSourceInv, WorkInv, IngestRaisesInv, RecordInv, AdvanceInv, FailImportInv,
     ReplaceRelationshipsInv, DeleteFromIndexInv, DropSourceInv DEF Progress
<1> QED
  BY <1>1, <1>2, CrashImportInv, RetryJobInv, BecomeCalmInv DEF ImportNext

LEMMA ImportInvariant == ImportSpec => []ImportInv
BY ImportInitInv, ImportNextInv, PTL DEF ImportSpec

\* Whatever fails, dies or is repeated, by however many operators at once, the tables, the
\* index, the progress row and the importers keep their types.
THEOREM ImportTypeCorrect == ImportSpec => []ImportTypeOK
BY ImportInvariant, PTL DEF ImportInv

\* No relationship that the dataset declares is stored, and no run is past staging, before
\* every source version of the plan is indexed: whatever the dataset, the number of its
\* items and of the operators, and however often they fail and repeat the command.
THEOREM RelationshipsComeAfter == ImportSpec => []RelationshipsAfterSources
BY ImportInvariant, PTL DEF ImportInv


-----------------------------------------------------------------------------
(* One worker at a time: the operator, and between two imports an          *)
(* administrator.                                                          *)

Unfinished == {"staging", "relating", "deleting", "failed"}

\* The sources whose two stores an import may have left apart.
InTrouble == IF run \in Unfinished THEN {s \in Source : Deleted(s)} ELSE {}

\* How many items of its phase the importer has behind it.
DoneBy(w) == IF importer[w].step = "record" THEN importer[w].at ELSE importer[w].at - 1

Published(c) == current[c.source] # None /\ jobs[current[c.source]].version = c.version
TargetsOf(c) == {e.to : e \in OwnedBy(c.source, c.version)}

RelatedUpto(n) == \A i \in 1..n :
    Published(Selected[i]) /\ TargetsOf(Selected[i]) = Declared(Selected[i])

Gone(s) ==
    /\ current[s] = None
    /\ \A e \in edges : e.source # s /\ e.to[1] # s

DroppedBy(n) == {Deletions[i] : i \in 1..n}

\* What is left of a selected version once the first n deletions are done.
StillRelated(c, n) ==
    Published(c) /\ TargetsOf(c) = {t \in Declared(c) : t[1] \notin DroppedBy(n)}

DeletedUpto(n) ==
    /\ \A i \in 1..n : Gone(Deletions[i])
    /\ \A i \in 1..Len(Selected) :
          ~Deleted(Selected[i].source) => StillRelated(Selected[i], n)

AllIndexed == \A k \in Key : jobs[k] # None => jobs[k].status = "indexed"

SerialOf(w) == LET i == importer[w] IN
    /\ i.phase \in Importing => run \in Unfinished
    /\ i.phase = "relating" => RelatedUpto(DoneBy(w))
    /\ i.phase = "deleting" => DeletedUpto(DoneBy(w))
    /\ (i.phase # "stopped" /\ i.step # "ingesting") \/ run = "completed" => call[w].pc \in AtRest

Finished == run = "completed" => DeletedUpto(Len(Deletions)) /\ AllIndexed

SerialImport == SerialInv(InTrouble) /\ Finished /\ \A w \in Worker : SerialOf(w)

LEMMA ImportInitSerial == ImportInit => SerialImport
<1> SUFFICES ASSUME ImportInit PROVE SerialImport
  OBVIOUS
<1>1. run = None /\ run \notin Unfinished /\ run # "completed"
  BY StatusAssumption DEF ImportInit, Unfinished, Status
<1>2. InTrouble = {}
  BY <1>1 DEF InTrouble
<1>3. Explained({})
  <2> SUFFICES ASSUME NEW s \in Source, current[s] # None
               PROVE  Complete(s)
    BY DEF Explained
  <2>1. PICK c \in Preloaded : c.source = s
    BY DEF ImportInit
  <2>2. c \in Ingestible /\ Loads(c)
    BY PreloadedLoads
  <2>3. \A x \in ChunksOf(c.payload) : x \in Chunk
    BY <2>2, ContentAssumption DEF Ingestible, ChunksOf
  <2> QED
    BY <2>1, <2>2, <2>3 DEF Complete, Loads
<1>4. SerialCalls /\ \A w \in Worker : call[w].pc \in AtRest
  BY DEF ImportInit, SerialCalls, NotCalled, Left, AtRest
<1>5. \A w \in Worker : SerialOf(w)
  BY <1>1, <1>4 DEF ImportInit, SerialOf, Stopped, At, Importing
<1> QED
  BY <1>1, <1>2, <1>3, <1>4, <1>5 DEF SerialImport, SerialInv, Finished

LEMMA SerialFacts ==
    ASSUME ImportInv, SerialImport, NEW w \in Worker
    PROVE  /\ IInv /\ SerialInv(InTrouble) /\ SerialOf(w) /\ ImporterOf(w) /\ Finished
           /\ importer[w] \in Importer /\ importer \in [Worker -> Importer]
           /\ call \in [Worker -> Call] /\ call[w] \in Call
           /\ run \in Status \cup {None}
BY InvFacts DEF SerialImport

\* What the phases claim does not change with the stores and the files.
LEMMA ClaimsStay ==
    ASSUME UNCHANGED <<store, files>>
    PROVE  /\ \A n : RelatedUpto(n)' = RelatedUpto(n)
           /\ \A n : DeletedUpto(n)' = DeletedUpto(n)
           /\ AllIndexed' = AllIndexed /\ Deletions' = Deletions /\ UNCHANGED index
<1>1. UNCHANGED <<jobs, edges, current, index, files>>
  BY DEF store
<1>2. /\ Selected' = Selected /\ Deletions' = Deletions
      /\ \A c : Declared(c)' = Declared(c)
      /\ \A s : Deleted(s)' = Deleted(s)
  BY <1>1 DEF Selected, Deletions, Declared, Deleted
<1>3. \A c : Published(c)' = Published(c) /\ TargetsOf(c)' = TargetsOf(c)
  BY <1>1 DEF Published, TargetsOf, OwnedBy
<1>4. \A s : Gone(s)' = Gone(s)
  BY <1>1 DEF Gone
<1>5. \A n : RelatedUpto(n)' = RelatedUpto(n)
  BY <1>2, <1>3 DEF RelatedUpto
<1>6. \A n : DroppedBy(n)' = DroppedBy(n)
  BY <1>2 DEF DroppedBy
<1>7. \A n : DeletedUpto(n)' = DeletedUpto(n)
  BY <1>2, <1>3, <1>4, <1>6 DEF DeletedUpto, StillRelated
<1>8. AllIndexed' = AllIndexed
  BY <1>1 DEF AllIndexed
<1> QED
  BY <1>1, <1>2, <1>5, <1>7, <1>8

\* Trouble may grow while the stores stand still.
LEMMA SerialStands ==
    ASSUME OneWorker, ImportInv, SerialImport, UNCHANGED store, InTrouble \subseteq InTrouble',
           NEW w \in Worker, UNCHANGED call \/ call'[w].pc \in AtRest
    PROVE  SerialInv(InTrouble)'
<1>1. PICK D : D = InTrouble
  OBVIOUS
<1>2. IInv /\ SerialInv(D)
  BY <1>1, SerialFacts
<1>3. SerialInv(D)'
  <2>1. CASE UNCHANGED call
    BY <1>2, <2>1, LossUnchanged DEF SerialInv, SerialCalls, JobOf, Written, store
  <2>2. CASE call'[w].pc \in AtRest
    BY <1>2, <2>2, SerialAtRest DEF AtRest
  <2> QED
    BY <2>1, <2>2
<1> QED
  BY <1>1, <1>3 DEF SerialInv, Explained

LEMMA TroubleStays ==
    ASSUME UNCHANGED files, run' = run \/ (run \in Unfinished /\ run' \in Unfinished)
    PROVE  InTrouble' = InTrouble
BY DEF InTrouble, Deleted

\* With one worker, its own place is everybody's.
LEMMA SerialStep ==
    ASSUME OneWorker, NEW w \in Worker, SerialInv(InTrouble)', Finished', SerialOf(w)'
    PROVE  SerialImport'
BY DEF SerialImport, OneWorker


-----------------------------------------------------------------------------
(* One lemma per step, again. *)

LEMMA SerialStart ==
    ASSUME OneWorker, ImportInv, SerialImport, NEW w \in Worker, Start(w)
    PROVE  SerialImport'
<1>1. CASE UNCHANGED importVars
  <2>1. UNCHANGED <<store, files, run, call, importer>>
    BY <1>1 DEF importVars, store
  <2>2. SerialInv(InTrouble)'
    BY <2>1, TroubleStays, SerialStands
  <2>3. Finished' /\ SerialOf(w)'
    BY <2>1, ClaimsStay, SerialFacts DEF Finished, SerialOf, DoneBy
  <2> QED
    BY <2>2, <2>3, SerialStep
<1>2. CASE /\ Accepted /\ run # "completed"
           /\ run' = IF run = None THEN "staging" ELSE run
           /\ call' = [call EXCEPT ![w] = NotCalled]
           /\ Move(w, At("staging")) \/ (~calm /\ UNCHANGED importer)
           /\ UNCHANGED <<store, setting>>
  <2>1. run' \in Unfinished /\ run' # "completed"
    BY <1>2, SerialFacts DEF Status, Unfinished
  <2>2. InTrouble \subseteq InTrouble'
    BY <1>2, <2>1 DEF InTrouble, Deleted, setting
  <2>3. call'[w].pc \in AtRest
    BY <1>2, SerialFacts DEF NotCalled, Left, AtRest
  <2>4. SerialInv(InTrouble)'
    BY <1>2, <2>2, <2>3, SerialStands
  <2>5. importer'[w] = At("staging") \/ (importer'[w] = importer[w] /\ importer[w].phase = "stopped")
    BY <1>2, SerialFacts DEF Move, Start
  <2>6. importer'[w].phase \in {"staging", "stopped"} /\ importer'[w].step # "drop"
    BY <2>5, SerialFacts DEF At, ImporterOf
  <2>7. SerialOf(w)' /\ Finished'
    BY <2>1, <2>3, <2>6 DEF SerialOf, Finished
  <2> QED
    BY <2>4, <2>7, SerialStep
<1> QED
  BY <1>1, <1>2 DEF Start

LEMMA SerialStageSource ==
    ASSUME OneWorker, ImportInv, SerialImport, NEW w \in Worker, StageSource(w)
    PROVE  SerialImport'
<1> DEFINE i == importer[w]
<1>1. /\ i.phase = "staging" /\ i.step = "do" /\ i.at <= Len(Plan)
      /\ Ingest(w, Plan[i.at])
      /\ importer' = [importer EXCEPT ![w] = [i EXCEPT !.step = "ingesting"]]
      /\ UNCHANGED <<run, files>>
  BY DEF StageSource, Doing, Items, Then, setting
<1>2. /\ i \in Importer /\ run \in Unfinished /\ Accepted /\ run # "completed"
  BY <1>1, SerialFacts DEF SerialOf, ImporterOf, Importing, Unfinished
<1>3. i.at \in 1..Len(Plan) /\ Plan[i.at] \in Ingestible
  BY <1>1, <1>2, PlanFacts DEF Importer
<1>4. PICK D : D = InTrouble
  OBVIOUS
<1>5. SerialInv(D)'
  BY <1>1, <1>3, <1>4, SerialFacts, SerialStage
<1>6. SerialInv(InTrouble)'
  BY <1>1, <1>4, <1>5, TroubleStays DEF SerialInv, Explained
<1>7. importer'[w].phase = "staging" /\ importer'[w].step = "ingesting"
  BY <1>1, <1>2, SerialFacts DEF Importer
<1>8. SerialOf(w)' /\ Finished'
  BY <1>1, <1>2, <1>7 DEF SerialOf, Finished, Unfinished
<1> QED
  BY <1>6, <1>8, SerialStep

LEMMA SerialWork ==
    ASSUME OneWorker, ImportInv, SerialImport, NEW w \in Worker, Work(w)
    PROVE  SerialImport'
<1>1. /\ Process(w) /\ UNCHANGED <<run, files>>
      /\ UNCHANGED importer \/ importer' = [importer EXCEPT ![w] = Stopped]
  BY DEF Work, setting, Move
<1>2. call[w].pc \notin AtRest
  BY <1>1, SerialFacts, ProcessKeeps
<1>3. (importer[w].phase = "stopped" \/ importer[w].step = "ingesting") /\ run # "completed"
  BY <1>2, SerialFacts DEF SerialOf
<1>4. PICK D : D = InTrouble
  OBVIOUS
<1>5. SerialInv(D)'
  BY <1>1, <1>4, SerialFacts, SerialProcess
<1>6. SerialInv(InTrouble)'
  BY <1>1, <1>4, <1>5, TroubleStays DEF SerialInv, Explained
<1>7. importer'[w] = importer[w] \/ importer'[w] = Stopped
  BY <1>1, SerialFacts
<1>8. SerialOf(w)' /\ Finished'
  BY <1>1, <1>3, <1>7, SerialFacts DEF SerialOf, Finished, Stopped, At, Importing, ImporterOf
<1> QED
  BY <1>6, <1>8, SerialStep

LEMMA SerialIngestRaises ==
    ASSUME OneWorker, ImportInv, SerialImport, NEW w \in Worker, IngestRaises(w)
    PROVE  SerialImport'
<1>1. /\ UNCHANGED <<store, files, run, call>> /\ importer'[w] = At("failing")
      /\ importer[w].phase = "staging" /\ call[w].pc \in AtRest
  BY SerialFacts DEF IngestRaises, setting, Fail, Move, ImporterOf, AtRest
<1>2. SerialInv(InTrouble)'
  BY <1>1, TroubleStays, SerialStands
<1>3. SerialOf(w)' /\ Finished'
  BY <1>1, ClaimsStay, SerialFacts DEF SerialOf, Finished, At, Importing
<1> QED
  BY <1>2, <1>3, SerialStep

LEMMA SerialRecord ==
    ASSUME OneWorker, ImportInv, SerialImport, NEW w \in Worker, Record(w)
    PROVE  SerialImport'
<1> DEFINE i == importer[w]
           r == [phase |-> i.phase, at |-> i.at + 1, step |-> "do"]
<1>1. /\ i \in Importer /\ i.at \in Nat /\ i.phase \in Importing /\ run \in Unfinished
      /\ UNCHANGED <<store, files>>
      /\ call' = [call EXCEPT ![w] = NotCalled] /\ call'[w].pc \in AtRest
      /\ i.step = "record" \/ i.phase = "staging"
  BY SerialFacts DEF Record, Importer, ImporterOf, Importing, SerialOf, setting, NotCalled, Left, AtRest
<1>2. run' \in Unfinished /\ run' # "completed"
  BY <1>1 DEF Record, Importing, Unfinished
<1>3. SerialInv(InTrouble)'
  BY <1>1, <1>2, TroubleStays, SerialStands
<1>4. importer'[w] = r \/ importer'[w] = At("failing")
  BY SerialFacts DEF Record, MayFail, Fail, Move
<1>5. CASE importer'[w] = At("failing")
  <2>1. SerialOf(w)'
    BY <1>1, <1>5 DEF SerialOf, At, Importing
  <2> QED
    BY <1>2, <1>3, <2>1, SerialStep DEF Finished
<1>6. CASE importer'[w] = r
  <2>1. importer'[w].phase = i.phase /\ importer'[w].at = i.at + 1 /\ importer'[w].step = "do"
    BY <1>6
  <2>2. DoneBy(w)' = i.at /\ (i.step = "record" => DoneBy(w) = i.at)
    BY <1>1, <2>1 DEF DoneBy
  <2>3. i.phase = "relating" => RelatedUpto(i.at)
    BY <1>1, <2>2, SerialFacts DEF SerialOf
  <2>4. i.phase = "deleting" => DeletedUpto(i.at)
    BY <1>1, <2>2, SerialFacts DEF SerialOf
  <2>5. PICK n : n = i.at
    OBVIOUS
  <2>6. (i.phase = "relating" => RelatedUpto(n)') /\ (i.phase = "deleting" => DeletedUpto(n)')
    BY <1>1, <2>3, <2>4, <2>5, ClaimsStay
  <2>7. (i.phase = "relating" => RelatedUpto(DoneBy(w))') /\ (i.phase = "deleting" => DeletedUpto(DoneBy(w))')
    BY <2>2, <2>5, <2>6
  <2>8. SerialOf(w)'
    BY <1>1, <1>2, <2>1, <2>7 DEF SerialOf
  <2> QED
    BY <1>2, <1>3, <2>8, SerialStep DEF Finished
<1> QED
  BY <1>4, <1>5, <1>6

LEMMA SerialFailImport ==
    ASSUME OneWorker, ImportInv, SerialImport, NEW w \in Worker, FailImport(w)
    PROVE  SerialImport'
<1>1. /\ UNCHANGED <<store, files>> /\ importer'[w] = Stopped
      /\ call'[w].pc \in AtRest
      /\ run' \in {run, "failed"}
  BY SerialFacts DEF FailImport, setting, Move, NotCalled, Left, AtRest
<1>2. InTrouble \subseteq InTrouble'
  BY <1>1 DEF InTrouble, Deleted, Unfinished
<1>3. SerialInv(InTrouble)'
  BY <1>1, <1>2, SerialStands
<1>4. SerialOf(w)' /\ Finished'
  BY <1>1, ClaimsStay, SerialFacts DEF SerialOf, Finished, Stopped, At, Importing
<1> QED
  BY <1>3, <1>4, SerialStep

LEMMA SerialCrashImport ==
    ASSUME OneWorker, ImportInv, SerialImport, NEW w \in Worker, CrashImport(w)
    PROVE  SerialImport'
<1>1. /\ UNCHANGED <<store, files, run>> /\ importer'[w] = Stopped
      /\ call'[w].pc \in AtRest
  BY SerialFacts DEF CrashImport, setting, Move, NotCalled, Left, AtRest
<1>2. SerialInv(InTrouble)'
  BY <1>1, TroubleStays, SerialStands
<1>3. SerialOf(w)' /\ Finished'
  BY <1>1, ClaimsStay, SerialFacts DEF SerialOf, Finished, Stopped, At, Importing
<1> QED
  BY <1>2, <1>3, SerialStep

LEMMA SerialRetryJob ==
    ASSUME OneWorker, ImportInv, SerialImport, NEW w \in Worker, NEW k \in Key, RetryJob(w, k)
    PROVE  SerialImport'
<1>1. /\ UNCHANGED <<store, files, run, importer>> /\ Retry(w, k)
      /\ importer[w].phase = "stopped" /\ importer[w].step # "drop"
  BY SerialFacts DEF RetryJob, Retry, setting, ImporterOf
<1>2. PICK D : D = InTrouble
  OBVIOUS
<1>3. SerialInv(D)'
  BY <1>1, <1>2, SerialFacts, SerialRetry
<1>4. SerialInv(InTrouble)'
  BY <1>1, <1>2, <1>3, TroubleStays DEF SerialInv, Explained
<1>5. ASSUME run = "completed" PROVE call'[w].pc \in AtRest
  BY <1>1, <1>5, SerialFacts DEF Finished, AllIndexed, Retry, Enter, Loaded, Raise, Left, AtRest
<1>6. SerialOf(w)' /\ Finished'
  BY <1>1, <1>5, ClaimsStay, SerialFacts DEF SerialOf, Finished, Importing
<1> QED
  BY <1>4, <1>6, SerialStep

\* At the end of a phase everything that the next one builds on is done.
LEMMA SerialAdvance ==
    ASSUME OneWorker, ImportInv, SerialImport, NEW w \in Worker, Advance(w)
    PROVE  SerialImport'
<1> DEFINE i == importer[w]
           next == After(i.phase)
<1>1. /\ i \in Importer /\ i.at \in Nat /\ i.phase \in Importing /\ run \in Unfinished
      /\ i.step = "do" /\ i.at > Items(i.phase) /\ i.at <= Items(i.phase) + 1
      /\ UNCHANGED <<store, files, call>> /\ call[w].pc \in AtRest
      /\ DoneBy(w) = i.at - 1 /\ Accepted /\ JobsPlanned
  BY SerialFacts DEF Advance, Importer, ImporterOf, Importing, SerialOf, setting, DoneBy, ImportInv
<1>2. \/ run' = next /\ importer'[w] = (IF next = "completed" THEN Stopped ELSE At(next))
      \/ run' \in {run, next} /\ importer'[w] = At("failing")
  BY SerialFacts DEF Advance, MayFail, Fail, Move
<1>3. ASSUME i.phase \in {"staging", "relating"}, DeletedUpto(0) \/ i.phase = "staging"
      PROVE  SerialImport'
  <2>1. run' \in Unfinished /\ run' # "completed" /\ next = IF i.phase = "staging" THEN "relating" ELSE "deleting"
    BY <1>1, <1>2, <1>3 DEF After, Unfinished
  <2>2. SerialInv(InTrouble)'
    BY <1>1, <2>1, TroubleStays, SerialStands
  <2>3. importer'[w].step = "do" /\ importer'[w].at = 1 /\ importer'[w].phase \in {next, "failing"}
    BY <1>2, <2>1 DEF At
  <2>4. DoneBy(w)' = 0
    BY <2>3 DEF DoneBy
  <2>5. RelatedUpto(0)'
    BY DEF RelatedUpto
  <2>6. DeletedUpto(0)' \/ i.phase = "staging"
    BY <1>1, <1>3, ClaimsStay
  <2>7. SerialOf(w)'
    <3>1. importer'[w].phase = "relating" => RelatedUpto(DoneBy(w))'
      BY <2>4, <2>5
    <3>2. importer'[w].phase = "deleting" => DeletedUpto(DoneBy(w))'
      BY <2>1, <2>3, <2>4, <2>6
    <3> QED
      BY <1>1, <2>1, <2>3, <3>1, <3>2 DEF SerialOf
  <2> QED
    BY <2>1, <2>2, <2>7, SerialStep DEF Finished
<1>4. CASE i.phase = "relating"
  <2>1. Len(Selected) \in Nat /\ i.at - 1 = Len(Selected)
    BY <1>1, <1>4, SelectedFacts DEF Items
  <2>2. RelatedUpto(Len(Selected))
    BY <1>1, <1>4, <2>1, SerialFacts DEF SerialOf
  <2>3. DroppedBy(0) = {}
    BY DEF DroppedBy
  <2>4. DeletedUpto(0)
    BY <2>2, <2>3 DEF DeletedUpto, RelatedUpto, StillRelated
  <2> QED
    BY <1>3, <1>4, <2>4
<1>5. CASE i.phase = "deleting"
  <2>1. Len(Deletions) \in Nat /\ i.at - 1 = Len(Deletions)
    BY <1>1, <1>5, PlanFacts DEF Items
  <2>2. DeletedUpto(Len(Deletions)) /\ SourcesStaged
    BY <1>1, <1>5, <2>1, SerialFacts DEF SerialOf, ImporterOf
  <2>3. AllIndexed
    BY <1>1, <2>2 DEF AllIndexed, JobsPlanned, Planned, SourcesStaged
  <2>4. next = "completed" /\ run' \in {run, "completed"} /\ importer'[w] \in {Stopped, At("failing")}
    BY <1>2, <1>5 DEF After
  <2>5. Finished'
    BY <1>1, <2>2, <2>3, ClaimsStay DEF Finished
  <2>6. SerialOf(w)'
    BY <1>1, <2>4 DEF SerialOf, Stopped, At, Importing
  <2>7. SerialInv(InTrouble)'
    <3>1. CASE run' = run
      BY <1>1, <3>1, TroubleStays, SerialStands
    <3>2. CASE run' = "completed"
      <4>1. InTrouble' = {}
        BY <3>2 DEF InTrouble, Unfinished
      <4>2. ASSUME NEW s \in Source, Deleted(s) PROVE current[s] = None
        <5>1. s \in DeletedSources(files)
          BY <4>2 DEF Deleted, DeletedSources
        <5>2. Contains(Deletions, s)
          BY <1>1, <5>1, PlanFacts, DeletionsListed
        <5> QED
          BY <2>2, <5>2 DEF Contains, DeletedUpto, Gone
      <4>3. Explained({})
        BY <4>2, SerialFacts DEF SerialInv, Explained, InTrouble
      <4>4. SerialInv({})
        BY <4>3, SerialFacts DEF SerialInv
      <4>5. SerialInv({})'
        BY <1>1, <4>4, SerialFacts, SerialAtRest DEF AtRest
      <4> QED
        BY <4>1, <4>5 DEF SerialInv, Explained
    <3> QED
      BY <2>4, <3>1, <3>2
  <2> QED
    BY <2>5, <2>6, <2>7, SerialStep
<1> QED
  BY <1>1, <1>3, <1>4, <1>5 DEF Importing

\* A step that leaves the jobs alone, and the stores of all but a source in trouble.
LEMMA TroubleExplains ==
    ASSUME NEW w \in Worker, OneWorker, NEW D, SerialInv(D), call[w].pc \in AtRest, UNCHANGED <<jobs, call>>,
           NEW s, \A r \in Source \ D : r # s => current'[r] = current[r] /\ index'[r] = index[r],
           s \in D \/ (current'[s] = current[s] /\ index'[s] = index[s])
    PROVE  SerialInv(D)'
<1>1. Explained(D)'
  <2> SUFFICES ASSUME NEW r \in Source \ D, current'[r] # None
               PROVE  Complete(r)' \/ HasOpenJob(r)'
    BY DEF Explained
  <2>1. current'[r] = current[r] /\ index'[r] = index[r]
    OBVIOUS
  <2>2. CASE Complete(r)
    BY <2>1, <2>2 DEF Complete
  <2>3. CASE HasOpenJob(r)
    BY <2>3 DEF HasOpenJob
  <2> QED
    BY <2>1, <2>2, <2>3 DEF SerialInv, Explained
<1>2. SerialCalls'
  BY DEF OneWorker, SerialCalls, AtRest
<1> QED
  BY <1>1, <1>2 DEF SerialInv

LEMMA SerialReplace ==
    ASSUME OneWorker, ImportInv, SerialImport, NEW w \in Worker, ReplaceRelationships(w)
    PROVE  SerialImport'
<1> DEFINE i == importer[w]
           c == Selected[i.at]
<1>1. /\ i.phase = "relating" /\ i.step = "do" /\ i.at <= Items("relating") /\ i \in Importer
      /\ UNCHANGED <<jobs, versions, current, index, call, run, files>>
      /\ run \in Unfinished /\ run # "completed" /\ Accepted /\ call[w].pc \in AtRest
      /\ RelatedUpto(i.at - 1)
  BY SerialFacts DEF ReplaceRelationships, Doing, SerialOf, ImporterOf, Importing, Unfinished, setting, DoneBy
<1>2. i.at \in 1..Len(Selected)
  BY <1>1, SelectedFacts DEF Items, Importer
<1>3. SerialInv(InTrouble)'
  <2>1. PICK D : D = InTrouble
    OBVIOUS
  <2>2. SerialInv(D)'
    BY <1>1, <2>1, SerialFacts, TroubleExplains
  <2> QED
    BY <1>1, <2>1, <2>2, TroubleStays DEF SerialInv, Explained
<1>4. CASE importer'[w] = At("failing")
  BY <1>1, <1>3, <1>4, SerialStep DEF Finished, SerialOf, At, Importing
<1>5. CASE Publishable(c) /\ Then(w, "record")
  <2>1. importer'[w].phase = "relating" /\ importer'[w].at = i.at /\ importer'[w].step = "record"
    BY <1>1, <1>5, SerialFacts DEF Then, Importer
  <2>2. PICK n \in Nat : n = i.at
    BY <1>2
  <2>3. RelatedUpto(n)'
    <3> SUFFICES ASSUME NEW j \in 1..n
                 PROVE  (Published(Selected[j]) /\ TargetsOf(Selected[j]) = Declared(Selected[j]))'
      BY DEF RelatedUpto
    <3>1. Selected' = Selected /\ \A x : Declared(x)' = Declared(x)
      BY <1>1 DEF Selected, Declared
    <3> DEFINE d == Selected[j]
    <3>2. /\ n \in 1..Len(Selected) /\ Len(Selected) \in Nat /\ j \in 1..Len(Selected)
          /\ j # n => Published(d) /\ TargetsOf(d) = Declared(d)
      BY <1>1, <1>2, <2>2, SelectedFacts DEF RelatedUpto
    <3>3. Published(d)'
      BY <1>1, <1>5, <2>2, <3>1, <3>2 DEF Published, Publishable
    <3>4. edges' = (edges \ OwnedBy(c.source, c.version)) \cup
                      {[source |-> c.source, version |-> c.version, to |-> t] : t \in Declared(c)}
      BY <1>1, <1>5, <2>1, SerialFacts DEF ReplaceRelationships, Fail, Move, At
    <3>5. <<d.source, d.version>> = <<c.source, c.version>> => Declared(d) = Declared(c)
      <4>1. /\ RelationshipCommands(files)[j] = <<d.source, d.version>>
            /\ Declared(d) = DeclaredTargets(files, RelationshipCommands(files)[j])
        BY <1>1, <3>2, SelectedFacts
      <4>2. /\ RelationshipCommands(files)[i.at] = <<c.source, c.version>>
            /\ Declared(c) = DeclaredTargets(files, RelationshipCommands(files)[i.at])
        BY <1>1, <1>2, SelectedFacts
      <4> HIDE DEF c, d
      <4> QED
        BY <4>1, <4>2
    <3> HIDE DEF c, d
    <3>6. CASE d.source = c.source /\ d.version = c.version
      <4>1. {e \in edges' : e.source = d.source /\ e.version = d.version} =
               {[source |-> c.source, version |-> c.version, to |-> t] : t \in Declared(c)}
        BY <3>4, <3>6 DEF OwnedBy
      <4>2. {e.to : e \in {[source |-> c.source, version |-> c.version, to |-> t] : t \in Declared(c)}}
               = Declared(c)
        <5> DEFINE Row(t) == [source |-> c.source, version |-> c.version, to |-> t]
        <5>1. \A t : Row(t).to = t
          OBVIOUS
        <5> HIDE DEF Row
        <5>2. {e.to : e \in {Row(t) : t \in Declared(c)}} = Declared(c)
          BY <5>1
        <5> QED
          BY <5>2 DEF Row
      <4>3. TargetsOf(d)' = Declared(c)
        BY <3>1, <4>1, <4>2 DEF TargetsOf, OwnedBy, d
      <4> QED
        BY <3>1, <3>3, <3>5, <3>6, <4>3 DEF d
    <3>7. CASE ~(d.source = c.source /\ d.version = c.version)
      <4>1. {e \in edges' : e.source = d.source /\ e.version = d.version} =
               {e \in edges : e.source = d.source /\ e.version = d.version}
        BY <3>4, <3>7 DEF OwnedBy
      <4>2. TargetsOf(d)' = TargetsOf(d)
        BY <3>1, <4>1 DEF TargetsOf, OwnedBy, d
      <4>3. j # n
        BY <2>2, <3>7 DEF c, d
      <4> QED
        BY <3>1, <3>2, <3>3, <4>2, <4>3 DEF d
    <3> QED
      BY <3>6, <3>7
  <2>4. DoneBy(w)' = n
    BY <2>1, <2>2 DEF DoneBy
  <2>5. RelatedUpto(DoneBy(w))'
    BY <2>3, <2>4
  <2>6. SerialOf(w)'
    BY <1>1, <2>1, <2>5 DEF SerialOf
  <2> QED
    BY <1>1, <1>3, <2>6, SerialStep DEF Finished
<1>6. importer'[w] = At("failing") \/ (Publishable(c) /\ Then(w, "record"))
  BY SerialFacts DEF ReplaceRelationships, MayFail, Fail, Move
<1> QED
  BY <1>4, <1>5, <1>6


LEMMA DeletionsDeleted ==
    ASSUME Accepted, NEW i \in 1..Len(Deletions)
    PROVE  Deletions[i] \in Source /\ Deleted(Deletions[i])
<1>1. files \in Dataset /\ Deletions = DeletionCommands(files)
  BY PlanFacts
<1>2. Deletions \in Seq(Source) /\ Deletions[i] \in DeletedSources(files)
  BY <1>1, DeletionsListed
<1> QED
  BY <1>2 DEF DeletedSources, Deleted

LEMMA SerialDeleteFromIndex ==
    ASSUME OneWorker, ImportInv, SerialImport, NEW w \in Worker, DeleteFromIndex(w)
    PROVE  SerialImport'
<1> DEFINE i == importer[w]
           s == Deletions[i.at]
<1>1. /\ i.phase = "deleting" /\ i.step = "do" /\ i.at <= Items("deleting") /\ i \in Importer
      /\ UNCHANGED <<jobs, versions, edges, current, call, run, files>>
      /\ run \in Unfinished /\ run # "completed" /\ Accepted /\ call[w].pc \in AtRest
      /\ DeletedUpto(i.at - 1)
  BY SerialFacts DEF DeleteFromIndex, Doing, SerialOf, ImporterOf, Importing, Unfinished, setting, DoneBy
<1>2. i.at \in 1..Len(Deletions) /\ s \in Source /\ Deleted(s) /\ Len(Deletions) \in Nat
  BY <1>1, DeletingFacts, DeletionsDeleted, PlanFacts
<1>3. PICK kept \in SUBSET Chunk :
          /\ index' = [index EXCEPT ![s] =
                         [c \in Chunk |-> IF c \in kept THEN index[s][c] ELSE None]]
          /\ Then(w, "drop") \/ MayFail(w)
  BY DEF DeleteFromIndex
<1>4. index \in [Source -> [Chunk -> Version \cup {None}]]
  BY SerialFacts DEF IInv, TypeOK
<1>5. \A r \in Source : r # s => index'[r] = index[r]
  BY <1>2, <1>3, <1>4
<1>7. SerialInv(InTrouble)'
  <2>1. PICK D : D = InTrouble
    OBVIOUS
  <2>2. s \in D
    BY <1>1, <1>2, <2>1 DEF InTrouble
  <2>3. SerialInv(D)'
    BY <1>1, <1>5, <2>1, <2>2, SerialFacts, TroubleExplains
  <2> QED
    BY <1>1, <2>1, <2>3, TroubleStays DEF SerialInv, Explained
<1>8. CASE Fail(w)
  <2>1. importer'[w] = At("failing")
    BY <1>8, SerialFacts DEF Fail, Move
  <2> QED
    BY <1>1, <1>7, <2>1, SerialStep DEF Finished, SerialOf, At, Importing
<1>9. CASE Then(w, "drop")
  <2>1. importer'[w].phase = "deleting" /\ importer'[w].at = i.at /\ importer'[w].step = "drop"
    BY <1>1, <1>9, SerialFacts DEF Then, Importer
  <2>2. PICK n \in Int : n = i.at - 1
    BY <1>2
  <2>3. DeletedUpto(n)'
    <3>1. /\ Deletions' = Deletions /\ Selected' = Selected /\ \A c : Declared(c)' = Declared(c)
          /\ \A r : Deleted(r)' = Deleted(r)
      BY <1>1 DEF Deletions, Selected, Declared, Deleted
    <3>2. \A c : Published(c)' = Published(c) /\ TargetsOf(c)' = TargetsOf(c)
      BY <1>1 DEF Published, TargetsOf, OwnedBy
    <3>3. DroppedBy(n)' = DroppedBy(n)
      BY <3>1 DEF DroppedBy
    <3>4. \A r : Gone(r)' = Gone(r)
      BY <1>1 DEF Gone
    <3> QED
      BY <1>1, <2>2, <3>1, <3>2, <3>3, <3>4 DEF DeletedUpto, StillRelated
  <2>4. DoneBy(w)' = n
    BY <2>1, <2>2 DEF DoneBy
  <2>5. DeletedUpto(DoneBy(w))'
    BY <2>3, <2>4
  <2>7. SerialOf(w)'
    BY <1>1, <2>1, <2>5 DEF SerialOf
  <2> QED
    BY <1>1, <1>7, <2>7, SerialStep DEF Finished
<1> QED
  BY <1>3, <1>8, <1>9 DEF MayFail

LEMMA SerialDropSource ==
    ASSUME OneWorker, ImportInv, SerialImport, NEW w \in Worker, DropSource(w)
    PROVE  SerialImport'
<1> DEFINE i == importer[w]
           s == Deletions[i.at]
<1>1. /\ i.phase = "deleting" /\ i.step = "drop" /\ i.at <= Items("deleting") /\ i \in Importer
      /\ UNCHANGED <<jobs, versions, index, call, run, files>>
      /\ run \in Unfinished /\ run # "completed" /\ Accepted /\ call[w].pc \in AtRest
      /\ DeletedUpto(i.at - 1)
  BY SerialFacts DEF DropSource, SerialOf, ImporterOf, Importing, Unfinished, setting, DoneBy
<1>2. i.at \in 1..Len(Deletions) /\ s \in Source /\ Deleted(s) /\ Len(Deletions) \in Nat
  BY <1>1, DeletingFacts, DeletionsDeleted, PlanFacts
<1>3. current \in [Source -> Key \cup {None}]
  BY SerialFacts DEF IInv, TypeOK
<1>4. \A r \in Source : r # s => current'[r] = current[r]
  BY <1>2, <1>3 DEF DropSource
<1>5. SerialInv(InTrouble)'
  <2>1. PICK D : D = InTrouble
    OBVIOUS
  <2>2. s \in D
    BY <1>1, <1>2, <2>1 DEF InTrouble
  <2>3. SerialInv(D)'
    BY <1>1, <1>4, <2>1, <2>2, SerialFacts, TroubleExplains
  <2> QED
    BY <1>1, <2>1, <2>3, TroubleStays DEF SerialInv, Explained
<1>6. CASE importer'[w] = At("failing")
  BY <1>1, <1>5, <1>6, SerialStep DEF Finished, SerialOf, At, Importing
<1>7. CASE /\ edges' = {e \in edges : e.source # s /\ e.to[1] # s}
           /\ current' = [current EXCEPT ![s] = None]
           /\ Then(w, "record")
  <2>1. importer'[w].phase = "deleting" /\ importer'[w].at = i.at /\ importer'[w].step = "record"
    BY <1>1, <1>7, SerialFacts DEF Then, Importer
  <2>2. PICK n \in Nat : n = i.at
    BY <1>2
  <2>3. /\ Deletions' = Deletions /\ Selected' = Selected /\ \A c : Declared(c)' = Declared(c)
        /\ \A r : Deleted(r)' = Deleted(r)
    BY <1>1 DEF Deletions, Selected, Declared, Deleted
  <2>4. ASSUME NEW j \in 1..n PROVE Gone(Deletions[j])'
    <3>1. j \in 1..Len(Deletions) /\ Deletions[j] \in Source
      BY <1>1, <1>2, <2>2, DeletionsDeleted
    <3>2. CASE j = n
      <4>1. current'[s] = None
        BY <1>2, <1>3, <1>7
      <4> QED
        BY <1>1, <1>7, <2>2, <2>3, <3>2, <4>1 DEF Gone
    <3>3. CASE j # n
      <4>1. Gone(Deletions[j])
        BY <1>1, <2>2, <3>3 DEF DeletedUpto
      <4>2. current'[Deletions[j]] = None
        BY <1>2, <1>3, <1>7, <3>1, <4>1 DEF Gone
      <4> QED
        BY <1>1, <1>7, <2>3, <4>1, <4>2 DEF Gone
    <3> QED
      BY <3>2, <3>3
  <2>5. ASSUME NEW j \in 1..Len(Selected), ~Deleted(Selected[j].source)
        PROVE  StillRelated(Selected[j], n)'
    <3> DEFINE c == Selected[j]
    <3>1. Published(c) /\ TargetsOf(c) = {t \in Declared(c) : t[1] \notin DroppedBy(n - 1)}
      BY <1>1, <2>2, <2>5 DEF DeletedUpto, StillRelated
    <3>2. c.source \in Source /\ c.source # s
      BY <1>1, <1>2, <2>5, SelectedFacts DEF Ingestible
    <3>3. \A x : x \in DroppedBy(n)' <=> x \in DroppedBy(n - 1) \/ x = s
      <4>1. 1..n = (1..(n - 1)) \cup {n}
        BY <1>2, <2>2
      <4>2. Deletions[n] = s
        BY <2>2
      <4> QED
        BY <2>3, <4>1, <4>2 DEF DroppedBy
    <3> HIDE DEF c
    <3>4. Published(c)'
      BY <1>1, <1>4, <2>3, <3>1, <3>2 DEF Published, c
    <3>5. TargetsOf(c)' = {t \in TargetsOf(c) : t[1] # s}
      BY <1>7, <2>3, <3>2 DEF TargetsOf, OwnedBy, c
    <3>6. TargetsOf(c)' = {t \in Declared(c) : t[1] \notin DroppedBy(n)'}
      BY <3>1, <3>3, <3>5
    <3> QED
      BY <2>3, <3>4, <3>6 DEF StillRelated, c
  <2>6. DeletedUpto(n)'
    BY <2>3, <2>4, <2>5 DEF DeletedUpto
  <2>7. DoneBy(w)' = n
    BY <2>1, <2>2 DEF DoneBy
  <2>8. DeletedUpto(DoneBy(w))'
    BY <2>6, <2>7
  <2>9. SerialOf(w)'
    BY <1>1, <2>1, <2>8 DEF SerialOf
  <2> QED
    BY <1>1, <1>5, <2>9, SerialStep DEF Finished
<1> QED
  BY <1>6, <1>7, SerialFacts DEF DropSource, MayFail, Fail, Move

LEMMA SerialIdle ==
    ASSUME SerialImport, UNCHANGED <<store, files, run, call, importer>>
    PROVE  SerialImport'
<1>1. Finished' /\ \A w \in Worker : SerialOf(w)'
  BY ClaimsStay, SerialFacts DEF SerialImport, Finished, SerialOf, DoneBy
<1>2. PICK D : D = InTrouble
  OBVIOUS
<1>3. SerialInv(D)'
  BY <1>2, LossUnchanged DEF SerialImport, SerialInv, SerialCalls, JobOf, Written, store
<1>4. SerialInv(InTrouble)'
  BY <1>2, <1>3, TroubleStays DEF SerialInv, Explained
<1> QED
  BY <1>1, <1>4 DEF SerialImport

LEMMA SerialImportNext ==
    ASSUME OneWorker, ImportInv, SerialImport, [ImportNext]_importVars
    PROVE  SerialImport'
<1>1. CASE UNCHANGED importVars \/ BecomeCalm
  BY <1>1, SerialIdle DEF importVars, BecomeCalm, store
<1>2. ASSUME NEW w \in Worker, Progress(w) PROVE SerialImport'
  BY <1>2, SerialStart, SerialStageSource, SerialWork, SerialIngestRaises, SerialRecord, SerialAdvance,
     SerialFailImport, SerialReplace, SerialDeleteFromIndex, SerialDropSource DEF Progress
<1> QED
  BY <1>1, <1>2, SerialCrashImport, SerialRetryJob DEF ImportNext

\* With one operator at a time a published source misses a chunk of its version only while
\* a job or the import itself says that something is unfinished.
THEOREM ImportLossExplicit == OneWorker /\ ImportSpec => []ImportLossIsExplicit
<1> SUFFICES ASSUME OneWorker PROVE ImportSpec => []ImportLossIsExplicit
  OBVIOUS
<1>1. ImportInv /\ SerialImport /\ [ImportNext]_importVars => SerialImport'
  BY SerialImportNext
<1>2. SerialImport => ImportLossIsExplicit
  BY DEF SerialImport, SerialInv, Explained, ImportLossIsExplicit, InTrouble, Unfinished
<1> QED
  BY <1>1, <1>2, ImportInitSerial, ImportInvariant, PTL DEF ImportSpec


-----------------------------------------------------------------------------
(* What a completed import left, in the words of the files.                *)

\* prepare() knows a current version of every source that the files name: the one its
\* last operation selects.
LEMMA LastSelects ==
    ASSUME Accepted, NEW s \in Named
    PROVE  /\ s \in Source /\ Active(s, CurrentVersions(files)[s])
           /\ <<s, CurrentVersions(files)[s]>> \in SourceVersions(files)
<1> DEFINE ops == files.operations
           places == Selections(files, s)
<1>1. files \in Dataset /\ Accepts(files)
  BY PlanFacts
<1>2. ops \in Seq(Operation) /\ Len(ops) \in Nat
  BY <1>1, FileTypes
<1>3. s \in Sources(files) /\ s \in Source
  <2>1. s \in Sources(files)
    <3>1. PICK n \in Read(files.nodes) : n.source = s
      BY DEF Named
    <3>2. VersionOf(n) \in SourceVersions(files) /\ VersionOf(n)[1] = s
      BY <3>1 DEF SourceVersions, Nodes, VersionOf
    <3> QED
      BY <3>2 DEF Sources
  <2> QED
    BY <1>1, <2>1, FileTypes DEF Sources
<1>4. CurrentVersions(files)[s] # None
  BY <1>1, <1>3 DEF Accepts
<1>5. places # {} /\ places \subseteq 1..Len(ops)
  BY <1>2, <1>3, <1>4 DEF CurrentVersions, Selections, Here
<1>6. PICK i \in places : \A j \in places : j <= i
  <2> HIDE DEF places
  <2> DEFINE n == Len(ops)
             T == {n - i : i \in places}
  <2>1. T \subseteq Nat /\ T # {}
    <3> HIDE DEF n
    <3>1. n \in Nat /\ places \subseteq 1..n /\ places # {}
      BY <1>2, <1>5 DEF n
    <3>2. \A i \in places : n - i \in Nat
      BY <3>1
    <3> QED
      BY <3>1, <3>2
  <2>2. PICK m \in T : \A t \in T : m <= t
    <3> HIDE DEF T
    <3> QED
      BY <2>1, LeastOfNat
  <2>3. PICK i \in places : m = n - i
    OBVIOUS
  <2>4. ASSUME NEW j \in places PROVE j <= i
    <3>1. n - i <= n - j
      BY <2>2, <2>3
    <3> HIDE DEF n, T
    <3>2. n \in Nat /\ i \in 1..n /\ j \in 1..n
      BY <1>2, <1>5 DEF n
    <3> QED
      BY <3>1, <3>2
  <2> QED
    BY <2>4
<1> DEFINE last == CHOOSE j \in places : \A k \in places : k <= j
<1>7. last \in places /\ \A j \in places : j <= last
  <2> HIDE DEF places
  <2> QED
    BY <1>6
<1> HIDE DEF last
<1>8. CurrentVersions(files)[s] = ops[last].version
  BY <1>3, <1>5 DEF CurrentVersions, last
<1>9. /\ last \in Here(ops) /\ last \in 1..Len(ops) /\ ops[last].operation # "delete_source"
      /\ ops[last].source = s
  BY <1>2, <1>7 DEF Selections, Here
<1>10. Active(s, ops[last].version)
  <2>1. \A j \in Here(ops) : j > last =>
           ~(ops[j].operation # "delete_source" /\ ops[j].source = s)
    <3> SUFFICES ASSUME NEW j \in Here(ops), j > last, ops[j].operation # "delete_source",
                        ops[j].source = s
                 PROVE  FALSE
      OBVIOUS
    <3>1. j \in places
      BY DEF Selections
    <3>2. j \in 1..Len(ops) /\ j <= last
      BY <1>5, <1>7, <3>1
    <3> QED
      BY <1>9, <3>2
  <2> QED
    BY <1>9, <2>1 DEF Active
<1>11. <<s, ops[last].version>> \in SourceVersions(files)
  <2>1. ops[last] \in Read(ops)
    BY <1>9 DEF Read
  <2> QED
    BY <1>1, <1>9, <2>1 DEF Accepts, VersionOf
<1> QED
  BY <1>3, <1>8, <1>10, <1>11

\* The relationships of a version as the workspace and as the files have them.
LEMMA DescribedTargets ==
    ASSUME NEW sv
    PROVE  Described(sv[1], sv[2]) = {t \in DeclaredTargets(files, <<sv[1], sv[2]>>) : ~Deleted(t[1])}
<1> DEFINE known == {n.chunk : n \in Read(files.nodes)}
           owner == <<sv[1], sv[2]>>
           read == {x \in Read(files.edges) : x.owner = owner /\ {x.from, x.to} \subseteq known}
           Target(e) == <<e.target[1], e.to>>
<1>1. OwnedEdges(files, owner) = read
  <2>1. \A c : Known(files, c) <=> c \in known
    BY DEF Known, Nodes
  <2> QED
    BY <2>1 DEF OwnedEdges, Relationships, Related, Read
<1>2. DeclaredTargets(files, owner) = {Target(e) : e \in read}
  BY <1>1 DEF DeclaredTargets
<1>3. Described(sv[1], sv[2]) = {Target(e) : e \in {x \in read : ~Deleted(x.target[1])}}
  BY DEF Described
<1>4. \A e : Target(e)[1] = e.target[1]
  OBVIOUS
<1> HIDE DEF read, Target, owner
<1> QED
  BY <1>2, <1>3, <1>4 DEF owner

LEMMA CompletedConsistent ==
    ASSUME ImportInv, SerialImport
    PROVE  CompletedIsConsistent
<1> SUFFICES ASSUME run = "completed"
             PROVE  /\ \A s \in Named : ~Deleted(s) => \E v \in Version :
                          /\ Active(s, v)
                          /\ current[s] # None /\ jobs[current[s]].version = v
                          /\ Complete(s)
                          /\ {e.to : e \in OwnedBy(s, v)} = Described(s, v)
                    /\ \A s \in Source : Deleted(s) =>
                          /\ current[s] = None
                          /\ \A e \in edges : e.source # s /\ e.to[1] # s
  BY DEF CompletedIsConsistent
<1>1. /\ Accepted /\ DeletedUpto(Len(Deletions)) /\ AllIndexed /\ Explained({})
      /\ files \in Dataset /\ Deletions = DeletionCommands(files)
  <2>1. run # None /\ InTrouble = {}
    BY StatusAssumption DEF Status, InTrouble, Unfinished
  <2>2. Accepted
    BY <2>1 DEF ImportInv
  <2> QED
    BY <2>1, <2>2, PlanFacts DEF SerialImport, SerialInv, Finished
<1>2. ASSUME NEW s \in Source, Deleted(s) PROVE \E i \in 1..Len(Deletions) : Deletions[i] = s
  <2>1. s \in DeletedSources(files)
    BY <1>2 DEF Deleted, DeletedSources
  <2>2. Contains(Deletions, s)
    BY <1>1, <2>1, DeletionsListed
  <2> QED
    BY <2>2 DEF Contains
<1>3. ASSUME NEW s \in Source, Deleted(s) PROVE Gone(s)
  BY <1>1, <1>2, <1>3 DEF DeletedUpto
<1>4. ASSUME NEW s \in Source PROVE s \in DroppedBy(Len(Deletions)) <=> Deleted(s)
  BY <1>1, <1>2, DeletionsDeleted DEF DroppedBy
<1>5. ASSUME NEW s \in Named, ~Deleted(s)
      PROVE  \E v \in Version :
                /\ Active(s, v)
                /\ current[s] # None /\ jobs[current[s]].version = v
                /\ Complete(s)
                /\ {e.to : e \in OwnedBy(s, v)} = Described(s, v)
  <2> DEFINE v == CurrentVersions(files)[s]
             sv == <<s, v>>
  <2>1. s \in Source /\ Active(s, v) /\ sv \in SourceVersions(files)
    BY <1>1, LastSelects
  <2>2. v \in Version
    BY <1>1, <2>1, FileTypes
  <2>3. Contains(RelationshipCommands(files), sv)
    BY <1>1, <2>1, SelectedListed
  <2>4. PICK i \in 1..Len(Selected) : RelationshipCommands(files)[i] = sv
    BY <1>1, <2>3, SelectedFacts DEF Contains
  <2>5. /\ Selected[i].source = s /\ Selected[i].version = v
        /\ Declared(Selected[i]) = DeclaredTargets(files, sv)
        /\ Declared(Selected[i]) \subseteq Source \X Chunk
    <3> HIDE DEF v
    <3>1. /\ RelationshipCommands(files)[i] = <<Selected[i].source, Selected[i].version>>
          /\ Declared(Selected[i]) = DeclaredTargets(files, RelationshipCommands(files)[i])
          /\ Declared(Selected[i]) \subseteq Source \X Chunk
      BY <1>1, SelectedFacts
    <3> QED
      BY <2>4, <3>1
  <2>6. StillRelated(Selected[i], Len(Deletions))
    BY <1>1, <1>5, <2>5 DEF DeletedUpto
  <2> HIDE DEF v
  <2>7. current[s] # None /\ jobs[current[s]].version = v
    BY <2>5, <2>6 DEF StillRelated, Published
  <2>8. Complete(s)
    BY <1>1, <2>1, <2>7 DEF Explained, HasOpenJob, AllIndexed
  <2>9. {e.to : e \in OwnedBy(s, v)} = Described(s, v)
    <3>1. {e.to : e \in OwnedBy(s, v)} =
             {t \in Declared(Selected[i]) : t[1] \notin DroppedBy(Len(Deletions))}
      BY <2>5, <2>6 DEF StillRelated, TargetsOf
    <3>2. \A t \in Declared(Selected[i]) : t[1] \in Source
      BY <2>5
    <3>3. {e.to : e \in OwnedBy(s, v)} = {t \in DeclaredTargets(files, <<s, v>>) : ~Deleted(t[1])}
      BY <1>4, <2>5, <3>1, <3>2
    <3>4. Described(sv[1], sv[2]) = {t \in DeclaredTargets(files, <<sv[1], sv[2]>>) : ~Deleted(t[1])}
      BY DescribedTargets
    <3> QED
      BY <3>3, <3>4
  <2> QED
    BY <2>1, <2>2, <2>7, <2>8, <2>9
<1> QED
  BY <1>3, <1>5 DEF Gone

\* What a completed import knows of every source: its active version is wholly indexed.
LEMMA CompletedMeansComplete ==
    ASSUME ImportInv, SerialImport, run = "completed", NEW s \in Source, current[s] # None
    PROVE  Complete(s)
<1>1. InTrouble = {} /\ AllIndexed
  BY DEF InTrouble, Unfinished, SerialImport, Finished
<1> QED
  BY <1>1 DEF SerialImport, SerialInv, Explained, HasOpenJob, AllIndexed

LEMMA VerifiedExact ==
    ASSUME ImportInv, SerialImport
    PROVE  VerifiedIsExact
<1> SUFFICES ASSUME run = "completed", Verified, NEW s \in Source, NEW c \in Chunk
             PROVE  index[s][c] = IF <<s, c>> \in ActiveChunks
                                  THEN jobs[current[s]].version ELSE None
  BY DEF VerifiedIsExact
<1>1. ASSUME NEW r \in Source, NEW x \in Chunk, <<r, x>> \in ActiveChunks
      PROVE  index[r][x] = jobs[current[r]].version /\ jobs[current[r]].version # None
  <2> DEFINE row == jobs[current[r]]
  <2>1. current[r] # None /\ x \in ChunksOf(versions[<<r, row.version>>])
    BY <1>1 DEF ActiveChunks
  <2>2. current[r] \in Key /\ row \in Job /\ row.source = r
    BY <2>1, InvFacts DEF IInv, TypeOK, PublishedIsIndexed
  <2>3. versions[<<r, row.version>>] = row.payload
    BY <2>2, InvFacts, NoneAssumption DEF IInv, JobMatchesVersion
  <2>4. row.version \in Version
    BY <2>2 DEF Job
  <2> QED
    BY <2>1, <2>3, <2>4, CompletedMeansComplete, NoneAssumption DEF Complete
<1>2. ActiveChunks \subseteq IndexedChunks
  BY <1>1 DEF ActiveChunks, IndexedChunks
<1>3. IsFiniteSet(IndexedChunks)
  <2>1. IsFiniteSet(Source \X Chunk)
    BY FiniteAssumption, FS_Product
  <2> QED
    BY <2>1, FS_Subset DEF IndexedChunks
<1>4. ActiveChunks = IndexedChunks
  BY <1>2, <1>3, FS_Subset DEF Verified
<1> QED
  BY <1>1, <1>4 DEF IndexedChunks

\* With one operator at a time a run that says it is completed left the stores as the files
\* describe them, whatever earlier attempts left behind.
THEOREM CompletedImportIsConsistent == OneWorker /\ ImportSpec => []CompletedIsConsistent
<1> SUFFICES ASSUME OneWorker PROVE ImportSpec => []CompletedIsConsistent
  OBVIOUS
<1>1. ImportInv /\ SerialImport /\ [ImportNext]_importVars => SerialImport'
  BY SerialImportNext
<1> QED
  BY <1>1, CompletedConsistent, ImportInitSerial, ImportInvariant, PTL DEF ImportSpec

\* With one operator at a time a run that completed, and for which `verify` counts as many
\* chunks as objects, left no object that a deletion should have removed.
THEOREM VerifiedImportIsExact == OneWorker /\ ImportSpec => []VerifiedIsExact
<1> SUFFICES ASSUME OneWorker PROVE ImportSpec => []VerifiedIsExact
  OBVIOUS
<1>1. ImportInv /\ SerialImport /\ [ImportNext]_importVars => SerialImport'
  BY SerialImportNext
<1> QED
  BY <1>1, VerifiedExact, ImportInitSerial, ImportInvariant, PTL DEF ImportSpec
=============================================================================
