---------------------------- MODULE DatasetImport ----------------------------
(***************************************************************************)
(* DatasetImportService.execute: the import CLI run for one dataset under  *)
(* one import id, over the job repository and vector index of Ingestion.   *)
(* It stages every source version, publishes the relationships of the      *)
(* active versions, applies the deletions and records its progress in      *)
(* sf.import_runs after each item.  It may fail or die anywhere; the       *)
(* operator repeats the command.  Between two repetitions an administrator *)
(* may retry jobs.                                                         *)
(***************************************************************************)
EXTENDS Ingestion

CONSTANTS
    SourceOrder,    \* the sources by source_id
    Dataset,        \* the files an operator may import
    Preloaded       \* what earlier imports left: commands, one for each source

INSTANCE DatasetReader

ASSUME FiniteAssumption == IsFiniteSet(Source) /\ IsFiniteSet(Chunk)
ASSUME SourceOrderAssumption ==
    /\ SourceOrder \in Seq(Source)
    /\ \A s \in Source : Cardinality({i \in DOMAIN SourceOrder : SourceOrder[i] = s}) = 1

\* idempotency_key names the source version, and so does the payload hash: the files
\* agree on what a version contains.
CommandOf(sv) == [key |-> sv, source |-> sv[1], version |-> sv[2], payload |-> sv]

ASSUME DatasetAssumption == \A d \in Dataset :
    /\ d \in Files
    /\ Accepts(d) => \A sv \in SourceVersions(d) :
          sv \in Key \cap Payload /\ Content[sv] = ChunksListed(d, sv) /\ Links[sv] = {}
ASSUME PreloadedAssumption ==
    /\ Preloaded \subseteq Command
    /\ \A c, d \in Preloaded : c # d => c.source # d.source /\ c.key # d.key
\* The relationships that the files declare are this import's own: none is there yet.
ASSUME NewRelationships == \A d \in Dataset, c \in Preloaded :
    Accepts(d) => DeclaredTargets(d, <<c.source, c.version>>) \cap Links[c.payload] = {}

\* prepare(): the workspace of every dataset that it accepts.  Ingestion leaves the
\* relationships of a source version out.
Prepared == [d \in {x \in Dataset : Accepts(x)} |->
    LET plan == SourceCommands(d)
        selected == RelationshipCommands(d)
    IN [plan      |-> [i \in DOMAIN plan |-> CommandOf(plan[i])],
        selected  |-> [i \in DOMAIN selected |-> CommandOf(selected[i])],
        declared  |-> [sv \in SourceVersions(d) |-> DeclaredTargets(d, sv)],
        builds    |-> [sv \in SourceVersions(d) |-> CommandBuilds(d, sv)],
        deletions |-> DeletionCommands(d)]]

VARIABLES
    files,       \* the dataset of this import id; its hash allows no other
    run,         \* status of the row of sf.import_runs, or None
    importer,    \* worker -> where its execute() stands
    calm         \* from here on requests do all they are asked for, and nobody
                 \* else intervenes

importVars == <<jobs, versions, edges, current, index, call, files, run, importer, calm>>
setting == <<files, calm>>

Accepted == files \in DOMAIN Prepared
Plan == Prepared[files].plan
Selected == Prepared[files].selected
Declared(c) == Prepared[files].declared[c.key]
Builds(c) == Prepared[files].builds[c.key]
Deletions == Prepared[files].deletions

Status == {"staging", "relating", "deleting", "completed", "failed"}
ASSUME StatusAssumption == None \notin Status

Phase == {"stopped", "staging", "relating", "deleting", "failing"}
Importer == [phase : Phase, at : Nat \ {0}, step : {"do", "ingesting", "drop", "record"}]

At(phase) == [phase |-> phase, at |-> 1, step |-> "do"]
Stopped == At("stopped")

ImportTypeOK ==
    /\ TypeOK
    /\ files \in Dataset
    /\ run \in Status \cup {None}
    /\ importer \in [Worker -> Importer]
    /\ calm \in BOOLEAN

ImportInit ==
    /\ jobs = [k \in Key |->
          IF \E c \in Preloaded : c.key = k
          THEN LET c == CHOOSE d \in Preloaded : d.key = k IN
               [source |-> c.source, version |-> c.version,
                payload |-> c.payload, status |-> "indexed"]
          ELSE None]
    /\ versions = [sv \in Source \X Version |->
          IF \E c \in Preloaded : <<c.source, c.version>> = sv
          THEN (CHOOSE c \in Preloaded : <<c.source, c.version>> = sv).payload
          ELSE None]
    /\ edges = UNION {{[source |-> c.source, version |-> c.version, to |-> t] :
                          t \in Links[c.payload]} : c \in Preloaded}
    /\ current = [s \in Source |->
          IF \E c \in Preloaded : c.source = s
          THEN (CHOOSE c \in Preloaded : c.source = s).key
          ELSE None]
    /\ index = [s \in Source |-> [x \in Chunk |->
          IF \E c \in Preloaded : c.source = s /\ x \in ChunksOf(c.payload)
          THEN (CHOOSE c \in Preloaded : c.source = s).version
          ELSE None]]
    /\ call = [w \in Worker |-> NotCalled]
    /\ files \in Dataset
    /\ run = None
    /\ importer = [w \in Worker |-> Stopped]
    /\ calm = FALSE

Items(phase) == CASE phase = "staging"  -> Len(Plan)
                  [] phase = "relating" -> Len(Selected)
                  [] phase = "deleting" -> Len(Deletions)

After(phase) == CASE phase = "staging"  -> "relating"
                  [] phase = "relating" -> "deleting"
                  [] phase = "deleting" -> "completed"

Move(w, to) == importer' = [importer EXCEPT ![w] = to]
Then(w, step) == importer' = [importer EXCEPT ![w].step = step]
Fail(w) == Move(w, At("failing"))
MayFail(w) == ~calm /\ Fail(w)

Doing(w, phase) ==
    /\ importer[w].phase = phase
    /\ importer[w].step = "do"
    /\ importer[w].at <= Items(phase)

-----------------------------------------------------------------------------
(* Start and staging *)

\* prepare and start_import; a completed import is answered at once.  An exception
\* here is outside the try block.
Start(w) ==
    /\ importer[w].phase = "stopped" /\ call[w].pc \in AtRest
    /\ \/ /\ ~Accepted \/ run = "completed" \/ ~calm
          /\ UNCHANGED importVars
       \/ /\ Accepted /\ run # "completed"
          /\ run' = IF run = None THEN "staging" ELSE run
          /\ call' = [call EXCEPT ![w] = NotCalled]
          /\ Move(w, At("staging")) \/ (~calm /\ UNCHANGED importer)
          /\ UNCHANGED <<store, setting>>

\* A failure the state of the database forces on the caller.
IngestRefused(c) == KeyReused(c) \/ VersionReused(c) \/ TargetMissing(c)

\* ingest() of the next source version, without its relationships.
StageSource(w) ==
    LET c == Plan[importer[w].at] IN
    /\ Doing(w, "staging")
    /\ Ingest(w, c)
    /\ calm /\ call'[w].pc = "raised" => IngestRefused(c)
    /\ Then(w, "ingesting")
    /\ UNCHANGED <<run, setting>>

ProcessRefused(w) ==
    \/ call[w].pc = "loaded" /\ JobOf(w).status = "indexed"
    \/ /\ call[w].pc = "insert" /\ call[w].at <= Len(Content[JobOf(w).payload])
       /\ index[JobOf(w).source][Content[JobOf(w).payload][call[w].at]] # None
    \/ /\ call[w].pc = "insert" /\ call[w].at > Len(Content[JobOf(w).payload])
       /\ JobOf(w).status # "indexing"
    \/ call[w].pc = "failing"

\* The steps of _process, for the importer or for an administrator's retry.  The
\* importer dies with the call it is in.
Work(w) ==
    /\ Process(w)
    /\ calm => /\ call'[w].pc # "idle"
               /\ call[w].pc = "embed" => \A c \in Chunk : index'[JobOf(w).source][c] = None
               /\ call'[w].pc \in {"failing", "raised"} => ProcessRefused(w)
    /\ IF call'[w].pc = "idle" THEN Move(w, Stopped) ELSE UNCHANGED importer
    /\ UNCHANGED <<run, setting>>

IngestRaises(w) ==
    /\ importer[w].step = "ingesting" /\ call[w].pc = "raised"
    /\ Fail(w)
    /\ UNCHANGED <<store, call, run, setting>>

-----------------------------------------------------------------------------
(* Progress *)

\* Mutant: the exception of an ingestion is swallowed.
RecordAnyway(w) ==
    LET i == importer[w] IN
    /\ i.step = "record" \/ (i.step = "ingesting" /\ call[w].pc \in {"returned", "raised"})
    /\ run' = i.phase /\ Move(w, [phase |-> i.phase, at |-> i.at + 1, step |-> "do"])
    /\ call' = [call EXCEPT ![w] = NotCalled]
    /\ UNCHANGED <<store, setting>>

\* update_import after an item.
Record(w) ==
    LET i == importer[w] IN
    /\ i.step = "record" \/ (i.step = "ingesting" /\ call[w].pc = "returned")
    /\ \/ run' = i.phase /\ Move(w, [phase |-> i.phase, at |-> i.at + 1, step |-> "do"])
       \/ run' \in {run, i.phase} /\ MayFail(w)
    /\ call' = [call EXCEPT ![w] = NotCalled]
    /\ UNCHANGED <<store, setting>>

\* update_import at the end of a phase.  Only this update says the import is completed.
Advance(w) ==
    LET next == After(importer[w].phase) IN
    /\ importer[w].phase \in {"staging", "relating", "deleting"}
    /\ importer[w].step = "do" /\ importer[w].at > Items(importer[w].phase)
    /\ \/ run' = next /\ Move(w, IF next = "completed" THEN Stopped ELSE At(next))
       \/ run' \in {run, next} /\ MayFail(w)
    /\ UNCHANGED <<store, call, setting>>

\* fail_import overwrites whatever the row says, and may fail itself.
FailImport(w) ==
    /\ importer[w].phase = "failing"
    /\ run' = "failed" \/ (~calm /\ run' = run)
    /\ Move(w, Stopped)
    /\ call' = [call EXCEPT ![w] = NotCalled]
    /\ UNCHANGED <<store, setting>>

CrashImport(w) ==
    /\ ~calm /\ importer[w].phase # "stopped" /\ call[w].pc \in AtRest
    /\ Move(w, Stopped)
    /\ call' = [call EXCEPT ![w] = NotCalled]
    /\ UNCHANGED <<store, run, setting>>

-----------------------------------------------------------------------------
(* Relationships and deletions *)

\* The command is refused when it is built, or replace_relationships refuses it: the
\* pointer of the source is not at the version, or a target is in no active version.
Publishable(c) ==
    /\ Builds(c)
    /\ current[c.source] # None /\ jobs[current[c.source]].version = c.version
    /\ \A t \in Declared(c) : TargetExists(t)

OwnedBy(s, v) == {e \in edges : e.source = s /\ e.version = v}

ReplaceRelationships(w) ==
    LET c == Selected[importer[w].at] IN
    /\ Doing(w, "relating")
    /\ \/ /\ Publishable(c)
          /\ edges' = (edges \ OwnedBy(c.source, c.version)) \cup
                      {[source |-> c.source, version |-> c.version, to |-> t] : t \in Declared(c)}
          /\ Then(w, "record") \/ MayFail(w)
       \/ /\ ~Publishable(c) \/ ~calm
          /\ Fail(w)
          /\ UNCHANGED edges
    /\ UNCHANGED <<jobs, versions, current, index, call, run, setting>>

\* delete_source of the vector index.  It does not read either which objects remain.
DeleteFromIndex(w) ==
    LET s == Deletions[importer[w].at] IN
    /\ Doing(w, "deleting")
    /\ \E kept \in SUBSET Chunk :
          /\ calm => kept = {}
          /\ index' = [index EXCEPT ![s] =
                         [c \in Chunk |-> IF c \in kept THEN index[s][c] ELSE None]]
    /\ Then(w, "drop") \/ MayFail(w)
    /\ UNCHANGED <<jobs, versions, edges, current, call, run, setting>>

\* delete_source of the repository: the pointer and the relationships at either
\* end.  Versions, chunks and jobs stay.
DropSource(w) ==
    LET s == Deletions[importer[w].at] IN
    /\ importer[w].step = "drop"
    /\ \/ /\ edges' = {e \in edges : e.source # s /\ e.to[1] # s}
          /\ current' = [current EXCEPT ![s] = None]
          /\ Then(w, "record") \/ MayFail(w)
       \/ MayFail(w) /\ UNCHANGED <<edges, current>>
    /\ UNCHANGED <<jobs, versions, index, call, run, setting>>

-----------------------------------------------------------------------------
(* The administrator, and the end of trouble *)

RetryJob(w, k) ==
    /\ ~calm /\ importer[w].phase = "stopped"
    /\ Retry(w, k)
    /\ UNCHANGED <<run, importer, setting>>

BecomeCalm == ~calm /\ calm' = TRUE /\ UNCHANGED <<store, call, files, run, importer>>

Progress(w) ==
    \/ Start(w)
    \/ StageSource(w)
    \/ Work(w)
    \/ IngestRaises(w)
    \/ Record(w)
    \/ Advance(w)
    \/ FailImport(w)
    \/ ReplaceRelationships(w)
    \/ DeleteFromIndex(w)
    \/ DropSource(w)

ImportNext ==
    \/ \E w \in Worker : Progress(w)
    \/ \E w \in Worker : CrashImport(w)
    \/ \E w \in Worker, k \in Key : RetryJob(w, k)
    \/ BecomeCalm

ImportSpec == ImportInit /\ [][ImportNext]_importVars

\* The process keeps running, and the operator repeats a command that failed.
FairImportSpec == ImportSpec /\ \A w \in Worker : WF_importVars(Progress(w))

-----------------------------------------------------------------------------
(* Properties *)

SourcesStaged == \A i \in 1..Len(Plan) :
    jobs[Plan[i].key] # None /\ jobs[Plan[i].key].status = "indexed"

\* "Relationships are published only after every selected source version has been
\* staged and indexed", over any number of failed, killed and repeated runs: no
\* relationship the dataset declares is stored, and no run is past staging, before.
RelationshipsAfterSources == Accepted =>
    /\ run \in {"relating", "deleting", "completed"} => SourcesStaged
    /\ \A i \in 1..Len(Selected) : LET c == Selected[i] IN
          (\E t \in Declared(c) :
              [source |-> c.source, version |-> c.version, to |-> t] \in edges)
          => SourcesStaged

\* What the files say, in the words of their documentation.
Named == {n.source : n \in Read(files.nodes)}
Deleted(s) == \E op \in Read(files.operations) :
    op.operation = "delete_source" /\ op.source = s
Active(s, v) == LET ops == files.operations
                    selects(i) == ops[i].operation # "delete_source" /\ ops[i].source = s
                IN \E i \in Here(ops) : /\ selects(i) /\ ops[i].version = v
                                         /\ \A j \in Here(ops) : j > i => ~selects(j)
Described(s, v) == {<<e.target[1], e.to>> :
    e \in {x \in Read(files.edges) :
             /\ x.owner = <<s, v>>
             /\ {x.from, x.to} \subseteq {n.chunk : n \in Read(files.nodes)}
             /\ ~Deleted(x.target[1])}}

\* A run that says it is completed left the stores as the files describe them: of every
\* source they name the version its last operation selects is active and wholly
\* indexed, with exactly the relationships of that version, and a deleted source is
\* neither active nor at an end of a relationship.
CompletedIsConsistent == run = "completed" =>
    /\ \A s \in Named : ~Deleted(s) => \E v \in Version :
          /\ Active(s, v)
          /\ current[s] # None /\ jobs[current[s]].version = v
          /\ Complete(s)
          /\ {e.to : e \in OwnedBy(s, v)} = Described(s, v)
    /\ \A s \in Source : Deleted(s) =>
          /\ current[s] = None
          /\ \A e \in edges : e.source # s /\ e.to[1] # s

\* consistency(): the chunks of the active versions and the objects of the index are
\* counted, and the two numbers compared.
ActiveChunks == {sc \in Source \X Chunk : LET s == sc[1] IN
    /\ current[s] # None
    /\ sc[2] \in ChunksOf(versions[<<s, jobs[current[s]].version>>])}
IndexedChunks == {sc \in Source \X Chunk : index[sc[1]][sc[2]] # None}
Verified == Cardinality(ActiveChunks) = Cardinality(IndexedChunks)

\* "exposes an explicit consistency check": deletions leave objects behind without an
\* error, and the check compares two numbers only.  After a completed import, equal
\* numbers do mean that the index holds the chunks of the active versions, each under
\* its version, and no other object: no missing chunk can hide a remaining one.
VerifiedIsExact == run = "completed" /\ Verified =>
    \A s \in Source, c \in Chunk :
        index[s][c] = IF <<s, c>> \in ActiveChunks THEN jobs[current[s]].version ELSE None

\* A published source misses a chunk of its version only while a job or the import
\* itself says that something is unfinished.
ImportLossIsExplicit ==
    \A s \in Source : current[s] # None =>
        \/ Complete(s)
        \/ HasOpenJob(s)
        \/ Deleted(s) /\ run \in {"staging", "relating", "deleting", "failed"}

\* "Repeating the same command resumes through idempotent source operations": when
\* requests stop failing, repeating the command completes the import, wherever
\* earlier attempts were interrupted.
ImportCompletes == calm /\ Accepted ~> run = "completed"

\* What prepare does not ask of a dataset.  The version of each source that is ingested
\* last, earlier imports left aside, is the active one; no source is both selected and
\* deleted; every relationship of an active version starts at its owner and ends in an
\* active version.
AlreadyIndexed(c) == \E p \in Preloaded : p.key = c.key
Moves(s) == SelectSeq(Plan, LAMBDA c : c.source = s /\ ~AlreadyIndexed(c))
Coherent ==
    /\ \A s \in Named :
          /\ Active(s, IF Moves(s) # <<>> THEN Moves(s)[Len(Moves(s))].version
                       ELSE (CHOOSE p \in Preloaded : p.source = s).version)
          /\ ~Deleted(s)
    /\ \A e \in Relationships(files) : Active(e.owner[1], e.owner[2]) =>
          e.origin = e.owner[1] /\ Active(e.target[1], e.target[2])

\* Under these conditions the claim holds.
CoherentImportCompletes == calm /\ Accepted /\ Coherent ~> run = "completed"
=============================================================================
