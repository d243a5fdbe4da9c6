# SovereignFlow: specifications, model checking and proofs

TLA+ modules of SovereignFlow's own logic, TLC runs that check them on small
instances, and TLAPS proofs for every value of the constants. Paths below are
relative to `src/`; `PROJECT.json` names the source lines of every definition.

## 1. The system

SovereignFlow answers questions over documents inside an organisation's own
network. Documents are ingested into PostgreSQL (the authority) and into
Weaviate (a rebuildable vector index). A question runs through a YAML pipeline:
resolve the conversation, retrieve chunks, expand them along stored
relationships, cut them to a context budget, check the transmission policy,
call a model, save the turn. Every execution is audited step by step.

| Component | State it keeps | Operations |
|---|---|---|
| Document ingestion (`application/ingestion.py`, `infrastructure/ingestion.py`, `infrastructure/weaviate.py`) | `sf.jobs`, `sf.source_versions`, `sf.chunks`, `sf.relationships`, `sf.sources.current_job_id`; objects in Weaviate | `ingest`, `retry`, inside them `stage`, `mark_indexing`, `replace_source`, `mark_indexed`, `mark_failed` |
| Dataset import (`application/dataset_import.py`, `infrastructure/dataset_reader.py`) | `sf.import_runs` and all of the above | `execute`: stage sources, replace relationships, delete sources |
| Conversation history (`infrastructure/conversations.py`) | `sf.conversations`, `sf.conversation_turns` | create, rename, delete, `start_turn`, `finalize_turn`, `fail_turn` |
| Pipeline engine (`application/pipeline.py`) | the `PipelineContext` of one execution | `execute`: run actions, route, count steps, audit, handle the exception |
| Execution audit (`infrastructure/audit.py`) | `sf.pipeline_runs`, `sf.pipeline_run_steps` | `start`, `record_step`, `succeed`, `fail` |
| Pipeline validator (`application/pipeline.py`) | none: a function of the YAML files | accept or refuse a pipeline at start-up |
| Retrieval, graph expansion, context budget | the hits and the text of one execution | `retrieve`, `expand_graph`, `manage_context_budget` |
| Transmission policy, model call | flags of one execution | `enforce_model_transmission_policy`, `call_model` |
| Access policies (`infrastructure/access_policies.py`, `application/authorization.py`) | policy tables per tenant, with a version | `resolve`, `capabilities`, `publish` |
| Identity (`infrastructure/oidc.py`) | an in-memory key cache shared by request threads | `authenticate`, `_refresh` |
| Web client (`interfaces/web/assets/app.js`) | selected conversation, list, turns | user events and answers of fetches |
| Schema migrations | `schema_migrations` | one transaction under one advisory lock |
| Security models (`domain/models.py`, the filters of `weaviate.py` and `graph.py`, `_retrieval.py`) | none: predicates of a model, a request and a chunk | filter a search, filter an expansion, check what came back |
| Dataset generator (`generator/`: `generation.py`, `validation.py`) | an output directory and its backup | generate a dataset, publish it |
| Evaluation (`generator/`: `evaluation/`) | a results file, report files | run the queries, analyze the results |
| HTTP API, bootstrap, gateways, prompts | none that outlives a request | parse, wire, forward |

How they interact. Components call each other synchronously inside one thread;
what is concurrent is threads and processes over the shared stores: several
import or retry workers over the job tables and the vector index, several
request threads over one conversation, a policy publication beside requests,
an import beside a search, request threads over the key cache, generators and evaluators over
the directory of a dataset. PostgreSQL statements run in short transactions, one
per repository method, READ COMMITTED. Weaviate requests have no transaction,
so the two stores agree only through the protocol of `application/ingestion.py`.

What makes each component correct:

- ingestion: a source points only at completely indexed work; the chunks of a
  version never change; a caller told "indexed" is right; the index holds only
  staged content; a disagreement of the two stores is visible as a job;
- import: relationships only after every source; "completed" means consistent;
  a repeated command completes;
- conversations: turns are numbered 1, 2, 3, decided once and never rewritten;
  an answer means a durable record; a deleted conversation is closed; a started
  turn ends;
- pipeline: what the validator promises for every path holds for every request;
- retrieval: an expansion is bounded and exact whatever is published meanwhile,
  and what was found is cited or reported as omitted;
- transmission policy: a model server gets only chunks that were checked for it;
- access: publications serialize, a decision follows the policies in force while it
  was made, and no caller learns a decision that is not recorded;
- web client: requests name only own conversations; what overlapping handlers leave
  behind is usable, and the next handler puts it right;
- identity: a withdrawn signing key is used for a bounded time only, and a request
  whose key is published gets through;
- security models: the three places that decide what a subject may see agree;
- generator: every dataset can be imported, its queries expect what it holds, and a
  dataset that was published is never lost;
- evaluation: results are whole, thresholds are passed only by answers without a leak,
  and a leak is the product's.

The list of everything here that is hard to test, line by line, is under
`hazards` in `PROJECT.json`.

## 2. The modules

### `JobLifecycle` — what the job table promises

The abstract specification: per idempotency key a status, per source a pointer.
`indexed` is final and a source points at a job only from the very step in which
that job became indexed.

### `Ingestion` — `DocumentIngestionService` over both stores

One `Worker` is a thread inside `ingest` or `retry`. Its position is `call[w]`;
each PostgreSQL transaction and each Weaviate request is one action: `Ingest`
(`stage`, with its conflicts and target check), `Retry`, `MarkIndexing`,
`EmbeddingFails`, `DeleteVectors`, `InsertVector` (one object at a time),
`MarkIndexed` (status and pointer in one transaction), `MarkFailed`, `Crash`.
Any request may fail without effect, or take effect and lose its answer, in which
case the caller sees an exception. `delete_many` reports which objects it could not
delete and the code does not read that report, so a deletion, whether it returns or raises, may
leave any of the objects behind; a later insertion then fails on an identifier that is still
there. The text, metadata, ACL and security labels of the chunks are one
model value, the payload; equal hashes mean equal content (an assumption, stated
as `CommandAssumption`, together with the fact that the hash covers the identity
of the source version). `TargetExists` is the check of `stage` that
a relationship leads to a chunk of a current version.

### `DatasetReader` — `JsonlDatasetReader`

A dataset is its three files, sequences of records in file order. `Accepts` is what
`prepare()` checks before it lets an import begin: no chunk twice, no operation on an
unknown version, every edge it keeps naming the holders of its two chunks, an active
version for every source. `CurrentVersions` folds the operations as `_set_current` does;
`SourceCommands`, `RelationshipCommands` and `DeletionCommands` are the queries over
the workspace, in their `ORDER BY` order. `CommandBuilds` is what the constructor of an
`IngestionCommand` refuses: the reader does not compare `from_source_id` with the owner,
the command does, in the middle of the import. The module has no state: `prepare()` is
deterministic and rebuilds its SQLite file in every execution.

### `DatasetImport` — `DatasetImportService.execute`

Extends `Ingestion`: the importer's `ingest` is the action of that module. `files`
is the dataset of the import id; `start_import` compares its hash, so it never
changes, and `Prepared` holds the commands that `DatasetReader` derives from it. The
idempotency key and the payload hash of a command are both named by its source version.
`Record` and `Advance` are the two kinds of `update_import`; `FailImport` is the
`except` block and overwrites whatever the row says, as the code does. An
administrator may retry any job between two executions. `calm` is a history
variable of the environment: once true, no request fails, deletions delete everything and
nobody interferes. `Verified` is the consistency check (`consistency()`), which only reads.
`CompletedIsConsistent` compares the stores with the records themselves (`Active`,
`Described`), not with the commands the reader made of them.

### `ConversationRun` — the engine over a conversation pipeline

One `Execution` is one HTTP request inside `PipelineEngine.execute` with the
pipeline resolve, start turn, answer, save. The steps between start and
save that touch no conversation are one `Answer` step that may fail. Each
PostgreSQL call is an action; `ReadSequence` and `InsertTurn` are the two halves of the single
`INSERT ... SELECT MAX(sequence) + 1`, because the statement reads its snapshot
before the unique index sees a concurrent insertion. `FailTurn` and `AuditFail` are the exception handler.
`Die` is the loss of the process.

### `Pipeline` — the validator and the engine's control flow

`Validate`, `Walk` and `Decide` are `PipelineValidator.validate`. One call of its recursive
`walk()` is one `Walk` step; `pending` holds the calls still to be made as paths
from the entry, `walked` those that returned. An accepted pipeline then
runs one request: `StartRun`, one `AnyStep` per pipeline step, `Answer`.
`StepReturns` and `StepRaises` are the two ways a step ends; their order of effects
is the engine's (the trace grows, the transition is decided, the step is recorded,
the transition is taken). The pipelines themselves are the constant `Definition`, any set of
records of the parsed shape.

### `GraphTraversal` — `PostgreSQLGraphTraversal.expand`

A level of the breadth-first expansion is two statements, `ReadRelationships`
(`_proposals`) and `LoadChunks`, in a READ COMMITTED transaction. `Republish` is an
import that moves or removes a current version, between any two of them. A node
is a source and a chunk identifier; what the subject may see is the constant set
`Visible`. The seeds of an expansion bring their scores (`worth`), and what is left of a score at a
depth is the constant function `Share`. `Within` is the reference definition by paths against which the traversal is compared.

### `QueryPipeline` — the actions over both

Extends the two modules above. Each built-in action is an action here, and calls
`StepReturns` or `StepRaises` of `Pipeline`:

| Code | Action |
|---|---|
| `retrieve` | `Retrieve`: any at most `TopK` nodes; a hit that is not visible raises |
| `expand_graph` | `SkipExpansion`; or `StartExpansion`, `ExpandLevel`, `MergeExpansion`, with `Import` between the levels; a graph hit of an earlier expansion is a seed with its divided score (`HitScore`) |
| `manage_context_budget`, `require_evidence` | `ManageContextBudget`, `RequireEvidence` |
| `enforce_model_transmission_policy` | `EnforceModelTransmissionPolicy`: the selected server, the one it reroutes to, or an exception |
| `call_model` | `CallModel`: what is sent stays sent when the server does not answer |
| `set_variables` | `SetVariables` |
| `loop_guard` | `LoopGuard` |
| `prefix_router`, `json_decision_router`, `repeat_query_guard` | `FollowText`: any configured route, since the text they read comes from a model or a client |
| the actions that touch no state of this module | `Pass` |
| an exception of any action | `Raise` |

The clearance level of a chunk or server is the set of all levels up to it,
so the highest level of several chunks is a union and "at least" is
inclusion; classification labels are sets already. The text of a chunk is
its length. `texts` remembers which chunks' text an action copied from the evidence into
another variable, because that text can come back into a prompt. What a model
answers, and what a later call does with it, is not followed.
Relationship paths of the hits are left out.

### `AccessPolicy` — publications beside requests

The policy of one tenant; every query names its tenant, so tenants do not
meet. `LockVersion` is `SELECT ... FOR UPDATE` with the comparison of
`expected_version`; it waits for the row, and locks nothing while the tenant has none.
`Publish` is everything behind it up to the commit, which is when others see it. A
request is `ReadVersion`, `ReadGroups`, `ReadGrants` (`resolve`), `ReadCapabilities`
(`capabilities`, on another connection), then `Decide` (`authorize`) or `List`
(`catalog`); each statement sees what is committed at that moment. The parts of
a capability that no check reads (names, domain, external flag) are left out.
`inForce` is a history variable: the policies in force while the request was reading.

### `WebClient` — the page of the console

`app.js` runs one handler at a time, from one `await` to the next. A call in a slot
is a handler in flight: `todo` is what it has still to do, one element per request it
will await, the awaited one first. `Start` runs a handler up to its first request,
`Handle` is the server taking a request, `Receive` delivers the answer and runs the handler to its
next `await`, `Raise` is any failure of the request, taken or not. `Continue` is what
the code does with each answer, `Request` is `currentAccessToken`: an expired token puts
the exchange and the whole of `renderSession` in front of the request. `page` holds the
globals of the script and what the document shows; the list element keeps its own
options and value, because they lag behind the globals. The session storage survives
`Load` (reload, sign-in), the calls do not. `Elsewhere` is every change that is not
this page's. `settled` and `alone` are history: the handler that ended last met no other.
An answer of the server is what it held when it took the request, of the turns the latest
`TurnLimit`, which stands for the `?limit=50` of `loadTurns`. `failed` says that some
request of the page was refused, after which the code promises nothing about its controls.

### `KeyCache` — `JwksCache`

A thread serves one request after the other: `Begin` reads the clock, `CheckExpiry` the
expiry, `Load` (or `LoadFails`) is the answer of the identity provider, `WriteKeys` and
`WriteExpiry` are the two assignments at the end of `_refresh`, `Look` the lookup, which
refreshes once more for a missing key. Anything may happen in other threads between two
of them, since nothing is locked. `Rotate` is the provider, `Tick` the clock. A call
takes at most `MaxDuration`: the loads have a timeout and a thread that is not scheduled
for longer is left out. `last`, `steady` and `behind` are history variables.

### `Visibility` — who may see a chunk

The security model of a domain (`none`, clearance levels, classification labels) and the
decisions taken with it, as predicates: `Ingestible` (the check of ingestion), `Found` (the
filter sent to Weaviate), `Loaded` (the `WHERE` clause of the expansion) and `Boundary`
(`_verify_retrieval_boundary`). The model may change after documents were ingested, so
a chunk need not be `Ingestible` under the model of a request. No state: the module is
used by `Evaluation` and by proofs.

### `DatasetGenerator` — the records of `generation.py`

The four files as sets and sequences for a configuration: nodes per domain and version,
edges from the templates, operations, queries with what they expect. The operations, like the
node file of `Evaluation`, are the lists of their parts joined in the order of the loops. Identifiers are
tuples of what their format spells out. The random draw of a node's label and level is the
constant operator `SecurityValues`, so whatever is proved holds for every draw.

### `DatasetPublication` — `generate_dataset`

The output directory and its backup under several processes: `Prepare` (the check for
existing files), `Write` (the staging directory, which nobody else sees), then `_publish`
one call at a time: `CheckBackup`, `CheckOutput`, `MoveOutput`, `PlaceStaging`,
`FailToPlace` and `Restore`, and `rmtree` as `ClearBackup` or `BreakOffClearing` and
`RemoveBackup`. A rename succeeds onto an absent or empty directory, as POSIX says. Any
process may stop between any two calls (`GiveUp`): a failure or a crash.

### `Evaluation` — from a dataset to a report

Extends the three modules above and instantiates `DatasetReader`. The generated records
are turned into the reader's records by `FilesFor`, in the relationship scope that the import
names (`internal` or `complete`, there is no default), and what `DatasetImport` makes of them is
abstracted to two steps, `ImportSources` and `ImportDeletions`. `OpenQueries`, `Ask`,
`StoreResults` and `BreakOffRun` are `execute_queries` with its temporary file; a query is
answered with an error or with whatever is retrievable for the subject (`Retrievable` is
`Found`, `Loaded` and `Boundary` of `Visibility`) among chunks that search and expansion
came upon, with or without a trace. `ReadQueries`, `ReadResults`, `BeginReports` and
`PublishReport` are `analyze_results`, whose report files are replaced one by one (`Written`); `Metrics`, `Summary` and `Passes` are its numbers. A
generator may replace the dataset between any two of these steps. `prepare` reads the
files of a dataset in one step; that a dataset is replaced between its opening of two
files is not modelled.

### `MCIngestion`, `MCDatasetImport`, `MCConversationRun`, `MCQueryPipeline`, `MCAccessPolicy`, `MCWebClient`, `MCKeyCache`, `MCEvaluation`

The values of the constants for TLC, nothing else.

### `Lists` — what SQL and Python make of lists

`Keep` (a selection in order), `Joined` (one list after the other), `Ordered` (`ORDER BY`),
`Listed` (a finite set, each element once) and `Total` (a sum), used by the reader, the traversal,
the page, the generator and the analysis. They are functions over places and not the operators of
the library with the same effect (`SelectSeq`, `FlattenSeq`, `SortSeq`, the folds), because nothing can be
proved about those here (section 5).

### `IngestionProofs`, `QueryProofs`, `AccessProofs`, `KeyCacheProofs`, `ConversationProofs`, `WebProofs`, `EvaluationProofs`, `DataInduction`

The theorems (section 5). `IngestionProofs` is about `Ingestion` and `DatasetImport`, `QueryProofs`
about `Pipeline`, `GraphTraversal` and `QueryPipeline`, `EvaluationProofs` about
`Visibility`, `DatasetGenerator`, `DatasetPublication` and `Evaluation`; `DataInduction` has the
lemmas about recursion and lists that they rest on.

## 3. The runs

| Run | Bounds | What it shows |
|---|---|---|
| `ingestion` | 2 workers, 2 sources, 3 keys, 4 commands, 2 chunk ids | all safety properties of the job protocol, and that it implements `JobLifecycle` |
| `ingestion_race` | the first instance | `NoSilentLoss` fails with two workers |
| `import` | 1 worker, 3 sources, 4 jobs, 252 sets of files, any number of interruptions and repetitions, deletions that leave any objects behind | a completed import is what its files say; the consistency check is exact after it; the import of a coherent dataset completes |
| `import_self_delete` | one set of files | `ImportCompletes` fails for it |
| `conversation` | a request, its repetition, and another request in one conversation, with faults and deaths | numbering, single decision, durability |
| `conversation_ends` | a request, its repetition in the same conversation, and one that creates its conversation, no faults | started turns are decided |
| `turn_left` | the same | `NoTurnLeftStarted` fails when the conversation is deleted |
| `query` | 197 pipelines, 3 settings, 2 sources with 2 versions, 3 chunk identifiers, depth 2, 2 graph hits, `TopK` 2, a budget of 2 | the validator's promises at run time, the expansion, the budget, the policy |
| `access` | 4 publications, which begin while fewer than 2 are committed, a query and a catalog request, 2 groups, 2 capabilities, 3 pipelines | publications serialize, decisions are grounded and recorded |
| `web` | 2 users, 3 conversations, a list of 2, 2 handlers in flight, 3 events, 2 turns per conversation, of which an answer has 1 | requests name own conversations; the page stays usable and is put right |
| `keys` | 2 threads, 2 keys, 2 rotations, a time to live and a duration of 1, 4 ticks | no key is found longer after its withdrawal than the bound; a published key is found |
| `evaluation` | 2 datasets of 8 queries, 2 domains and 2 versions each; both relationship scopes; 2 generators, or one with an import, a query run and an analysis | the last dataset survives; whatever is in place can be used; results and reports are true |

Why the bounds are enough to be interesting. Two workers on one job
are what every race in `_process` needs. The four commands hold two versions of one
source with a common chunk id (a Weaviate identifier does not contain the
version, so they collide), a key reused with another payload, a version reused
under another payload, and a relationship across sources. Two chunks let a
request fail between the first and the last insertion. The imports
bring a second version of one source and add another with two chunks, beside a third that
links to the first. Three node files (either version listed first, or one of them
absent), six operation files (each version selected last, a deletion of another import's
source or of the dataset's own, a source without selection, an unknown version),
seven edge files (between active versions, into an inactive one of either source,
from another source, to a chunk of another domain, with a wrong version, twice) and
both scopes are combined, with records of another tenant in between; `prepare` accepts 82 of the 252 and 16 of
those are coherent.
Three executions give a turn both kinds of competitor: a repetition of its
request and another request racing for its sequence number. No counter is cut off:
the state spaces are finite without a constraint. `conversation` uses the
symmetry of the two executions of the same request, which differ in nothing; it checks
invariants and action properties only, for which symmetry is sound.

The pipelines of `query` are the shipped ones, the routed pipeline of
`tests/test_pipeline.py`, two that retrieve twice, one that expands twice in a row, and what an author may make of the direct
one: any action inserted anywhere, a router inserted anywhere, any step
removed, any step leading to any other, a step without a decision. The
validator refuses a part of them. Both sources have chunks with
the same identifier, one chunk is invisible to the subject, links of two versions
differ, and the best scored chunk is the invisible one. Two
hits, two levels and a budget of two blocks make every cut happen: a level that is full, a
budget that ends inside a chunk, hits that are merged. Of the three settings one permits the
external server, one forbids it to the subject and has the expansion off, and one selects a server with
another model's profile. Scores are multiples of six, so that halves and thirds are whole. An accepted pipeline has no cycle, so a `loop_guard` in it never reaches its
limit and the engine never meets its step limit; the first is a fact of the code,
the second is the theorem `RunsAreBounded`.

The publications of `access` are two first ones without an expected version and two
that both expect version 1; one of these moves a capability to a
pipeline it grants to nobody and the other moves the subject into another group.
`MaxChanges` lets a publication begin only while fewer are committed, so that three or four may
still be under way together; without it an administrator could publish for ever.

In `web`, `MaxEvents` bounds what users and the clock do (three: two handlers that overlap
with the loading of the page or with each other, and a change elsewhere, an expiry or the handler that
then runs alone), `Slot` the
handlers in flight, `MaxTurns` the turns, and `Limit` stands for the 50 conversations of a list: one
user has two at first, so that a third pushes one out; `TurnLimit` stands for the 50 turns of an
answer, and a conversation can have one more. Slots are symmetric; all four
properties are invariants.

In `keys`, a key can be withdrawn, published again and replaced, an answer can be older
than the keys it overwrites, and a call can begin before a rotation and end after it. The bound of
`NoStaleKey` is met exactly: with one less the run fails.

The datasets of `evaluation` differ in size and in tenants, so they share identifiers but neither
records nor expectations. Each has one query of each of the eight kinds. The first query, which
expects something, ends in an error, without a trace, with everything or with the expanded
nodes only; the last one, about a deleted source, finds the forbidden chunk by search, by
expansion or not at all. The thresholds are low enough to be passed, and runs that pass
them, runs with a leak and results of the other dataset are all reached.

Fairness. `FairImportSpec` is weak fairness of `Progress(w)`: the process that
runs the import continues, and the operator repeats a command that ended
without completing. `ImportCompletes` and `CoherentImportCompletes` ask for completion only after `calm`,
since nothing can complete while requests keep failing. `FairSpec` is weak
fairness of `Run(e)`: the thread of a request continues. Both come from an
operating system that schedules threads; no fairness is assumed of failures,
deletions or retries.

Deadlock is checked in every run. `ConversationRun`, `QueryPipeline`, `AccessPolicy` and
`WebClient` have a step `Quiet` for the states in which every request has
ended and no publication is under way, start-up refused the pipeline, or users have stopped.

## 4. What the violations show

1. **Silent loss with two workers** (`ingestion_race`). Two workers load one job
   before it is indexed. The first indexes it and returns. The second,
   already past `mark_indexing`, deletes the vectors of the source and dies. The
   source is published, its index empty, no job is unfinished or failed, and a
   retry answers at once because the job is indexed. `README.md:68` promises that no data
   loss is silent. With one worker no chunk of the published version is ever missing silently, which is
proved; other objects may stay in the index (below).
2. **A dataset that adds and deletes a source cannot be resumed**
   (`import_self_delete`): after an interruption behind the deletion, the repeated run
   finds the job indexed, publishes nothing, and `replace_relationships` refuses
   a source without a pointer.
3. **A turn left started** (`turn_left`): if the owner deletes the conversation
   while the pipeline runs, neither `finalize_turn` nor the handler's
   `fail_turn` matches a row any more.

Met while modelling, and not turned into runs:

- `delete_many` answers with the number of objects that it could not delete, and neither
  `delete_source` (`weaviate.py:183`) nor `replace_source` (`weaviate.py:127`) reads it. A source can lose
  its pointer and relationships, the import be completed and a repetition be answered at once, while
  objects of the source stay in the index, where search finds them; `docs/dataset-import.md:101` lists
  "delete explicitly removed sources" as a phase before completion. TLC reaches such states in the run
  `import`. The consistency check counts these objects: `VerifiedIsExact` says that after a completed
  import equal numbers mean an exact index, because no chunk is missing that could hide a remaining one.
- Which datasets an import can complete is the definition `Coherent`, and `prepare` does
  not check it. Versions are ingested in the order in which `nodes.jsonl` lists them, so a
  dataset that selects an earlier-listed version never completes; an edge of an active version into a
  version that no operation selects, an edge inside a source across its versions and an edge whose
  `from_source_id` is not its owner are accepted, and every execution then fails in the relating
  phase. Selecting an older version that an earlier import indexed, next to a newer one that is not
  indexed yet, ends at the newer one as well. None of the accepted datasets of the run
  that is not coherent always completes: each was checked on its own, in the internal scope.
- `docs/Action/enforce_model_transmission_policy.md` says that the action "must
  run after retrieval, graph expansion, and context budgeting, but before
  `call_model`". The validator checks only what a step requires, so it accepts a
  pipeline that retrieves again behind the policy. `SentWasChecked` therefore states its claim for
  pipelines in the documented order (`PolicyIsLast`), which the shipped ones have. The
  order alone is not enough: a text that an action copied out of the evidence before another
  retrieval, or out of an evidence built before the last expansion, comes back into a prompt behind
  the policy. `CopiesAreCurrent` leaves these routes out. Its first form only asked that copies are
  made behind the last retrieval; the attempt to prove `CheckedBeforeSent` failed on a route that
  copies between the last expansion and the next budget, where the evidence is still the one before, and TLC
  confirmed it.
- Hits are merged by `chunk_id` alone, so of two sources' chunks with the same
  identifier one stays. `CitedOrOmitted` speaks of identifiers for that reason.
- `README.md:124` says that the catalog and every execution "use the same current
  PostgreSQL policy". The statements of one request may see several
  policies, so the groups can come from one and the grants from the next.
  `OfferedWasGranted` holds when the policies in force meanwhile put the subject into the same groups,
  and is stated for that case.
- Two first publications of a tenant may both record that they replaced nothing; `ChangesAreChained`
  allows it. A version number may also be published twice.
- The page shows other turns than the selected conversation's when the answers of two handlers
  cross, when `loadTurns` fails, and, with one handler only, when a change of the list
  refreshes the token and the reloaded list no longer contains the choice (a query does not touch
  `updated_at`, so a conversation in use can drop out of the first 50). The next handler that runs
  alone repairs all of these, which is `AloneIsConsistent`; it leaves that one change of the list out.
- The answer of a deletion clears the selection even if another conversation was chosen meanwhile,
  and a query's answer selects its own conversation again; a refresh in the middle of a
  query enables the submit button. A refresh that fails half way leaves the controls disabled until the
  page is loaded again; `QuietIsUsable` is about pages without a failed request.
- `generator/README.md:149` says that files are staged inside the output directory and that
  `manifest.json` is published last. The code stages beside it and renames the whole directory,
  so there is no moment at which some files are new; between the two renames there is no dataset at
  all. Files of others in the output directory go with the backup. Without `--overwrite` a
  dataset that was published after `prepare_output` is replaced all the same.
- If the output directory was there and empty, its backup is empty, a second generator's rename
  replaces it, and the first generator then removes that backup: a dataset can be lost.
  `LatestIsThere` leaves this case out; it was found by checking the property without it.
- `generator/README.md:263` suggests thresholds of 0.9 and 0.95 for the two recalls. The trace
  names each hit once, as seed or as graph node, and the expected seeds are among the expected
  graph nodes, so for a single query that expects something and is answered with a trace the graph recall
  is at most a half when the seed recall is one (`RecallsCompete`). The thresholds are on means, which also
  count the queries that expect nothing and leave out the results without a trace. `generator/tests/conftest.py:66` uses a trace with both.
- `generator/README.md:237` says that a threshold on retrieval fails when the trace is absent. It
  fails only when every trace is absent; a result without one is left out of the mean.
- The product's evidence carries no domain, tenant, labels or level, so of the five
  leak counts only that of forbidden nodes can differ from zero. The generated
  `classification_level` is not imported either.
- `docs/dataset-import.md:82-91` shows the import with `--relationship-scope complete`. The reader then
  refuses a relationship into another domain (`dataset_reader.py:293`), and the generator writes such
  relationships between the domains of a tenant: the domains in which one begins can be imported in
  the scope `internal` only. `PublishedIsUsable` says for which domains each scope works.
- Queries of the kind `before_update` expect version 1, which the import has replaced.
- `publish_reports` replaces its files one by one, so a crash leaves reports of two analyses.
- A chunk with a classification label that the domain's model no longer has is found by the search
  and refused by the boundary as invalid, so that the request fails (`SearchDiffersOnUnknownLabels`).
- A slow refresh of the key cache may overwrite newer keys with older ones and an expiry with an
  earlier one. A slow request may also wait between reading the clock and looking. A withdrawn key is
  therefore found for less than the time to live and two durations of a call (`NoStaleKey`), not for
  the time to live only; a request may then be refused
  although its key is published (`KnownIsFound` names the only case).
- Separators between blocks and the text around a chunk do not count towards the
  context budget; `Used` counts as the code does.

## 5. The proofs

Every safety property that a passing run checks is also a theorem, for every value of the
constants that satisfies the named assumptions of the modules. The assumptions say what the
constants are (the type of a table, a model value that is no member), and where they say more a
comment at the `ASSUME` gives the reason in the code; TLC evaluates them in every run. Assumptions
of one theorem are in its statement.

### Ingestion

`IngestionProofs` proves, for any sets of sources, versions, chunks, keys,
payloads, commands and workers:

| Theorem | Statement |
|---|---|
| `TypeCorrect` | `Spec => []TypeOK` |
| `PublishedAlwaysIndexed` | `Spec => []PublishedIsIndexed` |
| `VersionContentFixed` | `Spec => []JobMatchesVersion` |
| `AnswersAreTrue` | `Spec => []ReturnedMeansIndexed` |
| `IndexIsRebuildable` | `Spec => []IndexHoldsStagedContent` |
| `Refinement` | `Spec => ImplementsLifecycle` |
| `NoLossIsSilent` | `OneWorker /\ Spec => []LossIsExplicit` |

The first five share one inductive invariant `IInv`: the type invariant,
`CallHasJob` (a worker inside `_process` holds the key of an existing job) and the four
properties together. None is inductive alone. `PublishedIsIndexed` needs that
`indexed` is final, which rests on the guards of `MarkIndexing` and `MarkFailed`;
`IndexHoldsStagedContent` needs
`JobMatchesVersion`, because an insertion writes the version of the job and the invariant
looks the payload up under that version; and `JobMatchesVersion` needs
`CallHasJob` for the steps that write a job's status.
`Refinement` maps each step to a step of `JobLifecycle` or a stutter under `IInv`.

`NoLossIsSilent` strengthens `LossIsExplicit` to `SerialInv`: if the single
worker is idle or has only loaded its job, the conclusion holds as it stands; if it is past
`DeleteVectors`, its own job is indexing and the index of the source holds at least
the first `at - 1` chunks of its payload (`Written`), beside whatever the deletion left. When the
last chunk is in, the next step publishes that very version, so none of its chunks is missing. Nothing
is claimed of other objects: the deletion may leave them and nobody knows. The run `ingestion_race` shows that
`OneWorker` is needed.

### Import of a dataset

Each action of `Ingestion` has a lemma that it preserves `IInv` and `SerialInv`, and the
import cites these lemmas for the calls that it makes.

| Theorem | Statement |
|---|---|
| `ImportTypeCorrect` | `ImportSpec => []ImportTypeOK` |
| `RelationshipsComeAfter` | `ImportSpec => []RelationshipsAfterSources` |
| `ImportLossExplicit` | `OneWorker /\ ImportSpec => []ImportLossIsExplicit` |
| `CompletedImportIsConsistent` | `OneWorker /\ ImportSpec => []CompletedIsConsistent` |
| `VerifiedImportIsExact` | `OneWorker /\ ImportSpec => []VerifiedIsExact` |

The first two hold for any number of workers, interruptions and retries, by the invariant `ImportInv`:
what an importer has staged is indexed up to its place in the plan (`ImporterOf`), every job that is
not indexed is one of the plan (`JobsPlanned`), and the relationships of the dataset are not
there before. `NewRelationships` is the assumption that an earlier import did not declare them already.

The next two add `SerialImport`. While an import is unfinished, the stores may differ
for the sources that it deletes and for no others (`InTrouble`, the parameter of `SerialInv`);
`RelatedUpto` and `DeletedUpto` say what is done up to a place, and that it stays done while
the importer works behind it; `Finished` keeps that after completion. What `CompletedIsConsistent` says of the
records themselves then follows from what `prepare()` makes of the files, about which there are
lemmas for every dataset that it accepts: each version is in the plan once and in its
place, the selected versions are the current ones, no source is deleted twice.
`VerifiedImportIsExact` counts: after completion the active chunks are all indexed, so if the two numbers
are equal, nothing else is (`FiniteAssumption`: there are finitely many sources and chunks).

### Pipelines and queries

`QueryProofs` proves, for any steps, routes, actions, contracts and pipelines:

| Theorem | Statement |
|---|---|
| `ControlTypeCorrect` | `ControlSpec => []ControlTypeOK` |
| `RunsAreBounded` | `ControlSpec => []AcceptedRunsAreBounded` |
| `StateAlwaysAvailable` | `ControlSpec => []StateIsAvailable` |
| `QueryImplementsPipeline` | `QuerySpec => FollowsPipeline` |
| `QueriesAreBounded`, `QueryStateAvailable` | the second and third for `QuerySpec` |
| `QueryTypeCorrect` | `QuerySpec => []QueryTypeOK` |
| `ExpansionsAreBounded` | `QuerySpec => []ExpansionBounded` |
| `ExpansionsAreShortest` | `QuerySpec => []ExpansionIsShortest` |
| `FoundIsCitedOrOmitted` | `QuerySpec => []CitedOrOmitted` |
| `CheckedBeforeSent` | `QuerySpec => SentWasChecked` |

The first three follow from `PipelineInvariant`, the inductive invariant `Inv`: the type invariant;
`WalkInv`, that every walked path passed its three checks, that every pending
path extends a walked one by a transition, and that every transition of a
walked path is walked or pending; and `RunInv`, that the steps a request has run, with the one it is at,
are always a walked path. When nothing is pending the walked paths are closed under transitions, which is
why the request cannot leave them; and a walked path repeats no step, is
within `max_steps` and provides what its last step requires. For `QueryImplementsPipeline`
every action of `QueryPipeline` is a step of `Pipeline`'s control or leaves it
alone. It needs `RegistryAssumption`, that the actions and their contracts are
those of the default registry and that a `loop_guard` has both its routes.

The traversal has `GraphInv`, for any scores of its seeds. `Bounded` holds whatever is published in between. `Exact` speaks of a
traversal that nothing disturbed: the hits found so far are all nodes up to the present depth, each
at its distance by paths and with the score of the best seed there, and if the limit cut a level,
what was cut comes behind everything that was kept in the order of the `ORDER BY`. Its step
lemma takes one level of the breadth-first search to one more hop of paths.

`QueryInv` adds, for `FoundIsCitedOrOmitted`, that the hits are what was found (`FoundInv`) and are
divided by the budget (`BudgetInv`), with the definition of the budget's sums unfolded by
recursion; for `CheckedBeforeSent`, that on the routes of `PolicyIsLast` all text is of present hits
(`TextInv`) and that these are what the policy permitted (`PolicyInv`). These parts speak of the last
occurrences of actions on the route so far, which move with each step.

### Conversations

`ConversationProofs` proves, for any executions, requests and conversations: `TypeCorrect`,
`Numbered` (`Spec => []TurnsNumbered`), `AnswersAreDurable` (`Spec => []AnsweredIsDurable`) and `DecisionsStay`
(`Spec => DecidedTurnsStay`). The invariant `Inv` follows an execution along
its four steps: what it has recorded at each place (`AuditInv`), that it has a turn once it says so
(`StartedInv`), that the number it read is followed by no gap whoever inserts meanwhile (`NumberInv`), and that
what its last step wrote is still there when it answers (`SavedInv`), which rests on the
`WHERE status = 'started'` of the updates.

### Access

`AccessProofs` proves, under `AccessAssumption`:

| Theorem | Statement |
|---|---|
| `AccessTypeCorrect` | `Spec => []TypeOK` |
| `PublicationsAreGuarded` | `Spec => ExpectedIsReplaced` |
| `ChangesAlwaysChained` | `Spec => []ChangesAreChained` |
| `UndisturbedAlwaysExact` | `Spec => []UndisturbedIsExact` |
| `OffersAreGranted` | `Spec => []OfferedWasGranted` |
| `AnswersAreRecorded` | `Spec => []AnsweredIsRecorded` |

The inductive invariant `IInv` has one part for publications and one for
requests. `LockInv`: a publication under way that found a version holds the row, and
that version is still in force. `ReadInv`: the groups, the grants and the
capabilities a request has read are those of three policies in force since it began; `FoundIn`
is what a request finds across three such policies. The two theorems on offers are then
about `FoundIn`: when the three are one policy it is what that policy entitles to
(`FoundInOne`, which needs that a bundle's capability identifiers are unique), and when
they agree on the groups it is granted by the second and described by the third.

### The page

`WebProofs` proves, for any users, conversations, slots and events: `TypeCorrect`,
`RequestsNameOwn` (`Spec => []NamedAreOwn`), `QuietPageIsUsable` (`Spec => []QuietIsUsable`) and
`AloneBringsUpToDate` (`Spec => []AloneIsConsistent`, for any number of turns and any limit of an answer).

The first three are one invariant, `Sound`. Its part `Good` says of every call in flight, of what it
has still to do and of the page that they name the present user's conversations only, with the
exception of a page being loaded, whose controls are off. `Usable` is the promise that a handler
carries: whatever is out of step on the page (a list element that shows another choice, a
control that does not fit) is still ahead in the `todo` of some handler in flight. When none is left, all fits.
`Undisturbed` is the same for a handler that met no other: at each of its `await`s, what it has already
brought onto the page is what the server holds, and the rest is still to come.

### Keys

`KeyCacheProofs` proves `KeyTypeCorrect`, `KeysAreFresh` (`Spec => NoStaleKey`) and
`RotatedKeysAreFound` (`Spec => []KnownIsFound`) for any threads, keys and bounds under
`KeyAssumption`. `AgeInv` bounds the age of everything that can be used: the answers that
calls hold by the beginning of their call, the cached keys by the expiry or by the call that has
written them and not yet the expiry; the request that looks has waited for at most the duration of a
call since it read the clock. `KnownInv` says that a call which is not behind
another one finds a steady key in the cache once it has written it.

### From a configuration to a report

`EvaluationProofs` proves, for every valid configuration, every draw of security values and any
processes:

| Theorem | Statement |
|---|---|
| `SlotsAreComplete`, `CountsAreExact`, `CrossTargetInTenant`, `EdgesConnectNodes`, `ExpectedIsGenerated` | the generated records fit together |
| `EveryDatasetIsUsable` | `\A ds \in Dataset : ds \in Usable` |
| `PublishedAlwaysUsable` | `Spec => []PublishedIsUsable` |
| `GraphIsWithinBoundary`, `BoundaryIsWithinGraph`, `DecisionsAgree`, `SearchDiffersOnUnknownLabels` | the three decisions on visibility, compared |
| `PublicationTypeCorrect` | `PublicationSpec => []PublicationTypeOK` |
| `LatestSurvives` | `Spec => []LatestIsThere` |
| `ResultsAlwaysWhole` | `Spec => []ResultsAreWhole` |
| `RecallsAlwaysCompete` | `Spec => []RecallsCompete` |
| `ReportsAlwaysTrue` | `Spec => []ReportsAreTrue` |

`EveryDatasetIsUsable` joins the generator to the reader, which were written apart. The generator counts nodes in
two ways, once to write them and once to know which relationships and expectations can be written; they
agree. The node file holds each address once (`NodesFileIs`, by the places of
joined lists), so every chunk has one holder and every relationship names the holders that the reader
finds; the last operation on each source selects its last version (`OperationsAre`); so in the scope
`internal` `Accepts`, `CommandBuilds` and the deletions come out as they should, in the scope `complete` as
well where no relationship leaves the domain, and nothing is accepted where one does
(`ImportsInScope`); and what a query about the current state expects passes search, expansion and boundary under the labels that it allows.

The publication invariant says who holds the backup: a process that has moved the previous
dataset and not yet cleared it. While one does, the backup is neither absent nor empty, so
that no second process can move anything there (`OneHolds`); and when it clears the backup its own
dataset is in place (`ClearedIsReplaced`), because only a holder moves the output away.

`ResultsInv` says that the answers so far belong to the first queries of the dataset that the executor
opened and that no hit is both a seed and an expanded one. With it `RecallsAlwaysCompete` is a
count: four expected nodes among the graph nodes, of which the seeds are some. `ReportsInv` follows the answers into
the analysis and the report. Its part `Timely` says that unless a query was asked early, the
product has done its deletions and, while it holds the dataset of the queries, no answer has anything forbidden;
a sum of leaks is zero exactly when each of them is (`TotalIs`).

### Induction over data

The theorems of the library for induction take an operator as a parameter, which the provers cannot
instantiate. `DataInduction` states them without one: `Induction` is about the
*set* of numbers that have a property, and `RecursionExists` about a recursive function whose steps are given as
a function. From these it proves what `Keep`, `Joined`, `Ordered`, `Listed` and `Total` return for every argument.
That is why the modules use recursive functions and no `RECURSIVE` operator, and why they do not use the folds of the
library in definitions that a theorem is about.

### Only model-checked

`CoherentImportCompletes` and `TurnsGetDecided`: liveness under fairness, and `ENABLED`, are out of the
prover's reach. The three violations are counterexamples, so there is nothing to prove.

## 6. The plan

Done, in this order: `JobLifecycle`, `Ingestion` and its proofs; `DatasetImport` and
`ConversationRun`; `Pipeline`, `GraphTraversal`, `QueryPipeline` and their proofs; `AccessPolicy`
and its proofs; `WebClient`; `DatasetReader`, with `DatasetImport` over files; `KeyCache`,
`Visibility`, `DatasetGenerator`, `DatasetPublication` and `Evaluation` with their proofs; then
the proofs about imports, the data of a query, conversations, the page and reports.

Left for a continuation: an abstract specification of a conversation, of which the numbered and
decided turns are the promise, and one of a query run, both as refinements; two importers of one run;
renaming a conversation.

### Not modelled

- HTTP parsing, wiring, configuration, gateways and prompt files: no state of their own; where
  they fail, the actions that call them may fail.
- Schema migrations: one transaction under one advisory lock, so nothing interleaves.
- Latencies, concepts, precision, groups and the texts of reports: derived data that
  nothing else depends on.
- Chunk text, metadata, tokens and signatures, and the ranking inside Weaviate: data that no
  property distinguishes; search may return any chunks that its filter allows.
- The PKCE handshake of the page, and deployment files.
