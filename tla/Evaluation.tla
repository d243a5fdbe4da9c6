----------------------------- MODULE Evaluation -----------------------------
(***************************************************************************)
(* The way of a generated dataset: it is published, imported into the      *)
(* product, asked about with the queries it brings, and the results are    *)
(* analyzed against its expectations.  Each step is a process of its own   *)
(* that reads the files as they are when it runs, and a generator may      *)
(* replace the dataset between any two of them.                            *)
(***************************************************************************)
EXTENDS DatasetPublication, DatasetGenerator, Visibility

CONSTANTS
    config,        \* the configuration a dataset was generated with
    Importer, Executor, Analyzer,
    Teams,         \* bound: which processes take part in a behaviour
    Held,          \* the ACL labels of the subject that asks
    Outcomes(_),   \* bound: how a query may end: with an error, or with some of the chunks
                   \* that search finds and expansion adds, all of them cited or none
    Thresholds     \* percentages: [seed, graph, errors], and no leak at all

ASSUME EvaluationAssumption ==
    /\ config \in [Dataset -> Config]
    /\ \A ds \in Dataset : Valid(config[ds])
    /\ None \notin Nat

VARIABLES
    team,      \* the processes of this behaviour
    corpus,    \* the product: the dataset it imported, and whether its deletions are done
    asking,    \* the executor: the queries it opened and its temporary file
    results,   \* the results file
    analysis,  \* the analyzer: what it has read
    reports    \* the report files in place, in the order in which they are replaced

evaluationVars == <<corpus, asking, results, analysis, reports>>
vars == <<filesVars, evaluationVars, team>>

-----------------------------------------------------------------------------
(* What the import makes of a dataset *)

AllDomains == UNION {Domains(config[ds]) : ds \in Dataset}
Reader == INSTANCE DatasetReader WITH
    Source <- AllDomains \X NodeType, Version <- Positive,
    SourceOrder <- Listed(AllDomains \X NodeType),
    Chunk <- UNION {{ChunkOf(a) : a \in Addresses(config[ds])} : ds \in Dataset}

\* node_records, one slot after the other.
NodesFile(cfg) ==
    LET SlotAt(k) == LET d == (k - 1) \div cfg.versions
                         v == ((k - 1) % cfg.versions) + 1
                     IN [i \in 1..NodesInSlot(cfg, d, v) |-> NodeRecord(cfg, Address(d, v, i - 1))]
    IN Joined([k \in 1..(cfg.domains * cfg.versions) |-> SlotAt(k)])

\* What every import names: it has no default.
RelationshipScope == {"internal", "complete"}

\* The records of the files that concern a domain, as the reader finds them.  The order
\* of the edges does not matter to it.
FilesFor(cfg, d, scope) ==
    LET nodes == NodesFile(cfg)
        operations == OperationsOf(cfg, d)
        edges == {e \in Edges(cfg) : e.tenant = TenantOf(cfg, d)}
        EdgeOf(e) == [here |-> TRUE, from |-> e.from, to |-> e.to, origin |-> e.owner,
                      owner |-> <<e.owner, e.version>>, target |-> <<e.target, e.version>>,
                      type |-> e.type]
    IN [nodes |-> [i \in DOMAIN nodes |->
                     [here |-> nodes[i].domain = d, source |-> nodes[i].source,
                      version |-> nodes[i].version, chunk |-> nodes[i].chunk]],
        operations |-> [i \in DOMAIN operations |->
                     [here |-> TRUE, operation |-> operations[i].operation,
                      source |-> operations[i].source, version |-> operations[i].version]],
        edges |-> Listed({EdgeOf(e) : e \in edges}),
        scope |-> scope]

Files == [ds \in Dataset |-> [d \in Domains(config[ds]) |->
            [scope \in RelationshipScope |-> FilesFor(config[ds], d, scope)]]]

\* Every run of the import gets through: its commands can be built, and the selected
\* versions relate to selected versions.
Imports(files) ==
    /\ Reader!Accepts(files)
    /\ \A sv \in Reader!SourceVersions(files) : Reader!CommandBuilds(files, sv)
    /\ LET selected == Reader!CurrentVersions(files) IN
       \A e \in Reader!Relationships(files) :
          selected[e.owner[1]] = e.owner[2] => selected[e.target[1]] = e.target[2]

Importable == [scope \in RelationshipScope |->
    {ds \in Dataset : \A d \in Domains(config[ds]) : Reader!Accepts(Files[ds][d][scope])}]

\* The nodes of a domain that the product holds, before and after the deletions.  What is
\* selected and what is deleted does not depend on the scope.
HeldBy(ds, d, deleted) ==
    LET files == Files[ds][d]["internal"]
        selected == Reader!CurrentVersions(files)
        gone == IF deleted THEN Reader!DeletedSources(files) ELSE {}
        nodes == NodesFile(config[ds])
    IN {n \in {nodes[i] : i \in DOMAIN nodes} :
          n.domain = d /\ selected[n.source] = n.version /\ n.source \notin gone}
Active == UNION {UNION {{[dataset |-> ds, deleted |-> deleted, node |-> n] :
                           n \in HeldBy(ds, d, deleted)} :
                        d \in Domains(config[ds]), deleted \in BOOLEAN} : ds \in Dataset}

\* The import takes no classification level; domains of it have the security model none.
NoModel == [kind |-> "none", levels |-> <<>>, universe |-> {}]
Stored(n) == [domain |-> n.domain, tenant |-> n.tenant, acl |-> n.acl,
              clearance |-> None, labels |-> {}]
Subject(q, labels) == [domain |-> q.domain, tenant |-> q.tenant, acl |-> labels,
                       clearance |-> None, labels |-> {}]
Retrievable(q, labels, n) ==
    /\ Found(NoModel, Subject(q, labels), Stored(n))
    /\ Loaded(NoModel, Subject(q, labels), Stored(n))
    /\ Boundary(NoModel, Subject(q, labels), Stored(n)) = "allowed"

\* The chunks that a subject with some labels may see of an imported dataset.
Seen(q, labels, ds, deleted) ==
    {x.node.chunk : x \in {y \in Active : /\ y.dataset = ds /\ y.deleted = deleted
                                         /\ Retrievable(q, labels, y.node)}}

QueriesOf == [ds \in Dataset |-> [i \in 1..config[ds].queries |-> QueryRecord(config[ds], i - 1)]]

\* The relationships that lead from a domain into another one.
Leaving(cfg, d) == {e \in Edges(cfg) : e.owner[1] = d /\ e.target[1] # d}

\* In the scope "complete" an import gets through where no relationship leaves the
\* domain, and is refused before it begins elsewhere.
ImportsInScope(ds, d) ==
    /\ Imports(Files[ds][d]["internal"])
    /\ Leaving(config[ds], d) = {} => Imports(Files[ds][d]["complete"])
    /\ Leaving(config[ds], d) # {} => ~Reader!Accepts(Files[ds][d]["complete"])

ImportsWholly(ds) == \A d \in Domains(config[ds]) : ImportsInScope(ds, d)
ServesExpectations(ds) ==
    \A i \in DOMAIN QueriesOf[ds] : LET q == QueriesOf[ds][i]
                                       seen == Seen(q, q.allowed, ds, TRUE) IN
       q.state # "historical" => q.seeds \cup q.graph \subseteq seen /\ q.forbidden \cap seen = {}
Usable == {ds \in Dataset : ImportsWholly(ds) /\ ServesExpectations(ds)}

-----------------------------------------------------------------------------
(* The product *)

\* The import, in the scope its command names, prepares from the files in place and
\* activates every selected version.  It refuses another content for a version it has.
ImportSources ==
    /\ Importer \in team
    /\ corpus = None
    /\ \E scope \in RelationshipScope : output \in Importable[scope]
    /\ corpus' = [dataset |-> output, deleted |-> FALSE]
    /\ UNCHANGED <<asking, results, analysis, reports>>

ImportDeletions ==
    /\ Importer \in team
    /\ corpus # None /\ ~corpus.deleted
    /\ corpus' = [corpus EXCEPT !.deleted = TRUE]
    /\ UNCHANGED <<asking, results, analysis, reports>>

Visible(q) ==
    IF corpus = None THEN {} ELSE Seen(q, Held, corpus.dataset, corpus.deleted)

\* Mutant: a hit that expansion found as well is of both origins.
ExpandedTwice(found, expanded) == expanded

\* _diagnostics: a hit that search found keeps the origin "seed".
Expanded(found, expanded) == expanded \ found

\* A request that fails leaves nothing.  Otherwise what is visible of the chunks comes
\* back, in the trace only if the subject may have diagnostics.
Answer(q, outcome) ==
    LET found == outcome.found \cap Visible(q)
        expanded == outcome.expanded \cap Visible(q)
    IN IF ~outcome.ok
       THEN [ok |-> FALSE, trace |-> FALSE, seeds |-> {}, graph |-> {}, cited |-> {}]
       ELSE [ok |-> TRUE, trace |-> outcome.trace,
             seeds |-> IF outcome.trace THEN found ELSE {},
             graph |-> IF outcome.trace THEN Expanded(found, expanded) ELSE {},
             cited |-> IF outcome.cites THEN found \cup expanded ELSE {}]

-----------------------------------------------------------------------------
(* execute_queries, without --overwrite *)

OpenQueries ==
    /\ Executor \in team
    /\ asking = None /\ results = None
    /\ output \in Dataset
    /\ asking' = [queries |-> output, answers |-> <<>>, early |-> FALSE]
    /\ UNCHANGED <<corpus, results, analysis, reports>>

\* early: history, whether the product had deletions to do when a query was answered.
Asked(answer) == [asking EXCEPT !.answers = Append(@, answer),
                                !.early = @ \/ corpus = None \/ ~corpus.deleted]
NextQuery == QueriesOf[asking.queries][Len(asking.answers) + 1]
HasNext == asking # None /\ Len(asking.answers) < Len(QueriesOf[asking.queries])

\* Mutant: each result is written to the results file itself.
AskInPlace ==
    /\ HasNext
    /\ \E outcome \in Outcomes(NextQuery) : asking' = Asked(Answer(NextQuery, outcome))
    /\ results' = asking'
    /\ UNCHANGED <<corpus, analysis, reports>>

Ask ==
    /\ HasNext
    /\ \E outcome \in Outcomes(NextQuery) : asking' = Asked(Answer(NextQuery, outcome))
    /\ UNCHANGED <<corpus, results, analysis, reports>>

\* os.replace of the temporary file.
StoreResults ==
    /\ asking # None /\ ~HasNext
    /\ results' = asking
    /\ asking' = None
    /\ UNCHANGED <<corpus, analysis, reports>>

BreakOffRun ==
    /\ asking # None
    /\ asking' = None
    /\ UNCHANGED <<corpus, results, analysis, reports>>

-----------------------------------------------------------------------------
(* analyze_results, without --overwrite *)

\* recall, as a percentage.
Recall(expected, actual) ==
    IF expected = {} THEN 100 ELSE (100 * Cardinality(expected \cap actual)) \div Cardinality(expected)

\* Mutant: only what was cited is looked at.
LeaksCited(q, a) == Cardinality(q.forbidden \cap a.cited)

\* _security_leaks.  The product's evidence carries no domain, tenant, labels or level, so
\* only forbidden nodes are ever counted.
Leaks(q, a) == Cardinality(q.forbidden \cap a.seeds) + Cardinality(q.forbidden \cap a.graph)
               + Cardinality(q.forbidden \cap a.cited)

\* _analyze_query, without the metrics that no threshold of the example is about.
Metrics(q, a) ==
    [trace |-> a.trace, ok |-> a.ok, leaks |-> Leaks(q, a),
     seed |-> Recall(q.seeds, a.seeds), graph |-> Recall(q.graph, a.graph)]

\* _summarize; the means are over the results that have a trace.
Summary(queries, answers) ==
    LET rows == [i \in DOMAIN answers |-> Metrics(queries[i], answers[i])]
        traced == {i \in DOMAIN rows : rows[i].trace}
        Sum(places, Value(_)) ==
            Total([i \in DOMAIN rows |-> IF i \in places THEN Value(rows[i]) ELSE 0])
    IN [traced |-> Cardinality(traced), count |-> Len(answers),
        failed |-> Cardinality({i \in DOMAIN rows : ~rows[i].ok}),
        seed |-> Sum(traced, LAMBDA r : r.seed), graph |-> Sum(traced, LAMBDA r : r.graph),
        leaks |-> Sum(DOMAIN rows, LAMBDA r : r.leaks)]

\* evaluate_thresholds: a threshold on a mean of nothing fails.
Passes(summary) ==
    /\ summary.traced > 0
    /\ summary.seed >= Thresholds.seed * summary.traced
    /\ summary.graph >= Thresholds.graph * summary.traced
    /\ 100 * summary.failed <= Thresholds.errors * summary.count
    /\ summary.leaks = 0

ReadQueries ==
    /\ Analyzer \in team
    /\ analysis = None
    /\ output \in Dataset
    /\ analysis' = [queries |-> output, answers |-> None, begun |-> FALSE]
    /\ UNCHANGED <<corpus, asking, results, reports>>

\* _validate_result_set compares the query ids, which count from one.
ReadResults ==
    /\ analysis # None /\ analysis.answers = None
    /\ analysis' = IF results # None /\ Len(results.answers) = Len(QueriesOf[analysis.queries])
                   THEN [analysis EXCEPT !.answers = results.answers] ELSE None
    /\ UNCHANGED <<corpus, asking, results, reports>>

ReportFiles == <<"report.json", "report.md", "failures.jsonl">>

Written == IF reports = None THEN 0 ELSE reports.written

\* The rest of the analysis up to publish_reports, which refuses to replace any file that
\* it finds.  The manifest, which is only shown, and the concepts are left out.
BeginReports ==
    /\ analysis # None /\ analysis.answers # None /\ ~analysis.begun
    /\ Written = 0
    /\ analysis' = [analysis EXCEPT !.begun = TRUE]
    /\ UNCHANGED <<corpus, asking, results, reports>>

\* os.replace of the next of the temporary files.
PublishReport ==
    /\ analysis # None /\ analysis.begun
    /\ Written < Len(ReportFiles)
    /\ LET summary == Summary(QueriesOf[analysis.queries], analysis.answers) IN
       reports' = [queries |-> analysis.queries, written |-> Written + 1,
                   passed |-> Passes(summary), leaks |-> summary.leaks]
    /\ UNCHANGED <<corpus, asking, results, analysis>>

EndAnalysis ==
    /\ analysis # None
    /\ analysis' = None
    /\ UNCHANGED <<corpus, asking, results, reports>>

-----------------------------------------------------------------------------
Init ==
    /\ PublicationInit
    /\ team \in Teams
    /\ corpus = None
    /\ asking = None
    /\ results = None
    /\ analysis = None
    /\ reports = None

Evaluate ==
    \/ ImportSources \/ ImportDeletions
    \/ OpenQueries \/ Ask \/ StoreResults \/ BreakOffRun
    \/ ReadQueries \/ ReadResults \/ BeginReports \/ PublishReport \/ EndAnalysis

Next ==
    \/ (\E g \in Generator \cap team : Generate(g)) /\ UNCHANGED <<wasEmpty, team, evaluationVars>>
    \/ Evaluate /\ UNCHANGED <<filesVars, team>>

Spec == Init /\ [][Next]_vars

-----------------------------------------------------------------------------
(* Properties *)

\* The results file holds one result for each query of one dataset, whatever happened to
\* the dataset's directory, to the product or to the executor meanwhile.
ResultsAreWhole == results # None =>
    Len(results.answers) = Len(QueriesOf[results.queries])

\* Whatever dataset is in place, the import of each of its domains gets through in the
\* scope "internal", and in the scope "complete" exactly where no relationship leads into
\* another domain; and then what its queries about the current state expect, and nothing
\* they forbid, is retrievable for a subject with the labels that the query allows.
PublishedIsUsable == output \in Dataset => output \in Usable

\* The trace tells search hits from expanded ones, the queries expect their seeds again
\* among the expanded nodes: what one recall gains the other loses, so that no query that
\* expects something meets both.
RecallsCompete == results # None =>
    \A i \in DOMAIN results.answers :
       LET q == QueriesOf[results.queries][i]
           a == results.answers[i]
       IN q.seeds # {} => Recall(q.seeds, a.seeds) + 2 * Recall(q.graph, a.graph) <= 200

\* Thresholds are passed only if nothing forbidden came back, and if queries, results and
\* product are of one dataset, then a leak is reported only if a query was answered before
\* the import had done its deletions.
ReportsAreTrue == reports # None /\ results # None =>
    /\ reports.passed => \A i \in DOMAIN results.answers :
          LET a == results.answers[i] IN
          QueriesOf[reports.queries][i].forbidden \cap (a.seeds \cup a.graph \cup a.cited) = {}
    /\ /\ reports.leaks > 0
       /\ corpus # None
       /\ {reports.queries, corpus.dataset} = {results.queries}
       => results.early
=============================================================================
