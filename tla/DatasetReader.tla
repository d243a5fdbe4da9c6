---------------------------- MODULE DatasetReader ----------------------------
(***************************************************************************)
(* JsonlDatasetReader: what prepare() accepts, and which source commands,  *)
(* relationship commands and deletions the SQLite workspace then yields.   *)
(* The three files are sequences of records; a record that belongs to      *)
(* another domain or tenant is not `here`.                                 *)
(***************************************************************************)
EXTENDS Lists

CONSTANTS Source, Version, Chunk, None,
          SourceOrder    \* the sources by source_id, as ORDER BY returns them

Node == [here : BOOLEAN, source : Source, version : Version, chunk : Chunk]

Operation == [here : BOOLEAN, source : Source, version : Version \cup {None},
              operation : {"add_source", "replace_source", "delete_source"}]

\* owner and target are the source versions an edge names for its two chunks, and
\* origin its from_source_id.
Edge == [here : BOOLEAN, from : Chunk, to : Chunk, origin : Source,
         owner : Source \X Version, target : Source \X Version, type : STRING]

Files == [nodes : Seq(Node), operations : Seq(Operation), edges : Seq(Edge),
          scope : {"internal", "complete"}]

\* The places of the records that concern the import, and these records.
Here(records) == {i \in DOMAIN records : records[i].here}
Read(records) == {records[i] : i \in Here(records)}
Distinct(places, Id(_)) == \A i, j \in places : Id(i) = Id(j) => i = j

-----------------------------------------------------------------------------
(* The workspace *)

Nodes(d) == Read(d.nodes)
VersionOf(n) == <<n.source, n.version>>

\* The tables source_versions and nodes.
SourceVersions(d) == {VersionOf(n) : n \in Nodes(d)}
Sources(d) == {sv[1] : sv \in SourceVersions(d)}
Known(d, c) == \E n \in Nodes(d) : n.chunk = c
Holder(d, c) == VersionOf(CHOOSE n \in Nodes(d) : n.chunk = c)

\* The places of the operations that select a version of a source.
Selections(d, s) == {i \in Here(d.operations) :
    d.operations[i].operation # "delete_source" /\ d.operations[i].source = s}

\* Mutant: the first operation on a source decides.
FirstSelection(d) == [s \in Source |-> IF Selections(d, s) = {} THEN None
    ELSE d.operations[CHOOSE i \in Selections(d, s) : \A j \in Selections(d, s) : i <= j].version]

\* _set_current: every add or replace overwrites the one before.
CurrentVersions(d) == [s \in Source |-> IF Selections(d, s) = {} THEN None
    ELSE d.operations[CHOOSE i \in Selections(d, s) : \A j \in Selections(d, s) : j <= i].version]

\* An edge that starts at another domain's chunk is not read, and in the internal
\* scope neither is one that ends there.
Related(d) == {i \in Here(d.edges) : Known(d, d.edges[i].from) /\ Known(d, d.edges[i].to)}
Relationships(d) == {d.edges[i] : i \in Related(d)}

\* Mutant: two relationships of different types between the same chunks are one.
EdgeKeyUntyped(e) == <<e.owner, e.origin, e.from, e.target[1], e.to>>

\* The primary key of the table relationships.
EdgeKey(e) == <<e.owner, e.origin, e.from, e.target[1], e.to, e.type>>

EdgeAccepted(d, e) == Known(d, e.from) =>
    /\ d.scope = "complete" => Known(d, e.to)
    /\ Known(d, e.to) => e.owner = Holder(d, e.from) /\ e.target = Holder(d, e.to)

\* prepare() raises otherwise.
Accepts(d) ==
    /\ Nodes(d) # {}
    /\ Distinct(Here(d.nodes), LAMBDA i : d.nodes[i].chunk)
    /\ \A op \in Read(d.operations) :
          op.operation # "delete_source" => VersionOf(op) \in SourceVersions(d)
    /\ \A e \in Read(d.edges) : EdgeAccepted(d, e)
    /\ Distinct(Related(d), LAMBDA i : EdgeKey(d.edges[i]))
    /\ \A s \in Sources(d) : CurrentVersions(d)[s] # None

-----------------------------------------------------------------------------
(* The commands *)

\* version_order counts the versions of a source as nodes.jsonl first lists them.
FirstListed(d) == {i \in Here(d.nodes) :
    \A j \in Here(d.nodes) : j < i => VersionOf(d.nodes[j]) # VersionOf(d.nodes[i])}

Places(records) == [i \in DOMAIN records |-> i]

VersionsListed(d, s) ==
    LET firsts == Keep(Places(d.nodes), {i \in FirstListed(d) : d.nodes[i].source = s})
    IN [i \in DOMAIN firsts |-> VersionOf(d.nodes[firsts[i]])]

\* source_commands: by source, then by version_order.
SourceCommands(d) == Joined([i \in DOMAIN SourceOrder |-> VersionsListed(d, SourceOrder[i])])

\* relationship_commands: the current version of every source.
RelationshipCommands(d) ==
    LET active == {sv \in SourceVersions(d) : CurrentVersions(d)[sv[1]] = sv[2]}
    IN Keep(SourceCommands(d), active)

ChunksListed(d, sv) ==
    LET mine == Keep(Places(d.nodes), {i \in Here(d.nodes) : VersionOf(d.nodes[i]) = sv})
    IN [i \in DOMAIN mine |-> d.nodes[mine[i]].chunk]

OwnedEdges(d, sv) == {e \in Relationships(d) : e.owner = sv}

DeclaredTargets(d, sv) == {<<e.target[1], e.to>> : e \in OwnedEdges(d, sv)}

\* IngestionCommand refuses an edge from another source, or to a chunk that another
\* version of this source holds.
CommandBuilds(d, sv) == \A e \in OwnedEdges(d, sv) :
    e.origin = sv[1] /\ (e.target[1] = sv[1] => e.target = sv)

DeletedSources(d) ==
    {op.source : op \in {o \in Read(d.operations) : o.operation = "delete_source"}}

DeletionCommands(d) == Keep(SourceOrder, DeletedSources(d))
=============================================================================
