-------------------------- MODULE DatasetGenerator --------------------------
(***************************************************************************)
(* The records of generation.py as sets and sequences: what the files of a *)
(* dataset hold for a configuration.  An identifier is the tuple of what   *)
(* its format spells out: a source is <<domain, type>>, a chunk            *)
(* <<domain, type, instance, version>>; titles, texts and concepts are     *)
(* left out.                                                               *)
(***************************************************************************)
EXTENDS Integers, Lists
LOCAL INSTANCE FiniteSetsExt

CONSTANT
    SecurityValues(_, _)   \* seed, address -> its ACL label and classification level

\* NODE_TYPES and EDGE_TEMPLATES.
NodeTypes == <<"controller", "service", "repository", "table", "log_table",
               "config", "worker", "event", "command", "validator">>
TypeCount == 10
NodeType == {NodeTypes[i] : i \in 1..TypeCount}

EdgeTemplates ==
    {<<"controller", "service", "calls">>, <<"service", "repository", "calls">>,
     <<"repository", "table", "writes">>, <<"repository", "table", "reads">>,
     <<"service", "log_table", "writes">>, <<"service", "config", "configured_by">>,
     <<"service", "validator", "validates_with">>, <<"service", "event", "emits">>,
     <<"worker", "service", "handles">>, <<"command", "service", "handles">>,
     <<"event", "service", "belongs_to">>}

QueryTypes == <<"easy", "confusing", "graph", "security", "control",
                "before_update", "after_update", "deleted">>

Positive == Nat \ {0}
Config == [nodes : Positive, domains : Positive, tenants : Positive,
           versions : Positive, edges : Positive, queries : Positive, seed : Nat]

\* validate_config.
Valid(cfg) ==
    /\ cfg \in Config
    /\ cfg.tenants <= cfg.domains
    /\ cfg.edges >= 5
    /\ cfg.nodes >= cfg.domains * cfg.versions * TypeCount

Domains(cfg) == 0..(cfg.domains - 1)
Versions(cfg) == 1..cfg.versions
TenantOf(cfg, d) == d % cfg.tenants

-----------------------------------------------------------------------------
(* Nodes *)

NodesInSlot(cfg, d, v) ==
    LET slot == d * cfg.versions + v - 1
        slots == cfg.domains * cfg.versions
    IN cfg.nodes \div slots + (IF slot < cfg.nodes % slots THEN 1 ELSE 0)

\* node_addresses: the local_index-th node of a slot.
Address(d, v, index) ==
    [domain |-> d, version |-> v, type |-> NodeTypes[(index % TypeCount) + 1],
     instance |-> index \div TypeCount + 1]
Slot(cfg, d, v) == {Address(d, v, i) : i \in 0..(NodesInSlot(cfg, d, v) - 1)}
Addresses(cfg) == UNION {Slot(cfg, d, v) : d \in Domains(cfg), v \in Versions(cfg)}

SourceId(d, type) == <<d, type>>
ChunkId(d, type, instance, v) == <<d, type, instance, v>>
ChunkOf(address) == ChunkId(address.domain, address.type, address.instance, address.version)

\* node_record.
NodeRecord(cfg, address) ==
    LET security == SecurityValues(cfg.seed, address) IN
    [chunk |-> ChunkOf(address), domain |-> address.domain,
     tenant |-> TenantOf(cfg, address.domain), source |-> SourceId(address.domain, address.type),
     version |-> address.version, acl |-> {security.acl}, level |-> security.level]

-----------------------------------------------------------------------------
(* Edges *)

\* node_type_counts, for the type at a place of NODE_TYPES.
TypeCounts(cfg, d, v, place) ==
    NodesInSlot(cfg, d, v) \div TypeCount
    + (IF place - 1 < NodesInSlot(cfg, d, v) % TypeCount THEN 1 ELSE 0)
PlaceOf(type) == CHOOSE i \in 1..TypeCount : NodeTypes[i] = type

EdgeRecord(cfg, d, v, from, to, instance, relationship, target) ==
    [tenant |-> TenantOf(cfg, d), owner |-> SourceId(d, from), version |-> v,
     from |-> ChunkId(d, from, instance, v), target |-> SourceId(target, to),
     to |-> ChunkId(target, to, instance, v), type |-> relationship]

Lesser(m, n) == IF m < n THEN m ELSE n

InnerEdges(cfg, d, v) ==
    UNION {{EdgeRecord(cfg, d, v, t[1], t[2], i, t[3], d) :
              i \in 1..Lesser(TypeCounts(cfg, d, v, PlaceOf(t[1])),
                              TypeCounts(cfg, d, v, PlaceOf(t[2])))} : t \in EdgeTemplates}

\* _cross_domain_target: the next domain of the same tenant, or its first one; a domain
\* that is alone is its own.
CrossTarget(cfg, d) ==
    IF d + cfg.tenants < cfg.domains THEN d + cfg.tenants ELSE d % cfg.tenants

CrossEdges(cfg, d, v) ==
    IF cfg.edges >= 6 /\ CrossTarget(cfg, d) # d
    THEN {EdgeRecord(cfg, d, v, "service", "service", 1,
                     IF d % 2 = 1 THEN "similar_to" ELSE "depends_on", CrossTarget(cfg, d))}
    ELSE {}

Edges(cfg) ==
    UNION {InnerEdges(cfg, d, v) \cup CrossEdges(cfg, d, v) :
             d \in Domains(cfg), v \in Versions(cfg)}

-----------------------------------------------------------------------------
(* Operations *)

OperationRecord(cfg, operation, d, type, v) ==
    [operation |-> operation, tenant |-> TenantOf(cfg, d), domain |-> d,
     source |-> SourceId(d, type), version |-> v]

\* operation_records of one domain.
SourceOperations(cfg, d, type) ==
    [v \in Versions(cfg) |->
        OperationRecord(cfg, IF v = 1 THEN "add_source" ELSE "replace_source", d, type, v)]
OperationsOf(cfg, d) ==
    Append(Joined([i \in 1..TypeCount |-> SourceOperations(cfg, d, NodeTypes[i])]),
           OperationRecord(cfg, "delete_source", d, "config", cfg.versions))

-----------------------------------------------------------------------------
(* Queries *)

QueryTypeOf(cfg, i) ==
    LET type == QueryTypes[(i % Len(QueryTypes)) + 1] IN
    IF cfg.versions = 1 /\ type \in {"before_update", "after_update"} THEN "easy" ELSE type

ExpectedVersion(cfg, i) == IF QueryTypeOf(cfg, i) = "before_update" THEN 1 ELSE cfg.versions

ExpectedTypes == {"controller", "service", "repository", "table"}

ExpectedState(cfg, i) ==
    CASE QueryTypeOf(cfg, i) = "before_update" -> "historical"
      [] QueryTypeOf(cfg, i) = "deleted" -> "deleted"
      [] OTHER -> "current"

\* query_records, with i counted from zero.
QueryRecord(cfg, i) ==
    LET d == i % cfg.domains
        v == ExpectedVersion(cfg, i)
        deleted == QueryTypeOf(cfg, i) = "deleted"
        Expect(types) == IF deleted THEN {} ELSE {ChunkId(d, t, 1, v) : t \in types}
        security == {SecurityValues(cfg.seed, [domain |-> d, version |-> v,
                                               type |-> t, instance |-> 1]) : t \in ExpectedTypes}
    IN [id |-> i, domain |-> d, tenant |-> TenantOf(cfg, d), state |-> ExpectedState(cfg, i),
        allowed |-> {s.acl : s \in security}, level |-> Max({s.level : s \in security}),
        seeds |-> Expect({"service", "repository"}), graph |-> Expect(ExpectedTypes),
        relationships |-> IF deleted THEN {} ELSE {"calls", "writes"},
        sources |-> IF deleted THEN {} ELSE {SourceId(d, "service"), SourceId(d, "repository")},
        forbidden |-> IF deleted THEN {ChunkId(d, "config", 1, cfg.versions)} ELSE {}]
=============================================================================
