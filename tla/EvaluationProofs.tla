-------------------------- MODULE EvaluationProofs --------------------------
(***************************************************************************)
(* Theorems about the way of a generated dataset: what holds of the        *)
(* generated files for every valid configuration, where the decisions of   *)
(* search, graph and boundary agree, that the last published dataset       *)
(* survives any number of generators, and what the results of an           *)
(* evaluation can be relied on for.                                        *)
(***************************************************************************)
EXTENDS Evaluation, DataInduction

-----------------------------------------------------------------------------
(* The generated files: the two ways in which the generator counts its     *)
(* nodes agree, so every relationship and every expectation names chunks   *)
(* that were generated, and no relationship leaves its tenant or version.  *)

(* Division *)

LEMMA DivMod ==
    ASSUME NEW n \in Nat, NEW k \in Nat \ {0}
    PROVE  /\ n \div k \in Nat /\ n % k \in Nat /\ n % k < k
           /\ n = k * (n \div k) + (n % k)
<1>1. n % k \in Nat /\ n % k < k
  OBVIOUS
<1>2. n \div k \in Nat
  OBVIOUS
<1>3. n = k * (n \div k) + (n % k)
  BY Z3
<1> QED
  BY <1>1, <1>2, <1>3

LEMMA DivUnique ==
    ASSUME NEW n \in Nat, NEW k \in Nat \ {0}, NEW q \in Nat, NEW r \in Nat,
           r < k, n = k * q + r
    PROVE  n \div k = q /\ n % k = r
OBVIOUS

LEMMA TenTimes ==
    ASSUME NEW n \in Nat, NEW k \in Nat \ {0}, n >= k * TypeCount
    PROVE  n \div k >= TypeCount
BY DEF TypeCount

LEMMA SameRemainder ==
    ASSUME NEW n \in Nat, NEW k \in Nat \ {0}
    PROVE  (n + k) % k = n % k /\ (n % k) % k = n % k
<1> DEFINE q == n \div k
           r == n % k
<1>1. q \in Nat /\ r \in Nat /\ r < k /\ n = k * q + r
  BY DivMod
<1> HIDE DEF q, r
<1>2. n + k = k * (q + 1) + r
  BY <1>1, Z3
<1>3. (n + k) % k = r
  BY <1>1, <1>2, DivUnique
<1>4. r % k = r
  BY <1>1
<1> QED
  BY <1>3, <1>4 DEF r

-----------------------------------------------------------------------------
(* Nodes *)

LEMMA ConfigNumbers ==
    ASSUME NEW cfg \in Config
    PROVE  /\ cfg.nodes \in Nat \ {0} /\ cfg.domains \in Nat \ {0}
           /\ cfg.tenants \in Nat \ {0} /\ cfg.versions \in Nat \ {0}
BY DEF Config, Positive

\* Every domain and version has at least one node of each type.
THEOREM SlotsAreComplete ==
    ASSUME NEW cfg, Valid(cfg), NEW d \in Domains(cfg), NEW v \in Versions(cfg)
    PROVE  NodesInSlot(cfg, d, v) \in Nat /\ NodesInSlot(cfg, d, v) >= TypeCount
<1> DEFINE slots == cfg.domains * cfg.versions
           slot == d * cfg.versions + v - 1
<1>1. cfg \in Config /\ cfg.nodes >= slots * TypeCount
  BY DEF Valid
<1>2. cfg.domains \in Nat \ {0} /\ cfg.versions \in Nat \ {0} /\ cfg.nodes \in Nat
  BY <1>1, ConfigNumbers
<1>3. slots \in Nat \ {0}
  BY <1>2
<1> HIDE DEF slots
<1>4. cfg.nodes \div slots \in Nat /\ cfg.nodes \div slots >= TypeCount
  BY <1>1, <1>2, <1>3, DivMod, TenTimes
<1>5. NodesInSlot(cfg, d, v) =
        cfg.nodes \div slots + (IF slot < cfg.nodes % slots THEN 1 ELSE 0)
  BY DEF NodesInSlot, slots
<1> HIDE DEF slot
<1> QED
  BY <1>4, <1>5 DEF TypeCount

LEMMA TypesOnce ==
    /\ \A i \in 1..TypeCount : PlaceOf(NodeTypes[i]) = i
    /\ \A t \in NodeType : PlaceOf(t) \in 1..TypeCount /\ NodeTypes[PlaceOf(t)] = t
<1>1. \A i, j \in 1..TypeCount : NodeTypes[i] = NodeTypes[j] => i = j
  BY DEF TypeCount, NodeTypes
<1> QED
  BY <1>1 DEF PlaceOf, NodeType

\* node_type_counts, which the relationships are made from, counts what node_addresses
\* generates: the instances of a type in a slot are 1, 2, ... up to the count.
THEOREM CountsAreExact ==
    ASSUME NEW cfg, Valid(cfg), NEW d \in Domains(cfg), NEW v \in Versions(cfg),
           NEW place \in 1..TypeCount, NEW i \in Nat \ {0}
    PROVE  [domain |-> d, version |-> v, type |-> NodeTypes[place], instance |-> i]
              \in Slot(cfg, d, v)
           <=> i <= TypeCounts(cfg, d, v, place)
<1> DEFINE n == NodesInSlot(cfg, d, v)
           index == (i - 1) * 10 + place - 1
           address == [domain |-> d, version |-> v, type |-> NodeTypes[place], instance |-> i]
<1>1. n \in Nat
  BY SlotsAreComplete
<1>2. place \in Nat /\ 1 <= place /\ place <= 10
  BY DEF TypeCount
<1>3. index \in Nat /\ index \div 10 = i - 1 /\ index % 10 = place - 1
  BY <1>2
<1>4. Address(d, v, index) = address
  BY <1>2, <1>3 DEF Address, TypeCount
<1>5. ASSUME NEW j \in Nat, Address(d, v, j) = address
      PROVE  j = index
  <2>1. NodeTypes[(j % 10) + 1] = NodeTypes[place] /\ j \div 10 + 1 = i
    BY <1>5 DEF Address, TypeCount
  <2>2. (j % 10) + 1 \in 1..10
    OBVIOUS
  <2>3. (j % 10) + 1 = place
    BY <2>1, <2>2, TypesOnce DEF TypeCount
  <2> QED
    BY <2>1, <2>3, <1>2
<1>6. address \in Slot(cfg, d, v) <=> index < n
  <2>1. Slot(cfg, d, v) = {Address(d, v, j) : j \in 0..(n - 1)}
    BY DEF Slot
  <2> HIDE DEF n, index, address
  <2> QED
    BY <1>1, <1>3, <1>4, <1>5, <2>1
<1>7. TypeCounts(cfg, d, v, place) =
        n \div 10 + (IF place - 1 < n % 10 THEN 1 ELSE 0)
  BY DEF TypeCounts, TypeCount
<1>8. index < n <=> i <= n \div 10 + (IF place - 1 < n % 10 THEN 1 ELSE 0)
  <2> HIDE DEF n
  <2> QED
    BY <1>1, <1>2
<1> QED
  BY <1>6, <1>7, <1>8

-----------------------------------------------------------------------------
(* Relationships *)

\* A chunk of a domain and version exists.
Generated(cfg, chunk, d, v) == \E address \in Slot(cfg, d, v) : chunk = ChunkOf(address)

LEMMA InstanceExists ==
    ASSUME NEW cfg, Valid(cfg), NEW d \in Domains(cfg), NEW v \in Versions(cfg),
           NEW type \in NodeType, NEW i \in Nat \ {0},
           i <= TypeCounts(cfg, d, v, PlaceOf(type))
    PROVE  Generated(cfg, ChunkId(d, type, i, v), d, v)
<1> DEFINE address == [domain |-> d, version |-> v, type |-> type, instance |-> i]
<1>1. PlaceOf(type) \in 1..TypeCount /\ NodeTypes[PlaceOf(type)] = type
  BY TypesOnce
<1>2. address \in Slot(cfg, d, v)
  BY <1>1, CountsAreExact
<1> QED
  BY <1>2 DEF Generated, ChunkOf

LEMMA FirstExists ==
    ASSUME NEW cfg, Valid(cfg), NEW d \in Domains(cfg), NEW v \in Versions(cfg),
           NEW type \in NodeType
    PROVE  Generated(cfg, ChunkId(d, type, 1, v), d, v)
<1>1. PlaceOf(type) \in 1..TypeCount
  BY TypesOnce
<1>2. NodesInSlot(cfg, d, v) \in Nat /\ NodesInSlot(cfg, d, v) >= TypeCount
  BY SlotsAreComplete
<1>3. 1 <= TypeCounts(cfg, d, v, PlaceOf(type))
  <2> DEFINE n == NodesInSlot(cfg, d, v)
             extra == IF PlaceOf(type) - 1 < n % 10 THEN 1 ELSE 0
  <2>1. TypeCounts(cfg, d, v, PlaceOf(type)) = n \div 10 + extra
    BY DEF TypeCounts, TypeCount
  <2>2. extra \in {0, 1}
    OBVIOUS
  <2>3. n \div 10 \in Nat /\ n \div 10 >= 1
    BY <1>2 DEF TypeCount
  <2> HIDE DEF n, extra
  <2> QED
    BY <2>1, <2>2, <2>3
<1> QED
  BY <1>3, InstanceExists

LEMMA TemplateTypes == \A t \in EdgeTemplates : t[1] \in NodeType /\ t[2] \in NodeType
<1>1. {NodeTypes[i] : i \in 1..10} =
        {"controller", "service", "repository", "table", "log_table",
         "config", "worker", "event", "command", "validator"}
  BY DEF NodeTypes
<1> QED
  BY <1>1 DEF NodeType, TypeCount, EdgeTemplates

\* A relationship into another domain stays in the tenant.
THEOREM CrossTargetInTenant ==
    ASSUME NEW cfg, Valid(cfg), NEW d \in Domains(cfg)
    PROVE  /\ CrossTarget(cfg, d) \in Domains(cfg)
           /\ TenantOf(cfg, CrossTarget(cfg, d)) = TenantOf(cfg, d)
<1>1. /\ cfg.domains \in Nat \ {0} /\ cfg.tenants \in Nat \ {0}
      /\ cfg.tenants <= cfg.domains
  BY ConfigNumbers DEF Valid
<1>2. d \in Nat /\ d < cfg.domains
  BY <1>1 DEF Domains
<1>3. /\ d % cfg.tenants \in Nat /\ d % cfg.tenants < cfg.tenants
      /\ (d + cfg.tenants) % cfg.tenants = d % cfg.tenants
      /\ (d % cfg.tenants) % cfg.tenants = d % cfg.tenants
  BY <1>1, <1>2, DivMod, SameRemainder
<1>4. CASE d + cfg.tenants < cfg.domains
  BY <1>1, <1>2, <1>3, <1>4 DEF CrossTarget, TenantOf, Domains
<1>5. CASE ~(d + cfg.tenants < cfg.domains)
  BY <1>1, <1>2, <1>3, <1>5 DEF CrossTarget, TenantOf, Domains
<1> QED
  BY <1>4, <1>5

\* Both ends of every relationship are generated chunks of one tenant and version, the
\* first one of the owner of the relationship, and only depends_on and similar_to lead
\* into another domain.
EdgeSound(cfg, e) ==
    \E d, target \in Domains(cfg), v \in Versions(cfg) :
        /\ e.tenant = TenantOf(cfg, d) /\ TenantOf(cfg, target) = TenantOf(cfg, d)
        /\ e.version = v
        /\ Generated(cfg, e.from, d, v) /\ Generated(cfg, e.to, target, v)
        /\ target # d => e.type \in {"depends_on", "similar_to"}

THEOREM EdgesConnectNodes ==
    ASSUME NEW cfg, Valid(cfg), NEW e \in Edges(cfg)
    PROVE  EdgeSound(cfg, e)
<1>1. PICK d \in Domains(cfg), v \in Versions(cfg) :
        e \in InnerEdges(cfg, d, v) \/ e \in CrossEdges(cfg, d, v)
  BY DEF Edges
<1>2. CASE e \in InnerEdges(cfg, d, v)
  <2>1. PICK t \in EdgeTemplates : \E i \in
          1..Lesser(TypeCounts(cfg, d, v, PlaceOf(t[1])), TypeCounts(cfg, d, v, PlaceOf(t[2]))) :
             e = EdgeRecord(cfg, d, v, t[1], t[2], i, t[3], d)
    BY <1>2 DEF InnerEdges
  <2>2. t[1] \in NodeType /\ t[2] \in NodeType
    BY TemplateTypes
  <2>3. \A type \in NodeType : TypeCounts(cfg, d, v, PlaceOf(type)) \in Int
    <3> SUFFICES ASSUME NEW type \in NodeType
                 PROVE  TypeCounts(cfg, d, v, PlaceOf(type)) \in Int
      OBVIOUS
    <3>1. NodesInSlot(cfg, d, v) \in Nat
      BY SlotsAreComplete
    <3> QED
      BY <3>1 DEF TypeCounts, TypeCount
  <2>4. PICK i \in Nat \ {0} :
          /\ e = EdgeRecord(cfg, d, v, t[1], t[2], i, t[3], d)
          /\ i <= TypeCounts(cfg, d, v, PlaceOf(t[1]))
          /\ i <= TypeCounts(cfg, d, v, PlaceOf(t[2]))
    <3> DEFINE m == TypeCounts(cfg, d, v, PlaceOf(t[1]))
               n == TypeCounts(cfg, d, v, PlaceOf(t[2]))
    <3>1. m \in Int /\ n \in Int
      BY <2>2, <2>3
    <3>2. PICK i \in 1..Lesser(m, n) : e = EdgeRecord(cfg, d, v, t[1], t[2], i, t[3], d)
      BY <2>1
    <3> HIDE DEF m, n
    <3>3. i \in Nat \ {0} /\ i <= m /\ i <= n
      BY <3>1, <3>2 DEF Lesser
    <3> QED
      BY <3>2, <3>3 DEF m, n
  <2>5. /\ Generated(cfg, ChunkId(d, t[1], i, v), d, v)
        /\ Generated(cfg, ChunkId(d, t[2], i, v), d, v)
    BY <2>2, <2>4, InstanceExists
  <2> QED
    BY <2>4, <2>5 DEF EdgeSound, EdgeRecord
<1>3. CASE e \in CrossEdges(cfg, d, v)
  <2> DEFINE target == CrossTarget(cfg, d)
  <2>1. \E type \in {"depends_on", "similar_to"} :
          e = EdgeRecord(cfg, d, v, "service", "service", 1, type, target)
    BY <1>3 DEF CrossEdges
  <2>2. "service" \in NodeType
    BY TemplateTypes DEF EdgeTemplates
  <2>3. target \in Domains(cfg) /\ TenantOf(cfg, target) = TenantOf(cfg, d)
    BY CrossTargetInTenant
  <2> HIDE DEF target
  <2>4. /\ Generated(cfg, ChunkId(d, "service", 1, v), d, v)
        /\ Generated(cfg, ChunkId(target, "service", 1, v), target, v)
    BY <2>2, <2>3, FirstExists
  <2> QED
    BY <2>1, <2>3, <2>4 DEF EdgeSound, EdgeRecord
<1> QED
  BY <1>1, <1>2, <1>3

-----------------------------------------------------------------------------
(* Queries *)

\* Whatever a query expects was generated, in the query's domain and for the version it
\* asks about, and whatever security values were drawn, carries an ACL label that the
\* query allows.
THEOREM ExpectedIsGenerated ==
    ASSUME NEW cfg, Valid(cfg), NEW i \in Nat,
           NEW c \in QueryRecord(cfg, i).seeds \cup QueryRecord(cfg, i).graph
    PROVE  \E address \in Slot(cfg, i % cfg.domains, ExpectedVersion(cfg, i)) :
              /\ c = ChunkOf(address)
              /\ SecurityValues(cfg.seed, address).acl \in QueryRecord(cfg, i).allowed
<1> DEFINE d == i % cfg.domains
           v == ExpectedVersion(cfg, i)
<1>1. cfg.domains \in Nat \ {0} /\ cfg.versions \in Nat \ {0}
  BY ConfigNumbers DEF Valid
<1>2. d \in Domains(cfg)
  BY <1>1, DivMod DEF Domains
<1>3. v \in Versions(cfg)
  BY <1>1 DEF ExpectedVersion, Versions
<1>4. PICK t \in ExpectedTypes : c = ChunkId(d, t, 1, v)
  BY DEF QueryRecord, ExpectedTypes
<1>5. t \in NodeType
  BY TemplateTypes DEF ExpectedTypes, EdgeTemplates
<1> DEFINE address == [domain |-> d, version |-> v, type |-> t, instance |-> 1]
<1>6. address \in Slot(cfg, d, v)
  <2>1. Generated(cfg, ChunkId(d, t, 1, v), d, v)
    BY <1>2, <1>3, <1>5, FirstExists
  <2>2. PICK other \in Slot(cfg, d, v) : ChunkId(d, t, 1, v) = ChunkOf(other)
    BY <2>1 DEF Generated
  <2>3. other = address
    <3>1. PICK j \in 0..(NodesInSlot(cfg, d, v) - 1) : other = Address(d, v, j)
      BY <2>2 DEF Slot
    <3> QED
      BY <2>2, <3>1 DEF Address, ChunkOf, ChunkId
  <2> QED
    BY <2>2, <2>3
<1>7. SecurityValues(cfg.seed, address).acl \in QueryRecord(cfg, i).allowed
  BY DEF QueryRecord
<1>8. c = ChunkOf(address)
  BY <1>4 DEF ChunkOf
<1> QED
  BY <1>6, <1>7, <1>8

-----------------------------------------------------------------------------
(* Visibility: search, graph and boundary are written three times, in      *)
(* three languages.  They decide alike wherever the labels of the          *)
(* documents are those of the model.                                       *)

\* The labels that a chunk carries are labels of the model, as ingestion makes sure
\* while the model stays what it is.
InModel(m, c) ==
    /\ m.kind = "clearance_level" => c.clearance \in DOMAIN m.levels \cup {None}
    /\ m.kind = "classification_labels" => c.labels \subseteq m.universe

LEMMA IngestedIsInModel ==
    ASSUME NEW m \in SecurityModel, NEW c \in Chunk, Ingestible(m, c)
    PROVE  InModel(m, c)
BY DEF InModel, Ingestible, SecurityModel, Kinds

LEMMA LevelsAreNumbers ==
    ASSUME NEW m \in SecurityModel, NEW l \in DOMAIN m.levels
    PROVE  m.levels[l] \in Nat
BY DEF SecurityModel

\* The two filters differ for one model only, and there only in what they say about
\* labels that the model does not have.
LEMMA LoadedIsFound ==
    ASSUME NEW m \in SecurityModel, NEW r \in Request, NEW c \in Chunk, Loaded(m, r, c)
    PROVE  Found(m, r, c)
BY DEF Loaded, Found, GraphSecurity, SearchSecurity, SecurityModel, Kinds, Chunk, Request

LEMMA FoundInModelIsLoaded ==
    ASSUME NEW m \in SecurityModel, NEW r \in Request, NEW c \in Chunk,
           InModel(m, c), Found(m, r, c)
    PROVE  Loaded(m, r, c)
BY DEF Loaded, Found, GraphSecurity, SearchSecurity, InModel, SecurityModel, Kinds, Chunk, Request

\* The clause of the graph finds nothing that the boundary refuses, whatever model the
\* documents were ingested under.
THEOREM GraphIsWithinBoundary ==
    ASSUME NEW m \in SecurityModel, NEW r \in Request, NEW c \in Chunk,
           Admissible(m, r), Loaded(m, r, c)
    PROVE  Boundary(m, r, c) = "allowed"
<1>1. SamePlace(r, c) /\ (c.acl # {} => c.acl \cap r.acl # {}) /\ GraphSecurity(m, r, c)
  BY DEF Loaded
<1>2. CASE m.kind = "none"
  BY <1>1, <1>2 DEF Boundary, DocumentVisible
<1>3. CASE m.kind = "clearance_level"
  <2>1. r.clearance \in DOMAIN m.levels /\ c.clearance \in DOMAIN m.levels
    BY <1>1, <1>3 DEF Admissible, GraphSecurity, AllowedDocumentLabels
  <2>2. m.levels[c.clearance] <= m.levels[r.clearance]
    BY <1>1, <1>3 DEF GraphSecurity, AllowedDocumentLabels
  <2>3. m.levels[c.clearance] \in Nat /\ m.levels[r.clearance] \in Nat
    BY <2>1, LevelsAreNumbers
  <2>4. m.levels[r.clearance] >= m.levels[c.clearance]
    BY <2>2, <2>3
  <2>5. c.clearance # None /\ r.clearance # None
    BY <2>1, VisibilityAssumption DEF SecurityModel
  <2> QED
    BY <1>1, <1>3, <2>1, <2>4, <2>5 DEF Boundary, DocumentVisible
<1>4. CASE m.kind = "classification_labels"
  BY <1>1, <1>4 DEF Boundary, DocumentVisible, Admissible, GraphSecurity
<1> QED
  BY <1>2, <1>3, <1>4 DEF SecurityModel, Kinds

\* Neither filter is stricter than the boundary.
THEOREM BoundaryIsWithinGraph ==
    ASSUME NEW m \in SecurityModel, NEW r \in Request, NEW c \in Chunk,
           Boundary(m, r, c) = "allowed"
    PROVE  Loaded(m, r, c)
<1>1. SamePlace(r, c) /\ (c.acl = {} \/ c.acl \cap r.acl # {})
      /\ DocumentVisible(m, r, c) = "allowed"
  BY DEF Boundary
<1>2. GraphSecurity(m, r, c)
  <2>1. CASE m.kind = "clearance_level"
    <3>1. /\ r.clearance # None /\ c.clearance # None
          /\ r.clearance \in DOMAIN m.levels /\ c.clearance \in DOMAIN m.levels
          /\ m.levels[r.clearance] >= m.levels[c.clearance]
      BY <1>1, <2>1 DEF DocumentVisible
    <3>2. m.levels[c.clearance] \in Nat /\ m.levels[r.clearance] \in Nat
      BY <3>1, LevelsAreNumbers
    <3>3. m.levels[c.clearance] <= m.levels[r.clearance]
      BY <3>1, <3>2
    <3> QED
      BY <2>1, <3>1, <3>3 DEF GraphSecurity, AllowedDocumentLabels
  <2>2. CASE m.kind = "classification_labels"
    BY <1>1, <2>2 DEF DocumentVisible, GraphSecurity
  <2>3. CASE m.kind = "none"
    BY <2>3 DEF GraphSecurity
  <2> QED
    BY <2>1, <2>2, <2>3 DEF SecurityModel, Kinds
<1> QED
  BY <1>1, <1>2 DEF Loaded

\* "Boundaries are applied in retrieval and verified again", and "PostgreSQL graph
\* traversal applies the same authorization context": for documents whose labels are the
\* model's, what the search may find, what the graph may load and what the boundary lets
\* through are the same chunks, so that no request fails over what its own search found.
THEOREM DecisionsAgree ==
    ASSUME NEW m \in SecurityModel, NEW r \in Request, NEW c \in Chunk,
           Admissible(m, r), InModel(m, c)
    PROVE  /\ Found(m, r, c) <=> Loaded(m, r, c)
           /\ Loaded(m, r, c) <=> Boundary(m, r, c) = "allowed"
BY LoadedIsFound, FoundInModelIsLoaded, GraphIsWithinBoundary, BoundaryIsWithinGraph

\* The known difference: what the search finds and the boundary refuses carries a
\* classification label that the domain's model no longer has, and is refused as invalid.
THEOREM SearchDiffersOnUnknownLabels ==
    ASSUME NEW m \in SecurityModel, NEW r \in Request, NEW c \in Chunk,
           Admissible(m, r), Found(m, r, c), Boundary(m, r, c) # "allowed"
    PROVE  /\ m.kind = "classification_labels"
           /\ ~(c.labels \subseteq m.universe)
           /\ Boundary(m, r, c) = "invalid"
<1>1. ~InModel(m, c)
  BY DecisionsAgree
<1>2. m.kind # "clearance_level"
  <2> SUFFICES ASSUME m.kind = "clearance_level" PROVE FALSE
    OBVIOUS
  <2>1. c.clearance \in DOMAIN m.levels
    BY DEF Found, SearchSecurity, AllowedDocumentLabels
  <2> QED
    BY <1>1, <2>1 DEF InModel
<1>3. m.kind = "classification_labels" /\ ~(c.labels \subseteq m.universe)
  BY <1>1, <1>2 DEF InModel
<1> QED
  BY <1>3 DEF Boundary, DocumentVisible, Found

-----------------------------------------------------------------------------
(* Publication: a process that has moved the previous dataset away and not *)
(* yet begun to remove it holds the backup: while it does, the backup is   *)
(* not free, so that no other can move anything there, and once it removes *)
(* the backup its own dataset is in place, which nobody can have moved     *)
(* since.                                                                  *)

Holds(g) == moved[g] /\ phase[g] \in {"placing", "restoring", "clearing"}

MovedIsLate == \A g \in Generator :
    /\ moved[g] => phase[g] \in {"placing", "restoring", "clearing", "cleared"}
    /\ phase[g] \in {"restoring", "clearing", "cleared"} => moved[g]
HeldIsTaken == \A g \in Generator : Holds(g) => backup \notin {Absent, Empty}
OneHolds == \A g, h \in Generator : Holds(g) /\ Holds(h) => g = h
ClearedIsReplaced == \A g \in Generator :
    phase[g] = "clearing" => output = latest /\ latest \in Dataset

PublicationInv ==
    /\ PublicationTypeOK
    /\ MovedIsLate
    /\ ~wasEmpty =>
          output # Empty /\ HeldIsTaken /\ OneHolds /\ ClearedIsReplaced /\ LatestIsThere

-----------------------------------------------------------------------------

LEMMA PublicationStarts == PublicationInit => PublicationInv
  BY PublicationAssumption, Zenon DEF PublicationInit, PublicationInv, PublicationTypeOK, Phase,
     MovedIsLate, HeldIsTaken, OneHolds, Holds, ClearedIsReplaced, LatestIsThere

LEMMA PublicationStep ==
    ASSUME PublicationInv, NEW g \in Generator, Generate(g), wasEmpty' = wasEmpty
    PROVE  PublicationInv'
<1> USE PublicationAssumption
<1> USE DEF Go, Stop, InPlace, Free
<1>1. PublicationTypeOK'
  <2> USE DEF PublicationInv, PublicationTypeOK
  <2>1. /\ output' \in Dataset \cup {Absent, Empty, Foreign, Remains}
        /\ backup' \in Dataset \cup {Absent, Empty, Foreign, Remains}
        /\ latest' \in Dataset \cup {Absent, Empty, Foreign}
    BY DEF Generate, Prepare, Write, CheckBackup, CheckOutput, MoveOutput, PlaceStaging,
       FailToPlace, Restore, ClearBackup, BreakOffClearing, RemoveBackup, GiveUp
  <2>2. phase' \in [Generator -> Phase]
    BY DEF Phase, Generate, Prepare, Write, CheckBackup, CheckOutput, MoveOutput, PlaceStaging,
       FailToPlace, Restore, ClearBackup, BreakOffClearing, RemoveBackup, GiveUp
  <2>3. moved' \in [Generator -> BOOLEAN]
    BY DEF Generate, Prepare, Write, CheckBackup, CheckOutput, MoveOutput, PlaceStaging,
       FailToPlace, Restore, ClearBackup, BreakOffClearing, RemoveBackup, GiveUp
  <2> QED BY <2>1, <2>2, <2>3
<1>2. MovedIsLate'
  BY DEF PublicationInv, PublicationTypeOK, MovedIsLate, Generate, Prepare, Write, CheckBackup,
     CheckOutput, MoveOutput, PlaceStaging, FailToPlace, Restore, ClearBackup, BreakOffClearing,
     RemoveBackup, GiveUp
<1>3. SUFFICES ASSUME ~wasEmpty
      PROVE  (output # Empty /\ HeldIsTaken /\ OneHolds /\ ClearedIsReplaced /\ LatestIsThere)'
  BY <1>1, <1>2 DEF PublicationInv
<1> USE <1>3
<1>4. CASE Prepare(g) \/ Write(g) \/ CheckBackup(g) \/ CheckOutput(g) \/ FailToPlace(g) \/ GiveUp(g)
  \* No directory changes, and nobody else begins to hold the backup.
  <2>1. UNCHANGED <<output, backup, latest>>
    BY <1>4 DEF Prepare, Write, CheckBackup, CheckOutput, FailToPlace, GiveUp
  <2>2. \A h \in Generator : Holds(h)' => Holds(h)
    BY <1>4 DEF PublicationInv, PublicationTypeOK, MovedIsLate, Holds, Prepare, Write, CheckBackup,
       CheckOutput, FailToPlace, GiveUp
  <2>3. \A h \in Generator : phase'[h] = "clearing" => phase[h] = "clearing"
    BY <1>4 DEF PublicationInv, PublicationTypeOK, Prepare, Write, CheckBackup,
       CheckOutput, FailToPlace, GiveUp
  <2> QED BY <2>1, <2>2, <2>3 DEF PublicationInv, HeldIsTaken, OneHolds, ClearedIsReplaced,
             LatestIsThere
<1>5. CASE MoveOutput(g)
  <2>1. \A h \in Generator : ~Holds(h)
    BY <1>5 DEF MoveOutput, PublicationInv, HeldIsTaken
  <2>2. \A h \in Generator : Holds(h)' => h = g
    BY <1>5, <2>1 DEF MoveOutput, PublicationInv, PublicationTypeOK, Holds
  <2>3. \A h \in Generator : phase'[h] # "clearing"
    BY <1>5, <2>1 DEF MoveOutput, PublicationInv, PublicationTypeOK, MovedIsLate, Holds
  <2>4. output' # Empty /\ backup' \notin {Absent, Empty}
    BY <1>5 DEF MoveOutput, PublicationInv
  <2>5. LatestIsThere'
    BY <1>5 DEF MoveOutput, PublicationInv, LatestIsThere
  <2> QED BY <2>2, <2>3, <2>4, <2>5 DEF HeldIsTaken, OneHolds, ClearedIsReplaced
<1>6. CASE PlaceStaging(g)
  <2>1. \A h \in Generator : Holds(h)' => Holds(h)
    BY <1>6 DEF PlaceStaging, PublicationInv, PublicationTypeOK, MovedIsLate, Holds
  <2>2. output' = latest' /\ latest' \in Dataset /\ UNCHANGED backup
    BY <1>6 DEF PlaceStaging
  <2> QED BY <2>1, <2>2 DEF PublicationInv, HeldIsTaken, OneHolds, ClearedIsReplaced, LatestIsThere
<1>7. CASE Restore(g)
  <2>1. Holds(g)
    BY <1>7 DEF Restore, PublicationInv, MovedIsLate, Holds
  <2>2. \A h \in Generator : ~Holds(h)'
    BY <1>7, <2>1 DEF Restore, PublicationInv, PublicationTypeOK, OneHolds, Holds
  <2>3. \A h \in Generator : phase'[h] # "clearing"
    BY <1>1, <1>2, <2>2 DEF MovedIsLate, Holds
  <2>4. output' # Empty
    BY <1>7, <2>1 DEF Restore, PublicationInv, HeldIsTaken
  <2>5. LatestIsThere'
    BY <1>7 DEF Restore, PublicationInv, LatestIsThere
  <2> QED BY <2>2, <2>3, <2>4, <2>5 DEF HeldIsTaken, OneHolds, ClearedIsReplaced
<1>8. CASE ClearBackup(g) \/ BreakOffClearing(g)
  <2>1. Holds(g) /\ output = latest /\ latest \in Dataset
    BY <1>8 DEF ClearBackup, BreakOffClearing, PublicationInv, MovedIsLate, ClearedIsReplaced, Holds
  <2>2. \A h \in Generator : ~Holds(h)'
    BY <1>8, <2>1 DEF ClearBackup, BreakOffClearing, PublicationInv, PublicationTypeOK, OneHolds,
       Holds
  <2>3. \A h \in Generator : phase'[h] # "clearing"
    BY <1>1, <1>2, <2>2 DEF MovedIsLate, Holds
  <2>4. UNCHANGED <<output, latest>>
    BY <1>8 DEF ClearBackup, BreakOffClearing
  <2> QED BY <2>1, <2>2, <2>3, <2>4 DEF PublicationInv, HeldIsTaken, OneHolds, ClearedIsReplaced,
             LatestIsThere
<1>9. CASE RemoveBackup(g)
  <2>1. \A h \in Generator : ~Holds(h)
    BY <1>9 DEF RemoveBackup, PublicationInv, HeldIsTaken
  <2>2. \A h \in Generator : ~Holds(h)'
    BY <1>9, <2>1 DEF RemoveBackup, PublicationInv, PublicationTypeOK, Holds
  <2>3. \A h \in Generator : phase'[h] # "clearing"
    BY <1>1, <1>2, <2>2 DEF MovedIsLate, Holds
  <2>4. output' # Empty /\ LatestIsThere'
    BY <1>9 DEF RemoveBackup, PublicationInv, LatestIsThere
  <2> QED BY <2>2, <2>3, <2>4 DEF HeldIsTaken, OneHolds, ClearedIsReplaced
<1> QED BY <1>4, <1>5, <1>6, <1>7, <1>8, <1>9 DEF Generate

LEMMA PublicationStutters ==
    ASSUME PublicationInv, UNCHANGED filesVars
    PROVE  PublicationInv'
  BY DEF filesVars, PublicationInv, PublicationTypeOK, MovedIsLate, HeldIsTaken, OneHolds, Holds,
     ClearedIsReplaced, LatestIsThere

\* generate_dataset on its own: the directories and the processes keep their types.
THEOREM PublicationTypeCorrect == PublicationSpec => []PublicationTypeOK
<1>1. PublicationInv /\ [PublicationNext]_filesVars => PublicationInv'
  BY PublicationStep, PublicationStutters DEF PublicationNext
<1>2. PublicationInv => PublicationTypeOK
  BY DEF PublicationInv
<1> QED BY <1>1, <1>2, PublicationStarts, PTL DEF PublicationSpec

\* However many generators publish at once and wherever they fail or die, while datasets
\* are imported, asked about and analyzed, the one that was in place last is in place or
\* in the backup.
THEOREM LatestSurvives == Spec => []LatestIsThere
<1>1. Init => PublicationInv
  BY PublicationStarts DEF Init
<1>2. ASSUME PublicationInv, [Next]_vars PROVE PublicationInv'
  <2>1. CASE UNCHANGED filesVars
    BY <1>2, <2>1, PublicationStutters
  <2>2. CASE \E g \in Generator \cap team : Generate(g) /\ wasEmpty' = wasEmpty
    BY <1>2, <2>2, PublicationStep
  <2> QED BY <1>2, <2>1, <2>2 DEF Next, vars
<1>3. PublicationInv => LatestIsThere
  BY DEF PublicationInv, LatestIsThere
<1> QED BY <1>1, <1>2, <1>3, PTL DEF Spec

-----------------------------------------------------------------------------
(* Results: what the executor has written so far are answers to the first  *)
(* queries of the dataset it opened, and no answer calls one hit both a    *)
(* seed and an expanded one.                                               *)

LEMMA QueriesAre ==
    ASSUME NEW ds \in Dataset
    PROVE  /\ Len(QueriesOf[ds]) = config[ds].queries /\ config[ds].queries \in Nat
           /\ \A i \in 1..config[ds].queries : QueriesOf[ds][i] = QueryRecord(config[ds], i - 1)
<1> DEFINE n == config[ds].queries
           Q == QueriesOf[ds]
<1>1. n \in Nat
  BY EvaluationAssumption, ConfigNumbers DEF Valid, Config, Positive
<1>2. Q = [i \in 1..n |-> QueryRecord(config[ds], i - 1)]
  BY DEF QueriesOf
<1> HIDE DEF Q, n
<1>3. Q \in [1..n -> {Q[i] : i \in 1..n}] /\ DOMAIN Q = 1..n
  BY <1>2
<1>4. Q \in Seq({Q[i] : i \in 1..n})
  BY <1>1, <1>3
<1>5. Len(Q) = n
  BY <1>1, <1>3, <1>4, LenProperties
<1>6. \A i \in 1..n : Q[i] = QueryRecord(config[ds], i - 1)
  BY <1>2
<1> QED
  BY <1>1, <1>5, <1>6 DEF Q, n

\* A result file, or what is to become one.
Answered(r) ==
    /\ r = [queries |-> r.queries, answers |-> r.answers, early |-> r.early]
    /\ r.queries \in Dataset
    /\ \E S : r.answers \in Seq(S)
    /\ Len(r.answers) <= Len(QueriesOf[r.queries])
    /\ \A i \in 1..Len(r.answers) : r.answers[i].seeds \cap r.answers[i].graph = {}

ResultsInv ==
    /\ asking # None => Answered(asking)
    /\ results # None => Answered(results) /\ Len(results.answers) = Len(QueriesOf[results.queries])

LEMMA AnsweredNext ==
    ASSUME asking # None, Answered(asking), HasNext,
           NEW a, a.seeds \cap a.graph = {}
    PROVE  Answered(Asked(a))
<1> DEFINE r == Asked(a)
           s == asking.answers
<1>1. /\ r.queries = asking.queries /\ r.answers = Append(s, a)
      /\ r = [queries |-> r.queries, answers |-> r.answers, early |-> r.early]
  <2> DEFINE q == asking.queries
             early == asking.early
             late == asking.early \/ corpus = None \/ ~corpus.deleted
  <2>1. asking = [queries |-> q, answers |-> s, early |-> early]
    BY DEF Answered
  <2>2. r = [asking EXCEPT !.answers = Append(s, a), !.early = late]
    BY DEF Asked
  <2> HIDE DEF q, s, early, late, r
  <2>3. r = [queries |-> q, answers |-> Append(s, a), early |-> late]
    BY <2>1, <2>2
  <2>4. asking.queries = q
    BY DEF q
  <2> QED
    BY <2>3, <2>4
<1>2. PICK S : s \in Seq(S)
  BY DEF Answered
<1>3. s \in Seq(S \cup {a}) /\ a \in S \cup {a}
  BY <1>2
<1>4. /\ Append(s, a) \in Seq(S \cup {a}) /\ Len(Append(s, a)) = Len(s) + 1
      /\ Append(s, a)[Len(s) + 1] = a /\ \A i \in 1..Len(s) : Append(s, a)[i] = s[i]
      /\ Len(s) \in Nat
  BY <1>3, AppendProperties, LenProperties
<1>5. Len(QueriesOf[asking.queries]) \in Nat /\ Len(s) < Len(QueriesOf[asking.queries])
  BY QueriesAre DEF Answered, HasNext
<1>6. Len(s) + 1 <= Len(QueriesOf[asking.queries])
  BY <1>4, <1>5
<1>7. \A i \in 1..(Len(s) + 1) : Append(s, a)[i].seeds \cap Append(s, a)[i].graph = {}
  <2> SUFFICES ASSUME NEW i \in 1..(Len(s) + 1)
               PROVE  Append(s, a)[i].seeds \cap Append(s, a)[i].graph = {}
    OBVIOUS
  <2>1. CASE i = Len(s) + 1
    BY <1>4, <2>1
  <2>2. CASE i # Len(s) + 1
    <3>1. i \in 1..Len(s)
      BY <1>4, <2>2
    <3> QED
      BY <1>4, <3>1 DEF Answered
  <2> QED
    BY <2>1, <2>2
<1> QED
  <2> HIDE DEF r, s
  <2>1. r.queries \in Dataset
    BY <1>1 DEF Answered
  <2>2. \E T : r.answers \in Seq(T)
    BY <1>1, <1>4
  <2>3. Len(r.answers) <= Len(QueriesOf[r.queries])
    BY <1>1, <1>4, <1>6
  <2>4. \A i \in 1..Len(r.answers) : r.answers[i].seeds \cap r.answers[i].graph = {}
    BY <1>1, <1>4, <1>7
  <2>5. Answered(r)
    BY <1>1, <2>1, <2>2, <2>3, <2>4 DEF Answered
  <2> QED
    BY <2>5 DEF r

\* _diagnostics gives every hit one origin.
LEMMA OneOrigin == \A q, outcome : Answer(q, outcome).seeds \cap Answer(q, outcome).graph = {}
BY DEF Answer, Expanded

LEMMA ResultsStep ==
    ASSUME ResultsInv, [Next]_vars
    PROVE  ResultsInv'
<1>1. CASE UNCHANGED <<asking, results>>
  BY <1>1 DEF ResultsInv, Answered
<1>2. CASE OpenQueries
  <2>1. /\ asking' = [queries |-> output, answers |-> <<>>, early |-> FALSE] /\ output \in Dataset
        /\ UNCHANGED results
    BY <1>2 DEF OpenQueries
  <2>2. Len(QueriesOf[output]) \in Nat
    BY <2>1, QueriesAre
  <2>3. Answered(asking')
    <3>1. asking'.queries = output /\ asking'.answers = <<>>
      BY <2>1
    <3>2. asking' = [queries |-> asking'.queries, answers |-> asking'.answers, early |-> asking'.early]
      BY <2>1
    <3>3. <<>> \in Seq({}) /\ Len(<<>>) = 0
      OBVIOUS
    <3> QED
      BY <2>1, <2>2, <3>1, <3>2, <3>3 DEF Answered
  <2> QED
    BY <2>1, <2>3 DEF ResultsInv, Answered
<1>3. CASE Ask
  <2>1. PICK outcome \in Outcomes(NextQuery) : asking' = Asked(Answer(NextQuery, outcome))
    BY <1>3 DEF Ask
  <2>2. HasNext /\ asking # None /\ UNCHANGED results
    BY <1>3 DEF Ask, HasNext
  <2>3. Answered(asking')
    BY <2>1, <2>2, OneOrigin, AnsweredNext DEF ResultsInv
  <2> QED
    BY <2>2, <2>3 DEF ResultsInv, Answered
<1>4. CASE StoreResults
  <2>1. asking # None /\ ~ HasNext /\ results' = asking /\ asking' = None
    BY <1>4 DEF StoreResults
  <2>2. Answered(asking)
    BY <2>1 DEF ResultsInv
  <2>3. Len(asking.answers) \in Nat /\ Len(QueriesOf[asking.queries]) \in Nat
    BY <2>2, QueriesAre, LenProperties DEF Answered
  <2>4. Len(asking.answers) = Len(QueriesOf[asking.queries])
    BY <2>1, <2>2, <2>3 DEF HasNext, Answered
  <2> QED
    BY <2>1, <2>2, <2>4 DEF ResultsInv, Answered
<1>5. CASE BreakOffRun
  BY <1>5 DEF BreakOffRun, ResultsInv, Answered
<1>6. [Next]_vars => \/ UNCHANGED <<asking, results>>
                     \/ OpenQueries \/ Ask \/ StoreResults \/ BreakOffRun
  BY DEF Next, Evaluate, vars, evaluationVars, ImportSources, ImportDeletions, ReadQueries,
         ReadResults, BeginReports, PublishReport, EndAnalysis
<1> QED
  BY <1>1, <1>2, <1>3, <1>4, <1>5, <1>6

LEMMA ResultsAlways == Spec => []ResultsInv
<1>1. Init => ResultsInv
  BY DEF Init, ResultsInv
<1> QED
  BY <1>1, ResultsStep, PTL DEF Spec

\* A results file holds one result for each query of one dataset, whoever publishes,
\* imports or breaks off meanwhile and however the queries end.
THEOREM ResultsAlwaysWhole == Spec => []ResultsAreWhole
<1>1. ResultsInv => ResultsAreWhole
  BY DEF ResultsInv, ResultsAreWhole
<1> QED
  BY <1>1, ResultsAlways, PTL

-----------------------------------------------------------------------------
(* Recalls: seeds that search finds again are missing among the expanded.  *)

LEMMA OneMore ==
    ASSUME NEW S, IsFiniteSet(S), NEW x
    PROVE  /\ IsFiniteSet(S \cup {x}) /\ Cardinality(S \cup {x}) \in Nat
           /\ Cardinality(S \cup {x}) <= Cardinality(S) + 1
           /\ x \notin S => Cardinality(S \cup {x}) = Cardinality(S) + 1
<1>1. Cardinality(S) \in Nat
  BY FS_CardinalityType
<1> QED
  BY <1>1, FS_AddElement

LEMMA Pair ==
    ASSUME NEW x, NEW y
    PROVE  /\ IsFiniteSet({x, y}) /\ Cardinality({x, y}) \in Nat /\ Cardinality({x, y}) <= 2
           /\ x # y => Cardinality({x, y}) = 2
<1>1. IsFiniteSet({x}) /\ Cardinality({x}) = 1
  BY FS_Singleton
<1>2. {x, y} = {x} \cup {y}
  OBVIOUS
<1>3. /\ IsFiniteSet({x} \cup {y}) /\ Cardinality({x} \cup {y}) \in Nat
      /\ Cardinality({x} \cup {y}) <= Cardinality({x}) + 1
      /\ y \notin {x} => Cardinality({x} \cup {y}) = Cardinality({x}) + 1
  BY <1>1, OneMore
<1> QED
  BY <1>1, <1>2, <1>3

\* Of four nodes, two are the seeds.
LEMMA RecallsOfFour ==
    ASSUME NEW a, NEW b, NEW c, NEW d, Cardinality({a, b, c, d}) = 4,
           NEW found, NEW expanded, found \cap expanded = {}
    PROVE  Recall({b, c}, found) + 2 * Recall({a, b, c, d}, expanded) <= 200
<1> DEFINE S == {b, c}
           G == {a, b, c, d}
           X == S \cap found
           Y == G \cap expanded
<1>1. IsFiniteSet(G) /\ IsFiniteSet(S)
  <2>1. IsFiniteSet({b, c}) /\ IsFiniteSet({b, c} \cup {a})
    BY Pair, OneMore
  <2>2. IsFiniteSet(({b, c} \cup {a}) \cup {d})
    BY <2>1, OneMore
  <2>3. G = ({b, c} \cup {a}) \cup {d}
    OBVIOUS
  <2> QED
    BY <2>1, <2>2, <2>3
<1>2. b # c
  <2> SUFFICES ASSUME b = c PROVE FALSE
    OBVIOUS
  <2>1. IsFiniteSet({a, c}) /\ Cardinality({a, c}) <= 2 /\ Cardinality({a, c}) \in Nat
    BY Pair
  <2>2. Cardinality({a, c} \cup {d}) <= 3
    <3>1. /\ Cardinality({a, c} \cup {d}) <= Cardinality({a, c}) + 1
          /\ Cardinality({a, c} \cup {d}) \in Nat
      BY <2>1, OneMore
    <3> QED
      BY <2>1, <3>1
  <2>3. {a, b, c, d} = {a, c} \cup {d}
    OBVIOUS
  <2> QED
    BY <2>2, <2>3
<1>3. Cardinality(S) = 2
  BY <1>2, Pair
<1>4. IsFiniteSet(X) /\ IsFiniteSet(Y) /\ X \cap Y = {} /\ X \cup Y \in SUBSET G
  BY <1>1, FS_Subset
<1> DEFINE x == Cardinality(X)
           y == Cardinality(Y)
<1>5. x \in Nat /\ y \in Nat /\ x + y <= 4
  <2>1. Cardinality(X \cup Y) = x + y - Cardinality(X \cap Y)
    BY <1>4, FS_Union
  <2>2. Cardinality(X \cap Y) = 0
    BY <1>4, FS_EmptySet
  <2>3. Cardinality(X \cup Y) <= 4
    BY <1>1, <1>4, FS_Subset
  <2>4. x \in Nat /\ y \in Nat
    BY <1>4, FS_CardinalityType
  <2> HIDE DEF x, y, X, Y
  <2> QED
    BY <2>1, <2>2, <2>3, <2>4
<1>6. Recall(S, found) = (100 * x) \div 2 /\ Recall(G, expanded) = (100 * y) \div 4
  BY <1>3 DEF Recall
<1> HIDE DEF x, y, X, Y
<1>7. (100 * x) \div 2 = 50 * x /\ (100 * y) \div 4 = 25 * y
  BY <1>5
<1> QED
  BY <1>5, <1>6, <1>7

LEMMA ExpectedAreFour ==
    ASSUME NEW dd, NEW v
    PROVE  Cardinality({ChunkId(dd, t, 1, v) : t \in ExpectedTypes}) = 4
<1> DEFINE A == ChunkId(dd, "controller", 1, v)
           B == ChunkId(dd, "service", 1, v)
           C == ChunkId(dd, "repository", 1, v)
           D == ChunkId(dd, "table", 1, v)
<1>1. A # B /\ A # C /\ A # D /\ B # C /\ B # D /\ C # D
  BY DEF ChunkId
<1>2. {ChunkId(dd, t, 1, v) : t \in ExpectedTypes} = ((({} \cup {A}) \cup {B}) \cup {C}) \cup {D}
  BY DEF ExpectedTypes
<1> HIDE DEF A, B, C, D
<1> DEFINE S1 == {} \cup {A}
           S2 == S1 \cup {B}
           S3 == S2 \cup {C}
<1>3. IsFiniteSet({}) /\ Cardinality({}) = 0
  BY FS_EmptySet
<1>4. B \notin S1 /\ C \notin S2 /\ D \notin S3
  BY <1>1
<1>5. IsFiniteSet(S1) /\ Cardinality(S1) = 1
  BY <1>3, OneMore
<1> HIDE DEF S1
<1>6. IsFiniteSet(S2) /\ Cardinality(S2) = 2
  BY <1>4, <1>5, OneMore
<1> HIDE DEF S2
<1>7. IsFiniteSet(S3) /\ Cardinality(S3) = 3
  BY <1>4, <1>6, OneMore
<1> HIDE DEF S3
<1>8. Cardinality(S3 \cup {D}) = 4
  BY <1>4, <1>7, OneMore
<1> QED
  BY <1>2, <1>8 DEF S1, S2, S3

LEMMA QueryRecalls ==
    ASSUME NEW cfg, NEW i, NEW found, NEW expanded, found \cap expanded = {},
           QueryRecord(cfg, i).seeds # {}
    PROVE  Recall(QueryRecord(cfg, i).seeds, found) + 2 * Recall(QueryRecord(cfg, i).graph, expanded)
              <= 200
<1> DEFINE d == i % cfg.domains
           v == ExpectedVersion(cfg, i)
           Id(t) == ChunkId(d, t, 1, v)
<1>1. /\ QueryRecord(cfg, i).seeds = {Id(t) : t \in {"service", "repository"}}
      /\ QueryRecord(cfg, i).graph = {Id(t) : t \in ExpectedTypes}
  BY DEF QueryRecord
<1>2. Cardinality({Id(t) : t \in ExpectedTypes}) = 4
  BY ExpectedAreFour
<1> HIDE DEF Id
<1>3. /\ {Id(t) : t \in {"service", "repository"}} = {Id("service"), Id("repository")}
      /\ {Id(t) : t \in ExpectedTypes} =
            {Id("controller"), Id("service"), Id("repository"), Id("table")}
  BY DEF ExpectedTypes
<1>4. /\ Cardinality({Id("controller"), Id("service"), Id("repository"), Id("table")}) = 4
      /\ QueryRecord(cfg, i).seeds = {Id("service"), Id("repository")}
      /\ QueryRecord(cfg, i).graph =
            {Id("controller"), Id("service"), Id("repository"), Id("table")}
  BY <1>1, <1>2, <1>3
<1>5. Recall({Id("service"), Id("repository")}, found)
      + 2 * Recall({Id("controller"), Id("service"), Id("repository"), Id("table")}, expanded) <= 200
  BY <1>4, RecallsOfFour
<1> QED
  BY <1>4, <1>5

\* Whatever search finds and expansion adds, no query that expects something meets both
\* recalls, for every configuration.
THEOREM RecallsAlwaysCompete == Spec => []RecallsCompete
<1>1. ResultsInv => RecallsCompete
  <2> SUFFICES ASSUME ResultsInv, results # None, NEW i \in DOMAIN results.answers,
                      QueriesOf[results.queries][i].seeds # {}
               PROVE  Recall(QueriesOf[results.queries][i].seeds, results.answers[i].seeds)
                      + 2 * Recall(QueriesOf[results.queries][i].graph, results.answers[i].graph)
                      <= 200
    BY DEF RecallsCompete
  <2>1. Answered(results) /\ Len(results.answers) = Len(QueriesOf[results.queries])
    BY DEF ResultsInv
  <2>2. i \in 1..Len(results.answers)
    <3>1. PICK S : results.answers \in Seq(S)
      BY <2>1 DEF Answered
    <3> QED
      BY <3>1, LenProperties
  <2>3. results.answers[i].seeds \cap results.answers[i].graph = {}
    BY <2>1, <2>2 DEF Answered
  <2>4. QueriesOf[results.queries][i] = QueryRecord(config[results.queries], i - 1)
    BY <2>1, <2>2, QueriesAre DEF Answered
  <2> QED
    BY <2>3, <2>4, QueryRecalls
<1> QED
  BY <1>1, ResultsAlways, PTL

-----------------------------------------------------------------------------
(* Files: of what the generator writes for a configuration that is valid,  *)
(* the reader accepts and keeps all that concerns a domain.  So the import *)
(* gets through with every dataset, the deletions take what the queries    *)
(* forbid, and what they expect is there for those who ask.                *)

(* Nodes: the slots one after the other *)

DomainAt(cfg, k) == (k - 1) \div cfg.versions
VersionAt(cfg, k) == ((k - 1) % cfg.versions) + 1
SlotSize(cfg, k) == NodesInSlot(cfg, DomainAt(cfg, k), VersionAt(cfg, k))
AddressAt(cfg, k, j) == Address(DomainAt(cfg, k), VersionAt(cfg, k), j - 1)
SlotNodes(cfg) == [k \in 1..(cfg.domains * cfg.versions) |->
                      [j \in 1..SlotSize(cfg, k) |-> NodeRecord(cfg, AddressAt(cfg, k, j))]]

\* Domain and version of a slot: each pair has one.
LEMMA SlotPlaces ==
    ASSUME NEW cfg, Valid(cfg)
    PROVE  /\ cfg.domains * cfg.versions \in Nat
           /\ \A k \in 1..(cfg.domains * cfg.versions) :
                 /\ DomainAt(cfg, k) \in Domains(cfg) /\ VersionAt(cfg, k) \in Versions(cfg)
                 /\ k = DomainAt(cfg, k) * cfg.versions + VersionAt(cfg, k)
                 /\ SlotSize(cfg, k) \in Nat
           /\ \A d \in Domains(cfg), v \in Versions(cfg) :
                 \E k \in 1..(cfg.domains * cfg.versions) :
                    DomainAt(cfg, k) = d /\ VersionAt(cfg, k) = v
<1> DEFINE m == cfg.versions
           n == cfg.domains
<1>1. m \in Nat \ {0} /\ n \in Nat \ {0} /\ n * m \in Nat
  BY ConfigNumbers DEF Valid
<1>2. ASSUME NEW k \in 1..(n * m)
      PROVE  /\ DomainAt(cfg, k) \in Domains(cfg) /\ VersionAt(cfg, k) \in Versions(cfg)
             /\ k = DomainAt(cfg, k) * m + VersionAt(cfg, k)
  <2> DEFINE q == (k - 1) \div m
             r == (k - 1) % m
  <2>1. k - 1 \in Nat /\ k - 1 < n * m
    BY <1>1
  <2>2. q \in Nat /\ r \in Nat /\ r < m /\ k - 1 = m * q + r
    BY <1>1, <2>1, DivMod
  <2> HIDE DEF q, r, m, n
  <2>3. q < n
    <3> SUFFICES ASSUME q >= n PROVE FALSE
      BY <1>1, <2>2
    <3>1. m * q >= n * m
      BY <1>1, <2>2, Z3
    <3>2. m * q \in Nat
      BY <1>1, <2>2
    <3> QED
      BY <1>1, <2>1, <2>2, <3>1, <3>2
  <2>4. q \in 0..(n - 1) /\ r + 1 \in 1..m
    BY <1>1, <2>2, <2>3
  <2>5. k = q * m + (r + 1)
    BY <1>1, <2>2, Z3
  <2> QED
    BY <2>4, <2>5 DEF DomainAt, VersionAt, Domains, Versions, q, r, m, n
<1>3. \A k \in 1..(n * m) : SlotSize(cfg, k) \in Nat
  BY <1>2, SlotsAreComplete DEF SlotSize
<1>4. ASSUME NEW d \in Domains(cfg), NEW v \in Versions(cfg)
      PROVE  \E k \in 1..(n * m) : DomainAt(cfg, k) = d /\ VersionAt(cfg, k) = v
  <2>1. d \in Nat /\ d < n /\ v \in Nat /\ v >= 1 /\ v <= m
    BY <1>1 DEF Domains, Versions
  <2> DEFINE k == d * m + v
  <2> HIDE DEF m, n
  <2>2. d * m \in Nat /\ (d + 1) * m <= n * m /\ (d + 1) * m = d * m + m
    <3>1. d * m \in Nat /\ (d + 1) * m = d * m + m
      BY <1>1, <2>1
    <3>2. d + 1 <= n
      BY <1>1, <2>1
    <3> QED
      BY <1>1, <2>1, <3>1, <3>2, Z3
  <2>3. k \in 1..(n * m)
    BY <1>1, <2>1, <2>2
  <2>4. k - 1 \in Nat /\ k - 1 = m * d + (v - 1) /\ v - 1 \in Nat /\ v - 1 < m
    BY <1>1, <2>1, <2>2
  <2>5. (k - 1) \div m = d /\ (k - 1) % m = v - 1
    <3> HIDE DEF k
    <3> DEFINE r == v - 1
               p == k - 1
    <3>1. p \in Nat /\ r \in Nat /\ r < m /\ p = m * d + r
      BY <2>4
    <3> HIDE DEF p, r
    <3>2. p \div m = d /\ p % m = r
      BY <1>1, <2>1, <3>1, DivUnique
    <3> QED
      BY <3>2 DEF p, r
  <2>6. DomainAt(cfg, k) = d /\ VersionAt(cfg, k) = v
    BY <2>1, <2>5 DEF DomainAt, VersionAt, m
  <2> QED
    BY <2>3, <2>6
<1> QED
  BY <1>1, <1>2, <1>3, <1>4

\* Two nodes of a slot are of different types or instances.
LEMMA AddressOnce ==
    ASSUME NEW d, NEW v, NEW i \in Nat, NEW j \in Nat,
           Address(d, v, i).type = Address(d, v, j).type,
           Address(d, v, i).instance = Address(d, v, j).instance
    PROVE  i = j
<1>1. NodeTypes[(i % 10) + 1] = NodeTypes[(j % 10) + 1] /\ i \div 10 + 1 = j \div 10 + 1
  BY DEF Address, TypeCount
<1>2. (i % 10) + 1 \in 1..10 /\ (j % 10) + 1 \in 1..10
  OBVIOUS
<1>3. (i % 10) + 1 = (j % 10) + 1
  BY <1>1, <1>2, TypesOnce DEF TypeCount
<1> QED
  BY <1>1, <1>3

\* The node file has the records of all addresses, and no chunk twice.
LEMMA NodesFileIs ==
    ASSUME NEW cfg, Valid(cfg)
    PROVE  /\ \E S : NodesFile(cfg) \in Seq(S)
           /\ \A i \in 1..Len(NodesFile(cfg)) :
                 \E a \in Addresses(cfg) : NodesFile(cfg)[i] = NodeRecord(cfg, a)
           /\ \A a \in Addresses(cfg) :
                 \E i \in 1..Len(NodesFile(cfg)) : NodesFile(cfg)[i] = NodeRecord(cfg, a)
           /\ \A i, j \in 1..Len(NodesFile(cfg)) :
                 NodesFile(cfg)[i].chunk = NodesFile(cfg)[j].chunk => i = j
<1> DEFINE n == cfg.domains * cfg.versions
           parts == SlotNodes(cfg)
           N == NodesFile(cfg)
           Element == UNION {{parts[k][j] : j \in 1..SlotSize(cfg, k)} : k \in 1..n}
<1>1. N = Joined(parts)
  BY DEF NodesFile, SlotNodes, SlotSize, AddressAt, DomainAt, VersionAt
<1>2. n \in Nat /\ \A k \in 1..n : SlotSize(cfg, k) \in Nat
  BY SlotPlaces
<1>3. \A k \in 1..n : parts[k] = [j \in 1..SlotSize(cfg, k) |-> NodeRecord(cfg, AddressAt(cfg, k, j))]
  BY DEF SlotNodes
<1>4. DOMAIN parts = 1..n /\ parts = [k \in 1..n |-> parts[k]]
  BY DEF SlotNodes
<1> HIDE DEF parts
<1>5. \A k \in 1..n : parts[k] \in [1..SlotSize(cfg, k) -> Element]
  <2> SUFFICES ASSUME NEW k \in 1..n PROVE parts[k] \in [1..SlotSize(cfg, k) -> Element]
    OBVIOUS
  <2>1. DOMAIN parts[k] = 1..SlotSize(cfg, k)
        /\ parts[k] = [j \in 1..SlotSize(cfg, k) |-> parts[k][j]]
    BY <1>3
  <2> QED
    BY <2>1
<1> HIDE DEF n, Element, N
<1>6. parts \in Seq(Seq(Element)) /\ Len(parts) = n
  BY <1>2, <1>4, <1>5, SequencesOf
<1>7. /\ N \in Seq(Element)
      /\ \A k \in 1..n : \A j \in 1..Len(parts[k]) : Contains(N, parts[k][j])
  BY <1>1, <1>6, JoinedElements
<1>8. \A k \in 1..n : /\ Len(parts[k]) = SlotSize(cfg, k)
                      /\ \A j \in 1..SlotSize(cfg, k) :
                            parts[k][j] = NodeRecord(cfg, AddressAt(cfg, k, j))
  <2> SUFFICES ASSUME NEW k \in 1..n
               PROVE  /\ Len(parts[k]) = SlotSize(cfg, k)
                      /\ \A j \in 1..SlotSize(cfg, k) :
                            parts[k][j] = NodeRecord(cfg, AddressAt(cfg, k, j))
    OBVIOUS
  <2>1. \A j \in 1..SlotSize(cfg, k) : parts[k][j] = NodeRecord(cfg, AddressAt(cfg, k, j))
    BY <1>3
  <2> DEFINE p == parts[k]
             size == SlotSize(cfg, k)
  <2>2. p \in [1..size -> Element] /\ size \in Nat
    BY <1>2, <1>5
  <2> HIDE DEF p, size
  <2>3. p \in Seq(Element) /\ DOMAIN p = 1..size
    BY <2>2
  <2>4. Len(p) = size
    BY <2>2, <2>3, LenProperties
  <2> QED
    BY <2>1, <2>4 DEF p, size
<1>9. PICK part, place : Located(parts, n, N, part, place)
  BY <1>1, <1>6, JoinedPlaces
<1>10. \A i \in 1..Len(N) : /\ part[i] \in 1..n /\ place[i] \in 1..SlotSize(cfg, part[i])
                            /\ N[i] = NodeRecord(cfg, AddressAt(cfg, part[i], place[i]))
  BY <1>8, <1>9 DEF Located
<1>11. \A k \in 1..n : \A j \in 1..SlotSize(cfg, k) : AddressAt(cfg, k, j) \in Addresses(cfg)
  <2> SUFFICES ASSUME NEW k \in 1..n, NEW j \in 1..SlotSize(cfg, k)
               PROVE  AddressAt(cfg, k, j) \in Addresses(cfg)
    OBVIOUS
  <2>1. DomainAt(cfg, k) \in Domains(cfg) /\ VersionAt(cfg, k) \in Versions(cfg)
    BY SlotPlaces DEF n
  <2>2. j - 1 \in 0..(SlotSize(cfg, k) - 1)
    BY <1>2
  <2>3. AddressAt(cfg, k, j) \in Slot(cfg, DomainAt(cfg, k), VersionAt(cfg, k))
    BY <2>2 DEF AddressAt, Slot, SlotSize
  <2> QED
    BY <2>1, <2>3 DEF Addresses
<1>12. \A i \in 1..Len(N) : \E a \in Addresses(cfg) : N[i] = NodeRecord(cfg, a)
  BY <1>10, <1>11
<1>13. ASSUME NEW a \in Addresses(cfg)
       PROVE  \E i \in 1..Len(N) : N[i] = NodeRecord(cfg, a)
  <2>1. PICK d \in Domains(cfg), v \in Versions(cfg) : a \in Slot(cfg, d, v)
    BY DEF Addresses
  <2>2. PICK k \in 1..n : DomainAt(cfg, k) = d /\ VersionAt(cfg, k) = v
    BY SlotPlaces DEF n
  <2>3. PICK l \in 0..(SlotSize(cfg, k) - 1) : a = Address(d, v, l)
    BY <2>1, <2>2 DEF Slot, SlotSize
  <2>4. l + 1 \in 1..SlotSize(cfg, k) /\ (l + 1) - 1 = l
    BY <1>2
  <2>5. a = AddressAt(cfg, k, l + 1)
    BY <2>2, <2>3, <2>4 DEF AddressAt
  <2>6. Contains(N, NodeRecord(cfg, a))
    BY <1>7, <1>8, <2>4, <2>5
  <2> QED
    BY <2>6 DEF Contains
<1>14. ASSUME NEW i \in 1..Len(N), NEW j \in 1..Len(N), N[i].chunk = N[j].chunk
       PROVE  i = j
  <2> DEFINE k == part[i]
             l == part[j]
             x == place[i]
             y == place[j]
             a == AddressAt(cfg, k, x)
             b == AddressAt(cfg, l, y)
  <2>1. /\ k \in 1..n /\ l \in 1..n /\ x \in 1..SlotSize(cfg, k) /\ y \in 1..SlotSize(cfg, l)
        /\ N[i] = NodeRecord(cfg, a) /\ N[j] = NodeRecord(cfg, b)
    BY <1>10
  <2> HIDE DEF k, l, x, y
  <2>2. ChunkOf(a) = ChunkOf(b)
    <3> HIDE DEF a, b
    <3> QED
      BY <1>14, <2>1 DEF NodeRecord
  <2>3. a.domain = b.domain /\ a.type = b.type /\ a.instance = b.instance /\ a.version = b.version
    <3> HIDE DEF a, b
    <3> QED
      BY <2>2 DEF ChunkOf, ChunkId
  <2>4. DomainAt(cfg, k) = DomainAt(cfg, l) /\ VersionAt(cfg, k) = VersionAt(cfg, l)
    BY <2>3 DEF AddressAt, Address
  <2>5. k = l
    BY <2>1, <2>4, SlotPlaces DEF n
  <2>6. x = y
    <3>1. x - 1 \in Nat /\ y - 1 \in Nat /\ x \in Int /\ y \in Int
      BY <1>2, <2>1
    <3>2. x - 1 = y - 1
      <4> DEFINE p == x - 1
                 q == y - 1
      <4>1. /\ a = Address(DomainAt(cfg, k), VersionAt(cfg, k), p)
            /\ b = Address(DomainAt(cfg, k), VersionAt(cfg, k), q)
        BY <2>5 DEF AddressAt
      <4>2. p \in Nat /\ q \in Nat
        BY <3>1
      <4> HIDE DEF p, q, a, b
      <4>3. p = q
        BY <2>3, <4>1, <4>2, AddressOnce
      <4> QED
        BY <4>3 DEF p, q
    <3> QED
      BY <3>1, <3>2
  <2>7. Len(N) \in Nat /\ i \in Int /\ j \in Int
    BY <1>7, LenProperties
  <2>8. \A e, f \in 1..Len(N) : e < f => part[e] < part[f] \/ place[e] < place[f] \/ part[e] # part[f]
    BY <1>9 DEF Located
  <2>9. k \in Int /\ x \in Int
    BY <1>2, <2>1
  <2> QED
    BY <1>9, <2>5, <2>6, <2>7, <2>9 DEF Located, k, l, x, y
<1> QED
  BY <1>7, <1>12, <1>13, <1>14 DEF N

(* Operations: but for the deletion, the last one on each source selects  *)
(* the last version.                                                       *)

Selecting(op, s) == op.operation # "delete_source" /\ op.source = s

\* Apart from the deletion of its configuration, a domain only adds and replaces versions that it
\* has, and ends with the last one.
LEMMA OperationsAre ==
    ASSUME NEW cfg, Valid(cfg), NEW d
    PROVE  /\ DOMAIN OperationsOf(cfg, d) = 1..Len(OperationsOf(cfg, d))
           /\ Len(OperationsOf(cfg, d)) \in Nat
           /\ \A i \in 1..Len(OperationsOf(cfg, d)) :
                 LET op == OperationsOf(cfg, d)[i] IN
                 /\ op.operation = "delete_source" => op.source = SourceId(d, "config")
                 /\ op.operation # "delete_source" => \E type \in NodeType, v \in Versions(cfg) :
                       op.source = SourceId(d, type) /\ op.version = v
           /\ \A type \in NodeType : \E j \in 1..Len(OperationsOf(cfg, d)) :
                 /\ Selecting(OperationsOf(cfg, d)[j], SourceId(d, type))
                 /\ OperationsOf(cfg, d)[j].version = cfg.versions
                 /\ \A i \in 1..Len(OperationsOf(cfg, d)) :
                       Selecting(OperationsOf(cfg, d)[i], SourceId(d, type)) => i <= j
           /\ \E i \in 1..Len(OperationsOf(cfg, d)) :
                 /\ OperationsOf(cfg, d)[i].operation = "delete_source"
                 /\ OperationsOf(cfg, d)[i].source = SourceId(d, "config")
<1> DEFINE m == cfg.versions
           n == TypeCount
           Ops == OperationsOf(cfg, d)
           parts == [i \in 1..n |-> SourceOperations(cfg, d, NodeTypes[i])]
           J == Joined(parts)
           last == OperationRecord(cfg, "delete_source", d, "config", m)
           Element == UNION {{parts[i][v] : v \in 1..m} : i \in 1..n}
           Of(op, i, v) == /\ op.operation # "delete_source" /\ op.version = v
                           /\ op.source = SourceId(d, NodeTypes[i])
<1>1. m \in Nat \ {0} /\ n \in Nat \ {0}
  BY ConfigNumbers DEF Valid, TypeCount
<1>2. \A i \in 1..n : /\ parts[i] = [v \in 1..m |-> parts[i][v]]
                      /\ \A v \in 1..m : Of(parts[i][v], i, v)
  <2> SUFFICES ASSUME NEW i \in 1..n
               PROVE  /\ parts[i] = [v \in 1..m |-> parts[i][v]]
                      /\ \A v \in 1..m : Of(parts[i][v], i, v)
    OBVIOUS
  <2>1. parts[i] = SourceOperations(cfg, d, NodeTypes[i])
    OBVIOUS
  <2> HIDE DEF parts
  <2> QED
    BY <2>1 DEF SourceOperations, OperationRecord, Versions
<1>3. DOMAIN parts = 1..n /\ parts = [i \in 1..n |-> parts[i]]
  OBVIOUS
<1>4. Ops = Append(J, last)
  BY DEF OperationsOf
<1>5. last.operation = "delete_source" /\ last.source = SourceId(d, "config")
  BY DEF OperationRecord
<1> HIDE DEF parts, last, Ops, n, m, Of
<1>6. \A i \in 1..n : parts[i] \in [1..m -> Element]
  <2> SUFFICES ASSUME NEW i \in 1..n PROVE parts[i] \in [1..m -> Element]
    OBVIOUS
  <2>1. parts[i] = [v \in 1..m |-> parts[i][v]]
    BY <1>2
  <2> QED
    BY <2>1
<1> HIDE DEF Element, J
<1>7. parts \in Seq(Seq(Element)) /\ Len(parts) = n
  BY <1>1, <1>3, <1>6, SequencesOf
<1>8. \A i \in 1..n : Len(parts[i]) = m
  <2> SUFFICES ASSUME NEW i \in 1..n PROVE Len(parts[i]) = m
    OBVIOUS
  <2> DEFINE p == parts[i]
  <2>1. p \in [1..m -> Element]
    BY <1>6
  <2> HIDE DEF p
  <2>2. p \in Seq(Element) /\ DOMAIN p = 1..m
    BY <1>1, <2>1
  <2>3. Len(p) = m
    BY <1>1, <2>2, LenProperties
  <2> QED
    BY <2>3 DEF p
<1>9. /\ J \in Seq(Element) /\ Len(J) \in Nat
      /\ \A i \in 1..n : \A v \in 1..m : Contains(J, parts[i][v])
  BY <1>7, <1>8, JoinedElements, LenProperties DEF J
<1>10. PICK part, place : Located(parts, n, J, part, place)
  BY <1>7, JoinedPlaces DEF J
<1>11. \A i \in 1..Len(J) : /\ part[i] \in 1..n /\ place[i] \in 1..m
                            /\ Of(J[i], part[i], place[i])
  BY <1>2, <1>8, <1>10 DEF Located
<1>12. /\ Len(Ops) = Len(J) + 1 /\ DOMAIN Ops = 1..Len(Ops) /\ Ops[Len(J) + 1] = last
       /\ \A i \in 1..Len(J) : Ops[i] = J[i]
  <2>1. J \in Seq(Element \cup {last}) /\ last \in Element \cup {last}
    BY <1>9
  <2> QED
    BY <1>4, <2>1, AppendProperties, LenProperties
<1>13. \A i \in 1..Len(Ops) : i \in 1..Len(J) \/ (i = Len(J) + 1 /\ Ops[i] = last)
  BY <1>9, <1>12
<1>14. \A i \in 1..n : NodeTypes[i] \in NodeType
  BY DEF NodeType, n
<1>15. ASSUME NEW i \in 1..Len(Ops)
       PROVE  /\ Ops[i].operation = "delete_source" => Ops[i].source = SourceId(d, "config")
              /\ Ops[i].operation # "delete_source" => \E type \in NodeType, v \in Versions(cfg) :
                    Ops[i].source = SourceId(d, type) /\ Ops[i].version = v
  <2>1. CASE i \in 1..Len(J)
    <3>1. Ops[i] = J[i] /\ Of(J[i], part[i], place[i]) /\ NodeTypes[part[i]] \in NodeType
          /\ place[i] \in Versions(cfg)
      BY <1>11, <1>12, <1>14, <2>1 DEF Versions, m
    <3> QED
      BY <3>1 DEF Of
  <2>2. CASE Ops[i] = last
    BY <1>5, <2>2
  <2> QED
    BY <1>13, <2>1, <2>2
<1>16. ASSUME NEW type \in NodeType
       PROVE  \E j \in 1..Len(Ops) :
                 /\ Selecting(Ops[j], SourceId(d, type)) /\ Ops[j].version = m
                 /\ \A i \in 1..Len(Ops) : Selecting(Ops[i], SourceId(d, type)) => i <= j
  <2>1. PICK k \in 1..n : NodeTypes[k] = type
    BY DEF NodeType, n
  <2>2. m \in 1..m
    BY <1>1
  <2>3. PICK j \in 1..Len(J) : J[j] = parts[k][m]
    BY <1>9, <2>1, <2>2 DEF Contains
  <2>4. Of(J[j], k, m)
    BY <1>2, <2>2, <2>3
  <2>5. \A i, l \in 1..n : SourceId(d, NodeTypes[i]) = SourceId(d, NodeTypes[l]) => i = l
    BY TypesOnce DEF SourceId, n
  <2>6. part[j] = k /\ place[j] = m
    <3>1. Of(J[j], part[j], place[j]) /\ part[j] \in 1..n
      BY <1>11
    <3> QED
      BY <2>4, <2>5, <3>1 DEF Of
  <2>7. j \in 1..Len(Ops) /\ Ops[j] = J[j]
    BY <1>9, <1>12
  <2>8. ASSUME NEW i \in 1..Len(Ops), Selecting(Ops[i], SourceId(d, type)) PROVE i <= j
    <3>1. i \in 1..Len(J)
      BY <1>5, <1>13, <2>8 DEF Selecting
    <3>2. Of(J[i], part[i], place[i]) /\ part[i] \in 1..n /\ place[i] \in 1..m
      BY <1>11, <3>1
    <3>3. part[i] = k
      BY <1>12, <2>1, <2>5, <2>8, <3>1, <3>2 DEF Of, Selecting
    <3>4. ~ (j < i)
      <4>1. j < i => part[j] < part[i] \/ (part[j] = part[i] /\ place[j] < place[i])
        BY <1>10, <3>1 DEF Located
      <4> QED
        BY <1>1, <2>6, <3>2, <3>3, <4>1
    <3> QED
      BY <1>9, <3>1, <3>4
  <2> QED
    BY <2>1, <2>4, <2>7, <2>8 DEF Selecting, Of
<1>17. Len(J) + 1 \in 1..Len(Ops) /\ Len(Ops) \in Nat
  BY <1>9, <1>12
<1> QED
  BY <1>5, <1>12, <1>15, <1>16, <1>17 DEF Ops, m

(* What the reader makes of them *)

\* The files of a domain, with the operations in their order.
NodesAsFiled(cfg, d) ==
    [i \in DOMAIN NodesFile(cfg) |->
        [here |-> NodesFile(cfg)[i].domain = d, source |-> NodesFile(cfg)[i].source,
         version |-> NodesFile(cfg)[i].version, chunk |-> NodesFile(cfg)[i].chunk]]
OperationsAsFiled(cfg, d) ==
    [i \in DOMAIN OperationsOf(cfg, d) |->
        [here |-> TRUE, operation |-> OperationsOf(cfg, d)[i].operation,
         source |-> OperationsOf(cfg, d)[i].source, version |-> OperationsOf(cfg, d)[i].version]]

LEMMA FilesAre ==
    ASSUME NEW ds \in Dataset, NEW d \in Domains(config[ds]), NEW sc \in RelationshipScope
    PROVE  /\ Files[ds][d][sc].nodes = NodesAsFiled(config[ds], d)
           /\ Files[ds][d][sc].operations = OperationsAsFiled(config[ds], d)
           /\ Files[ds][d][sc].scope = sc
<1>1. Files[ds][d][sc] = FilesFor(config[ds], d, sc)
  BY DEF Files
<1>2. /\ FilesFor(config[ds], d, sc).nodes = NodesAsFiled(config[ds], d)
      /\ FilesFor(config[ds], d, sc).operations = OperationsAsFiled(config[ds], d)
      /\ FilesFor(config[ds], d, sc).scope = sc
  BY DEF FilesFor, NodesAsFiled, OperationsAsFiled
<1> QED
  BY <1>1, <1>2

\* A node as the reader finds it.
AsRead(a) == [here |-> TRUE, source |-> SourceId(a.domain, a.type), version |-> a.version,
             chunk |-> ChunkOf(a)]

\* The nodes that concern a domain: all its addresses, no chunk twice.
LEMMA NodesRead ==
    ASSUME NEW ds \in Dataset, NEW d \in Domains(config[ds]), NEW sc \in RelationshipScope
    PROVE  /\ \A x \in Reader!Nodes(Files[ds][d][sc]) :
                 \E a \in Addresses(config[ds]) : a.domain = d /\ x = AsRead(a)
           /\ \A a \in Addresses(config[ds]) :
                 a.domain = d => AsRead(a) \in Reader!Nodes(Files[ds][d][sc])
           /\ \A i, j \in Reader!Here(Files[ds][d][sc].nodes) :
                 Files[ds][d][sc].nodes[i].chunk = Files[ds][d][sc].nodes[j].chunk => i = j
<1> DEFINE cfg == config[ds]
           N == NodesFile(cfg)
           F == Files[ds][d][sc].nodes
<1>1. Valid(cfg)
  BY EvaluationAssumption
<1>2. PICK S : N \in Seq(S)
  BY <1>1, NodesFileIs
<1>3. DOMAIN N = 1..Len(N)
  BY <1>2
<1>4. /\ \A i \in 1..Len(N) : \E a \in Addresses(cfg) : N[i] = NodeRecord(cfg, a)
      /\ \A a \in Addresses(cfg) : \E i \in 1..Len(N) : N[i] = NodeRecord(cfg, a)
      /\ \A i, j \in 1..Len(N) : N[i].chunk = N[j].chunk => i = j
  BY <1>1, NodesFileIs
<1>5. F = [i \in DOMAIN N |-> [here |-> N[i].domain = d, source |-> N[i].source,
                               version |-> N[i].version, chunk |-> N[i].chunk]]
  BY FilesAre DEF NodesAsFiled
<1> HIDE DEF N, F
<1>6. /\ DOMAIN F = 1..Len(N)
      /\ \A i \in 1..Len(N) : F[i] = [here |-> N[i].domain = d, source |-> N[i].source,
                                      version |-> N[i].version, chunk |-> N[i].chunk]
  BY <1>3, <1>5
<1>7. \A a : /\ NodeRecord(cfg, a).domain = a.domain /\ NodeRecord(cfg, a).version = a.version
             /\ NodeRecord(cfg, a).source = SourceId(a.domain, a.type)
             /\ NodeRecord(cfg, a).chunk = ChunkOf(a)
  BY DEF NodeRecord
<1>8. ASSUME NEW i \in 1..Len(N), NEW a, N[i] = NodeRecord(cfg, a)
      PROVE  /\ F[i].here <=> a.domain = d
             /\ a.domain = d => F[i] = AsRead(a)
  <2>1. /\ N[i].domain = a.domain /\ N[i].version = a.version /\ N[i].chunk = ChunkOf(a)
        /\ N[i].source = SourceId(a.domain, a.type)
    BY <1>7, <1>8
  <2>2. F[i] = [here |-> a.domain = d, source |-> SourceId(a.domain, a.type),
                version |-> a.version, chunk |-> ChunkOf(a)]
    <3>1. F[i] = [here |-> N[i].domain = d, source |-> N[i].source,
                  version |-> N[i].version, chunk |-> N[i].chunk]
      BY <1>6
    <3> QED
      BY <2>1, <3>1, Zenon
  <2>3. F[i].here <=> a.domain = d
    <3> DEFINE here == a.domain = d
               rest == SourceId(a.domain, a.type)
    <3>1. F[i] = [here |-> here, source |-> rest, version |-> a.version, chunk |-> ChunkOf(a)]
      BY <2>2
    <3> HIDE DEF here, rest
    <3>2. F[i].here = here
      BY <3>1
    <3> QED
      BY <3>2, Zenon DEF here
  <2>4. ASSUME a.domain = d PROVE F[i] = AsRead(a)
    <3>1. (a.domain = d) = TRUE
      BY <2>4
    <3>2. F[i] = [here |-> TRUE, source |-> SourceId(a.domain, a.type),
                  version |-> a.version, chunk |-> ChunkOf(a)]
      BY <2>2, <3>1, Zenon
    <3> QED
      BY <3>2 DEF AsRead
  <2> QED
    BY <2>3, <2>4
<1>11. ASSUME NEW x \in Reader!Nodes(Files[ds][d][sc])
       PROVE  \E a \in Addresses(cfg) : a.domain = d /\ x = AsRead(a)
  <2>1. PICK i \in 1..Len(N) : F[i].here /\ x = F[i]
    BY <1>6 DEF Reader!Nodes, Reader!Read, Reader!Here, F
  <2>2. PICK a \in Addresses(cfg) : N[i] = NodeRecord(cfg, a)
    BY <1>4
  <2> QED
    BY <1>8, <2>1, <2>2
<1>12. ASSUME NEW a \in Addresses(cfg), a.domain = d
       PROVE  AsRead(a) \in Reader!Nodes(Files[ds][d][sc])
  <2>1. PICK i \in 1..Len(N) : N[i] = NodeRecord(cfg, a)
    BY <1>4
  <2>2. F[i] = AsRead(a) /\ F[i].here
    BY <1>8, <1>12, <2>1
  <2> QED
    BY <1>6, <2>2 DEF Reader!Nodes, Reader!Read, Reader!Here, F
<1>13. ASSUME NEW i \in Reader!Here(F), NEW j \in Reader!Here(F), F[i].chunk = F[j].chunk
       PROVE  i = j
  <2>1. i \in 1..Len(N) /\ j \in 1..Len(N)
    BY <1>6 DEF Reader!Here
  <2>2. N[i].chunk = N[j].chunk
    BY <1>6, <1>13, <2>1
  <2> QED
    BY <1>4, <2>1, <2>2
<1> QED
  BY <1>11, <1>12, <1>13 DEF F

\* An address names the slot that it is in.
LEMMA AddressIs ==
    ASSUME NEW cfg, Valid(cfg), NEW a \in Addresses(cfg)
    PROVE  /\ a.domain \in Domains(cfg) /\ a.version \in Versions(cfg) /\ a.type \in NodeType
           /\ a \in Slot(cfg, a.domain, a.version)
           /\ a = [domain |-> a.domain, version |-> a.version, type |-> a.type,
                   instance |-> a.instance]
<1>1. PICK d \in Domains(cfg), v \in Versions(cfg) : a \in Slot(cfg, d, v)
  BY DEF Addresses
<1>2. NodesInSlot(cfg, d, v) \in Nat
  BY SlotsAreComplete
<1>3. PICK j \in 0..(NodesInSlot(cfg, d, v) - 1) : a = Address(d, v, j)
  BY <1>1 DEF Slot
<1>4. (j % TypeCount) + 1 \in 1..TypeCount
  BY <1>2 DEF TypeCount
<1> QED
  BY <1>1, <1>3, <1>4 DEF Address, NodeType

\* A chunk has one address.
LEMMA ChunkOnce ==
    ASSUME NEW cfg, Valid(cfg), NEW a \in Addresses(cfg), NEW b \in Addresses(cfg),
           ChunkOf(a) = ChunkOf(b)
    PROVE  a = b
<1>1. /\ a.domain = b.domain /\ a.type = b.type /\ a.instance = b.instance
      /\ a.version = b.version
  BY DEF ChunkOf, ChunkId
<1>2. /\ a = [domain |-> a.domain, version |-> a.version, type |-> a.type, instance |-> a.instance]
      /\ b = [domain |-> b.domain, version |-> b.version, type |-> b.type, instance |-> b.instance]
  BY AddressIs
<1> QED
  BY <1>1, <1>2, Zenon

\* A chunk is known and has a holder as its identifier says.
LEMMA KnownIs ==
    ASSUME NEW ds \in Dataset, NEW d \in Domains(config[ds]), NEW sc \in RelationshipScope, NEW c,
           Reader!Known(Files[ds][d][sc], c)
    PROVE  \E a \in Addresses(config[ds]) :
              /\ a.domain = d /\ c = ChunkOf(a)
              /\ Reader!Holder(Files[ds][d][sc], c) = <<SourceId(d, a.type), a.version>>
<1> DEFINE Nodes == Reader!Nodes(Files[ds][d][sc])
           n == CHOOSE x \in Nodes : x.chunk = c
<1>1. n \in Nodes /\ n.chunk = c
  BY DEF Reader!Known
<1>2. PICK a \in Addresses(config[ds]) : a.domain = d /\ n = AsRead(a)
  BY <1>1, NodesRead
<1>3. Reader!Holder(Files[ds][d][sc], c) = <<n.source, n.version>>
  BY DEF Reader!Holder, Reader!VersionOf
<1> HIDE DEF n
<1>4. n.chunk = ChunkOf(a) /\ n.source = SourceId(d, a.type) /\ n.version = a.version
  BY <1>2 DEF AsRead
<1> QED
  BY <1>1, <1>2, <1>3, <1>4

\* The versions of a domain are all those of all its types.
LEMMA VersionsAre ==
    ASSUME NEW ds \in Dataset, NEW d \in Domains(config[ds]), NEW sc \in RelationshipScope
    PROVE  /\ \A sv \in Reader!SourceVersions(Files[ds][d][sc]) :
                 \E type \in NodeType, v \in Versions(config[ds]) : sv = <<SourceId(d, type), v>>
           /\ \A type \in NodeType, v \in Versions(config[ds]) :
                 /\ <<SourceId(d, type), v>> \in Reader!SourceVersions(Files[ds][d][sc])
                 /\ \E n \in Reader!Nodes(Files[ds][d][sc]) :
                       n.chunk = ChunkId(d, type, 1, v) /\ n.source = SourceId(d, type)
<1> DEFINE cfg == config[ds]
<1>1. Valid(cfg)
  BY EvaluationAssumption
<1>2. ASSUME NEW sv \in Reader!SourceVersions(Files[ds][d][sc])
      PROVE  \E type \in NodeType, v \in Versions(cfg) : sv = <<SourceId(d, type), v>>
  <2>1. PICK n \in Reader!Nodes(Files[ds][d][sc]) : sv = <<n.source, n.version>>
    BY DEF Reader!SourceVersions, Reader!VersionOf
  <2>2. PICK a \in Addresses(cfg) : a.domain = d /\ n = AsRead(a)
    BY NodesRead
  <2>3. n.source = SourceId(d, a.type) /\ n.version = a.version
    BY <2>2 DEF AsRead
  <2>4. a.type \in NodeType /\ a.version \in Versions(cfg)
    BY <1>1, AddressIs
  <2> QED
    BY <2>1, <2>3, <2>4
<1>3. ASSUME NEW type \in NodeType, NEW v \in Versions(cfg)
      PROVE  \E n \in Reader!Nodes(Files[ds][d][sc]) :
                /\ n.chunk = ChunkId(d, type, 1, v) /\ n.source = SourceId(d, type)
                /\ <<n.source, n.version>> = <<SourceId(d, type), v>>
  <2>1. PICK a \in Slot(cfg, d, v) : ChunkId(d, type, 1, v) = ChunkOf(a)
    BY <1>1, FirstExists DEF Generated
  <2>2. a \in Addresses(cfg)
    BY DEF Addresses
  <2>3. a.domain = d /\ a.type = type /\ a.version = v
    BY <2>1 DEF ChunkOf, ChunkId
  <2>4. AsRead(a) \in Reader!Nodes(Files[ds][d][sc])
    BY <2>2, <2>3, NodesRead
  <2>5. /\ AsRead(a).source = SourceId(d, type) /\ AsRead(a).version = v
        /\ AsRead(a).chunk = ChunkId(d, type, 1, v)
    BY <2>1, <2>3 DEF AsRead
  <2> QED
    BY <2>4, <2>5
<1>4. \A n \in Reader!Nodes(Files[ds][d][sc]) :
         <<n.source, n.version>> \in Reader!SourceVersions(Files[ds][d][sc])
  BY DEF Reader!SourceVersions, Reader!VersionOf
<1> QED
  BY <1>2, <1>3, <1>4

\* What is selected was generated, and the configuration is all that is deleted.
LEMMA OperationsRead ==
    ASSUME NEW ds \in Dataset, NEW d \in Domains(config[ds]), NEW sc \in RelationshipScope
    PROVE  /\ \A op \in Reader!Read(Files[ds][d][sc].operations) : op.operation # "delete_source" =>
                 Reader!VersionOf(op) \in Reader!SourceVersions(Files[ds][d][sc])
           /\ Reader!DeletedSources(Files[ds][d][sc]) = {SourceId(d, "config")}
<1> DEFINE cfg == config[ds]
           Ops == OperationsOf(cfg, d)
           F == Files[ds][d][sc].operations
<1>1. Valid(cfg)
  BY EvaluationAssumption
<1>2. /\ DOMAIN Ops = 1..Len(Ops)
      /\ \A i \in 1..Len(Ops) :
            /\ Ops[i].operation = "delete_source" => Ops[i].source = SourceId(d, "config")
            /\ Ops[i].operation # "delete_source" => \E type \in NodeType, v \in Versions(cfg) :
                  Ops[i].source = SourceId(d, type) /\ Ops[i].version = v
      /\ \E i \in 1..Len(Ops) : /\ Ops[i].operation = "delete_source"
                                /\ Ops[i].source = SourceId(d, "config")
  BY <1>1, OperationsAre
<1>3. F = [i \in DOMAIN Ops |-> [here |-> TRUE, operation |-> Ops[i].operation,
                                 source |-> Ops[i].source, version |-> Ops[i].version]]
  BY FilesAre DEF OperationsAsFiled
<1> HIDE DEF Ops, F
<1>4. /\ DOMAIN F = 1..Len(Ops)
      /\ \A i \in 1..Len(Ops) : /\ F[i].here /\ F[i].operation = Ops[i].operation
                                /\ F[i].source = Ops[i].source /\ F[i].version = Ops[i].version
  BY <1>2, <1>3
<1>5. Reader!Read(F) = {F[i] : i \in 1..Len(Ops)}
  BY <1>4 DEF Reader!Read, Reader!Here
<1>6. ASSUME NEW op \in Reader!Read(F), op.operation # "delete_source"
      PROVE  Reader!VersionOf(op) \in Reader!SourceVersions(Files[ds][d][sc])
  <2>1. PICK i \in 1..Len(Ops) : op = F[i]
    BY <1>5
  <2>2. PICK type \in NodeType, v \in Versions(cfg) :
          Ops[i].source = SourceId(d, type) /\ Ops[i].version = v
    BY <1>2, <1>4, <1>6, <2>1
  <2>3. Reader!VersionOf(op) = <<SourceId(d, type), v>>
    BY <1>4, <2>1, <2>2 DEF Reader!VersionOf
  <2> QED
    BY <2>3, VersionsAre
<1>7. Reader!DeletedSources(Files[ds][d][sc]) =
        {op.source : op \in {o \in Reader!Read(F) : o.operation = "delete_source"}}
  BY DEF Reader!DeletedSources, F
<1>8. {op.source : op \in {o \in Reader!Read(F) : o.operation = "delete_source"}} =
        {SourceId(d, "config")}
  <2> SUFFICES \A s : (\E o \in Reader!Read(F) : o.operation = "delete_source" /\ s = o.source)
                       <=> s = SourceId(d, "config")
    OBVIOUS
  <2> QED
    BY <1>2, <1>4, <1>5
<1> QED
  BY <1>6, <1>7, <1>8 DEF F

\* The last version of every source is selected.
LEMMA SelectedIs ==
    ASSUME NEW ds \in Dataset, NEW d \in Domains(config[ds]), NEW sc \in RelationshipScope,
           NEW type \in NodeType
    PROVE  Reader!CurrentVersions(Files[ds][d][sc])[SourceId(d, type)] = config[ds].versions
<1> DEFINE cfg == config[ds]
           Ops == OperationsOf(cfg, d)
           f == Files[ds][d][sc]
           F == f.operations
           s == SourceId(d, type)
           All == Reader!Selections(f, s)
<1>1. Valid(cfg)
  BY EvaluationAssumption
<1>2. DOMAIN Ops = 1..Len(Ops) /\ Len(Ops) \in Nat
  BY <1>1, OperationsAre
<1>3. PICK j \in 1..Len(Ops) :
        /\ Selecting(Ops[j], s) /\ Ops[j].version = cfg.versions
        /\ \A i \in 1..Len(Ops) : Selecting(Ops[i], s) => i <= j
  BY <1>1, OperationsAre
<1>4. F = [i \in DOMAIN Ops |-> [here |-> TRUE, operation |-> Ops[i].operation,
                                 source |-> Ops[i].source, version |-> Ops[i].version]]
  BY FilesAre DEF OperationsAsFiled
<1> HIDE DEF Ops
<1>5. /\ DOMAIN F = 1..Len(Ops)
      /\ \A i \in 1..Len(Ops) : /\ F[i].here /\ F[i].operation = Ops[i].operation
                                /\ F[i].source = Ops[i].source /\ F[i].version = Ops[i].version
  BY <1>2, <1>4
<1>6. All = {i \in 1..Len(Ops) : Selecting(Ops[i], s)}
  <2>1. All = {i \in Reader!Here(F) : F[i].operation # "delete_source" /\ F[i].source = s}
    BY DEF Reader!Selections
  <2> HIDE DEF F, s
  <2> QED
    BY <1>5, <2>1 DEF Reader!Here, Selecting
<1>7. s \in AllDomains \X NodeType
  <2>1. d \in AllDomains
    BY DEF AllDomains
  <2> QED
    BY <2>1 DEF SourceId
<1>8. Reader!CurrentVersions(f)[s] = IF All = {} THEN None
        ELSE F[CHOOSE i \in All : \A k \in All : k <= i].version
  BY <1>7 DEF Reader!CurrentVersions
<1> HIDE DEF All, F, f, s
<1>9. (CHOOSE i \in All : \A k \in All : k <= i) = j
  <2> DEFINE last == CHOOSE i \in All : \A k \in All : k <= i
  <2>1. j \in All /\ \A k \in All : k <= j
    BY <1>3, <1>6
  <2>2. last \in All /\ \A k \in All : k <= last
    BY <2>1
  <2>3. last \in Int /\ j \in Int
    BY <1>6, <2>1, <2>2
  <2> HIDE DEF last
  <2>4. last = j
    BY <2>1, <2>2, <2>3
  <2> QED
    BY <2>4 DEF last
<1> QED
  BY <1>3, <1>5, <1>6, <1>8, <1>9 DEF f, s

(* Relationships *)

LEMMA TemplatesFinite == IsFiniteSet(EdgeTemplates)
<1> DEFINE f == <<<<"controller", "service", "calls">>, <<"service", "repository", "calls">>,
                  <<"repository", "table", "writes">>, <<"repository", "table", "reads">>,
                  <<"service", "log_table", "writes">>, <<"service", "config", "configured_by">>,
                  <<"service", "validator", "validates_with">>, <<"service", "event", "emits">>,
                  <<"worker", "service", "handles">>, <<"command", "service", "handles">>,
                  <<"event", "service", "belongs_to">>>>
<1>1. DOMAIN f = 1..11
  OBVIOUS
<1>2. EdgeTemplates = {f[i] : i \in 1..11}
  <2>1. {f[i] : i \in 1..11} = {f[1], f[2], f[3], f[4], f[5], f[6], f[7], f[8], f[9], f[10], f[11]}
    <3> HIDE DEF f
    <3>1. \A i \in 1..11 : \/ i = 1 \/ i = 2 \/ i = 3 \/ i = 4 \/ i = 5 \/ i = 6
                           \/ i = 7 \/ i = 8 \/ i = 9 \/ i = 10 \/ i = 11
      OBVIOUS
    <3> QED
      BY <3>1
  <2> QED
    BY <2>1 DEF EdgeTemplates
<1>3. IsFiniteSet(1..11)
  <2>1. 1 \in Int /\ 11 \in Int
    OBVIOUS
  <2> QED
    BY <2>1, FS_Interval
<1> HIDE DEF f
<1> QED
  BY <1>1, <1>2, <1>3, FiniteImage

\* Numbers of nodes of a type.
LEMMA CountsAreNumbers ==
    ASSUME NEW cfg, Valid(cfg), NEW d \in Domains(cfg), NEW v \in Versions(cfg), NEW place
    PROVE  TypeCounts(cfg, d, v, place) \in Int
<1>1. NodesInSlot(cfg, d, v) \in Nat
  BY SlotsAreComplete
<1> DEFINE each == NodesInSlot(cfg, d, v) \div TypeCount
           more == IF place - 1 < NodesInSlot(cfg, d, v) % TypeCount THEN 1 ELSE 0
<1>2. each \in Int /\ more \in Int
  BY <1>1 DEF TypeCount
<1>3. TypeCounts(cfg, d, v, place) = each + more
  BY DEF TypeCounts
<1> HIDE DEF each, more
<1> QED
  BY <1>2, <1>3

\* So there are finitely many relationships.
LEMMA EdgesFinite ==
    ASSUME NEW cfg, Valid(cfg)
    PROVE  IsFiniteSet(Edges(cfg))
<1>1. ASSUME NEW d \in Domains(cfg), NEW v \in Versions(cfg)
      PROVE  IsFiniteSet(InnerEdges(cfg, d, v) \cup CrossEdges(cfg, d, v))
  <2> DEFINE upto(t) == Lesser(TypeCounts(cfg, d, v, PlaceOf(t[1])),
                               TypeCounts(cfg, d, v, PlaceOf(t[2])))
             row(t) == [i \in 1..upto(t) |-> EdgeRecord(cfg, d, v, t[1], t[2], i, t[3], d)]
             rows == [t \in EdgeTemplates |-> {row(t)[i] : i \in 1..upto(t)}]
  <2>1. \A t \in EdgeTemplates : IsFiniteSet(rows[t])
    <3> SUFFICES ASSUME NEW t \in EdgeTemplates PROVE IsFiniteSet(rows[t])
      OBVIOUS
    <3>1. upto(t) \in Int
      BY CountsAreNumbers DEF Lesser
    <3>2. IsFiniteSet(1..upto(t))
      <4> HIDE DEF upto
      <4> QED
        BY <3>1, FS_Interval
    <3>3. DOMAIN row(t) = 1..upto(t)
      OBVIOUS
    <3>4. rows[t] = {row(t)[i] : i \in 1..upto(t)}
      OBVIOUS
    <3> DEFINE r == row(t)
               u == 1..upto(t)
    <3> HIDE DEF rows
    <3>5. DOMAIN r = u /\ IsFiniteSet(u) /\ rows[t] = {r[i] : i \in u}
      BY <3>2, <3>3, <3>4
    <3> HIDE DEF r, u
    <3> QED
      BY <3>5, FiniteImage
  <2>2. IsFiniteSet({rows[t] : t \in EdgeTemplates})
    <3>1. DOMAIN rows = EdgeTemplates
      OBVIOUS
    <3> HIDE DEF rows
    <3> QED
      BY <3>1, TemplatesFinite, FiniteImage
  <2>3. InnerEdges(cfg, d, v) = UNION {rows[t] : t \in EdgeTemplates}
    <3>1. \A t \in EdgeTemplates : rows[t] =
            {EdgeRecord(cfg, d, v, t[1], t[2], i, t[3], d) : i \in 1..upto(t)}
      OBVIOUS
    <3>2. InnerEdges(cfg, d, v) = UNION {{EdgeRecord(cfg, d, v, t[1], t[2], i, t[3], d) :
                                            i \in 1..upto(t)} : t \in EdgeTemplates}
      BY DEF InnerEdges
    <3> HIDE DEF rows, upto
    <3>3. {rows[t] : t \in EdgeTemplates} =
            {{EdgeRecord(cfg, d, v, t[1], t[2], i, t[3], d) : i \in 1..upto(t)} :
                t \in EdgeTemplates}
      BY <3>1
    <3> QED
      BY <3>2, <3>3
  <2>4. IsFiniteSet(InnerEdges(cfg, d, v))
    <3> HIDE DEF rows
    <3>1. \A T \in {rows[t] : t \in EdgeTemplates} : IsFiniteSet(T)
      BY <2>1
    <3> DEFINE all == {rows[t] : t \in EdgeTemplates}
    <3> HIDE DEF all
    <3>2. IsFiniteSet(UNION all)
      BY <2>2, <3>1, FS_UNION DEF all
    <3> QED
      BY <2>3, <3>2 DEF all
  <2>5. IsFiniteSet(CrossEdges(cfg, d, v))
    BY FS_EmptySet, FS_Singleton DEF CrossEdges
  <2> QED
    BY <2>4, <2>5, FS_Union
<1> DEFINE P == Domains(cfg) \X Versions(cfg)
           of == [p \in P |-> InnerEdges(cfg, p[1], p[2]) \cup CrossEdges(cfg, p[1], p[2])]
<1>2. IsFiniteSet(P)
  <2>1. cfg.domains \in Nat /\ cfg.versions \in Nat
    BY ConfigNumbers DEF Valid
  <2>2. IsFiniteSet(Domains(cfg)) /\ IsFiniteSet(Versions(cfg))
    <3>1. 0 \in Int /\ 1 \in Int /\ cfg.domains - 1 \in Int /\ cfg.versions \in Int
      BY <2>1
    <3> QED
      BY <3>1, FS_Interval DEF Domains, Versions
  <2> QED
    BY <2>2, FS_Product
<1>3. \A p \in P : IsFiniteSet(of[p])
  BY <1>1
<1>4. Edges(cfg) = UNION {of[p] : p \in P}
  <2>1. \A d \in Domains(cfg), v \in Versions(cfg) :
           <<d, v>> \in P /\ of[<<d, v>>] = InnerEdges(cfg, d, v) \cup CrossEdges(cfg, d, v)
    OBVIOUS
  <2>2. \A p \in P : p[1] \in Domains(cfg) /\ p[2] \in Versions(cfg)
           /\ of[p] = InnerEdges(cfg, p[1], p[2]) \cup CrossEdges(cfg, p[1], p[2])
    OBVIOUS
  <2> HIDE DEF of, P
  <2>3. ASSUME NEW e \in Edges(cfg) PROVE e \in UNION {of[p] : p \in P}
    <3>1. PICK d \in Domains(cfg), v \in Versions(cfg) :
            e \in InnerEdges(cfg, d, v) \cup CrossEdges(cfg, d, v)
      BY DEF Edges
    <3>2. <<d, v>> \in P /\ e \in of[<<d, v>>]
      BY <2>1, <3>1
    <3> QED
      BY <3>2
  <2>4. ASSUME NEW e \in UNION {of[p] : p \in P} PROVE e \in Edges(cfg)
    <3>1. PICK p \in P : e \in of[p]
      OBVIOUS
    <3> DEFINE d == p[1]
               v == p[2]
    <3>2. /\ d \in Domains(cfg) /\ v \in Versions(cfg)
          /\ e \in InnerEdges(cfg, d, v) \cup CrossEdges(cfg, d, v)
      BY <2>2, <3>1
    <3> HIDE DEF d, v
    <3> DEFINE part == InnerEdges(cfg, d, v) \cup CrossEdges(cfg, d, v)
               parts == {InnerEdges(cfg, dd, vv) \cup CrossEdges(cfg, dd, vv) :
                           dd \in Domains(cfg), vv \in Versions(cfg)}
    <3>3. part \in parts
      BY <3>2
    <3>4. Edges(cfg) = UNION parts
      BY DEF Edges
    <3> HIDE DEF part, parts
    <3>5. e \in part
      BY <3>2 DEF part
    <3> QED
      BY <3>3, <3>4, <3>5
  <2> QED
    BY <2>3, <2>4
<1>5. DOMAIN of = P
  OBVIOUS
<1> HIDE DEF P, of
<1> DEFINE all == {of[p] : p \in P}
<1>6. IsFiniteSet(all)
  BY <1>2, <1>5, FiniteImage
<1>7. \A T \in all : IsFiniteSet(T)
  BY <1>3
<1> HIDE DEF all
<1>8. IsFiniteSet(UNION all)
  BY <1>6, <1>7, FS_UNION
<1> QED
  BY <1>4, <1>8 DEF all

\* A relationship as the reader finds it.
AsLinked(e) == [here |-> TRUE, from |-> e.from, to |-> e.to, origin |-> e.owner,
                owner |-> <<e.owner, e.version>>, target |-> <<e.target, e.version>>,
                type |-> e.type]

\* The file lists relationships of the generator, none twice, and all of the tenant.
LEMMA EdgesRead ==
    ASSUME NEW ds \in Dataset, NEW d \in Domains(config[ds]), NEW sc \in RelationshipScope
    PROVE  /\ \A i \in DOMAIN Files[ds][d][sc].edges :
                 \E e \in Edges(config[ds]) : Files[ds][d][sc].edges[i] = AsLinked(e)
           /\ \A i, j \in DOMAIN Files[ds][d][sc].edges :
                 Files[ds][d][sc].edges[i] = Files[ds][d][sc].edges[j] => i = j
           /\ \A e \in Edges(config[ds]) : e.tenant = TenantOf(config[ds], d) =>
                 AsLinked(e) \in Reader!Read(Files[ds][d][sc].edges)
<1> DEFINE cfg == config[ds]
           mine == {e \in Edges(cfg) : e.tenant = TenantOf(cfg, d)}
           S == {AsLinked(e) : e \in mine}
           L == Files[ds][d][sc].edges
<1>1. L = Listed(S)
  BY DEF Files, FilesFor, AsLinked
<1>2. IsFiniteSet(S)
  <2>1. IsFiniteSet(Edges(cfg))
    BY EdgesFinite, EvaluationAssumption
  <2>2. IsFiniteSet(mine)
    BY <2>1, FS_Subset
  <2> DEFINE f == [e \in mine |-> AsLinked(e)]
  <2>3. DOMAIN f = mine /\ \A e \in mine : f[e] = AsLinked(e)
    OBVIOUS
  <2> HIDE DEF f, mine
  <2>4. IsFiniteSet({f[e] : e \in mine})
    BY <2>2, <2>3, FiniteImage
  <2>5. {f[e] : e \in mine} = S
    BY <2>3
  <2> QED
    BY <2>4, <2>5
<1> HIDE DEF L
<1>3. /\ L \in Seq(S)
      /\ \A i, j \in 1..Len(L) : L[i] = L[j] => i = j
  <2> HIDE DEF S
  <2> QED
    BY <1>1, <1>2, ListedElements
<1>4. DOMAIN L = 1..Len(L) /\ \A i \in 1..Len(L) : L[i] \in S
  <2> HIDE DEF S
  <2> QED
    BY <1>3
<1>5. ASSUME NEW e \in Edges(cfg), e.tenant = TenantOf(cfg, d)
      PROVE  AsLinked(e) \in Reader!Read(L)
  <2>1. AsLinked(e) \in S
    BY <1>5
  <2>2. PICK i \in 1..Len(L) : L[i] = AsLinked(e)
    <3> HIDE DEF S
    <3> QED
      BY <1>1, <1>2, <2>1, ListedElements
  <2>3. L[i].here
    BY <2>2 DEF AsLinked
  <2> QED
    BY <1>4, <2>2, <2>3 DEF Reader!Read, Reader!Here
<1> QED
  BY <1>3, <1>4, <1>5 DEF L

\* Chunks, versions and sources of a relationship belong together.
LEMMA EdgeIs ==
    ASSUME NEW cfg, NEW e \in Edges(cfg)
    PROVE  \E d, target, from, to, i, v :
              /\ e.owner = SourceId(d, from) /\ e.target = SourceId(target, to) /\ e.version = v
              /\ e.from = ChunkId(d, from, i, v) /\ e.to = ChunkId(target, to, i, v)
<1>1. PICK d \in Domains(cfg), v \in Versions(cfg) :
        e \in InnerEdges(cfg, d, v) \/ e \in CrossEdges(cfg, d, v)
  BY DEF Edges
<1>2. \E from, to, i, type, target : e = EdgeRecord(cfg, d, v, from, to, i, type, target)
  BY <1>1 DEF InnerEdges, CrossEdges
<1>3. PICK from, to, i, type, target : e = EdgeRecord(cfg, d, v, from, to, i, type, target)
  BY <1>2
<1> QED
  BY <1>3 DEF EdgeRecord

\* The ends of a relationship are generated chunks; its tenant is that of the first one.
LEMMA EdgeEnds ==
    ASSUME NEW cfg, Valid(cfg), NEW e \in Edges(cfg)
    PROVE  \E a, c \in Addresses(cfg) :
              /\ e.from = ChunkOf(a) /\ e.to = ChunkOf(c)
              /\ e.owner[1] = a.domain /\ e.target[1] = c.domain
              /\ e.tenant = TenantOf(cfg, a.domain)
<1>1. PICK b, target, from, to, i, v :
        /\ e.owner = SourceId(b, from) /\ e.target = SourceId(target, to) /\ e.version = v
        /\ e.from = ChunkId(b, from, i, v) /\ e.to = ChunkId(target, to, i, v)
  BY EdgeIs
<1>2. PICK d \in Domains(cfg), t \in Domains(cfg), w \in Versions(cfg) :
        /\ e.tenant = TenantOf(cfg, d)
        /\ Generated(cfg, e.from, d, w) /\ Generated(cfg, e.to, t, w)
  BY EdgesConnectNodes DEF EdgeSound
<1>3. PICK a \in Slot(cfg, d, w), c \in Slot(cfg, t, w) : e.from = ChunkOf(a) /\ e.to = ChunkOf(c)
  BY <1>2 DEF Generated
<1>4. a.domain = d /\ a \in Addresses(cfg) /\ c \in Addresses(cfg)
  <2>1. a \in Addresses(cfg) /\ c \in Addresses(cfg)
    BY <1>3 DEF Addresses
  <2>2. PICK j : a = Address(d, w, j)
    BY <1>3 DEF Slot
  <2> QED
    BY <2>1, <2>2 DEF Address
<1>5. a.domain = b /\ c.domain = target
  BY <1>1, <1>3 DEF ChunkOf, ChunkId
<1>6. e.owner[1] = b /\ e.target[1] = target
  BY <1>1 DEF SourceId
<1> QED
  BY <1>2, <1>3, <1>4, <1>5, <1>6

\* The reader knows the chunks of its domain and no other.
LEMMA KnownHere ==
    ASSUME NEW ds \in Dataset, NEW d \in Domains(config[ds]), NEW sc \in RelationshipScope,
           NEW a \in Addresses(config[ds])
    PROVE  Reader!Known(Files[ds][d][sc], ChunkOf(a)) <=> a.domain = d
<1>1. Valid(config[ds])
  BY EvaluationAssumption
<1>2. ASSUME a.domain = d PROVE Reader!Known(Files[ds][d][sc], ChunkOf(a))
  <2>1. AsRead(a) \in Reader!Nodes(Files[ds][d][sc])
    BY <1>2, NodesRead
  <2>2. AsRead(a).chunk = ChunkOf(a)
    BY DEF AsRead
  <2> QED
    BY <2>1, <2>2 DEF Reader!Known
<1>3. ASSUME Reader!Known(Files[ds][d][sc], ChunkOf(a)) PROVE a.domain = d
  <2>1. PICK b \in Addresses(config[ds]) : b.domain = d /\ ChunkOf(a) = ChunkOf(b)
    BY <1>3, KnownIs
  <2> QED
    BY <1>1, <2>1, ChunkOnce
<1> QED
  BY <1>2, <1>3

\* A relationship that the reader keeps.
LEMMA KeptIs ==
    ASSUME NEW ds \in Dataset, NEW d \in Domains(config[ds]), NEW sc \in RelationshipScope,
           NEW e, e \in Reader!Read(Files[ds][d][sc].edges),
           Reader!Known(Files[ds][d][sc], e.from), Reader!Known(Files[ds][d][sc], e.to)
    PROVE  /\ e.owner = Reader!Holder(Files[ds][d][sc], e.from)
           /\ e.target = Reader!Holder(Files[ds][d][sc], e.to)
           /\ e.origin = e.owner[1] /\ e.owner[2] = e.target[2]
           /\ e.owner[2] \in Versions(config[ds])
           /\ \E from, to \in NodeType :
                 e.owner[1] = SourceId(d, from) /\ e.target[1] = SourceId(d, to)
<1> DEFINE f == Files[ds][d][sc]
<1>1. PICK x \in Edges(config[ds]) : e = AsLinked(x)
  BY EdgesRead DEF Reader!Read, Reader!Here
<1>2. PICK b, target, from, to, i, v :
        /\ x.owner = SourceId(b, from) /\ x.target = SourceId(target, to) /\ x.version = v
        /\ x.from = ChunkId(b, from, i, v) /\ x.to = ChunkId(target, to, i, v)
  BY EdgeIs
<1>3. /\ e.from = ChunkId(b, from, i, v) /\ e.to = ChunkId(target, to, i, v)
      /\ e.origin = SourceId(b, from)
      /\ e.owner = <<SourceId(b, from), v>> /\ e.target = <<SourceId(target, to), v>>
  BY <1>1, <1>2 DEF AsLinked
<1>4. PICK a \in Addresses(config[ds]) : /\ a.domain = d /\ e.from = ChunkOf(a)
                                         /\ Reader!Holder(f, e.from) = <<SourceId(d, a.type), a.version>>
  BY KnownIs
<1>5. PICK c \in Addresses(config[ds]) : /\ c.domain = d /\ e.to = ChunkOf(c)
                                         /\ Reader!Holder(f, e.to) = <<SourceId(d, c.type), c.version>>
  BY KnownIs
<1>6. b = d /\ from = a.type /\ v = a.version /\ target = d /\ to = c.type /\ v = c.version
  BY <1>3, <1>4, <1>5 DEF ChunkOf, ChunkId
<1>7. a.type \in NodeType /\ c.type \in NodeType /\ a.version \in Versions(config[ds])
  BY AddressIs, EvaluationAssumption
<1> QED
  BY <1>3, <1>4, <1>5, <1>6, <1>7

\* prepare() accepts what the generator writes, unless a relationship leaves the domain
\* and the scope is complete.
LEMMA EveryFileAccepted ==
    ASSUME NEW ds \in Dataset, NEW d \in Domains(config[ds]), NEW sc \in RelationshipScope,
           sc = "complete" => Leaving(config[ds], d) = {}
    PROVE  Reader!Accepts(Files[ds][d][sc])
<1> DEFINE cfg == config[ds]
           f == Files[ds][d][sc]
<1>1. Valid(cfg) /\ cfg.versions \in Nat \ {0} /\ None \notin Nat
  BY EvaluationAssumption, ConfigNumbers DEF Valid
<1>2. Reader!Nodes(f) # {}
  <2>1. "config" \in NodeType
    BY TemplateTypes DEF EdgeTemplates
  <2>2. 1 \in Versions(cfg)
    BY <1>1 DEF Versions
  <2> QED
    BY <2>1, <2>2, VersionsAre
<1>3. \A i, j \in Reader!Here(f.nodes) : f.nodes[i].chunk = f.nodes[j].chunk => i = j
  BY NodesRead
<1>4. \A op \in Reader!Read(f.operations) : op.operation # "delete_source" =>
         Reader!VersionOf(op) \in Reader!SourceVersions(f)
  BY OperationsRead
<1>5. \A e \in Reader!Read(f.edges) : Reader!EdgeAccepted(f, e)
  <2>1. f.scope = sc
    BY FilesAre
  <2> SUFFICES ASSUME NEW e \in Reader!Read(f.edges), Reader!Known(f, e.from)
               PROVE  /\ sc = "complete" => Reader!Known(f, e.to)
                      /\ Reader!Known(f, e.to) => /\ e.owner = Reader!Holder(f, e.from)
                                                  /\ e.target = Reader!Holder(f, e.to)
    <3> HIDE DEF f
    <3> QED
      BY <2>1 DEF Reader!EdgeAccepted
  <2>2. ASSUME sc = "complete" PROVE Reader!Known(f, e.to)
    <3>1. PICK x \in Edges(cfg) : e.from = x.from /\ e.to = x.to
      <4>1. PICK i \in DOMAIN f.edges : e = f.edges[i]
        BY DEF Reader!Read, Reader!Here
      <4>2. PICK x \in Edges(cfg) : e = AsLinked(x)
        BY <4>1, EdgesRead
      <4> QED
        BY <4>2 DEF AsLinked
    <3>2. PICK a, c \in Addresses(cfg) :
            /\ x.from = ChunkOf(a) /\ x.to = ChunkOf(c)
            /\ x.owner[1] = a.domain /\ x.target[1] = c.domain
      BY <1>1, EdgeEnds
    <3>3. a.domain = d
      BY <3>1, <3>2, KnownHere
    <3>4. x \notin Leaving(cfg, d)
      BY <2>2
    <3>5. c.domain = d
      BY <3>2, <3>3, <3>4 DEF Leaving
    <3> QED
      BY <3>1, <3>2, <3>5, KnownHere
  <2> QED
    BY <2>2, KeptIs
<1>6. \A i, j \in Reader!Related(f) :
         Reader!EdgeKey(f.edges[i]) = Reader!EdgeKey(f.edges[j]) => i = j
  <2> DEFINE L == f.edges
  <2> SUFFICES ASSUME NEW i \in Reader!Related(f), NEW j \in Reader!Related(f),
                      Reader!EdgeKey(L[i]) = Reader!EdgeKey(L[j])
               PROVE  i = j
    OBVIOUS
  <2>1. i \in DOMAIN L /\ j \in DOMAIN L
    BY DEF Reader!Related, Reader!Here
  <2>2. PICK x, y \in Edges(cfg) : L[i] = AsLinked(x) /\ L[j] = AsLinked(y)
    BY <2>1, EdgesRead
  <2> HIDE DEF L
  <2>3. /\ <<x.owner, x.version>> = <<y.owner, y.version>>
        /\ x.from = y.from /\ x.target = y.target /\ x.to = y.to /\ x.type = y.type
    BY <2>2 DEF Reader!EdgeKey, AsLinked
  <2>4. AsLinked(x) = AsLinked(y)
    BY <2>3 DEF AsLinked
  <2> QED
    BY <2>1, <2>2, <2>4, EdgesRead DEF L
<1>7. \A s \in Reader!Sources(f) : Reader!CurrentVersions(f)[s] # None
  <2> SUFFICES ASSUME NEW sv \in Reader!SourceVersions(f)
               PROVE  Reader!CurrentVersions(f)[sv[1]] # None
    BY DEF Reader!Sources
  <2>1. PICK type \in NodeType, v \in Versions(cfg) : sv = <<SourceId(d, type), v>>
    BY VersionsAre
  <2>2. Reader!CurrentVersions(f)[SourceId(d, type)] = cfg.versions
    BY SelectedIs
  <2> HIDE DEF f, cfg
  <2> QED
    BY <1>1, <2>1, <2>2
<1> HIDE DEF f
<1>8. Reader!Accepts(f)
  BY <1>2, <1>3, <1>4, <1>5, <1>6, <1>7 DEF Reader!Accepts, Reader!Distinct
<1> QED
  BY <1>8 DEF f

\* And no command of the import is refused.
LEMMA EveryFileImports ==
    ASSUME NEW ds \in Dataset, NEW d \in Domains(config[ds]), NEW sc \in RelationshipScope,
           sc = "complete" => Leaving(config[ds], d) = {}
    PROVE  Imports(Files[ds][d][sc])
<1> DEFINE f == Files[ds][d][sc]
<1>1. ASSUME NEW e \in Reader!Relationships(f)
      PROVE  /\ e.owner = Reader!Holder(f, e.from) /\ e.target = Reader!Holder(f, e.to)
             /\ e.origin = e.owner[1] /\ e.owner[2] = e.target[2]
             /\ \E from, to \in NodeType :
                   e.owner[1] = SourceId(d, from) /\ e.target[1] = SourceId(d, to)
  <2>1. /\ e \in Reader!Read(f.edges) /\ Reader!Known(f, e.from) /\ Reader!Known(f, e.to)
    BY DEF Reader!Relationships, Reader!Related, Reader!Read
  <2> QED
    BY <2>1, KeptIs
<1>2. ASSUME NEW sv \in Reader!SourceVersions(f)
      PROVE  Reader!CommandBuilds(f, sv)
  <2> SUFFICES ASSUME NEW e \in Reader!Relationships(f), e.owner = sv
               PROVE  e.origin = sv[1] /\ (e.target[1] = sv[1] => e.target = sv)
    BY DEF Reader!CommandBuilds, Reader!OwnedEdges
  <2>1. e.origin = sv[1] /\ sv[2] = e.target[2]
    BY <1>1
  <2>2. sv = <<sv[1], sv[2]>>
    <3>1. \E type \in NodeType, v \in Versions(config[ds]) : sv = <<SourceId(d, type), v>>
      BY VersionsAre
    <3> QED
      BY <3>1
  <2>3. e.target = <<e.target[1], e.target[2]>>
    <3>1. PICK a \in Addresses(config[ds]) :
            Reader!Holder(f, e.to) = <<SourceId(d, a.type), a.version>>
      <4>1. Reader!Known(f, e.to)
        BY DEF Reader!Relationships, Reader!Related
      <4> QED
        BY <4>1, KnownIs
    <3> QED
      BY <1>1, <3>1
  <2> QED
    BY <2>1, <2>2, <2>3
<1>3. ASSUME NEW e \in Reader!Relationships(f),
             Reader!CurrentVersions(f)[e.owner[1]] = e.owner[2]
      PROVE  Reader!CurrentVersions(f)[e.target[1]] = e.target[2]
  <2>1. PICK from, to \in NodeType :
          e.owner[1] = SourceId(d, from) /\ e.target[1] = SourceId(d, to)
    BY <1>1
  <2>2. /\ Reader!CurrentVersions(f)[SourceId(d, from)] = config[ds].versions
        /\ Reader!CurrentVersions(f)[SourceId(d, to)] = config[ds].versions
    BY SelectedIs
  <2>3. e.owner[2] = e.target[2]
    BY <1>1
  <2> HIDE DEF f
  <2> QED
    BY <1>3, <2>1, <2>2, <2>3
<1>4. Reader!Accepts(f)
  BY EveryFileAccepted
<1> HIDE DEF f
<1>5. Imports(f)
  BY <1>2, <1>3, <1>4 DEF Imports
<1> QED
  BY <1>5 DEF f

\* In the scope complete a relationship into another domain is refused.
LEMMA LeavingIsRefused ==
    ASSUME NEW ds \in Dataset, NEW d \in Domains(config[ds]), Leaving(config[ds], d) # {}
    PROVE  ~Reader!Accepts(Files[ds][d]["complete"])
<1> DEFINE cfg == config[ds]
           f == Files[ds][d]["complete"]
<1>1. Valid(cfg) /\ "complete" \in RelationshipScope
  BY EvaluationAssumption DEF RelationshipScope
<1>2. PICK x \in Edges(cfg) : x.owner[1] = d /\ x.target[1] # d
  BY DEF Leaving
<1>3. PICK a, c \in Addresses(cfg) :
        /\ x.from = ChunkOf(a) /\ x.to = ChunkOf(c)
        /\ x.owner[1] = a.domain /\ x.target[1] = c.domain
        /\ x.tenant = TenantOf(cfg, a.domain)
  BY <1>1, EdgeEnds
<1>4. AsLinked(x) \in Reader!Read(f.edges)
  BY <1>1, <1>2, <1>3, EdgesRead
<1>5. Reader!Known(f, ChunkOf(a)) /\ ~Reader!Known(f, ChunkOf(c))
  BY <1>1, <1>2, <1>3, KnownHere
<1>6. AsLinked(x).from = ChunkOf(a) /\ AsLinked(x).to = ChunkOf(c)
  BY <1>3 DEF AsLinked
<1>7. f.scope = "complete"
  BY <1>1, FilesAre
<1> HIDE DEF f
<1>8. ~Reader!EdgeAccepted(f, AsLinked(x))
  BY <1>5, <1>6, <1>7 DEF Reader!EdgeAccepted
<1>9. ~Reader!Accepts(f)
  BY <1>4, <1>8 DEF Reader!Accepts
<1> QED
  BY <1>9 DEF f

(* Expectations *)

\* What the product holds of a domain.
LEMMA InternalRead ==
    ASSUME NEW ds \in Dataset, NEW d \in Domains(config[ds])
    PROVE  /\ Reader!DeletedSources(Files[ds][d]["internal"]) = {SourceId(d, "config")}
           /\ \A type \in NodeType :
                 Reader!CurrentVersions(Files[ds][d]["internal"])[SourceId(d, type)] = config[ds].versions
<1>1. "internal" \in RelationshipScope
  BY DEF RelationshipScope
<1> QED
  BY <1>1, OperationsRead, SelectedIs

\* All that a query forbids is the current configuration of its domain.
LEMMA ForbiddenIs ==
    ASSUME NEW cfg, NEW i
    PROVE  /\ QueryRecord(cfg, i).forbidden \subseteq
                 {ChunkId(QueryRecord(cfg, i).domain, "config", 1, cfg.versions)}
           /\ QueryRecord(cfg, i).domain = i % cfg.domains
BY DEF QueryRecord

\* Once the deletions are done, nobody sees what a query forbids.
LEMMA ForbiddenIsGone ==
    ASSUME NEW ds \in Dataset, NEW i \in 1..Len(QueriesOf[ds]), NEW labels, NEW q
    PROVE  QueriesOf[ds][i].forbidden \cap Seen(q, labels, ds, TRUE) = {}
<1> DEFINE cfg == config[ds]
           r == QueriesOf[ds][i]
<1> SUFFICES ASSUME NEW c, c \in r.forbidden, c \in Seen(q, labels, ds, TRUE)
             PROVE  FALSE
  OBVIOUS
<1>1. r = QueryRecord(cfg, i - 1) /\ i - 1 \in Nat
  BY QueriesAre
<1>2. c = <<r.domain, "config", 1, cfg.versions>>
  BY <1>1, ForbiddenIs DEF ChunkId
<1>3. PICK x \in Active : /\ x.node.chunk = c /\ x.dataset = ds /\ x.deleted = TRUE
  BY DEF Seen
<1>4. PICK e, d, b, n :
          /\ e \in Dataset /\ d \in Domains(config[e]) /\ n \in HeldBy(e, d, b)
          /\ x = [dataset |-> e, deleted |-> b, node |-> n]
  BY <1>3 DEF Active
<1>5. e = ds /\ b = TRUE /\ n.chunk = c
  BY <1>3, <1>4
<1>6. /\ \E j \in DOMAIN NodesFile(cfg) : n = NodesFile(cfg)[j]
      /\ n.source \notin Reader!DeletedSources(Files[ds][d]["internal"])
      /\ n.domain = d
  BY <1>4, <1>5 DEF HeldBy
<1>7. PICK a : n = NodeRecord(cfg, a)
  <2>1. Valid(cfg)
    BY EvaluationAssumption
  <2>2. DOMAIN NodesFile(cfg) = 1..Len(NodesFile(cfg))
    <3>1. PICK S : NodesFile(cfg) \in Seq(S)
      BY <2>1, NodesFileIs
    <3> QED
      BY <3>1
  <2> QED
    BY <1>6, <2>1, <2>2, NodesFileIs
<1>8. n.chunk = <<a.domain, a.type, a.instance, a.version>> /\ n.source = <<a.domain, a.type>>
      /\ n.domain = a.domain
  BY <1>7 DEF NodeRecord, ChunkOf, ChunkId, SourceId
<1>9. a.type = "config" /\ a.domain = d
  BY <1>2, <1>5, <1>6, <1>8
<1>10. n.source = SourceId(d, "config")
  BY <1>8, <1>9 DEF SourceId
<1> QED
  BY <1>4, <1>5, <1>6, <1>10, InternalRead

\* What a query about the current state expects is retrievable once the deletions are done.
LEMMA ExpectedIsSeen ==
    ASSUME NEW ds \in Dataset, NEW i \in 1..Len(QueriesOf[ds]),
           QueriesOf[ds][i].state # "historical",
           NEW c \in QueriesOf[ds][i].seeds \cup QueriesOf[ds][i].graph
    PROVE  c \in Seen(QueriesOf[ds][i], QueriesOf[ds][i].allowed, ds, TRUE)
<1> DEFINE cfg == config[ds]
           q == QueriesOf[ds][i]
           d == (i - 1) % cfg.domains
           v == cfg.versions
<1>1. Valid(cfg) /\ cfg.domains \in Nat \ {0} /\ cfg.versions \in Nat \ {0}
  BY EvaluationAssumption, ConfigNumbers DEF Valid
<1>2. Len(QueriesOf[ds]) \in Nat /\ i - 1 \in Nat /\ q = QueryRecord(cfg, i - 1)
  BY QueriesAre
<1>3. d \in Domains(cfg)
  BY <1>1, <1>2, DivMod DEF Domains
<1>4. ExpectedVersion(cfg, i - 1) = v
  BY <1>2 DEF QueryRecord, ExpectedState, ExpectedVersion
<1>5. PICK t \in ExpectedTypes : c = ChunkId(d, t, 1, v)
  BY <1>2, <1>4 DEF QueryRecord, ExpectedTypes
<1>6. PICK a \in Slot(cfg, d, v) :
        c = ChunkOf(a) /\ SecurityValues(cfg.seed, a).acl \in q.allowed
  BY <1>1, <1>2, <1>4, ExpectedIsGenerated
<1>7. a \in Addresses(cfg)
  <2>1. v \in Versions(cfg)
    BY <1>1 DEF Versions
  <2> QED
    BY <1>3, <1>6, <2>1 DEF Addresses
<1>8. a.domain = d /\ a.type = t /\ a.version = v
  BY <1>5, <1>6 DEF ChunkOf, ChunkId
<1> DEFINE n == NodeRecord(cfg, a)
           x == [dataset |-> ds, deleted |-> TRUE, node |-> n]
<1>9. /\ n.chunk = c /\ n.domain = d /\ n.version = v /\ n.source = SourceId(d, t)
      /\ n.tenant = TenantOf(cfg, d) /\ n.acl = {SecurityValues(cfg.seed, a).acl}
  BY <1>6, <1>8 DEF NodeRecord
<1>10. t \in NodeType /\ t # "config"
  BY TemplateTypes DEF ExpectedTypes, EdgeTemplates
<1>11. n \in HeldBy(ds, d, TRUE)
  <2>1. Reader!CurrentVersions(Files[ds][d]["internal"])[n.source] = n.version
    BY <1>3, <1>9, <1>10, InternalRead
  <2>2. n.source \notin Reader!DeletedSources(Files[ds][d]["internal"])
    BY <1>3, <1>9, <1>10, InternalRead DEF SourceId
  <2>3. \E j \in DOMAIN NodesFile(cfg) : n = NodesFile(cfg)[j]
    <3>1. PICK S : NodesFile(cfg) \in Seq(S)
      BY <1>1, NodesFileIs
    <3>2. DOMAIN NodesFile(cfg) = 1..Len(NodesFile(cfg))
      BY <3>1
    <3> QED
      BY <1>1, <1>7, <3>2, NodesFileIs
  <2> HIDE DEF n
  <2> QED
    BY <1>9, <2>1, <2>2, <2>3 DEF HeldBy
<1> HIDE DEF n
<1>12. x \in Active
  <2> DEFINE held(e, deleted) ==
               {[dataset |-> ds, deleted |-> deleted, node |-> m] : m \in HeldBy(ds, e, deleted)}
             yes == TRUE
             D == Domains(cfg)
             parts == {held(e, deleted) : e \in D, deleted \in BOOLEAN}
             whole(y) == UNION {{[dataset |-> y, deleted |-> deleted, node |-> m] :
                                   m \in HeldBy(y, e, deleted)} :
                                e \in Domains(config[y]), deleted \in BOOLEAN}
  <2>1. x \in held(d, yes)
    BY <1>11
  <2>2. d \in D /\ yes \in BOOLEAN
    BY <1>3
  <2>3. x \in UNION parts
    <3> HIDE DEF x, held, d, cfg, yes, D
    <3>1. held(d, yes) \in parts
      BY <2>2
    <3> HIDE DEF parts
    <3> QED
      BY <2>1, <3>1
  <2>4. whole(ds) = UNION parts
    OBVIOUS
  <2>5. Active = UNION {whole(y) : y \in Dataset}
    BY DEF Active
  <2> HIDE DEF x, parts, whole
  <2> DEFINE part == whole(ds)
             all == {whole(y) : y \in Dataset}
  <2>6. part \in all
    OBVIOUS
  <2> HIDE DEF part, all
  <2> QED
    BY <2>3, <2>4, <2>5, <2>6 DEF part, all
<1>13. q.domain = d /\ q.tenant = TenantOf(cfg, d)
  BY <1>2 DEF QueryRecord
<1>14. Retrievable(q, q.allowed, n)
  <2> DEFINE r == Subject(q, q.allowed)
             s == Stored(n)
  <2>1. /\ r.domain = d /\ r.tenant = TenantOf(cfg, d) /\ r.acl = q.allowed
        /\ s.domain = d /\ s.tenant = TenantOf(cfg, d)
        /\ s.acl = {SecurityValues(cfg.seed, a).acl}
    BY <1>9, <1>13 DEF Subject, Stored
  <2>2. s.acl \cap r.acl # {} /\ r.acl # {}
    BY <1>6, <2>1
  <2>3. SamePlace(r, s)
    BY <2>1 DEF SamePlace
  <2>4. NoModel.kind = "none"
    BY DEF NoModel
  <2> HIDE DEF r, s
  <2>5. Found(NoModel, r, s)
    BY <2>2, <2>3, <2>4 DEF Found, SearchSecurity
  <2>6. Loaded(NoModel, r, s)
    BY <2>2, <2>3, <2>4 DEF Loaded, GraphSecurity
  <2>7. Boundary(NoModel, r, s) = "allowed"
    BY <2>2, <2>3, <2>4 DEF Boundary, DocumentVisible
  <2> QED
    BY <2>5, <2>6, <2>7 DEF Retrievable, r, s
<1>15. x.dataset = ds /\ x.deleted = TRUE /\ x.node = n
  OBVIOUS
<1> HIDE DEF x
<1> QED
  BY <1>9, <1>12, <1>14, <1>15 DEF Seen, q

\* Whatever configuration validate_config accepts and whatever security values are drawn: the import
\* of every domain of every generated dataset gets through in the scope internal, and in the scope
\* complete exactly if none of its relationships leads into another domain; and the queries about
\* the current state find what they expect and nothing they forbid.
THEOREM EveryDatasetIsUsable == \A ds \in Dataset : ds \in Usable
<1> SUFFICES ASSUME NEW ds \in Dataset PROVE ds \in Usable
  OBVIOUS
<1>1. ImportsWholly(ds)
  <2>1. "internal" \in RelationshipScope /\ "complete" \in RelationshipScope
    BY DEF RelationshipScope
  <2> QED
    BY <2>1, EveryFileImports, LeavingIsRefused DEF ImportsWholly, ImportsInScope
<1>2. ServesExpectations(ds)
  <2> DEFINE Q == QueriesOf[ds]
  <2>1. DOMAIN Q = 1..Len(Q)
    <3>1. Len(Q) = config[ds].queries
      BY QueriesAre
    <3>2. DOMAIN Q = 1..config[ds].queries
      BY DEF QueriesOf
    <3> QED
      BY <3>1, <3>2
  <2>2. ASSUME NEW i \in 1..Len(Q), Q[i].state # "historical"
        PROVE  /\ Q[i].seeds \cup Q[i].graph \subseteq Seen(Q[i], Q[i].allowed, ds, TRUE)
               /\ Q[i].forbidden \cap Seen(Q[i], Q[i].allowed, ds, TRUE) = {}
    BY <2>2, ExpectedIsSeen, ForbiddenIsGone
  <2> QED
    BY <2>1, <2>2 DEF ServesExpectations
<1> QED
  BY <1>1, <1>2 DEF Usable

\* In particular every dataset that is ever in place.
THEOREM PublishedAlwaysUsable == Spec => []PublishedIsUsable
<1>1. PublishedIsUsable
  BY EveryDatasetIsUsable DEF PublishedIsUsable
<1> QED
  BY <1>1, PTL

-----------------------------------------------------------------------------
(* Reports: a query that is not answered too early finds the deletions     *)
(* done, so of one dataset nothing forbidden can come back.                *)

(* Sums of leaks *)

\* The leaks of one answer.
LEMMA LeaksIs ==
    ASSUME NEW q, NEW a, IsFiniteSet(q.forbidden)
    PROVE  /\ Leaks(q, a) \in Nat
           /\ Leaks(q, a) = 0 <=> q.forbidden \cap (a.seeds \cup a.graph \cup a.cited) = {}
<1> DEFINE F == q.forbidden
<1>1. \A X : /\ IsFiniteSet(F \cap X) /\ Cardinality(F \cap X) \in Nat
             /\ Cardinality(F \cap X) = 0 <=> F \cap X = {}
  <2> SUFFICES ASSUME NEW X
               PROVE  /\ IsFiniteSet(F \cap X) /\ Cardinality(F \cap X) \in Nat
                      /\ Cardinality(F \cap X) = 0 <=> F \cap X = {}
    OBVIOUS
  <2>1. F \cap X \in SUBSET F
    OBVIOUS
  <2>2. IsFiniteSet(F \cap X)
    BY <2>1, FS_Subset
  <2> QED
    BY <2>2, FS_CardinalityType, FS_EmptySet
<1>2. Leaks(q, a) = Cardinality(F \cap a.seeds) + Cardinality(F \cap a.graph)
                    + Cardinality(F \cap a.cited)
  BY DEF Leaks
<1>3. F \cap (a.seeds \cup a.graph \cup a.cited) = {} <=>
        F \cap a.seeds = {} /\ F \cap a.graph = {} /\ F \cap a.cited = {}
  OBVIOUS
<1> DEFINE x == Cardinality(F \cap a.seeds)
           y == Cardinality(F \cap a.graph)
           z == Cardinality(F \cap a.cited)
<1>4. x \in Nat /\ y \in Nat /\ z \in Nat
  BY <1>1
<1>5. /\ x = 0 <=> F \cap a.seeds = {}
      /\ y = 0 <=> F \cap a.graph = {}
      /\ z = 0 <=> F \cap a.cited = {}
  BY <1>1
<1>6. Leaks(q, a) = x + y + z
  BY <1>2
<1> HIDE DEF x, y, z
<1>7. x + y + z \in Nat /\ (x + y + z = 0 <=> x = 0 /\ y = 0 /\ z = 0)
  BY <1>4
<1> QED
  BY <1>3, <1>5, <1>6, <1>7

\* What the analyzer adds up is zero if no answer has anything that its query forbids.
LEMMA SummaryIs ==
    ASSUME NEW ds \in Dataset, NEW S, NEW answers \in Seq(S), Len(answers) = Len(QueriesOf[ds])
    PROVE  /\ Summary(QueriesOf[ds], answers).leaks \in Nat
           /\ Summary(QueriesOf[ds], answers).leaks = 0 <=>
                 \A i \in 1..Len(answers) :
                    QueriesOf[ds][i].forbidden \cap
                       (answers[i].seeds \cup answers[i].graph \cup answers[i].cited) = {}
<1> DEFINE n == Len(answers)
           Q == QueriesOf[ds]
           rows == [i \in DOMAIN answers |-> Metrics(Q[i], answers[i])]
           leaks == [i \in 1..n |-> Leaks(Q[i], answers[i])]
<1>1. n \in Nat /\ DOMAIN answers = 1..n
  OBVIOUS
<1>2. \A i \in 1..n : /\ Leaks(Q[i], answers[i]) \in Nat
                      /\ Leaks(Q[i], answers[i]) = 0 <=>
                            Q[i].forbidden \cap
                              (answers[i].seeds \cup answers[i].graph \cup answers[i].cited) = {}
  <2> SUFFICES ASSUME NEW i \in 1..n
               PROVE  /\ Leaks(Q[i], answers[i]) \in Nat
                      /\ Leaks(Q[i], answers[i]) = 0 <=>
                            Q[i].forbidden \cap
                              (answers[i].seeds \cup answers[i].graph \cup answers[i].cited) = {}
    OBVIOUS
  <2>1. Q[i] = QueryRecord(config[ds], i - 1)
    BY QueriesAre
  <2>2. IsFiniteSet(Q[i].forbidden)
    <3>1. IsFiniteSet({ChunkId(Q[i].domain, "config", 1, config[ds].versions)})
      BY FS_Singleton
    <3> QED
      BY <2>1, <3>1, ForbiddenIs, FS_Subset
  <2> HIDE DEF Q, n
  <2> QED
    BY <2>2, LeaksIs
<1>3. Summary(Q, answers).leaks =
        Total([i \in DOMAIN rows |-> IF i \in DOMAIN rows THEN rows[i].leaks ELSE 0])
  BY DEF Summary
<1>4. [i \in DOMAIN rows |-> IF i \in DOMAIN rows THEN rows[i].leaks ELSE 0] = leaks
  <2>1. DOMAIN rows = 1..n
    BY <1>1
  <2>2. \A i \in 1..n : rows[i].leaks = Leaks(Q[i], answers[i])
    BY <1>1 DEF Metrics
  <2> HIDE DEF rows, n, Q
  <2> QED
    BY <2>1, <2>2
<1>5. leaks \in Seq(Nat) /\ Len(leaks) = n
  <2> HIDE DEF n, Q
  <2>1. leaks \in [1..n -> Nat]
    BY <1>2
  <2> HIDE DEF leaks
  <2> QED
    BY <1>1, <2>1, LenProperties
<1>6. \A i \in 1..n : leaks[i] = Leaks(Q[i], answers[i])
  OBVIOUS
<1> HIDE DEF rows, leaks, Q, n
<1>7. /\ Total(leaks) \in Nat
      /\ Total(leaks) = 0 <=> \A i \in 1..n : leaks[i] = 0
  BY <1>5, TotalIs
<1> QED
  BY <1>2, <1>3, <1>4, <1>6, <1>7 DEF Q, n

(* Steps *)

CleanAnswer(q, a) == q.forbidden \cap (a.seeds \cup a.graph \cup a.cited) = {}

\* Unless a query was answered too early, the product has done its deletions, and if it holds
\* the dataset of the queries, nothing that they forbid came back.
Timely(cur, r) == ~ r.early => \A i \in 1..Len(r.answers) :
    /\ cur # None /\ cur.deleted
    /\ cur.dataset = r.queries => CleanAnswer(QueriesOf[r.queries][i], r.answers[i])

Imported(cur) ==
    cur = [dataset |-> cur.dataset, deleted |-> cur.deleted] /\ cur.deleted \in BOOLEAN

\* The results have one answer for each query of a dataset, of which they need not be.
Analyzed(ds, r) ==
    ds \in Dataset /\ r # None /\ Len(r.answers) = Len(QueriesOf[ds])

\* The analyzer has read the answers of the results file, or none.
ReadInv(an, r) == an # None =>
    /\ an = [queries |-> an.queries, answers |-> an.answers, begun |-> an.begun]
    /\ an.queries \in Dataset
    /\ an.begun \/ an.answers # None => Analyzed(an.queries, r) /\ an.answers = r.answers

ReportInv(rep, r) == rep # None =>
    /\ rep = [queries |-> rep.queries, written |-> rep.written,
              passed |-> rep.passed, leaks |-> rep.leaks]
    /\ Analyzed(rep.queries, r)
    /\ rep.passed = Passes(Summary(QueriesOf[rep.queries], r.answers))
    /\ rep.leaks = Summary(QueriesOf[rep.queries], r.answers).leaks

ReportsInv ==
    /\ results # None => asking = None
    /\ corpus # None => Imported(corpus)
    /\ asking # None => Timely(corpus, asking)
    /\ results # None => Timely(corpus, results)
    /\ ReadInv(analysis, results)
    /\ ReportInv(reports, results)

ReportsNext ==
    /\ results' # None => asking' = None
    /\ corpus' # None => Imported(corpus')
    /\ asking' # None => Timely(corpus', asking')
    /\ results' # None => Timely(corpus', results')
    /\ ReadInv(analysis', results')
    /\ ReportInv(reports', results')

LEMMA ReportsNextIs == ReportsNext <=> ReportsInv'
BY DEF ReportsNext, ReportsInv, Timely, Imported, ReadInv, ReportInv, Analyzed, CleanAnswer

\* What an answer brings is visible when it is given.
LEMMA AnswerIsVisible ==
    ASSUME NEW q, NEW outcome, NEW a, a = Answer(q, outcome)
    PROVE  a.seeds \cup a.graph \cup a.cited \subseteq Visible(q)
<1> DEFINE found == outcome.found \cap Visible(q)
           expanded == outcome.expanded \cap Visible(q)
<1>1. CASE ~ outcome.ok
  BY <1>1 DEF Answer
<1>2. CASE outcome.ok
  <2>1. /\ a.seeds = (IF outcome.trace THEN found ELSE {})
        /\ a.graph = (IF outcome.trace THEN Expanded(found, expanded) ELSE {})
        /\ a.cited = (IF outcome.cites THEN found \cup expanded ELSE {})
    BY <1>2 DEF Answer
  <2>2. Expanded(found, expanded) \subseteq expanded
    BY DEF Expanded
  <2>3. found \subseteq Visible(q) /\ expanded \subseteq Visible(q)
    OBVIOUS
  <2> HIDE DEF found, expanded
  <2> QED
    BY <2>1, <2>2, <2>3
<1> QED
  BY <1>1, <1>2

\* An answer keeps the results timely.
LEMMA AskedTimely ==
    ASSUME ResultsInv, ReportsInv, HasNext, NEW outcome
    PROVE  Timely(corpus, Asked(Answer(NextQuery, outcome)))
<1> DEFINE a == Answer(NextQuery, outcome)
           r == Asked(a)
           s == asking.answers
           q == asking.queries
<1>1. asking # None /\ Answered(asking) /\ Timely(corpus, asking)
  BY DEF HasNext, ResultsInv, ReportsInv
<1>2. asking = [queries |-> q, answers |-> s, early |-> asking.early] /\ q \in Dataset
  BY <1>1 DEF Answered
<1>3. /\ r.queries = q /\ r.answers = Append(s, a)
      /\ r.early = (asking.early \/ corpus = None \/ ~corpus.deleted)
  BY <1>2 DEF Asked
<1>4. PICK S : s \in Seq(S)
  BY <1>1 DEF Answered
<1>5. /\ Len(Append(s, a)) = Len(s) + 1 /\ Append(s, a)[Len(s) + 1] = a /\ Len(s) \in Nat
      /\ \A i \in 1..Len(s) : Append(s, a)[i] = s[i]
  <2>1. s \in Seq(S \cup {a}) /\ a \in S \cup {a}
    BY <1>4
  <2> QED
    BY <2>1, AppendProperties, LenProperties
<1> SUFFICES ASSUME ~ r.early, NEW i \in 1..Len(r.answers)
             PROVE  /\ corpus # None /\ corpus.deleted
                    /\ corpus.dataset = r.queries =>
                          CleanAnswer(QueriesOf[r.queries][i], r.answers[i])
  BY DEF Timely
<1>6. ~ asking.early /\ corpus # None /\ corpus.deleted
  BY <1>3
<1>7. CASE i \in 1..Len(s)
  <2>1. Append(s, a)[i] = s[i]
    BY <1>5, <1>7
  <2>2. corpus.dataset = q => CleanAnswer(QueriesOf[q][i], s[i])
    BY <1>1, <1>6, <1>7 DEF Timely
  <2> HIDE DEF r, s, q, a
  <2> QED
    BY <1>3, <1>6, <2>1, <2>2
<1>8. CASE i = Len(s) + 1
  <2>1. ASSUME corpus.dataset = q PROVE CleanAnswer(QueriesOf[q][i], a)
    <3>1. Visible(NextQuery) = Seen(NextQuery, Held, q, TRUE)
      <4>1. corpus.deleted = TRUE
        <5>1. corpus.deleted \in BOOLEAN
          BY <1>6 DEF ReportsInv, Imported
        <5> QED
          BY <1>6, <5>1
      <4> QED
        BY <1>6, <2>1, <4>1 DEF Visible
    <3>2. a.seeds \cup a.graph \cup a.cited \subseteq Seen(NextQuery, Held, q, TRUE)
      BY <3>1, AnswerIsVisible
    <3>3. i \in 1..Len(QueriesOf[q])
      <4>1. Len(QueriesOf[q]) \in Nat /\ Len(s) < Len(QueriesOf[q])
        BY <1>2, QueriesAre DEF HasNext
      <4> QED
        BY <1>5, <1>8, <4>1
    <3>4. QueriesOf[q][i].forbidden \cap Seen(NextQuery, Held, q, TRUE) = {}
      BY <1>2, <3>3, ForbiddenIsGone
    <3> HIDE DEF a, q, s
    <3> QED
      BY <3>2, <3>4 DEF CleanAnswer
  <2>2. Append(s, a)[i] = a
    BY <1>5, <1>8
  <2> HIDE DEF r, s, q, a
  <2> QED
    BY <1>3, <1>6, <2>1, <2>2
<1> QED
  BY <1>3, <1>5, <1>7, <1>8

\* Every step keeps the invariant.
LEMMA ReportsStep ==
    ASSUME ResultsInv, ReportsInv, [Next]_vars
    PROVE  ReportsNext
<1>1. CASE UNCHANGED evaluationVars
  BY <1>1 DEF evaluationVars, ReportsInv, ReportsNext
<1>2. CASE ImportSources
  <2>1. /\ corpus = None /\ corpus' = [dataset |-> output, deleted |-> FALSE]
        /\ UNCHANGED <<asking, results, analysis, reports>>
    BY <1>2 DEF ImportSources
  <2>2. Imported(corpus')
    BY <2>1 DEF Imported
  <2>3. \A r : Answered(r) /\ Timely(None, r) => Timely(corpus', r)
    BY DEF Timely
  <2> QED
    BY <2>1, <2>2, <2>3 DEF ReportsInv, ReportsNext, ResultsInv
<1>3. CASE ImportDeletions
  <2>1. /\ corpus # None /\ ~ corpus.deleted /\ corpus' = [corpus EXCEPT !.deleted = TRUE]
        /\ UNCHANGED <<asking, results, analysis, reports>>
    BY <1>3 DEF ImportDeletions
  <2>2. corpus = [dataset |-> corpus.dataset, deleted |-> corpus.deleted]
    BY <2>1 DEF ReportsInv, Imported
  <2>3. corpus' = [dataset |-> corpus.dataset, deleted |-> TRUE]
    BY <2>1, <2>2
  <2>4. Imported(corpus')
    BY <2>3 DEF Imported
  <2>5. \A r : Timely(corpus, r) => Timely(corpus', r)
    BY <2>1 DEF Timely
  <2> QED
    BY <2>1, <2>4, <2>5 DEF ReportsInv, ReportsNext
<1>4. CASE OpenQueries
  <2>1. /\ asking' = [queries |-> output, answers |-> <<>>, early |-> FALSE]
        /\ results = None /\ UNCHANGED <<corpus, results, analysis, reports>>
    BY <1>4 DEF OpenQueries
  <2>2. Timely(corpus', asking')
    <3>1. asking'.answers = <<>> /\ Len(<<>>) = 0
      BY <2>1
    <3> QED
      BY <3>1 DEF Timely
  <2> QED
    BY <2>1, <2>2 DEF ReportsInv, ReportsNext
<1>5. CASE Ask
  <2>1. PICK outcome \in Outcomes(NextQuery) : asking' = Asked(Answer(NextQuery, outcome))
    BY <1>5 DEF Ask
  <2>2. HasNext /\ asking # None /\ UNCHANGED <<corpus, results, analysis, reports>>
    BY <1>5 DEF Ask, HasNext
  <2>3. Timely(corpus, asking')
    BY <2>1, <2>2, AskedTimely
  <2>4. results = None
    BY <2>2 DEF ReportsInv
  <2> QED
    BY <2>2, <2>3, <2>4 DEF ReportsInv, ReportsNext
<1>6. CASE StoreResults
  <2>1. /\ asking # None /\ results' = asking /\ asking' = None
        /\ UNCHANGED <<corpus, analysis, reports>>
    BY <1>6 DEF StoreResults
  <2>2. results = None
    BY <2>1 DEF ReportsInv
  <2>3. ReadInv(analysis, results')
    BY <2>2 DEF ReportsInv, ReadInv, Analyzed
  <2>4. ReportInv(reports, results')
    BY <2>2 DEF ReportsInv, ReportInv, Analyzed
  <2> QED
    BY <2>1, <2>3, <2>4 DEF ReportsInv, ReportsNext
<1>7. CASE BreakOffRun
  BY <1>7 DEF BreakOffRun, ReportsInv, ReportsNext
<1>8. CASE ReadQueries
  <2>1. /\ analysis' = [queries |-> output, answers |-> None, begun |-> FALSE] /\ output \in Dataset
        /\ UNCHANGED <<corpus, asking, results, reports>>
    BY <1>8 DEF ReadQueries
  <2>2. ReadInv(analysis', results')
    <3>1. analysis'.answers = None /\ analysis'.queries = output /\ ~analysis'.begun
      BY <2>1
    <3> QED
      BY <2>1, <3>1 DEF ReadInv
  <2> QED
    BY <2>1, <2>2 DEF ReportsInv, ReportsNext
<1>9. CASE ReadResults
  <2>1. /\ analysis # None /\ UNCHANGED <<corpus, asking, results, reports>>
        /\ analysis' = IF results # None /\ Len(results.answers) = Len(QueriesOf[analysis.queries])
                       THEN [analysis EXCEPT !.answers = results.answers] ELSE None
    BY <1>9 DEF ReadResults
  <2>2. ReadInv(analysis', results)
    <3>1. CASE analysis' = None
      BY <3>1 DEF ReadInv
    <3>2. CASE /\ results # None /\ Len(results.answers) = Len(QueriesOf[analysis.queries])
               /\ analysis' = [analysis EXCEPT !.answers = results.answers]
      <4> DEFINE q == analysis.queries
                 b == analysis.begun
                 old == analysis.answers
                 new == results.answers
      <4>1. analysis = [queries |-> q, answers |-> old, begun |-> b] /\ q \in Dataset
        BY <2>1 DEF ReportsInv, ReadInv
      <4>3. results # None /\ Len(new) = Len(QueriesOf[q])
        BY <3>2
      <4> HIDE DEF q, b, old, new
      <4>4. analysis' = [queries |-> q, answers |-> new, begun |-> b]
        BY <3>2, <4>1 DEF new
      <4>5. analysis'.queries = q /\ analysis'.answers = new /\ analysis'.begun = b
        BY <4>4
      <4> QED
        BY <4>1, <4>3, <4>4, <4>5 DEF ReadInv, Analyzed, new
    <3> QED
      BY <2>1, <3>1, <3>2
  <2> QED
    BY <2>1, <2>2 DEF ReportsInv, ReportsNext
<1>10. CASE BeginReports
  <2>1. /\ analysis # None /\ analysis.answers # None
        /\ analysis' = [analysis EXCEPT !.begun = TRUE]
        /\ UNCHANGED <<corpus, asking, results, reports>>
    BY <1>10 DEF BeginReports
  <2>2. ReadInv(analysis', results)
    <3> DEFINE q == analysis.queries
               a == analysis.answers
               b == analysis.begun
    <3>1. /\ analysis = [queries |-> q, answers |-> a, begun |-> b] /\ q \in Dataset
          /\ a # None /\ Analyzed(q, results) /\ a = results.answers
      BY <2>1 DEF ReportsInv, ReadInv
    <3> HIDE DEF q, a, b
    <3>2. analysis' = [queries |-> q, answers |-> a, begun |-> TRUE]
      BY <2>1, <3>1
    <3>3. analysis'.queries = q /\ analysis'.answers = a /\ analysis'.begun = TRUE
      BY <3>2
    <3> QED
      BY <3>1, <3>2, <3>3 DEF ReadInv
  <2> QED
    BY <2>1, <2>2 DEF ReportsInv, ReportsNext
<1>11. CASE PublishReport
  <2> DEFINE summary == Summary(QueriesOf[analysis.queries], analysis.answers)
             written == Written + 1
  <2>1. /\ analysis # None /\ analysis.begun
        /\ reports' = [queries |-> analysis.queries, written |-> written,
                       passed |-> Passes(summary), leaks |-> summary.leaks]
        /\ UNCHANGED <<corpus, asking, results, analysis>>
    BY <1>11 DEF PublishReport
  <2>2. Analyzed(analysis.queries, results) /\ analysis.answers = results.answers
    BY <2>1 DEF ReportsInv, ReadInv
  <2> DEFINE passed == Passes(summary)
             leaks == summary.leaks
             asked == analysis.queries
  <2>3. /\ passed = Passes(Summary(QueriesOf[asked], results.answers))
        /\ leaks = Summary(QueriesOf[asked], results.answers).leaks
        /\ Analyzed(asked, results)
    BY <2>2
  <2>4. reports' = [queries |-> asked, written |-> written, passed |-> passed, leaks |-> leaks]
    BY <2>1
  <2> HIDE DEF summary, written, passed, leaks, asked
  <2>5. reports'.queries = asked /\ reports'.passed = passed /\ reports'.leaks = leaks
        /\ reports'.written = written
    BY <2>4
  <2>6. ReportInv(reports', results)
    BY <2>3, <2>4, <2>5 DEF ReportInv
  <2> QED
    BY <2>1, <2>6 DEF ReportsInv, ReportsNext
<1>12. CASE EndAnalysis
  <2>1. analysis' = None /\ UNCHANGED <<corpus, asking, results, reports>>
    BY <1>12 DEF EndAnalysis
  <2>2. ReadInv(analysis', results)
    BY <2>1 DEF ReadInv
  <2> QED
    BY <2>1, <2>2 DEF ReportsInv, ReportsNext
<1>13. [Next]_vars => UNCHANGED evaluationVars \/ Evaluate
  BY DEF Next, vars
<1> QED
  BY <1>1, <1>2, <1>3, <1>4, <1>5, <1>6, <1>7, <1>8, <1>9, <1>10, <1>11, <1>12, <1>13 DEF Evaluate

LEMMA ReportsAlways == Spec => [](ResultsInv /\ ReportsInv)
<1>1. Init => ReportsInv
  BY DEF Init, ReportsInv, ReadInv, ReportInv
<1>2. ResultsInv /\ ReportsInv /\ [Next]_vars => ReportsInv'
  BY ReportsStep, ReportsNextIs
<1> QED
  BY <1>1, <1>2, ResultsAlways, PTL DEF Spec

\* Whatever order the processes take, a report passes only without leaks, and where all is of one
\* dataset a leak has the one cause it is expected to have.
THEOREM ReportsAlwaysTrue == Spec => []ReportsAreTrue
<1>1. ASSUME ResultsInv, ReportsInv PROVE ReportsAreTrue
  <2> SUFFICES ASSUME reports # None, results # None
               PROVE  /\ reports.passed => \A i \in DOMAIN results.answers :
                            LET a == results.answers[i] IN
                            QueriesOf[reports.queries][i].forbidden
                               \cap (a.seeds \cup a.graph \cup a.cited) = {}
                      /\ /\ reports.leaks > 0
                         /\ corpus # None
                         /\ {reports.queries, corpus.dataset} = {results.queries}
                         => results.early
    BY DEF ReportsAreTrue
  <2> DEFINE asked == reports.queries
             answers == results.answers
             summary == Summary(QueriesOf[asked], answers)
             Clean == \A i \in 1..Len(answers) : QueriesOf[asked][i].forbidden
                         \cap (answers[i].seeds \cup answers[i].graph \cup answers[i].cited) = {}
  <2>1. /\ asked \in Dataset /\ Len(answers) = Len(QueriesOf[asked])
        /\ reports.passed = Passes(summary) /\ reports.leaks = summary.leaks
    BY <1>1 DEF ReportsInv, ReportInv, Analyzed
  <2>2. PICK S : answers \in Seq(S)
    BY <1>1 DEF ResultsInv, Answered
  <2>3. summary.leaks \in Nat /\ (summary.leaks = 0 <=> Clean)
    BY <2>1, <2>2, SummaryIs
  <2>4. DOMAIN answers = 1..Len(answers)
    BY <2>2
  <2>5. reports.passed => Clean
    BY <2>1, <2>3 DEF Passes
  <2>6. ASSUME corpus # None, {reports.queries, corpus.dataset} = {results.queries}, ~ results.early
        PROVE  Clean
    <3>1. asked = results.queries /\ corpus.dataset = results.queries
      BY <2>6
    <3>2. Timely(corpus, results)
      BY <1>1 DEF ReportsInv
    <3> QED
      BY <2>6, <3>1, <3>2 DEF Timely, CleanAnswer
  <2> HIDE DEF asked, summary
  <2>7. ASSUME reports.leaks > 0, corpus # None,
               {reports.queries, corpus.dataset} = {results.queries}, ~ results.early
        PROVE  FALSE
    <3>1. Clean
      BY <2>6, <2>7
    <3> HIDE DEF Clean
    <3>2. summary.leaks = 0
      BY <2>3, <3>1
    <3> QED
      BY <2>1, <2>7, <3>2
  <2> QED
    BY <2>4, <2>5, <2>7 DEF asked
<1> QED
  BY <1>1, ReportsAlways, PTL
=============================================================================
