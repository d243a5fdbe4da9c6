----------------------------- MODULE Visibility -----------------------------
(***************************************************************************)
(* Which chunks a subject may see, as the code decides it in three places: *)
(* the filter that the vector search sends to Weaviate, the clause that    *)
(* the graph expansion sends to PostgreSQL, and the boundary that checks   *)
(* what either of them returned.  A domain has one security model of       *)
(* SecurityModelKind, which its configuration may change after documents   *)
(* were ingested under another one.                                        *)
(***************************************************************************)
EXTENDS Naturals

CONSTANTS Domain, Tenant, Label, None

ASSUME VisibilityAssumption == None \notin Label

Kinds == {"none", "clearance_level", "classification_labels"}

\* levels maps the clearance labels of the model to their values, universe holds its
\* classification labels.
SecurityModel ==
    [kind : Kinds, levels : UNION {[S -> Nat] : S \in SUBSET Label}, universe : SUBSET Label]

\* A stored chunk, and the authorization of a request for one domain.
Chunk == [domain : Domain, tenant : Tenant, acl : SUBSET Label,
          clearance : Label \cup {None}, labels : SUBSET Label]
Request == Chunk

-----------------------------------------------------------------------------
(* Ingestion and requests *)

\* _validate_document_security: what ingestion accepts under a model.
Ingestible(m, c) ==
    CASE m.kind = "none" -> c.clearance = None /\ c.labels = {}
      [] m.kind = "clearance_level" -> c.clearance \in DOMAIN m.levels /\ c.labels = {}
      [] m.kind = "classification_labels" -> c.clearance = None /\ c.labels \subseteq m.universe

\* A subject whose own labels are not of the model is refused when a filter is built.
Admissible(m, r) ==
    /\ m.kind = "clearance_level" => r.clearance \in DOMAIN m.levels \cup {None}
    /\ m.kind = "classification_labels" => r.labels \subseteq m.universe

AllowedDocumentLabels(m, r) == {l \in DOMAIN m.levels : m.levels[l] <= m.levels[r.clearance]}

SamePlace(r, c) == c.domain = r.domain /\ c.tenant = r.tenant

-----------------------------------------------------------------------------
(* The three decisions *)

\* _security_filter of weaviate.py forbids every label of the model that the subject
\* does not have.
SearchSecurity(m, r, c) ==
    CASE m.kind = "none" -> TRUE
      [] m.kind = "clearance_level" ->
            r.clearance # None /\ c.clearance \in AllowedDocumentLabels(m, r)
      [] m.kind = "classification_labels" -> c.labels \cap (m.universe \ r.labels) = {}

\* _build_filter: acl_public is stored for a chunk without ACL labels.
Found(m, r, c) ==
    /\ SamePlace(r, c)
    /\ SearchSecurity(m, r, c)
    /\ c.acl = {} \/ (r.acl # {} /\ c.acl \cap r.acl # {})

\* _security_filter of graph.py asks for the subject's labels only.
GraphSecurity(m, r, c) ==
    CASE m.kind = "none" -> TRUE
      [] m.kind = "clearance_level" ->
            r.clearance # None /\ c.clearance \in AllowedDocumentLabels(m, r)
      [] m.kind = "classification_labels" -> c.labels \subseteq r.labels

\* The WHERE clause of _load_chunks.
Loaded(m, r, c) ==
    /\ SamePlace(r, c)
    /\ c.acl = {} \/ c.acl \cap r.acl # {}
    /\ GraphSecurity(m, r, c)

\* document_visible_to_subject, which raises for a label that the model does not have.
DocumentVisible(m, r, c) ==
    CASE m.kind = "none" -> "allowed"
      [] m.kind = "clearance_level" ->
            IF c.clearance = None \/ r.clearance = None THEN "denied"
            ELSE IF {c.clearance, r.clearance} \subseteq DOMAIN m.levels
                 THEN IF m.levels[r.clearance] >= m.levels[c.clearance] THEN "allowed" ELSE "denied"
                 ELSE "invalid"
      [] m.kind = "classification_labels" ->
            IF c.labels \cup r.labels \subseteq m.universe
            THEN IF c.labels \subseteq r.labels THEN "allowed" ELSE "denied"
            ELSE "invalid"

\* _verify_retrieval_boundary: anything but "allowed" ends the request.
Boundary(m, r, c) ==
    IF SamePlace(r, c) /\ (c.acl # {} => c.acl \cap r.acl # {})
    THEN DocumentVisible(m, r, c) ELSE "denied"
=============================================================================
