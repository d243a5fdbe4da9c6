--------------------------- MODULE MCAccessPolicy ---------------------------
(***************************************************************************)
(* A tenant without a policy; two first publications and two that both     *)
(* expect version 1, beside a query with diagnostics and a catalog request *)
(* of the same subject.                                                    *)
(***************************************************************************)
EXTENDS AccessPolicy, TLC

CONSTANTS first, other, narrower, regrouped, query, catalog, x, g, h, c, d, p1, p2, p3

Capability(id, pipeline, diagnostics) ==
    [id |-> id, pipeline |-> pipeline, diagnostics |-> diagnostics]

\* other moves d to another pipeline; narrower keeps c without granting it, on a pipeline
\* that it grants to nobody; regrouped puts the subject into another group.
MCBundle ==
    first :> [version |-> 1, groups |-> {g}, mappings |-> {<<x, g>>},
              capabilities |-> {Capability(c, p1, TRUE), Capability(d, p2, FALSE)},
              grants |-> {<<g, c>>, <<g, d>>}] @@
    other :> [version |-> 1, groups |-> {g}, mappings |-> {<<x, g>>},
              capabilities |-> {Capability(c, p1, FALSE), Capability(d, p3, FALSE)},
              grants |-> {<<g, c>>}] @@
    narrower :> [version |-> 2, groups |-> {g}, mappings |-> {<<x, g>>},
              capabilities |-> {Capability(c, p3, TRUE), Capability(d, p1, TRUE)},
              grants |-> {<<g, d>>}] @@
    regrouped :> [version |-> 3, groups |-> {g, h}, mappings |-> {<<x, h>>},
              capabilities |-> {Capability(c, p2, TRUE)}, grants |-> {<<h, c>>}]
MCExpected == first :> None @@ other :> None @@ narrower :> 1 @@ regrouped :> 1
MCClaims == [r \in Request |-> {x}]
MCWanted == query :> c @@ catalog :> None
=============================================================================
