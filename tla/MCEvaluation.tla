---------------------------- MODULE MCEvaluation ----------------------------
(***************************************************************************)
(* Two datasets of one shape: two domains of one tenant, two versions, one *)
(* chunk more than complete, eight queries of the eight kinds.  Either two *)
(* generators publish them at the same time, or one does while the dataset *)
(* is imported, asked about and analyzed.                                  *)
(***************************************************************************)
EXTENDS Evaluation, TLC

CONSTANTS g1, g2, small, large, public, internal

MCMakes == g1 :> small @@ g2 :> large
Shape == [nodes |-> 42, domains |-> 2, tenants |-> 1, versions |-> 2, edges |-> 6,
          queries |-> 8, seed |-> 0]
MCConfig == small :> Shape @@ large :> [Shape EXCEPT !.nodes = 51, !.tenants = 2, !.seed = 1]

\* In place of a random generator that is seeded with the same sum.
MCSecurityValues(seed, a) ==
    LET value == seed + a.domain * 31 + a.version * 17 + (PlaceOf(a.type) - 1) * 13 + a.instance * 7
    IN [acl |-> IF value % 3 = 0 THEN internal ELSE public, level |-> value % 4]

MCTeams == {{g1, g2}, {g2, Importer, Executor, Analyzer}}

\* For the first query and the last one, everything the properties tell apart; for the
\* others one retrieval that is as good as possible.
Outcome(found, expanded) ==
    [ok |-> TRUE, found |-> found, expanded |-> expanded, cites |-> TRUE, trace |-> TRUE]
Best(q) == Outcome(q.seeds, q.graph)
Failure == [Best([seeds |-> {}, graph |-> {}]) EXCEPT !.ok = FALSE]
MCOutcomes(q) ==
    CASE q.id = 0 -> {Best(q), Outcome(q.graph \ q.seeds, q.graph), Failure,
                      [Best(q) EXCEPT !.trace = FALSE]}
      [] q.id = 7 -> {Outcome({}, {}), Outcome(q.forbidden, {}),
                      [Outcome({}, q.forbidden) EXCEPT !.cites = FALSE]}
      [] OTHER -> {Best(q)}

MCThresholds == [seed |-> 50, graph |-> 40, errors |-> 50]
=============================================================================
