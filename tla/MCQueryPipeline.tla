--------------------------- MODULE MCQueryPipeline ---------------------------
(***************************************************************************)
(* The pipelines of pipelines/*.yaml, the routed pipeline of               *)
(* tests/test_pipeline.py, and what an author may make of the direct one:  *)
(* any action inserted anywhere, any step removed, any step leading to any *)
(* other.  They run over two sources with two versions each, which share   *)
(* a chunk identifier and have one chunk that the subject may not see.     *)
(***************************************************************************)
EXTENDS QueryPipeline

CONSTANTS a, b, v1, v2, remote, local, other

MCStepId == 1..10
MCRoute == {"allow", "deny"}
NoRoutes == [r \in MCRoute |-> None]

Linear(actions, max) ==
    LET n == Len(actions) IN
    [entry |-> 1, max_steps |-> max, steps |-> 1..n,
     action |-> [s \in MCStepId |-> IF s <= n THEN actions[s] ELSE "finalize"],
     next |-> [s \in MCStepId |-> IF s < n THEN s + 1 ELSE None],
     routes |-> [s \in MCStepId |-> NoRoutes],
     answers |-> [s \in MCStepId |-> {}],
     end |-> [s \in MCStepId |-> s >= n]]

\* Step s leads to allow and deny, and to nothing else.
Routed(p, s, allow, deny) ==
    [p EXCEPT !.next[s] = None, !.answers[s] = MCRoute,
              !.routes[s] = [r \in MCRoute |-> IF r = "allow" THEN allow ELSE deny]]

Direct == <<"normalize_query", "retrieve", "manage_context_budget",
            "enforce_model_transmission_policy", "call_model", "finalize">>
Graph == InsertAt(Direct, 3, "expand_graph")
Strict == InsertAt(Graph, 5, "require_evidence")
Conversation ==
    <<"normalize_query", "resolve_conversation", "start_conversation_turn",
      "load_conversation_history">> \o Tail(Direct) \o <<"finalize_conversation_turn">>

Shipped == {Linear(Direct, 6), Linear(Graph, 7), Linear(Strict, 8), Linear(Conversation, 10)}

\* The first steps decide between a written and a retrieved answer.
Tested ==
    LET actions == <<"normalize_query", "set_variables", "prefix_router", "set_variables",
                     "retrieve", "manage_context_budget", "set_variables", "finalize">>
    IN {Routed([Linear(actions, max) EXCEPT !.next[4] = 8], 3, 5, 4) : max \in {6, 7}}

\* Two retrievals, with the policy between them or behind them, two expansions in a row, and
\* an evidence that is kept aside while an expansion replaces the hits.
Repeated ==
    {Linear(<<"normalize_query", "retrieve", "manage_context_budget">> \o Tail(Direct), 8),
     Linear(SubSeq(Direct, 1, 4) \o SubSeq(Direct, 2, 3) \o SubSeq(Direct, 5, 6), 8),
     Linear(InsertAt(Graph, 4, "expand_graph"), 8),
     Linear(SubSeq(Direct, 1, 3) \o <<"set_variables", "expand_graph">> \o SubSeq(Direct, 3, 6), 9)}

Inserted(actions) ==
    {Linear(InsertAt(Direct, i, x), Len(Direct) + 1) : i \in 1..(Len(Direct) + 1), x \in actions}

\* An inserted router goes on with the next step, or skips it.
InsertedRouter ==
    {Routed(Linear(InsertAt(Direct, i, x), 7), i, i + 1, IF i = 6 THEN 7 ELSE i + 2)
        : i \in 1..6, x \in Routers}

Shortened == {Linear(RemoveAt(Direct, i), 6) : i \in 1..6} \cup {Linear(Direct, 5)}
Rewired ==
    {[Linear(Direct, 8) EXCEPT !.next[s] = t, !.end[s] = FALSE] : s \in 1..6, t \in 1..6}
\* A step that is no router is left without a transition of its own.
Undecidable == {Routed(Linear(Direct, 6), s, s + 1, s + 1) : s \in 1..5}

MCDefinition ==
    UNION {Shipped, Tested, Repeated, Inserted(Actions), InsertedRouter,
           Shortened, Rewired, Undecidable}

MCHolds == <<a, v1>> :> ChunkId @@ <<a, v2>> :> {1, 3} @@ <<b, v1>> :> ChunkId @@ <<b, v2>> :> {2}
MCLink ==
    {[owner |-> a, version |-> v1, from |-> <<a, 1>>, to |-> <<a, 2>>],
     [owner |-> a, version |-> v1, from |-> <<a, 2>>, to |-> <<b, 1>>],
     [owner |-> a, version |-> v1, from |-> <<a, 2>>, to |-> <<a, 3>>],
     [owner |-> a, version |-> v1, from |-> <<a, 1>>, to |-> <<b, 2>>],
     [owner |-> a, version |-> v2, from |-> <<a, 1>>, to |-> <<a, 3>>],
     [owner |-> b, version |-> v1, from |-> <<b, 2>>, to |-> <<b, 3>>],
     [owner |-> b, version |-> v1, from |-> <<b, 1>>, to |-> <<b, 3>>]}
MCPublished == [s \in Source |-> v1]
MCRepublished == a :> {v2} @@ b :> {v2, Missing}
MCVisible == Node \ {<<b, 2>>}
\* Multiples of six can be divided without a rest by a depth and one.
MCScore == 0..24
MCRelevance ==
    <<a, 1>> :> 18 @@ <<a, 2>> :> 12 @@ <<a, 3>> :> 6 @@
    <<b, 1>> :> 12 @@ <<b, 2>> :> 24 @@ <<b, 3>> :> 6
MCShare == [sd \in MCScore \X (1..MaxDepth) |-> sd[1] \div (sd[2] + 1)]
MCPlace == [n \in Node |-> (IF n[1] = a THEN 0 ELSE 3) + n[2]]
MCSize == [n \in Node |-> IF n[2] = 2 THEN 2 ELSE 1]
MCLabels == [n \in Node |-> IF n[1] = b THEN {"secret"} ELSE {}]

MCProfile == remote :> {} @@ local :> {"secret"} @@ other :> Unprofiled
MCReroute == remote :> local @@ local :> None @@ other :> remote
MCSetting ==
    {[selected |-> remote, external |-> TRUE, subject |-> TRUE, expands |-> TRUE],
     [selected |-> remote, external |-> TRUE, subject |-> FALSE, expands |-> FALSE],
     [selected |-> other, external |-> TRUE, subject |-> TRUE, expands |-> TRUE]}
=============================================================================
