--------------------------- MODULE QueryPipeline ---------------------------
(***************************************************************************)
(* The actions of a query pipeline over the control flow of Pipeline and   *)
(* the traversal of GraphTraversal: which chunks are retrieved, expanded,  *)
(* put into the evidence, checked by the transmission policy and sent to a *)
(* model server.                                                           *)
(*                                                                         *)
(* A chunk is a node; its text is a length, its ACL is its membership in   *)
(* Visible, its clearance or classification a set of labels.  A clearance  *)
(* level is the set of all levels up to it, so the highest level among     *)
(* chunks is the union of their sets, and "at least" is inclusion.         *)
(***************************************************************************)
EXTENDS Pipeline, GraphTraversal

CONSTANTS
    Size,         \* node -> length of its evidence block
    Label, Labels,\* labels, and node -> the labels its security metadata carries
    TopK, MaxContext,
    Server,       \* configured model servers
    External,     \* those outside the trust boundary
    Profile,      \* server -> labels it may see, or Unprofiled
    Reroute,      \* server -> security_reroute_server_id, or None
    FirstServer,  \* the first one configured
    Setting,      \* what a request and its pipeline say about transmission and expansion
    MaxLoops,     \* of a loop_guard
    Unprofiled    \* a profile of another security model than the domain's

ASSUME QueryAssumption ==
    /\ Size \in [Node -> Nat \ {0}] /\ Labels \in [Node -> SUBSET Label]
    /\ TopK \in Nat \ {0} /\ MaxContext \in Nat \ {0} /\ MaxLoops \in Nat \ {0}
    /\ External \subseteq Server /\ FirstServer \in Server
    /\ Profile \in [Server -> SUBSET Label \cup {Unprofiled}]
    /\ Reroute \in [Server -> Server \cup {None}]
    /\ Setting \subseteq
          [selected : Server, external : BOOLEAN, subject : BOOLEAN, expands : BOOLEAN]

VARIABLES
    setting,     \* selected server, external_transmission, allow_external_model,
                 \* expand_graph.enabled
    seeds,       \* seed_hits
    hits,        \* hits: seeds, then graph hits
    cited,       \* citations and context_chunk_ids, in order
    omitted,     \* omitted_chunk_ids, as nodes
    evidence,    \* the chunks with text in it, and whether it is the empty string
    texts,       \* the chunks whose text was copied from the evidence to answer,
                 \* last_model_response or normalized_query
    policy,      \* model_transmission_checked, _allowed, the nodes it checked
    model,       \* the server behind context.model
    loops,       \* loop_counters
    sent         \* what was sent to a model server, and the policy's nodes then

foundVars == <<seeds, hits>>
budgetVars == <<cited, omitted, evidence, texts>>
modelVars == <<policy, model, sent>>
contextVars == <<foundVars, budgetVars, modelVars, loops>>
queryVars == <<controlVars, graphVars, setting, contextVars>>

Unchecked == [checked |-> FALSE, allowed |-> FALSE, nodes |-> {}]
Transmission == [server : Server, chunks : SUBSET Node, checked : SUBSET Node]

QueryTypeOK ==
    /\ ControlTypeOK /\ GraphTypeOK
    /\ setting \in Setting
    /\ seeds \in Seq(Node) /\ hits \in Seq(Node)
    /\ cited \in Seq(Node) /\ omitted \in Seq(Node)
    /\ evidence \in [chunks : SUBSET Node, empty : BOOLEAN] /\ texts \subseteq Node
    /\ policy \in [checked : BOOLEAN, allowed : BOOLEAN, nodes : SUBSET Node]
    /\ model \in Server
    /\ loops \in [StepId -> 0..1]
    /\ sent \subseteq Transmission

QueryInit ==
    /\ ControlInit /\ GraphInit
    /\ setting \in Setting
    /\ seeds = <<>> /\ hits = <<>> /\ cited = <<>> /\ omitted = <<>>
    /\ evidence = [chunks |-> {}, empty |-> TRUE] /\ texts = {}
    /\ policy = Unchecked
    /\ model = FirstServer
    /\ loops = [s \in StepId |-> 0]
    /\ sent = {}

-----------------------------------------------------------------------------
(* What the built-in actions require and provide *)

StartState == {"command", "domain", "conversation_history_service"}

ActionContract(requires, provides) == [requires |-> requires, provides |-> provides]

Contract ==
    [normalize_query |-> ActionContract({"command"}, {"normalized_query"}),
     retrieve |-> ActionContract({"normalized_query", "domain"}, {"hits"}),
     expand_graph |-> ActionContract({"hits", "domain"}, {"hits"}),
     manage_context_budget |-> ActionContract({"hits"}, {"evidence", "citations"}),
     require_evidence |-> ActionContract({"evidence", "citations"}, {}),
     enforce_model_transmission_policy |->
        ActionContract({"hits", "evidence", "citations"}, {"model_transmission_policy"}),
     call_model |-> ActionContract(
        {"normalized_query", "evidence", "domain", "model_transmission_policy"}, {"answer"}),
     finalize |-> ActionContract({"answer", "citations"}, {"result"}),
     set_variables |-> ActionContract({}, {}),
     prefix_router |-> ActionContract({}, {}),
     json_decision_router |-> ActionContract({}, {}),
     loop_guard |-> ActionContract({}, {}),
     repeat_query_guard |-> ActionContract({}, {}),
     resolve_conversation |-> ActionContract(StartState, {"conversation"}),
     start_conversation_turn |-> ActionContract(
        {"conversation", "conversation_history_service"}, {"conversation_turn"}),
     load_conversation_history |-> ActionContract(
        {"conversation", "conversation_history_service"}, {"conversation_history"}),
     finalize_conversation_turn |-> ActionContract(
        {"conversation_turn", "answer", "conversation_history_service"}, {}),
     fail_conversation_turn |-> ActionContract(
        {"conversation_turn", "conversation_history_service"}, {})]

Actions == DOMAIN Contract
Routers == {"prefix_router", "json_decision_router", "loop_guard", "repeat_query_guard"}
RequiresOf == [a \in Actions |-> Contract[a].requires]
ProvidesOf == [a \in Actions |-> Contract[a].provides]
States ==
    StartState \cup UNION {Contract[a].requires \cup Contract[a].provides : a \in Actions}

\* The registry is the default one, and a loop_guard has the routes on_allow and on_deny.
ASSUME RegistryAssumption ==
    /\ Action = Actions /\ Router = Routers
    /\ Requires = RequiresOf /\ Provides = ProvidesOf /\ InitialState = StartState
    /\ \A p \in Definition : \A s \in p.steps :
          p.action[s] = "loop_guard" => p.answers[s] \in {{}, {"allow", "deny"}}

-----------------------------------------------------------------------------
(* Loading and the frame of a step *)

Load == Loading /\ UNCHANGED <<graphVars, setting, contextVars>>
Run == StartRun /\ UNCHANGED <<graphVars, setting, contextVars>>
Reply == Answer /\ UNCHANGED <<graphVars, setting, contextVars>>

\* Any action may raise: a provider does not answer, or sends something invalid.
Raise ==
    /\ Running /\ StepRaises
    /\ UNCHANGED <<graphVars, setting, contextVars>>

NodesOf(s) == {s[i] : i \in 1..Len(s)}

\* Actions that touch nothing a property here looks at.
Pass ==
    /\ \E a \in {"normalize_query", "resolve_conversation", "start_conversation_turn",
                 "load_conversation_history", "finalize", "finalize_conversation_turn",
                 "fail_conversation_turn"} : Executing(a)
    /\ StepReturns(None)
    /\ UNCHANGED <<graphVars, setting, contextVars>>

\* prefix_router, json_decision_router and repeat_query_guard read text that a model or
\* a client wrote, and answer with any route of their configuration; a prefix_router may
\* copy the evidence to last_model_response.
FollowText ==
    /\ \E a \in Routers \ {"loop_guard"} : Executing(a)
    /\ \/ UNCHANGED texts
       \/ Executing("prefix_router") /\ texts' = texts \cup evidence.chunks
    /\ \E answer \in Answers(at) : StepReturns(answer)
    /\ UNCHANGED <<graphVars, setting, foundVars, cited, omitted, evidence, modelVars, loops>>

\* The two routes of a loop_guard are on_allow and on_deny.
LoopGuard ==
    /\ Executing("loop_guard")
    /\ loops' = [loops EXCEPT ![at] = @ + 1]
    /\ StepReturns(IF loops'[at] <= MaxLoops THEN "allow" ELSE "deny")
    /\ UNCHANGED <<graphVars, setting, foundVars, budgetVars, modelVars>>

\* The rules copy between evidence and the other texts, clear them, or set them to a
\* text that is no chunk's.
SetVariables ==
    /\ Executing("set_variables")
    /\ texts' \in {texts, texts \cup evidence.chunks}
    /\ evidence' \in {evidence, [chunks |-> {}, empty |-> TRUE]} \cup
          {[chunks |-> c, empty |-> FALSE] : c \in SUBSET texts'}
    /\ StepReturns(None)
    /\ UNCHANGED <<graphVars, setting, foundVars, cited, omitted, modelVars, loops>>

-----------------------------------------------------------------------------
(* Retrieval and expansion *)

ById(n) == n[2]

\* search, then the boundary check: a hit that the subject may not see raises.  The hits
\* come in the order of their scores.
Retrieve ==
    /\ Executing("retrieve")
    /\ \E found \in SUBSET Node :
          /\ Cardinality(found) <= TopK
          /\ seeds' = ByScore(found, Relevance)
          /\ \/ found \subseteq Visible /\ hits' = seeds' /\ StepReturns(None)
             \/ ~(found \subseteq Visible) /\ StepRaises /\ UNCHANGED hits
    /\ expansion' = NoExpansion
    /\ UNCHANGED <<current, setting, budgetVars, modelVars, loops>>

\* Mutant: a step that does nothing leaves no trace.
SkipExpansionUnrecorded ==
    /\ Executing("expand_graph") /\ expansion.pc = "off"
    /\ ~setting.expands \/ hits = <<>>
    /\ at' = NextStep(None)
    /\ UNCHANGED <<pipeline, phase, trace, failure, validatorVars>>
    /\ UNCHANGED <<graphVars, setting, contextVars>>

SkipExpansion ==
    /\ Executing("expand_graph") /\ expansion.pc = "off"
    /\ ~setting.expands \/ hits = <<>>
    /\ StepReturns(None)
    /\ UNCHANGED <<graphVars, setting, contextVars>>

\* A retrieved hit has the score of the search; a graph hit, which an expansion before
\* this one left, has what its depth leaves of the score that it inherited.
HitScore(n) ==
    IF n \in NodesOf(seeds) THEN Relevance[n]
    ELSE LET hit == CHOOSE h \in ToSet(expansion.expanded) : h.node = n
         IN Share[<<hit.score, hit.depth>>]

StartExpansion ==
    /\ Executing("expand_graph") /\ expansion.pc = "off"
    /\ setting.expands /\ hits # <<>>
    /\ BeginExpansion([n \in NodesOf(hits) |-> HitScore(n)])
    /\ UNCHANGED <<controlVars, current, setting, contextVars>>

ExpandLevel ==
    /\ Executing("expand_graph")
    /\ Expand
    /\ UNCHANGED <<controlVars, setting, contextVars>>

Import ==
    /\ Executing("expand_graph")
    /\ \E s \in Source : Republish(s)
    /\ UNCHANGED <<controlVars, setting, contextVars>>

FoundNodes == [i \in 1..Len(expansion.expanded) |-> expansion.expanded[i].node]

\* One hit for each chunk_id, where it first occurs: the last seed with that identifier,
\* or the first expanded hit.
Merged ==
    LET all == seeds \o FoundNodes
        firsts == {i \in 1..Len(all) : \A j \in 1..(i - 1) : ById(all[j]) # ById(all[i])}
        Kept(i) ==
            IF i > Len(seeds) THEN all[i]
            ELSE seeds[Highest({j \in 1..Len(seeds) : ById(seeds[j]) = ById(all[i])})]
        order == Keep([i \in 1..Len(all) |-> i], firsts)
    IN [k \in 1..Len(order) |-> Kept(order[k])]

MergeExpansion ==
    /\ Executing("expand_graph") /\ expansion.pc = "done"
    /\ hits' = Merged
    /\ expansion' = [expansion EXCEPT !.pc = "off"]
    /\ StepReturns(None)
    /\ UNCHANGED <<current, setting, seeds, budgetVars, modelVars, loops>>

-----------------------------------------------------------------------------
(* Context budget *)

\* The length of the first i blocks; separators are not counted.
Used(s) == LET used[i \in 0..Len(s)] == IF i = 0 THEN 0 ELSE used[i - 1] + Size[s[i]] IN used

\* The first block that does not fit is cut and ends the context.
Included(used, count) ==
    IF used[count] <= MaxContext THEN count
    ELSE CHOOSE i \in 1..count : used[i] > MaxContext /\ used[i - 1] <= MaxContext

\* Mutant: the first hit behind the one that was cut is forgotten.
OmittedFromNext(included) == included + 2

\* The first hit behind the one that was cut.
OmittedFrom(included) == included + 1

ManageContextBudget ==
    LET used == Used(hits)
        included == Included(used, Len(hits))
    IN
    /\ Executing("manage_context_budget")
    /\ cited' = SubSeq(hits, 1, included)
    /\ omitted' = SubSeq(hits, OmittedFrom(included), Len(hits))
    /\ evidence' = [chunks |-> {hits[i] : i \in {k \in 1..included : used[k - 1] < MaxContext}},
                    empty |-> FALSE]
    /\ StepReturns(None)
    /\ UNCHANGED <<graphVars, setting, foundVars, texts, modelVars, loops>>

RequireEvidence ==
    /\ Executing("require_evidence")
    /\ IF evidence.empty \/ cited = <<>> THEN StepRaises ELSE StepReturns(None)
    /\ UNCHANGED <<graphVars, setting, contextVars>>

-----------------------------------------------------------------------------
(* Transmission policy and model call *)

Requirement(nodes) == UNION {Labels[n] : n \in nodes}

Permits(server, nodes) ==
    /\ server \in External => setting.external /\ setting.subject
    /\ Profile[server] # Unprofiled /\ Requirement(nodes) \subseteq Profile[server]

Decided(allowed, nodes) == [checked |-> TRUE, allowed |-> allowed, nodes |-> nodes]

EnforceOn(nodes) ==
    LET selected == setting.selected
        reroute == Reroute[selected]
    IN
    /\ Executing("enforce_model_transmission_policy")
    /\ IF Permits(selected, nodes)
       THEN model' = selected /\ policy' = Decided(TRUE, nodes) /\ StepReturns(None)
       ELSE IF reroute # None /\ Permits(reroute, nodes)
       THEN model' = reroute /\ policy' = Decided(TRUE, nodes) /\ StepReturns(None)
       ELSE UNCHANGED model /\ policy' = Decided(FALSE, nodes) /\ StepRaises
    /\ UNCHANGED <<graphVars, setting, foundVars, budgetVars, loops, sent>>

\* Mutant: the graph hits are not looked at.
EnforceOnSeeds == EnforceOn(NodesOf(seeds))

\* The selected server, else the server it reroutes to, else the request is refused.
EnforceModelTransmissionPolicy == EnforceOn(NodesOf(hits))

\* The user prompt holds the evidence or not, the query or not, as user_parts say.  What
\* was sent stays sent when the server fails to answer.
CallModel ==
    /\ Executing("call_model")
    /\ IF policy.checked /\ policy.allowed
       THEN /\ \E chunks \in {evidence.chunks, evidence.chunks \cup texts} :
                  sent' = sent \cup
                    {[server |-> model, chunks |-> chunks, checked |-> policy.nodes]}
            /\ StepReturns(None) \/ StepRaises
       ELSE StepRaises /\ UNCHANGED sent
    /\ UNCHANGED <<graphVars, setting, foundVars, budgetVars, policy, model, loops>>

-----------------------------------------------------------------------------

Act ==
    \/ Pass \/ FollowText \/ LoopGuard \/ SetVariables
    \/ Retrieve \/ SkipExpansion \/ StartExpansion \/ ExpandLevel \/ MergeExpansion
    \/ ManageContextBudget \/ RequireEvidence
    \/ EnforceModelTransmissionPolicy \/ CallModel
    \/ Raise

\* Refused at start-up, or the request has ended.
Quiet == phase \in {"refused", "answered", "raised"} /\ UNCHANGED queryVars

QueryNext == Load \/ Run \/ Act \/ Import \/ Reply \/ Quiet

QuerySpec == QueryInit /\ [][QueryNext]_queryVars

-----------------------------------------------------------------------------
(* Properties *)

\* The engine of Pipeline, whose theorems hold for every accepted pipeline, is what runs
\* here: no action changes the control of a request other than by returning or raising.
FollowsPipeline == ControlSpec

Ran(actions) == {i \in 1..Len(trace) : pipeline.action[trace[i]] \in actions}
LastRun(actions) == IF Ran(actions) = {} THEN 0 ELSE Highest(Ran(actions))

BudgetIsLast == LastRun({"retrieve", "expand_graph"}) < LastRun({"manage_context_budget"})

\* A text that was copied from an evidence is one of the hits that there are now: no
\* retrieval or expansion came between that evidence and the last budget.
CopiesAreCurrent ==
    \A i \in Ran({"set_variables", "prefix_router"}) :
        (\E b \in Ran({"manage_context_budget"}) : b < i) =>
            \E b \in Ran({"manage_context_budget"}) :
                LastRun({"retrieve", "expand_graph"}) < b /\ b < i

\* The order that the documentation of the policy asks of a pipeline, and no text kept
\* aside while another retrieval or expansion replaced the hits.
PolicyIsLast ==
    /\ BudgetIsLast
    /\ LastRun({"manage_context_budget"}) < LastRun({"enforce_model_transmission_policy"})
    /\ CopiesAreCurrent

\* A pipeline in which the policy runs "after retrieval, graph expansion, and context
\* budgeting, but before call_model" sends a model only chunks that the policy saw, to a
\* server that may see them, whichever way retrieval, expansion, budget and reroute went.
SentWasChecked == [][
    PolicyIsLast =>
        \A t \in sent' \ sent :
            /\ t.chunks \subseteq t.checked
            /\ Profile[t.server] # Unprofiled
            /\ Requirement(t.checked) \subseteq Profile[t.server]
            /\ t.server \in External => setting.external /\ setting.subject]_queryVars

Ids(nodes) == {ById(n) : n \in nodes}

\* Nothing that was found gets lost on the way to the answer: every chunk identifier that
\* the last search and expansion returned is cited or reported as omitted, in the order of
\* the hits and only once the budget is spent, although the hits were merged in between.
CitedOrOmitted == phase # "raised" /\ expansion.pc = "off" /\ BudgetIsLast =>
    /\ cited \o omitted = hits
    /\ Ids(NodesOf(hits)) = Ids(NodesOf(seeds) \cup NodesFound)
    /\ LET used == Used(cited) IN
         /\ omitted # <<>> => used[Len(cited)] > MaxContext
         /\ \A i \in 1..Len(cited) : used[i - 1] <= MaxContext
=============================================================================
