------------------------------ MODULE Pipeline ------------------------------
(***************************************************************************)
(* PipelineValidator.validate, and the control flow of                     *)
(* PipelineEngine.execute for one request over an accepted pipeline: which *)
(* step runs next, what state earlier steps provided, and every way in     *)
(* which the engine itself raises.  What the actions do to their data is   *)
(* in QueryPipeline.                                                       *)
(***************************************************************************)
EXTENDS Naturals, Sequences

CONSTANTS
    StepId, Action, Route,
    StateName,           \* names of the state that actions require and provide
    InitialState,        \* what is there before the first step
    Requires, Provides,  \* action -> names of state
    Router,              \* the actions that answer with a route
    Definition,          \* the pipelines that start-up may be asked to load
    None

\* A parsed pipeline.  answers are the routes that a router's configuration names.
PipelineDefinition ==
    [entry : StepId, max_steps : Nat \ {0}, steps : SUBSET StepId,
     action : [StepId -> Action],
     next : [StepId -> StepId \cup {None}],
     routes : [StepId -> [Route -> StepId \cup {None}]],
     answers : [StepId -> SUBSET Route],
     end : [StepId -> BOOLEAN]]

ASSUME ActionAssumption ==
    /\ Requires \in [Action -> SUBSET StateName]
    /\ Provides \in [Action -> SUBSET StateName]
    /\ InitialState \subseteq StateName
    /\ Router \subseteq Action
ASSUME DefinitionAssumption == Definition \subseteq PipelineDefinition

VARIABLES
    pipeline,   \* the pipeline being loaded or run
    phase,      \* how far loading and the request have come
    pending,    \* calls of walk() that are still to be made, as paths
    walked,     \* the paths for which walk() returned
    at,         \* current: the step to run, or None behind a terminal step
    trace,      \* the steps that have run
    failure     \* the exception that ended the request

validatorVars == <<pending, walked>>
engineVars == <<at, trace, failure>>
controlVars == <<pipeline, phase, pending, walked, at, trace, failure>>

Phases == {"loading", "walking", "refused", "accepted", "running", "answered", "raised"}
Failures == {"step_limit", "transition", "action", "audit"}

ASSUME NoneAssumption == None \notin StepId /\ None \notin Route /\ None \notin Failures

ControlTypeOK ==
    /\ pipeline \in PipelineDefinition
    /\ phase \in Phases
    /\ pending \subseteq Seq(StepId) /\ walked \subseteq Seq(StepId)
    /\ at \in StepId \cup {None}
    /\ trace \in Seq(StepId)
    /\ failure \in Failures \cup {None}

ControlInit ==
    /\ pipeline \in Definition
    /\ phase = "loading"
    /\ pending = {} /\ walked = {}
    /\ at = None /\ trace = <<>> /\ failure = None

-----------------------------------------------------------------------------
(* The parsed definition *)

Declared(p, s) == {r \in Route : p.routes[s][r] # None}
Targets(p, s) ==
    {p.routes[s][r] : r \in Declared(p, s)} \cup
    (IF p.next[s] = None THEN {} ELSE {p.next[s]})

\* A step is terminal or has a transition, and not both.
Transitional(p) == \A s \in p.steps : p.end[s] <=> Targets(p, s) = {}

\* The transitions lead to steps, and a router's configuration names declared routes.
Connected(p) ==
    /\ p.entry \in p.steps
    /\ \A s \in p.steps :
          /\ Targets(p, s) \subseteq p.steps
          /\ p.action[s] \in Router => p.answers[s] # {} /\ p.answers[s] \subseteq Declared(p, s)

EndOf(path) == path[Len(path)]

\* What the steps of a path provide, on top of the initial state.
Provided(path) ==
    InitialState \cup UNION {Provides[pipeline.action[path[i]]] : i \in 1..Len(path)}

-----------------------------------------------------------------------------
(* PipelineValidator.validate *)

Refuse == phase' = "refused" /\ UNCHANGED validatorVars

Validate ==
    /\ phase = "loading"
    /\ IF Transitional(pipeline) /\ Connected(pipeline)
       THEN phase' = "walking" /\ pending' = {<<pipeline.entry>>} /\ UNCHANGED walked
       ELSE Refuse
    /\ UNCHANGED <<pipeline, engineVars>>

Before(path) == SubSeq(path, 1, Len(path) - 1)

\* Mutants: the length is compared before the step itself is counted; the step may
\* require what it provides itself.
WalkAllowedOneMore(path) ==
    /\ \A i \in 1..(Len(path) - 1) : path[i] # EndOf(path)
    /\ Len(path) - 1 <= pipeline.max_steps
    /\ Requires[pipeline.action[EndOf(path)]] \subseteq Provided(Before(path))
WalkAllowedProviding(path) ==
    /\ \A i \in 1..(Len(path) - 1) : path[i] # EndOf(path)
    /\ Len(path) <= pipeline.max_steps
    /\ Requires[pipeline.action[EndOf(path)]] \subseteq Provided(path)

\* No cycle, not too long, and nothing required that is not available.
WalkAllowed(path) ==
    /\ \A i \in 1..(Len(path) - 1) : path[i] # EndOf(path)
    /\ Len(path) <= pipeline.max_steps
    /\ Requires[pipeline.action[EndOf(path)]] \subseteq Provided(Before(path))

\* One call of walk().  The order of the calls decides only which error is reported.
Walk ==
    LET path == CHOOSE p \in pending : TRUE IN
    /\ phase = "walking" /\ pending # {}
    /\ IF WalkAllowed(path)
       THEN /\ walked' = walked \cup {path}
            /\ pending' = (pending \ {path}) \cup
                          {Append(path, t) : t \in Targets(pipeline, EndOf(path))}
            /\ UNCHANGED phase
       ELSE Refuse
    /\ UNCHANGED <<pipeline, engineVars>>

EveryStepVisited == \A s \in pipeline.steps : \E path \in walked : EndOf(path) = s
EveryEndHasResult ==
    \A path \in walked : pipeline.end[EndOf(path)] => "result" \in Provided(path)

Decide ==
    /\ phase = "walking" /\ pending = {}
    /\ phase' = IF EveryStepVisited /\ EveryEndHasResult THEN "accepted" ELSE "refused"
    /\ UNCHANGED <<pipeline, validatorVars, engineVars>>

-----------------------------------------------------------------------------
(* PipelineEngine.execute *)

\* audit.start; an exception here leaves nothing behind.
StartRun ==
    /\ phase = "accepted"
    /\ phase' = "running" /\ at' = pipeline.entry
    /\ UNCHANGED <<pipeline, validatorVars, trace, failure>>

RunFails(why) == phase' = "raised" /\ failure' = why

Running == phase = "running" /\ at # None
LimitReached == Len(trace) + 1 > pipeline.max_steps

\* The action of the step is being executed.
Executing(action) == Running /\ ~LimitReached /\ pipeline.action[at] = action

\* _next_step; None is the end of the pipeline, or a step without a decision.
NextStep(answer) ==
    IF pipeline.end[at] THEN None
    ELSE IF answer # None THEN pipeline.routes[at][answer] ELSE pipeline.next[at]
Undecided(answer) == IF pipeline.end[at] THEN answer # None ELSE NextStep(answer) = None

\* The action returned: the trace grows before the transition is decided, and the
\* step is recorded before it is taken.
StepReturns(answer) ==
    /\ trace' = Append(trace, at)
    /\ \/ ~Undecided(answer) /\ at' = NextStep(answer) /\ UNCHANGED <<phase, failure>>
       \/ RunFails(IF Undecided(answer) THEN "transition" ELSE "audit") /\ UNCHANGED at
    /\ UNCHANGED <<pipeline, validatorVars>>

\* The step limit, or an exception of the action.
StepRaises ==
    /\ RunFails(IF LimitReached THEN "step_limit" ELSE "action")
    /\ UNCHANGED <<pipeline, validatorVars, at, trace>>

\* A router answers with a route of its configuration, any other action with none.
Answers(s) == IF pipeline.action[s] \in Router THEN pipeline.answers[s] ELSE {None}

\* What any action does to the control of the run.
AnyStep ==
    /\ Running
    /\ StepRaises \/ (~LimitReached /\ \E answer \in Answers(at) : StepReturns(answer))

\* The result is built and audit.succeed is called; either may raise.
Answer ==
    /\ phase = "running" /\ at = None
    /\ \/ phase' = "answered" /\ UNCHANGED failure
       \/ RunFails("audit")
    /\ UNCHANGED <<pipeline, validatorVars, at, trace>>

Loading == Validate \/ Walk \/ Decide

ControlNext == Loading \/ StartRun \/ AnyStep \/ Answer

ControlSpec == ControlInit /\ [][ControlNext]_controlVars

-----------------------------------------------------------------------------
(* Properties *)

\* The validator's path limit and the engine's step limit agree although they count
\* in different places: a request over an accepted pipeline never runs a step twice,
\* never meets the limit, and is refused a transition only behind an action that
\* leaves the decision to routes without being a router.
AcceptedRunsAreBounded ==
    /\ failure # "step_limit"
    /\ Len(trace) <= pipeline.max_steps
    /\ \A i, j \in 1..Len(trace) : trace[i] = trace[j] => i = j
    /\ failure = "transition" =>
          pipeline.action[at] \notin Router /\ pipeline.next[at] = None

\* "action preconditions along every possible path" and "a result-producing terminal
\* step on every path": whatever routes a request takes, the step about to run finds
\* everything it requires provided by the steps that did run, and an answered
\* request has a result.
StateIsAvailable ==
    /\ Running => Requires[pipeline.action[at]] \subseteq Provided(trace)
    /\ phase = "answered" => "result" \in Provided(trace)
=============================================================================
