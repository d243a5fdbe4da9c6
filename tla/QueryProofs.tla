----------------------------- MODULE QueryProofs -----------------------------
(***************************************************************************)
(* Theorems about a query, for every pipeline definition, graph, setting   *)
(* and size of a chunk.  What PipelineValidator accepts runs within its    *)
(* promises and the actions of QueryPipeline implement that engine; an     *)
(* expansion finds what is nearest; and what the actions do to their data  *)
(* keeps the answer to what was found, cited and checked.                  *)
(***************************************************************************)
EXTENDS QueryPipeline, DataInduction

-----------------------------------------------------------------------------
(* The validator and the engine *)

Distinct(path) == \A i, j \in 1..Len(path) : path[i] = path[j] => i = j

\* What a path that the validator accepted is, and what one behind it is.
GoodPath(path) ==
    /\ path \in Seq(StepId) /\ Len(path) \in 1..pipeline.max_steps
    /\ Distinct(path)
    /\ EndOf(path) \in pipeline.steps
    /\ Requires[pipeline.action[EndOf(path)]] \subseteq Provided(Before(path))
Proposed(path) ==
    \/ path = <<pipeline.entry>>
    \/ \E w \in walked, s \in pipeline.steps : path = Append(w, s)

Followed(path) ==
    \A t \in Targets(pipeline, EndOf(path)) : Append(path, t) \in walked \cup pending

Admitted == phase \in {"accepted", "running", "answered", "raised"}
NotStarted == phase \in {"loading", "walking", "refused", "accepted"}

\* The validator: what it walked is good, and whatever follows is walked or will be.
WalkInv ==
    /\ \A path \in walked : GoodPath(path)
    /\ \A path \in pending : Proposed(path)
    /\ phase = "loading" => walked = {} /\ pending = {}
    /\ phase = "walking" \/ Admitted =>
          /\ Transitional(pipeline) /\ Connected(pipeline)
          /\ <<pipeline.entry>> \in walked \cup pending
          /\ \A path \in walked : Followed(path)
    /\ Admitted => pending = {} /\ EveryEndHasResult

\* The engine: a request is always on a path that the validator walked.
RunInv ==
    /\ NotStarted => at = None /\ trace = <<>> /\ failure = None
    /\ phase = "running" => failure = None
    /\ phase = "running" /\ at # None => Append(trace, at) \in walked
    /\ phase = "answered" \/ (phase = "running" /\ at = None) =>
          trace \in walked /\ pipeline.end[EndOf(trace)]
    /\ AcceptedRunsAreBounded

\* The definition that was loaded stays.
Typed == pipeline \in Definition /\ ControlTypeOK

Inv == Typed /\ WalkInv /\ RunInv

-----------------------------------------------------------------------------
(* Paths *)

LEMMA PipelineType == Typed => pipeline \in PipelineDefinition
BY DefinitionAssumption DEF Typed

LEMMA AppendPath ==
    ASSUME NEW path \in Seq(StepId), NEW s \in StepId
    PROVE  /\ Append(path, s) \in Seq(StepId)
           /\ Len(Append(path, s)) = Len(path) + 1
           /\ EndOf(Append(path, s)) = s
           /\ \A i \in 1..Len(path) : Append(path, s)[i] = path[i]
           /\ Before(Append(path, s)) = path
<1>1. /\ Append(path, s) \in Seq(StepId)
      /\ Len(Append(path, s)) = Len(path) + 1
      /\ Append(path, s)[Len(path) + 1] = s
      /\ \A i \in 1..Len(path) : Append(path, s)[i] = path[i]
  BY AppendProperties
<1>2. Len(path) \in Nat
  BY LenProperties
<1>3. Before(Append(path, s)) = SubSeq(Append(path, s), 1, Len(path))
  BY <1>1, <1>2 DEF Before
<1>4. SubSeq(Append(path, s), 1, Len(path)) = path
  BY <1>1, <1>2
<1> QED
  BY <1>1, <1>3, <1>4 DEF EndOf

\* What the validator looks at is all that distinguishes an extension.
LEMMA ExtendDistinct ==
    ASSUME NEW path \in Seq(StepId), NEW s \in StepId, Distinct(path),
           \A i \in 1..Len(path) : path[i] # s
    PROVE  Distinct(Append(path, s))
BY AppendPath, LenProperties DEF Distinct

LEMMA StartPath ==
    ASSUME NEW s \in StepId
    PROVE  /\ <<s>> \in Seq(StepId) /\ Len(<<s>>) = 1 /\ EndOf(<<s>>) = s
           /\ Distinct(<<s>>) /\ <<s>> = Append(<< >>, s)
BY DEF EndOf, Distinct

\* One more step of a path is good when walk() allows it.
LEMMA AllowedIsGood ==
    ASSUME Typed, Connected(pipeline), NEW path,
           \A w \in walked : GoodPath(w), Proposed(path), WalkAllowed(path)
    PROVE  GoodPath(path)
<1> USE PipelineType DEF PipelineDefinition
<1>1. CASE path = <<pipeline.entry>>
  <2>1. pipeline.entry \in StepId /\ pipeline.entry \in pipeline.steps
    BY DEF Connected
  <2> QED
    BY <1>1, <2>1, StartPath DEF GoodPath, WalkAllowed
<1>2. CASE \E w \in walked, s \in pipeline.steps : path = Append(w, s)
  <2>1. PICK w \in walked, s \in pipeline.steps : path = Append(w, s)
    BY <1>2
  <2>2. w \in Seq(StepId) /\ Distinct(w) /\ s \in StepId
    BY DEF GoodPath
  <2>3. /\ path \in Seq(StepId) /\ Len(path) = Len(w) + 1 /\ EndOf(path) = s
        /\ \A i \in 1..Len(w) : path[i] = w[i]
    BY <2>1, <2>2, AppendPath
  <2>4. Len(w) \in Nat
    BY <2>2, LenProperties
  <2>5. \A i \in 1..Len(w) : w[i] # s
    BY <2>3, <2>4 DEF WalkAllowed
  <2>6. Distinct(path)
    BY <2>1, <2>2, <2>5, ExtendDistinct
  <2>7. Len(path) \in 1..pipeline.max_steps
    BY <2>3, <2>4 DEF WalkAllowed
  <2> QED
    BY <2>3, <2>6, <2>7 DEF GoodPath, WalkAllowed
<1> QED
  BY <1>1, <1>2 DEF Proposed

\* A request that stands before a step is bounded and finds what the step requires.
LEMMA OnPath ==
    ASSUME Typed, at \in StepId, GoodPath(Append(trace, at))
    PROVE  /\ Len(trace) + 1 <= pipeline.max_steps
           /\ Distinct(trace)
           /\ at \in pipeline.steps
           /\ Requires[pipeline.action[at]] \subseteq Provided(trace)
<1>1. trace \in Seq(StepId)
  BY DEF Typed, ControlTypeOK
<1>2. Len(trace) \in Nat
  BY <1>1, LenProperties
<1>3. /\ Len(Append(trace, at)) = Len(trace) + 1 /\ EndOf(Append(trace, at)) = at
      /\ \A i \in 1..Len(trace) : Append(trace, at)[i] = trace[i]
      /\ Before(Append(trace, at)) = trace
  BY <1>1, AppendPath
<1>4. Distinct(trace)
  BY <1>2, <1>3 DEF GoodPath, Distinct
<1> QED
  BY <1>2, <1>3, <1>4 DEF GoodPath

-----------------------------------------------------------------------------
(* Loading *)

LEMMA InitInv == ControlInit => Inv
<1> SUFFICES ASSUME ControlInit PROVE Inv
  OBVIOUS
<1> USE DEF ControlInit
<1>1. Typed
  BY DefinitionAssumption DEF Typed, ControlTypeOK, Phases, Failures
<1>2. WalkInv
  BY DEF WalkInv, Admitted
<1>3. RunInv
  <2>1. pipeline.max_steps \in Nat
    BY <1>1, PipelineType DEF PipelineDefinition
  <2> QED
    BY <2>1, NoneAssumption DEF RunInv, AcceptedRunsAreBounded, Failures
<1> QED
  BY <1>1, <1>2, <1>3 DEF Inv

\* Paths are good for a pipeline, and a pipeline does not change.
LEMMA GoodStays ==
    ASSUME UNCHANGED pipeline, NEW path
    PROVE  /\ GoodPath(path) => GoodPath(path)'
           /\ EndOf(path)' = EndOf(path) /\ Provided(path)' = Provided(path)
BY DEF GoodPath, EndOf, Provided, Before, Distinct

LEMMA ValidateInv == Inv /\ Validate => Typed' /\ WalkInv'
<1> SUFFICES ASSUME Inv, Validate PROVE Typed' /\ WalkInv'
  OBVIOUS
<1> USE DEF Inv, Validate, Refuse, validatorVars, engineVars
<1>1. pipeline.entry \in StepId
  BY PipelineType DEF PipelineDefinition
<1>2. <<pipeline.entry>> \in Seq(StepId)
  BY <1>1, StartPath
<1>3. Typed'
  BY <1>2 DEF Typed, ControlTypeOK, Phases
<1>4. walked = {} /\ pending = {} /\ walked' = {}
  BY DEF WalkInv
<1>5. (Transitional(pipeline) /\ Connected(pipeline))' \/ phase' = "refused"
  OBVIOUS
<1>6. WalkInv'
  BY <1>4, <1>5 DEF WalkInv, Proposed, Admitted
<1> QED
  BY <1>3, <1>6

LEMMA WalkStepInv == Inv /\ Walk => Typed' /\ WalkInv'
<1> SUFFICES ASSUME Inv, Walk PROVE Typed' /\ WalkInv'
  OBVIOUS
<1> USE DEF Inv
<1>0. PICK path \in pending : path = CHOOSE p \in pending : TRUE
  BY DEF Walk
<1>1. path \in pending /\ Proposed(path)
  BY <1>0 DEF WalkInv
<1>2. UNCHANGED <<pipeline, at, trace, failure>> /\ phase = "walking"
  BY DEF Walk, engineVars
<1>3. CASE ~WalkAllowed(path)
  <2>1. phase' = "refused" /\ UNCHANGED <<pending, walked>>
    BY <1>0, <1>3 DEF Walk, Refuse, validatorVars
  <2>2. Typed'
    BY <1>2, <2>1 DEF Typed, ControlTypeOK, Phases
  <2>3. \A w \in walked : GoodPath(w)'
    BY <1>2, GoodStays DEF WalkInv
  <2>4. \A w \in pending : Proposed(w)'
    BY <1>2, <2>1 DEF WalkInv, Proposed
  <2> QED
    BY <2>1, <2>2, <2>3, <2>4 DEF WalkInv, Admitted
<1>4. CASE WalkAllowed(path)
  <2>1. /\ phase' = phase /\ walked' = walked \cup {path}
        /\ pending' = (pending \ {path}) \cup
                      {Append(path, t) : t \in Targets(pipeline, EndOf(path))}
    BY <1>0, <1>4 DEF Walk
  <2>2. Transitional(pipeline) /\ Connected(pipeline)
    BY <1>2 DEF WalkInv
  <2>3. \A w \in walked : GoodPath(w)
    BY DEF WalkInv
  <2>4. GoodPath(path)
    BY <1>1, <1>4, <2>2, <2>3, AllowedIsGood
  <2>5. EndOf(path) \in pipeline.steps /\ path \in Seq(StepId)
    BY <2>4 DEF GoodPath
  <2>6. \A t \in Targets(pipeline, EndOf(path)) : t \in pipeline.steps /\ t \in StepId
    BY <2>2, <2>5, PipelineType DEF Connected, PipelineDefinition
  <2>7. Typed'
    BY <1>2, <2>1, <2>5, <2>6, AppendPath DEF Typed, ControlTypeOK
  <2>8. \A w \in walked' : GoodPath(w)'
    BY <1>2, <2>1, <2>3, <2>4, GoodStays
  <2>9. \A w \in pending' : Proposed(w)'
    BY <1>2, <2>1, <2>6 DEF WalkInv, Proposed
  <2>10. (Transitional(pipeline) /\ Connected(pipeline))'
    BY <1>2, <2>2
  <2>11. walked \cup pending \subseteq (walked \cup pending)'
    BY <2>1
  <2>12. \A w \in walked' : Followed(w)'
    <3>1. \A w \in walked : Followed(w)
      BY <1>2 DEF WalkInv
    <3>2. \A w \in walked : Followed(w)'
      BY <1>2, <2>11, <3>1 DEF Followed
    <3>3. Followed(path)'
      BY <1>2, <2>1 DEF Followed, EndOf
    <3> QED
      BY <2>1, <3>2, <3>3
  <2>13. <<pipeline'.entry>> \in (walked \cup pending)'
    BY <1>2, <2>11 DEF WalkInv
  <2> QED
    BY <1>2, <2>1, <2>7, <2>8, <2>9, <2>10, <2>12, <2>13 DEF WalkInv, Admitted
<1> QED
  BY <1>3, <1>4

\* Nothing but the loading of a pipeline changes what was walked.
LEMMA WalkKept ==
    ASSUME WalkInv, UNCHANGED <<pipeline, validatorVars>>,
           phase = "walking" \/ Admitted, Admitted' => pending = {} /\ EveryEndHasResult,
           phase' # "loading"
    PROVE  WalkInv'
<1> USE DEF validatorVars
<1>1. \A w \in walked' : GoodPath(w)'
  BY GoodStays DEF WalkInv
<1>2. \A w \in pending' : Proposed(w)'
  BY DEF WalkInv, Proposed
<1>3. (Transitional(pipeline) /\ Connected(pipeline))'
  BY DEF WalkInv
<1>4. \A w \in walked' : Followed(w)'
  BY DEF WalkInv, Followed, EndOf
<1>5. Admitted' => EveryEndHasResult'
  BY DEF EveryEndHasResult, Provided, EndOf
<1> QED
  BY <1>1, <1>2, <1>3, <1>4, <1>5 DEF WalkInv

LEMMA DecideInv == Inv /\ Decide => Typed' /\ WalkInv'
<1> SUFFICES ASSUME Inv, Decide PROVE Typed' /\ WalkInv'
  OBVIOUS
<1>1. Typed'
  BY DEF Inv, Decide, Typed, ControlTypeOK, Phases, validatorVars, engineVars
<1>2. WalkInv'
  BY WalkKept DEF Inv, Decide, Admitted
<1> QED
  BY <1>1, <1>2

LEMMA LoadingInv == Inv /\ Loading => Inv'
<1> SUFFICES ASSUME Inv, Loading PROVE Inv'
  OBVIOUS
<1>1. Typed' /\ WalkInv'
  BY ValidateInv, WalkStepInv, DecideInv DEF Loading
<1>2. UNCHANGED <<pipeline, at, trace, failure>> /\ NotStarted /\ NotStarted'
  BY DEF Loading, Validate, Refuse, Walk, Decide, engineVars, NotStarted
<1>3. RunInv'
  BY <1>2 DEF Inv, RunInv, NotStarted, AcceptedRunsAreBounded
<1> QED
  BY <1>1, <1>3 DEF Inv

-----------------------------------------------------------------------------
(* Running *)

LEMMA StartRunInv == Inv /\ StartRun => Inv'
<1> SUFFICES ASSUME Inv, StartRun PROVE Inv'
  OBVIOUS
<1> USE DEF Inv, StartRun
<1>1. pipeline.entry \in StepId
  BY PipelineType DEF PipelineDefinition
<1>2. Typed'
  BY <1>1 DEF Typed, ControlTypeOK, Phases, validatorVars
<1>3. WalkInv'
  BY WalkKept DEF WalkInv, Admitted
<1>4. Append(trace, at)' \in walked'
  BY <1>1, StartPath DEF WalkInv, RunInv, Admitted, NotStarted, validatorVars
<1>5. at' # None
  BY <1>1, NoneAssumption
<1>6. RunInv'
  BY <1>4, <1>5, NoneAssumption DEF RunInv, NotStarted, AcceptedRunsAreBounded, Failures,
                                   validatorVars
<1> QED
  BY <1>2, <1>3, <1>6

\* A router answers with a declared route, and a step that ends the pipeline is no router.
LEMMA AnswerIsDeclared ==
    ASSUME Typed, Transitional(pipeline), Connected(pipeline),
           at \in pipeline.steps, NEW answer \in Answers(at)
    PROVE  /\ pipeline.end[at] => answer = None
           /\ answer # None => NextStep(answer) \in Targets(pipeline, at) /\ ~Undecided(answer)
           /\ answer = None => pipeline.action[at] \notin Router
<1> USE PipelineType DEF PipelineDefinition
<1>1. Declared(pipeline, at) \subseteq Route /\ None \notin Route
  BY NoneAssumption DEF Declared
<1>2. pipeline.action[at] \in Router => answer \in Declared(pipeline, at)
  BY DEF Connected, Answers
<1>3. pipeline.action[at] \notin Router => answer = None
  BY DEF Answers
<1>4. pipeline.end[at] => Declared(pipeline, at) = {}
  <2>1. pipeline.end[at] => Targets(pipeline, at) = {}
    BY DEF Transitional
  <2>2. \A r \in Declared(pipeline, at) : pipeline.routes[at][r] \in Targets(pipeline, at)
    BY DEF Targets
  <2> QED
    BY <2>1, <2>2
<1>5. answer \in Declared(pipeline, at) =>
          pipeline.routes[at][answer] \in Targets(pipeline, at) /\ pipeline.routes[at][answer] # None
  BY DEF Targets, Declared
<1> QED
  BY <1>1, <1>2, <1>3, <1>4, <1>5 DEF NextStep, Undecided

LEMMA AnyStepInv == Inv /\ AnyStep => Inv'
<1> SUFFICES ASSUME Inv, AnyStep PROVE Inv'
  OBVIOUS
<1> USE DEF Inv
<1>1. at \in StepId /\ phase = "running" /\ Append(trace, at) \in walked
  BY DEF AnyStep, Running, Typed, ControlTypeOK, RunInv
<1>2. GoodPath(Append(trace, at))
  BY <1>1 DEF WalkInv
<1>3. /\ Len(trace) + 1 <= pipeline.max_steps /\ Distinct(trace)
      /\ at \in pipeline.steps
  BY <1>1, <1>2, OnPath
<1>4. trace \in Seq(StepId) /\ Len(trace) \in Nat /\ pipeline.max_steps \in Nat
  BY PipelineType, LenProperties DEF Typed, ControlTypeOK, PipelineDefinition
<1>5. ~LimitReached
  BY <1>3, <1>4 DEF LimitReached
<1>6. Transitional(pipeline) /\ Connected(pipeline) /\ pending = {} /\ EveryEndHasResult
  BY <1>1 DEF WalkInv, Admitted
<1>7. UNCHANGED <<pipeline, validatorVars>> /\ phase' \in {"running", "raised"}
  BY <1>1 DEF AnyStep, StepRaises, StepReturns, RunFails
<1>8. WalkInv'
  BY <1>1, <1>6, <1>7, WalkKept DEF Admitted
<1>9. walked' = walked /\ pending' = pending /\ pipeline' = pipeline
  BY <1>7 DEF validatorVars
<1>10. CASE StepRaises
  <2>1. phase' = "raised" /\ failure' = "action" /\ UNCHANGED <<at, trace>>
    BY <1>5, <1>10 DEF StepRaises, RunFails
  <2>2. Typed'
    BY <1>9, <2>1 DEF Typed, ControlTypeOK, Phases, Failures
  <2>3. AcceptedRunsAreBounded'
    BY <1>9, <2>1 DEF RunInv, AcceptedRunsAreBounded
  <2>4. RunInv'
    BY <2>1, <2>3 DEF RunInv, NotStarted
  <2> QED
    BY <1>8, <2>2, <2>4
<1>11. CASE \E answer \in Answers(at) : StepReturns(answer)
  <2>1. PICK answer \in Answers(at) : StepReturns(answer)
    BY <1>11
  <2>2. /\ pipeline.end[at] => answer = None
        /\ answer # None => NextStep(answer) \in Targets(pipeline, at) /\ ~Undecided(answer)
        /\ answer = None => pipeline.action[at] \notin Router
    BY <1>3, <1>6, AnswerIsDeclared
  <2>3. trace' = Append(trace, at)
    BY <2>1 DEF StepReturns
  <2>4. /\ trace' \in Seq(StepId) /\ Len(trace') = Len(trace) + 1 /\ EndOf(trace') = at
        /\ Distinct(trace')
    BY <1>1, <1>2, <1>4, <2>3, AppendPath DEF GoodPath
  <2>5. Len(trace') <= pipeline'.max_steps /\ \A i, j \in 1..Len(trace') : trace'[i] = trace'[j] => i = j
    BY <1>3, <1>9, <2>4 DEF Distinct
  <2>6. CASE phase' = "raised"
    <3>1. /\ failure' = IF Undecided(answer) THEN "transition" ELSE "audit"
          /\ UNCHANGED at
      BY <1>1, <2>1, <2>6 DEF StepReturns, RunFails
    <3>2. Undecided(answer) => answer = None /\ pipeline.next[at] = None
      BY <2>2 DEF Undecided, NextStep
    <3>3. AcceptedRunsAreBounded'
      BY <1>9, <2>2, <2>5, <3>1, <3>2 DEF AcceptedRunsAreBounded
    <3>4. Typed'
      BY <1>9, <2>4, <2>6, <3>1 DEF Typed, ControlTypeOK, Phases, Failures
    <3>5. RunInv'
      BY <2>6, <3>3 DEF RunInv, NotStarted
    <3> QED
      BY <1>8, <3>4, <3>5
  <2>7. CASE phase' # "raised"
    <3>1. ~Undecided(answer) /\ at' = NextStep(answer) /\ UNCHANGED <<phase, failure>>
      BY <2>1, <2>7 DEF StepReturns, RunFails
    <3>2. AcceptedRunsAreBounded'
      <4>1. failure = None
        BY <1>1 DEF RunInv
      <4> QED
        BY <2>5, <3>1, <4>1, NoneAssumption DEF AcceptedRunsAreBounded, Failures
    <3>3. CASE pipeline.end[at]
      <4>1. at' = None
        BY <3>1, <3>3 DEF NextStep
      <4>2. Typed'
        BY <1>9, <2>4, <3>1, <4>1 DEF Typed, ControlTypeOK
      <4>3. trace' \in walked' /\ pipeline'.end[EndOf(trace')]
        BY <1>1, <1>9, <2>3, <2>4, <3>3
      <4>4. RunInv'
        BY <1>1, <3>1, <3>2, <4>1, <4>3 DEF RunInv, NotStarted, EndOf
      <4> QED
        BY <1>8, <4>2, <4>4
    <3>4. CASE ~pipeline.end[at]
      <4>1. at' \in Targets(pipeline, at)
        BY <2>2, <3>1, <3>4 DEF Undecided, NextStep, Targets
      <4>2. at' \in StepId
        BY <1>3, <1>6, <4>1, PipelineType DEF Connected, PipelineDefinition
      <4>3. Typed'
        BY <1>9, <2>4, <3>1, <4>2 DEF Typed, ControlTypeOK
      <4>4. Append(trace', at') \in walked'
        <5>1. Followed(trace')
          BY <1>1, <2>3 DEF WalkInv, Admitted
        <5> QED
          BY <1>6, <1>9, <2>4, <4>1, <5>1 DEF Followed
      <4>5. RunInv'
        BY <1>1, <3>1, <3>2, <4>2, <4>4, NoneAssumption DEF RunInv, NotStarted
      <4> QED
        BY <1>8, <4>3, <4>5
    <3> QED
      BY <3>3, <3>4
  <2> QED
    BY <2>6, <2>7
<1> QED
  BY <1>5, <1>10, <1>11 DEF AnyStep

LEMMA AnswerInv == Inv /\ Answer => Inv'
<1> SUFFICES ASSUME Inv, Answer PROVE Inv'
  OBVIOUS
<1> USE DEF Inv, Answer, RunFails
<1>1. Typed'
  BY DEF Typed, ControlTypeOK, Phases, Failures, validatorVars
<1>2. WalkInv'
  BY WalkKept DEF WalkInv, Admitted
<1>3. RunInv'
  BY DEF RunInv, NotStarted, AcceptedRunsAreBounded, validatorVars
<1> QED
  BY <1>1, <1>2, <1>3

LEMMA StutterInv == Inv /\ UNCHANGED controlVars => Inv'
<1> SUFFICES ASSUME Inv, UNCHANGED controlVars PROVE Inv'
  OBVIOUS
<1> USE DEF controlVars
<1>1. Typed'
  BY DEF Inv, Typed, ControlTypeOK
<1>2. WalkInv'
  <2>1. \A w \in walked' : GoodPath(w)' /\ (Admitted \/ phase = "walking" => Followed(w)')
    BY GoodStays DEF Inv, WalkInv, Followed, EndOf
  <2>2. \A w \in pending' : Proposed(w)'
    BY DEF Inv, WalkInv, Proposed
  <2>3. Admitted' => Admitted /\ EveryEndHasResult'
    BY DEF Inv, WalkInv, Admitted, EveryEndHasResult, Provided, EndOf
  <2> QED
    BY <2>1, <2>2, <2>3 DEF Inv, WalkInv
<1>3. RunInv'
  BY DEF Inv, RunInv, NotStarted, AcceptedRunsAreBounded, EndOf
<1> QED
  BY <1>1, <1>2, <1>3 DEF Inv

LEMMA StepInv == Inv /\ [ControlNext]_controlVars => Inv'
BY LoadingInv, StartRunInv, AnyStepInv, AnswerInv, StutterInv DEF ControlNext

-----------------------------------------------------------------------------
(* The results of the engine *)

\* The inductive invariant holds in every state of every pipeline.
THEOREM PipelineInvariant == ControlSpec => []Inv
<1>1. ControlInit => Inv
  BY InitInv
<1>2. Inv /\ [ControlNext]_controlVars => Inv'
  BY StepInv
<1> QED
  BY <1>1, <1>2, PTL DEF ControlSpec

\* The validator and the engine keep the types of their locals.
THEOREM ControlTypeCorrect == ControlSpec => []ControlTypeOK
<1>1. Inv => ControlTypeOK
  BY DEF Inv, Typed
<1> QED
  BY <1>1, PipelineInvariant, PTL

\* No request over an accepted pipeline repeats a step or meets the step limit.
THEOREM RunsAreBounded == ControlSpec => []AcceptedRunsAreBounded
<1>1. Inv => AcceptedRunsAreBounded
  BY DEF Inv, RunInv
<1> QED
  BY <1>1, PipelineInvariant, PTL

\* Whatever routes a request takes, what its next step requires was provided.
THEOREM StateAlwaysAvailable == ControlSpec => []StateIsAvailable
<1>1. Inv => StateIsAvailable
  <2> SUFFICES ASSUME Inv PROVE StateIsAvailable
    OBVIOUS
  <2> USE DEF Inv
  <2>1. Running => Requires[pipeline.action[at]] \subseteq Provided(trace)
    <3> SUFFICES ASSUME Running PROVE Requires[pipeline.action[at]] \subseteq Provided(trace)
      OBVIOUS
    <3>1. at \in StepId /\ GoodPath(Append(trace, at))
      BY DEF Running, Typed, ControlTypeOK, RunInv, WalkInv
    <3> QED
      BY <3>1, OnPath
  <2>2. phase = "answered" => "result" \in Provided(trace)
    BY DEF RunInv, WalkInv, Admitted, EveryEndHasResult
  <2> QED
    BY <2>1, <2>2 DEF StateIsAvailable
<1> QED
  BY <1>1, PipelineInvariant, PTL

-----------------------------------------------------------------------------
(* The actions of a query *)

\* An action that is no router returns no route.
LEMMA PlainStep ==
    ASSUME NEW action \in Actions \ Routers, Executing(action), StepReturns(None)
    PROVE  AnyStep
BY RegistryAssumption DEF Executing, AnyStep, Answers

LEMMA PlainActions ==
    {"normalize_query", "resolve_conversation", "start_conversation_turn",
     "load_conversation_history", "finalize", "finalize_conversation_turn",
     "fail_conversation_turn", "set_variables", "retrieve", "expand_graph",
     "manage_context_budget", "require_evidence", "enforce_model_transmission_policy",
     "call_model"} \subseteq Actions \ Routers
BY DEF Actions, Routers, Contract

\* An action that raises ends the request.
LEMMA RaisingStep == ASSUME Running, StepRaises PROVE AnyStep
BY DEF AnyStep

\* Both routes of a loop_guard that the validator accepted are declared.
LEMMA GuardedStep ==
    ASSUME Inv, Executing("loop_guard"), NEW answer \in {"allow", "deny"},
           StepReturns(answer)
    PROVE  AnyStep
<1>1. at \in StepId /\ GoodPath(Append(trace, at)) /\ Connected(pipeline)
  BY DEF Executing, Running, Inv, Typed, ControlTypeOK, WalkInv, RunInv, Admitted
<1>2. at \in pipeline.steps
  BY <1>1, OnPath DEF Inv
<1>3. pipeline.action[at] \in Router
  BY RegistryAssumption DEF Executing, Routers
<1>4. pipeline.answers[at] # {}
  BY <1>1, <1>2, <1>3 DEF Connected
<1>5. pipeline.answers[at] = {"allow", "deny"}
  BY <1>2, <1>4, RegistryAssumption DEF Executing, Inv, Typed, ControlTypeOK
<1>6. answer \in Answers(at)
  BY <1>3, <1>5 DEF Answers
<1> QED
  BY <1>6 DEF AnyStep, Executing

\* Every action of a query is a step of the engine, or leaves it where it is.
LEMMA ActFollows == Inv /\ Act => AnyStep \/ UNCHANGED controlVars
<1> SUFFICES ASSUME Inv, Act PROVE AnyStep \/ UNCHANGED controlVars
  OBVIOUS
<1> USE PlainStep, PlainActions, RaisingStep
<1>1. CASE Pass
  BY <1>1 DEF Pass
<1>2. CASE FollowText
  <2>1. Running /\ ~LimitReached
    BY <1>2 DEF FollowText, Executing
  <2> QED
    BY <1>2, <2>1 DEF FollowText, AnyStep
<1>3. CASE LoopGuard
  BY <1>3, GuardedStep DEF LoopGuard
<1>4. CASE SetVariables
  BY <1>4 DEF SetVariables
<1>5. CASE Retrieve
  <2>1. Executing("retrieve") /\ (StepReturns(None) \/ StepRaises)
    BY <1>5 DEF Retrieve
  <2> QED
    BY <2>1 DEF Executing
<1>6. CASE SkipExpansion \/ MergeExpansion
  BY <1>6 DEF SkipExpansion, MergeExpansion
<1>7. CASE StartExpansion \/ ExpandLevel
  BY <1>7 DEF StartExpansion, ExpandLevel
<1>8. CASE ManageContextBudget
  BY <1>8 DEF ManageContextBudget
<1>9. CASE RequireEvidence
  BY <1>9 DEF RequireEvidence, Executing
<1>10. CASE EnforceModelTransmissionPolicy
  <2>1. /\ Executing("enforce_model_transmission_policy")
        /\ StepReturns(None) \/ StepRaises
    BY <1>10 DEF EnforceModelTransmissionPolicy, EnforceOn
  <2> QED
    BY <2>1 DEF Executing
<1>11. CASE CallModel
  <2>1. Executing("call_model") /\ (StepReturns(None) \/ StepRaises)
    BY <1>11 DEF CallModel
  <2> QED
    BY <2>1 DEF Executing
<1>12. CASE Raise
  BY <1>12 DEF Raise
<1> QED
  BY <1>1, <1>2, <1>3, <1>4, <1>5, <1>6, <1>7, <1>8, <1>9, <1>10, <1>11, <1>12 DEF Act

LEMMA QueryStepFollows == Inv /\ [QueryNext]_queryVars => [ControlNext]_controlVars
<1> SUFFICES ASSUME Inv, [QueryNext]_queryVars PROVE [ControlNext]_controlVars
  OBVIOUS
<1>1. CASE Load \/ Run \/ Reply
  BY <1>1 DEF Load, Run, Reply, ControlNext
<1>2. CASE Act
  BY <1>2, ActFollows DEF ControlNext
<1>3. CASE Import
  BY <1>3 DEF Import
<1>4. CASE Quiet \/ UNCHANGED queryVars
  BY <1>4 DEF Quiet, queryVars
<1> QED
  BY <1>1, <1>2, <1>3, <1>4 DEF QueryNext

-----------------------------------------------------------------------------
(* The results of the actions *)

\* The actions implement the engine: nothing they do to their data changes the control.
THEOREM QueryImplementsPipeline == QuerySpec => FollowsPipeline
<1>1. QueryInit => ControlInit /\ Inv
  BY InitInv DEF QueryInit
<1>2. Inv /\ [QueryNext]_queryVars => [ControlNext]_controlVars
  BY QueryStepFollows
<1>3. Inv /\ [QueryNext]_queryVars => Inv'
  BY QueryStepFollows, StepInv
<1> QED
  BY <1>1, <1>2, <1>3, PTL DEF QuerySpec, FollowsPipeline, ControlSpec

\* Queries therefore never repeat a step or meet the step limit.
THEOREM QueriesAreBounded == QuerySpec => []AcceptedRunsAreBounded
BY QueryImplementsPipeline, RunsAreBounded, PTL DEF FollowsPipeline

\* An action of a query always finds what it requires.
THEOREM QueryStateAvailable == QuerySpec => []StateIsAvailable
BY QueryImplementsPipeline, StateAlwaysAvailable, PTL DEF FollowsPipeline

-----------------------------------------------------------------------------
(* Paths, over given current versions *)

\* IsCurrent, Leads, Within, Distance and BestSeed, with the current versions as an argument:
\* what holds of them for all versions holds in the next state too.
CurrentAt(cur, n) == cur[n[1]] # Missing /\ n[2] \in Holds[<<n[1], cur[n[1]]>>]
LeadsAt(cur, m, n) == \E l \in {l \in Link : cur[l.owner] = l.version} :
    \/ Direction \in {"outgoing", "both"} /\ l.from = m /\ l.to = n
    \/ Direction \in {"incoming", "both"} /\ l.from = n /\ l.to = m
WithinAt(cur, roots) ==
    LET reach[d \in 0..MaxDepth] ==
          IF d = 0 THEN roots
          ELSE reach[d - 1] \cup
               {n \in Visible : CurrentAt(cur, n) /\ \E m \in reach[d - 1] : LeadsAt(cur, m, n)}
    IN reach
DistanceAt(cur, roots, n) == CHOOSE d \in 0..MaxDepth :
    n \in WithinAt(cur, roots)[d] /\ \A e \in 0..(d - 1) : n \notin WithinAt(cur, roots)[e]
BestAt(cur, roots, w, n) ==
    Highest({w[s] : s \in {x \in roots :
        n \in WithinAt(cur, {x})[DistanceAt(cur, roots, n)]}})

LEMMA AtCurrent ==
    /\ \A n : IsCurrent(n) = CurrentAt(current, n)
    /\ \A m, n : Leads(m, n) = LeadsAt(current, m, n)
    /\ \A S : Within(S) = WithinAt(current, S)
    /\ \A S, n : Distance(S, n) = DistanceAt(current, S, n)
    /\ \A S, w, n : BestSeed(S, w, n) = BestAt(current, S, w, n)
<1>1. \A n : IsCurrent(n) = CurrentAt(current, n)
  BY DEF IsCurrent, CurrentAt
<1>2. \A m, n : Leads(m, n) = LeadsAt(current, m, n)
  BY DEF Leads, LeadsAt, LiveLinks
<1>3. \A S : Within(S) = WithinAt(current, S)
  BY DEF Within, WithinAt, IsCurrent, CurrentAt, Leads, LeadsAt, LiveLinks
<1>4. \A S, n : Distance(S, n) = DistanceAt(current, S, n)
  BY <1>3 DEF Distance, DistanceAt
<1>5. \A S, w, n : BestSeed(S, w, n) = BestAt(current, S, w, n)
  BY <1>3, <1>4 DEF BestSeed, BestAt
<1> QED
  BY <1>1, <1>2, <1>3, <1>4, <1>5

LEMMA AtCurrentNext ==
    /\ \A n : IsCurrent(n)' = CurrentAt(current', n)
    /\ \A m, n : Leads(m, n)' = LeadsAt(current', m, n)
    /\ \A S : Within(S)' = WithinAt(current', S)
    /\ \A S, n : Distance(S, n)' = DistanceAt(current', S, n)
    /\ \A S, w, n : BestSeed(S, w, n)' = BestAt(current', S, w, n)
<1>1. \A n : IsCurrent(n)' = CurrentAt(current', n)
  BY DEF IsCurrent, CurrentAt
<1>2. \A m, n : Leads(m, n)' = LeadsAt(current', m, n)
  BY DEF Leads, LeadsAt, LiveLinks
<1>3. \A S : Within(S)' = WithinAt(current', S)
  BY DEF Within, WithinAt, IsCurrent, CurrentAt, Leads, LeadsAt, LiveLinks
<1>4. \A S, n : Distance(S, n)' = DistanceAt(current', S, n)
  BY <1>3 DEF Distance, DistanceAt
<1>5. \A S, w, n : BestSeed(S, w, n)' = BestAt(current', S, w, n)
  BY <1>3, <1>4 DEF BestSeed, BestAt
<1> QED
  BY <1>1, <1>2, <1>3, <1>4, <1>5

Hop(cur, nodes) == {n \in Visible : CurrentAt(cur, n) /\ \E m \in nodes : LeadsAt(cur, m, n)}

LEMMA WithinIs ==
    ASSUME NEW cur, NEW roots \in SUBSET Node
    PROVE  /\ WithinAt(cur, roots) \in [0..MaxDepth -> SUBSET Node]
           /\ WithinAt(cur, roots)[0] = roots
           /\ \A d \in 1..MaxDepth : WithinAt(cur, roots)[d] =
                 WithinAt(cur, roots)[d - 1] \cup Hop(cur, WithinAt(cur, roots)[d - 1])
<1> DEFINE step == [d \in 1..MaxDepth |-> [nodes \in SUBSET Node |-> nodes \cup Hop(cur, nodes)]]
<1>1. MaxDepth \in Nat /\ MaxDepth >= 1 /\ Visible \subseteq Node
  BY GraphAssumption
<1>2. \A nodes : Hop(cur, nodes) \in SUBSET Node
  BY <1>1 DEF Hop
<1>3. step \in [1..MaxDepth -> [SUBSET Node -> SUBSET Node]]
  BY <1>2
<1>4. PICK g : IsRecursion(g, MaxDepth, SUBSET Node, roots, step)
  <2> HIDE DEF step
  <2> QED
    BY <1>1, <1>3, RecursionExists, Zenon
<1>5. /\ g \in [0..MaxDepth -> SUBSET Node] /\ g[0] = roots
      /\ \A d \in 1..MaxDepth : g[d] = g[d - 1] \cup Hop(cur, g[d - 1])
  <2>1. g \in [0..MaxDepth -> SUBSET Node] /\ g[0] = roots
    BY <1>4 DEF IsRecursion
  <2>2. ASSUME NEW d \in 1..MaxDepth PROVE g[d] = g[d - 1] \cup Hop(cur, g[d - 1])
    <3>1. g[d] = step[d][g[d - 1]]
      <4> HIDE DEF step
      <4> QED
        BY <1>4 DEF IsRecursion
    <3>2. g[d - 1] \in SUBSET Node
      BY <1>1, <2>1
    <3> QED
      BY <3>1, <3>2
  <2> QED
    BY <2>1, <2>2
<1> DEFINE Reach(r) == [d \in 0..MaxDepth |->
               IF d = 0 THEN roots
               ELSE r[d - 1] \cup
                    {n \in Visible : CurrentAt(cur, n) /\ \E m \in r[d - 1] : LeadsAt(cur, m, n)}]
           reach == CHOOSE reach : reach = [d \in 0..MaxDepth |->
               IF d = 0 THEN roots
               ELSE reach[d - 1] \cup
                    {n \in Visible : CurrentAt(cur, n) /\ \E m \in reach[d - 1] : LeadsAt(cur, m, n)}]
<1>6. g = Reach(g)
  <2>1. \A d \in 0..MaxDepth : g[d] = IF d = 0 THEN roots ELSE g[d - 1] \cup Hop(cur, g[d - 1])
    <3>1. \A d \in 0..MaxDepth : d = 0 \/ d \in 1..MaxDepth
      BY <1>1
    <3> QED
      BY <1>5, <3>1, Zenon
  <2>2. g = [d \in 0..MaxDepth |-> g[d]]
    BY <1>5
  <2> QED
    BY <2>1, <2>2 DEF Hop
<1>7. reach = Reach(reach)
  BY <1>6, Zenon
<1>8. WithinAt(cur, roots) = reach
  BY Zenon DEF WithinAt
<1> HIDE DEF reach
<1>9. \A d \in 0..MaxDepth : reach[d] = IF d = 0 THEN roots ELSE reach[d - 1] \cup Hop(cur, reach[d - 1])
  BY <1>7, Zenon DEF Hop
<1>10. reach[0] = roots /\ \A d \in 1..MaxDepth : reach[d] = reach[d - 1] \cup Hop(cur, reach[d - 1])
  <2>1. 0 \in 0..MaxDepth /\ \A d \in 1..MaxDepth : d \in 0..MaxDepth /\ d # 0
    BY <1>1
  <2> QED
    BY <1>9, <2>1, Zenon
<1> DEFINE T == {d \in Nat : d <= MaxDepth => reach[d] \in SUBSET Node}
<1>11. 0 \in T
  BY <1>10
<1>12. ASSUME NEW d \in Nat, d \in T PROVE d + 1 \in T
  <2> SUFFICES ASSUME d + 1 <= MaxDepth PROVE reach[d + 1] \in SUBSET Node
    OBVIOUS
  <2>1. d + 1 \in 1..MaxDepth /\ (d + 1) - 1 = d /\ reach[d] \in SUBSET Node
    BY <1>1, <1>12
  <2>2. reach[d + 1] = reach[d] \cup Hop(cur, reach[d])
    BY <1>10, <2>1
  <2> QED
    BY <1>2, <2>1, <2>2
<1>13. \A d \in Nat : d \in T
  <2> HIDE DEF T
  <2> QED
    BY <1>11, <1>12, Induction
<1>14. reach \in [0..MaxDepth -> SUBSET Node]
  <2>1. \A d \in 0..MaxDepth : reach[d] \in SUBSET Node
    BY <1>1, <1>13
  <2>2. reach = [d \in 0..MaxDepth |-> reach[d]]
    <3>1. DOMAIN reach = 0..MaxDepth /\ reach = [d \in DOMAIN reach |-> reach[d]]
      BY <1>7
    <3> QED
      BY <3>1
  <2> QED
    BY <2>1, <2>2
<1> QED
  BY <1>8, <1>10, <1>14

LEMMA Bounds == MaxDepth \in Nat /\ MaxDepth >= 1 /\ MaxNodes \in Nat /\ MaxNodes >= 1
BY GraphAssumption

LEMMA WithinStep ==
    ASSUME NEW cur, NEW roots \in SUBSET Node, NEW d \in Nat, d < MaxDepth
    PROVE  /\ WithinAt(cur, roots)[d] \in SUBSET Node
           /\ WithinAt(cur, roots)[d + 1] =
                 WithinAt(cur, roots)[d] \cup Hop(cur, WithinAt(cur, roots)[d])
<1>1. d \in 0..MaxDepth /\ d + 1 \in 1..MaxDepth /\ (d + 1) - 1 = d
  BY Bounds
<1> DEFINE W == WithinAt(cur, roots)
<1>2. W[d + 1] = W[(d + 1) - 1] \cup Hop(cur, W[(d + 1) - 1])
  BY <1>1, WithinIs
<1>3. W[d] \in SUBSET Node
  <2>1. W \in [0..MaxDepth -> SUBSET Node]
    BY WithinIs
  <2> HIDE DEF W
  <2> QED
    BY <1>1, <2>1
<1> QED
  BY <1>1, <1>2, <1>3

\* More hops reach more.
LEMMA WithinGrows ==
    ASSUME NEW cur, NEW roots \in SUBSET Node,
           NEW d \in 0..MaxDepth, NEW e \in 0..MaxDepth, d <= e
    PROVE  WithinAt(cur, roots)[d] \subseteq WithinAt(cur, roots)[e]
<1> DEFINE W == WithinAt(cur, roots)
           T == {k \in Nat : d + k <= MaxDepth => W[d] \subseteq W[d + k]}
<1>1. 0 \in T
  OBVIOUS
<1>2. ASSUME NEW k \in Nat, k \in T PROVE k + 1 \in T
  <2> SUFFICES ASSUME d + (k + 1) <= MaxDepth PROVE W[d] \subseteq W[d + (k + 1)]
    OBVIOUS
  <2>1. W[d] \subseteq W[d + k] /\ d + k \in Nat /\ d + k < MaxDepth /\ d + (k + 1) = (d + k) + 1
    BY <1>2, Bounds
  <2>2. W[(d + k) + 1] = W[d + k] \cup Hop(cur, W[d + k])
    BY <2>1, WithinStep
  <2> QED
    BY <2>1, <2>2
<1>3. \A k \in Nat : k \in T
  <2> HIDE DEF T
  <2> QED
    BY <1>1, <1>2, Induction
<1>4. e - d \in Nat /\ d + (e - d) = e
  BY Bounds
<1>5. e - d \in T
  BY <1>3, <1>4
<1> QED
  BY <1>4, <1>5, Bounds

\* Once a hop finds nothing new, no further one does.
LEMMA WithinStops ==
    ASSUME NEW cur, NEW roots \in SUBSET Node, NEW d \in 0..MaxDepth,
           Hop(cur, WithinAt(cur, roots)[d]) \subseteq WithinAt(cur, roots)[d]
    PROVE  WithinAt(cur, roots)[MaxDepth] = WithinAt(cur, roots)[d]
<1> DEFINE W == WithinAt(cur, roots)
           T == {k \in Nat : d + k <= MaxDepth => W[d + k] = W[d]}
<1>1. 0 \in T
  OBVIOUS
<1>2. ASSUME NEW k \in Nat, k \in T PROVE k + 1 \in T
  <2> SUFFICES ASSUME d + (k + 1) <= MaxDepth PROVE W[d + (k + 1)] = W[d]
    OBVIOUS
  <2>1. W[d + k] = W[d] /\ d + k \in Nat /\ d + k < MaxDepth /\ d + (k + 1) = (d + k) + 1
    BY <1>2, Bounds
  <2>2. W[(d + k) + 1] = W[d + k] \cup Hop(cur, W[d + k])
    BY <2>1, WithinStep
  <2> QED
    BY <2>1, <2>2
<1>3. \A k \in Nat : k \in T
  <2> HIDE DEF T
  <2> QED
    BY <1>1, <1>2, Induction
<1>4. MaxDepth - d \in Nat /\ d + (MaxDepth - d) = MaxDepth
  BY Bounds
<1>5. MaxDepth - d \in T
  BY <1>3, <1>4
<1> QED
  BY <1>4, <1>5, Bounds

\* What a set of seeds reaches is what its members reach.
LEMMA WithinOfEach ==
    ASSUME NEW cur, NEW roots \in SUBSET Node, NEW d \in 0..MaxDepth, NEW n
    PROVE  n \in WithinAt(cur, roots)[d] <=> \E s \in roots : n \in WithinAt(cur, {s})[d]
<1> DEFINE W == WithinAt(cur, roots)
           V(s) == WithinAt(cur, {s})
           Of(k) == \A x : x \in W[k] <=> \E s \in roots : x \in V(s)[k]
           T == {k \in Nat : k <= MaxDepth => Of(k)}
<1>1. 0 \in T
  <2>1. W[0] = roots
    BY WithinIs
  <2>2. ASSUME NEW s \in roots
        PROVE  V(s)[0] = {s}
    <3>1. {s} \in SUBSET Node
      OBVIOUS
    <3> QED
      BY <3>1, WithinIs
  <2> HIDE DEF W, V
  <2>3. \A x : x \in W[0] <=> \E s \in roots : x \in V(s)[0]
    BY <2>1, <2>2
  <2> QED
    BY <2>3
<1>2. ASSUME NEW k \in Nat, k \in T PROVE k + 1 \in T
  <2> SUFFICES ASSUME k + 1 <= MaxDepth PROVE Of(k + 1)
    <3> HIDE DEF Of
    <3> QED
      OBVIOUS
  <2>1. k < MaxDepth
    BY Bounds
  <2>2. Of(k)
    <3> HIDE DEF Of
    <3> QED
      BY <1>2, <2>1, Bounds
  <2>3. W[k + 1] = W[k] \cup Hop(cur, W[k])
    BY <2>1, WithinStep
  <2>4. \A s \in roots : V(s)[k + 1] = V(s)[k] \cup Hop(cur, V(s)[k])
    <3> SUFFICES ASSUME NEW s \in roots PROVE V(s)[k + 1] = V(s)[k] \cup Hop(cur, V(s)[k])
      OBVIOUS
    <3>1. {s} \in SUBSET Node
      OBVIOUS
    <3> QED
      BY <2>1, <3>1, WithinStep
  <2> HIDE DEF W, V
  <2>5. \A x : x \in Hop(cur, W[k]) <=> \E s \in roots : x \in Hop(cur, V(s)[k])
    BY <2>2 DEF Hop
  <2> QED
    BY <2>2, <2>3, <2>4, <2>5
<1>3. \A k \in Nat : k \in T
  <2> HIDE DEF T
  <2> QED
    BY <1>1, <1>2, Induction
<1>4. d \in Nat /\ d <= MaxDepth
  BY Bounds
<1>5. Of(d)
  <2> HIDE DEF Of
  <2> QED
    BY <1>3, <1>4
<1> QED
  BY <1>5

-----------------------------------------------------------------------------
(* Distances *)

\* The nodes that d hops reach and fewer do not.
Ring(cur, roots, d) ==
    IF d = 0 THEN roots ELSE WithinAt(cur, roots)[d] \ WithinAt(cur, roots)[d - 1]

LEMMA RingIs ==
    ASSUME NEW cur, NEW roots \in SUBSET Node, NEW d \in 0..MaxDepth, NEW n
    PROVE  n \in Ring(cur, roots, d) <=>
              /\ n \in WithinAt(cur, roots)[d]
              /\ \A e \in 0..(d - 1) : n \notin WithinAt(cur, roots)[e]
<1>1. CASE d = 0
  BY <1>1, WithinIs DEF Ring
<1>2. CASE d # 0
  <2>1. d - 1 \in 0..MaxDepth /\ d - 1 \in 0..(d - 1)
    BY <1>2, Bounds
  <2>2. \A e \in 0..(d - 1) : WithinAt(cur, roots)[e] \subseteq WithinAt(cur, roots)[d - 1]
    <3> SUFFICES ASSUME NEW e \in 0..(d - 1)
                 PROVE  WithinAt(cur, roots)[e] \subseteq WithinAt(cur, roots)[d - 1]
      OBVIOUS
    <3>1. e \in 0..MaxDepth /\ e <= d - 1
      BY Bounds
    <3> QED
      BY <2>1, <3>1, WithinGrows
  <2> QED
    BY <1>2, <2>1, <2>2 DEF Ring
<1> QED
  BY <1>1, <1>2

LEMMA RingDistance ==
    ASSUME NEW cur, NEW roots \in SUBSET Node, NEW d \in 0..MaxDepth,
           NEW n \in Ring(cur, roots, d)
    PROVE  DistanceAt(cur, roots, n) = d
<1> DEFINE W == WithinAt(cur, roots)
           Is(k) == n \in W[k] /\ \A e \in 0..(k - 1) : n \notin W[e]
<1>1. Is(d)
  BY RingIs
<1>2. \A k \in 0..MaxDepth : Is(k) => k = d
  <2> SUFFICES ASSUME NEW k \in 0..MaxDepth, Is(k) PROVE k = d
    OBVIOUS
  <2>1. ~ (k < d) /\ ~ (d < k)
    BY <1>1, Bounds
  <2> QED
    BY <2>1, Bounds
<1>3. DistanceAt(cur, roots, n) = CHOOSE k \in 0..MaxDepth : Is(k)
  BY DEF DistanceAt
<1> HIDE DEF Is
<1> QED
  BY <1>1, <1>2, <1>3

LEMMA EveryRing ==
    ASSUME NEW cur, NEW roots \in SUBSET Node, NEW n \in WithinAt(cur, roots)[MaxDepth]
    PROVE  /\ DistanceAt(cur, roots, n) \in 0..MaxDepth
           /\ n \in Ring(cur, roots, DistanceAt(cur, roots, n))
<1> DEFINE W == WithinAt(cur, roots)
           T == {k \in 0..MaxDepth : n \in W[k]}
<1>1. T \subseteq Nat /\ MaxDepth \in T
  BY Bounds
<1>2. PICK d \in T : \A k \in T : d <= k
  <2> HIDE DEF T
  <2> QED
    BY <1>1, LeastOfNat
<1>3. d \in 0..MaxDepth /\ n \in W[d] /\ \A e \in 0..(d - 1) : n \notin W[e]
  BY <1>2, Bounds
<1>4. n \in Ring(cur, roots, d)
  BY <1>3, RingIs
<1>5. DistanceAt(cur, roots, n) = d
  BY <1>3, <1>4, RingDistance
<1> QED
  BY <1>3, <1>4, <1>5

\* A node is at a distance because of the nodes at the distance before.
LEMMA RingStep ==
    ASSUME NEW cur, NEW roots \in SUBSET Node, NEW d \in 1..MaxDepth,
           NEW n \in Node \ WithinAt(cur, roots)[d - 1]
    PROVE  /\ n \in WithinAt(cur, roots)[d] <=>
                 /\ n \in Visible /\ CurrentAt(cur, n)
                 /\ \E m \in Ring(cur, roots, d - 1) : LeadsAt(cur, m, n)
           /\ \A m \in WithinAt(cur, roots)[d - 1] :
                 LeadsAt(cur, m, n) /\ n \in Visible /\ CurrentAt(cur, n)
                    => m \in Ring(cur, roots, d - 1)
<1> DEFINE W == WithinAt(cur, roots)
<1>1. d - 1 \in Nat /\ d - 1 < MaxDepth /\ (d - 1) + 1 = d /\ d - 1 \in 0..MaxDepth
  BY Bounds
<1>2. W[d] = W[d - 1] \cup Hop(cur, W[d - 1])
  BY WithinIs
<1>3. Ring(cur, roots, d - 1) \subseteq W[d - 1]
  BY <1>1, RingIs
<1>4. \A m \in W[d - 1] : LeadsAt(cur, m, n) /\ n \in Visible /\ CurrentAt(cur, n)
                            => m \in Ring(cur, roots, d - 1)
  <2> SUFFICES ASSUME NEW m \in W[d - 1], LeadsAt(cur, m, n), n \in Visible, CurrentAt(cur, n),
                      m \notin Ring(cur, roots, d - 1)
               PROVE  FALSE
    OBVIOUS
  <2>1. d - 1 # 0 /\ m \in W[(d - 1) - 1]
    BY WithinIs DEF Ring
  <2>2. d - 1 \in 1..MaxDepth
    BY <1>1, <2>1, Bounds
  <2>3. W[d - 1] = W[(d - 1) - 1] \cup Hop(cur, W[(d - 1) - 1])
    BY <2>2, WithinIs
  <2>4. n \in W[d - 1]
    BY <2>1, <2>3 DEF Hop
  <2> QED
    BY <2>4
<1> QED
  BY <1>2, <1>3, <1>4 DEF Hop

-----------------------------------------------------------------------------
(* Scores *)

LEMMA NodesFinite == IsFiniteSet(Node) /\ IsFiniteSet(Score) /\ Score \subseteq Int
BY GraphAssumption, FS_Product DEF Node

LEMMA HighestOf ==
    ASSUME NEW T, T \subseteq Score, T # {}
    PROVE  Highest(T) \in T /\ Highest(T) \in Int /\ \A y \in T : y <= Highest(T)
<1>1. T \subseteq Int /\ IsFiniteSet(T)
  BY NodesFinite, FS_Subset
<1>2. \E x \in T : \A y \in T : y <= x
  BY <1>1, HighestExists
<1> QED
  BY <1>1, <1>2 DEF Highest

LEMMA HighestIs ==
    ASSUME NEW T, T \subseteq Int, NEW x \in T, \A y \in T : y <= x
    PROVE  Highest(T) = x
<1>1. \A z \in T : (\A y \in T : y <= z) => z = x
  <2> SUFFICES ASSUME NEW z \in T, \A y \in T : y <= z PROVE z = x
    OBVIOUS
  <2>1. z <= x /\ x <= z /\ z \in Int /\ x \in Int
    OBVIOUS
  <2> QED
    BY <2>1
<1> QED
  BY <1>1 DEF Highest

\* The seeds from which a node is reached in so many hops.
Origins(cur, roots, n, d) == {s \in roots : n \in WithinAt(cur, {s})[d]}

LEMMA BestOfRing ==
    ASSUME NEW cur, NEW roots \in SUBSET Node, NEW w \in [roots -> Score],
           NEW d \in 0..MaxDepth, NEW n \in Ring(cur, roots, d)
    PROVE  /\ BestAt(cur, roots, w, n) \in Score
           /\ \E s \in Origins(cur, roots, n, d) : BestAt(cur, roots, w, n) = w[s]
           /\ \A s \in Origins(cur, roots, n, d) : w[s] <= BestAt(cur, roots, w, n)
<1> DEFINE T == {w[s] : s \in Origins(cur, roots, n, d)}
<1>1. DistanceAt(cur, roots, n) = d
  BY RingDistance
<1>2. BestAt(cur, roots, w, n) = Highest(T)
  BY <1>1 DEF BestAt, Origins
<1>3. n \in WithinAt(cur, roots)[d]
  BY RingIs
<1>4. \E s \in roots : n \in WithinAt(cur, {s})[d]
  BY <1>3, WithinOfEach
<1>5. T # {} /\ T \subseteq Score
  BY <1>4 DEF Origins
<1>6. Highest(T) \in T /\ \A y \in T : y <= Highest(T)
  <2> HIDE DEF T
  <2> QED
    BY <1>5, HighestOf
<1>7. Highest(T) \in Score
  BY <1>5, <1>6
<1> QED
  BY <1>2, <1>6, <1>7

\* The best score of a seed is its own.
LEMMA BestOfSeed ==
    ASSUME NEW cur, NEW roots \in SUBSET Node, NEW w \in [roots -> Score], NEW n \in roots
    PROVE  BestAt(cur, roots, w, n) = w[n]
<1>1. 0 \in 0..MaxDepth /\ n \in Ring(cur, roots, 0)
  BY Bounds DEF Ring
<1>2. \A s \in roots : WithinAt(cur, {s})[0] = {s}
  <2> SUFFICES ASSUME NEW s \in roots PROVE WithinAt(cur, {s})[0] = {s}
    OBVIOUS
  <2>1. {s} \in SUBSET Node
    OBVIOUS
  <2> QED
    BY <2>1, WithinIs
<1>3. Origins(cur, roots, n, 0) = {n}
  BY <1>2 DEF Origins
<1>4. \E s \in Origins(cur, roots, n, 0) : BestAt(cur, roots, w, n) = w[s]
  BY <1>1, BestOfRing
<1> QED
  BY <1>3, <1>4

LEMMA OriginsOfParents ==
    ASSUME NEW cur, NEW roots \in SUBSET Node, NEW d \in 1..MaxDepth,
           NEW n \in Ring(cur, roots, d), NEW s
    PROVE  s \in Origins(cur, roots, n, d) <=>
              \E m \in Ring(cur, roots, d - 1) :
                 LeadsAt(cur, m, n) /\ s \in Origins(cur, roots, m, d - 1)
<1> DEFINE W == WithinAt(cur, roots)
           V == WithinAt(cur, {s})
<1>1. d - 1 \in 0..MaxDepth /\ d \in 0..MaxDepth /\ d # 0 /\ d - 1 \in 0..(d - 1)
  BY Bounds
<1>2. W \in [0..MaxDepth -> SUBSET Node]
  BY WithinIs
<1>3. n \in W[d] /\ n \notin W[d - 1]
  BY <1>1, RingIs
<1>4. n \in Node \ W[d - 1]
  <2> HIDE DEF W
  <2> QED
    BY <1>1, <1>2, <1>3
<1>5. n \in Visible /\ CurrentAt(cur, n)
  BY <1>3, <1>4, RingStep
<1>6. \A m \in W[d - 1] : LeadsAt(cur, m, n) => m \in Ring(cur, roots, d - 1)
  BY <1>4, <1>5, RingStep
<1>7. ASSUME s \in roots
      PROVE  n \in V[d] <=> \E m \in V[d - 1] : LeadsAt(cur, m, n)
  <2>1. {s} \in SUBSET Node
    BY <1>7
  <2>2. V[d] = V[d - 1] \cup Hop(cur, V[d - 1])
    BY <2>1, WithinIs
  <2>3. n \notin V[d - 1]
    BY <1>1, <1>3, <1>7, WithinOfEach
  <2> HIDE DEF V
  <2> QED
    BY <1>5, <2>2, <2>3 DEF Hop
<1>8. ASSUME s \in roots, NEW m \in V[d - 1]
      PROVE  m \in W[d - 1]
  BY <1>1, <1>8, WithinOfEach
<1> HIDE DEF V, W
<1>9. ASSUME s \in Origins(cur, roots, n, d)
      PROVE  \E m \in Ring(cur, roots, d - 1) :
                LeadsAt(cur, m, n) /\ s \in Origins(cur, roots, m, d - 1)
  <2>1. s \in roots /\ n \in V[d]
    BY <1>9 DEF Origins, V
  <2>2. PICK m \in V[d - 1] : LeadsAt(cur, m, n)
    BY <1>7, <2>1
  <2>3. m \in Ring(cur, roots, d - 1)
    BY <1>6, <1>8, <2>1, <2>2
  <2>4. s \in Origins(cur, roots, m, d - 1)
    BY <2>1, <2>2 DEF Origins, V
  <2> QED
    BY <2>2, <2>3, <2>4
<1>10. ASSUME NEW m \in Ring(cur, roots, d - 1),
              LeadsAt(cur, m, n), s \in Origins(cur, roots, m, d - 1)
       PROVE  s \in Origins(cur, roots, n, d)
  <2>1. s \in roots /\ m \in V[d - 1]
    BY <1>10 DEF Origins, V
  <2>2. n \in V[d]
    BY <1>7, <1>10, <2>1
  <2> QED
    BY <2>1, <2>2 DEF Origins, V
<1> QED
  BY <1>9, <1>10

Inherited(cur, nodes, best, n) == Highest({best[m] : m \in {x \in nodes : LeadsAt(cur, x, n)}})

\* A node inherits the best score of its parents.
LEMMA BestOfParents ==
    ASSUME NEW cur, NEW roots \in SUBSET Node, NEW w \in [roots -> Score],
           NEW d \in 1..MaxDepth, NEW n \in Ring(cur, roots, d),
           NEW best, \A m \in Ring(cur, roots, d - 1) : best[m] = BestAt(cur, roots, w, m)
    PROVE  BestAt(cur, roots, w, n) = Inherited(cur, Ring(cur, roots, d - 1), best, n)
<1> DEFINE parents == {x \in Ring(cur, roots, d - 1) : LeadsAt(cur, x, n)}
           T == {best[m] : m \in parents}
           B == BestAt(cur, roots, w, n)
<1>1. d - 1 \in 0..MaxDepth /\ d \in 0..MaxDepth
  BY Bounds
<1>2. /\ B \in Score
      /\ \E s \in Origins(cur, roots, n, d) : B = w[s]
      /\ \A s \in Origins(cur, roots, n, d) : w[s] <= B
  BY <1>1, BestOfRing
<1>3. \A m \in parents : /\ best[m] \in Score
                         /\ \E s \in Origins(cur, roots, m, d - 1) : best[m] = w[s]
                         /\ \A s \in Origins(cur, roots, m, d - 1) : w[s] <= best[m]
  BY <1>1, BestOfRing
<1>4. \A s : s \in Origins(cur, roots, n, d) <=>
               \E m \in parents : s \in Origins(cur, roots, m, d - 1)
  BY OriginsOfParents
<1> HIDE DEF parents, B
<1>5. T \subseteq Int /\ B \in Int
  BY <1>2, <1>3, NodesFinite
<1>6. \A m \in parents : best[m] <= B
  BY <1>2, <1>3, <1>4
<1>7. \A y \in T : y <= B
  BY <1>6
<1>8. B \in T
  <2>1. PICK s \in Origins(cur, roots, n, d) : B = w[s]
    BY <1>2
  <2>2. PICK m \in parents : s \in Origins(cur, roots, m, d - 1)
    BY <1>4
  <2>3. B <= best[m] /\ best[m] <= B /\ best[m] \in Int
    BY <1>3, <1>6, <2>1, <2>2, NodesFinite
  <2>4. best[m] = B
    BY <1>5, <2>3
  <2> QED
    BY <2>2, <2>4
<1>9. Highest(T) = B
  <2> HIDE DEF T
  <2> QED
    BY <1>5, <1>7, <1>8, HighestIs
<1> QED
  BY <1>9 DEF parents, B, Inherited

-----------------------------------------------------------------------------
(* The locals of expand() *)

Hit == [node : Visible, depth : 1..MaxDepth, score : Score]
ScoredNodes == UNION {[nodes -> Score] : nodes \in SUBSET Node}
Locals == [pc : {"off", "read", "load", "done"}, depth : 0..MaxDepth, seeds : SUBSET Node,
           worth : ScoredNodes, frontier : ScoredNodes, visited : SUBSET Node,
           proposals : ScoredNodes, expanded : Seq(Hit), steady : BOOLEAN]
Found(e) == {e.expanded[i].node : i \in 1..Len(e.expanded)}

\* What holds of an expansion whatever is published meanwhile.
Bounded(e) ==
    /\ e \in Locals
    /\ e.worth \in [e.seeds -> Score]
    /\ e.seeds \subseteq e.visited
    /\ DOMAIN e.frontier \subseteq e.visited
    /\ DOMAIN e.proposals \subseteq Node \ e.visited
    /\ Found(e) \subseteq e.visited \ e.seeds
    /\ e.pc \in {"read", "load"} => e.depth # 0 /\ Len(e.expanded) < MaxNodes
    /\ Len(e.expanded) <= MaxNodes
    /\ \A i \in 1..Len(e.expanded) : e.expanded[i].depth <= e.depth
    /\ \A i, j \in 1..Len(e.expanded) : i < j =>
          /\ e.expanded[i].node # e.expanded[j].node
          /\ e.expanded[i].depth <= e.expanded[j].depth

LEMMA ScoredIs ==
    ASSUME NEW f
    PROVE  f \in ScoredNodes <=> /\ f = [n \in DOMAIN f |-> f[n]] /\ DOMAIN f \subseteq Node
                                /\ \A n \in DOMAIN f : f[n] \in Score
<1>1. ASSUME f \in ScoredNodes
      PROVE  /\ f = [n \in DOMAIN f |-> f[n]] /\ DOMAIN f \subseteq Node
             /\ \A n \in DOMAIN f : f[n] \in Score
  BY <1>1 DEF ScoredNodes
<1>2. ASSUME f = [n \in DOMAIN f |-> f[n]], DOMAIN f \subseteq Node,
             \A n \in DOMAIN f : f[n] \in Score
      PROVE  f \in ScoredNodes
  <2>1. f \in [DOMAIN f -> Score]
    BY <1>2
  <2> QED
    BY <1>2, <2>1 DEF ScoredNodes
<1> QED
  BY <1>1, <1>2

LEMMA EmptyScored == <<>> \in ScoredNodes /\ DOMAIN <<>> = {}
<1>1. DOMAIN <<>> = {} /\ <<>> = [n \in {} |-> 0]
  OBVIOUS
<1>2. <<>> \in [{} -> Score]
  BY <1>1
<1> QED
  BY <1>1, <1>2 DEF ScoredNodes

\* Nodes in the order of their scores.
LEMMA ByScoreIs ==
    ASSUME NEW nodes \in SUBSET Node, NEW score, \A n \in nodes : score[n] \in Int
    PROVE  /\ ByScore(nodes, score) \in Seq(nodes)
           /\ Len(ByScore(nodes, score)) = Cardinality(nodes)
           /\ \A n \in nodes : \E i \in 1..Len(ByScore(nodes, score)) : ByScore(nodes, score)[i] = n
           /\ \A i, j \in 1..Len(ByScore(nodes, score)) :
                 i < j => Better(score, ByScore(nodes, score)[i], ByScore(nodes, score)[j])
           /\ \A i, j \in 1..Len(ByScore(nodes, score)) :
                 ByScore(nodes, score)[i] = ByScore(nodes, score)[j] => i = j
<1> DEFINE before == {mn \in nodes \X nodes : Better(score, mn[1], mn[2])}
           s == Ordered(nodes, before)
           n == Cardinality(nodes)
<1>1. IsFiniteSet(nodes) /\ n \in Nat
  BY NodesFinite, FS_Subset, FS_CardinalityType
<1>2. \A x, y \in nodes : <<x, y>> \in before <=> Better(score, x, y)
  OBVIOUS
<1>3. \A x \in nodes : Place[x] \in Nat
  BY GraphAssumption
<1>4. \A x, y \in nodes : Place[x] = Place[y] => x = y
  BY GraphAssumption
<1> HIDE DEF before
<1>5. StrictOrder(nodes, before)
  <2>1. \A x \in nodes : ~ Better(score, x, x)
    BY <1>3 DEF Better
  <2>2. \A x, y \in nodes : x # y => Better(score, x, y) \/ Better(score, y, x)
    <3> SUFFICES ASSUME NEW x \in nodes, NEW y \in nodes, x # y
                 PROVE  Better(score, x, y) \/ Better(score, y, x)
      OBVIOUS
    <3>1. Place[x] # Place[y] /\ Place[x] \in Nat /\ Place[y] \in Nat
      BY <1>3, <1>4
    <3>2. score[x] \in Int /\ score[y] \in Int
      OBVIOUS
    <3> QED
      BY <3>1, <3>2 DEF Better
  <2>3. \A x, y, z \in nodes : Better(score, x, y) /\ Better(score, y, z) => Better(score, x, z)
    <3> SUFFICES ASSUME NEW x \in nodes, NEW y \in nodes, NEW z \in nodes,
                        Better(score, x, y), Better(score, y, z)
                 PROVE  Better(score, x, z)
      OBVIOUS
    <3>1. Place[x] \in Nat /\ Place[y] \in Nat /\ Place[z] \in Nat
      BY <1>3
    <3>2. score[x] \in Int /\ score[y] \in Int /\ score[z] \in Int
      OBVIOUS
    <3> QED
      BY <3>1, <3>2 DEF Better
  <2> QED
    BY <1>2, <2>1, <2>2, <2>3 DEF StrictOrder
<1> HIDE DEF n
<1>6. /\ s \in [1..n -> nodes]
      /\ \A x \in nodes : \E i \in 1..n : s[i] = x
      /\ \A i, j \in 1..n : i < j => <<s[i], s[j]>> \in before
  BY <1>1, <1>5, OrderedElements DEF n
<1>7. s = ByScore(nodes, score)
  BY DEF ByScore, before
<1> HIDE DEF s
<1>8. s \in Seq(nodes) /\ Len(s) = n
  BY <1>1, <1>6
<1>9. \A i, j \in 1..n : i < j => Better(score, s[i], s[j])
  BY <1>2, <1>6
<1>10. \A i, j \in 1..n : s[i] = s[j] => i = j
  <2> SUFFICES ASSUME NEW i \in 1..n, NEW j \in 1..n, s[i] = s[j], i # j PROVE FALSE
    OBVIOUS
  <2>1. <<s[i], s[i]>> \in before
    <3>1. i < j \/ j < i
      BY <1>1
    <3> QED
      BY <1>6, <3>1
  <2> QED
    BY <1>5, <1>6, <2>1 DEF StrictOrder
<1> QED
  BY <1>6, <1>7, <1>8, <1>9, <1>10 DEF n

\* What the second statement of a level may return, and what is taken of it.
Candidates(cur, e) == {n \in DOMAIN e.proposals : CurrentAt(cur, n) /\ n \in Visible}
IsTaken(taken, cur, e) ==
    /\ taken \in Seq(Candidates(cur, e))
    /\ Len(taken) <= MaxNodes - Len(e.expanded)
    /\ Len(taken) = MaxNodes - Len(e.expanded) \/ ToSet(taken) = Candidates(cur, e)
    /\ \A i, j \in 1..Len(taken) : taken[i] = taken[j] => i = j
    /\ \A n \in Candidates(cur, e) \ ToSet(taken) : \A i \in 1..Len(taken) :
          Better(e.proposals, taken[i], n)

LEMMA TakenIs ==
    ASSUME Bounded(expansion), expansion.pc = "load"
    PROVE  IsTaken(SubSeq(Loaded, 1, Smaller(Len(Loaded), Room)), current, expansion)
<1> DEFINE p == expansion.proposals
           S == Candidates(current, expansion)
           all == ByScore(S, p)
           k == Smaller(Len(all), Room)
           taken == SubSeq(all, 1, k)
<1>1. S = {n \in DOMAIN p : IsCurrent(n) /\ n \in Visible}
  BY AtCurrent DEF Candidates
<1>2. Loaded = all
  BY <1>1 DEF Loaded
<1>3. p \in ScoredNodes
  BY DEF Bounded, Locals
<1>4. DOMAIN p \subseteq Node /\ \A n \in DOMAIN p : p[n] \in Int
  BY <1>3, ScoredIs, NodesFinite
<1>5. S \in SUBSET Node /\ \A n \in S : p[n] \in Int
  BY <1>4 DEF Candidates
<1> HIDE DEF S, p
<1>6. /\ all \in Seq(S) /\ \A n \in S : \E i \in 1..Len(all) : all[i] = n
      /\ \A i, j \in 1..Len(all) : i < j => Better(p, all[i], all[j])
      /\ \A i, j \in 1..Len(all) : all[i] = all[j] => i = j
  BY <1>5, ByScoreIs
<1>7. Room \in Nat /\ Room = MaxNodes - Len(expansion.expanded)
  BY Bounds DEF Room, Bounded, Locals
<1> HIDE DEF all
<1>8. /\ Len(all) \in Nat /\ k \in Nat /\ k <= Len(all) /\ k <= Room
      /\ k = Len(all) \/ k = Room
  BY <1>6, <1>7 DEF Smaller
<1> HIDE DEF k
<1>9. /\ taken \in Seq(S) /\ Len(taken) = k
      /\ \A i \in 1..k : taken[i] = all[i]
  BY <1>6, <1>8
<1> HIDE DEF taken
<1>10. ToSet(taken) = {all[i] : i \in 1..k}
  <2>1. DOMAIN taken = 1..k
    BY <1>9
  <2> QED
    BY <1>9, <2>1 DEF ToSet
<1>11. k = Len(all) => ToSet(taken) = S
  BY <1>6, <1>8, <1>10
<1>12. \A n \in S \ ToSet(taken) : \A i \in 1..k : Better(p, taken[i], n)
  <2> SUFFICES ASSUME NEW n \in S, n \notin ToSet(taken), NEW i \in 1..k
               PROVE  Better(p, taken[i], n)
    OBVIOUS
  <2>1. PICK j \in 1..Len(all) : all[j] = n
    BY <1>6
  <2>2. j \notin 1..k
    BY <1>10, <2>1
  <2>3. i < j /\ i \in 1..Len(all)
    BY <1>8, <2>2
  <2> QED
    BY <1>6, <1>9, <2>1, <2>3
<1>13. \A i, j \in 1..k : taken[i] = taken[j] => i = j
  <2> SUFFICES ASSUME NEW i \in 1..k, NEW j \in 1..k, taken[i] = taken[j] PROVE i = j
    OBVIOUS
  <2>1. i \in 1..Len(all) /\ j \in 1..Len(all) /\ all[i] = all[j]
    BY <1>8, <1>9
  <2> QED
    BY <1>6, <2>1
<1>14. IsTaken(taken, current, expansion)
  BY <1>7, <1>8, <1>9, <1>11, <1>12, <1>13 DEF IsTaken, S, p
<1> QED
  BY <1>2, <1>14 DEF taken, k

-----------------------------------------------------------------------------
(* The steps of an expansion *)

Begun(w) ==
    [NoExpansion EXCEPT !.pc = "read", !.depth = 1, !.seeds = DOMAIN w, !.worth = w,
                        !.visited = DOMAIN w, !.frontier = w]

Reached(cur, e) ==
    {n \in Node \ e.visited : \E m \in DOMAIN e.frontier : LeadsAt(cur, m, n)}
ProposedAt(cur, e) ==
    [n \in Reached(cur, e) |->
        Highest({e.frontier[m] : m \in {x \in DOMAIN e.frontier : LeadsAt(cur, x, n)}})]
AfterRead(cur, e) ==
    [e EXCEPT !.proposals = ProposedAt(cur, e),
              !.pc = IF Reached(cur, e) = {} THEN "done" ELSE "load"]

LastLevel(e, taken) ==
    \/ Len(taken) = MaxNodes - Len(e.expanded) \/ ToSet(taken) = {} \/ e.depth = MaxDepth
HitOf(e, n) == [node |-> n, depth |-> e.depth, score |-> e.proposals[n]]
HitsOf(e, taken) == [i \in 1..Len(taken) |-> HitOf(e, taken[i])]
AfterTake(e, taken) ==
    [e EXCEPT !.expanded = @ \o HitsOf(e, taken),
              !.visited = @ \cup ToSet(taken),
              !.frontier = [n \in ToSet(taken) |-> e.proposals[n]],
              !.proposals = <<>>,
              !.depth = IF LastLevel(e, taken) THEN @ ELSE @ + 1,
              !.pc = IF LastLevel(e, taken) THEN "done" ELSE "read"]

LEMMA BeginBounded ==
    ASSUME NEW roots \in SUBSET Node, NEW w \in [roots -> Score]
    PROVE  Bounded(Begun(w))
<1> DEFINE b == Begun(w)
<1>1. b = [pc |-> "read", depth |-> 1, seeds |-> roots, worth |-> w, frontier |-> w,
           visited |-> roots, proposals |-> <<>>, expanded |-> <<>>, steady |-> TRUE]
  <2>1. b = [NoExpansion EXCEPT !.pc = "read", !.depth = 1, !.seeds = DOMAIN w, !.worth = w,
                                !.visited = DOMAIN w, !.frontier = w]
    BY DEF Begun
  <2>2. DOMAIN w = roots
    OBVIOUS
  <2> QED
    BY <2>1, <2>2 DEF NoExpansion
<1>2. w \in ScoredNodes /\ DOMAIN w = roots
  BY DEF ScoredNodes
<1> HIDE DEF b
<1>3. <<>> \in Seq(Hit) /\ Len(<<>>) = 0
  OBVIOUS
<1>4. b \in Locals
  BY <1>1, <1>2, <1>3, EmptyScored, Bounds DEF Locals
<1>5. Found(b) = {}
  BY <1>1, <1>3 DEF Found
<1>6. /\ b.pc = "read" /\ b.depth = 1 /\ b.seeds = roots /\ b.visited = roots /\ b.worth = w
      /\ DOMAIN b.frontier = roots /\ DOMAIN b.proposals = {}
      /\ b.expanded = <<>> /\ Len(b.expanded) = 0
  BY <1>1, <1>2, <1>3, EmptyScored
<1> QED
  BY <1>4, <1>5, <1>6, Bounds DEF Bounded, b

LEMMA OffBounded ==
    /\ Bounded(NoExpansion)
    /\ \A e : Bounded(e) => Bounded([e EXCEPT !.pc = "off"]) /\ Bounded([e EXCEPT !.steady = FALSE])
<1>1. Bounded(NoExpansion)
  <2>1. <<>> \in Seq(Hit) /\ Len(<<>>) = 0
    OBVIOUS
  <2>2. NoExpansion \in Locals
    BY <2>1, EmptyScored, Bounds DEF Locals, NoExpansion
  <2>3. Found(NoExpansion) = {}
    BY <2>1 DEF Found, NoExpansion
  <2> QED
    BY <2>1, <2>2, <2>3, EmptyScored, Bounds DEF Bounded, NoExpansion
<1>2. ASSUME NEW e, Bounded(e)
      PROVE  Bounded([e EXCEPT !.pc = "off"]) /\ Bounded([e EXCEPT !.steady = FALSE])
  <2>1. e \in Locals
    BY <1>2 DEF Bounded
  <2>2. [e EXCEPT !.pc = "off"] \in Locals /\ [e EXCEPT !.steady = FALSE] \in Locals
    BY <2>1 DEF Locals
  <2>3. ASSUME NEW f, f \in Locals, f.seeds = e.seeds, f.worth = e.worth,
               f.visited = e.visited, f.frontier = e.frontier, f.proposals = e.proposals,
               f.expanded = e.expanded, f.depth = e.depth, f.pc \in {e.pc, "off"}
        PROVE  Bounded(f)
    BY <1>2, <2>3 DEF Bounded, Found
  <2> DEFINE f == [e EXCEPT !.pc = "off"]
             g == [e EXCEPT !.steady = FALSE]
  <2>4. /\ f.seeds = e.seeds /\ f.worth = e.worth /\ f.visited = e.visited
        /\ f.frontier = e.frontier /\ f.proposals = e.proposals
        /\ f.expanded = e.expanded /\ f.depth = e.depth /\ f.pc = "off"
    BY <2>1 DEF Locals
  <2>5. /\ g.seeds = e.seeds /\ g.worth = e.worth /\ g.visited = e.visited
        /\ g.frontier = e.frontier /\ g.proposals = e.proposals
        /\ g.expanded = e.expanded /\ g.depth = e.depth /\ g.pc = e.pc
    BY <2>1 DEF Locals
  <2> HIDE DEF f, g
  <2>6. f \in Locals /\ g \in Locals
    BY <2>2 DEF f, g
  <2>7. Bounded(f) /\ Bounded(g)
    BY <2>3, <2>4, <2>5, <2>6
  <2> QED
    BY <2>7 DEF f, g
<1> QED
  BY <1>1, <1>2

\* What is proposed behind the frontier.
LEMMA ProposedIs ==
    ASSUME NEW cur, NEW e, Bounded(e)
    PROVE  /\ ProposedAt(cur, e) \in ScoredNodes
           /\ DOMAIN ProposedAt(cur, e) = Reached(cur, e)
           /\ Reached(cur, e) \subseteq Node \ e.visited
<1> DEFINE parents(n) == {x \in DOMAIN e.frontier : LeadsAt(cur, x, n)}
           p == ProposedAt(cur, e)
<1>1. Reached(cur, e) \subseteq Node \ e.visited
  BY DEF Reached
<1>2. e.frontier \in ScoredNodes
  BY DEF Bounded, Locals
<1>3. \A m \in DOMAIN e.frontier : e.frontier[m] \in Score
  BY <1>2, ScoredIs
<1>4. \A n \in Reached(cur, e) : Highest({e.frontier[m] : m \in parents(n)}) \in Score
  <2> SUFFICES ASSUME NEW n \in Reached(cur, e)
               PROVE  Highest({e.frontier[m] : m \in parents(n)}) \in Score
    OBVIOUS
  <2> DEFINE T == {e.frontier[m] : m \in parents(n)}
  <2>1. T \subseteq Score /\ T # {}
    BY <1>3 DEF Reached
  <2>2. Highest(T) \in T
    <3> HIDE DEF T
    <3> QED
      BY <2>1, HighestOf
  <2> QED
    BY <2>1, <2>2
<1>5. p = [n \in Reached(cur, e) |-> Highest({e.frontier[m] : m \in parents(n)})]
  BY DEF ProposedAt
<1>6. p \in [Reached(cur, e) -> Score]
  <2> HIDE DEF p, parents
  <2> QED
    BY <1>4, <1>5
<1> HIDE DEF p
<1>7. p \in ScoredNodes /\ DOMAIN p = Reached(cur, e)
  BY <1>1, <1>6 DEF ScoredNodes
<1> QED
  BY <1>1, <1>7 DEF p

LEMMA ReadBounded ==
    ASSUME NEW cur, NEW e, Bounded(e), e.pc = "read"
    PROVE  Bounded(AfterRead(cur, e))
<1> DEFINE p == ProposedAt(cur, e)
           r == AfterRead(cur, e)
           pc == IF Reached(cur, e) = {} THEN "done" ELSE "load"
<1>1. p \in ScoredNodes /\ DOMAIN p \subseteq Node \ e.visited
  BY ProposedIs
<1>2. e \in Locals
  BY DEF Bounded
<1>3. r = [e EXCEPT !.proposals = p, !.pc = pc]
  BY DEF AfterRead
<1>4. pc \in {"load", "done"}
  OBVIOUS
<1> HIDE DEF p, r, pc
<1>5. r \in Locals
  BY <1>1, <1>2, <1>3, <1>4 DEF Locals
<1>6. /\ r.proposals = p /\ r.pc = pc /\ r.seeds = e.seeds /\ r.visited = e.visited
      /\ r.frontier = e.frontier /\ r.expanded = e.expanded /\ r.depth = e.depth
      /\ r.worth = e.worth
  BY <1>2, <1>3 DEF Locals
<1> QED
  BY <1>1, <1>4, <1>5, <1>6 DEF Bounded, Found, r

IsHits(list, e, taken) ==
    /\ list \in Seq(Hit) /\ Len(list) = Len(taken) /\ Len(taken) \in Nat
    /\ \A i \in 1..Len(taken) : list[i] = HitOf(e, taken[i])

LEMMA HitsAre ==
    ASSUME NEW cur, NEW e, Bounded(e), e.pc = "load", NEW taken, IsTaken(taken, cur, e)
    PROVE  /\ IsHits(HitsOf(e, taken), e, taken)
           /\ Len(taken) \in Nat
           /\ \A i \in 1..Len(taken) : taken[i] \in Candidates(cur, e)
           /\ ToSet(taken) = {taken[i] : i \in 1..Len(taken)}
           /\ ToSet(taken) \subseteq Candidates(cur, e)
<1>1. taken \in Seq(Candidates(cur, e))
  BY DEF IsTaken
<1>2. e \in Locals
  BY DEF Bounded
<1>3. Len(taken) \in Nat /\ DOMAIN taken = 1..Len(taken)
      /\ \A i \in 1..Len(taken) : taken[i] \in Candidates(cur, e)
  BY <1>1
<1>4. \A n \in DOMAIN e.proposals : e.proposals[n] \in Score
  BY <1>2, ScoredIs DEF Locals
<1>5. e.depth \in 1..MaxDepth
  BY <1>2, Bounds DEF Bounded, Locals
<1>6. \A i \in 1..Len(taken) : HitOf(e, taken[i]) \in Hit
  BY <1>3, <1>4, <1>5 DEF Hit, Candidates, HitOf
<1>7. HitsOf(e, taken) \in Seq(Hit) /\ Len(HitsOf(e, taken)) = Len(taken)
  BY <1>3, <1>6 DEF HitsOf
<1>8. IsHits(HitsOf(e, taken), e, taken)
  BY <1>3, <1>7 DEF HitsOf, IsHits
<1> QED
  BY <1>3, <1>8 DEF ToSet

\* What was found before stays at its place, and what is taken comes behind it.
IsExtended(all, e, taken) ==
    /\ all \in Seq(Hit) /\ Len(all) = Len(e.expanded) + Len(taken)
    /\ Len(e.expanded) \in Nat /\ Len(taken) \in Nat
    /\ \A i \in 1..Len(e.expanded) : i \in 1..Len(all) /\ all[i] = e.expanded[i]
    /\ \A i \in 1..Len(taken) :
          /\ Len(e.expanded) + i \in 1..Len(all)
          /\ all[Len(e.expanded) + i] = HitOf(e, taken[i])
    /\ \A i \in 1..Len(all) :
          i \in 1..Len(e.expanded) \/ \E k \in 1..Len(taken) : i = Len(e.expanded) + k

LEMMA ExpandedIs ==
    ASSUME NEW cur, NEW e, Bounded(e), e.pc = "load", NEW taken, IsTaken(taken, cur, e)
    PROVE  IsExtended(e.expanded \o HitsOf(e, taken), e, taken)
<1> DEFINE old == e.expanded
           new == HitsOf(e, taken)
           all == old \o new
<1>1. old \in Seq(Hit)
  BY DEF Bounded, Locals
<1>2. /\ new \in Seq(Hit) /\ Len(new) = Len(taken) /\ Len(taken) \in Nat
      /\ \A i \in 1..Len(taken) : new[i] = HitOf(e, taken[i])
  <2>1. IsHits(HitsOf(e, taken), e, taken)
    BY HitsAre
  <2> QED
    BY <2>1 DEF IsHits
<1> HIDE DEF old, new
<1>9. new \in Seq(Hit) /\ Len(new) = Len(taken) /\ Len(taken) \in Nat
  BY <1>2
<1>3. /\ old \o new \in Seq(Hit) /\ Len(old \o new) = Len(old) + Len(new)
      /\ \A i \in 1..(Len(old) + Len(new)) :
            (old \o new)[i] = IF i <= Len(old) THEN old[i] ELSE new[i - Len(old)]
  BY <1>1, <1>9, ConcatProperties, Zenon
<1>4. all = old \o new
  OBVIOUS
<1> HIDE DEF all
<1>5. Len(old) \in Nat
  BY <1>1
<1>6. \A i \in 1..Len(old) : i \in 1..Len(all) /\ all[i] = old[i]
  BY <1>2, <1>3, <1>4, <1>5
<1>7. \A i \in 1..Len(taken) : Len(old) + i \in 1..Len(all) /\ all[Len(old) + i] = new[i]
  <2> SUFFICES ASSUME NEW i \in 1..Len(taken)
               PROVE  Len(old) + i \in 1..Len(all) /\ all[Len(old) + i] = new[i]
    OBVIOUS
  <2>1. /\ Len(old) + i \in 1..(Len(old) + Len(new)) /\ ~ (Len(old) + i <= Len(old))
        /\ (Len(old) + i) - Len(old) = i
    BY <1>2, <1>5
  <2> QED
    BY <1>3, <1>4, <2>1
<1>8. \A i \in 1..Len(all) : i \in 1..Len(old) \/ \E k \in 1..Len(taken) : i = Len(old) + k
  <2> SUFFICES ASSUME NEW i \in 1..Len(all), i \notin 1..Len(old)
               PROVE  \E k \in 1..Len(taken) : i = Len(old) + k
    OBVIOUS
  <2>1. i - Len(old) \in 1..Len(taken) /\ i = Len(old) + (i - Len(old))
    BY <1>2, <1>3, <1>4, <1>5
  <2> QED
    BY <2>1
<1> QED
  BY <1>2, <1>3, <1>4, <1>5, <1>6, <1>7, <1>8 DEF old, new, all, IsExtended

LEMMA TakeBounded ==
    ASSUME NEW cur, NEW e, Bounded(e), e.pc = "load", NEW taken, IsTaken(taken, cur, e)
    PROVE  /\ Bounded(AfterTake(e, taken))
           /\ Found(AfterTake(e, taken)) = Found(e) \cup ToSet(taken)
<1> DEFINE t == AfterTake(e, taken)
           all == e.expanded \o HitsOf(e, taken)
           last == LastLevel(e, taken)
           frontier == [n \in ToSet(taken) |-> e.proposals[n]]
           depth == IF last THEN e.depth ELSE e.depth + 1
           pc == IF last THEN "done" ELSE "read"
           n0 == Len(e.expanded)
<1>1. e \in Locals
  BY DEF Bounded
<1>2. /\ Len(taken) \in Nat
      /\ \A i \in 1..Len(taken) : taken[i] \in Candidates(cur, e)
      /\ ToSet(taken) = {taken[i] : i \in 1..Len(taken)}
      /\ ToSet(taken) \subseteq Candidates(cur, e)
  BY HitsAre
<1>3. Candidates(cur, e) \subseteq DOMAIN e.proposals /\ DOMAIN e.proposals \subseteq Node \ e.visited
  BY DEF Candidates, Bounded
<1>4. PICK a : a = all
  OBVIOUS
<1>19. \A n : HitOf(e, n).node = n /\ HitOf(e, n).depth = e.depth
  BY DEF HitOf
<1>20. a = e.expanded \o HitsOf(e, taken)
  BY <1>4
<1>5. /\ a \in Seq(Hit) /\ Len(a) = n0 + Len(taken) /\ n0 \in Nat
      /\ \A i \in 1..n0 : i \in 1..Len(a) /\ a[i] = e.expanded[i]
      /\ \A i \in 1..Len(taken) :
            /\ n0 + i \in 1..Len(a)
            /\ a[n0 + i] = HitOf(e, taken[i])
      /\ \A i \in 1..Len(a) : i \in 1..n0 \/ \E k \in 1..Len(taken) : i = n0 + k
  <2>1. /\ a \in Seq(Hit) /\ Len(a) = Len(e.expanded) + Len(taken)
        /\ Len(e.expanded) \in Nat /\ Len(taken) \in Nat
        /\ \A i \in 1..Len(e.expanded) : i \in 1..Len(a) /\ a[i] = e.expanded[i]
        /\ \A i \in 1..Len(taken) :
              /\ Len(e.expanded) + i \in 1..Len(a)
              /\ a[Len(e.expanded) + i] = HitOf(e, taken[i])
        /\ \A i \in 1..Len(a) :
              i \in 1..Len(e.expanded) \/ \E k \in 1..Len(taken) : i = Len(e.expanded) + k
    <3>1. IsExtended(a, e, taken)
      BY <1>20, ExpandedIs
    <3> QED
      BY <3>1 DEF IsExtended
  <2> QED
    BY <2>1, Zenon
<1>6. frontier \in ScoredNodes /\ DOMAIN frontier = ToSet(taken)
  <2>1. \A n \in DOMAIN e.proposals : e.proposals[n] \in Score
    BY <1>1, ScoredIs DEF Locals
  <2>2. frontier \in [ToSet(taken) -> Score]
    BY <1>2, <1>3, <2>1
  <2>3. ToSet(taken) \in SUBSET Node
    BY <1>2, <1>3
  <2> HIDE DEF frontier
  <2> QED
    BY <2>2, <2>3 DEF ScoredNodes
<1>7. e.depth \in 1..MaxDepth /\ MaxNodes - n0 \in Nat /\ n0 < MaxNodes
  BY <1>1, Bounds DEF Bounded, Locals
<1>8. /\ Len(taken) <= MaxNodes - n0
      /\ \A i, j \in 1..Len(taken) : taken[i] = taken[j] => i = j
  BY DEF IsTaken
<1>9. /\ ~ last => e.depth + 1 \in 1..MaxDepth /\ Len(taken) < MaxNodes - n0
      /\ depth \in 1..MaxDepth /\ e.depth <= depth /\ pc \in {"read", "done"}
      /\ pc = "read" <=> ~ last
  <2>1. ~ last => e.depth # MaxDepth /\ Len(taken) # MaxNodes - n0
    BY DEF LastLevel
  <2> HIDE DEF last, n0
  <2> QED
    BY <1>2, <1>7, <1>8, <2>1, Bounds
<1>10. t = [e EXCEPT !.expanded = a, !.visited = e.visited \cup ToSet(taken),
                     !.frontier = frontier, !.proposals = <<>>, !.depth = depth, !.pc = pc]
  BY <1>1, <1>4 DEF AfterTake, Locals
<1> HIDE DEF t, frontier, depth, pc, last, n0, all
<1>11. /\ t.expanded = a /\ t.visited = e.visited \cup ToSet(taken) /\ t.frontier = frontier
       /\ t.proposals = <<>> /\ t.depth = depth /\ t.pc = pc /\ t.seeds = e.seeds
       /\ t.worth = e.worth /\ t.steady = e.steady
  BY <1>1, <1>10 DEF Locals
<1>12. t \in Locals
  <2>1. e.visited \cup ToSet(taken) \in SUBSET Node
    BY <1>1, <1>2, <1>3 DEF Locals
  <2>2. depth \in 0..MaxDepth /\ pc \in {"off", "read", "load", "done"}
    BY <1>9, Bounds
  <2>3. a \in Seq(Hit)
    BY <1>5
  <2>4. t = [pc |-> pc, depth |-> depth, seeds |-> e.seeds, worth |-> e.worth,
             frontier |-> frontier, visited |-> e.visited \cup ToSet(taken),
             proposals |-> <<>>, expanded |-> a, steady |-> e.steady]
    BY <1>1, <1>10 DEF Locals
  <2>5. e.seeds \in SUBSET Node /\ e.worth \in ScoredNodes /\ e.steady \in BOOLEAN
    BY <1>1 DEF Locals
  <2> QED
    BY <1>6, <2>1, <2>2, <2>3, <2>4, <2>5, EmptyScored DEF Locals
<1>13. Found(t) = Found(e) \cup ToSet(taken)
  <2>1. ASSUME NEW i \in 1..Len(a)
        PROVE  a[i].node \in Found(e) \cup ToSet(taken)
    <3>1. CASE i \in 1..n0
      BY <1>5, <3>1 DEF Found, n0
    <3>2. ASSUME NEW k \in 1..Len(taken), i = n0 + k
          PROVE  a[i].node \in Found(e) \cup ToSet(taken)
      <4>1. a[n0 + k].node = taken[k]
        BY <1>5, <1>19
      <4> QED
        BY <1>2, <3>2, <4>1
    <3> QED
      BY <1>5, <3>1, <3>2
  <2>2. \A i \in 1..n0 : e.expanded[i].node \in {a[k].node : k \in 1..Len(a)}
    BY <1>5
  <2>3. \A i \in 1..Len(taken) : taken[i] \in {a[k].node : k \in 1..Len(a)}
    <3> SUFFICES ASSUME NEW i \in 1..Len(taken) PROVE taken[i] \in {a[k].node : k \in 1..Len(a)}
      OBVIOUS
    <3>1. n0 + i \in 1..Len(a) /\ a[n0 + i].node = taken[i]
      BY <1>5, <1>19
    <3> QED
      BY <3>1
  <2>4. Found(t) = {a[k].node : k \in 1..Len(a)} /\ Found(e) = {e.expanded[i].node : i \in 1..n0}
    BY <1>11 DEF Found, n0
  <2> QED
    BY <1>2, <2>1, <2>2, <2>3, <2>4
<1>14. Found(t) \subseteq t.visited \ t.seeds
  BY <1>2, <1>3, <1>11, <1>13 DEF Bounded
<1>15. \A i \in 1..Len(a) : a[i].depth <= depth
  <2> SUFFICES ASSUME NEW i \in 1..Len(a) PROVE a[i].depth <= depth
    OBVIOUS
  <2>1. CASE i \in 1..n0
    <3>1. a[i] = e.expanded[i] /\ e.expanded[i].depth <= e.depth
      BY <1>5, <2>1 DEF Bounded, n0
    <3>2. a[i].depth \in 1..MaxDepth
      <4>1. a[i] \in Hit
        BY <1>5
      <4> QED
        BY <4>1 DEF Hit
    <3> QED
      BY <1>7, <1>9, <3>1, <3>2, Bounds
  <2>2. ASSUME NEW k \in 1..Len(taken), i = n0 + k
        PROVE  a[i].depth <= depth
    <3>1. a[n0 + k].depth = e.depth
      BY <1>5, <1>19
    <3> QED
      BY <1>9, <2>2, <3>1
  <2> QED
    BY <1>5, <2>1, <2>2
<1>16. ASSUME NEW i \in 1..Len(a), NEW j \in 1..Len(a), i < j
       PROVE  a[i].node # a[j].node /\ a[i].depth <= a[j].depth
  <2>1. CASE j \in 1..n0
    <3>1. i \in 1..n0
      BY <1>5, <1>16, <2>1
    <3> QED
      BY <1>5, <1>16, <2>1, <3>1 DEF Bounded, n0
  <2>2. ASSUME NEW l \in 1..Len(taken), j = n0 + l
        PROVE  a[i].node # a[j].node /\ a[i].depth <= a[j].depth
    <3>1. a[j].node = taken[l] /\ a[j].depth = e.depth
      <4>1. a[n0 + l] = HitOf(e, taken[l])
        BY <1>5
      <4> QED
        BY <1>19, <2>2, <4>1
    <3>2. taken[l] \notin e.visited
      BY <1>2, <1>3, <2>2
    <3>3. CASE i \in 1..n0
      <4>1. a[i] = e.expanded[i] /\ e.expanded[i].depth <= e.depth /\ e.expanded[i].node \in e.visited
        BY <1>5, <3>3 DEF Bounded, n0, Found
      <4> QED
        BY <2>2, <3>1, <3>2, <4>1
    <3>4. ASSUME NEW k \in 1..Len(taken), i = n0 + k
          PROVE  a[i].node # a[j].node /\ a[i].depth <= a[j].depth
      <4>1. a[i].node = taken[k] /\ a[i].depth = e.depth
        <5>1. a[n0 + k] = HitOf(e, taken[k])
          BY <1>5
        <5> QED
          BY <1>19, <3>4, <5>1
      <4>2. taken[k] # taken[l]
        BY <1>5, <1>8, <1>16, <2>2, <3>4
      <4> QED
        BY <1>7, <2>2, <3>1, <3>4, <4>1, <4>2
    <3> QED
      BY <1>5, <3>3, <3>4
  <2> QED
    BY <1>5, <2>1, <2>2
<1>17. Len(a) <= MaxNodes /\ (pc = "read" => Len(a) < MaxNodes)
  BY <1>2, <1>5, <1>7, <1>8, <1>9, Bounds
<1>18. Bounded(t)
  <2>1. t.seeds \subseteq t.visited /\ DOMAIN t.frontier \subseteq t.visited
    BY <1>6, <1>11 DEF Bounded
  <2>2. DOMAIN t.proposals \subseteq Node \ t.visited
    BY <1>11, EmptyScored
  <2>3. t.pc \in {"read", "load"} => t.depth # 0 /\ Len(t.expanded) < MaxNodes
    BY <1>9, <1>11, <1>17
  <2> QED
    BY <1>11, <1>12, <1>14, <1>15, <1>16, <1>17, <2>1, <2>2, <2>3 DEF Bounded
<1> QED
  BY <1>13, <1>18 DEF t

-----------------------------------------------------------------------------
(* An expansion during which nothing is published *)

AheadAt(cur, roots, w, m, n) ==
    \/ DistanceAt(cur, roots, m) < DistanceAt(cur, roots, n)
    \/ /\ DistanceAt(cur, roots, m) = DistanceAt(cur, roots, n)
       /\ \/ BestAt(cur, roots, w, m) > BestAt(cur, roots, w, n)
          \/ /\ BestAt(cur, roots, w, m) = BestAt(cur, roots, w, n)
             /\ Place[m] < Place[n]

HitsExact(cur, e) == \A i \in 1..Len(e.expanded) :
    /\ e.expanded[i].depth = DistanceAt(cur, e.seeds, e.expanded[i].node)
    /\ e.expanded[i].score = BestAt(cur, e.seeds, e.worth, e.expanded[i].node)

\* What the levels before this one have left behind.
LevelExact(cur, e) ==
    /\ e.visited = WithinAt(cur, e.seeds)[e.depth - 1]
    /\ DOMAIN e.frontier = Ring(cur, e.seeds, e.depth - 1)
    /\ \A n \in DOMAIN e.frontier : e.frontier[n] = BestAt(cur, e.seeds, e.worth, n)
    /\ Found(e) = WithinAt(cur, e.seeds)[e.depth - 1] \ e.seeds

Reachable(cur, roots) == WithinAt(cur, roots)[MaxDepth] \ roots

Complete(cur, e) ==
    /\ Found(e) \subseteq Reachable(cur, e.seeds)
    /\ \A n \in Reachable(cur, e.seeds) \ Found(e) :
          /\ Len(e.expanded) = MaxNodes
          /\ \A m \in Found(e) : AheadAt(cur, e.seeds, e.worth, m, n)

Exact(cur, e) == e.steady =>
    /\ HitsExact(cur, e)
    /\ e.pc \in {"read", "load"} => LevelExact(cur, e)
    /\ e.pc = "load" => e.proposals = ProposedAt(cur, e)
    /\ e.pc = "done" => Complete(cur, e)

\* Distances and the nodes within so many hops.
LEMMA NearAndFar ==
    ASSUME NEW cur, NEW roots \in SUBSET Node, NEW k \in 0..MaxDepth,
           NEW n \in WithinAt(cur, roots)[MaxDepth]
    PROVE  /\ DistanceAt(cur, roots, n) \in Nat
           /\ n \in WithinAt(cur, roots)[k] <=> DistanceAt(cur, roots, n) <= k
<1> DEFINE d == DistanceAt(cur, roots, n)
<1>1. d \in 0..MaxDepth /\ n \in Ring(cur, roots, d)
  BY EveryRing
<1>2. n \in WithinAt(cur, roots)[d] /\ \A e \in 0..(d - 1) : n \notin WithinAt(cur, roots)[e]
  BY <1>1, RingIs
<1> HIDE DEF d
<1>3. CASE d <= k
  <2>1. WithinAt(cur, roots)[d] \subseteq WithinAt(cur, roots)[k]
    BY <1>1, <1>3, WithinGrows
  <2> QED
    BY <1>1, <1>2, <1>3, <2>1 DEF d
<1>4. CASE ~ (d <= k)
  <2>1. k \in 0..(d - 1)
    BY <1>1, <1>4, Bounds
  <2> QED
    BY <1>1, <1>2, <1>4, <2>1 DEF d
<1> QED
  BY <1>3, <1>4

\* When no node lies one hop further, none lies further at all.
LEMMA NothingFurther ==
    ASSUME NEW cur, NEW roots \in SUBSET Node, NEW d \in 1..MaxDepth,
           Ring(cur, roots, d) = {}
    PROVE  WithinAt(cur, roots)[MaxDepth] = WithinAt(cur, roots)[d - 1]
<1>1. d - 1 \in Nat /\ d - 1 < MaxDepth /\ (d - 1) + 1 = d /\ d - 1 \in 0..MaxDepth /\ d # 0
  BY Bounds
<1>2. WithinAt(cur, roots)[d] =
         WithinAt(cur, roots)[d - 1] \cup Hop(cur, WithinAt(cur, roots)[d - 1])
  BY <1>1, WithinStep
<1>3. Hop(cur, WithinAt(cur, roots)[d - 1]) \subseteq WithinAt(cur, roots)[d - 1]
  BY <1>1, <1>2 DEF Ring
<1> QED
  BY <1>1, <1>3, WithinStops

\* What a level proposes and may load is the next ring, with the scores it is due.
LEMMA LevelIs ==
    ASSUME NEW cur, NEW e, Bounded(e), e.depth # 0, LevelExact(cur, e)
    PROVE  /\ \A n : n \in Ring(cur, e.seeds, e.depth) <=>
                 n \in Reached(cur, e) /\ CurrentAt(cur, n) /\ n \in Visible
           /\ \A n \in Ring(cur, e.seeds, e.depth) :
                 ProposedAt(cur, e)[n] = BestAt(cur, e.seeds, e.worth, n)
<1> DEFINE S == e.seeds
           w == e.worth
           d == e.depth
           W == WithinAt(cur, S)
<1>1. /\ S \in SUBSET Node /\ d \in 1..MaxDepth /\ d # 0 /\ d \in 0..MaxDepth
      /\ w \in [S -> Score]
  BY Bounds DEF Bounded, Locals
<1>2. e.visited = W[d - 1] /\ DOMAIN e.frontier = Ring(cur, S, d - 1)
  BY DEF LevelExact
<1>3. \A n : n \in Ring(cur, S, d) <=> n \in W[d] /\ n \notin W[d - 1]
  BY <1>1 DEF Ring
<1>4. W[d] \subseteq Node
  <2>1. W \in [0..MaxDepth -> SUBSET Node]
    BY <1>1, WithinIs
  <2> HIDE DEF W
  <2> QED
    BY <1>1, <2>1
<1>5. \A n \in Node \ W[d - 1] : n \in W[d] <=>
         /\ n \in Visible /\ CurrentAt(cur, n)
         /\ \E m \in Ring(cur, S, d - 1) : LeadsAt(cur, m, n)
  BY <1>1, RingStep
<1>6. \A n : n \in Ring(cur, S, d) <=> n \in Reached(cur, e) /\ CurrentAt(cur, n) /\ n \in Visible
  <2> HIDE DEF W, S, d
  <2> QED
    BY <1>2, <1>3, <1>4, <1>5 DEF Reached
<1>7. ASSUME NEW n \in Ring(cur, S, d)
      PROVE  ProposedAt(cur, e)[n] = BestAt(cur, S, w, n)
  <2>1. n \in Reached(cur, e)
    BY <1>6
  <2>2. \A m \in Ring(cur, S, d - 1) : e.frontier[m] = BestAt(cur, S, w, m)
    BY <1>2 DEF LevelExact
  <2>3. BestAt(cur, S, w, n) =
          Highest({e.frontier[m] : m \in {x \in Ring(cur, S, d - 1) : LeadsAt(cur, x, n)}})
    <3> HIDE DEF S, w, d
    <3>1. PICK best : best = e.frontier
      OBVIOUS
    <3>2. \A m \in Ring(cur, S, d - 1) : best[m] = BestAt(cur, S, w, m)
      BY <2>2, <3>1
    <3>3. BestAt(cur, S, w, n) = Inherited(cur, Ring(cur, S, d - 1), best, n)
      BY <1>1, <3>2, BestOfParents
    <3> QED
      BY <3>1, <3>3 DEF Inherited
  <2> QED
    BY <1>2, <2>1, <2>3 DEF ProposedAt
<1> QED
  BY <1>6, <1>7

LEMMA BeginExact ==
    ASSUME NEW cur, NEW roots \in SUBSET Node, NEW w \in [roots -> Score]
    PROVE  Exact(cur, Begun(w))
<1> DEFINE b == Begun(w)
<1>1. /\ b.pc = "read" /\ b.depth = 1 /\ b.seeds = DOMAIN w /\ b.visited = DOMAIN w
      /\ b.worth = w /\ b.frontier = w /\ b.expanded = <<>>
  BY DEF Begun, NoExpansion
<1>2. DOMAIN w = roots
  OBVIOUS
<1> HIDE DEF b
<1>3. WithinAt(cur, roots)[0] = roots /\ Ring(cur, roots, 0) = roots
  BY WithinIs DEF Ring
<1>4. \A n \in roots : BestAt(cur, roots, w, n) = w[n]
  BY BestOfSeed
<1>5. Len(b.expanded) = 0 /\ Found(b) = {}
  BY <1>1 DEF Found
<1>6. LevelExact(cur, b)
  <2>1. b.depth - 1 = 0
    BY <1>1
  <2> QED
    BY <1>1, <1>2, <1>3, <1>4, <1>5, <2>1 DEF LevelExact
<1>7. HitsExact(cur, b)
  BY <1>5 DEF HitsExact
<1> QED
  BY <1>1, <1>6, <1>7 DEF Exact, b

LEMMA ReadExact ==
    ASSUME NEW cur, NEW e, Bounded(e), e.pc = "read", Exact(cur, e)
    PROVE  Exact(cur, AfterRead(cur, e))
<1> DEFINE r == AfterRead(cur, e)
           S == e.seeds
           d == e.depth
           W == WithinAt(cur, S)
<1>1. /\ r.pc = (IF Reached(cur, e) = {} THEN "done" ELSE "load")
      /\ r.proposals = ProposedAt(cur, e) /\ r.seeds = S /\ r.worth = e.worth
      /\ r.visited = e.visited
      /\ r.frontier = e.frontier /\ r.expanded = e.expanded /\ r.depth = d
      /\ r.steady = e.steady
  BY DEF AfterRead, Bounded, Locals
<1> HIDE DEF r
<1> SUFFICES ASSUME e.steady PROVE Exact(cur, r)
  BY <1>1 DEF Exact, r
<1>2. HitsExact(cur, e) /\ LevelExact(cur, e)
  BY DEF Exact
<1>3. HitsExact(cur, r) /\ LevelExact(cur, r) /\ Found(r) = Found(e)
  BY <1>1, <1>2 DEF HitsExact, LevelExact, Found
<1>4. ProposedAt(cur, r) = ProposedAt(cur, e)
  BY <1>1 DEF ProposedAt, Reached
<1>5. ASSUME Reached(cur, e) = {}
      PROVE  Complete(cur, r)
  <2>1. S \in SUBSET Node /\ d \in 1..MaxDepth /\ d # 0
    BY Bounds DEF Bounded, Locals
  <2>2. Ring(cur, S, d) = {}
    BY <1>2, <1>5, <2>1, LevelIs
  <2>3. W[MaxDepth] = W[d - 1]
    BY <2>1, <2>2, NothingFurther
  <2>4. Found(r) = Reachable(cur, S)
    BY <1>1, <1>3, <2>3 DEF LevelExact, Reachable
  <2> QED
    BY <1>1, <2>4 DEF Complete
<1> QED
  BY <1>1, <1>3, <1>4, <1>5 DEF Exact

\* What is taken of the next ring, when nothing has been published since it was proposed.
LEMMA TakenOfRing ==
    ASSUME NEW cur, NEW e, Bounded(e), e.pc = "load", e.depth # 0, LevelExact(cur, e),
           e.proposals = ProposedAt(cur, e), NEW taken, IsTaken(taken, cur, e)
    PROVE  /\ Candidates(cur, e) = Ring(cur, e.seeds, e.depth)
           /\ ToSet(taken) \subseteq Ring(cur, e.seeds, e.depth)
           /\ \A n \in Ring(cur, e.seeds, e.depth) :
                 /\ e.proposals[n] = BestAt(cur, e.seeds, e.worth, n)
                 /\ DistanceAt(cur, e.seeds, n) = e.depth
<1>1. DOMAIN e.proposals = Reached(cur, e)
  BY ProposedIs
<1>2. \A n : n \in Ring(cur, e.seeds, e.depth) <=>
         n \in Reached(cur, e) /\ CurrentAt(cur, n) /\ n \in Visible
  BY LevelIs
<1>3. \A n \in Ring(cur, e.seeds, e.depth) :
         ProposedAt(cur, e)[n] = BestAt(cur, e.seeds, e.worth, n)
  BY LevelIs
<1>4. e.seeds \in SUBSET Node /\ e.depth \in 0..MaxDepth
  BY DEF Bounded, Locals
<1>5. \A n \in Ring(cur, e.seeds, e.depth) : DistanceAt(cur, e.seeds, n) = e.depth
  BY <1>4, RingDistance
<1>6. Candidates(cur, e) = Ring(cur, e.seeds, e.depth)
  BY <1>1, <1>2 DEF Candidates
<1>7. ToSet(taken) \subseteq Candidates(cur, e)
  BY HitsAre
<1> QED
  BY <1>3, <1>5, <1>6, <1>7

LEMMA TakeExact ==
    ASSUME NEW cur, NEW e, Bounded(e), e.pc = "load", Exact(cur, e),
           NEW taken, IsTaken(taken, cur, e)
    PROVE  Exact(cur, AfterTake(e, taken))
<1> DEFINE t == AfterTake(e, taken)
           S == e.seeds
           w == e.worth
           d == e.depth
           W == WithinAt(cur, S)
           R == Ring(cur, S, d)
           last == LastLevel(e, taken)
           a == e.expanded \o HitsOf(e, taken)
           f == [n \in ToSet(taken) |-> e.proposals[n]]
<1>1. e \in Locals /\ S \in SUBSET Node /\ d \in 1..MaxDepth /\ d # 0
      /\ d - 1 \in 0..MaxDepth /\ d \in 0..MaxDepth /\ (d + 1) - 1 = d
  BY Bounds DEF Bounded, Locals
<1>2. t = [e EXCEPT !.expanded = a, !.visited = e.visited \cup ToSet(taken),
                    !.frontier = f, !.proposals = <<>>,
                    !.depth = IF last THEN d ELSE d + 1,
                    !.pc = IF last THEN "done" ELSE "read"]
  BY <1>1 DEF AfterTake, Locals
<1> HIDE DEF t, last, a, f
<1>3. /\ t.expanded = a /\ t.visited = e.visited \cup ToSet(taken) /\ t.frontier = f
      /\ t.depth = (IF last THEN d ELSE d + 1) /\ t.pc = (IF last THEN "done" ELSE "read")
      /\ t.seeds = S /\ t.worth = w /\ t.steady = e.steady
  BY <1>1, <1>2 DEF Locals
<1> SUFFICES ASSUME e.steady PROVE Exact(cur, t)
  BY <1>3 DEF Exact, t
<1>4. HitsExact(cur, e) /\ LevelExact(cur, e) /\ e.proposals = ProposedAt(cur, e)
  BY DEF Exact
<1>5. /\ Candidates(cur, e) = R /\ ToSet(taken) \subseteq R
      /\ \A n \in R : e.proposals[n] = BestAt(cur, S, w, n) /\ DistanceAt(cur, S, n) = d
  BY <1>1, <1>4, TakenOfRing
<1>6. IsExtended(a, e, taken)
  BY ExpandedIs DEF a
<1>7. \A i \in 1..Len(taken) : taken[i] \in R /\ taken[i] \in ToSet(taken)
  <2>1. \A i \in 1..Len(taken) : taken[i] \in Candidates(cur, e)
    BY HitsAre
  <2>2. ToSet(taken) = {taken[i] : i \in 1..Len(taken)}
    BY HitsAre
  <2> QED
    BY <1>5, <2>1, <2>2
<1>8. HitsExact(cur, t)
  <2> SUFFICES ASSUME NEW i \in 1..Len(a)
               PROVE  /\ a[i].depth = DistanceAt(cur, S, a[i].node)
                      /\ a[i].score = BestAt(cur, S, w, a[i].node)
    BY <1>3 DEF HitsExact
  <2>1. CASE i \in 1..Len(e.expanded)
    <3>1. a[i] = e.expanded[i]
      BY <1>6, <2>1 DEF IsExtended
    <3> QED
      BY <1>4, <2>1, <3>1 DEF HitsExact
  <2>2. ASSUME NEW k \in 1..Len(taken), i = Len(e.expanded) + k
        PROVE  /\ a[i].depth = DistanceAt(cur, S, a[i].node)
               /\ a[i].score = BestAt(cur, S, w, a[i].node)
    <3>1. a[Len(e.expanded) + k] = HitOf(e, taken[k])
      BY <1>6 DEF IsExtended
    <3>2. a[i].node = taken[k] /\ a[i].depth = d /\ a[i].score = e.proposals[taken[k]]
      BY <2>2, <3>1 DEF HitOf
    <3> QED
      BY <1>5, <1>7, <3>2
  <2> QED
    BY <1>6, <2>1, <2>2 DEF IsExtended
<1>9. Found(t) = Found(e) \cup ToSet(taken)
  BY TakeBounded DEF t
<1>10. /\ e.visited = W[d - 1] /\ Found(e) = W[d - 1] \ S
       /\ S \subseteq W[d - 1]
       /\ \A n : n \in R <=> n \in W[d] /\ n \notin W[d - 1]
  BY <1>1, <1>4 DEF LevelExact, Bounded, Ring
<1>11. W[d - 1] \subseteq W[d] /\ W[d] \subseteq W[MaxDepth]
  BY <1>1, Bounds, WithinGrows
<1>12. Len(taken) # MaxNodes - Len(e.expanded) => ToSet(taken) = R
  BY <1>5 DEF IsTaken
<1> HIDE DEF R, W, S, w, d
<1>13. ASSUME ~ last
       PROVE  LevelExact(cur, t)
  <2>1. ToSet(taken) = R
    BY <1>12, <1>13 DEF last, LastLevel
  <2>2. t.depth - 1 = d
    BY <1>1, <1>3, <1>13
  <2>3. t.visited = W[d] /\ Found(t) = W[d] \ S
    BY <1>3, <1>9, <1>10, <1>11, <2>1
  <2>4. DOMAIN f = R /\ \A n \in R : f[n] = BestAt(cur, S, w, n)
    BY <1>5, <2>1 DEF f
  <2>5. R = Ring(cur, S, d)
    BY DEF R, S, d
  <2>6. W = WithinAt(cur, S)
    BY DEF W
  <2> QED
    BY <1>3, <2>2, <2>3, <2>4, <2>5, <2>6 DEF LevelExact
<1>14. ASSUME last
       PROVE  Complete(cur, t)
  <2>1. Found(t) \subseteq W[MaxDepth] \ S
    BY <1>5, <1>9, <1>10, <1>11
  <2>2. ASSUME NEW n \in W[MaxDepth] \ S, n \notin Found(t)
        PROVE  /\ Len(t.expanded) = MaxNodes
               /\ \A m \in Found(t) : AheadAt(cur, S, w, m, n)
    <3>1. Len(taken) = MaxNodes - Len(e.expanded)
      <4> SUFFICES ASSUME Len(taken) # MaxNodes - Len(e.expanded) PROVE FALSE
        OBVIOUS
      <4>1. ToSet(taken) = R
        BY <1>12
      <4>2. n \notin W[d]
        BY <1>9, <1>10, <2>2, <4>1
      <4>3. ToSet(taken) = {} \/ d = MaxDepth
        BY <1>14 DEF last, LastLevel, d
      <4>4. CASE d = MaxDepth
        BY <2>2, <4>2, <4>4
      <4>5. CASE ToSet(taken) = {}
        <5>1. W[MaxDepth] = W[d - 1]
          BY <1>1, <4>1, <4>5, NothingFurther DEF R, W
        <5> QED
          BY <1>11, <2>2, <4>2, <5>1
      <4> QED
        BY <4>3, <4>4, <4>5
    <3>2. Len(t.expanded) = MaxNodes
      BY <1>3, <1>6, <3>1, Bounds DEF IsExtended
    <3>3. n \notin W[d - 1] /\ DistanceAt(cur, S, n) \in Nat /\ DistanceAt(cur, S, n) > d - 1
      <4>1. n \notin W[d - 1]
        BY <1>9, <1>10, <2>2
      <4>2. /\ DistanceAt(cur, S, n) \in Nat
            /\ n \in W[d - 1] <=> DistanceAt(cur, S, n) <= d - 1
        BY <1>1, <2>2, NearAndFar DEF W
      <4> QED
        BY <1>1, <4>1, <4>2
    <3>4. ASSUME NEW m \in Found(e)
          PROVE  AheadAt(cur, S, w, m, n)
      <4>1. m \in W[d - 1] /\ m \in W[MaxDepth]
        BY <1>10, <1>11
      <4>2. DistanceAt(cur, S, m) \in Nat /\ DistanceAt(cur, S, m) <= d - 1
        BY <1>1, <4>1, NearAndFar DEF W
      <4>3. DistanceAt(cur, S, m) < DistanceAt(cur, S, n)
        BY <1>1, <3>3, <4>2
      <4> QED
        BY <4>3 DEF AheadAt
    <3>5. ASSUME NEW m \in ToSet(taken)
          PROVE  AheadAt(cur, S, w, m, n)
      <4>1. DistanceAt(cur, S, m) = d /\ e.proposals[m] = BestAt(cur, S, w, m)
        BY <1>5
      <4>2. CASE n \in R
        <5>1. DistanceAt(cur, S, n) = d /\ e.proposals[n] = BestAt(cur, S, w, n)
          BY <1>5, <4>2
        <5>2. n \in Candidates(cur, e) \ ToSet(taken)
          BY <1>5, <1>9, <2>2, <4>2
        <5>3. PICK i \in 1..Len(taken) : m = taken[i]
          <6>1. ToSet(taken) = {taken[i] : i \in 1..Len(taken)}
            BY HitsAre
          <6> QED
            BY <6>1
        <5>4. Better(e.proposals, m, n)
          BY <5>2, <5>3 DEF IsTaken
        <5> QED
          BY <4>1, <5>1, <5>4 DEF AheadAt, Better
      <4>3. CASE n \notin R
        <5>1. n \notin W[d]
          BY <1>10, <3>3, <4>3
        <5>2. n \in W[d] <=> DistanceAt(cur, S, n) <= d
          BY <1>1, <2>2, NearAndFar DEF W
        <5>3. DistanceAt(cur, S, m) < DistanceAt(cur, S, n)
          BY <1>1, <3>3, <4>1, <5>1, <5>2
        <5> QED
          BY <5>3 DEF AheadAt
      <4> QED
        BY <4>2, <4>3
    <3> QED
      BY <1>9, <3>2, <3>4, <3>5
  <2>3. Reachable(cur, S) = W[MaxDepth] \ S
    BY DEF Reachable, W
  <2> QED
    BY <1>3, <2>1, <2>2, <2>3 DEF Complete
<1> QED
  BY <1>3, <1>8, <1>13, <1>14 DEF Exact, t

-----------------------------------------------------------------------------
(* The steps of the traversal *)

GraphInv ==
    /\ current \in [Source -> Version \cup {Missing}]
    /\ Bounded(expansion)
    /\ Exact(current, expansion)

LEMMA GraphStart == GraphInit => GraphInv
<1> SUFFICES ASSUME GraphInit PROVE GraphInv
  OBVIOUS
<1>1. Exact(current, NoExpansion)
  BY DEF Exact, NoExpansion, HitsExact
<1> QED
  BY <1>1, OffBounded, GraphAssumption DEF GraphInit, GraphInv

LEMMA NoExpansionInv ==
    ASSUME GraphInv, UNCHANGED current, expansion' = NoExpansion
    PROVE  GraphInv'
<1>1. Exact(current, NoExpansion)
  BY DEF Exact, NoExpansion, HitsExact
<1> QED
  BY <1>1, OffBounded DEF GraphInv

LEMMA BeginInv ==
    ASSUME GraphInv, UNCHANGED current,
           NEW roots \in SUBSET Node, NEW w \in [roots -> Score], BeginExpansion(w)
    PROVE  GraphInv'
<1>1. expansion' = Begun(w)
  BY DEF BeginExpansion, Begun
<1>2. Bounded(Begun(w)) /\ Exact(current, Begun(w))
  BY BeginBounded, BeginExact
<1> QED
  BY <1>1, <1>2 DEF GraphInv

LEMMA ReadInv == GraphInv /\ ReadRelationships => GraphInv'
<1> SUFFICES ASSUME GraphInv, ReadRelationships PROVE GraphInv'
  OBVIOUS
<1> DEFINE e == expansion
           reached == {n \in Node \ e.visited : \E m \in DOMAIN e.frontier : Leads(m, n)}
<1>1. reached = Reached(current, e)
  BY AtCurrent DEF Reached
<1>2. e.pc = "read" /\ UNCHANGED current
  BY DEF ReadRelationships
<1>3. \A n : {x \in DOMAIN e.frontier : Leads(x, n)} = {x \in DOMAIN e.frontier : LeadsAt(current, x, n)}
  BY AtCurrent
<1>4. [n \in reached |->
          Highest({e.frontier[m] : m \in {x \in DOMAIN e.frontier : Leads(x, n)}})]
      = ProposedAt(current, e)
  BY <1>1, <1>3 DEF ProposedAt
<1>5. expansion' = AfterRead(current, e)
  <2>1. expansion' = [expansion EXCEPT
          !.proposals = [n \in reached |->
             Highest({e.frontier[m] : m \in {x \in DOMAIN e.frontier : Leads(x, n)}})],
          !.pc = IF reached = {} THEN "done" ELSE "load"]
    BY DEF ReadRelationships
  <2> HIDE DEF reached
  <2> QED
    BY <1>1, <1>4, <2>1 DEF AfterRead
<1>6. Bounded(e) /\ Exact(current, e)
  BY DEF GraphInv
<1> HIDE DEF e, reached
<1>7. Bounded(AfterRead(current, e)) /\ Exact(current, AfterRead(current, e))
  BY <1>2, <1>6, ReadBounded, ReadExact DEF e
<1> QED
  BY <1>2, <1>5, <1>7 DEF GraphInv

LEMMA LoadInv == GraphInv /\ LoadChunks => GraphInv'
<1> SUFFICES ASSUME GraphInv, LoadChunks PROVE GraphInv'
  OBVIOUS
<1>1. PICK taken : taken = SubSeq(Loaded, 1, Smaller(Len(Loaded), Room))
  OBVIOUS
<1>2. expansion.pc = "load" /\ UNCHANGED current /\ Take(taken, ToSet(taken), Len(taken) = Room)
  BY <1>1 DEF LoadChunks
<1>3. Bounded(expansion) /\ Exact(current, expansion)
  BY DEF GraphInv
<1>4. IsTaken(taken, current, expansion)
  BY <1>1, <1>2, <1>3, TakenIs
<1>5. expansion' = AfterTake(expansion, taken)
  BY <1>2 DEF Take, AfterTake, LastLevel, HitsOf, HitOf, Room
<1>6. Bounded(AfterTake(expansion, taken)) /\ Exact(current, AfterTake(expansion, taken))
  BY <1>2, <1>3, <1>4, TakeBounded, TakeExact
<1> QED
  BY <1>2, <1>5, <1>6 DEF GraphInv

LEMMA RepublishInv ==
    ASSUME GraphInv, NEW s \in Source, Republish(s)
    PROVE  GraphInv'
<1>1. PICK v \in Republished[s] : current' = [current EXCEPT ![s] = v]
  BY DEF Republish
<1>2. v \in Version \cup {Missing}
  BY GraphAssumption
<1>3. current' \in [Source -> Version \cup {Missing}]
  BY <1>1, <1>2 DEF GraphInv
<1>4. expansion' = [expansion EXCEPT !.steady = FALSE] /\ expansion \in Locals
  BY DEF Republish, GraphInv, Bounded
<1>5. Bounded(expansion')
  BY <1>4, OffBounded DEF GraphInv
<1>6. expansion'.steady = FALSE
  BY <1>4 DEF Locals
<1> QED
  BY <1>3, <1>5, <1>6 DEF GraphInv, Exact

LEMMA OffInv ==
    ASSUME GraphInv, UNCHANGED current, expansion' = [expansion EXCEPT !.pc = "off"]
    PROVE  GraphInv' /\ expansion'.pc = "off" /\ expansion'.expanded = expansion.expanded
<1>1. Bounded(expansion')
  BY OffBounded DEF GraphInv
<1>2. expansion \in Locals
  BY DEF GraphInv, Bounded
<1>3. /\ expansion'.pc = "off" /\ expansion'.expanded = expansion.expanded
      /\ expansion'.steady = expansion.steady /\ expansion'.seeds = expansion.seeds
      /\ expansion'.worth = expansion.worth
  BY <1>2 DEF Locals
<1> QED
  BY <1>1, <1>3 DEF GraphInv, Exact, HitsExact

-----------------------------------------------------------------------------
(* What the invariant says *)

LEMMA GraphInvTyped == GraphInv => GraphTypeOK /\ NodesFound \subseteq Node
<1> SUFFICES ASSUME GraphInv PROVE GraphTypeOK /\ NodesFound \subseteq Node
  OBVIOUS
<1>1. expansion \in Locals /\ Bounded(expansion)
  BY DEF GraphInv, Bounded
<1>2. Hit = [node : Visible, depth : 1..MaxDepth, score : Score]
  BY DEF Hit
<1>3. NodesFound = Found(expansion)
  BY DEF NodesFound, Found
<1> QED
  BY <1>1, <1>2, <1>3 DEF GraphInv, GraphTypeOK, Locals, Bounded

LEMMA GraphInvBounded == GraphInv => ExpansionBounded
BY DEF GraphInv, Bounded, ExpansionBounded, NodesFound, Found

LEMMA GraphInvShortest == GraphInv => ExpansionIsShortest
<1> SUFFICES ASSUME GraphInv, expansion.pc = "done", expansion.steady
             PROVE  LET roots == expansion.seeds
                        w == expansion.worth
                        reachable == Within(roots)[MaxDepth] \ roots
                    IN
                    /\ NodesFound \subseteq reachable
                    /\ \A i \in 1..Len(expansion.expanded) : LET hit == expansion.expanded[i] IN
                          /\ hit.depth = Distance(roots, hit.node)
                          /\ hit.score = BestSeed(roots, w, hit.node)
                    /\ \A n \in reachable \ NodesFound :
                          /\ Len(expansion.expanded) = MaxNodes
                          /\ \A m \in NodesFound : Ahead(roots, w, m, n)
  BY DEF ExpansionIsShortest
<1> DEFINE S == expansion.seeds
           w == expansion.worth
<1>1. HitsExact(current, expansion) /\ Complete(current, expansion)
  BY DEF GraphInv, Exact
<1>2. NodesFound = Found(expansion)
  BY DEF NodesFound, Found
<1>3. Within(S)[MaxDepth] \ S = Reachable(current, S)
  BY AtCurrent DEF Reachable
<1>4. \A m, n : Ahead(S, w, m, n) <=> AheadAt(current, S, w, m, n)
  BY AtCurrent DEF Ahead, AheadAt
<1>5. \A n : /\ Distance(S, n) = DistanceAt(current, S, n)
             /\ BestSeed(S, w, n) = BestAt(current, S, w, n)
  BY AtCurrent
<1> QED
  BY <1>1, <1>2, <1>3, <1>4, <1>5 DEF HitsExact, Complete

-----------------------------------------------------------------------------
(* What the actions compute *)

\* The greatest of a set of places.
LEMMA HighestPlace ==
    ASSUME NEW n \in Nat, NEW T \in SUBSET (1..n), T # {}
    PROVE  Highest(T) \in T /\ \A y \in T : y <= Highest(T)
<1>1. IsFiniteSet(T)
  <2>1. IsFiniteSet(1..n)
    BY FS_Interval
  <2> QED
    BY <2>1, FS_Subset
<1>2. T \subseteq Int
  OBVIOUS
<1>3. \E x \in T : \A y \in T : y <= x
  BY <1>1, <1>2, HighestExists
<1> QED
  BY <1>3 DEF Highest

\* Merging keeps every identifier that was found, and adds none.
LEMMA MergedIs ==
    ASSUME seeds \in Seq(Node), Bounded(expansion)
    PROVE  /\ Merged \in Seq(Node)
           /\ NodesOf(Merged) \subseteq NodesOf(seeds) \cup NodesFound
           /\ Ids(NodesOf(Merged)) = Ids(NodesOf(seeds) \cup NodesFound)
<1> DEFINE all == seeds \o FoundNodes
           n == Len(all)
           firsts == {i \in 1..n : \A j \in 1..(i - 1) : ById(all[j]) # ById(all[i])}
           same(i) == {j \in 1..Len(seeds) : ById(seeds[j]) = ById(all[i])}
           Kept(i) == IF i > Len(seeds) THEN all[i] ELSE seeds[Highest(same(i))]
           places == [i \in 1..n |-> i]
           order == Keep(places, firsts)
           merged == [k \in 1..Len(order) |-> Kept(order[k])]
<1>1. Merged = merged
  BY DEF Merged
<1>2. /\ Len(expansion.expanded) \in Nat
      /\ \A i \in 1..Len(expansion.expanded) : expansion.expanded[i].node \in Node
  <2>1. expansion.expanded \in Seq(Hit)
    BY DEF Bounded, Locals
  <2>2. \A i \in 1..Len(expansion.expanded) : expansion.expanded[i] \in Hit
    BY <2>1
  <2>3. Visible \subseteq Node
    BY GraphAssumption
  <2> QED
    BY <2>1, <2>2, <2>3 DEF Hit
<1>3. FoundNodes \in Seq(Node) /\ NodesOf(FoundNodes) = NodesFound
  <2> DEFINE m == Len(expansion.expanded)
  <2>1. FoundNodes = [i \in 1..m |-> expansion.expanded[i].node]
    BY DEF FoundNodes
  <2>2. m \in Nat /\ \A i \in 1..m : expansion.expanded[i].node \in Node
    BY <1>2
  <2>3. NodesFound = {expansion.expanded[i].node : i \in 1..m}
    BY DEF NodesFound
  <2> HIDE DEF m
  <2>4. FoundNodes \in [1..m -> Node] /\ \A i \in 1..m : FoundNodes[i] = expansion.expanded[i].node
    BY <2>1, <2>2
  <2>5. FoundNodes \in Seq(Node) /\ Len(FoundNodes) = m
    BY <2>2, <2>4
  <2> QED
    BY <2>3, <2>4, <2>5 DEF NodesOf
<1>4. /\ all \in Seq(Node) /\ n = Len(seeds) + Len(FoundNodes)
      /\ \A i \in 1..(Len(seeds) + Len(FoundNodes)) :
            all[i] = IF i <= Len(seeds) THEN seeds[i] ELSE FoundNodes[i - Len(seeds)]
  BY <1>3, ConcatProperties, Zenon
<1>5. Len(seeds) \in Nat /\ Len(FoundNodes) \in Nat /\ n \in Nat
  BY <1>3, <1>4
<1> HIDE DEF all, n
<1>6. \A i \in 1..Len(seeds) : i \in 1..n /\ all[i] = seeds[i]
  BY <1>4, <1>5
<1>7. NodesOf(all) = NodesOf(seeds) \cup NodesFound
  <2>1. ASSUME NEW i \in 1..n, i \notin 1..Len(seeds)
        PROVE  all[i] \in NodesFound
    <3>1. i - Len(seeds) \in 1..Len(FoundNodes) /\ all[i] = FoundNodes[i - Len(seeds)]
      BY <1>4, <1>5, <2>1
    <3> QED
      BY <1>3, <3>1 DEF NodesOf
  <2>2. ASSUME NEW k \in 1..Len(FoundNodes)
        PROVE  FoundNodes[k] \in NodesOf(all)
    <3>1. /\ Len(seeds) + k \in 1..n /\ ~ (Len(seeds) + k <= Len(seeds))
          /\ (Len(seeds) + k) - Len(seeds) = k
      BY <1>4, <1>5
    <3>2. all[Len(seeds) + k] = FoundNodes[k]
      BY <1>4, <3>1
    <3> QED
      BY <3>1, <3>2 DEF NodesOf, n
  <2>3. NodesOf(all) = {all[i] : i \in 1..n}
    BY DEF NodesOf, n
  <2>4. NodesFound = {FoundNodes[i] : i \in 1..Len(FoundNodes)}
    BY <1>3 DEF NodesOf
  <2> QED
    BY <1>6, <2>1, <2>2, <2>3, <2>4 DEF NodesOf
<1>8. places \in Seq(1..n) /\ Len(places) = n /\ \A i \in 1..n : places[i] = i
  BY <1>5
<1> HIDE DEF places, firsts
<1>9. /\ order \in Seq(1..n)
      /\ \A k \in 1..Len(order) : order[k] \in firsts
      /\ \A i \in 1..Len(places) : places[i] \in firsts => Contains(order, places[i])
  BY <1>8, KeepElements, Zenon
<1> HIDE DEF order
<1>10. Len(order) \in Nat /\ \A k \in 1..Len(order) : order[k] \in 1..n
  <2>1. \A S : order \in Seq(S) => Len(order) \in Nat /\ \A k \in 1..Len(order) : order[k] \in S
    OBVIOUS
  <2> QED
    BY <1>9, <2>1
<1>11. \A i \in firsts : \E k \in 1..Len(order) : order[k] = i
  BY <1>8, <1>9 DEF Contains, firsts
<1>12. \A i \in 1..n : Kept(i) \in NodesOf(all) /\ ById(Kept(i)) = ById(all[i])
  <2> SUFFICES ASSUME NEW i \in 1..n
               PROVE  Kept(i) \in NodesOf(all) /\ ById(Kept(i)) = ById(all[i])
    OBVIOUS
  <2>1. CASE i > Len(seeds)
    BY <2>1 DEF NodesOf, n
  <2>2. CASE ~ (i > Len(seeds))
    <3>1. i \in 1..Len(seeds) /\ i \in same(i)
      BY <1>5, <1>6, <2>2
    <3>2. same(i) \in SUBSET (1..Len(seeds)) /\ same(i) # {}
      BY <3>1
    <3>3. Highest(same(i)) \in same(i)
      <4> HIDE DEF same
      <4> QED
        BY <1>5, <3>2, HighestPlace
    <3>4. PICK j \in 1..Len(seeds) : Highest(same(i)) = j /\ ById(seeds[j]) = ById(all[i])
      BY <3>3
    <3>5. Kept(i) = seeds[j]
      BY <2>2, <3>4
    <3> QED
      BY <1>6, <3>4, <3>5 DEF NodesOf, n
  <2> QED
    BY <2>1, <2>2
<1> HIDE DEF Kept
<1>13. \A k \in 1..Len(order) : Kept(order[k]) \in Node
  <2>1. NodesOf(all) \subseteq Node
    BY <1>4 DEF NodesOf
  <2> QED
    BY <1>10, <1>12, <2>1
<1>14. merged \in Seq(Node) /\ Len(merged) = Len(order)
       /\ \A k \in 1..Len(order) : merged[k] = Kept(order[k])
  BY <1>10, <1>13
<1> HIDE DEF merged
<1>15. /\ NodesOf(merged) \subseteq NodesOf(all)
       /\ Ids(NodesOf(merged)) \subseteq Ids(NodesOf(all))
  <2>1. \A k \in 1..Len(order) : merged[k] \in NodesOf(all)
    BY <1>10, <1>12, <1>14
  <2> QED
    BY <1>14, <2>1 DEF Ids, NodesOf
<1>16. Ids(NodesOf(all)) \subseteq Ids(NodesOf(merged))
  <2> SUFFICES ASSUME NEW i \in 1..n PROVE ById(all[i]) \in Ids(NodesOf(merged))
    BY DEF Ids, NodesOf, n
  <2> DEFINE T == {j \in 1..n : ById(all[j]) = ById(all[i])}
  <2>1. T \subseteq Nat /\ T # {}
    BY <1>5
  <2>2. PICK j \in T : \A m \in T : j <= m
    <3> HIDE DEF T
    <3> QED
      BY <2>1, LeastOfNat
  <2>3. j \in 1..n /\ ById(all[j]) = ById(all[i])
    OBVIOUS
  <2>4. j \in firsts
    <3> SUFFICES ASSUME NEW m \in 1..(j - 1), ById(all[m]) = ById(all[j]) PROVE FALSE
      BY <2>3 DEF firsts
    <3>1. m \in 1..n /\ m < j
      BY <1>5, <2>3
    <3>2. m \in T
      BY <2>3, <3>1
    <3> QED
      BY <2>2, <2>3, <3>1, <3>2
  <2>5. PICK k \in 1..Len(order) : order[k] = j
    BY <1>11, <2>4
  <2>6. ById(merged[k]) = ById(all[i])
    BY <1>12, <1>14, <2>3, <2>5
  <2>7. merged[k] \in NodesOf(merged)
    BY <1>14 DEF NodesOf
  <2> QED
    BY <2>6, <2>7 DEF Ids
<1> QED
  BY <1>1, <1>7, <1>14, <1>15, <1>16

\* The lengths of the blocks of a context, added up.
LEMMA UsedIs ==
    ASSUME NEW s \in Seq(Node)
    PROVE  /\ Used(s) \in [0..Len(s) -> Nat] /\ Used(s)[0] = 0
           /\ \A i \in 1..Len(s) : Used(s)[i] = Used(s)[i - 1] + Size[s[i]]
<1> DEFINE n == Len(s)
           step == [i \in 1..n |-> [u \in Nat |-> u + Size[s[i]]]]
<1>1. n \in Nat /\ \A i \in 1..n : Size[s[i]] \in Nat
  BY QueryAssumption
<1>2. step \in [1..n -> [Nat -> Nat]]
  <2> HIDE DEF n
  <2> QED
    BY <1>1
<1>3. PICK g : IsRecursion(g, n, Nat, 0, step)
  <2> HIDE DEF step, n
  <2> QED
    BY <1>1, <1>2, RecursionExists
<1>4. /\ g \in [0..n -> Nat] /\ g[0] = 0
      /\ \A i \in 1..n : g[i] = g[i - 1] + Size[s[i]]
  <2>1. g \in [0..n -> Nat] /\ g[0] = 0
    BY <1>3 DEF IsRecursion
  <2>2. ASSUME NEW i \in 1..n PROVE g[i] = g[i - 1] + Size[s[i]]
    <3>1. g[i] = step[i][g[i - 1]]
      <4> HIDE DEF step
      <4> QED
        BY <1>3 DEF IsRecursion
    <3>2. i - 1 \in 0..n
      BY <1>1
    <3>3. g[i - 1] \in Nat
      BY <2>1, <3>2
    <3> QED
      BY <3>1, <3>3
  <2> QED
    BY <2>1, <2>2
<1>5. g = [i \in 0..Len(s) |-> IF i = 0 THEN 0 ELSE g[i - 1] + Size[s[i]]]
  <2>1. \A i \in 0..n : g[i] = IF i = 0 THEN 0 ELSE g[i - 1] + Size[s[i]]
    <3>1. \A i \in 0..n : i = 0 \/ i \in 1..n
      BY <1>1
    <3> QED
      BY <1>4, <3>1
  <2>2. g = [i \in 0..n |-> g[i]]
    BY <1>4
  <2> QED
    BY <2>1, <2>2, Zenon
<1> DEFINE used == CHOOSE used : used = [i \in 0..Len(s) |->
                IF i = 0 THEN 0 ELSE used[i - 1] + Size[s[i]]]
<1>6. used = [i \in 0..Len(s) |-> IF i = 0 THEN 0 ELSE used[i - 1] + Size[s[i]]]
  BY <1>5, Zenon
<1>7. Used(s) = used
  BY DEF Used
<1> HIDE DEF used, step
<1>8. used[0] = 0 /\ \A i \in 1..n : used[i] = used[i - 1] + Size[s[i]]
  <2>1. 0 \in 0..Len(s) /\ \A i \in 1..n : i \in 0..Len(s) /\ i # 0
    BY <1>1
  <2>2. \A i \in 0..Len(s) : used[i] = IF i = 0 THEN 0 ELSE used[i - 1] + Size[s[i]]
    BY <1>6, Zenon
  <2> QED
    BY <2>1, <2>2, Zenon
<1> DEFINE T == {i \in Nat : i <= n => used[i] \in Nat}
<1>9. 0 \in T
  BY <1>8
<1>10. ASSUME NEW i \in Nat, i \in T PROVE i + 1 \in T
  <2> SUFFICES ASSUME i + 1 <= n PROVE used[i + 1] \in Nat
    OBVIOUS
  <2>1. i + 1 \in 1..n /\ (i + 1) - 1 = i /\ used[i] \in Nat
    BY <1>1, <1>10
  <2>2. used[i + 1] = used[i] + Size[s[i + 1]]
    BY <1>8, <2>1
  <2> QED
    BY <1>1, <2>1, <2>2
<1>11. \A i \in Nat : i \in T
  <2> HIDE DEF T
  <2> QED
    BY <1>9, <1>10, Induction
<1>12. used \in [0..n -> Nat]
  <2>1. \A i \in 0..n : used[i] \in Nat
    BY <1>1, <1>11
  <2>2. used = [i \in 0..n |-> used[i]]
    <3>1. DOMAIN used = 0..n /\ used = [i \in DOMAIN used |-> used[i]]
      BY <1>6, Zenon
    <3> QED
      BY <3>1, Zenon
  <2> QED
    BY <2>1, <2>2
<1> QED
  BY <1>7, <1>8, <1>12

LEMMA UsedGrows ==
    ASSUME NEW s \in Seq(Node), NEW i \in 0..Len(s), NEW j \in 0..Len(s), i <= j
    PROVE  Used(s)[i] <= Used(s)[j]
<1> DEFINE n == Len(s)
           u == Used(s)
           T == {k \in Nat : i + k <= n => u[i] <= u[i + k]}
<1>1. /\ u \in [0..n -> Nat] /\ \A k \in 1..n : u[k] = u[k - 1] + Size[s[k]]
      /\ n \in Nat /\ \A k \in 1..n : Size[s[k]] \in Nat
  BY UsedIs, QueryAssumption
<1> HIDE DEF n, u
<1>2. 0 \in T
  <2>1. i + 0 = i /\ u[i] \in Nat
    BY <1>1 DEF n
  <2> QED
    BY <2>1
<1>3. ASSUME NEW k \in Nat, k \in T PROVE k + 1 \in T
  <2> SUFFICES ASSUME i + (k + 1) <= n PROVE u[i] <= u[i + (k + 1)]
    OBVIOUS
  <2>1. u[i] <= u[i + k] /\ i + (k + 1) \in 1..n /\ (i + (k + 1)) - 1 = i + k
        /\ i \in 0..n /\ i + k \in 0..n
    BY <1>1, <1>3 DEF n
  <2>2. u[i + (k + 1)] = u[i + k] + Size[s[i + (k + 1)]] /\ Size[s[i + (k + 1)]] \in Nat
    BY <1>1, <2>1
  <2>3. u[i] \in Nat /\ u[i + k] \in Nat
    BY <1>1, <2>1
  <2> QED
    BY <2>1, <2>2, <2>3
<1>4. \A k \in Nat : k \in T
  <2> HIDE DEF T
  <2> QED
    BY <1>2, <1>3, Induction
<1>5. j - i \in Nat /\ i + (j - i) = j /\ j <= n
  BY <1>1 DEF n
<1>6. j - i \in T
  BY <1>4, <1>5
<1> QED
  BY <1>5, <1>6 DEF u

\* A part of a context is as long as it was in the whole.
LEMMA UsedOfPart ==
    ASSUME NEW s \in Seq(Node), NEW part \in Seq(Node), Len(part) <= Len(s),
           \A i \in 1..Len(part) : part[i] = s[i]
    PROVE  \A i \in 0..Len(part) : Used(part)[i] = Used(s)[i]
<1> DEFINE n == Len(s)
           m == Len(part)
           u == Used(s)
           v == Used(part)
           T == {k \in Nat : k <= m => v[k] = u[k]}
<1>1. /\ n \in Nat /\ m \in Nat /\ u[0] = 0 /\ v[0] = 0
      /\ \A k \in 1..n : u[k] = u[k - 1] + Size[s[k]]
      /\ \A k \in 1..m : v[k] = v[k - 1] + Size[part[k]]
  BY UsedIs
<1> HIDE DEF n, m, u, v
<1>2. 0 \in T
  BY <1>1
<1>3. ASSUME NEW k \in Nat, k \in T PROVE k + 1 \in T
  <2> SUFFICES ASSUME k + 1 <= m PROVE v[k + 1] = u[k + 1]
    OBVIOUS
  <2>1. v[k] = u[k] /\ k + 1 \in 1..m /\ k + 1 \in 1..n /\ (k + 1) - 1 = k
    BY <1>1, <1>3 DEF n, m
  <2>2. u[k + 1] = u[k] + Size[s[k + 1]] /\ v[k + 1] = v[k] + Size[part[k + 1]]
    BY <1>1, <2>1
  <2> QED
    BY <2>1, <2>2 DEF m
<1>4. \A k \in Nat : k \in T
  <2> HIDE DEF T
  <2> QED
    BY <1>2, <1>3, Induction
<1> QED
  BY <1>1, <1>4 DEF u, v, m

\* What is cited is as much as fits, and the block that is cut.
IsBudget(s, c, o) ==
    /\ c \in Seq(Node) /\ o \in Seq(Node) /\ c \o o = s
    /\ o # <<>> => Used(c)[Len(c)] > MaxContext
    /\ \A i \in 1..Len(c) : Used(c)[i - 1] <= MaxContext

LEMMA IncludedIs ==
    ASSUME NEW s \in Seq(Node)
    PROVE  /\ Included(Used(s), Len(s)) \in 0..Len(s)
           /\ Included(Used(s), Len(s)) # Len(s) => Used(s)[Included(Used(s), Len(s))] > MaxContext
           /\ \A i \in 1..Included(Used(s), Len(s)) : Used(s)[i - 1] <= MaxContext
<1> DEFINE n == Len(s)
           u == Used(s)
           k == Included(u, n)
<1>1. u \in [0..n -> Nat] /\ u[0] = 0 /\ n \in Nat /\ MaxContext \in Nat
  BY UsedIs, QueryAssumption
<1>2. \A i, j \in 0..n : i <= j => u[i] <= u[j]
  BY UsedGrows
<1> HIDE DEF u, n
<1>3. CASE u[n] <= MaxContext
  <2>1. k = n
    BY <1>3 DEF Included
  <2>2. \A i \in 1..n : i - 1 \in 0..n /\ n \in 0..n /\ i - 1 <= n
    BY <1>1
  <2>3. \A i \in 1..n : u[i - 1] <= MaxContext
    <3> SUFFICES ASSUME NEW i \in 1..n PROVE u[i - 1] <= MaxContext
      OBVIOUS
    <3>1. u[i - 1] <= u[n] /\ u[i - 1] \in Nat /\ u[n] \in Nat
      BY <1>1, <1>2, <2>2
    <3> QED
      BY <1>1, <1>3, <3>1
  <2> QED
    BY <1>1, <2>1, <2>3 DEF u, n
<1>4. CASE ~ (u[n] <= MaxContext)
  <2> DEFINE T == {i \in 0..n : u[i] > MaxContext}
  <2>1. T \subseteq Nat /\ T # {}
    BY <1>1, <1>4
  <2>2. PICK i \in T : \A j \in T : i <= j
    <3> HIDE DEF T
    <3> QED
      BY <2>1, LeastOfNat
  <2>3. i \in 1..n /\ u[i] > MaxContext
    BY <1>1
  <2>4. i - 1 \in 0..n /\ i - 1 \notin T
    BY <1>1, <2>2, <2>3
  <2>5. u[i - 1] <= MaxContext
    BY <1>1, <2>4
  <2>6. k = CHOOSE j \in 1..n : u[j] > MaxContext /\ u[j - 1] <= MaxContext
    BY <1>4 DEF Included
  <2> HIDE DEF k
  <2>7. k \in 1..n /\ u[k] > MaxContext /\ u[k - 1] <= MaxContext
    BY <2>3, <2>5, <2>6
  <2>8. \A j \in 1..k : u[j - 1] <= MaxContext
    <3> SUFFICES ASSUME NEW j \in 1..k PROVE u[j - 1] <= MaxContext
      OBVIOUS
    <3>1. j - 1 \in 0..n /\ k - 1 \in 0..n /\ j - 1 <= k - 1
      BY <1>1, <2>7
    <3>2. u[j - 1] <= u[k - 1] /\ u[j - 1] \in Nat /\ u[k - 1] \in Nat
      BY <1>1, <1>2, <3>1
    <3> QED
      BY <1>1, <2>7, <3>2
  <2> QED
    BY <1>1, <2>7, <2>8 DEF k, u, n
<1> QED
  BY <1>3, <1>4

LEMMA BudgetIs ==
    ASSUME NEW s \in Seq(Node), NEW k, k = Included(Used(s), Len(s))
    PROVE  /\ k \in 0..Len(s)
           /\ IsBudget(s, SubSeq(s, 1, k), SubSeq(s, OmittedFrom(k), Len(s)))
<1> DEFINE n == Len(s)
           c == SubSeq(s, 1, k)
           o == SubSeq(s, k + 1, n)
<1>1. /\ k \in 0..n /\ n \in Nat
      /\ k # n => Used(s)[k] > MaxContext
      /\ \A i \in 1..k : Used(s)[i - 1] <= MaxContext
  BY IncludedIs
<1>2. c \in Seq(Node) /\ Len(c) = k /\ \A i \in 1..k : c[i] = s[i]
  BY <1>1
<1>3. o \in Seq(Node) /\ Len(o) = n - k /\ \A i \in 1..(n - k) : o[i] = s[k + i]
  BY <1>1
<1>4. \A i \in 0..k : Used(c)[i] = Used(s)[i]
  <2> HIDE DEF c
  <2>1. Len(c) <= Len(s) /\ \A i \in 1..Len(c) : c[i] = s[i]
    BY <1>1, <1>2
  <2> QED
    BY <1>2, <2>1, UsedOfPart
<1>5. c \o o = s
  <2> HIDE DEF c, o
  <2>1. /\ c \o o \in Seq(Node) /\ Len(c \o o) = Len(c) + Len(o)
        /\ \A i \in 1..(Len(c) + Len(o)) :
              (c \o o)[i] = IF i <= Len(c) THEN c[i] ELSE o[i - Len(c)]
    BY <1>2, <1>3, ConcatProperties, Zenon
  <2> DEFINE r == c \o o
  <2>2. r \in Seq(Node) /\ Len(r) = n
    BY <1>1, <1>2, <1>3, <2>1
  <2>3. ASSUME NEW i \in 1..n PROVE r[i] = s[i]
    <3>3. Len(c) + Len(o) = n /\ Len(c) = k
      BY <1>1, <1>2, <1>3
    <3>4. r[i] = IF i <= k THEN c[i] ELSE o[i - k]
      BY <2>1, <3>3
    <3> HIDE DEF r
    <3>1. CASE i <= k
      BY <1>1, <1>2, <3>1, <3>4
    <3>2. CASE ~ (i <= k)
      <4>1. i - k \in 1..(n - k) /\ k + (i - k) = i
        BY <1>1, <3>2
      <4>2. r[i] = o[i - k]
        BY <3>2, <3>4
      <4> QED
        BY <1>3, <4>1, <4>2
    <3> QED
      BY <3>1, <3>2
  <2> HIDE DEF r
  <2>4. r = s
    BY <2>2, <2>3, SeqEqual
  <2> QED
    BY <2>4 DEF r
<1>6. o # <<>> => k # n
  BY <1>1, <1>3
<1>7. OmittedFrom(k) = k + 1
  BY DEF OmittedFrom
<1>8. IsBudget(s, c, o)
  <2> HIDE DEF c, o
  <2>1. k \in 0..k /\ \A i \in 1..k : i - 1 \in 0..k
    BY <1>1
  <2> QED
    BY <1>1, <1>2, <1>3, <1>4, <1>5, <1>6, <2>1 DEF IsBudget
<1> QED
  BY <1>1, <1>7, <1>8

-----------------------------------------------------------------------------
(* The steps that have run *)

LastOf(T) == IF T = {} THEN 0 ELSE Highest(T)

LEMMA LastOfIs ==
    ASSUME NEW n \in Nat, NEW T \in SUBSET (1..n)
    PROVE  /\ LastOf(T) \in 0..n
           /\ \A i \in T : i <= LastOf(T)
           /\ LastOf(T) # 0 => LastOf(T) \in T
           /\ LastOf(T \cup {n + 1}) = n + 1
<1>1. T # {} => Highest(T) \in T /\ \A y \in T : y <= Highest(T)
  BY HighestPlace
<1>2. LastOf(T \cup {n + 1}) = n + 1
  <2> DEFINE U == T \cup {n + 1}
  <2>1. U \in SUBSET (1..(n + 1)) /\ U # {} /\ n + 1 \in Nat /\ n + 1 \in U
    OBVIOUS
  <2>2. LastOf(U) = Highest(U)
    BY <2>1 DEF LastOf
  <2> HIDE DEF U
  <2>3. Highest(U) \in U /\ \A y \in U : y <= Highest(U)
    BY <2>1, HighestPlace
  <2>4. Highest(U) = n + 1
    <3>1. Highest(U) \in 1..(n + 1) /\ n + 1 <= Highest(U)
      BY <2>1, <2>3
    <3> QED
      BY <3>1
  <2> QED
    BY <2>2, <2>4 DEF U
<1>3. CASE T = {}
  BY <1>2, <1>3 DEF LastOf
<1>4. CASE T # {}
  <2>1. LastOf(T) = Highest(T)
    BY <1>4 DEF LastOf
  <2>2. Highest(T) \in 1..n
    BY <1>1, <1>4
  <2> QED
    BY <1>1, <1>2, <1>4, <2>1, <2>2
<1> QED
  BY <1>3, <1>4

Retrievals == {"retrieve", "expand_graph"}
Budgets == {"manage_context_budget"}
Policies == {"enforce_model_transmission_policy"}
Copies == {"set_variables", "prefix_router"}

LEMMA RanIs ==
    ASSUME trace \in Seq(StepId), NEW A
    PROVE  /\ Len(trace) \in Nat /\ Ran(A) \in SUBSET (1..Len(trace))
           /\ LastRun(A) = LastOf(Ran(A)) /\ LastRun(A) \in 0..Len(trace)
           /\ \A i \in Ran(A) : i <= LastRun(A)
           /\ LastRun(A) # 0 => LastRun(A) \in Ran(A)
<1>1. Len(trace) \in Nat /\ Ran(A) \in SUBSET (1..Len(trace))
  BY DEF Ran
<1>2. LastRun(A) = LastOf(Ran(A))
  BY DEF LastRun, LastOf
<1> QED
  BY <1>1, <1>2, LastOfIs

\* The action that has returned is the last one, and the others are where they were.
LEMMA RanNext ==
    ASSUME trace \in Seq(StepId), at \in StepId, trace' = Append(trace, at), UNCHANGED pipeline,
           NEW A
    PROVE  /\ Len(trace') = Len(trace) + 1
           /\ pipeline.action[at] \in A =>
                 Ran(A)' = Ran(A) \cup {Len(trace) + 1} /\ LastRun(A)' = Len(trace) + 1
           /\ pipeline.action[at] \notin A => Ran(A)' = Ran(A) /\ LastRun(A)' = LastRun(A)
<1> DEFINE n == Len(trace)
<1>1. n \in Nat /\ Len(trace') = n + 1 /\ trace'[n + 1] = at /\ \A i \in 1..n : trace'[i] = trace[i]
  BY AppendProperties, LenProperties
<1>2. Ran(A)' = {i \in 1..Len(trace') : pipeline.action[trace'[i]] \in A}
  BY DEF Ran
<1>3. \A i \in 1..(n + 1) : i \in 1..n \/ i = n + 1
  BY <1>1
<1>4. Ran(A)' = Ran(A) \cup {i \in {n + 1} : pipeline.action[at] \in A}
  <2>1. \A i \in 1..n : i \in 1..(n + 1)
    BY <1>1
  <2>2. n + 1 \in 1..(n + 1)
    BY <1>1
  <2> HIDE DEF n
  <2>3. Ran(A) = {i \in 1..n : pipeline.action[trace[i]] \in A}
    BY DEF Ran, n
  <2> QED
    BY <1>1, <1>2, <1>3, <2>1, <2>2, <2>3
<1>5. LastRun(A)' = LastOf(Ran(A)')
  BY DEF LastRun, LastOf
<1>6. /\ Ran(A) \in SUBSET (1..n) /\ LastRun(A) = LastOf(Ran(A))
  BY RanIs
<1>7. LastOf(Ran(A) \cup {n + 1}) = n + 1
  BY <1>1, <1>6, LastOfIs
<1> QED
  BY <1>1, <1>4, <1>5, <1>6, <1>7

LEMMA RanSame ==
    ASSUME UNCHANGED <<trace, pipeline>>, NEW A
    PROVE  Ran(A)' = Ran(A) /\ LastRun(A)' = LastRun(A)
BY DEF Ran, LastRun

\* No text has been copied since anything was retrieved but from the current evidence.
LEMMA OrderIs ==
    /\ BudgetIsLast <=> LastRun(Retrievals) < LastRun(Budgets)
    /\ CopiesAreCurrent <=>
          \A i \in Ran(Copies) : (\E b \in Ran(Budgets) : b < i) =>
              \E b \in Ran(Budgets) : LastRun(Retrievals) < b /\ b < i
BY DEF BudgetIsLast, CopiesAreCurrent, Retrievals, Budgets, Copies

LEMMA OrderIsNext ==
    /\ BudgetIsLast' <=> LastRun(Retrievals)' < LastRun(Budgets)'
    /\ CopiesAreCurrent' <=>
          \A i \in Ran(Copies)' : (\E b \in Ran(Budgets)' : b < i) =>
              \E b \in Ran(Budgets)' : LastRun(Retrievals)' < b /\ b < i
BY DEF BudgetIsLast, CopiesAreCurrent, Retrievals, Budgets, Copies

-----------------------------------------------------------------------------
(* What a query keeps *)

DataTyped ==
    /\ setting \in Setting
    /\ seeds \in Seq(Node) /\ hits \in Seq(Node)
    /\ cited \in Seq(Node) /\ omitted \in Seq(Node)
    /\ evidence \in [chunks : SUBSET Node, empty : BOOLEAN] /\ texts \subseteq Node
    /\ policy \in [checked : BOOLEAN, allowed : BOOLEAN, nodes : SUBSET Node]
    /\ model \in Server
    /\ sent \subseteq Transmission

\* A loop guard is counted when it has run.
LoopInv ==
    /\ loops \in [StepId -> 0..1]
    /\ \A s \in StepId : loops[s] = 1 => \E i \in 1..Len(trace) : trace[i] = s

\* Outside an expansion the hits are what was found.
FoundInv == phase # "raised" /\ expansion.pc = "off" =>
    /\ NodesOf(hits) \subseteq NodesOf(seeds) \cup NodesFound
    /\ Ids(NodesOf(hits)) = Ids(NodesOf(seeds) \cup NodesFound)

BudgetInv == phase # "raised" /\ BudgetIsLast => IsBudget(hits, cited, omitted)

\* Texts come from an evidence, and an evidence from a budget.
TextInv == phase # "raised" =>
    /\ Ran(Budgets) = {} => evidence.chunks = {}
    /\ (\A i \in Ran(Copies), b \in Ran(Budgets) : ~ (b < i)) => texts = {}
    /\ BudgetIsLast /\ CopiesAreCurrent => evidence.chunks \cup texts \subseteq NodesOf(hits)

PolicyInv ==
    /\ policy.allowed => Permits(model, policy.nodes)
    /\ phase # "raised" /\ BudgetIsLast /\ LastRun(Budgets) < LastRun(Policies) =>
          policy.nodes = NodesOf(hits)

QueryInv ==
    /\ Inv /\ GraphInv
    /\ DataTyped /\ LoopInv /\ FoundInv /\ BudgetInv /\ TextInv /\ PolicyInv

\* A step that returned.
Stepped ==
    /\ trace \in Seq(StepId) /\ at \in StepId /\ trace' = Append(trace, at)
    /\ UNCHANGED pipeline /\ phase # "raised"

LEMMA ReturnsIs ==
    ASSUME Inv, Running, NEW answer, StepReturns(answer)
    PROVE  Stepped /\ \A i \in 1..Len(trace) : trace[i] # at
<1>1. at \in StepId /\ trace \in Seq(StepId) /\ phase = "running" /\ Append(trace, at) \in walked
  BY DEF Running, Inv, Typed, ControlTypeOK, RunInv
<1>2. Distinct(Append(trace, at))
  BY <1>1 DEF Inv, WalkInv, GoodPath
<1>3. /\ Len(Append(trace, at)) = Len(trace) + 1 /\ Append(trace, at)[Len(trace) + 1] = at
      /\ \A i \in 1..Len(trace) : Append(trace, at)[i] = trace[i]
      /\ Len(trace) \in Nat
  BY <1>1, AppendProperties, LenProperties
<1>4. \A i \in 1..Len(trace) : trace[i] # at
  <2> SUFFICES ASSUME NEW i \in 1..Len(trace), trace[i] = at PROVE FALSE
    OBVIOUS
  <2>1. i \in 1..(Len(trace) + 1) /\ Len(trace) + 1 \in 1..(Len(trace) + 1) /\ i # Len(trace) + 1
    BY <1>3
  <2> QED
    BY <1>2, <1>3, <2>1 DEF Distinct
<1> QED
  BY <1>1, <1>4 DEF StepReturns, Stepped

LEMMA RaisesIs == ASSUME Running, StepRaises PROVE phase' = "raised" /\ UNCHANGED <<trace, pipeline>>
BY DEF StepRaises, RunFails

\* What a step does to the order of the actions that have run.
LEMMA OrderStep ==
    ASSUME Stepped
    PROVE  /\ pipeline.action[at] \in Retrievals => ~ BudgetIsLast'
           /\ pipeline.action[at] \in Budgets => ~ (LastRun(Budgets)' < LastRun(Policies)')
           /\ pipeline.action[at] \notin Retrievals \cup Budgets =>
                 /\ BudgetIsLast' <=> BudgetIsLast
                 /\ LastRun(Budgets)' = LastRun(Budgets)
           /\ pipeline.action[at] \notin Retrievals \cup Budgets \cup Copies =>
                 (CopiesAreCurrent' <=> CopiesAreCurrent)
<1> USE DEF Stepped
<1>1. \A A : /\ LastRun(A) \in 0..Len(trace) /\ Len(trace) \in Nat
  BY RanIs
<1>2. \A A : pipeline.action[at] \in A => LastRun(A)' = Len(trace) + 1
  BY RanNext
<1>3. \A A : pipeline.action[at] \notin A => Ran(A)' = Ran(A) /\ LastRun(A)' = LastRun(A)
  BY RanNext
<1>4. "manage_context_budget" \notin Retrievals \cup Policies
  BY DEF Retrievals, Policies
<1>5. \A x \in Retrievals : x \notin Budgets
  BY DEF Retrievals, Budgets
<1>6. \A x \in Budgets : x \notin Policies
  BY DEF Policies, Budgets
<1>7. CASE pipeline.action[at] \in Retrievals
  <2>1. LastRun(Retrievals)' = Len(trace) + 1 /\ LastRun(Budgets)' = LastRun(Budgets)
    BY <1>2, <1>3, <1>5, <1>7
  <2>2. ~ BudgetIsLast'
    BY <1>1, <2>1, OrderIsNext
  <2> QED
    BY <1>5, <1>7, <2>2
<1>8. CASE pipeline.action[at] \in Budgets
  <2>1. LastRun(Budgets)' = Len(trace) + 1 /\ LastRun(Policies)' = LastRun(Policies)
    BY <1>2, <1>3, <1>6, <1>8
  <2>2. ~ (LastRun(Budgets)' < LastRun(Policies)')
    BY <1>1, <2>1
  <2> QED
    BY <1>5, <1>8, <2>2
<1>9. CASE pipeline.action[at] \notin Retrievals \cup Budgets
  <2>1. /\ LastRun(Retrievals)' = LastRun(Retrievals) /\ LastRun(Budgets)' = LastRun(Budgets)
        /\ Ran(Budgets)' = Ran(Budgets)
    BY <1>3, <1>9
  <2>2. BudgetIsLast' <=> BudgetIsLast
    BY <2>1, OrderIs, OrderIsNext
  <2>3. pipeline.action[at] \notin Copies => (CopiesAreCurrent' <=> CopiesAreCurrent)
    <3> SUFFICES ASSUME pipeline.action[at] \notin Copies
                 PROVE  CopiesAreCurrent' <=> CopiesAreCurrent
      OBVIOUS
    <3>1. Ran(Copies)' = Ran(Copies)
      BY <1>3
    <3> QED
      BY <2>1, <3>1, OrderIs, OrderIsNext
  <2> QED
    BY <1>9, <2>1, <2>2, <2>3
<1> QED
  BY <1>7, <1>8, <1>9

-----------------------------------------------------------------------------
(* What the steps of the engine keep *)

\* A step of the engine, and one behind which the hits are the same or retrieved anew.
Follows ==
    \/ UNCHANGED <<trace, pipeline>> /\ (phase' # "raised" => phase # "raised")
    \/ Stepped
Goes ==
    /\ Follows
    /\ phase' = "raised" \/ UNCHANGED hits \/ (Stepped /\ pipeline.action[at] \in Retrievals)

LEMMA FollowsReturn ==
    ASSUME Inv, NEW action, Executing(action), NEW answer, StepReturns(answer)
    PROVE  Follows /\ Stepped /\ pipeline.action[at] = action
BY ReturnsIs DEF Executing, Follows

LEMMA FollowsRaise ==
    ASSUME Running, StepRaises
    PROVE  Follows /\ Goes /\ ~ Stepped /\ phase' = "raised"
<1>1. phase' = "raised" /\ UNCHANGED <<trace, pipeline>> /\ phase # "raised"
  BY RaisesIs DEF Running
<1>2. Stepped => FALSE
  <2> SUFFICES ASSUME Stepped PROVE FALSE
    OBVIOUS
  <2>1. Append(trace, at) = trace /\ trace \in Seq(StepId) /\ at \in StepId
    BY <1>1 DEF Stepped
  <2>2. Len(Append(trace, at)) = Len(trace) + 1 /\ Len(trace) \in Nat
    BY <2>1, AppendProperties, LenProperties
  <2>3. Len(trace) = Len(trace) + 1
    BY <2>1, <2>2
  <2> QED
    BY <2>2, <2>3
<1> QED
  BY <1>1, <1>2 DEF Follows, Goes

LEMMA LoopKept == ASSUME LoopInv, UNCHANGED loops, Follows PROVE LoopInv'
<1>1. CASE UNCHANGED trace
  BY <1>1 DEF LoopInv
<1>2. CASE Stepped
  <2>1. trace \in Seq(StepId) /\ at \in StepId /\ trace' = Append(trace, at)
    BY <1>2 DEF Stepped
  <2>2. Len(trace') = Len(trace) + 1 /\ \A i \in 1..Len(trace) : trace'[i] = trace[i]
    BY <2>1, AppendProperties, LenProperties
  <2>3. \A i \in 1..Len(trace) : i \in 1..Len(trace')
    BY <2>1, <2>2
  <2> QED
    BY <2>2, <2>3 DEF LoopInv
<1> QED
  BY <1>1, <1>2 DEF Follows

LEMMA FoundKept ==
    ASSUME FoundInv, UNCHANGED <<seeds, hits>>,
           expansion'.pc = "off" => UNCHANGED expansion, phase' # "raised" => phase # "raised"
    PROVE  FoundInv'
BY DEF FoundInv, Ids, NodesOf, NodesFound

LEMMA FollowsOn == Follows => (phase' # "raised" => phase # "raised")
BY DEF Follows, Stepped

LEMMA BudgetKept ==
    ASSUME BudgetInv, UNCHANGED <<cited, omitted>>, Goes,
           Stepped => pipeline.action[at] \notin Budgets
    PROVE  BudgetInv'
<1> SUFFICES ASSUME phase' # "raised", BudgetIsLast' PROVE IsBudget(hits, cited, omitted)'
  BY DEF BudgetInv
<1>1. CASE UNCHANGED <<trace, pipeline>> /\ ~ Stepped
  <2>1. BudgetIsLast
    BY <1>1, RanSame, OrderIs, OrderIsNext
  <2>2. UNCHANGED hits /\ phase # "raised"
    BY <1>1 DEF Goes, Follows
  <2> QED
    BY <2>1, <2>2 DEF BudgetInv, IsBudget
<1>2. CASE Stepped
  <2>1. pipeline.action[at] \notin Retrievals \cup Budgets
    BY <1>2, OrderStep
  <2>2. BudgetIsLast /\ UNCHANGED hits /\ phase # "raised"
    BY <1>2, <2>1, OrderStep DEF Goes, Stepped
  <2> QED
    BY <2>2 DEF BudgetInv, IsBudget
<1> QED
  BY <1>1, <1>2 DEF Goes, Follows

LEMMA PolicyKept ==
    ASSUME PolicyInv, UNCHANGED <<policy, model, setting>>, Goes,
           Stepped => pipeline.action[at] \notin Policies
    PROVE  PolicyInv'
<1>1. (policy.allowed => Permits(model, policy.nodes))'
  BY DEF PolicyInv, Permits, Requirement
<1> SUFFICES ASSUME phase' # "raised", BudgetIsLast', LastRun(Budgets)' < LastRun(Policies)'
             PROVE  policy'.nodes = NodesOf(hits')
  BY <1>1 DEF PolicyInv, NodesOf
<1>2. CASE UNCHANGED <<trace, pipeline>> /\ ~ Stepped
  <2>1. BudgetIsLast /\ LastRun(Budgets) < LastRun(Policies)
    BY <1>2, RanSame, OrderIs, OrderIsNext
  <2>2. UNCHANGED hits /\ phase # "raised"
    BY <1>2 DEF Goes, Follows
  <2> QED
    BY <2>1, <2>2 DEF PolicyInv
<1>3. CASE Stepped
  <2>1. pipeline.action[at] \notin Retrievals \cup Budgets
    BY <1>3, OrderStep
  <2>2. BudgetIsLast /\ UNCHANGED hits /\ phase # "raised" /\ LastRun(Budgets)' = LastRun(Budgets)
    BY <1>3, <2>1, OrderStep DEF Goes, Stepped
  <2>3. LastRun(Policies)' = LastRun(Policies)
    BY <1>3, RanNext DEF Stepped
  <2> QED
    BY <2>2, <2>3 DEF PolicyInv
<1> QED
  BY <1>2, <1>3 DEF Goes, Follows

LEMMA TextKept ==
    ASSUME TextInv, UNCHANGED <<evidence, texts>>, Goes,
           Stepped => pipeline.action[at] \notin Budgets \cup Copies
    PROVE  TextInv'
<1> SUFFICES ASSUME phase' # "raised" PROVE TextInv'
  BY DEF TextInv
<1>1. phase # "raised"
  BY FollowsOn DEF Goes
<1>2. Ran(Budgets)' = Ran(Budgets) /\ Ran(Copies)' = Ran(Copies)
  <2>1. CASE UNCHANGED <<trace, pipeline>> /\ ~ Stepped
    BY <2>1, RanSame
  <2>2. CASE Stepped
    BY <2>2, RanNext DEF Stepped
  <2> QED
    BY <2>1, <2>2 DEF Goes, Follows
<1>3. ASSUME BudgetIsLast', CopiesAreCurrent'
      PROVE  evidence'.chunks \cup texts' \subseteq NodesOf(hits')
  <2>1. CASE UNCHANGED <<trace, pipeline>> /\ ~ Stepped
    <3>1. BudgetIsLast /\ CopiesAreCurrent
      BY <1>3, <2>1, RanSame, OrderIs, OrderIsNext
    <3>2. UNCHANGED hits
      BY <2>1 DEF Goes
    <3> QED
      BY <1>1, <3>1, <3>2 DEF TextInv
  <2>2. CASE Stepped
    <3>1. pipeline.action[at] \notin Retrievals \cup Budgets \cup Copies
      BY <1>3, <2>2, OrderStep
    <3>2. BudgetIsLast /\ CopiesAreCurrent
      BY <1>3, <2>2, <3>1, OrderStep
    <3>3. UNCHANGED hits
      BY <2>2, <3>1 DEF Goes
    <3> QED
      BY <1>1, <3>2, <3>3 DEF TextInv
  <2> QED
    BY <2>1, <2>2 DEF Goes, Follows
<1> QED
  BY <1>1, <1>2, <1>3 DEF TextInv, NodesOf

LEMMA GraphKept == GraphInv /\ UNCHANGED graphVars => GraphInv'
BY DEF GraphInv, graphVars

QueryRest == GraphInv /\ DataTyped /\ LoopInv /\ FoundInv /\ BudgetInv /\ TextInv /\ PolicyInv

\* A step that touches no data.
LEMMA NothingTouched ==
    ASSUME QueryInv, UNCHANGED <<graphVars, setting, contextVars>>, Follows,
           Stepped => pipeline.action[at] \notin Budgets \cup Copies \cup Policies
    PROVE  QueryRest'
<1> USE DEF QueryInv, contextVars, foundVars, budgetVars, modelVars
<1>1. Goes
  BY DEF Goes
<1>2. GraphInv'
  BY GraphKept
<1>3. DataTyped'
  BY DEF DataTyped
<1>4. LoopInv'
  BY LoopKept
<1>5. FoundInv'
  BY FoundKept, FollowsOn DEF graphVars
<1>6. BudgetInv'
  BY <1>1, BudgetKept
<1>7. TextInv'
  BY <1>1, TextKept
<1>8. PolicyInv'
  BY <1>1, PolicyKept
<1> QED
  BY <1>2, <1>3, <1>4, <1>5, <1>6, <1>7, <1>8 DEF QueryRest

-----------------------------------------------------------------------------
(* Actions that touch little data *)

\* The actions of each kind are different ones.
LEMMA Kinds ==
    \A x \in {"normalize_query", "resolve_conversation", "start_conversation_turn",
              "load_conversation_history", "finalize", "finalize_conversation_turn",
              "fail_conversation_turn", "json_decision_router", "loop_guard",
              "repeat_query_guard", "retrieve", "expand_graph", "require_evidence", "call_model"} :
        x \notin Budgets \cup Copies \cup Policies
BY DEF Budgets, Copies, Policies

LEMMA QuietSteps ==
    ASSUME QueryInv, Load \/ Run \/ Reply \/ Raise \/ Quiet \/ UNCHANGED queryVars
    PROVE  QueryRest'
<1>1. UNCHANGED <<graphVars, setting, contextVars>>
  BY DEF Load, Run, Reply, Raise, Quiet, queryVars
<1>2. Follows /\ ~ Stepped
  <2>1. CASE Raise
    BY <2>1, FollowsRaise DEF Raise
  <2>2. CASE Load \/ Run \/ Reply \/ Quiet \/ UNCHANGED queryVars
    <3>1. UNCHANGED <<trace, pipeline>> /\ (phase' # "raised" => phase # "raised")
      BY <2>2 DEF Load, Run, Reply, Quiet, queryVars, controlVars, Loading, Validate, Walk,
                  Decide, StartRun, Answer, engineVars
    <3>2. trace \in Seq(StepId)
      BY DEF QueryInv, Inv, Typed, ControlTypeOK
    <3>3. Stepped => FALSE
      <4> SUFFICES ASSUME Stepped PROVE FALSE
        OBVIOUS
      <4>1. Append(trace, at) = trace /\ at \in StepId
        BY <3>1 DEF Stepped
      <4>2. Len(Append(trace, at)) = Len(trace) + 1 /\ Len(trace) \in Nat
        BY <3>2, <4>1, AppendProperties, LenProperties
      <4>3. Len(trace) = Len(trace) + 1
        BY <4>1, <4>2
      <4> QED
        BY <4>2, <4>3
    <3> QED
      BY <3>1, <3>3 DEF Follows
  <2> QED
    BY <2>1, <2>2
<1> QED
  BY <1>1, <1>2, NothingTouched

LEMMA PassStep == ASSUME QueryInv, Pass PROVE QueryRest'
<1>1. PICK a \in {"normalize_query", "resolve_conversation", "start_conversation_turn",
                 "load_conversation_history", "finalize", "finalize_conversation_turn",
                 "fail_conversation_turn"} : Executing(a)
  BY DEF Pass
<1>2. Follows /\ pipeline.action[at] = a
  BY <1>1, FollowsReturn DEF Pass, QueryInv
<1> QED
  BY <1>2, Kinds, NothingTouched DEF Pass

LEMMA SkipStep == ASSUME QueryInv, SkipExpansion PROVE QueryRest'
<1>1. Follows /\ pipeline.action[at] = "expand_graph"
  BY FollowsReturn DEF SkipExpansion, QueryInv
<1> QED
  BY <1>1, Kinds, NothingTouched DEF SkipExpansion

LEMMA RequireStep == ASSUME QueryInv, RequireEvidence PROVE QueryRest'
<1>1. Executing("require_evidence") /\ (StepReturns(None) \/ StepRaises)
      /\ UNCHANGED <<graphVars, setting, contextVars>>
  BY DEF RequireEvidence
<1>2. Follows /\ pipeline.action[at] = "require_evidence"
  BY <1>1, FollowsReturn, FollowsRaise DEF QueryInv, Executing
<1> QED
  BY <1>1, <1>2, Kinds, NothingTouched

\* A loop guard that runs had not run before.
LEMMA GuardStep == ASSUME QueryInv, LoopGuard PROVE QueryRest'
<1> USE DEF QueryInv, LoopGuard, contextVars, foundVars, budgetVars, modelVars
<1>1. PICK answer : StepReturns(answer)
  OBVIOUS
<1>2. Stepped /\ Follows /\ pipeline.action[at] = "loop_guard"
  BY <1>1, FollowsReturn
<1>3. \A i \in 1..Len(trace) : trace[i] # at
  BY <1>1, ReturnsIs DEF Executing
<1>4. /\ Goes
      /\ pipeline.action[at] \notin Budgets \cup Copies \cup Policies
  BY <1>2, Kinds DEF Goes
<1>5. LoopInv'
  <2>1. trace \in Seq(StepId) /\ at \in StepId /\ trace' = Append(trace, at)
    BY <1>2 DEF Stepped
  <2>2. loops \in [StepId -> 0..1] /\ loops[at] = 0
    <3>1. loops[at] \in 0..1 /\ loops[at] # 1
      BY <1>3, <2>1 DEF LoopInv
    <3> QED
      BY <3>1 DEF LoopInv
  <2>3. loops' = [loops EXCEPT ![at] = 1]
    BY <2>2
  <2>4. loops' \in [StepId -> 0..1]
    <3>1. \A f \in [StepId -> 0..1], s \in StepId : [f EXCEPT ![s] = 1] \in [StepId -> 0..1]
      OBVIOUS
    <3>2. [loops EXCEPT ![at] = 1] \in [StepId -> 0..1]
      BY <2>1, <2>2, <3>1
    <3> QED
      BY <2>3, <3>2
  <2>5. /\ Len(trace') = Len(trace) + 1 /\ trace'[Len(trace) + 1] = at /\ Len(trace) \in Nat
        /\ \A i \in 1..Len(trace) : trace'[i] = trace[i]
    BY <2>1, AppendProperties, LenProperties
  <2>6. \A s \in StepId : loops'[s] = 1 => \E i \in 1..Len(trace') : trace'[i] = s
    <3> SUFFICES ASSUME NEW s \in StepId, loops'[s] = 1
                 PROVE  \E i \in 1..Len(trace') : trace'[i] = s
      OBVIOUS
    <3>1. CASE s = at
      BY <2>5, <3>1
    <3>2. CASE s # at
      <4>1. loops[s] = 1
        BY <2>2, <2>3, <3>2
      <4>2. PICK i \in 1..Len(trace) : trace[i] = s
        BY <4>1 DEF LoopInv
      <4>3. i \in 1..Len(trace') /\ trace'[i] = s
        BY <2>5, <4>2
      <4> QED
        BY <4>3
    <3> QED
      BY <3>1, <3>2
  <2> QED
    BY <2>4, <2>6 DEF LoopInv
<1>6. GraphInv' /\ DataTyped'
  BY GraphKept DEF DataTyped
<1>7. FoundInv'
  BY <1>2, FoundKept, FollowsOn DEF graphVars
<1>8. BudgetInv' /\ TextInv' /\ PolicyInv'
  BY <1>4, BudgetKept, TextKept, PolicyKept
<1> QED
  BY <1>5, <1>6, <1>7, <1>8 DEF QueryRest

-----------------------------------------------------------------------------
(* Texts *)

\* What a step copies is of the evidence there is.
LEMMA CopyStep ==
    ASSUME QueryInv, Stepped, pipeline.action[at] \in Copies,
           UNCHANGED hits, texts' \subseteq texts \cup evidence.chunks,
           evidence'.chunks \subseteq evidence.chunks \cup texts'
    PROVE  TextInv'
<1>1. /\ Ran(Copies)' = Ran(Copies) \cup {Len(trace) + 1}
      /\ Ran(Budgets)' = Ran(Budgets) /\ LastRun(Retrievals)' = LastRun(Retrievals)
  <2>1. pipeline.action[at] \notin Budgets /\ pipeline.action[at] \notin Retrievals
    BY DEF Budgets, Copies, Retrievals
  <2> QED
    BY <2>1, RanNext DEF Stepped
<1>2. /\ Ran(Budgets) \in SUBSET (1..Len(trace)) /\ Len(trace) \in Nat
      /\ \A b \in Ran(Budgets) : b <= LastRun(Budgets)
      /\ LastRun(Budgets) \in 0..Len(trace) /\ LastRun(Retrievals) \in 0..Len(trace)
  BY RanIs DEF Stepped
<1>3. \A b \in Ran(Budgets) : b < Len(trace) + 1
  BY <1>2
<1>4. phase # "raised" /\ TextInv
  BY DEF Stepped, QueryInv
<1>5. Ran(Budgets) = {} => evidence.chunks = {} /\ texts = {}
  BY <1>4 DEF TextInv
<1>6. ASSUME \A i \in Ran(Copies)', b \in Ran(Budgets)' : ~ (b < i)
      PROVE  texts' = {}
  <2>1. Ran(Budgets) = {}
    BY <1>1, <1>3, <1>6
  <2> QED
    BY <1>5, <2>1
<1>7. ASSUME BudgetIsLast', CopiesAreCurrent'
      PROVE  evidence'.chunks \cup texts' \subseteq NodesOf(hits')
  <2>1. CASE Ran(Budgets) = {}
    BY <1>5, <2>1
  <2>2. CASE Ran(Budgets) # {}
    <3>1. \A i \in Ran(Copies) \cup {Len(trace) + 1} : (\E b \in Ran(Budgets) : b < i) =>
              \E b \in Ran(Budgets) : LastRun(Retrievals) < b /\ b < i
      BY <1>1, <1>7, OrderIsNext
    <3>2. CopiesAreCurrent
      BY <3>1, OrderIs
    <3>3. PICK b \in Ran(Budgets) : LastRun(Retrievals) < b
      BY <1>3, <2>2, <3>1
    <3>4. LastRun(Retrievals) < LastRun(Budgets)
      BY <1>2, <3>3
    <3>5. BudgetIsLast
      BY <3>4, OrderIs
    <3> QED
      BY <1>4, <3>2, <3>5 DEF TextInv
  <2> QED
    BY <2>1, <2>2
<1> QED
  BY <1>1, <1>5, <1>6, <1>7 DEF TextInv, NodesOf

LEMMA FollowStep == ASSUME QueryInv, FollowText PROVE QueryRest'
<1> USE DEF QueryInv, contextVars, foundVars, budgetVars, modelVars
<1>1. PICK a \in Routers \ {"loop_guard"} : Executing(a)
  BY DEF FollowText
<1>2. PICK answer : StepReturns(answer)
  BY DEF FollowText
<1>3. /\ UNCHANGED <<graphVars, setting, seeds, hits, cited, omitted, evidence, policy, model,
                     sent, loops>>
      /\ \/ UNCHANGED texts
         \/ Executing("prefix_router") /\ texts' = texts \cup evidence.chunks
  BY DEF FollowText
<1>4. Stepped /\ Follows /\ pipeline.action[at] = a
  BY <1>1, <1>2, FollowsReturn
<1>5. Goes /\ a \notin Budgets \cup Policies
  BY <1>3, <1>4 DEF Goes, Routers, Budgets, Policies
<1>6. TextInv'
  <2>1. CASE a = "prefix_router"
    <3>1. a \in Copies
      BY <2>1 DEF Copies
    <3>2. /\ texts' \subseteq texts \cup evidence.chunks
          /\ evidence'.chunks \subseteq evidence.chunks \cup texts'
      BY <1>3
    <3> QED
      BY <1>3, <1>4, <3>1, <3>2, CopyStep
  <2>2. CASE a # "prefix_router"
    <3>1. a \notin Copies
      BY <2>2 DEF Copies, Routers
    <3>2. UNCHANGED texts
      BY <1>3, <1>4, <2>2 DEF Executing
    <3> QED
      BY <1>3, <1>4, <1>5, <3>1, <3>2, TextKept
  <2> QED
    BY <2>1, <2>2
<1>7. GraphInv' /\ LoopInv'
  BY <1>3, <1>4, GraphKept, LoopKept
<1>8. DataTyped'
  BY <1>3 DEF DataTyped
<1>9. FoundInv'
  BY <1>3, <1>4, FoundKept, FollowsOn DEF graphVars
<1>10. BudgetInv' /\ PolicyInv'
  BY <1>3, <1>4, <1>5, BudgetKept, PolicyKept
<1> QED
  BY <1>6, <1>7, <1>8, <1>9, <1>10 DEF QueryRest

LEMMA SetStep == ASSUME QueryInv, SetVariables PROVE QueryRest'
<1> USE DEF QueryInv, contextVars, foundVars, budgetVars, modelVars
<1>1. /\ Executing("set_variables") /\ StepReturns(None)
      /\ UNCHANGED <<graphVars, setting, seeds, hits, cited, omitted, policy, model, sent, loops>>
      /\ texts' \in {texts, texts \cup evidence.chunks}
      /\ evidence' \in {evidence, [chunks |-> {}, empty |-> TRUE]} \cup
            {[chunks |-> c, empty |-> FALSE] : c \in SUBSET texts'}
  BY DEF SetVariables
<1>2. Stepped /\ Follows /\ pipeline.action[at] = "set_variables"
  BY <1>1, FollowsReturn
<1>3. Goes /\ pipeline.action[at] \in Copies /\ pipeline.action[at] \notin Budgets \cup Policies
  BY <1>1, <1>2 DEF Goes, Copies, Budgets, Policies
<1>4. /\ texts' \subseteq texts \cup evidence.chunks
      /\ evidence'.chunks \subseteq evidence.chunks \cup texts'
  BY <1>1
<1>5. TextInv'
  BY <1>1, <1>2, <1>3, <1>4, CopyStep
<1>6. GraphInv' /\ LoopInv'
  BY <1>1, <1>2, GraphKept, LoopKept
<1>7. DataTyped'
  <2>1. texts' \subseteq Node
    BY <1>4 DEF DataTyped
  <2>2. evidence' \in [chunks : SUBSET Node, empty : BOOLEAN]
    <3>1. [chunks |-> {}, empty |-> TRUE] \in [chunks : SUBSET Node, empty : BOOLEAN]
      OBVIOUS
    <3>2. \A c \in SUBSET texts' :
             [chunks |-> c, empty |-> FALSE] \in [chunks : SUBSET Node, empty : BOOLEAN]
      BY <2>1
    <3>3. evidence \in [chunks : SUBSET Node, empty : BOOLEAN]
      BY DEF DataTyped
    <3>4. \/ evidence' = evidence \/ evidence' = [chunks |-> {}, empty |-> TRUE]
          \/ \E c \in SUBSET texts' : evidence' = [chunks |-> c, empty |-> FALSE]
      BY <1>1
    <3> QED
      BY <3>1, <3>2, <3>3, <3>4, Zenon
  <2> QED
    BY <1>1, <2>1, <2>2 DEF DataTyped
<1>8. FoundInv'
  BY <1>1, <1>2, FoundKept, FollowsOn DEF graphVars
<1>9. BudgetInv' /\ PolicyInv'
  BY <1>1, <1>3, BudgetKept, PolicyKept
<1> QED
  BY <1>5, <1>6, <1>7, <1>8, <1>9 DEF QueryRest

-----------------------------------------------------------------------------
(* Retrieval, expansion, budget, policy *)

LEMMA NodesOfTyped == \A s \in Seq(Node) : NodesOf(s) \in SUBSET Node
BY DEF NodesOf

LEMMA RetrieveStep == ASSUME QueryInv, Retrieve PROVE QueryRest'
<1> USE DEF QueryInv, budgetVars, modelVars
<1>1. PICK found \in SUBSET Node :
         /\ seeds' = ByScore(found, Relevance)
         /\ \/ found \subseteq Visible /\ hits' = seeds' /\ StepReturns(None)
            \/ ~(found \subseteq Visible) /\ StepRaises /\ UNCHANGED hits
  BY DEF Retrieve
<1>2. /\ Executing("retrieve") /\ expansion' = NoExpansion
      /\ UNCHANGED <<current, setting, cited, omitted, evidence, texts, policy, model, sent, loops>>
  BY DEF Retrieve
<1>3. seeds' \in Seq(Node)
  <2>1. \A n \in found : Relevance[n] \in Int
    BY GraphAssumption
  <2>2. ByScore(found, Relevance) \in Seq(found)
    BY <2>1, ByScoreIs
  <2>3. \A i \in 1..Len(seeds') : seeds'[i] \in Node
    BY <1>1, <2>2
  <2> QED
    BY <1>1, <2>2, <2>3
<1>4. GraphInv'
  BY <1>2, NoExpansionInv
<1>5. NodesFound' = {}
  BY <1>2 DEF NodesFound, NoExpansion
<1>6. /\ Goes /\ Follows /\ hits' \in Seq(Node)
      /\ Stepped => pipeline.action[at] \notin Budgets \cup Copies \cup Policies
      /\ phase' # "raised" => hits' = seeds'
  <2>1. CASE hits' = seeds' /\ StepReturns(None)
    <3>1. Follows /\ Stepped /\ pipeline.action[at] = "retrieve"
      BY <1>2, <2>1, FollowsReturn
    <3>2. "retrieve" \in Retrievals /\ "retrieve" \notin Budgets \cup Copies \cup Policies
      BY Kinds DEF Retrievals
    <3> QED
      BY <1>3, <2>1, <3>1, <3>2 DEF Goes
  <2>2. CASE StepRaises /\ UNCHANGED hits
    <3>1. Follows /\ Goes /\ ~ Stepped /\ phase' = "raised"
      BY <1>2, <2>2, FollowsRaise DEF Executing
    <3> QED
      BY <2>2, <3>1 DEF DataTyped
  <2> QED
    BY <1>1, <2>1, <2>2
<1>7. DataTyped'
  BY <1>2, <1>3, <1>6 DEF DataTyped
<1>8. LoopInv'
  BY <1>2, <1>6, LoopKept
<1>9. FoundInv'
  BY <1>5, <1>6 DEF FoundInv
<1>10. BudgetInv' /\ TextInv' /\ PolicyInv'
  BY <1>2, <1>6, BudgetKept, TextKept, PolicyKept
<1> QED
  BY <1>4, <1>7, <1>8, <1>9, <1>10 DEF QueryRest

\* The scores with which an expansion begins.
LEMMA HitScoreTyped ==
    ASSUME seeds \in Seq(Node), Bounded(expansion),
           NEW n \in NodesOf(seeds) \cup NodesFound
    PROVE  HitScore(n) \in Score
<1>1. CASE n \in NodesOf(seeds)
  <2>1. n \in Node
    BY <1>1, NodesOfTyped
  <2> QED
    BY <1>1, <2>1, GraphAssumption DEF HitScore
<1>2. CASE n \notin NodesOf(seeds)
  <2> DEFINE found == ToSet(expansion.expanded)
             hit == CHOOSE h \in found : h.node = n
  <2>1. expansion.expanded \in Seq(Hit)
    BY DEF Bounded, Locals
  <2>2. found = {expansion.expanded[i] : i \in 1..Len(expansion.expanded)}
    BY <2>1 DEF ToSet
  <2>3. found \subseteq Hit
    BY <2>1, <2>2
  <2>4. \E h \in found : h.node = n
    BY <1>2, <2>2 DEF NodesFound
  <2>5. hit \in found
    BY <2>4
  <2> HIDE DEF hit, found
  <2>6. hit.score \in Score /\ hit.depth \in 1..MaxDepth
    BY <2>3, <2>5 DEF Hit
  <2>7. Share[<<hit.score, hit.depth>>] \in Score
    BY <2>6, GraphAssumption
  <2> QED
    BY <1>2, <2>7 DEF HitScore, hit, found
<1> QED
  BY <1>1, <1>2

\* The levels of an expansion, and what is published between them.
LEMMA LevelStep == ASSUME QueryInv, StartExpansion \/ ExpandLevel \/ Import PROVE QueryRest'
<1> USE DEF QueryInv, contextVars, foundVars, budgetVars, modelVars
<1>1. /\ UNCHANGED <<controlVars, setting, seeds, hits, cited, omitted, evidence, texts, policy,
                     model, sent, loops>>
      /\ Executing("expand_graph")
  BY DEF StartExpansion, ExpandLevel, Import
<1>2. UNCHANGED <<trace, pipeline, phase>>
  BY <1>1 DEF controlVars
<1>3. Follows /\ Goes
  BY <1>1, <1>2 DEF Follows, Goes
<1>4. pipeline.action[at] \notin Budgets \cup Copies \cup Policies
  BY <1>1, Kinds DEF Executing
<1>5. GraphInv' /\ expansion'.pc # "off"
  <2>1. CASE StartExpansion
    <3> DEFINE w == [n \in NodesOf(hits) |-> HitScore(n)]
    <3>1. NodesOf(hits) \in SUBSET Node /\ BeginExpansion(w) /\ UNCHANGED current
      BY <2>1, NodesOfTyped DEF StartExpansion, DataTyped
    <3>2. NodesOf(hits) \subseteq NodesOf(seeds) \cup NodesFound
      BY <2>1 DEF StartExpansion, Executing, Running, FoundInv
    <3>3. \A n \in NodesOf(hits) : HitScore(n) \in Score
      BY <3>2, HitScoreTyped DEF GraphInv, DataTyped
    <3>4. w \in [NodesOf(hits) -> Score]
      BY <3>3
    <3> HIDE DEF w
    <3>5. GraphInv'
      BY <3>1, <3>4, BeginInv
    <3>6. expansion'.pc = "read"
      BY <3>1 DEF BeginExpansion, NoExpansion
    <3> QED
      BY <3>5, <3>6
  <2>2. CASE ExpandLevel
    <3>1. GraphInv'
      BY <2>2, ReadInv, LoadInv DEF ExpandLevel, Expand
    <3>2. expansion \in Locals
      BY DEF GraphInv, Bounded
    <3>3. CASE ReadRelationships
      BY <3>1, <3>2, <3>3 DEF ReadRelationships, Locals
    <3>4. CASE LoadChunks
      BY <3>1, <3>2, <3>4 DEF LoadChunks, Take, Locals
    <3> QED
      BY <2>2, <3>1, <3>3, <3>4 DEF ExpandLevel, Expand
  <2>3. CASE Import
    <3>1. PICK s \in Source : Republish(s)
      BY <2>3 DEF Import
    <3>2. GraphInv'
      BY <3>1, RepublishInv
    <3>3. expansion \in Locals
      BY DEF GraphInv, Bounded
    <3> QED
      BY <3>1, <3>2, <3>3 DEF Republish, Locals
  <2> QED
    BY <2>1, <2>2, <2>3
<1>6. DataTyped'
  BY <1>1 DEF DataTyped
<1>7. LoopInv' /\ FoundInv'
  BY <1>1, <1>2, <1>3, <1>5, LoopKept, FoundKept
<1>8. BudgetInv' /\ TextInv' /\ PolicyInv'
  BY <1>1, <1>3, <1>4, BudgetKept, TextKept, PolicyKept
<1> QED
  BY <1>5, <1>6, <1>7, <1>8 DEF QueryRest

LEMMA MergeStep == ASSUME QueryInv, MergeExpansion PROVE QueryRest'
<1> USE DEF QueryInv, budgetVars, modelVars
<1>1. /\ Executing("expand_graph") /\ hits' = Merged /\ StepReturns(None)
      /\ expansion' = [expansion EXCEPT !.pc = "off"]
      /\ UNCHANGED <<current, setting, seeds, cited, omitted, evidence, texts, policy, model,
                     sent, loops>>
  BY DEF MergeExpansion
<1>2. Stepped /\ Follows /\ pipeline.action[at] = "expand_graph"
  BY <1>1, FollowsReturn
<1>3. Goes /\ pipeline.action[at] \notin Budgets \cup Copies \cup Policies
  <2>1. "expand_graph" \in Retrievals
    BY DEF Retrievals
  <2> QED
    BY <1>2, <2>1, Kinds DEF Goes
<1>4. GraphInv' /\ expansion'.expanded = expansion.expanded
  BY <1>1, OffInv
<1>5. /\ Merged \in Seq(Node) /\ NodesOf(Merged) \subseteq NodesOf(seeds) \cup NodesFound
      /\ Ids(NodesOf(Merged)) = Ids(NodesOf(seeds) \cup NodesFound)
  BY MergedIs DEF DataTyped, GraphInv
<1>6. DataTyped'
  BY <1>1, <1>5 DEF DataTyped
<1>7. LoopInv'
  BY <1>1, <1>2, LoopKept
<1>8. FoundInv'
  <2>1. NodesFound' = NodesFound
    BY <1>4 DEF NodesFound
  <2> QED
    BY <1>1, <1>5, <2>1 DEF FoundInv, Ids, NodesOf
<1>9. BudgetInv' /\ TextInv' /\ PolicyInv'
  BY <1>1, <1>3, BudgetKept, TextKept, PolicyKept
<1> QED
  BY <1>4, <1>6, <1>7, <1>8, <1>9 DEF QueryRest

\* Behind a budget every text that was copied is of the hits.
LEMMA BudgetStep == ASSUME QueryInv, ManageContextBudget PROVE QueryRest'
<1> USE DEF QueryInv, foundVars, modelVars
<1>1. PICK k : k = Included(Used(hits), Len(hits))
  OBVIOUS
<1>2. /\ Executing("manage_context_budget") /\ StepReturns(None)
      /\ cited' = SubSeq(hits, 1, k)
      /\ omitted' = SubSeq(hits, OmittedFrom(k), Len(hits))
      /\ evidence' = [chunks |-> {hits[i] : i \in {j \in 1..k : Used(hits)[j - 1] < MaxContext}},
                      empty |-> FALSE]
      /\ UNCHANGED <<graphVars, setting, seeds, hits, texts, policy, model, sent, loops>>
  BY <1>1 DEF ManageContextBudget
<1>3. Stepped /\ Follows /\ pipeline.action[at] = "manage_context_budget"
  BY <1>2, FollowsReturn
<1>4. Goes /\ pipeline.action[at] \in Budgets /\ pipeline.action[at] \notin Copies \cup Policies
      /\ pipeline.action[at] \notin Retrievals
  BY <1>2, <1>3 DEF Goes, Budgets, Copies, Policies, Retrievals
<1>5. hits \in Seq(Node)
  BY DEF DataTyped
<1>6. k \in 0..Len(hits) /\ IsBudget(hits, cited', omitted')
  BY <1>1, <1>2, <1>5, BudgetIs
<1>7. evidence'.chunks \subseteq NodesOf(hits)
      /\ evidence'.empty = FALSE
  BY <1>2, <1>5, <1>6 DEF NodesOf
<1>8. DataTyped'
  <2>1. evidence'.chunks \in SUBSET Node
    BY <1>5, <1>7, NodesOfTyped
  <2>2. evidence' \in [chunks : SUBSET Node, empty : BOOLEAN]
    BY <1>2, <2>1
  <2>3. cited' \in Seq(Node) /\ omitted' \in Seq(Node)
    BY <1>6 DEF IsBudget
  <2> QED
    BY <1>2, <2>2, <2>3 DEF DataTyped
<1>9. GraphInv' /\ LoopInv' /\ FoundInv'
  BY <1>2, <1>3, GraphKept, LoopKept, FoundKept, FollowsOn DEF graphVars
<1>10. BudgetInv'
  BY <1>2, <1>6 DEF BudgetInv, IsBudget
<1>11. PolicyInv'
  BY <1>2, <1>4, PolicyKept
<1>12. TextInv'
  <2>1. /\ Ran(Budgets)' = Ran(Budgets) \cup {Len(trace) + 1}
        /\ Ran(Copies)' = Ran(Copies) /\ LastRun(Retrievals)' = LastRun(Retrievals)
    BY <1>3, <1>4, RanNext DEF Stepped
  <2>2. /\ Ran(Copies) \in SUBSET (1..Len(trace)) /\ Len(trace) \in Nat
        /\ Ran(Budgets) \in SUBSET (1..Len(trace))
        /\ \A b \in Ran(Budgets) : b <= LastRun(Budgets)
        /\ LastRun(Budgets) \in 0..Len(trace) /\ LastRun(Retrievals) \in 0..Len(trace)
    BY <1>3, RanIs DEF Stepped
  <2>3. TextInv /\ phase # "raised"
    BY <1>3 DEF Stepped
  <2>4. (\A i \in Ran(Copies), b \in Ran(Budgets) : ~ (b < i)) => texts = {}
    BY <2>3 DEF TextInv
  <2>5. ASSUME \A i \in Ran(Copies)', b \in Ran(Budgets)' : ~ (b < i)
        PROVE  texts' = {}
    BY <1>2, <2>1, <2>4, <2>5
  <2>6. ASSUME CopiesAreCurrent'
        PROVE  texts' \subseteq NodesOf(hits')
    <3>1. \A i \in Ran(Copies) : (\E b \in Ran(Budgets) : b < i) =>
              \E b \in Ran(Budgets) \cup {Len(trace) + 1} : LastRun(Retrievals) < b /\ b < i
      BY <2>1, <2>6, OrderIsNext
    <3>2. \A i \in Ran(Copies) : ~ (Len(trace) + 1 < i)
      BY <2>2
    <3>3. CASE BudgetIsLast
      <4>1. CopiesAreCurrent
        BY <3>1, <3>2, OrderIs
      <4> QED
        BY <1>2, <2>3, <3>3, <4>1 DEF TextInv
    <3>4. CASE ~ BudgetIsLast
      <4>1. \A b \in Ran(Budgets) : ~ (LastRun(Retrievals) < b)
        BY <2>2, <3>4, OrderIs
      <4>2. \A i \in Ran(Copies), b \in Ran(Budgets) : ~ (b < i)
        BY <3>1, <3>2, <4>1
      <4>3. texts = {}
        BY <2>4, <4>2
      <4> QED
        BY <1>2, <4>3
    <3> QED
      BY <3>3, <3>4
  <2>7. Ran(Budgets)' # {}
    BY <2>1
  <2> QED
    BY <1>2, <1>7, <2>5, <2>6, <2>7 DEF TextInv, NodesOf
<1> QED
  BY <1>8, <1>9, <1>10, <1>11, <1>12 DEF QueryRest

LEMMA EnforceStep == ASSUME QueryInv, EnforceModelTransmissionPolicy PROVE QueryRest'
<1> USE DEF QueryInv, foundVars, budgetVars
<1>1. PICK nodes : nodes = NodesOf(hits)
  OBVIOUS
<1>2. EnforceOn(nodes)
  BY <1>1 DEF EnforceModelTransmissionPolicy
<1>3. /\ Executing("enforce_model_transmission_policy")
      /\ UNCHANGED <<graphVars, setting, seeds, hits, cited, omitted, evidence, texts, loops, sent>>
      /\ \/ /\ model' \in Server /\ Permits(model', nodes) /\ policy' = Decided(TRUE, nodes)
            /\ StepReturns(None)
         \/ UNCHANGED model /\ policy' = Decided(FALSE, nodes) /\ StepRaises
  <2>1. setting.selected \in Server /\ Reroute[setting.selected] \in Server \cup {None}
    BY QueryAssumption DEF DataTyped
  <2> QED
    BY <1>2, <2>1 DEF EnforceOn
<1>4. nodes \in SUBSET Node
  BY <1>1, NodesOfTyped DEF DataTyped
<1>5. /\ Follows /\ Goes
      /\ Stepped => pipeline.action[at] \notin Budgets \cup Copies
  <2>1. CASE StepReturns(None)
    <3>1. Follows /\ Stepped /\ pipeline.action[at] = "enforce_model_transmission_policy"
      BY <1>3, <2>1, FollowsReturn
    <3> QED
      BY <1>3, <3>1 DEF Goes, Budgets, Copies
  <2>2. CASE StepRaises
    BY <1>3, <2>2, FollowsRaise DEF Executing
  <2> QED
    BY <1>3, <2>1, <2>2
<1>6. GraphInv' /\ LoopInv' /\ FoundInv'
  BY <1>3, <1>5, GraphKept, LoopKept, FoundKept, FollowsOn DEF graphVars
<1>7. DataTyped'
  <2>1. policy' \in [checked : BOOLEAN, allowed : BOOLEAN, nodes : SUBSET Node]
    <3>1. /\ Decided(TRUE, nodes) \in [checked : BOOLEAN, allowed : BOOLEAN, nodes : SUBSET Node]
          /\ Decided(FALSE, nodes) \in [checked : BOOLEAN, allowed : BOOLEAN, nodes : SUBSET Node]
      BY <1>4 DEF Decided
    <3>2. policy' = Decided(TRUE, nodes) \/ policy' = Decided(FALSE, nodes)
      BY <1>3
    <3> QED
      BY <3>1, <3>2, Zenon
  <2>2. model' \in Server
    BY <1>3 DEF DataTyped
  <2> QED
    BY <1>3, <2>1, <2>2 DEF DataTyped
<1>8. BudgetInv' /\ TextInv'
  BY <1>3, <1>5, BudgetKept, TextKept
<1>9. PolicyInv'
  <2>1. policy'.nodes = NodesOf(hits')
    BY <1>1, <1>3 DEF Decided
  <2>2. policy'.allowed => Permits(model', policy'.nodes)
    BY <1>3 DEF Decided
  <2>3. Permits(model', policy'.nodes) => Permits(model, policy.nodes)'
    BY <1>3 DEF Permits, Requirement
  <2> QED
    BY <2>1, <2>2, <2>3 DEF PolicyInv, NodesOf
<1> QED
  BY <1>6, <1>7, <1>8, <1>9 DEF QueryRest

LEMMA CallStep == ASSUME QueryInv, CallModel PROVE QueryRest'
<1> USE DEF QueryInv, foundVars, budgetVars
<1>1. /\ Executing("call_model") /\ (StepReturns(None) \/ StepRaises)
      /\ UNCHANGED <<graphVars, setting, seeds, hits, cited, omitted, evidence, texts, policy,
                     model, loops>>
      /\ \/ \E chunks \in {evidence.chunks, evidence.chunks \cup texts} :
               sent' = sent \cup {[server |-> model, chunks |-> chunks, checked |-> policy.nodes]}
         \/ UNCHANGED sent
  BY DEF CallModel
<1>2. /\ Follows /\ Goes
      /\ Stepped => pipeline.action[at] \notin Budgets \cup Copies \cup Policies
  <2>1. CASE StepReturns(None)
    <3>1. Follows /\ Stepped /\ pipeline.action[at] = "call_model"
      BY <1>1, <2>1, FollowsReturn
    <3> QED
      BY <1>1, <3>1, Kinds DEF Goes
  <2>2. CASE StepRaises
    BY <1>1, <2>2, FollowsRaise DEF Executing
  <2> QED
    BY <1>1, <2>1, <2>2
<1>3. GraphInv' /\ LoopInv' /\ FoundInv'
  BY <1>1, <1>2, GraphKept, LoopKept, FoundKept, FollowsOn DEF graphVars
<1>4. DataTyped'
  <2>1. \A chunks \in {evidence.chunks, evidence.chunks \cup texts} :
           [server |-> model, chunks |-> chunks, checked |-> policy.nodes] \in Transmission
    BY DEF DataTyped, Transmission
  <2>2. sent' \subseteq Transmission
    BY <1>1, <2>1 DEF DataTyped
  <2> QED
    BY <1>1, <2>2 DEF DataTyped
<1>5. BudgetInv' /\ TextInv' /\ PolicyInv'
  BY <1>1, <1>2, BudgetKept, TextKept, PolicyKept
<1> QED
  BY <1>3, <1>4, <1>5 DEF QueryRest

-----------------------------------------------------------------------------
(* The invariant of a query *)

LEMMA QueryStart == QueryInit => QueryInv
<1> SUFFICES ASSUME QueryInit PROVE QueryInv
  OBVIOUS
<1> USE DEF QueryInit
<1>1. Inv /\ GraphInv
  BY InitInv, GraphStart
<1>2. DataTyped
  BY QueryAssumption DEF DataTyped, Unchecked
<1>3. LoopInv
  <2>1. \A s \in StepId : loops[s] = 0
    OBVIOUS
  <2> QED
    BY <2>1 DEF LoopInv
<1>4. trace = <<>>
  BY DEF ControlInit
<1>5. \A A : Ran(A) = {} /\ LastRun(A) = 0
  BY <1>4 DEF Ran, LastRun
<1>6. ~ BudgetIsLast
  BY <1>5, OrderIs
<1>7. FoundInv
  <2>1. NodesFound = {} /\ NodesOf(hits) = {} /\ NodesOf(seeds) = {}
    BY DEF GraphInit, NoExpansion, NodesFound, NodesOf
  <2> QED
    BY <2>1 DEF FoundInv
<1>8. BudgetInv
  BY <1>6 DEF BudgetInv
<1>9. TextInv
  BY <1>6 DEF TextInv
<1>10. PolicyInv
  BY <1>6 DEF PolicyInv, Unchecked
<1> QED
  BY <1>1, <1>2, <1>3, <1>7, <1>8, <1>9, <1>10 DEF QueryInv

LEMMA QueryStep == QueryInv /\ [QueryNext]_queryVars => QueryInv'
<1> SUFFICES ASSUME QueryInv, [QueryNext]_queryVars PROVE QueryInv'
  OBVIOUS
<1>1. Inv'
  BY QueryStepFollows, StepInv DEF QueryInv
<1>2. Load \/ Run \/ Reply \/ Raise \/ Quiet \/ UNCHANGED queryVars => QueryRest'
  BY QuietSteps
<1>3. (Act /\ ~ Raise) \/ Import => QueryRest'
  BY PassStep, FollowStep, GuardStep, SetStep, RetrieveStep, SkipStep, LevelStep,
     MergeStep, BudgetStep, RequireStep, EnforceStep, CallStep DEF Act
<1>4. QueryRest'
  BY <1>2, <1>3 DEF QueryNext
<1> QED
  BY <1>1, <1>4 DEF QueryInv, QueryRest

-----------------------------------------------------------------------------
(* The results of the data *)

\* The inductive invariant of a query, for every pipeline, graph and setting.
THEOREM QueryInvariant == QuerySpec => []QueryInv
BY QueryStart, QueryStep, PTL DEF QuerySpec

\* Every variable of a query keeps its type, the traversal's and the engine's included.
THEOREM QueryTypeCorrect == QuerySpec => []QueryTypeOK
<1>1. QueryInv => QueryTypeOK
  BY GraphInvTyped DEF QueryInv, Inv, Typed, DataTyped, LoopInv, QueryTypeOK
<1> QED
  BY <1>1, QueryInvariant, PTL

\* expand_graph returns at most max_nodes hits, no chunk twice, no seed, and depths that
\* only grow, for every graph and whatever is published between its statements.
THEOREM ExpansionsAreBounded == QuerySpec => []ExpansionBounded
<1>1. QueryInv => ExpansionBounded
  BY GraphInvBounded DEF QueryInv
<1> QED
  BY <1>1, QueryInvariant, PTL

\* An expansion that no import disturbed found what is nearest, at its distance, with the
\* score of the best seed, and left out only what was behind when it was full.
THEOREM ExpansionsAreShortest == QuerySpec => []ExpansionIsShortest
<1>1. QueryInv => ExpansionIsShortest
  BY GraphInvShortest DEF QueryInv
<1> QED
  BY <1>1, QueryInvariant, PTL

\* What was found is cited or reported as omitted, in order, and omitted only once the
\* context is spent: for every size of a chunk and every merge of seeds and graph hits.
THEOREM FoundIsCitedOrOmitted == QuerySpec => []CitedOrOmitted
<1>1. QueryInv => CitedOrOmitted
  BY DEF QueryInv, FoundInv, BudgetInv, IsBudget, CitedOrOmitted
<1> QED
  BY <1>1, QueryInvariant, PTL

\* With the policy behind retrieval, expansion and budget, a model server is sent only
\* chunks that the policy looked at, and only if it may see them.
THEOREM CheckedBeforeSent == QuerySpec => SentWasChecked
<1>1. ASSUME QueryInv, [QueryNext]_queryVars, PolicyIsLast, NEW t \in sent' \ sent
      PROVE  /\ t.chunks \subseteq t.checked
             /\ Profile[t.server] # Unprofiled
             /\ Requirement(t.checked) \subseteq Profile[t.server]
             /\ t.server \in External => setting.external /\ setting.subject
  <2>1. CallModel
    BY <1>1 DEF QueryNext, Act, Load, Run, Reply, Raise, Quiet, Import, Pass, FollowText,
       LoopGuard, SetVariables, Retrieve, SkipExpansion, StartExpansion, ExpandLevel,
       MergeExpansion, ManageContextBudget, RequireEvidence, EnforceModelTransmissionPolicy,
       EnforceOn, queryVars, contextVars, modelVars
  <2>2. /\ phase = "running" /\ policy.allowed
        /\ \E chunks \in {evidence.chunks, evidence.chunks \cup texts} :
              t = [server |-> model, chunks |-> chunks, checked |-> policy.nodes]
    BY <1>1, <2>1 DEF CallModel, Executing, Running
  <2>3. /\ BudgetIsLast /\ CopiesAreCurrent /\ LastRun(Budgets) < LastRun(Policies)
    BY <1>1 DEF PolicyIsLast, Budgets, Policies
  <2>4. Permits(model, policy.nodes) /\ policy.nodes = NodesOf(hits)
    BY <1>1, <2>2, <2>3 DEF QueryInv, PolicyInv
  <2>5. evidence.chunks \cup texts \subseteq NodesOf(hits)
    BY <1>1, <2>2, <2>3 DEF QueryInv, TextInv
  <2>6. t.server = model /\ t.checked = policy.nodes /\ t.chunks \subseteq evidence.chunks \cup texts
    BY <2>2
  <2> QED
    BY <2>4, <2>5, <2>6 DEF Permits
<1>2. QueryInv /\ [QueryNext]_queryVars =>
        (PolicyIsLast =>
           \A t \in sent' \ sent :
             /\ t.chunks \subseteq t.checked
             /\ Profile[t.server] # Unprofiled
             /\ Requirement(t.checked) \subseteq Profile[t.server]
             /\ t.server \in External => setting.external /\ setting.subject)
  BY <1>1
<1> QED
  BY <1>2, QueryInvariant, PTL DEF QuerySpec, SentWasChecked
==============================================================================
