SPECIFICATION QuerySpec
CONSTANTS
    a = a  b = b
    v1 = v1  v2 = v2
    remote = remote  local = local  other = other
    None = None
    Missing = Missing
    Unprofiled = Unprofiled
    StepId <- MCStepId
    Action <- Actions
    Route <- MCRoute
    StateName <- States
    InitialState <- StartState
    Requires <- RequiresOf
    Provides <- ProvidesOf
    Router <- Routers
    Definition <- MCDefinition
    Source = {a, b}
    Version = {v1, v2}
    ChunkId = {1, 2, 3}
    Holds <- MCHolds
    Link <- MCLink
    Published <- MCPublished
    Republished <- MCRepublished
    Visible <- MCVisible
    Score <- MCScore
    Relevance <- MCRelevance
    Share <- MCShare
    Place <- MCPlace
    MaxDepth = 2
    MaxNodes = 2
    Direction = "both"
    Size <- MCSize
    Label = {"secret"}
    Labels <- MCLabels
    TopK = 2
    MaxContext = 2
    Server = {remote, local, other}
    External = {remote}
    FirstServer = other
    Profile <- MCProfile
    Reroute <- MCReroute
    Setting <- MCSetting
    MaxLoops = 1
INVARIANTS
    QueryTypeOK
    AcceptedRunsAreBounded
    StateIsAvailable
    CitedOrOmitted
    ExpansionBounded
    ExpansionIsShortest
PROPERTIES
    FollowsPipeline
    SentWasChecked
