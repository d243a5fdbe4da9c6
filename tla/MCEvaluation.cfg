SPECIFICATION Spec
CONSTANTS
    g1 = g1  g2 = g2
    small = small  large = large
    public = public  internal = internal
    None = None
    Absent = Absent  Empty = Empty  Foreign = Foreign  Remains = Remains
    Importer = Importer  Executor = Executor  Analyzer = Analyzer
    Generator = {g1, g2}
    Dataset = {small, large}
    makes <- MCMakes
    Overwriting = {g1, g2}
    config <- MCConfig
    SecurityValues <- MCSecurityValues
    Domain = {0, 1}
    Tenant = {0, 1}
    Label = {public, internal}
    Teams <- MCTeams
    Held = {public, internal}
    Outcomes <- MCOutcomes
    Thresholds <- MCThresholds
INVARIANTS
    LatestIsThere
    ResultsAreWhole
    PublishedIsUsable
    RecallsCompete
    ReportsAreTrue
