SPECIFICATION Spec
CONSTANTS
    first = first  other = other  narrower = narrower  regrouped = regrouped
    query = query  catalog = catalog
    x = x  g = g  h = h  c = c  d = d
    p1 = p1  p2 = p2  p3 = p3
    None = None
    Publisher = {first, other, narrower, regrouped}
    Bundle <- MCBundle
    Expected <- MCExpected
    Request = {query, catalog}
    Claims <- MCClaims
    Wanted <- MCWanted
    Diagnostics = {query}
    Claim = {x}
    Group = {g, h}
    CapabilityId = {c, d}
    PipelineName = {p1, p2, p3}
    MaxChanges = 2
INVARIANTS
    ChangesAreChained
    UndisturbedIsExact
    OfferedWasGranted
    AnsweredIsRecorded
PROPERTIES
    ExpectedIsReplaced
