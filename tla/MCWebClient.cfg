SPECIFICATION Spec
CONSTANTS
    u1 = u1  u2 = u2
    x1 = x1  x2 = x2  x3 = x3
    s1 = s1  s2 = s2
    None = None
    User = {u1, u2}
    Conv = {x1, x2, x3}
    Slot = {s1, s2}
    Capable = {u1}
    Refreshable = {u1}
    Existing <- MCExisting
    OwnerOf <- MCOwnerOf
    Limit = 2
    TurnLimit = 1
    MaxTurns = 2
    MaxEvents = 3
SYMMETRY Slots
INVARIANTS
    TypeOK
    NamedAreOwn
    AloneIsConsistent
    QuietIsUsable
