SPECIFICATION Spec
CONSTANTS
    t1 = t1  t2 = t2
    old = old  new = new
    None = None
    Thread = {t1, t2}
    Key = {old, new}
    TTL = 1
    MaxDuration = 1
    MaxTime = 4
    MaxRotations = 2
SYMMETRY Interchangeable
INVARIANTS
    KnownIsFound
PROPERTIES
    NoStaleKey
