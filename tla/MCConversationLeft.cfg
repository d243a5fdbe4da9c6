SPECIFICATION Spec
CONSTANTS
    first = first  again = again  other = other  fresh = fresh
    r1 = r1  r2 = r2
    chat = chat  created = created
    None = None
    Execution = {first, other, fresh}
    RequestId = {r1, r2}
    Conversation = {chat, created}
    requestOf <- MCRequestOf
    target <- MCTarget
    Creating <- MCCreating
    Ending <- MCEnding
    Faults = FALSE
INVARIANTS
    NoTurnLeftStarted
