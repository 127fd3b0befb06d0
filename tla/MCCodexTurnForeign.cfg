CONSTANTS
    MaxTurns = 3
    None = None
    Obliging = TRUE

SPECIFICATION Spec

INVARIANT CompletedIsOwn

CHECK_DEADLOCK FALSE
