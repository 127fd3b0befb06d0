CONSTANTS
    MaxTurns = 3
    None = None
    Obliging = TRUE

SPECIFICATION Spec

INVARIANTS
    TypeOK
    NoLostSettle
    UninterruptedIsOwn

PROPERTY
    InterruptSettles

CHECK_DEADLOCK FALSE
