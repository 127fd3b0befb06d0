CONSTANTS
    MaxTurns = 3
    MaxRequests = 5
    None = None

SPECIFICATION Spec

INVARIANTS
    TypeOK
    SameTurn
    OwnOutcome

PROPERTIES
    EndSettles
    ImplementsContract

CHECK_DEADLOCK FALSE
