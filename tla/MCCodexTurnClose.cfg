CONSTANTS
    MaxTurns = 1
    None = None
    Obliging = TRUE

SPECIFICATION Spec

PROPERTY CloseSettles

CHECK_DEADLOCK FALSE
