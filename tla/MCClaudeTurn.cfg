CONSTANTS
    MaxTurns = 3
    None = None

SPECIFICATION Spec

INVARIANTS
    TypeOK
    SameTurn
    OneConversation

PROPERTIES
    ImplementsContract

CHECK_DEADLOCK FALSE
