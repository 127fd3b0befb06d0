CONSTANTS
    MaxTurns = 2
    None = None
    Agents = {"claude", "codex", "opencode", "pi"}
    MaxMessages = 2
    MaxPieces = 3
    MaxAsks = 2

SPECIFICATION Spec

INVARIANTS
    TypeOK
    TurnShown
    Answerable

CHECK_DEADLOCK FALSE
