CONSTANTS
    MaxTurns = 2
    MaxServers = 2
    Requests = {owner, lister}
    Owner = owner
    NoServer = NoServer
    None = None

SPECIFICATION Spec

INVARIANTS
    TypeOK
    OnlyCurrentRuns
    SameTurn

PROPERTIES
    AcquireAnswered
    StopSettlesRun
    ImplementsContract

CHECK_DEADLOCK FALSE
