CONSTANTS
    Files = {live, copy}
    Live = live
    HeadSize = 1
    TailSize = 3
    Huge = 5
    TitlePeriod = 2
    MaxLines = 5

SPECIFICATION ScanSpec

INVARIANTS
    ScanTypeOK
    ConversationFound
    TitleIsLatest

CHECK_DEADLOCK FALSE
