CONSTANTS
    s1 = s1
    w1 = w1
    w2 = w2
    o1 = o1
    c1 = c1
    Sessions = {s1}
    Cwds = {w1, w2}
    CwdOf <- MCCwdOf
    Rank <- MCRank
    Kept = {}
    Nothing = Nothing
    Opening = {o1}
    Shutting = {c1}
    MaxQueue = 1
    MaxDrops = 1

SPECIFICATION Spec

INVARIANTS
    TypeOK
    DaemonTold
    ViewTracks

PROPERTIES
    Reconnects

CHECK_DEADLOCK FALSE
