\* The daemon shuts down while a session is being opened.
SPECIFICATION Spec
CONSTANTS
    None = None
    d1 = d1
    d2 = d2
    m1 = m1
    m2 = m2
    low = low
    Ids = {i1, i2}
    Instances = {a1, a2, a3}
    Requests = {c1, c2}
    Cwds = {d1}
    DefaultCwd = None
    Home = d1
    Models = {m1, m2}
    Levels = {}
    CreateConfigs <- MCCreateConfigs
    StoredRows <- MCOneStoredRow
SYMMETRY Symmetry
CHECK_DEADLOCK FALSE
INVARIANT
    ShutdownLeavesNoAgent
