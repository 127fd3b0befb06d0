\* Two requests in flight: any of resume (twice, too), prompt, setModel, close and delete overlap.
SPECIFICATION Spec
CONSTANTS
    None = None
    d1 = d1
    d2 = d2
    m1 = m1
    m2 = m2
    low = low
    Ids = {i1, i2}
    Instances = {a1, a2}
    Requests = {c1, c2}
    Cwds = {d1, d2}
    DefaultCwd = None
    Home = d2
    Models = {m1}
    Levels = {low}
    CreateConfigs <- MCCreateConfigs
    StoredRows <- MCStoredRows
SYMMETRY Symmetry
CHECK_DEADLOCK FALSE
INVARIANTS
    TypeOK
    LoadedIsOpen
    SingleTurn
    HandlePersisted
    NoOrphan
    TurnReachable
    ModelPersisted
