CONSTANTS
    NegativeZeroSum = FALSE
    c1 = c1
    c2 = c2
    Conn = {c1, c2}
    MaxConnections = 2
    Lower <- MCLower
    Statements <- CoreStatements
    Options <- Simple
    StoredFile <- TwoRows
    FileBacked = TRUE
    PersistFaults = FALSE
    Restarts = FALSE
    NameExtends = {}
    Streams = {}
    LogFaults = {}
    MaxTx = 2
    MaxRowId = 3
    MaxLog = 1
SPECIFICATION Spec
INVARIANT NoOrphanLocks
SYMMETRY ConnSymmetry
