CONSTANTS
    NegativeZeroSum = FALSE
    c1 = c1
    c2 = c2
    Conn = {c1, c2}
    MaxConnections = 2
    Lower <- MCLower
    Statements <- KeyStatements
    Options <- Simple
    StoredFile <- TwoFloats
    FileBacked = TRUE
    PersistFaults = TRUE
    Restarts = TRUE
    NameExtends = {}
    Streams = {}
    LogFaults = {}
    MaxTx = 2
    MaxRowId = 3
    MaxLog = 1
SPECIFICATION Spec
INVARIANTS TypeOK LocksHeld LocksRecorded LocksExclusive WriteSetLocked ReservedOnce FileIsCommitted CatalogsConsistent
PROPERTIES CommitMergesLocked NewRowsTakeNewIds
SYMMETRY ConnSymmetry
