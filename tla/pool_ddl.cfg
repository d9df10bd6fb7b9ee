CONSTANTS
    NegativeZeroSum = FALSE
    c1 = c1
    c2 = c2
    Conn = {c1, c2}
    MaxConnections = 2
    Lower <- MCLower
    Statements <- DdlStatements
    Options <- Simple
    StoredFile <- PlainTable
    FileBacked = TRUE
    PersistFaults = FALSE
    Restarts = FALSE
    NameExtends = {}
    Streams = {"redo", "bin"}
    LogFaults = {}
    MaxTx = 1
    MaxRowId = 1
    MaxLog = 4
SPECIFICATION Spec
INVARIANTS CatalogsConsistent RedoBalanced
PROPERTIES DefinitionsKept
SYMMETRY ConnSymmetry
