CONSTANTS
    NegativeZeroSum = TRUE
    Lower <- MCLower
    Statements <- CoreStatements
    OptionSet <- AllOptions
    FileBacked = TRUE
    PersistFaults = TRUE
    Restarts = TRUE
    Streams = {}
    LogFaults = {}
    MaxTables = 1
    MaxRowId = 3
    MaxLog = 1
SPECIFICATION Spec
INVARIANTS TypeOK IndexesExact FullTextExact LookupExact OrderExact FileIsCommitted
PROPERTIES NewRowsTakeNewIds FailureChangesNothing ImplementsStore
