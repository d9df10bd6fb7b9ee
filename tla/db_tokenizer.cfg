CONSTANTS
    NegativeZeroSum = FALSE
    Lower <- MCLower
    Statements <- TokenizerStatements
    OptionSet <- OneWhitespace
    FileBacked = TRUE
    PersistFaults = TRUE
    Restarts = TRUE
    Streams = {}
    LogFaults = {}
    MaxTables = 1
    MaxRowId = 3
    MaxLog = 1
SPECIFICATION Spec
INVARIANT FullTextExact
