CONSTANTS
    NegativeZeroSum = FALSE
    Lower <- MCLower
    Statements <- LogStatements
    OptionSet <- OneSimple
    FileBacked = TRUE
    PersistFaults = TRUE
    Restarts = FALSE
    Streams = {"undo", "redo", "bin"}
    LogFaults = {"undo"}
    MaxTables = 2
    MaxRowId = 2
    MaxLog = 5
SPECIFICATION Spec
INVARIANTS RedoBracketed BinlogReplays UndoReverts
