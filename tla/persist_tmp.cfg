CONSTANTS
    a = a
    b = b
    Db = {a, b}
    Tmp <- SameStem
    Modes = {"Always", "Never"}
    Pages = 2
    MaxSaves = 2
    MaxCrashes = 0
SPECIFICATION Spec
INVARIANT FileWhole
CHECK_DEADLOCK FALSE
