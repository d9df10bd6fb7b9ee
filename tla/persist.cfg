CONSTANTS
    a = a
    b = b
    Db = {a, b}
    Tmp <- DistinctStems
    Modes = {"Always", "Never"}
    Pages = 2
    MaxSaves = 2
    MaxCrashes = 2
SPECIFICATION Spec
INVARIANTS TypeOK FileWhole MemoryIsStored SavedIsStored
CHECK_DEADLOCK FALSE
CONSTRAINT OneNever
SYMMETRY DbSymmetry
