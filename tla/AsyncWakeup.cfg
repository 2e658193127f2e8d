SPECIFICATION FairSpec
CONSTANTS
    i1 = i1
    i2 = i2
    Importers <- TwoImporters
    Archive = TRUE
    MayCancel = TRUE
    MayFail = TRUE
INVARIANTS
    CloseIsSafe
PROPERTIES
    RowsEventuallySelected
    CloseEnds
CHECK_DEADLOCK FALSE
