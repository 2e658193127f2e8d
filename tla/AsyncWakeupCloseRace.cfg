SPECIFICATION FairSpec
CONSTANTS
    i1 = i1
    i2 = i2
    Importers <- OneImporter
    Archive = TRUE
    MayCancel = FALSE
    MayFail = FALSE
PROPERTY
    CloseReturns
CHECK_DEADLOCK FALSE
