SPECIFICATION Spec
CONSTANTS
    r1 = r1
    r2 = r2
    m1 = m1
    TReaders = {r1}
    MReaders = {m1}
    Last = 1
    CellsOf <- TwoBlocks
    Requests <- Across
    MayPeer = TRUE
    MayReclaim = TRUE
INVARIANTS
    HolesExplained
