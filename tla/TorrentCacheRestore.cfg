SPECIFICATION FairSpec
CONSTANTS
    r1 = r1
    r2 = r2
    m1 = m1
    TReaders = {r1, r2}
    MReaders = {}
    Last = 0
    CellsOf <- OneBlock
    Requests <- Within
    MayPeer = FALSE
    MayReclaim = TRUE
INVARIANTS
    BlockedNeverDownloads
    RestoredOnce
PROPERTY
    ReadsReturn
