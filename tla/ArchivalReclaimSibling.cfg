SPECIFICATION Spec
CONSTANTS
    f1 = f1
    f2 = f2
    t1 = t1
    t2 = t2
    Files = {f1, f2}
    Torrents = {t1}
    Contains <- TwoFiles
    Archivable = {t1}
PROPERTY
    ReclaimOnlyArchived
