SPECIFICATION FairSpec
CONSTANTS
    f1 = f1
    f2 = f2
    t1 = t1
    t2 = t2
    Files = {f1}
    Torrents = {t1, t2}
    Contains <- SharedContent
    Archivable = {t1}
INVARIANTS
    ContentKept
PROPERTIES
    ArchiveIdKept
    EventuallyArchived
