CONSTANTS
    f1 = f1
    f2 = f2
    h1 = h1
    h2 = h2
    Feeds = {f1, f2}
    Default = {f1}
    Broken = {f2}
    Items <- MCItems
    Hashes = {h1}
    Peers = {p1}
    Samplers = {s1}
    Finders = {w1, w2}
    PeerQueue = 1
    HashQueue = 1
    Pending = 1
    MaxBuild = 2
    MaxAttempts = 1
    MaxRequests = 2
    MaxFaults = 1
SPECIFICATION MCSpec
INVARIANTS
    FoundIsRecorded
    ChoicesKept
PROPERTIES
    DueIsDone
CHECK_DEADLOCK FALSE
