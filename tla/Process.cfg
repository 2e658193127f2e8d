SPECIFICATION MCSpec
CONSTANTS
    Workers = {w1, w2}
    Workloads = {x1, x2, x3, x4}
    Backlog = 1
    MayCancel = TRUE
    Seeds = {s1, s2}
    Unlisted = {s2}
    Announcers = {a1, a2}
    AnnounceQueue = 1
    MaxToggles = 2
    MaxMisses = 1
INVARIANTS
    ShutdownComplete
    FailureReported
PROPERTIES
    CallsReturn
    SeededIsAnnounced
    StopsAreReported
