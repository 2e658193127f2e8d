SPECIFICATION FairSpec
CONSTANTS
    w1 = w1
    w2 = w2
    d1 = d1
    x1 = x1
    x2 = x2
    Workers = {w1, w2}
    Workloads = {d1, x1, x2}
    Directories = {d1}
    Backlog = 1
    MayCancel = TRUE
    MayStop = TRUE
INVARIANTS
    NoSendOnClosed
    ResultsComplete
PROPERTIES
    PoolSpec
    SequenceEnds
CHECK_DEADLOCK FALSE
