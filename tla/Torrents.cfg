CONSTANTS
    t1 = t1
    c1 = c1
    c2 = c2
    j1 = j1
    j2 = j2
    Torrents <- MCTorrents
    Clients <- MCClients
    Jobs <- MCJobs
    Size = 2
    MaxInputs = 3
    MaxFaults = 1
SPECIFICATION Spec
INVARIANTS
    DoneIsDone
    WantedIsDownloading
PROPERTIES
    DecisionsAreTheUsers
    ShelfKept
    ResumedAfterRestart
CHECK_DEADLOCK FALSE
