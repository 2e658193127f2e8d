SPECIFICATION MCSpec
CONSTANTS
    BlockLengths = {1, 2, 3, 4}
    MaxLength = 9
    Word = 16
    Paths <- MCPaths
    Lengths = {0, 2, 3}
    MaxFiles = 3
    VfsBlockLengths = {2, 3}
    Buffers = {2, 3}
    HeaderLength = 1
    MaxCalls = 2
    CodeSets <- MCCodeSets
    Codes <- MCCodes
    MaxWraps = 2
    BodyLength = 2
    Width = 8
    Scales = {1, 3, 32, 127}
    Bounds = {1, 5, 60, 100, 127}
    MaxAttempt = 12
    Addrs = {a1, a2}
    Ports = {p1}
    MaxTries = 2
    MaxMoves = 1
    MaxFaults = 2
    Callers <- MCCallers
    MaxSteps = 3
    MaxRows = 3
    MaxBatch = 12
INVARIANTS
    BlocksAreCut
    FilesAreRead
    RetriesAreSound
    DelaysAreExact
    ReadBack
    NothingLost
PROPERTIES
    AnnouncedIsGranted
    StatementsAreDeclared
CHECK_DEADLOCK FALSE
