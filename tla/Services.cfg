SPECIFICATION MCSpec
CONSTANTS
    Keys = {own, guest}
    Own = own
    MaxStates = 3
    MaxRuns = 3
    Configs = {c1, c2}
    Touchers = {r1, r2}
    MaxCuts = 2
    t1 = t1
    x1 = x1
    x2 = x2
    a1 = a1
    Content = {t1}
    Titles = {x1, x2}
    Archives = {a1}
    Fits <- MCFits
    RecordsOf <- MCRecordsOf
    MaxAssigned = 2
    MaxStops = 1
INVARIANTS
    
    
    MarkedIsImported
PROPERTIES
    RevocationTakesEffect
    PatchedTitleStays
CHECK_DEADLOCK FALSE
