SPECIFICATION FairSpec
CONSTANTS
    a = a
    b = b
    c = c
    d = d
    w1 = w1
    w2 = w2
    Workers = {w1}
    Scenarios = {a, b, c, d}
    Chance <- MCChance
    Rounding = 1
    Databases <- MCDatabases
    FetchMayFail = TRUE
    MaxReloads = 2
    MaxLeaks = 1
CHECK_DEADLOCK FALSE
INVARIANTS TypeOK TableConsistent FirstLoadFaults HostsTheChosen
PROPERTY ReloadEnds
