SPECIFICATION FairSpec
CONSTANTS
    a1 = a1
    a2 = a2
    a3 = a3
    a4 = a4
    a5 = a5
    Address = {a1, a2, a3}
    MaxQueueSize = 1
    MaxExecTrials = 3
    Outcomes = {"Lobby", "Failed"}
    MaySoftEnd = FALSE
    MayBeDestroyed = TRUE
CHECK_DEADLOCK FALSE
PROPERTY OwnThreadEnds
