SPECIFICATION FairSpec
CONSTANTS
    a1 = a1
    a2 = a2
    a3 = a3
    a4 = a4
    a5 = a5
    Address = {a1, a2, a3, a4, a5}
    MaxQueueSize = 2
    MaxExecTrials = 3
    Outcomes = {"Lobby", "Load", "Run", "Failed"}
    MaySoftEnd = TRUE
    MayBeDestroyed = TRUE
CHECK_DEADLOCK FALSE
INVARIANTS OneOwner GamePointerValid GivesUpOnStreak FaultsHaveCauses
PROPERTY SoftEndWorks
