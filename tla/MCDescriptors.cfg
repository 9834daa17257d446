SPECIFICATION FairSpec
CONSTANTS
    h1 = h1
    h2 = h2
    a1 = a1
    a2 = a2
    Hosts = {h1, h2}
    Admins = {a1}
    MaxNumber = 12
    MaxLaunches = 2
    MayFailToFork = TRUE
CHECK_DEADLOCK FALSE
CONSTRAINT NobodyRobbed
INVARIANTS OwnEnds NothingLeaks
PROPERTY FirstIsSecondClose NothingElseBlocks
