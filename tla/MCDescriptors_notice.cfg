SPECIFICATION FairSpec
CONSTANTS
    h1 = h1
    h2 = h2
    a1 = a1
    a2 = a2
    Hosts = {h1}
    Admins = {a1, a2}
    MaxNumber = 12
    MaxLaunches = 1
    MayFailToFork = FALSE
CHECK_DEADLOCK FALSE
INVARIANT NoticeToItsAdmin
