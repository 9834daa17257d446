SPECIFICATION FairSpec
CONSTANTS
    a1 = a1
    a2 = a2
    g1 = g1
    g2 = g2
    Admins = {a1, a2}
    Games = {g1, g2}
    MaySoftEnd = TRUE
    MayStop = TRUE
CHECK_DEADLOCK FALSE
INVARIANTS OnlyTheWindow LocksPaired
PROPERTY GamePinned CommandsEnd
