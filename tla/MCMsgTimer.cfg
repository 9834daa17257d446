CONSTANTS
    g1 = g1
    g2 = g2
    Games <- MCGames
    MaxMessages = 2
    MaxTime = 3
    Delays <- MCDelays
    MayBeInvalid = TRUE
SPECIFICATION FairSpec
INVARIANTS
    EveryMessageAccounted
    NoDeadRecipient
    AlarmUpToDate
CHECK_DEADLOCK FALSE
PROPERTY NothingElseDelays
