CONSTANTS
    g1 = g1
    g2 = g2
    Games <- MCGames
    MaxMessages = 2
    MaxTime = 3
    Delays <- MCDelays
    MayBeInvalid = FALSE
SPECIFICATION FairSpec
PROPERTY EveryMessageDone
CHECK_DEADLOCK FALSE
