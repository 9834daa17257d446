SPECIFICATION FairSpec
CONSTANTS
    MaxExecTrials = 2
    LaunchMayFail = FALSE
    FloodMayHappen = FALSE
    MayBeDestroyed = TRUE
CHECK_DEADLOCK FALSE
PROPERTY StoppedThreadEnds
