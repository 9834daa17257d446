SPECIFICATION FairSpec
CONSTANTS
    MaxExecTrials = 3
    LaunchMayFail = TRUE
    FloodMayHappen = TRUE
    MayBeDestroyed = TRUE
CHECK_DEADLOCK FALSE
INVARIANTS LocksBalanced AttemptsBounded OneLateStart OutcomeTold OutlivesControl FaultsHaveCauses
PROPERTIES StatusSteps StartReturns
