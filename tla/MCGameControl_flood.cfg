SPECIFICATION Spec
CONSTANTS
    MaxExecTrials = 3
    LaunchMayFail = FALSE
    FloodMayHappen = TRUE
    MayBeDestroyed = FALSE
CHECK_DEADLOCK FALSE
INVARIANT NoNullClonk
