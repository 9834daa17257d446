SPECIFICATION Spec
CONSTANTS
    a1 = a1
    a2 = a2
    a3 = a3
    a4 = a4
    a5 = a5
    Address = {a1, a2, a3, a4}
    MaxQueueSize = 2
    MaxExecTrials = 3
    Outcomes = {"Run"}
    MaySoftEnd = FALSE
    MayBeDestroyed = FALSE
CHECK_DEADLOCK FALSE
INVARIANT QueueOwnsItsScenarios
