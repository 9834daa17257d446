SPECIFICATION FairSpec
CONSTANTS
    t1 = t1
    t2 = t2
    t3 = t3
    Threads = {t1, t2, t3}
    Upgraders = {t1}
    MaxNest = 2
INVARIANTS Exclusion NoLostWakeup ReentryNeverSleeps
PROPERTIES ImplementsRWLock WaitersDrain
