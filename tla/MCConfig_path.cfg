SPECIFICATION Spec
CONSTANTS
    a = a
    b = b
    c = c
    d = d
    w1 = w1
    w2 = w2
    Workers = {w1, w2}
    Scenarios = {a, b, c, d}
    Chance <- MCChance
    Rounding = 0
    Databases <- Sound
    FetchMayFail = FALSE
    MaxReloads = 2
    MaxLeaks = 1
CHECK_DEADLOCK FALSE
INVARIANT PathInRange
