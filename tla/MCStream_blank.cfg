SPECIFICATION ReadSpec
CONSTANTS
    Letters = {"a", "b"}
    BufferSize = 4
    MaxInput = 5
    ReadMayFail = TRUE
CHECK_DEADLOCK FALSE
INVARIANT KeepsBlankLines
