SPECIFICATION Safety
CONSTANTS
    Ids = {1}
    MaxInflight = 2
    MaxTokens = 2
    MaxLapses = 0
    LateAccepts = TRUE
INVARIANTS OneReader
CHECK_DEADLOCK FALSE
