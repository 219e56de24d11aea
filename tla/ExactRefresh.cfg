SPECIFICATION Spec
CONSTANTS
    Ids = {1, 2}
    MaxInflight = 1
    MaxTokens = 2
    MaxLapses = 1
    LateAccepts = FALSE
INVARIANTS StateFollowsLock OneReader ScopeCapacity
PROPERTIES SnapshotsAdvance RefreshEnds
CHECK_DEADLOCK FALSE
