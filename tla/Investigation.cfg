SPECIFICATION Spec
CONSTANTS
    TraceJobs = {t1}
    CallJobs = {c1}
    Capacity = 1
    NumDelays = 2
    MaxInputs = 2
    MaxReports = 2
    MaxChanges = 1
INVARIANTS LedgerTypeOK RunningIsClaimed PointerMatchesFlag RetriesAreBounded
PROPERTIES ReportsOnlyImprove JobsSettle
CHECK_DEADLOCK FALSE
