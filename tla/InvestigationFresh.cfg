SPECIFICATION Safety
CONSTANTS
    TraceJobs = {t1}
    CallJobs = {c1}
    Capacity = 2
    NumDelays = 2
    MaxInputs = 2
    MaxReports = 2
    MaxChanges = 0
INVARIANT FreshGeneration
CHECK_DEADLOCK FALSE
