SPECIFICATION Safety
SYMMETRY MCSymmetry
CONSTANTS
    p1 = p1
    p2 = p2
    r1 = r1
    r2 = r2
    s503 = s503
    s400 = s400
    Providers = {p1, p2}
    Requests = {r1, r2}
    OrgRequests = {}
    FailureThreshold = 1
    SuccessThreshold = 1
    Cooldown = 1
    MaxAttempts = 2
    MaxRetries = 1
    Statuses = {s503, s400}
    RetryCodes = {s503}
    FailoverCodes = {s503}
    BreakerCodes = {s503}
    RetryOnTimeout = FALSE
    FailoverOnTimeout = TRUE
    AttemptTimeout = TRUE
INVARIANTS
    ResultOrError
