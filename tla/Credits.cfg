SPECIFICATION Safety
CONSTANTS
    p1 = p1
    p2 = p2
    q1 = q1
    q2 = q2
    Replicas = {p1, p2}
    Requests = {q1, q2}
    Seed = 2
    MaxCost = 2
    MaxSpent = 5
    MaxCuts = 1
    MaxRestarts = 1
    MaxTopUps = 1
SYMMETRY MCSymmetry
INVARIANTS
    SpendConserved
    OverspendBounded
    FundedIsServed
