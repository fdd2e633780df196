SPECIFICATION Spec
CONSTANTS
    req = req  ops = ops  r1 = r1  r2 = r2
    Keys = {req, ops}
    OpsKeys = {ops}
    Requests = {r1, r2}
    Limit <- MCLimit
    Window <- MCWindow
    Paths <- MCPaths
    Sizes = {1}
    Retain = 4
    MaxSkew = 1
    MaxDelay = 2
    MaxTime = 5
    MaxUpserts = 3
INVARIANT TypeOK
INVARIANT RefusedWasOverBudget
INVARIANT GrantsBounded
SYMMETRY MCSymmetry
CHECK_DEADLOCK FALSE
