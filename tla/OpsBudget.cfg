SPECIFICATION Spec
CONSTANTS
    req = req  ops = ops  r1 = r1  r2 = r2
    Keys = {req, ops}
    OpsKeys = {ops}
    Requests = {r1}
    Limit <- MCOpsLimit
    Window <- MCWindow
    Paths <- MCPaths
    Sizes = {2}
    Retain = 4
    MaxSkew = 1
    MaxDelay = 2
    MaxTime = 1
    MaxUpserts = 2
INVARIANT OperationsBounded
CHECK_DEADLOCK FALSE
