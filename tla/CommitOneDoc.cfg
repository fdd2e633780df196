SPECIFICATION Spec
CONSTANTS
    d1 = d1  d2 = d2  ed = ed  vw = vw  a = a  b = b
    r1 = r1  r2 = r2  r3 = r3  i1 = i1  i2 = i2
    Nobody = Nobody
    Docs = {d1}
    Users = {ed, vw}
    OpIds = {a, b}
    Requests = {r1, r2, r3}
    Instances = {i1, i2}
    PoolSize = 1
    InstanceOf <- MCInstanceOf
    Pushes <- MCPushesOneDoc
    RoleOf <- MCBothOwn
INVARIANT SlotNeverContended
INVARIANT RetryNeverConflicts
INVARIANT RelayOfLeadingRetry
SYMMETRY MCSymmetry
