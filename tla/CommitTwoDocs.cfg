SPECIFICATION FairSpec
CONSTANTS
    d1 = d1  d2 = d2  ed = ed  vw = vw  a = a  b = b
    r1 = r1  r2 = r2  r3 = r3  i1 = i1  i2 = i2
    Nobody = Nobody
    Docs = {d1, d2}
    Users = {ed, vw}
    OpIds = {a, b}
    Requests = {r1, r2}
    Instances = {i1}
    PoolSize = 2
    InstanceOf <- MCOneInstance
    Pushes <- MCPushesTwoDocs
    RoleOf <- MCRoleOf
INVARIANT TypeOK
INVARIANT LogWellFormed
INVARIANT LockHeldByOpenTransaction
INVARIANT AcksMatchLog
PROPERTY ImplementsSyncLog
PROPERTY EveryPushEnds
