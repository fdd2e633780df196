SPECIFICATION FairSpec
CONSTANTS
    r1 = r1  r2 = r2  s1 = s1
    Requests = {r1, r2}
    Sockets = {s1}
INVARIANT TypeOK
INVARIANT NobodyWaitsAtCleanExit
INVARIANT EffectIsNeverDeadLettered
INVARIANT StreamAccounted
PROPERTY ShutdownEnds
