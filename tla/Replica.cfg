SPECIFICATION FairSpec
CONSTANTS
    c1 = c1  c2 = c2  k1 = k1  k2 = k2  u1 = u1
    ClientOf <- MCClientOf
    Clients = {c1, c2}
    Named = {c1}
    Calls = {k1, k2}
    Uploads = {u1}
    Take = 1
    MaxVersions = 2
    MaxSeq = 2
INVARIANT TypeOK
INVARIANT NoSkippedOps
INVARIANT LastPageReachesDocumentSeq
INVARIANT WatermarkHasSnapshot
PROPERTY EventuallyCaughtUp
