SPECIFICATION Spec
CONSTANTS
    c1 = c1  c2 = c2  d1 = d1  u1 = u1  k1 = k1
    NoCaret = NoCaret
    Http = Http
    Conns = {c1}
    Docs = {d1}
    Users = {u1}
    Carets = {}
    Frail = {c1}
    MaxSeq = 2
    UserOf <- MCUserOf
INVARIANT TypeOK
INVARIANT NoGapAfterJoin
INVARIANT GoneByNextSweep
