SPECIFICATION Spec
CONSTANTS
    c1 = c1  c2 = c2  d1 = d1  u1 = u1  k1 = k1
    NoCaret = NoCaret
    Http = Http
    Conns = {c1, c2}
    Docs = {d1}
    Users = {u1}
    Carets = {k1}
    Frail = {}
    MaxSeq = 0
    UserOf <- MCUserOf
INVARIANT RoomsConsistent
INVARIANT PresenceShown
SYMMETRY MCSymmetry
