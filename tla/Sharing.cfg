SPECIFICATION Spec
CONSTANTS
    u1 = u1  u2 = u2  u3 = u3  k1 = k1  k2 = k2
    Nobody = Nobody
    Users = {u1, u2, u3}
    Calls = {k1, k2}
    Founders = {u1}
    Named = {u1, u2}
    MaxTokens = 1
INVARIANT TypeOK
INVARIANT OneOwner
INVARIANT RoleWasOffered
INVARIANT DoneWasAllowed
SYMMETRY MCSymmetry
