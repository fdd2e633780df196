SPECIFICATION Spec
CONSTANTS
    k1 = k1  k2 = k2  p1 = p1  p2 = p2
    NoPassword = NoPassword
    Calls = {k1, k2}
    Passwords = {p1, p2}
    MaxAttempts = 1
    MaxCodes <- MCMaxCodes
INVARIANT TypeOK
INVARIANT AcceptedWasRight
INVARIANT AttemptsBounded
INVARIANT FewLiveCodes
SYMMETRY MCSymmetry
