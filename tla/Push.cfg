SPECIFICATION Spec
CONSTANTS
    writer = writer  reader = reader  k1 = k1  k2 = k2  x = x  y = y
    a1 = a1  a2 = a2  a3 = a3
    NoRecord = NoRecord
    Attempts = {a1, a2, a3}
    Users = {writer, reader}
    Writers = {writer}
    Keys = {k1, k2}
    OpIds = {x, y}
    Unlucky = {a1, a2, a3}
    Sends <- MCSends
INVARIANT TypeOK
INVARIANT AnswerMatchesBody
INVARIANT OnlyAuthorizedAnswered
INVARIANT RetriesAgree
PROPERTY StoredResponseStable
SYMMETRY MCSymmetry
CHECK_DEADLOCK FALSE
