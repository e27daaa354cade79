SPECIFICATION FilesSpec
CONSTANTS
    s1 = s1
    s2 = s2
    w1 = w1
    w2 = w2
    n = n
    d = d
    Sessions = {s1, s2}
    Workers = {w1, w2}
    SessionOf <- MCSessionOf
    Owner = owner
    Names = {n, d}
    Fresh = {f}
    Attrs = {"mode", "size"}
    Modes = {"RO", "RW", "WO", "WOPlus"}
    Requests <- MCRequests
    OwnFile = n
    OwnDir = d
    MaxInodes <- MCMaxInodes
INVARIANTS
    OnlyOwnAdjusted
    AnswersHideOthers
PROPERTIES
    NothingLost
CHECK_DEADLOCK FALSE
