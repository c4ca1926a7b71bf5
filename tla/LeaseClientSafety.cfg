CONSTANTS
    s1 = s1
    s2 = s2
    h1 = h1
    Sessions = {s1, s2}
    HolderOf <- MCSameHolder
    Work = w1
    WorkIDs = {w1}
    HolderIDs = {h1}
    NoHolder = NoHolder
    States = {}
    NoState = NoState
    TTL = 2
    Modes = {"retired", "none"}
    Offset = 3
    Retentions = {1}
    Grace = 1
    MaxStall = 0
    MaxTime = 3
    MaxSeq = 2
SYMMETRY Symmetry
SPECIFICATION Spec
INVARIANTS TypeOK WindowWithinExpiry OneOpenWindow CauseIsTrue ReleasedStaysFree
CHECK_DEADLOCK FALSE
