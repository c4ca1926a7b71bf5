SPECIFICATION Spec
CONSTANTS
    c1 = c1
    c2 = c2
    h1 = h1
    h2 = h2
    WorkIDs = {w1}
    HolderIDs = {h1, h2}
    NoHolder = NoHolder
    States = {x}
    NoState = NoState
    Conns = {c1, c2}
    Unit = 2
    TTL = 5
    Retention = 1
    Ops = {"checkpoint", "renew", "release", "forget"}
    Modes = {"retired"}
    Grace = 1
    MaxDelay = 3
    MaxTime = 4
    MaxSeq = 3
SYMMETRY Symmetry
INVARIANTS HandoffIsImmediate
CHECK_DEADLOCK FALSE
