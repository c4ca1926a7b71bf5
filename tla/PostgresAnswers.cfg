SPECIFICATION Spec
CONSTANTS
    c1 = c1
    c2 = c2
    h1 = h1
    h2 = h2
    WorkIDs = {w1}
    HolderIDs = {h1}
    NoHolder = NoHolder
    States = {x}
    NoState = NoState
    Conns = {c1, c2}
    Unit = 2
    TTL = 1
    Retention = 1
    Ops = {"checkpoint", "release", "sweep", "forget"}
    Modes = {"expired"}
    Grace = 1
    MaxDelay = 2
    MaxTime = 2
    MaxSeq = 3
SYMMETRY Symmetry
INVARIANTS TypeOK AnswersAreTrue ReadsAreTrue
CHECK_DEADLOCK FALSE
