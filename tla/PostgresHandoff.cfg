SPECIFICATION Spec
CONSTANTS
    c1 = c1
    c2 = c2
    h1 = h1
    h2 = h2
    WorkIDs = {w1}
    HolderIDs = {h1, h2}
    NoHolder = NoHolder
    States = {}
    NoState = NoState
    Conns = {c1, c2}
    Unit = 2
    TTL = 3
    Retention = 1
    Ops = {"checkpoint", "renew", "release"}
    Modes = {"retired", "finished"}
    Grace = 1
    MaxDelay = 1
    MaxTime = 2
    MaxSeq = 3
SYMMETRY Symmetry
INVARIANTS HandoffIsImmediate ShortfallIsBounded AnswersAreTrue ReadsAreTrue
PROPERTIES ImplementsContract
CHECK_DEADLOCK FALSE
