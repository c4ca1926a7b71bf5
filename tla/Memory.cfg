CONSTANTS
    WorkIDs = {w1}
    HolderIDs = {h1}
    NoHolder = NoHolder
    States = {s1}
    NoState = NoState
    TTLs = {1}
    Retentions = {1}
    Grace = 1
    MaxStall = 1
    MaxTime = 2
    MaxSeq = 3
SPECIFICATION Spec
INVARIANTS TypeOK ReadsAreTrue HandoffIsImmediate
PROPERTIES FencedForever ImplementsContract
CHECK_DEADLOCK FALSE
