CONSTANTS
    WorkIDs = {"w1", "w2", "never-acquired"}
    HolderIDs = {"h-a", "h-b", "h-c", "h-other"}
    NoHolder = NoHolder
    States = {"data", "late"}
    NoState = NoState
    Gaps = {0, 1, 2, 30}
    normalTTL = 30
    expiredTTL <- MCExpired
    Hour = 60
    Nanosecond = 1
    Grace = 1
    MaxStall = 1
    MaxTime = 70
    MaxSeq = 4
SPECIFICATION Spec
INVARIANTS SuiteSucceeds
CHECK_DEADLOCK FALSE
