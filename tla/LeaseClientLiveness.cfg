CONSTANTS
    s1 = s1
    s2 = s2
    h1 = h1
    Sessions = {s1}
    HolderOf <- MCOneSession
    Work = w1
    WorkIDs = {w1}
    HolderIDs = {h1}
    NoHolder = NoHolder
    States = {}
    NoState = NoState
    TTL = 2
    Modes = {"retired", "none"}
    Offset = 3
    Retentions = {1}
    Grace = 1
    MaxStall = 0
    MaxTime = 4
    MaxSeq = 1
SPECIFICATION FairSpec
PROPERTIES StopRenewalReturns LossIsSignalled
CHECK_DEADLOCK FALSE
