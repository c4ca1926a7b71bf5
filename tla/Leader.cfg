CONSTANTS
    e1 = e1
    e2 = e2
    h1 = h1
    Elects = {e1, e2}
    Work = w1
    WorkIDs = {w1}
    HolderIDs = {h1}
    HolderOf <- MCHolderOf
    NoHolder = NoHolder
    States = {}
    NoState = NoState
    TokenSpace = {1, 2}
SPECIFICATION FairSpec
INVARIANTS TypeOK RelinquishedIsRecorded LostIsTrue
PROPERTIES ElectReturns LossIsAnnounced
CHECK_DEADLOCK FALSE
