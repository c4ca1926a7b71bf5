CONSTANTS
    r1 = r1
    r2 = r2
    r3 = r3
    w1 = w1
    w2 = w2
    h1 = h1
    Runs = {r1, r3}
    Slots = {r1}
    WorkOf <- MCWorkOf
    HolderOf <- MCHolderOf
    WorkErrs = {"nil", "a PermanentError of WorkFn"}
    WorkIDs = {w1, w2}
    HolderIDs = {h1}
    NoHolder = NoHolder
    States = {}
    NoState = NoState
    EmptyFinal = EmptyFinal
    Finals = {NoState}
    TokenSpace = {1, 2}
SPECIFICATION PoolFairSpec
PROPERTIES PoolReturns SlotTriesAgain
CHECK_DEADLOCK FALSE
