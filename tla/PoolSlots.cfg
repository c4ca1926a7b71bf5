CONSTANTS
    r1 = r1
    r2 = r2
    r3 = r3
    w1 = w1
    w2 = w2
    h1 = h1
    Runs = {r1, r2}
    Slots = {r1, r2}
    WorkOf <- MCWorkOf
    HolderOf <- MCHolderOf
    WorkErrs = {"nil", "ErrRetire", "an error of WorkFn", "a PermanentError of WorkFn"}
    WorkIDs = {w1, w2}
    HolderIDs = {h1}
    NoHolder = NoHolder
    States = {}
    NoState = NoState
    EmptyFinal = EmptyFinal
    Finals = {NoState, EmptyFinal}
    TokenSpace = {1, 2}
SPECIFICATION PoolSpec
INVARIANTS PoolTypeOK ResultIsTrue RetiredIsRecorded RunWaitsForCleanup
CHECK_DEADLOCK FALSE
