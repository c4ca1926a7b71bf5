CONSTANTS
    r1 = r1
    r2 = r2
    w1 = w1
    h1 = h1
    t1 = t1
    t2 = t2
    Runs = {r1, r2}
    tenants <- MCTenants
    WorkOf <- MCWorkOf
    HolderOf <- MCHolderOf
    WorkIDs = {w1}
    HolderIDs = {h1}
    NoHolder = NoHolder
    States <- MCStates
    NoState = NoState
    EmptyFinal = EmptyFinal
    Finals <- MCFinals
    WorkErrs = {"ErrRetire", "ErrFenced", "an error of WorkFn"}
    TokenSpace = {1, 2}
SYMMETRY Symmetry
SPECIFICATION MigrationSpec
INVARIANTS CursorIsTrue RetiredIsComplete ListedIsNotRedone
CHECK_DEADLOCK FALSE
