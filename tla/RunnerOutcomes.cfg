CONSTANTS
    r1 = r1
    r2 = r2
    w1 = w1
    h1 = h1
    Runs = {r1, r2}
    WorkOf <- MCWorkOf
    HolderOf <- MCHolderOf
    WorkIDs = {w1}
    HolderIDs = {h1}
    NoHolder = NoHolder
    States = {"a"}
    NoState = NoState
    EmptyFinal = EmptyFinal
    Finals = {"a", NoState, EmptyFinal}
    WorkErrs = {"nil", "ErrRetire", "ErrFenced", "an error of WorkFn"}
    TokenSpace = {1, 2}
SYMMETRY Symmetry
SPECIFICATION Spec
INVARIANTS NilMeansRecorded RecordedSuccessIsComplete LostRunsDeclareNothing FencedIsTrue WorkErrorSurvives
CHECK_DEADLOCK FALSE
