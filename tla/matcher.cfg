SPECIFICATION Spec
CONSTANTS
    Matchers = {m1, m2}
    Accounts = {a, b}
    Times <- MCTimes
    Window = 1
    Wanted = 2
    PageSize = 2
    MaxRows = 3
    MaxEpoch = 3
INVARIANTS
    ReplayAgrees
    StepsAreARun
PROPERTIES
    CursorNeverGoesBack
    CatchesUp
CHECK_DEADLOCK FALSE
