SPECIFICATION Spec
CONSTANTS
    Writers = {w1, w2}
    Keys = {a, b}
    Backends <- MCBackends
    MaxRevision = 1
    MaxXid = 4
    MaxRestores = 1
INVARIANTS
    ScanIsWhole
PROPERTY
    EverythingIsRead
CHECK_DEADLOCK FALSE
