SPECIFICATION Spec

CONSTANTS
    Processes = {old, new}
    Keys = {k1}
    Contents = {"c1", "c2"}
    Unreadable = {"c2"}
    MaxBatch = 2
    MaxRevision = 2
    MaxCalls = 3
    MaxDepth = 2
    old = old
    new = new
    k1 = k1
    all = all
    changes = changes
    Subs <- Declared
    Kinds <- TwoKinds
    OnError <- TwoModes
    Version <- TwoVersions

CHECK_DEADLOCK FALSE

INVARIANTS
    EveryHandlerRuns
