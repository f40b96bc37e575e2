SPECIFICATION Spec
CONSTANTS
    Aggregates <- MCAggregates
    MaxRevision = 1
    MaxTime = 1
    Builds = {1, 3}
    Limits = {1, 2}
    IntentId <- MCIntentId
INVARIANTS
    TraversalsAreWhole
    ChainsReachDeclared
CHECK_DEADLOCK FALSE
