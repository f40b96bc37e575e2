SPECIFICATION Spec

CONSTANTS
    Fields = {"f"}
    Values = {one, true, two}
    Intervals = {2, 3, 4}
    MaxRevision = 4
    one = one
    true = true
    two = two
    Lax <- OneIsTrue
    Number <- Numbers
    Predicates <- MCPredicates
    Depth <- MCDepth
    Subs <- MCPredicates
    When <- MCWhen

CHECK_DEADLOCK FALSE

INVARIANTS
    EveryRowDecodes
    MultiplesDecode
    HeadIsDerived
    ScansAgree

PROPERTIES
    RefusedForCause
