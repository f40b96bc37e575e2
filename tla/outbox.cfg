SPECIFICATION FairSpec

CONSTANTS
    Workers = {w1, w2}
    Intents = {i1, i2}
    Subs = {p1, p2}
    Queues = {q1}
    MaxAttempts = 2
    Base = 2
    Factor = 2
    Cap = 1
    Lease = 0
    BatchSize = 1
    Stoppable = {w1}
    MaxCrashes = 1
    MaxRedrives = 1
    Horizon = 0
    w1 = w1
    w2 = w2
    w3 = w3
    i1 = i1
    i2 = i2
    p1 = p1
    p2 = p2
    q1 = q1
    SubOf <- Subscriptions
    KnownTo <- OldBuild
    QueueOf <- OneQueue
    Queue <- SameQueue

INVARIANTS
    Accounted
    LeasesHold

PROPERTIES
    KeepsContract
    Resolves
