SPECIFICATION Spec

CONSTANTS
    Writers = {w1, w2}
    Keys = {k1}
    Contents = {"c1"}
    Versions = {1, 2}
    Streams = {s1, s2}
    Subs = {p1, p2}
    InvalidQueue = {}
    Fingerprints = {f1, f2}
    Serialized = FALSE
    Fabricate = FALSE
    MaxBatch = 1
    MaxRevision = 2
    MaxCommits = 3
    MaxClock = 0
    w1 = w1
    w2 = w2
    w3 = w3
    k1 = k1
    k2 = k2
    s1 = s1
    s2 = s2
    p1 = p1
    p2 = p2
    f1 = f1
    f2 = f2
    VersionOf <- VersionPerContent
    StreamOf <- StreamPerKey
    SubStream <- SubStreams
    SubKinds <- Kinds
    FingerprintOf <- TwoBuilds

CHECK_DEADLOCK FALSE

PROPERTIES
    HeadNeverRewinds
