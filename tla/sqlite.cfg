SPECIFICATION PoolSpec

CONSTANTS
    Writers = {w1, w2}
    Keys = {k1}
    Contents = {"c1", "c2"}
    Versions = {1}
    Streams = {s1}
    Subs = {p1}
    InvalidQueue = {}
    Fingerprints = {f1}
    Serialized = FALSE
    Fabricate = TRUE
    MaxBatch = 1
    MaxRevision = 2
    MaxCommits = 5
    MaxClock = 0
    MaxFailures = 1
    w1 = w1
    w2 = w2
    k1 = k1
    s1 = s1
    p1 = p1
    f1 = f1
    VersionOf <- OneVersion
    StreamOf <- OneStream
    SubStream <- SubStreams
    SubKinds <- Kinds
    FingerprintOf <- OneBuild

CHECK_DEADLOCK FALSE

INVARIANTS
    HeadIsLatest

PROPERTIES
    LatestBaseWins
    BehavesLikeFile
    ConnectionComesBack
