SPECIFICATION RebuildSpec

CONSTANTS
    Writers = {w1, w2}
    Keys = {k1, k2}
    Contents = {c1, c2}
    c1 = c1
    c2 = c2
    Versions = {1}
    Streams = {s1}
    Subs = {}
    InvalidQueue = {}
    Fingerprints = {f1}
    Serialized = FALSE
    Fabricate = FALSE
    MaxBatch = 1
    MaxRevision = 2
    MaxCommits = 4
    MaxClock = 0
    MaxCalls = 1
    w1 = w1
    w2 = w2
    k1 = k1
    k2 = k2
    s1 = s1
    f1 = f1
    VersionOf <- OneVersion
    StreamOf <- OneStream
    SubStream <- NoStream
    SubKinds <- NoKinds
    FingerprintOf <- OneBuild
    Scopes <- WholeStore

SYMMETRY Symmetric

CHECK_DEADLOCK FALSE

INVARIANTS
    HeadMatchesLog
    ReportsAreTrue

PROPERTIES
    RebuildRepairs
