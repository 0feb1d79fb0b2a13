SPECIFICATION Spec
CONSTANTS
    s1 = s1
    s2 = s2
    s3 = s3
    o1 = o1
    o2 = o2
    o3 = o3
    o4 = o4
    NULL = NULL
    Sources <- MCSources
    Objects <- MCObjects
    Bucket <- MCBucket
    BUCKETS = 2
    MAX_SIZE = 2
    MAX_DEPTH = 2
    MAX_HELD = 1
SYMMETRY Addresses
INVARIANTS
    RefcountExact
    RunsOwnCode
    CacheExact
