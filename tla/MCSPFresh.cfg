\* Two threads.
SPECIFICATION Spec
CONSTANTS
    Threads = {t1, t2}
    Ids = {v1, v2}
    None = None
    MaxPosting = 1
    ReplicaCount = 1
    MaxSplitDepth = 1
    VersionMask = 3
    MaxInserts = 3
    MaxDeletes = 1
    MaxSearches = 1
SYMMETRY Symmetry
INVARIANTS
    TypeOK
    Coverage
    Alignment
    DeletionComplete
    HeadGrowthBounded
    AtMostReplicas
