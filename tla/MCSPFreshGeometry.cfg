\* Four ids on a line, two replicas of each vector, four inserts and a delete.
SPECIFICATION Spec
CONSTANTS
    Ids = {v1, v2, v3, v4}
    None = None
    Unit = 60
    Points = {0, 1, 3, 4}
    Metric = "euclidean_squared"
    RngFactor = 2
    MaxPosting = 2
    ReplicaCount = 2
    MaxSplitDepth = 10
    VersionMask = 127
    MaxIters = 50
    MaxInserts = 4
    MaxDeletes = 1
SYMMETRY Symmetry
PROPERTIES
    ImplementsSPFresh
    SplitsSeparate
