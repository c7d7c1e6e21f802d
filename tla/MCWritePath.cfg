SPECIFICATION Spec
CONSTANTS
    Reqs = {r1, r2, r3}
    a = a
    b = b
    Ids = {a, b}
    short = short
    long = long
    plain = plain
    Contents = {short, long, plain}
    Absent = Absent
    Dim <- MCDim
    Writes <- MCWritesMixed
    MaxCrashes = 1
SYMMETRY Symmetry
INVARIANTS
    TypeOK
    LogContiguous
    MemoryIsReplay
    LoggedAtMostOnce
    RejectedNeverDurable
    FlushedIsDurable
    RealTimeOrder
    VisibleNeverLost
    DimensionsUniform
PROPERTIES
    ImplementsCommitLog
