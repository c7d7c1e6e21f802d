\* Three documents, a log of three operations.
SPECIFICATION Spec
CONSTANTS
    Ids = {i1, i2, i3}
    plain = plain
    Contents <- MCContents
    Absent = Absent
    Dim <- MCDim
    Reqs = {0}
    Writes <- MCWrites
    NsMetric = "euclidean_squared"
    MaxWal = 3
    MaxTopK = 2
    MaxMoves = 1
SYMMETRY Symmetry
INVARIANTS
    QueryTypeOK
    AnswersWellFormed
    FreshVectorWins
    ExactWhenWrittenOnce
    ShortfallBounded
