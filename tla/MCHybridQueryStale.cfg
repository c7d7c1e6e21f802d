\* Two documents, one of them updated.
SPECIFICATION Spec
CONSTANTS
    Ids = {i1, i2}
    plain = plain
    Contents <- MCContents
    Absent = Absent
    Dim <- MCDim
    Reqs = {0}
    Writes <- MCWrites
    NsMetric = "euclidean_squared"
    MaxWal = 3
    MaxTopK = 2
    MaxMoves = 1
SYMMETRY Symmetry
INVARIANTS
    CurrentVectorsOnly
