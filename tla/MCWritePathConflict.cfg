SPECIFICATION Spec
CONSTANTS
    Reqs = {r1, r2}
    a = a
    b = b
    Ids = {a, b}
    short = short
    long = long
    plain = plain
    Contents = {short, long, plain}
    Absent = Absent
    Dim <- MCDim
    Writes <- MCWritesMixed
    MaxCrashes = 0
INVARIANTS
    NoWriteConflict
