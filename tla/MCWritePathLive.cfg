SPECIFICATION FairSpec
CONSTANTS
    Reqs = {r1, r2}
    a = a
    b = b
    Ids = {a, b}
    short = short
    long = long
    plain = plain
    Contents = {short, long, plain}
    Absent = Absent
    Dim <- MCDim
    Writes <- MCWritesPlain
    MaxCrashes = 1
PROPERTIES
    EveryRequestAnswered
    GroupCommitCompletes
