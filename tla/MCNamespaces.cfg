\* Three requests, all at once, a crash and a client that goes away.
SPECIFICATION FairSpec
CONSTANTS
    a = a
    Ids = {a}
    plain = plain
    Contents = {plain}
    Absent = Absent
    Dim <- MCDim
    Reqs = {0, 1, 2, 3}
    Writes <- MCWrites
    MaxLive = 3
    MaxCrashes = 1
    MaxDrops = 1
INVARIANTS
    NsTypeOK
    StateIsReplay
    AcknowledgedAccounted
    MapsAgree
PROPERTIES
    LogNeverOverwritten
    EveryRequestAnswered
