\* Two indexers, one of whose runs may fail, and the server, which may restart.
SPECIFICATION FairServer
CONSTANTS
    Indexers = {i1, i2}
    Heads = {0, 1}
    MaxWal = 2
    MaxBuilds = 2
    MaxAborts = 1
    CacheCapacity = 1
    MaxRestarts = 1
INVARIANTS
    AllPresent
    CoversManifest
    OneBuild
    ServerTypeOK
    ViewCovers
    SettledView
PROPERTIES
    ManifestMonotone
    ReloadMonotone
    IndexBecomesVisible
