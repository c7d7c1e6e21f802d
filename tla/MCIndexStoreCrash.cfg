\* One indexer, one of whose runs crashes.
SPECIFICATION Spec
CONSTANTS
    Indexers = {i1}
    Heads = {0, 1}
    MaxWal = 2
    MaxBuilds = 3
    MaxAborts = 1
INVARIANTS
    CrashSafe
