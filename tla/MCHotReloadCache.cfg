\* One indexer that never fails, and the server.
SPECIFICATION SpecServer
CONSTANTS
    Indexers = {i1}
    Heads = {0}
    MaxWal = 2
    MaxBuilds = 2
    MaxAborts = 0
    CacheCapacity = 1
    MaxRestarts = 0
INVARIANTS
    QueryCovers
