\* CREATE whose parent lookup hits the cache inserts into cached_server.
CONSTANTS
    s1 = s1  s2 = s2  s3 = s3  d = d  e = e  x = x  y = y
    Workers = {w1}
    Servers = {s1, s2}
    Paths = {d, e, x}
    InitialPaths <- Reported
    Creatable <- Creations
    Ops = {"LOOKUP", "CREATE"}
    SsMayFail = FALSE
    MAX_STORAGE_SERVERS = 2
    MAX_SS_CONNECTIONS = 1
    CACHE_SIZE = 3
    CacheHash <- DistinctHash
    Null = Null
INIT Init
NEXT Next
VIEW StateView
INVARIANT FilesIndexed
