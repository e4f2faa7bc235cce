\* One worker, distinct cache slots, every command, failing storage servers,
\* and a third storage server that finds the registry full.
CONSTANTS
    s1 = s1  s2 = s2  s3 = s3  d = d  e = e  x = x  y = y
    Workers = {w1}
    Servers = {s1, s2, s3}
    Paths = {d, e, x}
    InitialPaths <- Reported
    Creatable <- Creations
    Ops = {"LOOKUP", "CREATE", "DELETE", "COPY"}
    SsMayFail = TRUE
    MAX_STORAGE_SERVERS = 2
    MAX_SS_CONNECTIONS = 1
    CACHE_SIZE = 3
    CacheHash <- DistinctHash
    Null = Null
INIT Init
NEXT Next
VIEW StateView
INVARIANT TypeOK
INVARIANT LookupSound
INVARIANT AckedServersRegistered
