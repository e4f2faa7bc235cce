\* Distinct slots: the pointer-level list is an LRU map.
CONSTANTS
    p1 = p1
    p2 = p2
    p3 = p3
    Paths = {p1, p2, p3}
    Servers = {s1, s2}
    CACHE_SIZE = 3
    CacheHash <- DistinctHash
    Null = Null
INIT CacheInit
NEXT CacheNext
INVARIANT TypeOK
INVARIANT LruListConsistent
PROPERTY LocationCacheIsLru
PROPERTY CacheNeverEvicts
