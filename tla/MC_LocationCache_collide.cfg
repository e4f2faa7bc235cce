\* Two paths share a slot: cache_put overwrites the other path's address.
CONSTANTS
    p1 = p1
    p2 = p2
    p3 = p3
    Paths = {p1, p2, p3}
    Servers = {s1, s2}
    CACHE_SIZE = 2
    CacheHash <- CollidingHash
    Null = Null
INIT CacheInit
NEXT CacheNext
PROPERTY LocationCacheIsLru
CHECK_DEADLOCK FALSE
