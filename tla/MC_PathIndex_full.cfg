CONSTANTS
    p1 = p1
    p2 = p2
    p3 = p3
    Paths = {p1, p2, p3}
    TABLE_SIZE = 5
    Hash <- CollidingHash
    NoPath = NoPath
SPECIFICATION Spec
INVARIANT InsertRefusedOnlyWhenFull
