CONSTANTS
    Clients = {c1, c2, c3, c4}
    Workers = {w1, w2}
    MAX_QUEUE_SIZE = 2
    ACK_PREFIX = 1000
    NoRequest = NoRequest
SPECIFICATION FairSpec
INVARIANT TypeOK
PROPERTY QueueIsFIFO
PROPERTY AdmittedSessionsEventuallyServed
CHECK_DEADLOCK FALSE
