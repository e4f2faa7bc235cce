CONSTANTS
    c1 = c1
    c2 = c2
    f1 = f1
    f2 = f2
    Clients = {c1, c2}
    Files = {f1, f2}
    FilesOf <- OwnFiles
    Occurs <- DistinctNames
    Ops = {"READ", "WRITE", "BIGWRITE"}
    Fds = {5, 6, 7}
    NoFd = NoFd
    MaxCmds = 2
    MaxRestarts = 1
    NsMayCrash = FALSE
SPECIFICATION Spec
INVARIANT ClientReadsOwnReply
PROPERTY WriterEventuallyNotified
CHECK_DEADLOCK FALSE
