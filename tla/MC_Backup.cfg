\* One storage server backing up r = {f, s/g} to the backup server; recv
\* may return part of a packet.
CONSTANTS
    r = r  s = s  f = f  g = g  h = h
    Root = r
    SubDirs = {s}
    FilesOf <- TreeFiles
    TopFiles = {h}
    Size <- Sizes
    BUFFER_SIZE = 2
    Garbage = Garbage
    None = None
SPECIFICATION Spec
INVARIANT BackupFaithful
CHECK_DEADLOCK FALSE
