\* Three processes, each of which may poll once more after a failed attempt;
\* an inode for each and one for the path.
SPECIFICATION LiveSpec
CONSTANTS
    Procs = {p1, p2, p3}
    Inodes = {i1, i2, i3, i4}
    NoFile = NoFile
    Nobody = Nobody
    MaxPolls = 1
INVARIANT
    NoOrphanedLock
PROPERTIES
    ImplementsMutex
    AcquireEnds
