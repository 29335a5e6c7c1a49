------------------------------- MODULE LockFile -------------------------------
(***************************************************************************)
(* A lock file as the kernel keeps it: a directory entry that names an     *)
(* inode, descriptors that keep naming an inode after the entry is gone,   *)
(* and flock(2) locks, which belong to the inode and end with the          *)
(* descriptor they were taken on.  FileLock and ControlLock are built on   *)
(* these calls; each process uses one descriptor at a time.                *)
(***************************************************************************)
CONSTANTS
    Procs,    \* processes that take the lock
    Inodes,   \* one more than the processes is always enough
    NoFile, Nobody

ASSUME LockFileAssumption ==
    /\ NoFile \notin Inodes
    /\ Nobody \notin Procs

VARIABLES
    entry,    \* the inode the lock path names, or NoFile
    owner,    \* the process whose descriptor holds the flock of each inode
    fd        \* the inode each process has open, or NoFile

fileVars == <<entry, owner, fd>>

FileInit ==
    /\ entry = NoFile
    /\ owner = [i \in Inodes |-> Nobody]
    /\ fd = [p \in Procs |-> NoFile]

FileTypeOK ==
    /\ entry \in Inodes \cup {NoFile}
    /\ owner \in [Inodes -> Procs \cup {Nobody}]
    /\ fd \in [Procs -> Inodes \cup {NoFile}]

\* An inode no entry and no descriptor names may be given to a new file.
Free(i) == i # entry /\ \A q \in Procs : fd[q] # i

\* open(path, O_RDWR | O_CREAT).
OpenCreate(p) ==
    /\ \/ entry # NoFile /\ UNCHANGED entry
       \/ entry = NoFile /\ entry' \in {i \in Inodes : Free(i)}
    /\ fd' = [fd EXCEPT ![p] = entry']
    /\ UNCHANGED owner

\* flock(fd, LOCK_EX | LOCK_NB), when it succeeds; it fails with EWOULDBLOCK
\* exactly when it is not enabled.
CanLock(p) == owner[fd[p]] = Nobody

Flock(p) ==
    /\ CanLock(p)
    /\ owner' = [owner EXCEPT ![fd[p]] = p]
    /\ UNCHANGED <<entry, fd>>

\* close(fd), by the process or by its death: the flock goes with it.
CloseFd(p) ==
    /\ owner' = [i \in Inodes |-> IF i = fd[p] /\ owner[i] = p THEN Nobody ELSE owner[i]]
    /\ fd' = [fd EXCEPT ![p] = NoFile]
    /\ UNCHANGED entry

\* unlink(path, missing_ok): removes whatever the path names by now.
Unlink ==
    /\ entry' = NoFile
    /\ UNCHANGED <<owner, fd>>
=============================================================================
