----------------------------- MODULE ControlLock -----------------------------
(***************************************************************************)
(* ControlLock of observation/control_lock.py, the lock of the bounded     *)
(* observation's control files.  It never unlinks its path, so all its     *)
(* users lock the same inode; the theorems in ControlLockProofs rest on    *)
(* that.                                                                   *)
(***************************************************************************)
EXTENDS LockFile, Naturals

CONSTANT MaxPolls   \* timeout / poll_interval: failed attempts before giving up

ASSUME PollsAssumption == MaxPolls \in Nat

VARIABLES
    pc,       \* where each process is in acquire and release
    polls     \* attempts each process may still make

vars == <<fileVars, pc, polls>>

Init ==
    /\ FileInit
    /\ pc = [p \in Procs |-> "idle"]
    /\ polls = [p \in Procs |-> MaxPolls]

\* The loop of acquire opens the file anew on every attempt.
Open(p) ==
    /\ pc[p] \in {"idle", "waiting"}
    /\ OpenCreate(p)
    /\ pc' = [pc EXCEPT ![p] = "opened"]
    /\ polls' = IF pc[p] = "idle" THEN [polls EXCEPT ![p] = MaxPolls] ELSE polls

\* _validate_fd: not a regular file, another owner or other permissions.
Reject(p) ==
    /\ pc[p] = "opened"
    /\ CloseFd(p)
    /\ pc' = [pc EXCEPT ![p] = "idle"]
    /\ UNCHANGED polls

\* Faulty variant: goes on whether or not flock succeeded.
FaultyLock(p) ==
    /\ pc[p] = "opened"
    /\ owner' = [owner EXCEPT ![fd[p]] = p]
    /\ pc' = [pc EXCEPT ![p] = "holding"]
    /\ UNCHANGED <<entry, fd, polls>>

Lock(p) ==
    /\ pc[p] = "opened"
    /\ Flock(p)
    /\ pc' = [pc EXCEPT ![p] = "holding"]
    /\ UNCHANGED polls

\* time.monotonic() - start < timeout: there is time for another attempt.
InTime(p) == polls[p] > 0

\* Time is measured from the start of acquire, so an attempt uses some of it up.
FaultyPolled(n) == n

Polled(n) == n - 1

\* The lock is taken: wait for the poll interval, or time out.
Busy(p) ==
    /\ pc[p] = "opened"
    /\ ~CanLock(p)
    /\ CloseFd(p)
    /\ \/ /\ InTime(p)
          /\ pc' = [pc EXCEPT ![p] = "waiting"]
          /\ polls' = [polls EXCEPT ![p] = Polled(@)]
       \/ /\ ~InTime(p)
          /\ pc' = [pc EXCEPT ![p] = "idle"]
          /\ UNCHANGED polls

\* The descriptor is forgotten.
FaultyReleaseLeaks(p) ==
    /\ pc[p] = "holding"
    /\ pc' = [pc EXCEPT ![p] = "idle"]
    /\ UNCHANGED <<fileVars, polls>>

\* release: LOCK_UN and close; the path stays.
Release(p) ==
    /\ pc[p] = "holding"
    /\ CloseFd(p)
    /\ pc' = [pc EXCEPT ![p] = "idle"]
    /\ UNCHANGED polls

Crash(p) ==
    /\ pc[p] # "idle"
    /\ CloseFd(p)
    /\ pc' = [pc EXCEPT ![p] = "idle"]
    /\ UNCHANGED polls

Attempt(p) == Lock(p) \/ Busy(p)

Next ==
    \E p \in Procs :
        Open(p) \/ Reject(p) \/ Attempt(p) \/ Release(p) \/ Crash(p)

Spec == Init /\ [][Next]_vars

\* A process inside acquire keeps running.  Nothing makes a process ask for the
\* lock, and nothing makes its holder leave the section.
Fairness ==
    \A p \in Procs :
        /\ WF_vars(Attempt(p))
        /\ WF_vars(pc[p] = "waiting" /\ Open(p))

LiveSpec == Spec /\ Fairness

-----------------------------------------------------------------------------

TypeOK ==
    /\ FileTypeOK
    /\ pc \in [Procs -> {"idle", "opened", "waiting", "holding"}]
    /\ polls \in [Procs -> 0 .. MaxPolls]

\* Two processes are never both between acquire and release.
MutualExclusion ==
    \A p, q \in Procs : pc[p] = "holding" /\ pc[q] = "holding" => p = q

\* No lock is left behind: the file is locked only while a process is in the
\* section, so a holder that died cannot shut the others out.
NoOrphanedLock ==
    \A i \in Inodes : owner[i] # Nobody => pc[owner[i]] = "holding" /\ fd[owner[i]] = i

\* Every call of acquire returns or raises, however the others come and go.
AcquireEnds ==
    \A p \in Procs : pc[p] \in {"opened", "waiting"} ~> pc[p] \in {"holding", "idle"}

\* The lock implements the abstract one.
holder ==
    IF \E p \in Procs : pc[p] = "holding"
    THEN CHOOSE p \in Procs : pc[p] = "holding"
    ELSE Nobody

Abstract == INSTANCE Mutex WITH holder <- holder

ImplementsMutex == Abstract!Spec
=============================================================================
