------------------------------- MODULE FileLock -------------------------------
(***************************************************************************)
(* FileLock of utils/concurrency.py, the lock that operational_job_lock of *)
(* runtime/locks.py gives to every operational job.  _release closes the   *)
(* descriptor and then unlinks the path, two system calls apart.           *)
(***************************************************************************)
EXTENDS LockFile, Naturals

CONSTANT MaxPolls   \* timeout / poll_interval: failed attempts before giving up

VARIABLES
    pc,       \* where each process is in _acquire and _release
    polls     \* attempts each process may still make

vars == <<fileVars, pc, polls>>

Init ==
    /\ FileInit
    /\ pc = [p \in Procs |-> "idle"]
    /\ polls = [p \in Procs |-> MaxPolls]

\* A process that holds the lock is refused at once (_held_locks), so only one
\* that does not gets here.
Open(p) ==
    /\ pc[p] \in {"idle", "waiting"}
    /\ OpenCreate(p)
    /\ pc' = [pc EXCEPT ![p] = "opened"]
    /\ polls' = IF pc[p] = "idle" THEN [polls EXCEPT ![p] = MaxPolls] ELSE polls

Lock(p) ==
    /\ pc[p] = "opened"
    /\ Flock(p)
    /\ pc' = [pc EXCEPT ![p] = "holding"]
    /\ UNCHANGED polls

\* EACCES: close, then sleep and try again, or raise LockError.
Busy(p) ==
    /\ pc[p] = "opened"
    /\ ~CanLock(p)
    /\ CloseFd(p)
    /\ \/ /\ polls[p] > 0
          /\ pc' = [pc EXCEPT ![p] = "waiting"]
          /\ polls' = [polls EXCEPT ![p] = @ - 1]
       \/ /\ polls[p] = 0
          /\ pc' = [pc EXCEPT ![p] = "idle"]
          /\ UNCHANGED polls

\* _release: close without LOCK_UN ...
Close(p) ==
    /\ pc[p] = "holding"
    /\ CloseFd(p)
    /\ pc' = [pc EXCEPT ![p] = "unlinking"]
    /\ UNCHANGED polls

\* ... then remove the path, whoever has opened or locked it since.
RemovePath(p) ==
    /\ pc[p] = "unlinking"
    /\ Unlink
    /\ pc' = [pc EXCEPT ![p] = "idle"]
    /\ UNCHANGED polls

Crash(p) ==
    /\ pc[p] # "idle"
    /\ CloseFd(p)
    /\ pc' = [pc EXCEPT ![p] = "idle"]
    /\ UNCHANGED polls

Next ==
    \E p \in Procs :
        Open(p) \/ Lock(p) \/ Busy(p) \/ Close(p) \/ RemovePath(p) \/ Crash(p)

Spec == Init /\ [][Next]_vars

-----------------------------------------------------------------------------

\* Docstring of utils/concurrency.py: "exclusive access guaranteed" between
\* entering and leaving the lock.
ExclusiveAccess ==
    \A p, q \in Procs : pc[p] = "holding" /\ pc[q] = "holding" => p = q
=============================================================================
