-------------------------- MODULE ControlLockProofs --------------------------
(***************************************************************************)
(* The control lock excludes, for any number of processes and inodes and   *)
(* any timeout, whoever crashes when.  The argument: nobody unlinks the    *)
(* path, so the inode it names never changes once it is there, every open  *)
(* descriptor names that inode, and the flock on it has one owner.         *)
(***************************************************************************)
EXTENDS ControlLock, TLAPS

\* A process in the section holds the flock of the inode the path names.
HoldersLock ==
    \A p \in Procs : pc[p] = "holding" => owner[fd[p]] = p

\* Every descriptor names the inode the path names: no lock is taken on an
\* inode that later openers cannot see.
OpenersAgree ==
    \A p \in Procs :
        /\ pc[p] \in {"opened", "holding"} => fd[p] # NoFile
        /\ fd[p] # NoFile => fd[p] = entry

IInv == TypeOK /\ OpenersAgree /\ HoldersLock /\ NoOrphanedLock

USE LockFileAssumption, PollsAssumption

-----------------------------------------------------------------------------

\* The helpers keep the poll counter a counter.
LEMMA PolledType ==
    ASSUME NEW p \in Procs, TypeOK, InTime(p)
    PROVE  Polled(polls[p]) \in 0 .. MaxPolls
  BY DEF TypeOK, InTime, Polled

\* Type correctness: no call leaves a lock, a descriptor or a poll counter
\* outside its range.
THEOREM TypeCorrect == Spec => []TypeOK
<1>1. Init => TypeOK
  BY DEF Init, FileInit, TypeOK, FileTypeOK
<1>2. TypeOK /\ [Next]_vars => TypeOK'
  <2> SUFFICES ASSUME TypeOK, [Next]_vars PROVE TypeOK'
    OBVIOUS
  <2> USE DEF TypeOK, FileTypeOK
  <2>1. ASSUME NEW p \in Procs, Open(p) PROVE TypeOK'
    BY <2>1 DEF Open, OpenCreate
  <2>2. ASSUME NEW p \in Procs, Reject(p) PROVE TypeOK'
    BY <2>2 DEF Reject, CloseFd
  <2>3. ASSUME NEW p \in Procs, Lock(p) PROVE TypeOK'
    BY <2>3 DEF Lock, Flock, CanLock
  <2>4. ASSUME NEW p \in Procs, Busy(p) PROVE TypeOK'
    <3>1. FileTypeOK'
      BY <2>4 DEF Busy, CloseFd
    <3>2. pc' \in [Procs -> {"idle", "opened", "waiting", "holding"}]
      BY <2>4 DEF Busy
    <3>3. polls' \in [Procs -> 0 .. MaxPolls]
      BY <2>4, PolledType DEF Busy
    <3> QED BY <3>1, <3>2, <3>3
  <2>5. ASSUME NEW p \in Procs, Release(p) PROVE TypeOK'
    BY <2>5 DEF Release, CloseFd
  <2>6. ASSUME NEW p \in Procs, Crash(p) PROVE TypeOK'
    BY <2>6 DEF Crash, CloseFd
  <2>7. CASE UNCHANGED vars
    BY <2>7 DEF vars, fileVars
  <2> QED
    BY <2>1, <2>2, <2>3, <2>4, <2>5, <2>6, <2>7 DEF Next, Attempt
<1> QED
  BY <1>1, <1>2, PTL DEF Spec

-----------------------------------------------------------------------------

\* The inductive invariant holds in every reachable state.  Open is the step
\* that needs the path never to be removed; Lock is the one that needs every
\* opener to see the same inode.
THEOREM InvariantHolds == Spec => []IInv
<1>1. Init => IInv
  BY DEF Init, FileInit, IInv, TypeOK, FileTypeOK, OpenersAgree, HoldersLock, NoOrphanedLock
<1>2. IInv /\ TypeOK' /\ [Next]_vars => IInv'
  <2> SUFFICES ASSUME IInv, TypeOK', [Next]_vars
               PROVE  OpenersAgree' /\ HoldersLock' /\ NoOrphanedLock'
    BY DEF IInv
  <2> USE DEF IInv, TypeOK, FileTypeOK
  <2>1. ASSUME NEW p \in Procs, Open(p) PROVE OpenersAgree' /\ HoldersLock' /\ NoOrphanedLock'
    <3>1. pc[p] # "holding" /\ fd'[p] = entry' /\ entry' # NoFile /\ pc'[p] = "opened"
      BY <2>1 DEF Open, OpenCreate
    <3>2. \A q \in Procs : q # p => pc'[q] = pc[q] /\ fd'[q] = fd[q]
      BY <2>1 DEF Open, OpenCreate
    <3>3. entry # NoFile => entry' = entry
      BY <2>1 DEF Open, OpenCreate
    <3>4. OpenersAgree'
      BY <3>1, <3>2, <3>3 DEF OpenersAgree
    <3>5. HoldersLock'
      BY <2>1, <3>1, <3>2 DEF HoldersLock, Open, OpenCreate
    <3>6. NoOrphanedLock'
      BY <2>1, <3>1, <3>2 DEF NoOrphanedLock, Open, OpenCreate
    <3> QED BY <3>4, <3>5, <3>6
  <2>2. ASSUME NEW p \in Procs, Lock(p) PROVE OpenersAgree' /\ HoldersLock' /\ NoOrphanedLock'
    <3>1. OpenersAgree'
      BY <2>2 DEF Lock, Flock, OpenersAgree
    <3>2. HoldersLock'
      BY <2>2 DEF Lock, Flock, CanLock, OpenersAgree, HoldersLock
    <3>3. NoOrphanedLock'
      BY <2>2 DEF Lock, Flock, CanLock, OpenersAgree, NoOrphanedLock
    <3> QED BY <3>1, <3>2, <3>3
  <2>3. ASSUME NEW p \in Procs, CloseFd(p),
               \E step \in {"idle", "waiting"} : pc' = [pc EXCEPT ![p] = step]
        PROVE  OpenersAgree' /\ HoldersLock' /\ NoOrphanedLock'
    <3>1. OpenersAgree'
      BY <2>3 DEF CloseFd, OpenersAgree
    <3>2. HoldersLock'
      BY <2>3 DEF CloseFd, OpenersAgree, HoldersLock
    <3>3. NoOrphanedLock'
      BY <2>3 DEF CloseFd, NoOrphanedLock
    <3> QED BY <3>1, <3>2, <3>3
  <2>4. CASE UNCHANGED vars
    BY <2>4 DEF vars, fileVars, OpenersAgree, HoldersLock, NoOrphanedLock
  <2> QED
    BY <2>1, <2>2, <2>3, <2>4 DEF Next, Attempt, Reject, Busy, Release, Crash
<1> QED
  BY <1>1, <1>2, TypeCorrect, PTL DEF Spec

\* Mutual exclusion: two holders would own the flock of one inode.
LEMMA InvariantExcludes == IInv => MutualExclusion
  BY DEF IInv, TypeOK, OpenersAgree, HoldersLock, MutualExclusion

\* Two processes are never both between acquire and release, for any number
\* of them: nobody ever removes the path, so all lock one inode.
THEOREM Exclusion == Spec => []MutualExclusion
  BY InvariantHolds, InvariantExcludes, PTL

\* A process that died or gave up leaves no lock behind.
THEOREM NothingOrphaned == Spec => []NoOrphanedLock
<1>1. IInv => NoOrphanedLock
  BY DEF IInv
<1> QED
  BY <1>1, InvariantHolds, PTL

-----------------------------------------------------------------------------

\* With at most one holder, `holder' is that process.
LEMMA HolderValue ==
    ASSUME MutualExclusion
    PROVE  /\ \A p \in Procs : pc[p] = "holding" => holder = p
           /\ (\A p \in Procs : pc[p] # "holding") => holder = Nobody
  BY DEF MutualExclusion, holder

\* The same of the next state.
LEMMA NextHolderValue ==
    ASSUME MutualExclusion'
    PROVE  /\ \A p \in Procs : pc'[p] = "holding" => holder' = p
           /\ (\A p \in Procs : pc'[p] # "holding") => holder' = Nobody
  BY DEF MutualExclusion, holder

\* A step that moves nobody into or out of the section is a stutter of Mutex.
LEMMA SectionUnchanged ==
    ASSUME MutualExclusion, MutualExclusion',
           \A p \in Procs : pc'[p] = "holding" <=> pc[p] = "holding"
    PROVE  holder' = holder
<1>1. CASE \E p \in Procs : pc[p] = "holding"
  BY <1>1, HolderValue, NextHolderValue
<1>2. CASE \A p \in Procs : pc[p] # "holding"
  BY <1>2, HolderValue, NextHolderValue
<1> QED
  BY <1>1, <1>2

\* A process that leaves the section, by release or by death, frees the lock.
LEMMA LeavingReleases ==
    ASSUME TypeOK, MutualExclusion, MutualExclusion', NEW p \in Procs,
           pc[p] = "holding", pc' = [pc EXCEPT ![p] = "idle"]
    PROVE  Abstract!Release(p)
<1>1. holder = p
  BY HolderValue
<1>2. \A q \in Procs : pc'[q] # "holding"
  BY DEF TypeOK, MutualExclusion
<1>3. holder' = Nobody
  BY <1>2, NextHolderValue
<1> QED
  BY <1>1, <1>3 DEF Abstract!Release

\* Getting the flock is Acquire: nobody holds it, since a holder would own the
\* flock of the same inode.
LEMMA LockAcquires ==
    ASSUME IInv, IInv', NEW p \in Procs, Lock(p)
    PROVE  Abstract!Acquire(p)
<1>1. \A q \in Procs : pc[q] # "holding"
  BY DEF IInv, TypeOK, FileTypeOK, OpenersAgree, HoldersLock, Lock, Flock, CanLock
<1>2. holder = Nobody
  BY <1>1, HolderValue, InvariantExcludes
<1>3. pc'[p] = "holding"
  BY DEF Lock, IInv, TypeOK
<1>4. MutualExclusion'
  BY DEF IInv, TypeOK, OpenersAgree, HoldersLock, MutualExclusion
<1>5. holder' = p
  BY <1>3, <1>4, NextHolderValue
<1> QED
  BY <1>2, <1>5 DEF Abstract!Acquire

\* ControlLock implements Mutex: Lock is Acquire, Release and the death of a
\* holder are Release, and every other step leaves the abstract lock alone.
THEOREM Implements == Spec => ImplementsMutex
<1>1. Init => Abstract!Init
  BY DEF Init, holder, Abstract!Init
<1>2. IInv /\ IInv' /\ [Next]_vars => [Abstract!Next]_holder
  <2> SUFFICES ASSUME IInv, IInv', [Next]_vars
               PROVE  Abstract!Next \/ holder' = holder
    OBVIOUS
  <2>0. MutualExclusion /\ MutualExclusion' /\ TypeOK
    BY InvariantExcludes DEF IInv, TypeOK, OpenersAgree, HoldersLock, MutualExclusion
  <2> USE DEF TypeOK
  <2>1. ASSUME NEW p \in Procs, Open(p) \/ Reject(p) \/ Busy(p) PROVE holder' = holder
    BY <2>0, <2>1, SectionUnchanged DEF Open, Reject, Busy
  <2>2. ASSUME NEW p \in Procs, Lock(p) PROVE Abstract!Next
    BY <2>2, LockAcquires DEF Abstract!Next
  <2>3. ASSUME NEW p \in Procs, Release(p) PROVE Abstract!Next
    BY <2>0, <2>3, LeavingReleases DEF Release, Abstract!Next
  <2>4. ASSUME NEW p \in Procs, Crash(p) PROVE Abstract!Next \/ holder' = holder
    <3>1. CASE pc[p] = "holding"
      BY <2>0, <2>4, <3>1, LeavingReleases DEF Crash, Abstract!Next
    <3>2. CASE pc[p] # "holding"
      BY <2>0, <2>4, <3>2, SectionUnchanged DEF Crash
    <3> QED BY <3>1, <3>2
  <2>5. CASE UNCHANGED vars
    BY <2>5 DEF vars, holder
  <2> QED
    BY <2>1, <2>2, <2>3, <2>4, <2>5 DEF Next, Attempt
<1> QED
  BY <1>1, <1>2, InvariantHolds, PTL DEF Spec, ImplementsMutex, Abstract!Spec
=============================================================================
