-------------------------------- MODULE Mutex --------------------------------
(***************************************************************************)
(* What a lock promises its users: at any time at most one process is in   *)
(* the section it protects.  A process that leaves the section, normally   *)
(* or by dying, leaves it free.                                            *)
(***************************************************************************)
CONSTANTS Procs, Nobody

VARIABLE holder

Init == holder = Nobody

Acquire(p) == holder = Nobody /\ holder' = p

Release(p) == holder = p /\ holder' = Nobody

Next == \E p \in Procs : Acquire(p) \/ Release(p)

Spec == Init /\ [][Next]_holder
=============================================================================
