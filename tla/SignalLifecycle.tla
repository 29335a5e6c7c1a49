--------------------------- MODULE SignalLifecycle ---------------------------
(***************************************************************************)
(* What the paper execution of a signal promises, as if each command were  *)
(* one step: a signal is authorized under one approval, at most once; an   *)
(* authorized signal is ordered, which spends the authorization in the     *)
(* same step and leaves one position; that position is settled.  Nothing   *)
(* is ever taken back.                                                     *)
(***************************************************************************)
CONSTANTS Signals, Approvals, NoApproval, Positions

VARIABLES
    authorization, \* of each signal: none, active or used, and its approval
    position,      \* the positions of each signal
    settled        \* the positions that are settled

vars == <<authorization, position, settled>>

Init ==
    /\ authorization = [s \in Signals |-> [status |-> "none", approval |-> NoApproval]]
    /\ position = [s \in Signals |-> {}]
    /\ settled = {}

Authorize(s) ==
    /\ authorization[s].status = "none"
    /\ \E a \in Approvals :
         authorization' = [authorization EXCEPT ![s] = [status |-> "active", approval |-> a]]
    /\ UNCHANGED <<position, settled>>

Order(s) ==
    /\ authorization[s].status = "active"
    /\ position[s] = {}
    /\ authorization' = [authorization EXCEPT ![s] =
                           [status |-> "used", approval |-> authorization[s].approval]]
    /\ \E p \in Positions :
         /\ \A t \in Signals : p \notin position[t]
         /\ position' = [position EXCEPT ![s] = {p}]
    /\ UNCHANGED settled

Settle(s) ==
    /\ settled' = settled \cup position[s]
    /\ UNCHANGED <<authorization, position>>

Next == \E s \in Signals : Authorize(s) \/ Order(s) \/ Settle(s)

Spec == Init /\ [][Next]_vars
=============================================================================
