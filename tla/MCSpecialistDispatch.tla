------------------------ MODULE MCSpecialistDispatch ------------------------
(***************************************************************************)
(* Instances of the dispatcher: one approval re-issued under a new id.     *)
(***************************************************************************)
EXTENDS SpecialistDispatch

CONSTANTS a1, a2, c1, c2

SameSlot == [a \in Approvals |-> "slot"]
OneCategory == [a \in Approvals |-> c1]
=============================================================================
