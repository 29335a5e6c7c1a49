------------------------- MODULE SpecialistApproval -------------------------
(***************************************************************************)
(* The rows of specialist_approvals (execution/specialist_approval.py).    *)
(* An approval is a manual decision that one wallet may be copied in one   *)
(* category under one formula version; that triple is the approval's slot. *)
(* The partial unique index ux_specialist_approvals_active admits at most  *)
(* one enabled, unrevoked row in a slot; a statement it rejects raises and *)
(* changes nothing, so it is a step that is not taken.                     *)
(***************************************************************************)

CONSTANTS
    Approvals,   \* approval_id values that may be issued
    Slots,       \* (wallet_address, specialist_category, formula_version)
    SlotOf,      \* the slot of each approval
    NoApproval   \* an approval_id that is not set

ASSUME SlotAssumption ==
    /\ SlotOf \in [Approvals -> Slots]
    /\ NoApproval \notin Approvals

VARIABLE approval

Unissued == [exists |-> FALSE, enabled |-> FALSE, revoked |-> FALSE]

ApprovalRow == [exists: BOOLEAN, enabled: BOOLEAN, revoked: BOOLEAN]

IsActive(a) ==
    /\ approval[a].exists
    /\ approval[a].enabled
    /\ ~approval[a].revoked

ActiveApprovals == {a \in Approvals : IsActive(a)}

FaultyActiveIndexAdmits(a) == TRUE

\* The unique index over the active rows, as seen by a statement that would
\* leave approval a active.
ActiveIndexAdmits(a) ==
    \A b \in ActiveApprovals : b = a \/ SlotOf[b] # SlotOf[a]

ApprovalInit == approval = [a \in Approvals |-> Unissued]

\* create_approval: the pre-flight SELECT and the index reject the same rows,
\* and the INSERT commits on its own.
CreateApproval(a) ==
    /\ ~approval[a].exists
    /\ ActiveIndexAdmits(a)
    /\ approval' = [approval EXCEPT
                      ![a] = [exists |-> TRUE, enabled |-> TRUE, revoked |-> FALSE]]

\* set_enabled: sets the flag whatever revoked_at says; only an UPDATE that
\* makes the row active meets the index.
SetEnabled(a, flag) ==
    /\ approval[a].exists
    /\ (flag /\ ~approval[a].revoked) => ActiveIndexAdmits(a)
    /\ approval' = [approval EXCEPT ![a] = [@ EXCEPT !.enabled = flag]]

\* revoke_approval: stamps revoked_at and clears the flag; the row stays.
RevokeApproval(a) ==
    /\ approval[a].exists
    /\ approval' = [approval EXCEPT ![a] = [@ EXCEPT !.enabled = FALSE, !.revoked = TRUE]]

ManageApprovals ==
    \E a \in Approvals :
        \/ CreateApproval(a)
        \/ \E flag \in BOOLEAN : SetEnabled(a, flag)
        \/ RevokeApproval(a)

ApprovalSpec == ApprovalInit /\ [][ManageApprovals]_approval

-----------------------------------------------------------------------------

ApprovalTypeOK == approval \in [Approvals -> ApprovalRow]

\* At most one approval of a slot is active, through any order of issuing,
\* disabling, re-enabling and revoking (docstring of create_approval:
\* "at most one ACTIVE approval per (wallet, category, formula_version)").
OneActivePerSlot ==
    \A a, b \in ActiveApprovals : SlotOf[a] = SlotOf[b] => a = b

\* Revocation is final: once revoked, no later call makes the approval active
\* again, re-enabling it included, and its row is never dropped.
RevocationIsFinal ==
    [][\A a \in Approvals :
         approval[a].revoked => approval'[a].revoked /\ approval'[a].exists]_approval
=============================================================================
