------------------------- MODULE MCSpecialistSpine -------------------------
(***************************************************************************)
(* Instances of the execution spine.  Signals of one or two wallets trade  *)
(* one market at a cost of 2 each under a limit of 3, so that any two open *)
(* positions of one scope are one too many.                                *)
(***************************************************************************)
EXTENDS SpecialistSpine

CONSTANTS e1, e2, s1, s2, a1, w1, w2, m1

MCSlotOf == [a \in Approvals |-> "slot"]
MCCost == [s \in Signals |-> 2]
MCMarketOf == [s \in Signals |-> m1]
OneWallet == [s \in Signals |-> w1]
WalletEach == [s \in Signals |-> IF s = s1 THEN w1 ELSE w2]
MCMatches == Signals \X Approvals
MCMaxExposure == [k \in Scopes |-> 3]
RoomForTwo == [k \in Scopes |-> IF k = "global" THEN 5 ELSE 3]
=============================================================================
