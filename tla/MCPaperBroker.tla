--------------------------- MODULE MCPaperBroker ---------------------------
(***************************************************************************)
(* Two wallets on one outcome of one market, with limits that two orders    *)
(* together exceed: the wallet's by one wallet, the market's by both.       *)
(***************************************************************************)
EXTENDS PaperBroker

CONSTANTS w1, w2

Wallets == {w1, w2}
TwoKeys == {<<"m1", w, "Yes">> : w \in Wallets}

Level(p, v) == [price |-> p, volume |-> v]

(* Depth that fills an order of 3 in part, over two levels, and not at all. *)
SomeBooks == {[best |-> 1, levels |-> <<Level(1, 1), Level(2, 1)>>],
              [best |-> 2, levels |-> <<>>]}

(* A resolution, and another source of evidence that contradicts it. *)
Resolutions == {[hash |-> "h1", outcome |-> "YES"], [hash |-> "h2", outcome |-> "NO"]}

UpperCase == [Yes |-> "YES", No |-> "NO"]

FewLimits == [order |-> 3, market |-> 8, wallet |-> 6, outcome |-> 0, global |-> 0]

WalletSymmetry == Permutations(Wallets)
=============================================================================
