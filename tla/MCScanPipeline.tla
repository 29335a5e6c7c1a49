--------------------------- MODULE MCScanPipeline ---------------------------
(* Finite instances of ScanPipeline.                                        *)
EXTENDS ScanPipeline

CONSTANTS t1, t2, t3, m1

a == 2
b == 3

T(wallet, market, at, wins, resolution) ==
    [wallet |-> wallet, market |-> market, at |-> at, wins |-> wins,
     valid |-> TRUE, resolution |-> resolution]

\* Wallet a qualifies with two trades, the outcome of one of which is
\* ambiguous; wallet b has one trade; of the first wallet no trade is known.
MCTrade ==
    [t \in {t1, t2, t3} |->
        CASE t = t1 -> T(a, m1, 1, TRUE, "ok")
          [] t = t2 -> T(a, m1, 2, TRUE, "rejected_ambiguous_outcome")
          [] t = t3 -> T(b, m1, 2, FALSE, "ok")]
=============================================================================
