--------------------------- MODULE MCEvidenceCohort ---------------------------
(* A small instance of EvidenceCohort for TLC, and mutants of its actions.  *)
EXTENDS EvidenceCohort

CONSTANTS m1, m2, a, b

\* Each wallet has bought in the same market; the first then sells in another.
\* If its trades are named by transaction hashes, the sale moves the position
\* of the purchase.
Wallets(hashed) ==
    <<  <<[side |-> "BUY", market |-> m1, hashed |-> hashed],
          [side |-> "SELL", market |-> m2, hashed |-> hashed]>>,
        <<[side |-> "BUY", market |-> m1, hashed |-> FALSE]>>  >>

NamedTrades == Wallets(FALSE)
HashedTrades == Wallets(TRUE)
MadeValue == <<1, 1>>

EvidenceValue ==
    {[category |-> a, closed |-> FALSE], [category |-> b, closed |-> TRUE],
     [category |-> None, closed |-> FALSE]}

WatchesValue == {1, 2}
=============================================================================
