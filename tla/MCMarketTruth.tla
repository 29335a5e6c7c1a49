---------------------------- MODULE MCMarketTruth ----------------------------
(* A small instance of MarketTruth for TLC.                                 *)
EXTENDS MarketTruth, TLC

CONSTANTS t1, t2, t3, yes, no

\* Two trades of the first market, the second bought by a wallet outside of the
\* cohort, and one of the second market, which lists a token twice.
MarketOfValue == (t1 :> 1) @@ (t2 :> 1) @@ (t3 :> 2)
TokenOfValue == (t1 :> yes) @@ (t2 :> no) @@ (t3 :> yes)
OutcomesValue ==
    <<  <<[label |-> "Yes", token |-> yes], [label |-> "No", token |-> no]>>,
        <<[label |-> "Yes", token |-> yes], [label |-> "No", token |-> yes]>>  >>
\* The outcome of the first market is corrected.
DeclaresValue == << <<"Yes", "No">>, <<"Yes">> >>
==============================================================================
