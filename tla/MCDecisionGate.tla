--------------------------- MODULE MCDecisionGate ---------------------------
(* Instances of DecisionGate for TLC.                                       *)
EXTENDS DecisionGate

Ctx(price, dw) == [price |-> price, dw |-> dw]

OnePrice    == {Ctx("p1", FALSE)}
TwoPrices   == {Ctx("p1", FALSE), Ctx("p2", FALSE)}
\* a price change, and a demand window opening at either price
MCContexts  == TwoPrices \cup {Ctx("p1", TRUE)}
=============================================================================
