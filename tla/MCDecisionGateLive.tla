------------------------- MODULE MCDecisionGateLive -------------------------
(* Instances of DecisionGateLive for TLC.                                   *)
EXTENDS DecisionGateLive

OnePrice == {[price |-> "p1", dw |-> FALSE]}
=============================================================================
