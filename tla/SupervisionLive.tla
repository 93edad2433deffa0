--------------------------- MODULE SupervisionLive ---------------------------
(***************************************************************************)
(* Supervision, followed at some point by a calm: from then on every       *)
(* evaluation reads the same, a write succeeds after Refusals refused      *)
(* ones, nobody touches the battery, and evaluations recur each minute     *)
(* (tick_scheduler.py).  The history variables stay as they began.         *)
(***************************************************************************)
EXTENDS Supervision

CONSTANT Refusals  \* how many writes may still be refused in the calm

VARIABLES
    calm,     \* the kind of calm, or "none"
    refused,  \* writes refused in it
    turn      \* whether the minute or the evaluation comes next

liveVars == <<vars, calm, refused, turn>>

Calms == {"price_outage", "mode_outage", "quiet", "uncorroborated"}

\* what every evaluation of a calm reads, but for the fate of its write
Steady(kind) ==
    {r \in Readings :
        /\ r.automation /\ ~r.override /\ r.allowed /\ ~r.spike
        /\ r.desired = "self_consumption"
        /\ r.inputs = CASE kind = "price_outage" -> "no_prices"
                        [] kind = "mode_outage"  -> "no_operation_mode"
                        [] OTHER                 -> "valid"
        /\ r.signals = IF kind = "uncorroborated" THEN "unknown" ELSE "quiet"
        /\ ~r.succeeds => refused < Refusals}

LiveInit == Init /\ calm = "none" /\ refused = 0 /\ turn = "minute"

Trouble ==
    /\ calm = "none"
    /\ \/ \E r \in Readings : Matters(r) /\ \E o \in Outcomes(r) : Leaves(o, r)
       \/ Drift \/ Commands \/ Ages
    /\ UNCHANGED <<last, past, calm, refused, turn>>

Settle(kind) ==
    /\ calm = "none"
    /\ calm' = kind
    /\ UNCHANGED <<vars, refused, turn>>

CalmEvaluate ==
    /\ calm # "none" /\ turn = "evaluation"
    /\ \E r \in Steady(calm) : \E o \in Outcomes(r) :
         /\ Leaves(o, r)
         /\ refused' = IF o.why # "none" /\ ~r.succeeds THEN refused + 1 ELSE refused
    /\ turn' = "minute"
    /\ UNCHANGED <<last, past, calm>>

CalmTick ==
    /\ calm # "none" /\ turn = "minute"
    /\ Ages
    /\ turn' = "evaluation"
    /\ UNCHANGED <<last, past, calm, refused>>

LiveNext == Trouble \/ (\E kind \in Calms : Settle(kind)) \/ CalmEvaluate \/ CalmTick

LiveSpec ==
    /\ LiveInit /\ [][LiveNext]_liveVars
    /\ WF_liveVars(CalmEvaluate) /\ WF_liveVars(CalmTick)

Safe == sm.commanded = "self_consumption" /\ ~sm.unverified

-----------------------------------------------------------------------------
(* An outage that lasts ends in a write of SELF_CONSUMPTION that has been    *)
(* verified, however many attempts are refused first and whatever the        *)
(* override, its cooldown and the back-off were doing (#1228).              *)
LastingOutageFallsBack ==
    /\ calm = "mode_outage" ~> Safe
    /\ calm = "price_outage" ~> Safe /\ hardware = "healthy"

(* A yield to Tesla that nothing corroborates is bounded: the mode is        *)
(* re-issued, and the battery comes to match what is commanded.             *)
FalseYieldEnds == calm = "uncorroborated" ~> ~sm.detected /\ hardware = "healthy"

(* When all is well again the outage is closed, the desired mode commanded   *)
(* and the battery matches it.                                              *)
Recovers ==
    calm = "quiet" ~> /\ sm.lost_since = Unset /\ sm.commanded = "self_consumption"
                      /\ hardware = "healthy"
=============================================================================
