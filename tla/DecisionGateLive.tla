-------------------------- MODULE DecisionGateLive --------------------------
(***************************************************************************)
(* What the decision must eventually do.  Arbitrary operation (DecisionGate)*)
(* ends at some point in a calm: from then on the decision context stays   *)
(* the same, nobody intervenes and every plan asks for the same mode.      *)
(* That is the hard case, since an unchanged context grants no token.  Up  *)
(* to the calm the plan's starts are counted (DecisionGateBudget).         *)
(***************************************************************************)
EXTENDS DecisionGateBudget

VARIABLE calm  \* "no", or why the calm that has begun should end in a decision

(***************************************************************************)
(* charge: the plan wants a charge whose budget is unspent.  export: it    *)
(* wants the export start that is owed, and no charge was wanted lately.   *)
(* release: a backstop's BOOST is committed and its conditions are over.   *)
(* handback: an override has just ended.                                   *)
(***************************************************************************)
CalmPlan == [charge    |-> "grid_charging",
             export    |-> "proactive_export",
             release   |-> "self_consumption",
             handback  |-> "self_consumption"]

ChargeWanted == plan_mode_pending \in ChargeModes \/ last_fingerprint.stale

liveVars == <<vars, calm, starts, excused>>

LiveInit == Init /\ StartsInit /\ calm = "no"

Operate ==
    /\ calm = "no"
    /\ Next
    /\ \/ calm' = "no"
       \/ manual_override /\ ~manual_override' /\ calm' = "handback"
    /\ IF calm' = "no" THEN Watch ELSE Forget

Settle ==
    /\ calm = "no"
    /\ plan_charge_context # NoContext
    /\ ~manual_override
    /\ \/ "grid_charging" \notin plan_charge_granted /\ calm' = "charge"
       \/ export_start_owed /\ ~ChargeWanted /\ calm' = "export"
       \/ forced /\ calm' = "release"
    /\ UNCHANGED vars
    /\ Forget

CalmEvaluate(gap) ==
    /\ calm # "no"
    /\ \E kind \in {"tick", "reoptimize"}, below_target \in BOOLEAN, ctx \in Contexts :
          /\ plan_charge_context \in {ctx, NoContext}
          /\ calm = "charge" => below_target
          /\ EvaluateBegin(kind,
                 [ctx |-> ctx, below_target |-> below_target, boundary_gap |-> gap],
                 [plan |-> CalmPlan[calm], urgent |-> FALSE, deferred |-> FALSE])
    /\ UNCHANGED <<calm, starts, excused>>

CalmEnd == EvaluateEnd /\ UNCHANGED <<calm, starts, excused>>

LiveNext == Operate \/ Settle \/ (\E gap \in BOOLEAN : CalmEvaluate(gap)) \/ CalmEnd

(***************************************************************************)
(* Every evaluation ends: battery calls time out.  Evaluations recur every *)
(* minute and the price-boundary gap covers at most 90 s of each 5 minutes,*)
(* so infinitely many fall outside it.                                     *)
(***************************************************************************)
Fairness ==
    /\ WF_liveVars(CalmEnd)
    /\ SF_liveVars(CalmEvaluate(FALSE))

LiveSpec == LiveInit /\ [][LiveNext]_liveVars /\ Fairness

(***************************************************************************)
(* A charge the plan keeps asking for is committed although no price moves *)
(* (the 2026-07-27 pre-charge incident), through any number of refunds at  *)
(* the price boundary.                                                     *)
(***************************************************************************)
WantedChargeCommitted == calm = "charge" ~> active_mode \in ChargeModes

(***************************************************************************)
(* A BOOST that a backstop forced is left once its conditions clear,       *)
(* although no token is granted (_release_backstop_hold).                  *)
(***************************************************************************)
ForcedBoostReleased == calm = "release" ~> active_mode \notin ChargeModes

(***************************************************************************)
(* After "automatic" is picked, or the override timed out, the machine     *)
(* leaves manual mode although no price moves.                             *)
(***************************************************************************)
HandedBackModeDecided == calm = "handback" ~> active_mode # "manual"

(***************************************************************************)
(* Once the deferral of an owed export start lifts, the export that the    *)
(* plan keeps asking for starts, although no price moves (#1119).          *)
(***************************************************************************)
OwedExportReleased == calm = "export" ~> active_mode = "proactive_export"
=============================================================================
