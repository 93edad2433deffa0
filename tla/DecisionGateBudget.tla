------------------------- MODULE DecisionGateBudget -------------------------
(***************************************************************************)
(* How often may the plan-charge trigger start a charge while the decision *)
(* context stays the same?  Two history variables watch DecisionGate.      *)
(***************************************************************************)
EXTENDS DecisionGate

VARIABLES
    starts,  \* charges the plan's own grants started in this context, per
             \* charge mode the plan had asked for, up to an excuse
    excused  \* something has happened that lifts the bound

MaxStarts == 2  \* bound of the history: the bound under question, plus one

NoStarts == [m \in ChargeModes |-> 0]
StartsInit == starts = NoStarts /\ excused = FALSE

PlanGrantStarts(m) ==
    /\ Begins /\ token'.plan_charge_only /\ plan_mode_pending = m
    /\ ChargeStarts /\ ~forced'

\* A reoptimize has cleared the budget, or a token raised by an epoch was
\* handed back in the price-boundary gap.
Excuse == Begins /\ (suppress \/ last_fingerprint'.stale)

Watch ==
    LET fresh == plan_charge_context' # plan_charge_context
        before(m) == IF fresh THEN 0 ELSE starts[m]
    IN  /\ excused' = (excused \/ Excuse)
        /\ starts' = [m \in ChargeModes |->
                         IF excused' THEN 0
                         ELSE IF PlanGrantStarts(m) /\ before(m) < MaxStarts
                         THEN before(m) + 1 ELSE before(m)]

Forget == starts' = NoStarts /\ excused' = FALSE

BudgetSpec == Init /\ StartsInit /\ [][Next /\ Watch]_<<vars, starts, excused>>

(***************************************************************************)
(* machine.py says of the plan-charge trigger: "at most ONE committed      *)
(* charge per (price context x wanted-charge mode)", whatever stops the    *)
(* charge in between.  That is so up to the first reoptimize or refund at  *)
(* the price boundary.                                                     *)
(***************************************************************************)
OneStart == \A m \in ChargeModes : starts[m] <= 1
=============================================================================
