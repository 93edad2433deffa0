---------------------------- MODULE DecisionGate ----------------------------
(***************************************************************************)
(* The mode decision of LocalShift: when may the committed battery mode    *)
(* change?                                                                 *)
(*                                                                         *)
(* state/machine.py grants a decision token to the evaluation that         *)
(* observes a new decision context (price, demand window, ...) or an epoch *)
(* (the plan wants to start a charge, a deferred export start was          *)
(* released); engine/optimizer_facade.py commits the plan's mode under the *)
(* token, under the pre-charge backstop, or holds the mode it has.         *)
(* Evaluations serialise on an asyncio lock; the recompute of              *)
(* coordinator.async_recompute_and_evaluate runs outside it.               *)
(*                                                                         *)
(* One evaluation is two steps: EvaluateBegin is everything up to the      *)
(* first await after the facade (no other task can run in between),        *)
(* EvaluateEnd is the finally block.  Between the two the evaluation       *)
(* awaits battery writes and any other task may run.                       *)
(***************************************************************************)
EXTENDS Naturals

CONSTANTS
    Contexts  \* decision contexts: [price, dw] records the readers can produce

Placeholder == "0.0"  \* what the reader stores for an unavailable price

ASSUME ContextsAssumption ==
    /\ \A c \in Contexts : DOMAIN c = {"price", "dw"} /\ c.dw \in BOOLEAN
    /\ \A c \in Contexts : c.price # "none"

(***************************************************************************)
(* HOLD and DEMAND_BLOCK pass every guard here as SELF_CONSUMPTION does.   *)
(***************************************************************************)
ChargeModes == {"grid_charging", "boost_charging"}
PlanModes   == ChargeModes \cup {"self_consumption", "proactive_export"}
Modes       == PlanModes \cup {"manual"}
NoMode      == "none"

(***************************************************************************)
(* A context's price stands for the buy and sell price of an interval, its *)
(* dw for the three parts whose change is exempt from the charge-start     *)
(* gate: demand window, price spike and SOC floor.                         *)
(***************************************************************************)
NoContext == [price |-> "none", dw |-> FALSE]

(***************************************************************************)
(* The stored fingerprint is a context and two epoch counters.  A counter  *)
(* only grows, so all a comparison can see of it is whether it has moved   *)
(* since the fingerprint was stored: stale.                                *)
(***************************************************************************)
Fingerprints  == [ctx : Contexts, stale : BOOLEAN]
NoFingerprint == [ctx |-> NoContext, stale |-> FALSE]

Tokens == [allowed : BOOLEAN, plan_charge_only : BOOLEAN,
           export_start_only : BOOLEAN, charge_start_gated : BOOLEAN,
           unspent : BOOLEAN, backstop_allowed : BOOLEAN]
NoToken == [allowed |-> FALSE, plan_charge_only |-> FALSE,
            export_start_only |-> FALSE, charge_start_gated |-> FALSE,
            unspent |-> FALSE, backstop_allowed |-> FALSE]

(***************************************************************************)
(* What one pass of compute_derived_values takes from outside: the sensor  *)
(* readings the token logic looks at, and what the planner returns.        *)
(***************************************************************************)
Readings == [ctx : Contexts, below_target : BOOLEAN, boundary_gap : BOOLEAN]

Plannings ==
    \* plan: the mode of slot 0, "blocked" by the safety gate, or "no_plan" on
    \* an early exit of run_inline.  deferred: slot 0 was held back from an
    \* export start, which also takes export off the table for the slot.
    \* urgent: a backstop arm's own conditions hold outside the demand window;
    \* both arms sit behind the safety gate.
    {p \in [plan : PlanModes \cup {"blocked", "no_plan"},
            urgent : BOOLEAN, deferred : BOOLEAN] :
        /\ p.deferred => p.plan \notin {"proactive_export", "no_plan"}
        /\ p.urgent => p.plan \in PlanModes}

VARIABLES
    active_mode,          \* data.active_mode: the committed decision
    plan_mode_pending,    \* data.debug_plan_mode_pending
    deferred,             \* optimizer_summary.slot0_price.export_start_deferred
    manual_override,      \* data.manual_override
    token,                \* the data.mode_decision_* and backstop flags
    backstop_holding,     \* facade._backstop_holding
    last_fingerprint,     \* _last_evaluated_fingerprint and _base
    plan_charge_context,  \* _plan_charge_context
    plan_charge_granted,  \* _plan_charge_granted
    suppress,             \* _suppress_plan_charge_grant
    export_start_owed,    \* _export_start_owed
    start_gate_refunded,  \* _start_gate_refunded
    running,              \* what the evaluation holding the lock was started by
    reoptimize_queued,    \* the place of a reoptimize's own evaluation on the lock
    \* history, read by properties only
    forced                \* the committed mode is a backstop's BOOST

dataVars    == <<active_mode, plan_mode_pending, deferred, backstop_holding>>
machineVars == <<last_fingerprint, plan_charge_context, plan_charge_granted,
                 suppress, export_start_owed, start_gate_refunded>>
lockVars    == <<running, reoptimize_queued>>
vars == <<dataVars, machineVars, lockVars, forced, manual_override, token>>

TypeOK ==
    /\ active_mode \in Modes
    /\ plan_mode_pending \in PlanModes \cup {NoMode}
    /\ deferred \in BOOLEAN
    /\ manual_override \in BOOLEAN
    /\ token \in Tokens
    /\ backstop_holding \in BOOLEAN
    /\ last_fingerprint \in Fingerprints \cup {NoFingerprint}
    /\ plan_charge_context \in Contexts \cup {NoContext}
    /\ plan_charge_granted \in SUBSET ChargeModes
    /\ suppress \in BOOLEAN
    /\ export_start_owed \in BOOLEAN
    /\ start_gate_refunded \in BOOLEAN
    /\ running \in {"none", "tick", "reoptimize"}
    /\ reoptimize_queued \in {"no", "next", "behind"}
    /\ forced \in BOOLEAN

Init ==
    /\ active_mode = "self_consumption"
    /\ plan_mode_pending = NoMode
    /\ deferred = FALSE
    /\ manual_override \in BOOLEAN
    /\ token = NoToken
    /\ backstop_holding = FALSE
    /\ last_fingerprint = NoFingerprint
    /\ plan_charge_context = NoContext
    /\ plan_charge_granted = {}
    /\ suppress = FALSE
    /\ export_start_owed = FALSE
    /\ start_gate_refunded = FALSE
    /\ running = "none"
    /\ reoptimize_queued = "no"
    /\ forced = FALSE

-----------------------------------------------------------------------------
(* The facade: which mode does this pass commit?                            *)

Starts(m, set) == m \in set /\ active_mode \notin set

Commit(m) == active_mode' = m /\ plan_mode_pending' = NoMode

\* _commit_or_hold_mode
CommitOrHold(m, allowed) ==
    \/ allowed /\ Commit(m)
    \/ /\ ~allowed
       /\ active_mode' = active_mode
       /\ plan_mode_pending' = IF m # active_mode THEN m ELSE NoMode

\* _epoch_grant_permits
EpochGrantPermits(tok, m) ==
    \/ ~tok.plan_charge_only /\ ~tok.export_start_only
    \/ tok.plan_charge_only /\ m \in ChargeModes
    \/ tok.export_start_only /\ m = "proactive_export"

\* mutant: the backstop asks its own conditions only
BackstopFiresUnpermitted(tok, price, p) == price # Placeholder /\ p.urgent

\* _backstop_context_permits, and an arm whose own conditions hold
BackstopFires(tok, price, p) ==
    tok.backstop_allowed /\ price # Placeholder /\ p.urgent

\* _release_backstop_hold: whether the forced charge is to be released
BackstopReleases(tok) ==
    backstop_holding /\ tok.backstop_allowed /\ active_mode \in ChargeModes

\* mutant: the latch dropped whether or not the pass might release
LatchAfterDropped(tok) == FALSE

\* the latch, on every other branch of _assign_active_mode
LatchAfter(tok) == backstop_holding /\ ~tok.backstop_allowed

\* the charge-start gate of _assign_active_mode
DefersChargeStart(tok, allowed, m) ==
    allowed /\ tok.charge_start_gated /\ Starts(m, ChargeModes)

(***************************************************************************)
(* The branches of compute_derived_values, as far as the mode goes.  Each  *)
(* says what becomes of the mode, the backstop latch, the forced history   *)
(* and data.mode_decision_unspent (u).                                     *)
(***************************************************************************)
EnterManualOverride ==
    /\ Commit("manual")
    /\ forced' = FALSE
    /\ UNCHANGED <<backstop_holding, deferred>>

NoPlan(p) ==
    /\ p.plan = "no_plan"
    /\ plan_mode_pending' = NoMode
    /\ UNCHANGED <<active_mode, backstop_holding, deferred, forced>>

SafetyGateBlocks(tok, p) ==
    /\ p.plan = "blocked"
    /\ p.deferred => active_mode # "proactive_export"
    /\ CommitOrHold("self_consumption", tok.allowed)
    /\ forced' = (forced /\ ~tok.allowed)
    /\ deferred' = p.deferred
    /\ UNCHANGED backstop_holding

ForceBoost(tok, price, p) ==
    /\ BackstopFires(tok, price, p)
    /\ Commit("boost_charging")
    /\ backstop_holding' = TRUE
    /\ forced' = TRUE

ReleaseBoost(tok, price, p) ==
    /\ ~BackstopFires(tok, price, p)
    /\ BackstopReleases(tok)
    /\ Commit(p.plan)
    /\ backstop_holding' = FALSE
    /\ forced' = FALSE

DeferChargeStart(tok, allowed, price, p) ==
    /\ ~BackstopFires(tok, price, p)
    /\ ~BackstopReleases(tok)
    /\ DefersChargeStart(tok, allowed, p.plan)
    /\ plan_mode_pending' = p.plan
    /\ backstop_holding' = LatchAfter(tok)
    /\ UNCHANGED <<active_mode, forced>>

FollowPlan(tok, allowed, price, p) ==
    /\ ~BackstopFires(tok, price, p)
    /\ ~BackstopReleases(tok)
    /\ ~DefersChargeStart(tok, allowed, p.plan)
    /\ CommitOrHold(p.plan, allowed)
    /\ backstop_holding' = LatchAfter(tok)
    /\ forced' = (forced /\ ~allowed)

AssignActiveMode(tok, price, p, u) ==
    LET allowed == tok.allowed /\ EpochGrantPermits(tok, p.plan) IN
    /\ p.plan \in PlanModes
    /\ p.deferred => active_mode # "proactive_export"
    /\ deferred' = p.deferred
    /\ \/ u = tok.unspent /\ ForceBoost(tok, price, p)
       \/ u = tok.unspent /\ ReleaseBoost(tok, price, p)
       \/ u /\ DeferChargeStart(tok, allowed, price, p)
       \/ u = tok.unspent /\ FollowPlan(tok, allowed, price, p)

ComputeDerivedValues(override, tok, price, p, u) ==
    \/ override /\ u = tok.unspent /\ EnterManualOverride
    \/ ~override /\ u = tok.unspent /\ NoPlan(p)
    \/ ~override /\ u = tok.unspent /\ SafetyGateBlocks(tok, p)
    \/ ~override /\ AssignActiveMode(tok, price, p, u)

-----------------------------------------------------------------------------
(* The token: may this evaluation decide at all?                            *)

(***************************************************************************)
(* _update_plan_charge_epoch.  The budget is cleared by a new context and  *)
(* by a suppression; the epoch advances when the plan of the previous pass *)
(* wants to start a charge whose budget is unspent.                        *)
(***************************************************************************)
BudgetIn(ctx) ==
    IF suppress \/ ctx # plan_charge_context THEN {} ELSE plan_charge_granted

\* mutant: an edge detector, without the memory of what was granted
PlanEpochMovesUnbudgeted(ctx, below_target) ==
    ~suppress /\ Starts(plan_mode_pending, ChargeModes) /\ below_target

PlanEpochMoves(ctx, below_target) ==
    /\ ~suppress
    /\ Starts(plan_mode_pending, ChargeModes)
    /\ below_target
    /\ plan_mode_pending \notin BudgetIn(ctx)

\* _update_export_start_epoch
ExportLifts == export_start_owed /\ ~deferred

ExportEpochMoves == ExportLifts /\ active_mode # "proactive_export"

\* mutant: the fingerprint without the epochs (before 2026-07-27)
DecisionAllowedByContext(ctx, below_target) ==
    last_fingerprint = NoFingerprint \/ last_fingerprint.ctx # ctx

\* the fingerprint differs from the stored one
DecisionAllowed(ctx, below_target) ==
    \/ last_fingerprint = NoFingerprint
    \/ last_fingerprint.ctx # ctx
    \/ last_fingerprint.stale
    \/ PlanEpochMoves(ctx, below_target)
    \/ ExportEpochMoves

\* _classify_grant_source in _START_GATE_EXEMPT_SOURCES
StartGateExempt(ctx) ==
    last_fingerprint # NoFingerprint /\ last_fingerprint.ctx.dw # ctx.dw

\* _apply_decision_token: the flags
Token(ctx, r) ==
    LET allowed   == DecisionAllowed(ctx, r.below_target)
        same_base == allowed /\ last_fingerprint.ctx = ctx
    IN  [allowed            |-> allowed,
         plan_charge_only   |-> /\ same_base
                                /\ \/ PlanEpochMoves(ctx, r.below_target)
                                   \/ ~ExportEpochMoves,
         export_start_only  |-> same_base /\ ExportEpochMoves,
         charge_start_gated |-> allowed /\ ~StartGateExempt(ctx) /\ r.boundary_gap,
         unspent            |-> FALSE,
         backstop_allowed   |-> TRUE]

(***************************************************************************)
(* _refund_deferred_charge_start puts the pre-grant fingerprint back.  An  *)
(* epoch that moved in this evaluation has then moved since it was stored. *)
(***************************************************************************)
PreGrantFingerprint(ctx, below_target) ==
    IF last_fingerprint = NoFingerprint THEN NoFingerprint
    ELSE [last_fingerprint EXCEPT
            !.stale = \/ @
                      \/ PlanEpochMoves(ctx, below_target)
                      \/ ExportEpochMoves]

FingerprintAfter(ctx, below_target, tok, unspent) ==
    IF ~tok.allowed THEN last_fingerprint
    ELSE IF unspent THEN PreGrantFingerprint(ctx, below_target)
    ELSE [ctx |-> ctx, stale |-> FALSE]

\* mutant: a grant that started no charge keeps the budget it took
BudgetAfterUnrefunded(ctx, below_target, mode) ==
    IF PlanEpochMoves(ctx, below_target)
    THEN BudgetIn(ctx) \cup {plan_mode_pending}
    ELSE BudgetIn(ctx)

\* the budget after the epoch update and _refund_unspent_plan_charge
BudgetAfter(ctx, below_target, mode) ==
    IF PlanEpochMoves(ctx, below_target) /\ mode \in ChargeModes
    THEN BudgetIn(ctx) \cup {plan_mode_pending}
    ELSE BudgetIn(ctx)

\* mutant: frozen evaluations write the latch too
OwedAfterAny(allowed, now_deferred) == now_deferred

\* _note_export_start_deferral, after _update_export_start_epoch
OwedAfter(allowed, now_deferred) ==
    IF allowed THEN now_deferred ELSE export_start_owed /\ ~ExportLifts

-----------------------------------------------------------------------------
(* evaluate_state_machine, under the lock                                   *)

(***************************************************************************)
(* The lock is fair.  Ticks, the coalesce timer and options changes start  *)
(* evaluations at any time; only a reoptimize's own evaluation is told     *)
(* apart, so it alone is queued.  It is next, or behind evaluations that   *)
(* already waited when the reoptimize ran.  Bound: one reoptimize at a     *)
(* time, the detectors have a cooldown.                                    *)
(***************************************************************************)
StartsEvaluation(kind) ==
    /\ running = "none"
    /\ running' = kind
    /\ \/ /\ kind = "tick"
          /\ reoptimize_queued \in {"no", "behind"}
          /\ \/ reoptimize_queued' = reoptimize_queued
             \/ reoptimize_queued = "behind" /\ reoptimize_queued' = "next"
       \/ /\ kind = "reoptimize"
          /\ reoptimize_queued = "next"
          /\ reoptimize_queued' = "no"

\* mutant: an invalidation that keeps the fingerprint
ForgetRefundOnly == UNCHANGED last_fingerprint /\ start_gate_refunded' = FALSE

ForgetFingerprint ==
    last_fingerprint' = NoFingerprint /\ start_gate_refunded' = FALSE

\* _handle_manual_override_timeout: no await between the facade and it
ManualOverrideTimeout ==
    /\ manual_override
    /\ manual_override' = FALSE
    /\ ForgetFingerprint

EvaluateBegin(kind, r, p) ==
    LET tok == Token(r.ctx, r)
    IN  \E unspent \in BOOLEAN :
        /\ StartsEvaluation(kind)
        /\ ComputeDerivedValues(manual_override, tok, r.ctx.price, p, unspent)
        /\ token' = [tok EXCEPT !.allowed = @ /\ ~unspent]
        /\ plan_charge_context' = r.ctx
        /\ plan_charge_granted' = BudgetAfter(r.ctx, r.below_target, active_mode')
        /\ suppress' = FALSE
        /\ export_start_owed' = OwedAfter(token'.allowed, deferred')
        /\ \/ /\ last_fingerprint' = FingerprintAfter(r.ctx, r.below_target,
                                                      tok, unspent)
              /\ start_gate_refunded' = unspent
              /\ UNCHANGED manual_override
           \/ ManualOverrideTimeout

\* the finally block
EvaluateEnd ==
    /\ running # "none"
    /\ running' = "none"
    /\ token' = NoToken
    /\ UNCHANGED <<dataVars, machineVars, reoptimize_queued, forced,
                   manual_override>>

-----------------------------------------------------------------------------
(* What happens beside an evaluation                                        *)

\* end of the startup grace, readiness restored, inverted export abandoned
InvalidateDecisionFingerprint ==
    /\ ForgetFingerprint
    /\ UNCHANGED <<dataVars, plan_charge_context, plan_charge_granted, suppress,
                   export_start_owed, lockVars, forced, manual_override, token>>

\* compute_derived_values with whatever flags are up
ComputeOutOfLock(override, price, p) ==
    \E u \in BOOLEAN : /\ ComputeDerivedValues(override, token, price, p, u)
                       /\ token' = [token EXCEPT !.unspent = u]

\* an options change, recomputed out of lock; its evaluation is a tick
RecomputeAndEvaluate(price, p) ==
    /\ ForgetFingerprint
    /\ ComputeOutOfLock(manual_override, price, p)
    /\ UNCHANGED <<plan_charge_context, plan_charge_granted, suppress,
                   export_start_owed, lockVars, manual_override>>

\* a load deviation or a solar event: invalidate_decision=False
Reoptimize(price, p) ==
    /\ reoptimize_queued = "no"
    /\ \/ reoptimize_queued' = "next"
       \/ running # "none" /\ reoptimize_queued' = "behind"
    /\ suppress' = TRUE
    /\ ComputeOutOfLock(manual_override, price, p)
    /\ UNCHANGED <<last_fingerprint, plan_charge_context, plan_charge_granted,
                   export_start_owed, start_gate_refunded, running,
                   manual_override>>

\* select.py, a manual pick: the override follows its options change, whose
\* listener runs as a RecomputeAndEvaluate (and an evaluation) of its own
PickManual ==
    /\ manual_override' = TRUE
    /\ UNCHANGED <<dataVars, machineVars, lockVars, forced, token>>

\* select.py, "automatic": the override is cleared before the options change,
\* whose listener recomputes in the same step; its evaluation is a tick
HandBack(price, p) ==
    /\ manual_override
    /\ manual_override' = FALSE
    /\ ForgetFingerprint
    /\ ComputeOutOfLock(FALSE, price, p)
    /\ UNCHANGED <<plan_charge_context, plan_charge_granted, suppress,
                   export_start_owed, lockVars>>

\* a pass tells an outage from a price, and no price from another
ReadPrices == {IF c.price = Placeholder THEN c.price ELSE "priced" : c \in Contexts}

Next ==
    \/ /\ running = "none"
       /\ \E kind \in {"tick", "reoptimize"}, r \in Readings, p \in Plannings :
             EvaluateBegin(kind, r, p)
    \/ EvaluateEnd
    \/ InvalidateDecisionFingerprint
    \/ \E price \in ReadPrices, p \in Plannings :
            \/ RecomputeAndEvaluate(price, p)
            \/ Reoptimize(price, p)
            \/ HandBack(price, p)
    \/ PickManual

Spec == Init /\ [][Next]_vars

-----------------------------------------------------------------------------
(* Properties                                                               *)

Begins == running = "none" /\ running' # "none"

ChargeStarts == active_mode \notin ChargeModes /\ active_mode' \in ChargeModes

(***************************************************************************)
(* While no evaluation holds the lock every decision flag is down, so a    *)
(* recompute that runs then has no permission left over from an earlier    *)
(* evaluation (the finally block of evaluate_state_machine).               *)
(***************************************************************************)
FlagsConfined == running = "none" => token = NoToken

(***************************************************************************)
(* A recompute between evaluations, whatever its plan and however urgent   *)
(* the backstop, changes no decision except to enter manual mode           *)
(* (async_recompute_and_evaluate's out-of-lock compute_derived_values).    *)
(***************************************************************************)
IdleRecomputeHolds ==
    [][running = "none" /\ running' = "none"
        => active_mode' \in {active_mode, "manual"}]_vars

(***************************************************************************)
(* Plan-charge budget is spent only by an evaluation that itself starts a  *)
(* charge: a grant that drifts to hold, meets the safety gate, an early    *)
(* exit or the charge-start gate leaves no spent budget behind (#1172).    *)
(***************************************************************************)
BudgetSpentOnStart ==
    [][plan_charge_granted' \subseteq plan_charge_granted \/ ChargeStarts]_vars

(***************************************************************************)
(* A BOOST that a backstop forced, and nothing has decided since, still    *)
(* has its release latch, so it cannot stay pinned once the backstop's     *)
(* conditions clear (_release_backstop_hold).                              *)
(***************************************************************************)
ForcedBoostReleasable ==
    forced => backstop_holding /\ active_mode = "boost_charging"

(***************************************************************************)
(* A token the facade handed back at the price boundary is granted again   *)
(* by the next evaluation that sees the same context, unless that one is   *)
(* handed back too (#1159, _refund_deferred_charge_start).                 *)
(***************************************************************************)
RefundIsHonoured ==
    [][Begins /\ start_gate_refunded /\ plan_charge_context' = plan_charge_context
        => token'.allowed \/ start_gate_refunded']_vars

(***************************************************************************)
(* A token granted by one epoch alone never starts the opposite direction: *)
(* a wanted charge never ends up exporting, and a released export start    *)
(* never ends up charging unless a backstop forces it.                     *)
(***************************************************************************)
EpochGrantNeverReverses ==
    [][Begins /\ ~forced =>
        /\ token'.plan_charge_only /\ ~token'.export_start_only
            /\ active_mode' = "proactive_export"
            => active_mode = "proactive_export"
        /\ token'.export_start_only /\ ~token'.plan_charge_only /\ ChargeStarts
            => forced']_vars

(***************************************************************************)
(* No step taken under a gated token starts a charge, in the lock or out   *)
(* of it, except a backstop (#1159: no charge start in the price-boundary  *)
(* gap on an ordinary grant).                                              *)
(***************************************************************************)
GatedTokenStartsNoCharge ==
    [][token'.charge_start_gated /\ ChargeStarts => forced']_vars

=============================================================================
