------------------------- MODULE DecisionGateProofs -------------------------
(* Theorems about DecisionGate and its budget for every set of contexts.    *)
EXTENDS DecisionGateBudget, TLAPS

-----------------------------------------------------------------------------
(* What one pass of compute_derived_values does to the data                 *)

LEMMA ComputeType ==
    ASSUME TypeOK, NEW override \in BOOLEAN, NEW tok \in Tokens, NEW price,
           NEW p \in Plannings, NEW u \in BOOLEAN,
           ComputeDerivedValues(override, tok, price, p, u)
    PROVE  /\ active_mode' \in Modes
           /\ plan_mode_pending' \in PlanModes \cup {NoMode}
           /\ deferred' \in BOOLEAN
           /\ backstop_holding' \in BOOLEAN
           /\ forced' \in BOOLEAN
<1>1. CASE override /\ EnterManualOverride
  BY <1>1 DEF EnterManualOverride, Commit, Modes, TypeOK
<1>2. CASE NoPlan(p)
  BY <1>2 DEF NoPlan, TypeOK
<1>3. CASE SafetyGateBlocks(tok, p)
  BY <1>3 DEF SafetyGateBlocks, CommitOrHold, Commit, TypeOK, Modes, PlanModes,
              Plannings
<1>4. CASE AssignActiveMode(tok, price, p, u)
  <2>1. p.plan \in PlanModes /\ deferred' = p.deferred /\ p.deferred \in BOOLEAN
    BY <1>4 DEF AssignActiveMode, Plannings
  <2>2. CASE ForceBoost(tok, price, p)
    BY <2>1, <2>2 DEF ForceBoost, Commit, Modes, PlanModes, ChargeModes, TypeOK
  <2>3. CASE ReleaseBoost(tok, price, p)
    BY <2>1, <2>3 DEF ReleaseBoost, Commit, Modes, TypeOK
  <2>4. CASE \E allowed \in BOOLEAN : DeferChargeStart(tok, allowed, price, p)
    BY <2>1, <2>4 DEF DeferChargeStart, LatchAfter, Modes, TypeOK
  <2>5. CASE \E allowed \in BOOLEAN : FollowPlan(tok, allowed, price, p)
    BY <2>1, <2>5 DEF FollowPlan, CommitOrHold, Commit, LatchAfter, Modes, TypeOK
  <2> QED
    BY <1>4, <2>2, <2>3, <2>4, <2>5 DEF AssignActiveMode
<1> QED
  BY <1>1, <1>2, <1>3, <1>4 DEF ComputeDerivedValues

-----------------------------------------------------------------------------
(* The token and what is stored of it                                       *)

LEMMA TokenType ==
    ASSUME NEW ctx, NEW r \in Readings
    PROVE  Token(ctx, r) \in Tokens
BY DEF Token, Tokens, Readings, DecisionAllowed, StartGateExempt,
       PlanEpochMoves, ExportEpochMoves, ExportLifts, Starts

LEMMA FingerprintType ==
    ASSUME TypeOK, NEW ctx \in Contexts, NEW below \in BOOLEAN, NEW tok, NEW unspent
    PROVE  FingerprintAfter(ctx, below, tok, unspent)
              \in Fingerprints \cup {NoFingerprint}
<1>1. PreGrantFingerprint(ctx, below) \in Fingerprints \cup {NoFingerprint}
  BY DEF PreGrantFingerprint, TypeOK, Fingerprints, PlanEpochMoves,
         ExportEpochMoves, ExportLifts, Starts
<1>2. [ctx |-> ctx, stale |-> FALSE] \in Fingerprints
  BY DEF Fingerprints
<1> QED
  BY <1>1, <1>2 DEF FingerprintAfter, TypeOK

LEMMA BudgetType ==
    ASSUME TypeOK, NEW ctx, NEW below, NEW mode
    PROVE  BudgetAfter(ctx, below, mode) \in SUBSET ChargeModes
BY DEF BudgetAfter, BudgetIn, PlanEpochMoves, Starts, TypeOK

LEMMA OwedType ==
    ASSUME TypeOK, NEW allowed \in BOOLEAN, NEW was_deferred \in BOOLEAN
    PROVE  OwedAfter(allowed, was_deferred) \in BOOLEAN
BY DEF OwedAfter, ExportLifts, TypeOK

-----------------------------------------------------------------------------
(* Type correctness                                                         *)

LEMMA InitType == Init => TypeOK
<1> SUFFICES ASSUME Init PROVE TypeOK
  OBVIOUS
<1>1. token \in Tokens
  BY DEF Init, NoToken, Tokens
<1>2. active_mode \in Modes /\ plan_mode_pending \in PlanModes \cup {NoMode}
  BY DEF Init, Modes, PlanModes
<1> QED
  BY <1>1, <1>2 DEF Init, TypeOK

LEMMA BeginType ==
    ASSUME TypeOK, NEW kind \in {"tick", "reoptimize"}, NEW r \in Readings,
           NEW p \in Plannings, EvaluateBegin(kind, r, p)
    PROVE  TypeOK'
<1> DEFINE tok == Token(r.ctx, r)
<1>1. tok \in Tokens /\ r.ctx \in Contexts /\ r.below_target \in BOOLEAN
  BY TokenType DEF Readings
<1> HIDE DEF tok
<1>2. PICK unspent \in BOOLEAN :
        /\ StartsEvaluation(kind)
        /\ ComputeDerivedValues(manual_override, tok, r.ctx.price, p, unspent)
        /\ token' = [tok EXCEPT !.allowed = @ /\ ~unspent]
        /\ plan_charge_context' = r.ctx
        /\ plan_charge_granted' = BudgetAfter(r.ctx, r.below_target, active_mode')
        /\ suppress' = FALSE
        /\ export_start_owed' = OwedAfter(token'.allowed, deferred')
        /\ \/ /\ last_fingerprint' = FingerprintAfter(r.ctx, r.below_target,
                                                      tok, unspent)
              /\ start_gate_refunded' = unspent
              /\ UNCHANGED manual_override
           \/ ManualOverrideTimeout
  BY DEF EvaluateBegin, tok
<1>3. /\ active_mode' \in Modes
      /\ plan_mode_pending' \in PlanModes \cup {NoMode}
      /\ deferred' \in BOOLEAN
      /\ backstop_holding' \in BOOLEAN
      /\ forced' \in BOOLEAN
  BY <1>1, <1>2, ComputeType DEF TypeOK
<1>4. token' \in Tokens
  BY <1>1, <1>2 DEF Tokens
<1>5. /\ last_fingerprint' \in Fingerprints \cup {NoFingerprint}
      /\ start_gate_refunded' \in BOOLEAN
      /\ manual_override' \in BOOLEAN
  BY <1>1, <1>2, FingerprintType DEF ManualOverrideTimeout, ForgetFingerprint, TypeOK
<1>6. /\ plan_charge_granted' \in SUBSET ChargeModes
      /\ export_start_owed' \in BOOLEAN
  <2>1. token'.allowed \in BOOLEAN
    BY <1>4 DEF Tokens
  <2> QED
    BY <1>2, <1>3, <2>1, BudgetType, OwedType
<1>7. /\ running' \in {"none", "tick", "reoptimize"}
      /\ reoptimize_queued' \in {"no", "next", "behind"}
  BY <1>2 DEF StartsEvaluation, TypeOK
<1> QED
  BY <1>1, <1>2, <1>3, <1>4, <1>5, <1>6, <1>7 DEF TypeOK

LEMMA OutOfLockType ==
    ASSUME TypeOK, NEW override \in BOOLEAN, NEW price, NEW p \in Plannings,
           ComputeOutOfLock(override, price, p)
    PROVE  /\ active_mode' \in Modes
           /\ plan_mode_pending' \in PlanModes \cup {NoMode}
           /\ deferred' \in BOOLEAN
           /\ backstop_holding' \in BOOLEAN
           /\ forced' \in BOOLEAN
           /\ token' \in Tokens
<1>1. PICK u \in BOOLEAN : /\ ComputeDerivedValues(override, token, price, p, u)
                           /\ token' = [token EXCEPT !.unspent = u]
  BY DEF ComputeOutOfLock
<1>2. token \in Tokens
  BY DEF TypeOK
<1>3. token' \in Tokens
  BY <1>1, <1>2 DEF Tokens
<1> QED
  BY <1>1, <1>2, <1>3, ComputeType

(* Every variable of the gate stays in its domain.                          *)
THEOREM TypeCorrect == Spec => []TypeOK
<1>1. TypeOK /\ [Next]_vars => TypeOK'
  <2> SUFFICES ASSUME TypeOK, [Next]_vars PROVE TypeOK'
    OBVIOUS
  <2> USE DEF machineVars, lockVars, dataVars
  <2>1. CASE \E kind \in {"tick", "reoptimize"}, r \in Readings, p \in Plannings :
                EvaluateBegin(kind, r, p)
    BY <2>1, BeginType
  <2>2. CASE EvaluateEnd
    BY <2>2 DEF EvaluateEnd, TypeOK, Tokens, NoToken
  <2>3. CASE InvalidateDecisionFingerprint
    BY <2>3 DEF InvalidateDecisionFingerprint, ForgetFingerprint, TypeOK
  <2>4. ASSUME NEW price \in ReadPrices, NEW p \in Plannings,
               RecomputeAndEvaluate(price, p)
        PROVE  TypeOK'
    <3>1. manual_override \in BOOLEAN
      BY DEF TypeOK
    <3> QED
      BY <2>4, <3>1, OutOfLockType
         DEF RecomputeAndEvaluate, ForgetFingerprint, TypeOK
  <2>5. ASSUME NEW price \in ReadPrices, NEW p \in Plannings, Reoptimize(price, p)
        PROVE  TypeOK'
    <3>1. manual_override \in BOOLEAN
      BY DEF TypeOK
    <3> QED
      BY <2>5, <3>1, OutOfLockType DEF Reoptimize, TypeOK
  <2>6. ASSUME NEW price \in ReadPrices, NEW p \in Plannings, HandBack(price, p)
        PROVE  TypeOK'
    BY <2>6, OutOfLockType DEF HandBack, ForgetFingerprint, TypeOK
  <2>7. CASE PickManual
    BY <2>7 DEF PickManual, TypeOK
  <2>8. CASE UNCHANGED vars
    BY <2>8 DEF vars, TypeOK
  <2> QED
    BY <2>1, <2>2, <2>3, <2>4, <2>5, <2>6, <2>7, <2>8 DEF Next
<1> QED
  BY InitType, <1>1, PTL DEF Spec

-----------------------------------------------------------------------------
(* The flags are down outside the lock                                      *)

LEMMA UnspentNeedsToken ==
    ASSUME NEW override, NEW tok, NEW price, NEW p, NEW u \in BOOLEAN,
           ComputeDerivedValues(override, tok, price, p, u)
    PROVE  u = tok.unspent \/ (u /\ tok.allowed /\ ~override)
BY DEF ComputeDerivedValues, AssignActiveMode, DeferChargeStart, DefersChargeStart

LEMMA IdleFlagsStayDown ==
    ASSUME NEW override, NEW price, NEW p, token = NoToken,
           ComputeOutOfLock(override, price, p)
    PROVE  token' = NoToken
<1>1. PICK u \in BOOLEAN : /\ ComputeDerivedValues(override, token, price, p, u)
                           /\ token' = [token EXCEPT !.unspent = u]
  BY DEF ComputeOutOfLock
<1>2. u = FALSE
  BY <1>1, UnspentNeedsToken DEF NoToken
<1> QED
  BY <1>1, <1>2 DEF NoToken

(* While no evaluation holds the lock every decision flag is down.          *)
THEOREM FlagsConfinedCorrect == Spec => []FlagsConfined
<1>1. Init => FlagsConfined
  BY DEF Init, FlagsConfined
<1>2. FlagsConfined /\ [Next]_vars => FlagsConfined'
  <2> SUFFICES ASSUME FlagsConfined, [Next]_vars PROVE FlagsConfined'
    OBVIOUS
  <2> USE DEF lockVars
  <2>1. CASE \E kind \in {"tick", "reoptimize"}, r \in Readings, p \in Plannings :
                EvaluateBegin(kind, r, p)
    BY <2>1 DEF EvaluateBegin, StartsEvaluation, FlagsConfined
  <2>2. CASE EvaluateEnd
    BY <2>2 DEF EvaluateEnd, FlagsConfined
  <2>3. CASE InvalidateDecisionFingerprint
    BY <2>3 DEF InvalidateDecisionFingerprint, FlagsConfined
  <2>4. CASE \E price \in ReadPrices, p \in Plannings : RecomputeAndEvaluate(price, p)
    BY <2>4, IdleFlagsStayDown DEF RecomputeAndEvaluate, FlagsConfined
  <2>5. CASE \E price \in ReadPrices, p \in Plannings : Reoptimize(price, p)
    BY <2>5, IdleFlagsStayDown DEF Reoptimize, FlagsConfined
  <2>6. CASE \E price \in ReadPrices, p \in Plannings : HandBack(price, p)
    BY <2>6, IdleFlagsStayDown DEF HandBack, FlagsConfined
  <2>7. CASE PickManual
    BY <2>7 DEF PickManual, FlagsConfined
  <2>8. CASE UNCHANGED vars
    BY <2>8 DEF vars, FlagsConfined
  <2> QED
    BY <2>1, <2>2, <2>3, <2>4, <2>5, <2>6, <2>7, <2>8 DEF Next
<1> QED
  BY <1>1, <1>2, PTL DEF Spec

LEMMA FrozenHolds ==
    ASSUME NEW override, NEW price, NEW p, token = NoToken,
           ComputeOutOfLock(override, price, p)
    PROVE  active_mode' \in {active_mode, "manual"}
<1>1. PICK u \in BOOLEAN : ComputeDerivedValues(override, token, price, p, u)
  BY DEF ComputeOutOfLock
<1>2. ~token.allowed /\ ~token.backstop_allowed
  BY DEF NoToken
<1>3. CASE EnterManualOverride
  BY <1>3 DEF EnterManualOverride, Commit
<1>4. CASE NoPlan(p)
  BY <1>4 DEF NoPlan
<1>5. CASE SafetyGateBlocks(token, p)
  BY <1>5, <1>2 DEF SafetyGateBlocks, CommitOrHold
<1>6. CASE AssignActiveMode(token, price, p, u)
  BY <1>6, <1>2 DEF AssignActiveMode, ForceBoost, BackstopFires, ReleaseBoost,
        BackstopReleases, DeferChargeStart, FollowPlan, CommitOrHold
<1> QED
  BY <1>1, <1>3, <1>4, <1>5, <1>6 DEF ComputeDerivedValues

(* A recompute between evaluations changes no decision.                     *)
THEOREM IdleRecomputeHoldsCorrect == Spec => IdleRecomputeHolds
<1> DEFINE Holds == running = "none" /\ running' = "none"
                    => active_mode' \in {active_mode, "manual"}
<1>1. FlagsConfined /\ [Next]_vars => [Holds]_vars
  <2> SUFFICES ASSUME FlagsConfined, Next, running = "none", running' = "none"
               PROVE  active_mode' \in {active_mode, "manual"}
    BY DEF vars
  <2>1. token = NoToken
    BY DEF FlagsConfined
  <2>2. ~ \E kind \in {"tick", "reoptimize"}, r \in Readings, p \in Plannings :
              EvaluateBegin(kind, r, p)
    BY DEF EvaluateBegin, StartsEvaluation
  <2>3. CASE EvaluateEnd \/ InvalidateDecisionFingerprint \/ PickManual
    BY <2>3 DEF EvaluateEnd, InvalidateDecisionFingerprint, PickManual, dataVars
  <2>4. CASE \E price \in ReadPrices, p \in Plannings :
                \/ RecomputeAndEvaluate(price, p)
                \/ Reoptimize(price, p)
                \/ HandBack(price, p)
    BY <2>1, <2>4, FrozenHolds DEF RecomputeAndEvaluate, Reoptimize, HandBack
  <2> QED
    BY <2>2, <2>3, <2>4 DEF Next
<1> QED
  BY <1>1, FlagsConfinedCorrect, PTL DEF Spec, IdleRecomputeHolds

-----------------------------------------------------------------------------
(* The backstop's latch                                                     *)

LEMMA ComputeKeepsLatch ==
    ASSUME ForcedBoostReleasable, NEW override, NEW tok, NEW price,
           NEW p \in Plannings, NEW u,
           ComputeDerivedValues(override, tok, price, p, u)
    PROVE  ForcedBoostReleasable'
<1>1. CASE EnterManualOverride
  BY <1>1 DEF EnterManualOverride, ForcedBoostReleasable
<1>2. CASE NoPlan(p)
  BY <1>2 DEF NoPlan, ForcedBoostReleasable
<1>3. CASE SafetyGateBlocks(tok, p)
  BY <1>3 DEF SafetyGateBlocks, CommitOrHold, ForcedBoostReleasable
<1>4. CASE ForceBoost(tok, price, p)
  BY <1>4 DEF ForceBoost, Commit, ForcedBoostReleasable
<1>5. CASE ReleaseBoost(tok, price, p)
  BY <1>5 DEF ReleaseBoost, ForcedBoostReleasable
<1>6. ASSUME NEW allowed, DeferChargeStart(tok, allowed, price, p)
      PROVE  ForcedBoostReleasable'
  BY <1>6 DEF DeferChargeStart, DefersChargeStart, Starts, ChargeModes,
              ForcedBoostReleasable
<1>7. ASSUME NEW allowed, FollowPlan(tok, allowed, price, p)
      PROVE  ForcedBoostReleasable'
  BY <1>7 DEF FollowPlan, BackstopReleases, LatchAfter, CommitOrHold,
              ChargeModes, ForcedBoostReleasable
<1> QED
  BY <1>1, <1>2, <1>3, <1>4, <1>5, <1>6, <1>7
     DEF ComputeDerivedValues, AssignActiveMode

(* A BOOST that a backstop forced still has its release latch.              *)
THEOREM ForcedBoostReleasableCorrect == Spec => []ForcedBoostReleasable
<1>1. Init => ForcedBoostReleasable
  BY DEF Init, ForcedBoostReleasable
<1>2. ForcedBoostReleasable /\ [Next]_vars => ForcedBoostReleasable'
  <2> SUFFICES ASSUME ForcedBoostReleasable, [Next]_vars
               PROVE  ForcedBoostReleasable'
    OBVIOUS
  <2>1. CASE \E kind \in {"tick", "reoptimize"}, r \in Readings, p \in Plannings :
                EvaluateBegin(kind, r, p)
    BY <2>1, ComputeKeepsLatch DEF EvaluateBegin
  <2>2. CASE \/ EvaluateEnd \/ InvalidateDecisionFingerprint \/ PickManual
             \/ UNCHANGED vars
    BY <2>2 DEF EvaluateEnd, InvalidateDecisionFingerprint, PickManual, vars,
                dataVars, ForcedBoostReleasable
  <2>3. CASE \E price \in ReadPrices, p \in Plannings :
                \/ RecomputeAndEvaluate(price, p)
                \/ Reoptimize(price, p)
                \/ HandBack(price, p)
    BY <2>3, ComputeKeepsLatch
       DEF RecomputeAndEvaluate, Reoptimize, HandBack, ComputeOutOfLock
  <2> QED
    BY <2>1, <2>2, <2>3 DEF Next
<1> QED
  BY <1>1, <1>2, PTL DEF Spec

-----------------------------------------------------------------------------
(* The plan-charge budget                                                   *)

(* Plan-charge budget is spent only by an evaluation that starts a charge.  *)
THEOREM BudgetSpentOnStartCorrect == Spec => BudgetSpentOnStart
<1> DEFINE Spends == plan_charge_granted' \subseteq plan_charge_granted \/ ChargeStarts
<1>1. [Next]_vars => [Spends]_vars
  <2> SUFFICES ASSUME Next PROVE Spends
    OBVIOUS
  <2>1. ASSUME NEW kind \in {"tick", "reoptimize"}, NEW r \in Readings,
               NEW p \in Plannings, EvaluateBegin(kind, r, p)
        PROVE  Spends
    BY <2>1 DEF EvaluateBegin, BudgetAfter, BudgetIn, PlanEpochMoves, Starts,
                ChargeStarts
  <2>2. CASE \/ EvaluateEnd \/ InvalidateDecisionFingerprint \/ PickManual
    BY <2>2 DEF EvaluateEnd, InvalidateDecisionFingerprint, PickManual, machineVars
  <2>3. CASE \E price \in ReadPrices, p \in Plannings :
                \/ RecomputeAndEvaluate(price, p)
                \/ Reoptimize(price, p)
                \/ HandBack(price, p)
    BY <2>3 DEF RecomputeAndEvaluate, Reoptimize, HandBack
  <2> QED
    BY <2>1, <2>2, <2>3 DEF Next
<1> QED
  BY <1>1, PTL DEF Spec, BudgetSpentOnStart

-----------------------------------------------------------------------------
(* A refunded token is granted again                                        *)

(***************************************************************************)
(* After a refund the stored fingerprint still differs from the one that   *)
(* the next evaluation in the same context will see.                       *)
(***************************************************************************)
RefundOwed ==
    start_gate_refunded =>
        \/ last_fingerprint = NoFingerprint
        \/ last_fingerprint.ctx # plan_charge_context
        \/ last_fingerprint.stale

LEMMA RefundOwedBegin ==
    ASSUME TypeOK, NEW kind \in {"tick", "reoptimize"}, NEW r \in Readings,
           NEW p \in Plannings, EvaluateBegin(kind, r, p)
    PROVE  RefundOwed'
<1> DEFINE tok == Token(r.ctx, r)
<1>1. PICK unspent \in BOOLEAN :
        /\ ComputeDerivedValues(manual_override, tok, r.ctx.price, p, unspent)
        /\ plan_charge_context' = r.ctx
        /\ \/ /\ last_fingerprint' = FingerprintAfter(r.ctx, r.below_target,
                                                      tok, unspent)
              /\ start_gate_refunded' = unspent
           \/ ManualOverrideTimeout
  BY DEF EvaluateBegin
<1>2. tok.unspent = FALSE /\ tok.allowed = DecisionAllowed(r.ctx, r.below_target)
  BY DEF Token
<1>3. CASE ManualOverrideTimeout \/ ~unspent
  BY <1>1, <1>3 DEF ManualOverrideTimeout, ForgetFingerprint, RefundOwed
<1>4. CASE ~ManualOverrideTimeout /\ unspent
  <2>1. DecisionAllowed(r.ctx, r.below_target)
    BY <1>1, <1>2, <1>4, UnspentNeedsToken
  <2>2. last_fingerprint' = PreGrantFingerprint(r.ctx, r.below_target)
    BY <1>1, <1>2, <1>4, <2>1 DEF FingerprintAfter
  <2>3. CASE last_fingerprint = NoFingerprint
    BY <2>2, <2>3 DEF PreGrantFingerprint, RefundOwed
  <2>4. CASE last_fingerprint # NoFingerprint
    <3>1. last_fingerprint \in Fingerprints
      BY <2>4 DEF TypeOK
    <3>2. /\ last_fingerprint'.ctx = last_fingerprint.ctx
          /\ last_fingerprint'.stale = (\/ last_fingerprint.stale
                                        \/ PlanEpochMoves(r.ctx, r.below_target)
                                        \/ ExportEpochMoves)
      BY <2>2, <2>4, <3>1 DEF PreGrantFingerprint, Fingerprints
    <3> QED
      BY <1>1, <2>1, <2>4, <3>2 DEF DecisionAllowed, RefundOwed
  <2> QED
    BY <2>3, <2>4
<1> QED
  BY <1>3, <1>4

LEMMA RefundOwedInvariant == Spec => []RefundOwed
<1>1. Init => RefundOwed
  BY DEF Init, RefundOwed
<1>2. TypeOK /\ RefundOwed /\ [Next]_vars => RefundOwed'
  <2> SUFFICES ASSUME TypeOK, RefundOwed, [Next]_vars PROVE RefundOwed'
    OBVIOUS
  <2>1. CASE \E kind \in {"tick", "reoptimize"}, r \in Readings, p \in Plannings :
                EvaluateBegin(kind, r, p)
    BY <2>1, RefundOwedBegin
  <2>2. CASE EvaluateEnd \/ PickManual \/ UNCHANGED vars
    BY <2>2 DEF EvaluateEnd, PickManual, vars, machineVars, RefundOwed
  <2>3. CASE \/ InvalidateDecisionFingerprint
             \/ \E price \in ReadPrices, p \in Plannings :
                    RecomputeAndEvaluate(price, p) \/ HandBack(price, p)
    BY <2>3 DEF InvalidateDecisionFingerprint, RecomputeAndEvaluate, HandBack,
                ForgetFingerprint, RefundOwed
  <2>4. CASE \E price \in ReadPrices, p \in Plannings : Reoptimize(price, p)
    BY <2>4 DEF Reoptimize, RefundOwed
  <2> QED
    BY <2>1, <2>2, <2>3, <2>4 DEF Next
<1> QED
  BY <1>1, <1>2, TypeCorrect, PTL DEF Spec

(* A token handed back at the price boundary is granted again.              *)
THEOREM RefundIsHonouredCorrect == Spec => RefundIsHonoured
<1> DEFINE Honours ==
        Begins /\ start_gate_refunded /\ plan_charge_context' = plan_charge_context
            => token'.allowed \/ start_gate_refunded'
<1>1. RefundOwed /\ [Next]_vars => [Honours]_vars
  <2> SUFFICES ASSUME RefundOwed, Next, Begins, start_gate_refunded,
                      plan_charge_context' = plan_charge_context
               PROVE  token'.allowed \/ start_gate_refunded'
    OBVIOUS
  <2>1. PICK kind \in {"tick", "reoptimize"}, r \in Readings, p \in Plannings :
              EvaluateBegin(kind, r, p)
    BY DEF Next, Begins, EvaluateEnd, InvalidateDecisionFingerprint, PickManual,
           RecomputeAndEvaluate, Reoptimize, HandBack, lockVars
  <2> DEFINE tok == Token(r.ctx, r)
  <2>2. PICK unspent \in BOOLEAN :
          /\ ComputeDerivedValues(manual_override, tok, r.ctx.price, p, unspent)
          /\ token' = [tok EXCEPT !.allowed = @ /\ ~unspent]
          /\ plan_charge_context' = r.ctx
          /\ start_gate_refunded' = unspent \/ ManualOverrideTimeout
    BY <2>1 DEF EvaluateBegin
  <2>3. tok.allowed /\ ~tok.unspent
    BY <2>2 DEF Token, DecisionAllowed, RefundOwed
  <2>4. token'.allowed = ~unspent
    BY <2>2, <2>3 DEF Token
  <2>5. ManualOverrideTimeout => ~unspent
    BY <2>2, <2>3, UnspentNeedsToken DEF ManualOverrideTimeout
  <2>6. CASE unspent
    <3>1. start_gate_refunded' = TRUE
      BY <2>2, <2>5, <2>6
    <3> QED
      BY <3>1
  <2>7. CASE ~unspent
    <3>1. token'.allowed = TRUE
      BY <2>4, <2>7
    <3> QED
      BY <3>1
  <2> QED
    BY <2>6, <2>7
<1> QED
  BY <1>1, RefundOwedInvariant, PTL DEF Spec, RefundIsHonoured

-----------------------------------------------------------------------------
(* What a restricted token may start                                        *)

LEMMA GatedComputeStartsNoCharge ==
    ASSUME NEW override, NEW tok, NEW price, NEW p \in Plannings, NEW u,
           ComputeDerivedValues(override, tok, price, p, u),
           tok.charge_start_gated, ChargeStarts
    PROVE  forced'
<1> USE DEF ChargeStarts
<1>1. CASE EnterManualOverride
  BY <1>1 DEF EnterManualOverride, Commit, ChargeModes
<1>2. CASE NoPlan(p)
  BY <1>2 DEF NoPlan
<1>3. CASE SafetyGateBlocks(tok, p)
  BY <1>3 DEF SafetyGateBlocks, CommitOrHold, Commit, ChargeModes
<1>4. CASE ForceBoost(tok, price, p)
  BY <1>4 DEF ForceBoost
<1>5. CASE ReleaseBoost(tok, price, p)
  BY <1>5 DEF ReleaseBoost, BackstopReleases
<1>6. ASSUME NEW allowed, DeferChargeStart(tok, allowed, price, p)
      PROVE  FALSE
  BY <1>6 DEF DeferChargeStart
<1>7. ASSUME NEW allowed, FollowPlan(tok, allowed, price, p)
      PROVE  FALSE
  BY <1>7 DEF FollowPlan, CommitOrHold, Commit, DefersChargeStart, Starts
<1> QED
  BY <1>1, <1>2, <1>3, <1>4, <1>5, <1>6, <1>7
     DEF ComputeDerivedValues, AssignActiveMode

(* No step taken under a gated token starts a charge, except a backstop.    *)
THEOREM GatedTokenStartsNoChargeCorrect == Spec => GatedTokenStartsNoCharge
<1> DEFINE Gated == token'.charge_start_gated /\ ChargeStarts => forced'
<1>1. TypeOK /\ [Next]_vars => [Gated]_vars
  <2> SUFFICES ASSUME TypeOK, Next, token'.charge_start_gated, ChargeStarts
               PROVE  forced'
    OBVIOUS
  <2>1. ASSUME NEW kind \in {"tick", "reoptimize"}, NEW r \in Readings,
               NEW p \in Plannings, EvaluateBegin(kind, r, p)
        PROVE  forced'
    <3>1. PICK unspent \in BOOLEAN :
            /\ ComputeDerivedValues(manual_override, Token(r.ctx, r), r.ctx.price,
                                    p, unspent)
            /\ token' = [Token(r.ctx, r) EXCEPT !.allowed = @ /\ ~unspent]
      BY <2>1 DEF EvaluateBegin
    <3>2. Token(r.ctx, r).charge_start_gated
      BY <3>1, TokenType DEF Tokens
    <3> QED
      BY <3>1, <3>2, GatedComputeStartsNoCharge
  <2>2. ASSUME NEW override, NEW price, NEW p \in Plannings,
               ComputeOutOfLock(override, price, p)
        PROVE  forced'
    <3>1. PICK u \in BOOLEAN : /\ ComputeDerivedValues(override, token, price, p, u)
                               /\ token' = [token EXCEPT !.unspent = u]
      BY <2>2 DEF ComputeOutOfLock
    <3>2. token.charge_start_gated
      BY <3>1 DEF TypeOK, Tokens
    <3> QED
      BY <3>1, <3>2, GatedComputeStartsNoCharge
  <2>3. CASE \/ EvaluateEnd \/ InvalidateDecisionFingerprint \/ PickManual
    BY <2>3 DEF EvaluateEnd, InvalidateDecisionFingerprint, PickManual, dataVars,
                ChargeStarts
  <2> QED
    BY <2>1, <2>2, <2>3 DEF Next, RecomputeAndEvaluate, Reoptimize, HandBack
<1> QED
  BY <1>1, TypeCorrect, PTL DEF Spec, GatedTokenStartsNoCharge

(***************************************************************************)
(* The latch of a committed charge belongs to a backstop's BOOST, and a    *)
(* token comes with the backstop's permission.  Without this a release     *)
(* could commit an export under a token that may only start a charge.      *)
(***************************************************************************)
LatchBelongs ==
    /\ backstop_holding /\ active_mode \in ChargeModes => forced
    /\ token.allowed => token.backstop_allowed

LEMMA ComputeLatchBelongs ==
    ASSUME LatchBelongs, NEW override, NEW tok, NEW price, NEW p \in Plannings,
           NEW u, tok.allowed => tok.backstop_allowed,
           ComputeDerivedValues(override, tok, price, p, u)
    PROVE  backstop_holding' /\ active_mode' \in ChargeModes => forced'
<1> USE DEF LatchBelongs
<1>1. CASE EnterManualOverride
  BY <1>1 DEF EnterManualOverride, Commit, ChargeModes
<1>2. CASE NoPlan(p)
  BY <1>2 DEF NoPlan
<1>3. CASE SafetyGateBlocks(tok, p)
  BY <1>3 DEF SafetyGateBlocks, CommitOrHold, Commit, ChargeModes
<1>4. CASE ForceBoost(tok, price, p)
  BY <1>4 DEF ForceBoost
<1>5. CASE ReleaseBoost(tok, price, p)
  BY <1>5 DEF ReleaseBoost
<1>6. ASSUME NEW allowed, DeferChargeStart(tok, allowed, price, p)
      PROVE  active_mode' \notin ChargeModes
  BY <1>6 DEF DeferChargeStart, DefersChargeStart, Starts
<1>7. CASE FollowPlan(tok, tok.allowed /\ EpochGrantPermits(tok, p.plan), price, p)
  BY <1>7 DEF FollowPlan, LatchAfter, CommitOrHold
<1> QED
  BY <1>1, <1>2, <1>3, <1>4, <1>5, <1>6, <1>7
     DEF ComputeDerivedValues, AssignActiveMode

LEMMA LatchBelongsInvariant == Spec => []LatchBelongs
<1>1. Init => LatchBelongs
  BY DEF Init, LatchBelongs, NoToken
<1>2. TypeOK /\ LatchBelongs /\ [Next]_vars => LatchBelongs'
  <2> SUFFICES ASSUME TypeOK, LatchBelongs, [Next]_vars PROVE LatchBelongs'
    OBVIOUS
  <2>1. ASSUME NEW kind \in {"tick", "reoptimize"}, NEW r \in Readings,
               NEW p \in Plannings, EvaluateBegin(kind, r, p)
        PROVE  LatchBelongs'
    <3>1. PICK unspent \in BOOLEAN :
            /\ ComputeDerivedValues(manual_override, Token(r.ctx, r), r.ctx.price,
                                    p, unspent)
            /\ token' = [Token(r.ctx, r) EXCEPT !.allowed = @ /\ ~unspent]
      BY <2>1 DEF EvaluateBegin
    <3>2. Token(r.ctx, r).backstop_allowed /\ token'.backstop_allowed
      BY <3>1 DEF Token
    <3> QED
      BY <3>1, <3>2, ComputeLatchBelongs DEF LatchBelongs
  <2>2. ASSUME NEW override, NEW price, NEW p \in Plannings,
               ComputeOutOfLock(override, price, p)
        PROVE  LatchBelongs'
    <3>1. PICK u \in BOOLEAN : /\ ComputeDerivedValues(override, token, price, p, u)
                               /\ token' = [token EXCEPT !.unspent = u]
      BY <2>2 DEF ComputeOutOfLock
    <3>2. token'.allowed => token'.backstop_allowed
      BY <3>1 DEF LatchBelongs, TypeOK, Tokens
    <3> QED
      BY <3>1, <3>2, ComputeLatchBelongs DEF LatchBelongs
  <2>3. CASE EvaluateEnd
    BY <2>3 DEF EvaluateEnd, dataVars, NoToken, LatchBelongs
  <2>4. CASE InvalidateDecisionFingerprint \/ PickManual \/ UNCHANGED vars
    BY <2>4 DEF InvalidateDecisionFingerprint, PickManual, vars, dataVars,
                LatchBelongs
  <2> QED
    BY <2>1, <2>2, <2>3, <2>4 DEF Next, RecomputeAndEvaluate, Reoptimize, HandBack
<1> QED
  BY <1>1, <1>2, TypeCorrect, PTL DEF Spec

LEMMA EpochComputeNeverReverses ==
    ASSUME LatchBelongs, ~forced, NEW override, NEW tok, NEW price,
           NEW p \in Plannings, NEW u,
           ComputeDerivedValues(override, tok, price, p, u)
    PROVE  /\ /\ tok.plan_charge_only /\ ~tok.export_start_only
              /\ active_mode' = "proactive_export"
              => active_mode = "proactive_export"
           /\ tok.export_start_only /\ ~tok.plan_charge_only /\ ChargeStarts
              => forced'
<1> USE DEF ChargeStarts, ChargeModes
<1>1. CASE EnterManualOverride
  BY <1>1 DEF EnterManualOverride, Commit
<1>2. CASE NoPlan(p)
  BY <1>2 DEF NoPlan
<1>3. CASE SafetyGateBlocks(tok, p)
  BY <1>3 DEF SafetyGateBlocks, CommitOrHold, Commit
<1>4. CASE ForceBoost(tok, price, p)
  BY <1>4 DEF ForceBoost, Commit
<1>5. ReleaseBoost(tok, price, p) => FALSE
  BY DEF ReleaseBoost, BackstopReleases, LatchBelongs
<1>6. ASSUME NEW allowed, DeferChargeStart(tok, allowed, price, p)
      PROVE  active_mode' = active_mode
  BY <1>6 DEF DeferChargeStart
<1>7. CASE FollowPlan(tok, tok.allowed /\ EpochGrantPermits(tok, p.plan), price, p)
  BY <1>7 DEF FollowPlan, CommitOrHold, Commit, EpochGrantPermits
<1> QED
  BY <1>1, <1>2, <1>3, <1>4, <1>5, <1>6, <1>7
     DEF ComputeDerivedValues, AssignActiveMode

(* A token granted by one epoch alone never starts the opposite direction.  *)
THEOREM EpochGrantNeverReversesCorrect == Spec => EpochGrantNeverReverses
<1> DEFINE OneWay ==
      Begins /\ ~forced =>
        /\ token'.plan_charge_only /\ ~token'.export_start_only
            /\ active_mode' = "proactive_export"
            => active_mode = "proactive_export"
        /\ token'.export_start_only /\ ~token'.plan_charge_only /\ ChargeStarts
            => forced'
<1>1. LatchBelongs /\ [Next]_vars => [OneWay]_vars
  <2> SUFFICES ASSUME LatchBelongs, Next, Begins, ~forced PROVE OneWay
    OBVIOUS
  <2>1. PICK kind \in {"tick", "reoptimize"}, r \in Readings, p \in Plannings :
              EvaluateBegin(kind, r, p)
    BY DEF Next, Begins, EvaluateEnd, InvalidateDecisionFingerprint, PickManual,
           RecomputeAndEvaluate, Reoptimize, HandBack, lockVars
  <2> DEFINE tok == Token(r.ctx, r)
  <2>2. PICK unspent \in BOOLEAN :
          /\ ComputeDerivedValues(manual_override, tok, r.ctx.price, p, unspent)
          /\ token' = [tok EXCEPT !.allowed = @ /\ ~unspent]
    BY <2>1 DEF EvaluateBegin
  <2>3. /\ token'.plan_charge_only = tok.plan_charge_only
        /\ token'.export_start_only = tok.export_start_only
    BY <2>2 DEF Token
  <2> QED
    BY <2>2, <2>3, EpochComputeNeverReverses
<1> QED
  BY <1>1, LatchBelongsInvariant, PTL DEF Spec, EpochGrantNeverReverses

-----------------------------------------------------------------------------
(* How often the plan starts a charge in one context                         *)

(***************************************************************************)
(* A charge that was started is in the budget, so the plan's epoch cannot  *)
(* move for it again; and a stored fingerprint has no epoch behind it, so  *)
(* a plan-charge token can only come from an epoch that moves.  Both end   *)
(* with an excuse, and so does the count.                                  *)
(***************************************************************************)
Counted ==
    /\ excused \in BOOLEAN
    /\ starts \in [ChargeModes -> {0, 1}]
    /\ ~excused => /\ ~last_fingerprint.stale
                   /\ \A m \in ChargeModes : starts[m] = 1 => m \in plan_charge_granted

\* What an evaluation leaves of the fingerprint and the budget.
LEMMA BeginLeaves ==
    ASSUME NEW kind \in {"tick", "reoptimize"}, NEW r \in Readings,
           NEW p \in Plannings, EvaluateBegin(kind, r, p)
    PROVE  /\ Begins
           /\ plan_charge_context' = r.ctx
           /\ plan_charge_granted' = BudgetAfter(r.ctx, r.below_target, active_mode')
           /\ token'.plan_charge_only = Token(r.ctx, r).plan_charge_only
<1>1. \E unspent \in BOOLEAN : token' = [Token(r.ctx, r) EXCEPT !.allowed = @ /\ ~unspent]
    BY DEF EvaluateBegin
<1>2. token'.plan_charge_only = Token(r.ctx, r).plan_charge_only
    BY <1>1 DEF Token
<1> QED
    BY <1>2 DEF EvaluateBegin, StartsEvaluation, Begins

\* Without an epoch behind the fingerprint a plan-charge token that may start a
\* charge means that the plan's epoch moves.
LEMMA PlanTokenMoves ==
    ASSUME NEW r \in Readings, ~last_fingerprint.stale,
           Token(r.ctx, r).plan_charge_only
    PROVE  PlanEpochMoves(r.ctx, r.below_target)
<1>1. /\ DecisionAllowed(r.ctx, r.below_target)
      /\ last_fingerprint.ctx = r.ctx
      /\ PlanEpochMoves(r.ctx, r.below_target) \/ ~ExportEpochMoves
    BY DEF Token
<1>2. last_fingerprint # NoFingerprint
    <2>1. r.ctx \in Contexts
        BY DEF Readings
    <2>2. r.ctx.price # "none"
        BY <2>1, ContextsAssumption
    <2> QED BY <1>1, <2>2 DEF NoFingerprint, NoContext
<1> QED BY <1>1, <1>2 DEF DecisionAllowed

LEMMA CountedBegin ==
    ASSUME Counted, Watch, NEW kind \in {"tick", "reoptimize"}, NEW r \in Readings,
           NEW p \in Plannings, EvaluateBegin(kind, r, p)
    PROVE  Counted'
<1> DEFINE fresh == plan_charge_context' # plan_charge_context
           before(m) == IF fresh THEN 0 ELSE starts[m]
<1>1. /\ Begins
      /\ plan_charge_context' = r.ctx
      /\ plan_charge_granted' = BudgetAfter(r.ctx, r.below_target, active_mode')
      /\ token'.plan_charge_only = Token(r.ctx, r).plan_charge_only
    BY BeginLeaves
<1>2. /\ excused' = (excused \/ Excuse)
      /\ starts' = [m \in ChargeModes |->
                       IF excused' THEN 0
                       ELSE IF PlanGrantStarts(m) /\ before(m) < MaxStarts
                       THEN before(m) + 1 ELSE before(m)]
    BY DEF Watch
<1>3. CASE excused'
    BY <1>2, <1>3 DEF Counted
<1>4. CASE ~excused'
    <2>1. ~excused /\ ~suppress /\ ~last_fingerprint'.stale /\ ~last_fingerprint.stale
        BY <1>1, <1>2, <1>4 DEF Excuse, Counted
    <2>2. ASSUME NEW m \in ChargeModes
          PROVE  /\ starts'[m] \in {0, 1}
                 /\ starts'[m] = 1 => m \in plan_charge_granted'
        <3>1. before(m) \in {0, 1}
            BY DEF Counted
        <3>2. before(m) = 1 => m \in BudgetIn(r.ctx)
            BY <1>1, <2>1 DEF BudgetIn, Counted
        <3>3. BudgetIn(r.ctx) \subseteq plan_charge_granted'
            BY <1>1 DEF BudgetAfter
        <3>4. CASE PlanGrantStarts(m)
            <4>1. /\ PlanEpochMoves(r.ctx, r.below_target)
                  /\ plan_mode_pending = m /\ active_mode' \in ChargeModes
                BY <1>1, <2>1, <3>4, PlanTokenMoves DEF PlanGrantStarts, ChargeStarts
            <4>2. m \notin BudgetIn(r.ctx) /\ m \in plan_charge_granted'
                BY <1>1, <4>1 DEF PlanEpochMoves, BudgetAfter
            <4>3. before(m) = 0
                BY <3>1, <3>2, <4>2
            <4>4. starts'[m] = 1
                BY <1>2, <1>4, <3>4, <4>3 DEF MaxStarts
            <4> QED BY <4>2, <4>4
        <3>5. CASE ~PlanGrantStarts(m)
            <4>1. starts'[m] = before(m)
                BY <1>2, <1>4, <3>5
            <4> HIDE DEF before
            <4> QED BY <3>1, <3>2, <3>3, <4>1
        <3> QED BY <3>4, <3>5
    <2>3. starts' \in [ChargeModes -> {0, 1}]
        <3>1. DOMAIN starts' = ChargeModes
            BY <1>2
        <3>2. starts' = [m \in ChargeModes |-> starts'[m]]
            BY <1>2
        <3> QED BY <2>2, <3>2
    <2>4. excused' \in BOOLEAN
        BY <1>2
    <2> QED BY <2>1, <2>2, <2>3, <2>4 DEF Counted
<1> QED BY <1>3, <1>4

\* No other step counts: none begins, and none but an evaluation touches the
\* budget, its context, or leaves a fingerprint with an epoch behind it.
LEMMA CountedBeside ==
    ASSUME Counted, Watch, ~Begins,
           plan_charge_context' = plan_charge_context,
           plan_charge_granted' = plan_charge_granted,
           last_fingerprint' \in {last_fingerprint, NoFingerprint}
    PROVE  Counted'
<1>1. excused' = excused
    BY DEF Watch, Excuse, Counted
<1>2. ~excused => starts' = starts
    BY <1>1 DEF Watch, PlanGrantStarts, Counted
<1>3. excused => starts' = [m \in ChargeModes |-> 0]
    BY <1>1 DEF Watch
<1> QED BY <1>1, <1>2, <1>3 DEF Counted, NoFingerprint

(* However evaluations, recomputes, refunds and picks follow each other,   *)
(* the plan's own grants start at most one charge per context and wanted   *)
(* mode, until a reoptimize or a refund at the price boundary.             *)
THEOREM OneStartCorrect == BudgetSpec => []OneStart
<1>1. Init /\ StartsInit => Counted
    <2> SUFFICES ASSUME Init, StartsInit PROVE Counted
        OBVIOUS
    <2>1. starts = [m \in ChargeModes |-> 0] /\ excused = FALSE
        BY DEF StartsInit, NoStarts
    <2>2. ~last_fingerprint.stale
        BY DEF Init, NoFingerprint
    <2>3. excused \in BOOLEAN
        BY <2>1
    <2>4. starts \in [ChargeModes -> {0, 1}] /\ \A m \in ChargeModes : starts[m] # 1
        BY <2>1
    <2> QED BY <2>2, <2>3, <2>4 DEF Counted
<1>2. Counted /\ [Next /\ Watch]_<<vars, starts, excused>> => Counted'
    <2> SUFFICES ASSUME Counted, [Next /\ Watch]_<<vars, starts, excused>>
                 PROVE  Counted'
        OBVIOUS
    <2>1. CASE Watch /\ \E kind \in {"tick", "reoptimize"}, r \in Readings, p \in Plannings :
                  EvaluateBegin(kind, r, p)
        BY <2>1, CountedBegin
    <2>2. CASE Watch /\ (EvaluateEnd \/ PickManual \/ InvalidateDecisionFingerprint)
        BY <2>2, CountedBeside
           DEF EvaluateEnd, PickManual, InvalidateDecisionFingerprint, Begins,
               ForgetFingerprint, machineVars, lockVars
    <2>3. CASE Watch /\ \E price \in ReadPrices, p \in Plannings :
                  RecomputeAndEvaluate(price, p) \/ Reoptimize(price, p) \/ HandBack(price, p)
        BY <2>3, CountedBeside
           DEF RecomputeAndEvaluate, Reoptimize, HandBack, Begins, ForgetFingerprint,
               lockVars
    <2>4. CASE UNCHANGED <<vars, starts, excused>>
        BY <2>4 DEF vars, machineVars, Counted
    <2> QED BY <2>1, <2>2, <2>3, <2>4 DEF Next
<1>3. Counted => OneStart
    BY DEF Counted, OneStart
<1> QED BY <1>1, <1>2, <1>3, PTL DEF BudgetSpec
=============================================================================
