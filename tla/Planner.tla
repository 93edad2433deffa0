------------------------------- MODULE Planner -------------------------------
(***************************************************************************)
(* The dynamic-programming planner (engine/core.py): one call of           *)
(* DPPlanner.plan is deadline flags and floors on the slots, a backward    *)
(* induction over a grid of charges, a forward pass from the charge the    *)
(* battery really has, a second solve when a spike can be funded, and a    *)
(* third for the slots after the demand window.                            *)
(***************************************************************************)
EXTENDS SpillAvoidance

CONSTANTS
    Step,           \* distance of two grid charges
    HardPenalty,    \* per charge unit below a hard target
    SoftPenalty,    \* target_shortfall_penalty_per_pct
    SalvageCap,     \* TERMINAL_SALVAGE_MAX_PER_KWH
    FloorBand,      \* min_soc_floor_buffer_pct
    FloorGain,      \* min_floor_charge_gain_pct
    MinLead         \* NEXT_WINDOW_TAIL_MIN_LEAD_MIN

ASSUME PlannerAssumption ==
    Step \in Nat \ {0} /\ HardPenalty \in Nat /\ SoftPenalty \in Nat

Priority == [hold |-> 0, charge |-> 1, boost |-> 2, export |-> 3, strict |-> 4]

Grid == SocGrid(Step)
Bin(s) == BinOf(s, Step)

(***************************************************************************)
(* The deadline.                                                           *)
(***************************************************************************)

\* First window entered from outside: one in progress at slot 1 is no
\* deadline.
Entry(slots) ==
    LET I == {i \in DOMAIN slots :
                 slots[i].entry /\ \E j \in 1 .. i - 1 : ~slots[j].deadline}
    IN  IF I = {} THEN None ELSE Min(I)

WindowEnd(slots, entry) ==
    Min({j \in entry .. Len(slots) :
            j = Len(slots) \/ ~slots[j + 1].deadline \/ slots[j + 1].entry})

UrgentFrom(slots, term, window) ==
    IF term = None THEN None
    ELSE Min({i \in 1 .. term : slots[i].at >= slots[term].at - window})

\* The charge entering the window may not be below this: the target, or what
\* is feasible when that is less.  None when solar is enough or when the
\* target may be met inside the window.
HardFloor(slots, c, s) ==
    LET best == MaxFeasible(slots, c, s)
    IN  IF c.under \/ SolarSuffices(slots, c, s, 1) \/ best = None THEN None
        ELSE Lesser(c.target, best)

\* The fields an earlier solve left on the configuration are cleared before
\* any of them is read.
Cleared(c) == [c EXCEPT !.thr = <<>>, !.water = NoPrice, !.hard = None]

Opened(slots, c, s, wasOpen) ==
    [c EXCEPT !.spill = SpillContext(slots, c, s, wasOpen)]

\* The fields _solve derives on the configuration, in its order.
Derived(slots, c, s, wasOpen) ==
    LET term  == Entry(slots)
        clear == [Cleared(c) EXCEPT
                     !.term = term,
                     !.urgent = UrgentFrom(slots, term, UrgencyWindow(c, s))]
        gated == [clear EXCEPT !.thr = Thresholds(slots, clear, s)]
        water == IF gated.thr = <<>> THEN NoPrice ELSE WaterLevel(slots, clear, s)
        floor == [gated EXCEPT !.water = water, !.hard = HardFloor(slots, gated, s)]
    IN  Opened(slots, floor, s, wasOpen)

(***************************************************************************)
(* Gates that compare an action with holding.                              *)
(***************************************************************************)

Urgent(slots, c, i, s) ==
    /\ i < c.term /\ s < c.target
    /\ \/ c.water # NoPrice /\ slots[i].buy <= c.water
       \/ c.urgent <= i

CycleBlocked(slots, c, i, s, a, next, cost, holdCost) ==
    LET stored == StoredEnergy(Positive(next - s))
    IN  /\ c.minCycle > 0 /\ a \in GridCharges /\ ~Urgent(slots, c, i, s)
        /\ 0 < holdCost - cost /\ holdCost - cost < c.minCycle * stored

HoldBlocked(c, a, cost, holdCost) ==
    /\ a = "strict" /\ c.minHold > 0
    /\ 0 < holdCost - cost /\ holdCost - cost < 100 * c.minHold

FloorBlocked(c, i, s, a, next) ==
    /\ a \in GridCharges
    /\ s <= MinSoc + FloorBand \/ (c.floor <= s /\ s <= c.floor + FloorBand)
    /\ next - s < FloorGain
    /\ ~(c.term # None /\ i >= c.urgent)

(***************************************************************************)
(* Backward induction and forward reconstruction.                          *)
(***************************************************************************)

Outcome(slots, c, i, s, a) == Clamped(Transition(s, a, slots[i], c.floor))

SlotCost(slots, c, i, s, a, moved, hardware) ==
    LET switched == i = 1 /\ hardware # "none" /\ a # hardware
    IN  StageCost(a, moved, slots[i],
                  IF switched THEN SwitchingPenalty(slots[i], c.flat, c.perUnit) ELSE 0, 0,
                  SolarFactor(slots, c, a, moved, i),
                  FutileFactor(slots, c, a, i, s, moved.soc))

EntryPenaltyByGap(c, s) ==
    CASE c.hard # None /\ s < c.hard -> (c.hard - s) * HardPenalty
      [] c.mode = "self" /\ s < c.target
           /\ ~(c.hard # None /\ s < c.hard) -> (c.target - s) * HardPenalty
      [] OTHER -> TerminalCost(s, c.target, SoftPenalty)

\* Penalty for entering the window at a charge.
EntryPenalty(c, s) ==
    CASE c.hard # None /\ s < c.hard -> ((c.target - s) + (c.hard - s)) * HardPenalty
      [] c.mode = "self" /\ s < c.target
           /\ ~(c.hard # None /\ s < c.hard) -> (c.target - s) * HardPenalty
      [] OTHER -> TerminalCost(s, c.target, SoftPenalty)

LastValue(slots, c, s) ==
    (IF c.under /\ c.term # None THEN EntryPenalty(c, s) ELSE 0)
    - (IF c.salvage
       THEN Salvage(s, c.floor, Min({slots[i].buy : i \in DOMAIN slots}), SalvageCap)
       ELSE 0)

OptionOfBin(slots, c, i, s, a, moved, values, hardware) ==
    [a |-> a, soc |-> moved.soc,
     cost |-> SlotCost(slots, c, i, s, a, moved, hardware) + values[Bin(s)].cost]

\* What an action of a state leads to, and what it costs from there on.
Option(slots, c, i, s, a, moved, values, hardware) ==
    [a |-> a, soc |-> moved.soc,
     cost |-> SlotCost(slots, c, i, s, a, moved, hardware) + values[Bin(moved.soc)].cost]

\* values is the next slot's row of the table.
Options(slots, c, i, s, values, hardware) ==
    {Option(slots, c, i, s, a, Outcome(slots, c, i, s, a), values, hardware) :
        a \in Feasible(slots, c, s, i)}

Unblocked(slots, c, i, s, options) ==
    LET held == CHOOSE o \in options : o.a = "hold"
    IN  {o \in options :
            /\ ~CycleBlocked(slots, c, i, s, o.a, o.soc, o.cost, held.cost)
            /\ ~HoldBlocked(c, o.a, o.cost, held.cost)
            /\ ~FloorBlocked(c, i, s, o.a, o.soc)}

\* The cheapest option, ties by priority.
Best(options) ==
    CHOOSE o \in options : \A p \in options :
        \/ o.cost < p.cost
        \/ o.cost = p.cost /\ Priority[o.a] <= Priority[p.a]

BestAction(slots, c, i, s, values, hardware) ==
    Best(Unblocked(slots, c, i, s, Options(slots, c, i, s, values, hardware)))

\* A row of the table, charge by charge.
Row(slots, c, i, values, hardware) ==
    LET due(s)      == IF i = c.term /\ ~c.under THEN EntryPenalty(c, s) ELSE 0
        entry(o, s) == [a |-> o.a, cost |-> o.cost + due(s)]
    IN  FoldLeft(LAMBDA row, s :
                     Append(row, entry(BestAction(slots, c, i, s, values, hardware), s)),
                 <<>>, Grid)

LastRow(slots, c) ==
    LET entry(s) == [a |-> "hold", cost |-> LastValue(slots, c, s)]
    IN  FoldLeft(LAMBDA row, s : Append(row, entry(s)), <<>>, Grid)

\* The rows of all slots, from the end of the horizon back to slot 1.
Table(slots, c, hardware) ==
    LET before(i, rows) == <<Row(slots, c, i, Head(rows), hardware)>> \o rows
    IN  FoldRight(before, [i \in DOMAIN slots |-> i], <<LastRow(slots, c)>>)

Decision(slots, c, i, s, a, hardware) ==
    LET moved == Outcome(slots, c, i, s, a)
    IN  [a |-> a, from |-> s, soc |-> moved.soc, drawn |-> moved.drawn, sold |-> moved.sold,
         cost |-> SlotCost(slots, c, i, s, a, moved, hardware)]

\* The decisions: the table's action at the nearest grid charge, carried out
\* from the charge the battery really has.
Reconstruct(slots, c, table, s, hardware) ==
    LET Policy(i, t) == table[i][Bin(t)].a
        from[i \in DOMAIN slots] ==
            IF i = 1 THEN s
            ELSE LET t == from[i - 1] IN Outcome(slots, c, i - 1, t, Policy(i - 1, t)).soc
    IN  [i \in DOMAIN slots |->
            Decision(slots, c, i, from[i], Policy(i, from[i]), hardware)]

TotalCost(decisions) == SumFunction([i \in DOMAIN decisions |-> decisions[i].cost])

Solution(c, table, s, decisions) ==
    [c |-> c, value |-> table[1][Bin(s)].cost, decisions |-> decisions,
     cost |-> TotalCost(decisions)]

Forward(slots, c, table, s, hardware) ==
    Solution(c, table, s, Reconstruct(slots, c, table, s, hardware))

Backward(slots, c, s, hardware) ==
    Forward(slots, c, Table(slots, c, hardware), s, hardware)

Solve(slots, config, s, hardware, wasOpen) ==
    Backward(slots, Derived(slots, config, s, wasOpen), s, hardware)

Cheaper(candidate, baseline) ==
    IF candidate.cost < baseline.cost THEN candidate ELSE baseline

\* _solve_guarded: without spike funding and with it, the funded plan only when
\* it is strictly cheaper.  The second solve gets the configuration object the
\* first one left its fields on.
Guarded(slots, baseline, s, hardware, wasOpen) ==
    LET funding == FundingSlots(slots, baseline.c)
    IN  IF baseline.c.spikePre /\ funding # {}
        THEN Cheaper(Solve(slots, [baseline.c EXCEPT !.funding = funding],
                           s, hardware, wasOpen), baseline)
        ELSE baseline

(***************************************************************************)
(* Pre-charge runway.                                                      *)
(***************************************************************************)

\* Slot units of boost that lift the battery to the target, on the charge
\* model of the transitions.
BoostUnits(c, s) ==
    LET units[t \in Int] == IF t >= c.target THEN 0
                            ELSE 1 + units[t + Tapered(t, BoostRate, 1)]
    IN  units[s]

\* Time left between the end of slot 1 and the window once boosting has
\* closed the gap.
Slack(slots, c, s) ==
    slots[c.term].at - slots[1].at - slots[1].len
      - BoostUnits(c, s)

\* The hard floor is dormant only because solar looks sufficient.
Suppressed(slots, c, s) ==
    /\ c.hard = None /\ ~c.under /\ SolarSuffices(slots, c, s, 1)
    /\ MaxFeasible(slots, c, s) # None

\* How far the published plan enters the window below the target.
Shortfall(slots, c, s, decisions) ==
    IF c.term = None THEN 0
    ELSE LET reached == IF c.under
                        THEN MaxSocInWindow(s, slots, c.floor, c.term,
                                            WindowEnd(slots, c.term))
                        ELSE decisions[c.term - 1].soc
         IN  Positive(c.target - reached)

(***************************************************************************)
(* The tail after the handled window.                                      *)
(***************************************************************************)

AfterNormalCharge(c, s, units) ==
    LET after[n \in 0 .. units] ==
            IF n = 0 THEN s
            ELSE LET t == after[n - 1]
                 IN  IF t >= c.target THEN t ELSE t + Tapered(t, ChargeRate, 1)
    IN  after[units]

\* Least charge from which gap units of normal charging reach the target.
RequiredBeforeGap(c, gap) ==
    Min({s \in MinSoc .. c.target :
            s = c.target \/ AfterNormalCharge(c, s, gap) >= c.target})

\* Slot after the handled window; None when nothing is left to plan.
TailStart(slots) ==
    LET entry == Entry(slots)
        outside == {i \in DOMAIN slots : ~slots[i].deadline}
        split == IF entry # None THEN WindowEnd(slots, entry) + 1
                 ELSE IF outside = {} THEN None ELSE Min(outside)
    IN  IF \/ split = None \/ split > Len(slots)
           \/ \E i \in split .. Len(slots) : slots[i].deadline
        THEN None ELSE split

\* Why the tail is not planned again, or "apply".
TailScope(slots, c, main, gap) ==
    LET split    == TailStart(slots)
        required == RequiredBeforeGap(c, gap)
    IN  CASE c.amber /\ \A i \in DOMAIN slots : ~slots[i].window -> "no_charge_window"
          [] OTHER ->
             IF ~c.tail THEN "disabled"
             ELSE IF c.under THEN "under_target_mode"
             ELSE IF gap < 0 THEN "no_gap"
             ELSE IF split = None THEN "no_tail_slots"
             ELSE IF split = 1 THEN "whole_plan_skipped"
             ELSE IF required <= MinSoc THEN "gap_too_long"
             ELSE IF required <= c.floor /\ main.decisions[split - 1].soc >= c.floor
                  THEN "away_reserve_covers"
             ELSE IF slots[split].at - slots[1].at < MinLead THEN "too_close"
             ELSE "apply"

\* The charge the main plan leaves for the tail.
TailFrom(main, split) == main.decisions[split - 1].soc

GuardedSolve(slots, config, s, hardware, wasOpen) ==
    Guarded(slots, Solve(slots, config, s, hardware, wasOpen), s, hardware, wasOpen)

\* The main plan up to the tail, then the tail without its stand-in.
Joined(main, split, tail) ==
    SubSeq(main.decisions, 1, split - 1)
      \o SubSeq(tail.decisions, 1, Len(tail.decisions) - 1)

\* The rest of the horizon with a stand-in entry slot, from the charge the
\* main plan leaves, to the target less what the gap can add.
TailPlan(slots, c, main, gap) ==
    LET split == TailStart(slots)
        last  == slots[Len(slots)]
        stand == [last EXCEPT !.at = last.at + last.len, !.solar = 0, !.load = 0,
                              !.entry = TRUE, !.deadline = TRUE, !.window = TRUE,
                              !.exportable = FALSE, !.admitted = FALSE]
        rest  == Append(SubSeq(slots, split, Len(slots)), stand)
        aim   == [main.c EXCEPT !.target = RequiredBeforeGap(c, gap), !.funding = {}]
    IN  Joined(main, split,
               GuardedSolve(rest, aim, TailFrom(main, split), "none", FALSE))

Plan(slots, c, s, base, main, gap) ==
    LET status == TailScope(slots, main.c, main, gap)
    IN  [status |-> status, slots |-> slots, c |-> main.c, base |-> base, main |-> main,
         decisions |-> IF status = "apply" THEN TailPlan(slots, c, main, gap)
                       ELSE main.decisions,
         split |-> TailStart(slots),
         short |-> Shortfall(slots, main.c, s, main.decisions),
         slack |-> IF main.c.term = None THEN None ELSE Slack(slots, main.c, s),
         suppressed |-> Suppressed(slots, main.c, s)]

PlanFrom(slots, c, s, base, hardware, wasOpen, gap) ==
    Plan(slots, c, s, base, Guarded(slots, base, s, hardware, wasOpen), gap)

PlanReady(slots, c, s, hardware, wasOpen, gap) ==
    PlanFrom(slots, c, s, Solve(slots, c, s, hardware, wasOpen), hardware, wasOpen, gap)

PlanBlock(block, config, s, hardware, wasOpen, gap) ==
    LET c == [config EXCEPT !.target = block.target]
    IN  PlanReady(Prepared(block.slots, c), c, s, hardware, wasOpen, gap)

\* DPPlanner.plan, each part from the ones before it.
PlanOf(slots, config, s, hardware, wasOpen, gap) ==
    PlanBlock(WithPriceBlock(slots, config), config, s, hardware, wasOpen, gap)
=============================================================================
