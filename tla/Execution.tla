------------------------------ MODULE Execution ------------------------------
(***************************************************************************)
(* The planner's receding horizon and the executor's insurance against it: *)
(* a plan over the price feed in view; the plan's first action, when the   *)
(* decision token lets it through, or the pre-charge backstop's boost      *)
(* (engine/optimizer_facade.py), carried out over the slot; the feed one   *)
(* slot on; the next plan.  What the roof makes of a slot may be less than *)
(* its forecast.                                                           *)
(***************************************************************************)
EXTENDS Planner

CONSTANTS
    InView,       \* slots the price feed shows
    Deadband,     \* PRECHARGE_BACKSTOP_SHORTFALL_PCT
    Hysteresis,   \* PRECHARGE_RUNWAY_HYSTERESIS_MIN
    Days          \* scenarios: slots, settings, starting charge, what may go wrong

\* The charge may start below the configured minimum.
ASSUME DaysAssumption ==
    /\ InView \in Nat \ {0}
    /\ \A d \in Days :
        /\ d.slots \in Seq(SlotRecords) /\ d.soc \in 0 .. MaxSoc
        /\ {"floor", "target", "mode", "acc", "loadMargin", "term", "hard"}
              \subseteq DOMAIN d.settings
        /\ {d.settings.floor, d.settings.target, d.settings.acc, d.settings.loadMargin}
              \subseteq Int
        /\ d.faults.sun \subseteq Nat

VARIABLES
    feed,       \* the slots ahead, those beyond InView not yet in the feed
    settings,   \* the user's settings
    faults,     \* grants: whether the token may be denied; sun: percentages
    soc,        \* what the battery holds
    current,    \* the action the hardware carries out, "none" at start-up
    open,       \* negative_fit_window_open: the last plan opened a window
    holding,    \* _runway_holding: the runway arm's latch
    plan,       \* the last plan, NoPlan when slot 1 has been carried out
    promised    \* what the first plan towards a window set: the hard floor, and
                \* whether there was runway to reach the target by boost alone

vars == <<feed, settings, faults, soc, current, open, holding, plan, promised>>

NoPlan == [status |-> "none"]
NoPromise == [floor |-> None, insured |-> FALSE]

View(f) == SubSeq(f, 1, Lesser(InView, Len(f)))

\* next_demand_window_gap_min: from the end of the feed to the next window,
\* -1 when the feed ends inside one or none follows.
Gap(f) ==
    LET end  == View(f)[Len(View(f))]
        next == {i \in Len(View(f)) + 1 .. Len(f) : f[i].window}
    IN  IF end.window \/ next = {} THEN -1 ELSE f[Min(next)].at - end.at - end.len

(***************************************************************************)
(* The pre-charge backstop.                                                *)
(***************************************************************************)

\* Slot 1 is inside the urgency window, the demand window is not live and the
\* price is under the operator's ceiling.
Opportune ==
    /\ ~plan.slots[1].window
    /\ plan.c.term # None /\ plan.c.urgent = 1
    /\ plan.slots[1].buy <= plan.c.maxPre

\* _precharge_backstop_mode: the plan wants a charge before the window, and
\* will miss the target even so.
PlannedChargeDue ==
    /\ plan.c.hard # None /\ soc < plan.c.hard
    /\ Opportune
    /\ plan.short > Deadband
    /\ \E i \in 1 .. plan.c.term - 1 : plan.decisions[i].a \in GridCharges

\* The runway arm's own conditions.  Once it holds, its threshold is wider.
RunwayShort ==
    LET band == IF holding THEN Greater(Hysteresis, plan.slots[1].len) ELSE 0
    IN  /\ plan.c.target - soc > Deadband
        /\ plan.c.term # None /\ settings.runway > 0
        /\ plan.slack < settings.runway + band

RunwayDueSuppressed == RunwayShort /\ Opportune /\ plan.suppressed

\* _runway_backstop_mode: boost is still possible and wanted today.
RunwayDue ==
    /\ RunwayShort /\ Opportune
    /\ plan.c.hard # None \/ plan.suppressed \/ holding

Backstop == PlannedChargeDue \/ RunwayDue

\* A block that passes suppresses the charge and leaves the latch.
Latch == IF PlannedChargeDue THEN holding
         ELSE IF RunwayDue THEN TRUE ELSE holding /\ RunwayShort

(***************************************************************************)
(* Actions.                                                                *)
(***************************************************************************)

Init ==
    \E d \in Days :
        /\ feed = d.slots /\ settings = d.settings /\ soc = d.soc /\ faults = d.faults
        /\ current = "none" /\ open = FALSE /\ holding = FALSE
        /\ plan = NoPlan /\ promised = NoPromise

\* By boost alone the battery reaches the target from here, every slot before
\* the window under the price ceiling.
Insured(p) ==
    /\ settings.runway > 0 /\ p.c.term # None /\ p.slack >= settings.runway
    /\ p.c.hard # None \/ p.suppressed
    /\ \A i \in 1 .. p.c.term - 1 : p.slots[i].buy <= p.c.maxPre /\ ~p.slots[i].window

\* One planning cycle.
MakePlan ==
    /\ plan = NoPlan /\ feed # <<>>
    /\ plan' = PlanOf(View(feed), settings, soc, current, open, Gap(feed))
    /\ open' = (plan'.c.spill.end # None)
    /\ promised' = [floor |-> IF promised.floor = None THEN plan'.c.hard ELSE promised.floor,
                    insured |-> promised.insured \/ Insured(plan')]
    /\ UNCHANGED <<feed, settings, faults, soc, current, holding>>

\* The current slot runs its course.
CarryOut ==
    /\ plan # NoPlan
    /\ \E granted \in faults.grants, sun \in faults.sun :
          LET slot == [plan.slots[1] EXCEPT !.solar = (@ * sun) \div 100]
              a    == IF Backstop THEN "boost"
                      ELSE IF granted THEN plan.decisions[1].a
                      ELSE IF current = "none" THEN "hold" ELSE current
          IN  /\ soc' = Clamped(Transition(soc, a, slot, plan.c.floor)).soc
              /\ current' = a
    /\ holding' = Latch
    /\ feed' = Tail(feed)
    /\ plan' = NoPlan
    /\ promised' = IF plan.c.term \in {None, 2} THEN NoPromise ELSE promised
    /\ UNCHANGED <<settings, faults, open>>

Next == MakePlan \/ CarryOut

Spec == Init /\ [][Next]_vars

(***************************************************************************)
(* Properties.                                                             *)
(***************************************************************************)

Planned == plan # NoPlan

NoFaults == [grants |-> {TRUE}, sun |-> {100}]

\* The least cost of any sequence of feasible actions over the horizon,
\* with the entry penalty on the window's entry slot.
Cheapest(slots, c, s, hardware) ==
    LET least[i \in 1 .. Len(slots) + 1, t \in Int] ==
            IF i > Len(slots) THEN LastValue(slots, c, t)
            ELSE (IF i = c.term /\ ~c.under THEN EntryPenalty(c, t) ELSE 0)
                 + Min({LET moved == Outcome(slots, c, i, t, a)
                        IN  SlotCost(slots, c, i, t, a, moved, hardware)
                              + least[i + 1, moved.soc] : a \in Feasible(slots, c, t, i)})
    IN  least[1, s]

\* No move of a plan falls between two grid charges and no saving gate is on.
Exact ==
    /\ settings.minCycle = 0 /\ settings.minHold = 0 /\ settings.floor = MinSoc
    /\ Len(plan.slots) <= 5 /\ (soc - MinSoc) % Step = 0
    /\ \A i \in DOMAIN plan.slots :
           /\ (Positive(Net(plan.slots[i])) * StorePer) % Step = 0
           /\ (Positive(-Net(plan.slots[i])) * TakePer) % Step = 0
           /\ (plan.slots[i].exportFloor - MinSoc) % Step = 0

\* Backward induction over the grid finds the cheapest of all schedules, and
\* the forward pass carries out a schedule of that cost
\* (core.py: _backward_induction, _forward_reconstruct).
PlanIsOptimal ==
    Planned /\ Exact =>
        LET p    == plan.base
            last == p.decisions[Len(p.decisions)].soc
            due  == IF p.c.term = None \/ p.c.under THEN 0
                    ELSE EntryPenalty(p.c, p.decisions[p.c.term].from)
        IN  /\ p.value = Cheapest(plan.slots, p.c, soc, current)
            /\ p.value = p.cost + due + LastValue(plan.slots, p.c, last)

\* The penalty for entering the demand window never rises with the charge: a
\* degraded floor does not attract the plan (#903).
EntryNeverDearerFuller ==
    Planned /\ plan.c.term # None =>
        \A s, t \in {Grid[k] : k \in DOMAIN Grid} :
            s <= t => EntryPenalty(plan.c, t) <= EntryPenalty(plan.c, s)

\* A forecast that comes true does not let the charge be put off from plan to
\* plan: the window is entered with what the first plan set as the floor, to
\* within the grid's distance (#885, #903).
PromiseKept ==
    [][/\ CarryOut /\ plan.c.term = 2 /\ promised.floor # None
       /\ faults = NoFaults
       => soc' + Step >= promised.floor]_vars

\* Neither a roof that stops making power nor a token that never grants keeps
\* the battery from the target, up to the arm's deadband and one slot's load,
\* when there was runway for it to begin with (the 2026-07-27 and 2026-07-28
\* incidents: _precharge_backstop_mode, _runway_backstop_mode).
RunwayReaches ==
    [][CarryOut /\ plan.c.term = 2 /\ promised.insured
       => soc' + Deadband + plan.slots[1].load * TakePer >= plan.c.target]_vars

\* Going on with what the hardware does saves a switching penalty worth half
\* the purchase.
KeptForPenalty(p, i) ==
    /\ i = 1 /\ p.main.decisions[1].a = current
    /\ 50 * p.main.decisions[1].drawn * p.slots[1].buy
          <= SwitchingPenalty(p.slots[1], p.c.flat, p.c.perUnit)

\* Residual charge at the horizon's end is worth something, but never worth
\* buying: with no window ahead, a plan buys only what a later and dearer slot
\* uses (#811), or what a switching penalty would cost as much to stop (#919).
NeverBuysToHoard ==
    Planned /\ plan.c.term = None =>
        \A i \in DOMAIN plan.main.decisions :
            plan.main.decisions[i].a \in GridCharges =>
                \/ \E j \in i + 1 .. Len(plan.slots) :
                       \/ plan.slots[j].buy > plan.slots[i].buy /\ Net(plan.slots[j]) < 0
                       \/ plan.main.decisions[j].a = "export"
                \/ plan.slots[i].buy <= 0
                \/ KeptForPenalty(plan, i)

\* Neither the main plan nor the tail sells or spends the reserve: no decision
\* takes the battery below the discharge floor, and no sale below what the
\* dear loads still ahead need (export_floor.py).
ReserveKept ==
    Planned =>
        \A i \in DOMAIN plan.decisions :
            LET d == plan.decisions[i]
            IN  /\ d.soc >= Lesser(d.from, plan.c.floor)
                /\ d.a = "export" /\ d.soc < d.from => d.soc >= plan.slots[i].exportFloor
=============================================================================
