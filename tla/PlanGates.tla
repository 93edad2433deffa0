------------------------------ MODULE PlanGates ------------------------------
(***************************************************************************)
(* What the planner may do in a slot, and what steers it there: the flags  *)
(* and floors written on the slots before a solve (engine/price_block.py,  *)
(* export_floor.py, spike_export.py, negative_fit.py, spike_event.py) and  *)
(* the gates and penalties read during one (engine/constraints.py,         *)
(* penalties.py).                                                          *)
(*                                                                         *)
(* A slot is a record: at, len (slot units), buy, sell, solar, load,       *)
(* priced, window (is_charge_window_slot), deadline                        *)
(* (is_demand_window_slot), entry, exportable, exportFloor, admitted.      *)
(* c is the planner's configuration: the user's settings and the fields    *)
(* the solver derives.  Slots are numbered from 1, None is 0.              *)
(***************************************************************************)
EXTENDS BatteryModel, SequencesExt

CONSTANTS
    Hour,             \* slot units in an hour
    Outlier,          \* spike outlier factor
    Spread,           \* PRICE_BLOCK_MIN_SPREAD
    Separation,       \* RECOVERY_WINDOW_SEPARATION
    BlockMin,         \* PRICE_BLOCK_MIN_DURATION_MIN, in slot units
    Headroom          \* PRICE_BLOCK_HEADROOM_PCT, in charge units

ASSUME GatesAssumption == Headroom \in Nat

None == 0
NoPrice == -1000

SlotRecords ==
    [at : Nat, len : Nat, buy : Int, sell : Int, solar : Nat, load : Nat,
     priced : BOOLEAN, window : BOOLEAN, deadline : BOOLEAN, entry : BOOLEAN,
     exportable : BOOLEAN, exportFloor : Int, admitted : BOOLEAN]

Span(slots, a, b) == SumFunction([i \in a .. b |-> slots[i].len])

\* The price at rank Len \div 2 of the chosen slots, counted from 0.
MedianPrice(slots, I) ==
    LET below(p) == Cardinality({i \in I : slots[i].buy <= p})
    IN  Min({slots[i].buy : i \in {j \in I :
              below(slots[j].buy) > Cardinality(I) \div 2}})

(***************************************************************************)
(* The price block (engine/price_block.py).                                *)
(***************************************************************************)

\* Deadline flags mirror Amber's flags, with an entry on each first slot.
Mirrored(slots) ==
    [i \in DOMAIN slots |->
        [slots[i] EXCEPT !.deadline = slots[i].window,
                         !.entry = slots[i].window /\ (i = 1 \/ ~slots[i - 1].window)]]

\* The cheapest fifth of the horizon by duration, a negative price as 0.
LowPrice(slots) ==
    LET P == {i \in DOMAIN slots : slots[i].priced}
        price(i) == Positive(slots[i].buy)
        upto(p)  == SumFunction([i \in {i \in P : price(i) <= p} |-> slots[i].len])
        all      == SumFunction([i \in P |-> slots[i].len])
    IN  IF P = {} THEN NoPrice
        ELSE Min({price(i) : i \in {j \in P : 5 * upto(price(j)) >= all}})

Dear(slots, i, low) ==
    /\ slots[i].priced /\ ~slots[i].window
    /\ slots[i].buy >= low + Spread
    /\ Net(slots[i]) < 0

\* Maximal runs of dear slots bridging not-dear gaps of at most half an hour,
\* never across a charge window.
DearRuns(slots, low) ==
    LET dear(i) == Dear(slots, i, low)
        joined(i, j) ==
            /\ dear(i) /\ dear(j) /\ i <= j
            /\ \A k \in i .. j : ~slots[k].window
            /\ \A k, m \in i .. j :
                   (k <= m /\ \A n \in k .. m : ~dear(n))
                       => 2 * Span(slots, k, m) <= Hour
        runs == {r \in (DOMAIN slots) \X (DOMAIN slots) : joined(r[1], r[2])}
    IN  {r \in runs : \A s \in runs : s[1] <= r[1] /\ s[2] >= r[2] => s = r}

NetLoad(slots, r, acc) ==
    SumFunction([i \in r[1] .. r[2] |->
        Positive(100 * slots[i].load - acc * slots[i].solar)])

\* The run to prepare for: the one under way unless a heavier one starts
\* within six hours of its end, else the heaviest, the first of equals.
PriceBlock(slots, before) ==
    LET low     == LowPrice(slots)
        runs    == {r \in DearRuns(slots, low) : before = None \/ r[1] < before}
        weight(r) == NetLoad(slots, r, 100)
        current == {r \in runs : r[1] = 1}
        long    == {r \in runs : r[1] > 1 /\ Span(slots, r[1], r[2]) >= BlockMin}
        later   == {r \in long : \A n \in current :
                       Span(slots, n[2] + 1, r[1] - 1) <= 6 * Hour}
        best    == {r \in later : \A s \in later :
                       \/ weight(r) > weight(s)
                       \/ weight(r) = weight(s) /\ r[1] <= s[1]}
    IN  IF low = NoPrice THEN {}
        ELSE IF /\ current # {}
                /\ \A r \in best, n \in current : weight(n) >= weight(r)
             THEN current ELSE best

BlockTarget(slots, r, c, ceiling) ==
    LET floor == Lesser(c.floor, ceiling)
        need  == (NetLoad(slots, r, c.acc) * TakePer) \div 100
    IN  Greater(floor, Lesser(ceiling, floor + need + Headroom))

\* apply_price_block: the slots and the target after it.
WithPriceBlock(slots, c) ==
    LET mirrored == Mirrored(slots)
        windows  == {i \in DOMAIN slots : slots[i].window}
        start    == IF windows = {} THEN None ELSE Min(windows)
        deadline(r) ==
            ~ /\ start # None
              /\ \/ Span(slots, r[2] + 1, start - 1) < 12 * Hour
                 \/ r[1] = 1 /\ c.sinceEnd < 2 * Hour
        block    == {r \in PriceBlock(mirrored, start) : deadline(r)}
        marked(r) == [i \in DOMAIN slots |->
            IF i \in r[1] .. r[2]
            THEN [mirrored[i] EXCEPT !.deadline = TRUE,
                                     !.entry = @ \/ i = r[1]]
            ELSE mirrored[i]]
    IN  IF ~c.amber THEN [slots |-> slots, target |-> c.target]
        ELSE IF start = 1 \/ block = {}
             THEN [slots |-> mirrored, target |-> c.target]
             ELSE LET r == CHOOSE r \in block : TRUE
                  IN  [slots |-> marked(r),
                       target |-> IF r[1] = 1 /\ start # None THEN c.target
                                  ELSE BlockTarget(mirrored, r, c, c.target)]

(***************************************************************************)
(* The load-sized export floor (engine/export_floor.py).                   *)
(***************************************************************************)

\* The later slots of the elevated-price period slot i is in: up to the first
\* hour of normal prices.
ElevatedAfter(slots, i, elevated) ==
    LET normalRun(j) ==
            LET from == Max({i} \cup {k \in i + 1 .. j : slots[k].buy > elevated})
            IN  Span(slots, from + 1, j)
        open(j) == \A k \in i + 1 .. j : normalRun(k) < Hour
    IN  {j \in i + 1 .. Len(slots) : open(j) /\ slots[j].buy > elevated}

ExportFloor(slots, i, c) ==
    LET median == MedianPrice(slots, DOMAIN slots)
        held   == {j \in ElevatedAfter(slots, i, (3 * median) \div 2) :
                       2 * slots[j].buy >= slots[i].sell}
        reserve == SumFunction([j \in held |-> Positive(-Net(slots[j]))])
    IN  IF c.loadMargin <= 0 \/ median <= 0 THEN c.floor
        ELSE Lesser(MaxSoc, c.floor + (reserve * c.loadMargin * TakePer) \div 100)

(***************************************************************************)
(* Selling into a spike (engine/spike_export.py).                          *)
(***************************************************************************)

\* First slot after the unbroken run of spike-priced slots that follows slot 1.
EndOfSpike(slots, spikeFloor) ==
    Min({j \in 2 .. Len(slots) + 1 :
            /\ \A k \in 2 .. j - 1 : slots[k].sell >= spikeFloor
            /\ j <= Len(slots) => slots[j].sell < spikeFloor})

\* Slot 1 is a genuine spike worth selling into: an outlier, above the dearest
\* price the energy could cost to buy back, and not bettered later in its spike.
SpikeAdmitted(slots, c) ==
    LET median   == MedianPrice(slots, DOMAIN slots)
        outlier  == Outlier * median
        end      == EndOfSpike(slots, outlier)
        rebuys   == {j \in end .. Len(slots) :
                        slots[j].at - slots[1].at - slots[1].len < 12 * Hour}
        dearest  == Max({Positive(slots[j].buy) : j \in rebuys})
        sell     == slots[1].sell
    IN  /\ c.spikeSell /\ median > 0 /\ rebuys # {}
        /\ sell >= outlier
        /\ sell * StorePer >= dearest * TakePer + Positive(c.margin) * StorePer
        /\ \A j \in 2 .. end - 1 : sell >= slots[j].sell

\* apply_export_floor and apply_spike_export_admission.
Prepared(slots, c) ==
    [i \in DOMAIN slots |->
        [slots[i] EXCEPT !.exportFloor = ExportFloor(slots, i, c),
                         !.admitted = i = 1 /\ SpikeAdmitted(slots, c)]]

(***************************************************************************)
(* Funding a spike from an earlier slot (engine/spike_event.py).           *)
(***************************************************************************)

SpikeFloor(slots) ==
    LET I == {i \in DOMAIN slots : ~slots[i].deadline}
    IN  IF I = {} THEN NoPrice ELSE Outlier * MedianPrice(slots, I)

\* Slots whose charge may be bought above the cheap price: displacing the
\* dearest later loads first, each a full spread dearer, is worth at least the
\* saving demanded of one slot of cycling.
FundingSlots(slots, c) ==
    LET spikeFloor == SpikeFloor(slots)
        shed(i) == IF slots[i].deadline \/ slots[i].buy < spikeFloor THEN 0
                   ELSE Positive(-Net(slots[i]))
        gap(i, j) == slots[i].buy - slots[j].buy
        worth(j) == SumFunction([i \in {i \in j + 1 .. Len(slots) :
                                gap(i, j) * StorePer >= c.minCycle * TakePer} |->
                             shed(i) * gap(i, j)])
        needed(j) == c.minCycle * ChargeRate * slots[j].len * ChargeEff
    IN  IF c.mode # "self" \/ c.minCycle <= 0 \/ spikeFloor <= 0 THEN {}
        ELSE {j \in DOMAIN slots :
                 ~slots[j].deadline /\ 100 * worth(j) >= needed(j)}

(***************************************************************************)
(* Cheap thresholds and feasibility bounds (engine/constraints.py).        *)
(***************************************************************************)

UrgencyWindow(c, soc) ==
    LET deficit == Positive(c.target - soc)
        rate    == ChargeRate * StorePer
    IN  IF rate = 0 \/ deficit = 0 THEN 4 * Hour
        ELSE Greater(4 * Hour, Lesser(8 * Hour, deficit \div rate + Hour \div 2))

RampPrice(base, top, left, span) ==
    IF span <= 0 \/ top <= base THEN base
    ELSE base + ((top - base) * Positive(span - left)) \div span

\* The threshold a slot's grid charge is gated on.  thr is <<>> when no
\* pre-window thresholds are set.
CheapThreshold(c, i) ==
    IF c.thr # <<>> /\ c.term # None /\ i < c.term THEN c.thr[i]
    ELSE IF c.term = None \/ (c.urgent <= i /\ i < c.term) THEN c.effective
    ELSE Lesser(c.effective, c.base)

BeforeWindow(slots, c) == 1 .. c.term - 1

\* Charge the grid has to add to reach the target on discounted solar.
RequiredCharge(slots, c, soc) ==
    LET sim == SolarOnlySoc(soc, SubSeq(slots, 1, c.term - 1), c.floor)
        expected == IF sim >= soc THEN soc + ((sim - soc) * c.acc) \div 100 ELSE sim
    IN  Positive(c.target - expected)

\* The dearest price of the cheapest set of slots that funds the target.
WaterLevel(slots, c, soc) ==
    LET required == RequiredCharge(slots, c, soc)
        I == {i \in BeforeWindow(slots, c) : ~slots[i].deadline}
        funded(p) == SumFunction([i \in {i \in I : slots[i].buy <= p} |->
                                  BoostRate * slots[i].len * StorePer])
        enough == {slots[i].buy : i \in {j \in I : funded(slots[j].buy) >= required}}
    IN  IF required <= 0 THEN NoPrice
        ELSE Lesser(c.maxPre, IF enough = {} THEN c.maxPre ELSE Min(enough))

\* compute_pre_dw_charge_thresholds: per slot the highest of the legacy
\* threshold, the urgency ramp at the slot's own time and the water level.
\* c.thr is <<>> on entry, so CheapThreshold is the legacy value.
Thresholds(slots, c, soc) ==
    LET ramp(i) == RampPrice(c.base, c.maxPre, slots[c.term].at - slots[i].at,
                             UrgencyWindow(c, soc))
        water   == Positive(WaterLevel(slots, c, soc))
    IN  IF c.term = None \/ c.mode # "self" \/ c.maxPre <= c.base THEN <<>>
        ELSE [i \in DOMAIN slots |->
                 IF i >= c.term THEN CheapThreshold(c, i)
                 ELSE Max({CheapThreshold(c, i), ramp(i), water})]

ChargeableAnyPrice(slots, c, i) == ~slots[i].deadline

Chargeable(slots, c, i) ==
    ~slots[i].deadline /\ slots[i].buy <= CheapThreshold(c, i)

\* Most charge the normal rate can add from slot i to the window, untapered.
NormalGain(slots, c, i) ==
    SumFunction([j \in {j \in i .. c.term - 1 : Chargeable(slots, c, j)} |->
                    ChargeRate * slots[j].len * StorePer])

\* The highest charge an eligible plan leaves a slot with.
FeasibleAfter(slots, c, soc, i) ==
    LET slot == slots[i]
        charged == soc + BoostRate * slot.len * StorePer + Positive(Net(slot)) * StorePer
    IN  IF Chargeable(slots, c, i) THEN Greater(c.floor, Lesser(c.target, charged))
        ELSE Drift(soc, slot, c.floor, c.target)

\* The highest charge an eligible plan enters the window with.
MaxFeasible(slots, c, soc) ==
    LET entering[i \in 1 .. c.term] ==
            IF i = 1 THEN soc ELSE FeasibleAfter(slots, c, entering[i - 1], i - 1)
    IN  IF c.term = None \/ c.mode # "self" THEN None ELSE entering[c.term]

\* Discounted solar alone lifts the battery to the target before the window.
SolarSuffices(slots, c, soc, i) ==
    LET rest == SubSeq(slots, i, IF c.term = None THEN Len(slots) ELSE c.term - 1)
        gain == Positive(SolarOnlySoc(soc, rest, c.floor) - soc)
    IN  /\ soc < c.target
        /\ c.term = None \/ i <= c.term
        /\ soc + (gain * c.acc) \div 100 >= c.target

(***************************************************************************)
(* Feasible actions (engine/constraints.py).                               *)
(***************************************************************************)

\* c.spill is the negative-FIT context: end (None without one) and floors.
MayExport(slots, c, soc, i) ==
    LET slot  == slots[i]
        floor == Greater(c.floor, slot.exportFloor)
        landing == Greater(floor, soc - (100 * DischargeRate * slot.len * StorePer)
                                            \div ChargeEff)
        ordinary == IF c.mode = "self"
                    THEN slot.sell >= Positive(slot.buy) + c.margin \/ slot.admitted
                    ELSE slot.sell > 0
        avoiding == /\ slot.sell > 0
                    /\ slot.window => slot.sell > Positive(slot.buy)
                    /\ landing >= c.spill.floors[i]
    IN  /\ soc > floor /\ slot.exportable
        /\ IF i <= c.spill.end THEN avoiding ELSE ordinary

MayChargeNormal(slots, c, soc, i) ==
    c.mode = "self" => slots[i].buy <= CheapThreshold(c, i) \/ i \in c.funding

\* Boost needs a bargain, a target the normal rate cannot reach, or a hard
\* floor not yet cleared.
MayBoost(slots, c, soc, i) ==
    c.mode = "self" =>
        /\ slots[i].buy <= CheapThreshold(c, i)
        /\ \/ 5 * slots[i].buy <= 4 * CheapThreshold(c, i)
           \/ /\ i < c.term
              /\ \/ soc + NormalGain(slots, c, i) < c.target
                 \/ c.hard # None /\ soc < c.hard

Feasible(slots, c, soc, i) ==
    LET ceiling == IF c.mode = "self" THEN c.target ELSE MaxSoc
        mayCharge == /\ soc < ceiling /\ ~slots[i].window
                     /\ ~(c.mode = "self" /\ SolarSuffices(slots, c, soc, i))
    IN  {"hold"}
        \cup (IF ~slots[i].window /\ c.minHold > 0 THEN {"strict"} ELSE {})
        \cup (IF mayCharge /\ MayChargeNormal(slots, c, soc, i) THEN {"charge"} ELSE {})
        \cup (IF mayCharge /\ MayBoost(slots, c, soc, i) THEN {"boost"} ELSE {})
        \cup (IF MayExport(slots, c, soc, i) THEN {"export"} ELSE {})

(***************************************************************************)
(* Penalty factors in percent (engine/penalties.py).                       *)
(***************************************************************************)

\* How much of the battery the rest of the horizon's solar could fill.
SolarFactor(slots, c, a, moved, i) ==
    LET surplus == SumFunction([j \in i .. Len(slots) |-> Positive(Net(slots[j]))])
        full    == StoredEnergy(MaxSoc)
    IN  IF \/ a \notin GridCharges \/ moved.drawn <= 0 \/ slots[i].solar > 0
           \/ c.term # None /\ i >= c.term
           \/ 1000 * surplus < 3 * full
        THEN 0 ELSE Lesser(100, (10000 * surplus) \div full)

\* A later slot that makes stored energy useful.
Useful(slots, c, i, j) ==
    \/ Net(slots[j]) > 0 \/ slots[j].deadline
    \/ slots[j].buy <= CheapThreshold(c, j) /\ slots[j].buy < slots[i].buy

\* Energy the house takes from the charge before the first useful slot, as
\* long as the battery has any above its floor.
Drained(slots, c, i, soc) ==
    LET before == {j \in i + 1 .. Len(slots) : \A k \in i + 1 .. j : ~Useful(slots, c, i, k)}
    IN  Lesser(SumFunction([j \in before |-> Positive(-Net(slots[j]))]),
               Positive(soc - c.floor) \div TakePer)

\* A recovery day with a distinct cheapest window lets its bargains through.
Relief(slots, c, i) ==
    LET I == {j \in IF c.term = None THEN DOMAIN slots ELSE 1 .. c.term - 1 :
                 ~slots[j].deadline}
        low == Min({slots[j].buy : j \in I})
        rank(p) == Cardinality({j \in I : slots[j].buy <= p})
        median2 == Min({slots[j].buy : j \in {k \in I : 2 * rank(slots[k].buy) >= Cardinality(I)}})
                 + Min({slots[j].buy : j \in {k \in I : 2 * rank(slots[k].buy) > Cardinality(I)}})
    IN  /\ c.hard # None /\ Cardinality(I) >= 2
        /\ 2 * low <= median2 - 2 * Separation
        /\ slots[i].buy <= low

FutileFactor(slots, c, a, i, soc, next) ==
    LET stored == StoredEnergy(Positive(next - soc))
    IN  IF a \notin GridCharges \/ stored <= 0 \/ Relief(slots, c, i) THEN 0
        ELSE Lesser(100, (10000 * Drained(slots, c, i, next)) \div stored)
=============================================================================
