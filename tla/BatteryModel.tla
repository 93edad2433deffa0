---------------------------- MODULE BatteryModel ----------------------------
(***************************************************************************)
(* The planner's model of the battery: what an action does to the state of *)
(* charge and to the grid meter over one slot, what the slot costs, and    *)
(* the solar-only simulations (engine/transitions.py, engine/cost.py,      *)
(* engine/dp_math.py).                                                     *)
(*                                                                         *)
(* Units.  State of charge is counted in small integer units, energy in    *)
(* units at the meter, time in slot units.  One energy unit drawn from the *)
(* grid or the roof stores StorePer units of charge; one delivered to the  *)
(* house or the grid takes TakePer.  StorePer < TakePer is the round trip  *)
(* loss.  Costs are in hundredths of energy unit times price unit.         *)
(***************************************************************************)
EXTENDS Integers, Sequences

CONSTANTS
    MinSoc, MaxSoc,       \* min_soc_pct and max_soc_pct
    StorePer, TakePer,    \* charge units stored, taken, per energy unit
    ChargeEff,            \* charge_efficiency in percent
    ChargeRate,           \* charge_rate_kw: energy units per slot unit
    BoostRate,            \* boost_charge_rate_kw
    SolarRate,            \* solar_charge_rate_kw
    DischargeRate,        \* discharge_rate_kw
    TaperStart,           \* charge_taper_start_pct
    TaperMin,             \* charge_taper_min_factor in percent
    TaperSteps            \* sub-steps the taper is integrated over

ASSUME BatteryAssumption ==
    /\ MinSoc \in Nat /\ MaxSoc \in Nat /\ MinSoc < MaxSoc
    /\ StorePer \in Nat \ {0} /\ TakePer \in Nat /\ StorePer <= TakePer
    /\ {ChargeRate, BoostRate, SolarRate, DischargeRate} \subseteq Nat
    /\ ChargeRate <= BoostRate
    /\ TaperStart \in Nat /\ TaperStart <= MaxSoc /\ TaperMin \in 0 .. 100
    /\ TaperSteps \in Nat \ {0}

Lesser(a, b) == IF a < b THEN a ELSE b
Greater(a, b) == IF a > b THEN a ELSE b
Positive(x) == Greater(0, x)
CeilDiv(a, b) == (a + b - 1) \div b

\* net_kwh: what the roof makes beyond what the house uses in a slot.
Net(slot) == slot.solar - slot.load

Moved(soc, drawn, sold) == [soc |-> soc, drawn |-> drawn, sold |-> sold]

(***************************************************************************)
(* Transitions (engine/transitions.py).                                    *)
(***************************************************************************)

\* Surplus solar fills the battery up to the solar rate and the headroom and
\* the rest is sold, whatever kind of hold it is.
HoldSurplus(soc, slot) ==
    LET stored == Lesser(Lesser(Net(slot), SolarRate * slot.len) * StorePer,
                         Positive(MaxSoc - soc))
    IN  Moved(soc + stored, 0, Net(slot) - CeilDiv(stored, StorePer))

\* A deficit is served from the battery down to the discharge floor.
HoldDeficit(soc, slot, floor) ==
    LET taken == Lesser(Lesser(-Net(slot), DischargeRate * slot.len) * TakePer,
                        Positive(soc - floor))
    IN  Moved(soc - taken, -Net(slot) - taken \div TakePer, 0)

\* Charge stored in one slot: full rate below the taper's knee, derated
\* linearly towards TaperMin at the ceiling above it, integrated in sub-steps.
TaperFactor(soc) ==
    IF soc <= TaperStart THEN 100
    ELSE 100 - ((soc - TaperStart) * (100 - TaperMin)) \div Greater(1, MaxSoc - TaperStart)

TaperedStep(soc, part) == Lesser(MaxSoc, soc + (part * TaperFactor(soc)) \div 100)

TaperedFrom(soc, part) ==
    LET reached[n \in 0 .. TaperSteps] ==
            IF n = 0 THEN soc ELSE TaperedStep(reached[n - 1], part)
    IN  reached[TaperSteps] - soc

Tapered(soc, rate, len) ==
    LET full == rate * StorePer * len
    IN  IF soc + full <= TaperStart THEN full
        ELSE TaperedFrom(soc, full \div TaperSteps)

\* Grid charging carries the house as well; the draw is cut back so that the
\* charge ends exactly at the ceiling.
ChargeGrid(soc, slot, rate) ==
    LET solar  == Positive(Net(slot)) * StorePer
        stored == Tapered(soc, rate, slot.len)
        taken  == IF Net(slot) > 0
                  THEN Lesser(stored, Positive(MaxSoc - soc - solar))
                  ELSE stored
        capped == Lesser(taken, Positive(MaxSoc - soc - solar))
    IN  Moved(Lesser(MaxSoc, soc + solar + taken),
              CeilDiv(capped, StorePer) + Positive(-Net(slot)), 0)

ExportToReserve(soc, slot, floor) ==
    LET taken == Lesser(DischargeRate * slot.len * TakePer, Positive(soc - floor))
    IN  Moved(soc - taken, 0, Positive(taken \div TakePer + Net(slot)))

\* Selling runs at the discharge rate down to the higher of the discharge
\* floor and the slot's own load-sized floor.
Export(soc, slot, floor) ==
    LET taken == Lesser(DischargeRate * slot.len * TakePer,
                        Positive(soc - Greater(floor, slot.exportFloor)))
    IN  Moved(soc - taken, 0, Positive(taken \div TakePer + Net(slot)))

\* Next charge, grid import and grid export of an action.
Transition(soc, a, slot, floor) ==
    CASE a = "hold"   -> IF Net(slot) >= 0 THEN HoldSurplus(soc, slot)
                         ELSE HoldDeficit(soc, slot, floor)
      [] a = "strict" -> IF Net(slot) >= 0 THEN HoldSurplus(soc, slot)
                         ELSE Moved(soc, -Net(slot), 0)
      [] a = "charge" -> ChargeGrid(soc, slot, ChargeRate)
      [] a = "boost"  -> ChargeGrid(soc, slot, BoostRate)
      [] a = "export" -> Export(soc, slot, floor)
      [] OTHER        -> Moved(soc, 0, 0)

\* The clamp the solver applies to every transition.
Clamped(moved) ==
    [moved EXCEPT !.soc = Greater(MinSoc, Lesser(MaxSoc, moved.soc))]

(***************************************************************************)
(* Costs (engine/cost.py).                                                 *)
(***************************************************************************)

GridCharges == {"charge", "boost"}

\* Stored energy, in hundredths of an energy unit, of s units of charge.
StoredEnergy(s) == (s * ChargeEff) \div StorePer

RoundTrip == (100 * StorePer) \div TakePer

\* net_cost of a slot.  switching is the penalty due when the action changes
\* what the hardware is doing; blind is the uncertainty rate of a short
\* horizon; solarFactor and futileFactor are the two penalty factors in
\* percent (engine/penalties.py).
StageCost(a, moved, slot, switching, blind, solarFactor, futileFactor) ==
    LET charging == a \in GridCharges
        import   == moved.drawn * slot.buy
    IN  100 * (import - moved.sold * slot.sell)
        + switching
        + import * solarFactor
        + (IF charging THEN moved.drawn * blind ELSE 0)
        + (IF charging THEN (import * (100 - RoundTrip + 30) * futileFactor) \div 100
           ELSE 0)

\* The switching penalty: the flat knob or the slot-energy floor.
SwitchingPenalty(slot, flat, perUnit) ==
    Greater(flat, perUnit * Greater(ChargeRate, DischargeRate) * slot.len)

TerminalCost(soc, target, perUnit) == Positive(target - soc) * perUnit

SalvagePerUnit(soc, floor, cheapest, salvageCap) ==
    IF cheapest <= 0 THEN 0
    ELSE Positive(soc - floor) * Lesser(cheapest * 50, salvageCap)

\* What is left above the floor at the horizon's end is worth at most half of
\* the cheapest price in view, and at most salvageCap.
Salvage(soc, floor, cheapest, salvageCap) ==
    IF cheapest <= 0 THEN 0
    ELSE (Positive(soc - floor) * Lesser(cheapest * 50, salvageCap)) \div TakePer

(***************************************************************************)
(* Grid of states and solar-only simulations (engine/dp_math.py).          *)
(***************************************************************************)

SocGrid(step) == [k \in 1 .. (MaxSoc - MinSoc) \div step + 1 |-> MinSoc + (k - 1) * step]

\* The nearest grid point, the lower one of two equally near.
BinOf(soc, step) ==
    1 + Lesser((MaxSoc - MinSoc) \div step,
               (2 * Positive(soc - MinSoc) + step - 1) \div (2 * step))

\* One slot on solar and load alone.
Drift(soc, slot, floor, ceiling) ==
    LET rate  == SolarRate * slot.len
        moved == IF Net(slot) >= 0 THEN Lesser(Net(slot), rate) * StorePer
                 ELSE -(Lesser(-Net(slot), rate) * TakePer)
    IN  Greater(floor, Lesser(ceiling, soc + moved))

SolarOnlySoc(soc, slots, floor) ==
    LET after[i \in 0 .. Len(slots)] ==
            IF i = 0 THEN soc ELSE Drift(after[i - 1], slots[i], floor, MaxSoc)
    IN  after[Len(slots)]

\* The best charge the roof alone reaches inside the demand window's slots.
MaxSocInWindow(soc, slots, floor, entry, end) ==
    LET after(i) == SolarOnlySoc(soc, SubSeq(slots, 1, i), floor)
        inside   == {i \in 1 .. Len(slots) :
                        slots[i].deadline /\ entry <= i /\ i <= end}
    IN  IF inside = {} THEN soc
        ELSE CHOOSE m \in {soc} \cup {after(i) : i \in inside} :
                 \A i \in inside : m >= soc /\ m >= after(i)
=============================================================================
