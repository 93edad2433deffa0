--------------------------- MODULE PriceThreshold ---------------------------
(* What a price must stay below to count as cheap (price_calculator.py): a     *)
(* percentile of the forecast, raised as the demand window nears when solar    *)
(* will not do, computed once for the plan and once more, smoothed, for what   *)
(* is shown.  Prices are in cents, times in units of a clock that starts at    *)
(* midnight.                                                                   *)
EXTENDS Integers, Sequences, FiniteSets, FiniteSetsExt

CONSTANTS
  DayUnits, HourUnits,             \* 24 hours and an hour
  WindowAt,                        \* dw_start_time
  ShortestWindow, LongestWindow,   \* URGENCY_WINDOW_MIN_HOURS, _MAX_HOURS
  Margin,                          \* URGENCY_CHARGE_MARGIN_HOURS
  Deadband,                        \* _STALE_TARGET_REACHED_SOC_DEADBAND_PCT, as Shortfalls
  Ceiling, Percentile,             \* max_precharge_price, cheap_price_percentile
  Feeds,                           \* general_forecast: start -> price, over two days
  PlannedHorizons,                 \* what forecast_horizon_hours may say
  Shortfalls                       \* the charging time the battery is short of its target

ASSUME ThresholdAssumption ==
  /\ HourUnits \in Nat \ {0} /\ WindowAt \in HourUnits .. DayUnits - 1
  /\ ShortestWindow \in Nat \ {0} /\ LongestWindow \in Nat /\ LongestWindow >= ShortestWindow
  /\ {DayUnits, Margin, Deadband} \subseteq Nat /\ Shortfalls \subseteq Nat
  /\ Ceiling \in Int /\ Percentile \in 0..100 /\ PlannedHorizons \subseteq Nat
  /\ \A feed \in Feeds : \A t \in DOMAIN feed : t \in Nat /\ feed[t] \in Int

VARIABLES
  hour,                \* of now_dt, in units
  base_cheap_price, planner_threshold_used, effective_cheap_price,
  last_raw,            \* _last_raw_effective_cheap_price
  raws,                \* lowest and highest raw threshold since the start
  pressed,             \* the shortfall the latest pass at this hour urged for, or none
  promise              \* what an earlier plan assumed of a slot to come

thresholdVars == <<hour, base_cheap_price, planner_threshold_used, effective_cheap_price,
                   last_raw, raws, pressed, promise>>

NoneYet == -1

\* Python rounds a float that stands for a tie either way.
RoundedPrices(n, d) ==
  {q \in {n \div d, n \div d + 1} : 2 * (n - q * d) \in -d .. d}

------------------------------------------------------------------------------
\* _collect_forecast_prices_and_base: the forecast of a shorter horizon takes a
\* lower percentile.  A period that has begun is not looked at.
PercentileBase(feed, horizon) ==
  LET near == {t \in DOMAIN feed : t \in hour .. hour + DayUnits}
      n == Cardinality(near)
      cheaperThan(t) ==
        Cardinality({u \in near : feed[u] < feed[t] \/ (feed[u] = feed[t] /\ u < t)})
      sorted(i) == feed[CHOOSE t \in near : cheaperThan(t) = i]
      scale == 1000 * DayUnits
      index == Percentile * Max({DayUnits, 10 * Min({horizon, DayUnits})}) * (n - 1)
      lower == index \div scale
      part == index % scale
  IN IF n = 0 THEN {Ceiling}
     ELSE IF lower + 1 >= n THEN {sorted(n - 1)}
     ELSE RoundedPrices(sorted(lower) * (scale - part) + sorted(lower + 1) * part, scale)

BeforeWindow == hour < WindowAt

\* The target hour, which the calculator takes from the day's clock.
TargetHour == (WindowAt \div HourUnits) * HourUnits
TargetAt == IF TargetHour > hour THEN TargetHour ELSE TargetHour + DayUnits

UrgencyWindow(short) ==
  IF short = 0 THEN ShortestWindow
  ELSE Max({ShortestWindow, Min({LongestWindow, short + Margin})})

\* urgency_ramp_price, as a numerator over the window.
Ramp(base, left, window) ==
  base * window + (IF Ceiling <= base THEN 0
                   ELSE (Ceiling - base) * Max({window - left, 0}))

CheapestAhead(feed) ==
  Min({Ceiling} \cup {feed[t] : t \in {u \in DOMAIN feed : u >= hour /\ u < TargetAt}})

UrgentIn(feed, base, window) ==
  {Max({Min({p, Ceiling}), CheapestAhead(feed), base}) :
     p \in RoundedPrices(Ramp(base, TargetAt - hour, window), window)}

\* Mutant: the live ramp keeps the fixed window it once had.
UrgentPricesFixedWindow(feed, base, short) == UrgentIn(feed, base, ShortestWindow)

UrgentPrices(feed, base, short) == UrgentIn(feed, base, UrgencyWindow(short))

\* A latch that the target was reached today counts only near the target.
Urges(gap, short, reached) ==
  gap /\ BeforeWindow /\ ~(reached /\ short <= Deadband)

\* For the plan, before it is made, and for what is shown, after it: the solar
\* forecast, the plan and the latch say what they like.
Urgencies(short) ==
  {[early |-> Urges(short > 0 /\ ~sunny, short, reached),
    late  |-> Urges(~reaches, short, reached)] :
     sunny \in BOOLEAN, reaches \in BOOLEAN, reached \in BOOLEAN}

RawThresholds(urges, feed, base, short) ==
  IF urges THEN UrgentPrices(feed, base, short) ELSE {base}

\* _apply_threshold_hysteresis.  Two cents are a change or none, as the floats
\* have it.
Smoothed(raw) ==
  LET change == Max({raw - last_raw, last_raw - raw})
  IN IF last_raw = NoneYet THEN {<<raw, raw>>}
     ELSE (IF change <= 2 THEN {<<effective_cheap_price, last_raw>>} ELSE {})
          \cup (IF change < 2 THEN {}
                ELSE {<<s, raw>> : s \in RoundedPrices(3 * raw + 7 * effective_cheap_price, 10)})

\* compute_pre_dw_charge_thresholds: the ramp at the slot's own time, up to the
\* window itself.
PlannedRamp(base, short, slot) ==
  [slot |-> slot, base |-> base, short |-> short,
   ramp |-> Ramp(base, WindowAt - slot, UrgencyWindow(short)), window |-> UrgencyWindow(short)]

ThresholdInit ==
  /\ hour \in 0 .. DayUnits - 1
  /\ base_cheap_price = 0 /\ planner_threshold_used = 0 /\ effective_cheap_price = 0
  /\ last_raw = NoneYet /\ raws = <<>> /\ pressed = NoneYet /\ promise = {}

\* One pass of compute_derived_values.  The plan's ramp at one slot to come may
\* be remembered.
Pass(feed, horizon, short, urgency) ==
  \E base \in PercentileBase(feed, horizon) :
    /\ base_cheap_price' = base /\ pressed' = IF urgency.early THEN short ELSE NoneYet
    /\ planner_threshold_used' \in RawThresholds(urgency.early, feed, base, short)
    /\ \E raw \in RawThresholds(urgency.late, feed, base, short) :
         /\ \E kept \in Smoothed(raw) :
              effective_cheap_price' = kept[1] /\ last_raw' = kept[2]
         /\ raws' = IF raws = <<>> THEN <<raw, raw>>
                    ELSE <<Min({raws[1], raw}), Max({raws[2], raw})>>
    /\ \/ UNCHANGED promise
       \/ Ceiling > base /\ \E slot \in hour .. WindowAt - 1 :
            promise' = {PlannedRamp(base, short, slot)}
    /\ UNCHANGED hour

TimePasses ==
  /\ hour' = (hour + 1) % DayUnits
  /\ promise' = (IF hour' = 0 THEN {} ELSE {p \in promise : p.slot >= hour'}) /\ pressed' = NoneYet
  /\ UNCHANGED <<base_cheap_price, planner_threshold_used, effective_cheap_price, last_raw, raws>>

\* A new coordinator has a new calculator.
CalculatorRestarts ==
  /\ base_cheap_price' = 0 /\ planner_threshold_used' = 0 /\ effective_cheap_price' = 0
  /\ last_raw' = NoneYet /\ raws' = <<>> /\ pressed' = NoneYet
  /\ UNCHANGED <<hour, promise>>

ThresholdNext ==
  \/ \E feed \in Feeds, horizon \in PlannedHorizons, short \in Shortfalls :
       \E urgency \in Urgencies(short) : Pass(feed, horizon, short, urgency)
  \/ TimePasses
  \/ CalculatorRestarts

ThresholdSpec == ThresholdInit /\ [][ThresholdNext]_thresholdVars

------------------------------------------------------------------------------
(* What the plan took a slot's threshold to be, the pass at that slot grants,  *)
(* if the base is the same and the battery no fuller: the plan and the live    *)
(* threshold share one ramp (dp_math.py: urgency_ramp_price) so that they      *)
(* cannot drift apart.  The plan's ramp runs to the window, the live one only  *)
(* to the hour the window opens in: between the two it already aims at         *)
(* tomorrow's, and the plan is not honoured (README, section 5).               *)
RampIsHonoured ==
  \A p \in promise :
    p.slot = hour /\ hour < TargetHour /\ base_cheap_price = p.base /\ pressed >= p.short
      => 2 * p.window * planner_threshold_used >= 2 * p.ramp - p.window

(* What is shown lies between the raw thresholds there have been, whatever is  *)
(* smoothed or skipped and however it rounds (_apply_threshold_hysteresis).    *)
ShownAsComputed ==
  raws # <<>> => effective_cheap_price \in raws[1] .. raws[2]

(* Both, for the threshold of the plan and for the one that is shown.          *)
ThresholdsHold == RampIsHonoured /\ ShownAsComputed
=============================================================================
