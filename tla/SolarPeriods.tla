---------------------------- MODULE SolarPeriods ----------------------------
(* What LocalShift learns of the solar forecast (forecast/solar_accuracy.py    *)
(* and the backfill of coordinator/tick_scheduler.py): the forecast of each    *)
(* half hour waits until what was produced is known, which the medium tick     *)
(* integrates over whatever intervals it is given.  The integrals do not       *)
(* outlive the process, the forecasts and the records do, as last saved.       *)
(* Energy is reduced to whether there was any: the attribution is what is      *)
(* checked, as minutes of each half hour.                                      *)
EXTENDS Integers, FiniteSets, Sequences

CONSTANTS
  Periods,             \* the half hours looked at
  PeriodUnits,         \* units of time in one
  MinCovered,          \* _MIN_COVERAGE_FRACTION of it, rounded up
  MaxIntegration,      \* _MAX_INTEGRATION_SECONDS, in units
  StaleAfter,          \* age at which a pending forecast is evicted, in units
  MinSamples,          \* MIN_SOLAR_CORRECTION_SAMPLES
  MaxPeriodRecords     \* MAX_PERIOD_RECORDS

ASSUME PeriodsAssumption ==
  /\ {Periods, PeriodUnits, MaxIntegration, StaleAfter, MinSamples, MaxPeriodRecords}
       \subseteq Nat \ {0}
  /\ MinCovered \in 1..PeriodUnits

VARIABLES
  clock,               \* in units; ticks may come at any of them
  tracking,            \* a process is running
  baseline,            \* _last_solar_power_timestamp, or none
  accum,               \* _period_*_accum and _period_boost_flags
  waiting,             \* _pending_forecasts
  records,             \* _period_records
  sample_count,        \* _metrics.sample_count
  solar_store,         \* what is saved of them
  seen                 \* history: units this process has integrated

solarVars == <<clock, tracking, baseline, accum, waiting, records, sample_count,
               solar_store, seen>>

Halves == 0..(Periods - 1)
StartOf(p) == p * PeriodUnits
UnitsOf(p) == StartOf(p)..(StartOf(p) + PeriodUnits - 1)
TimesOfDay == {"morning", "afternoon"}
TimeOfDay(p) == IF p % 2 = 0 THEN "morning" ELSE "afternoon"

NoBaseline == -1
Nothing == [covered |-> 0, lit |-> FALSE, boost |-> FALSE]
NotPending == [waits |-> FALSE, forecast |-> FALSE]

------------------------------------------------------------------------------
\* _recompute_metrics: what a forced charge has spoilt is not counted.
Counted(done) == {i \in DOMAIN done : ~done[i].boost}

\* The last metrics stand while there is no record at all.
SampleCount(done) == IF done = <<>> THEN sample_count ELSE Cardinality(Counted(done))

\* Mutant: the whole interval goes to the period it began in.
OverlapAtStart(p) == IF baseline \in UnitsOf(p) THEN baseline..(clock - 1) ELSE {}

\* Units of the interval since the baseline that fall into p.
OverlapIn(p) == (baseline..(clock - 1)) \cap UnitsOf(p)

\* The trapezoid, prorated; a longer interval is not integrated.
Integrated(lit, boost) ==
  [p \in Halves |->
     LET overlap == OverlapIn(p)
     IN IF overlap = {} \/ clock - baseline > MaxIntegration THEN accum[p]
        ELSE [covered |-> accum[p].covered + Cardinality(overlap),
              lit     |-> accum[p].lit \/ lit,
              boost   |-> accum[p].boost \/ boost]]

\* _flush_completed_periods of the periods that are over, in order.
Completed(sums) ==
  {p \in Halves : sums[p].covered > 0 /\ StartOf(p) + PeriodUnits <= clock}

\* backfill_actual: neither forecast nor sun says nothing.
Recorded(p, sum) ==
  sum.covered >= MinCovered /\ waiting[p].waits /\ (waiting[p].forecast \/ sum.lit)

Record(p, sum) ==
  [period |-> p, time |-> TimeOfDay(p), boost |-> sum.boost, covered |-> sum.covered,
   units |-> seen' \cap UnitsOf(p)]

Newest(done) ==
  IF Len(done) <= MaxPeriodRecords THEN done
  ELSE SubSeq(done, Len(done) - MaxPeriodRecords + 1, Len(done))

\* The accumulators are in the order in which their half hours began.
InOrder(periods) ==
  CHOOSE order \in [1..Cardinality(periods) -> periods] :
    \A i, j \in DOMAIN order : i < j => order[i] < order[j]

Flushed(sums) ==
  LET done == InOrder({p \in Completed(sums) : Recorded(p, sums[p])})
  IN Newest(records \o [i \in DOMAIN done |-> Record(done[i], sums[done[i]])])

Stale(p) == StartOf(p) < clock - StaleAfter

------------------------------------------------------------------------------
UnitPasses ==
  /\ clock + 1 <= Periods * PeriodUnits
  /\ clock' = clock + 1
  /\ UNCHANGED <<tracking, baseline, accum, waiting, records, sample_count,
                 solar_store, seen>>

\* _backfill_solar_actual: the first tick only sets the baseline.
FirstTick ==
  /\ tracking /\ baseline = NoBaseline
  /\ baseline' = clock
  /\ UNCHANGED <<clock, tracking, accum, waiting, records, sample_count,
                 solar_store, seen>>

MediumTick(lit, boost) ==
  /\ tracking /\ baseline # NoBaseline /\ baseline < clock
  /\ baseline' = clock
  /\ seen' = IF clock - baseline > MaxIntegration THEN seen
             ELSE seen \cup (baseline..(clock - 1))
  /\ LET sums == Integrated(lit, boost)
         over == Completed(sums)
         flushed == {p \in over : sums[p].covered >= MinCovered}
     IN /\ accum' = [p \in Halves |-> IF p \in over THEN Nothing ELSE sums[p]]
        /\ records' = Flushed(sums)
        /\ waiting' = [p \in Halves |->
             IF p \in flushed \/ Stale(p) THEN NotPending ELSE waiting[p]]
  /\ sample_count' = IF records' = records THEN sample_count ELSE SampleCount(records')
  /\ UNCHANGED <<clock, tracking, solar_store>>

\* record_forecast: the latest forecast of a half hour is the one that waits.
ForecastOf(forecast) == [waits |-> TRUE, forecast |-> forecast]

\* _record_forecasts_for_slots: every half hour the plan covers with a whole
\* slot, which the near ones may not be.
RecordForecasts(first, forecast) ==
  /\ tracking
  /\ first * PeriodUnits + PeriodUnits > clock
  /\ waiting' = [p \in Halves |-> IF p >= first THEN ForecastOf(forecast) ELSE waiting[p]]
  /\ UNCHANGED <<clock, tracking, baseline, accum, records, sample_count,
                 solar_store, seen>>

\* async_save; the dirty flag only spares a write of the same.
SaveSolar ==
  /\ tracking
  /\ solar_store' = [records |-> records, waiting |-> waiting, count |-> sample_count]
  /\ UNCHANGED <<clock, tracking, baseline, accum, waiting, records, sample_count, seen>>

\* The process ends, with whatever it had not saved.
SolarGoesDown ==
  /\ tracking
  /\ tracking' = FALSE
  /\ baseline' = NoBaseline /\ accum' = [p \in Halves |-> Nothing]
  /\ waiting' = [p \in Halves |-> NotPending]
  /\ records' = <<>> /\ sample_count' = 0
  /\ seen' = {}
  /\ UNCHANGED <<clock, solar_store>>

\* async_load; a record or a forecast that cannot be read is left out.
LoadSolar(readable) ==
  /\ ~tracking
  /\ tracking' = TRUE
  /\ records' = IF readable THEN solar_store.records ELSE <<>>
  /\ waiting' = [p \in Halves |->
       IF Stale(p) THEN NotPending ELSE solar_store.waiting[p]]
  /\ sample_count' = IF records' # <<>> THEN Cardinality(Counted(records'))
                     ELSE solar_store.count
  /\ UNCHANGED <<clock, baseline, accum, solar_store, seen>>

SolarInit ==
  /\ clock = 0 /\ tracking = TRUE
  /\ baseline = NoBaseline /\ accum = [p \in Halves |-> Nothing]
  /\ waiting = [p \in Halves |-> NotPending]
  /\ records = <<>> /\ sample_count = 0
  /\ solar_store = [records |-> <<>>, waiting |-> waiting, count |-> 0]
  /\ seen = {}

SolarNext ==
  \/ UnitPasses
  \/ FirstTick
  \/ \E lit, boost \in BOOLEAN : MediumTick(lit, boost)
  \/ \E first \in Halves, forecast \in BOOLEAN : RecordForecasts(first, forecast)
  \/ SaveSolar
  \/ SolarGoesDown
  \/ \E readable \in BOOLEAN : LoadSolar(readable)

SolarSpec == SolarInit /\ [][SolarNext]_solarVars

------------------------------------------------------------------------------
\* _compute_context_metric: how many records a rung of the ladder has.
Evidence(time) ==
  Cardinality({i \in Counted(records) : time = "any" \/ records[i].time = time})

\* _resolve_bias_scope: the first rung with enough, specific before coarse.
Scope(time) ==
  IF Evidence(time) >= MinSamples THEN time
  ELSE IF Evidence("any") >= MinSamples THEN "any" ELSE "none"

\* has_sufficient_samples, which the sensor reports as correction_active.
Reported == sample_count >= MinSamples

\* get_bias_correction: any rung of the ladder multiplies the forecast.
Corrects(time) == Scope(time) # "none"

(* A half hour teaches only what was produced in it: a record covers at least *)
(* MinCovered of its own units, each integrated once and by the process that  *)
(* records it, never a gap nobody saw, and no half hour has two records.      *)
WholePeriodsOnly ==
  /\ \A i \in DOMAIN records :
       LET r == records[i]
       IN r.covered = Cardinality(r.units) /\ r.covered >= MinCovered
  /\ \A i, j \in DOMAIN records : i # j => records[i].period # records[j].period

(* The correction the sensor reports as active is applied, and no other: the  *)
(* gate, which counts once per record, and the lookups of every context agree.*)
CorrectionAgrees ==
  (tracking /\ records # <<>>)
    => \A time \in TimesOfDay : Reported <=> Corrects(time)

(* The forecast is corrected by what was seen, and just when it is reported.  *)
LearntAsSeen == WholePeriodsOnly /\ CorrectionAgrees
=============================================================================
