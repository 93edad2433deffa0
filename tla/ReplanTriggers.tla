--------------------------- MODULE ReplanTriggers ---------------------------
(* What makes the minute tick re-plan (services/evaluation_dispatcher.py): the *)
(* load deviation (forecast/load_deviation.py), then, in a tick it does not    *)
(* take, the cloud event (forecast/solar_events.py).  Both are timers over     *)
(* readings, started, kept and dropped tick by tick; stamps are ages here.     *)
EXTENDS Integers, Sequences, FiniteSetsExt

CONSTANTS
  SpikeMinutes,        \* spike_duration
  SustainedMinutes,    \* sustained_duration
  Cooldown,            \* cooldown, of both detectors
  OnsetMinutes,        \* ONSET_DURATION
  ClearingMinutes,     \* CLEARING_DURATION
  MaxSamples,          \* MAX_CLOUD_SAMPLES
  Forecast             \* the sun as forecast; readings go from 0 to it

ASSUME TriggersAssumption ==
  /\ {SpikeMinutes, SustainedMinutes, Cooldown, OnsetMinutes, ClearingMinutes,
      MaxSamples, Forecast} \subseteq Nat \ {0}
  /\ SpikeMinutes <= SustainedMinutes

VARIABLES
  spike_age,           \* minutes since _spike_started_at
  sustained_age,       \* since _sustained_started_at
  load_age,            \* since the load's _last_triggered_at
  onset_age,           \* since _onset_started_at
  clearing_age,        \* since _clearing_started_at
  cloud_age,           \* since the cloud's _last_triggered_at
  in_event,            \* _in_cloud_event
  samples,             \* _cloud_samples
  factor,              \* data.cloud_event_solar_scale_factor
  unanswered           \* history: minutes of deviation since the last re-plan for it

loadVars == <<spike_age, sustained_age, load_age, unanswered>>
cloudVars == <<onset_age, clearing_age, cloud_age, in_event, samples, factor>>
triggerVars == <<loadVars, cloudVars>>

None == -1

\* One minute older; ages of cap and more are alike.
Older(age, cap) == IF age = None THEN None ELSE Min({age + 1, cap})

------------------------------------------------------------------------------
\* LoadDeviationDetector.  deviation: "none", "sustained" (over 1 kW) or "spike".

\* Mutant: each of the two windows wants a deviation of its own size.
WindowExact(age, breach, deviation) ==
  IF deviation = breach THEN (IF age = None THEN 0 ELSE age) ELSE None

\* _update_window
Window(age, breach, deviation) ==
  IF deviation = "spike" \/ deviation = breach THEN (IF age = None THEN 0 ELSE age)
  ELSE None

\* _triggered_breach
LoadBreach(spiking, sustained) ==
  spiking > SpikeMinutes \/ sustained > SustainedMinutes

\* evaluate, a minute after the last tick; without a plan in force or a slot of
\* now it starts afresh.
EvaluateLoad(active, deviation) ==
  LET spiking == Window(Older(spike_age, SpikeMinutes + 1), "spike", deviation)
      sustained == Window(Older(sustained_age, SustainedMinutes + 1), "sustained", deviation)
      age == Older(load_age, Cooldown)
      cools == age # None /\ age < Cooldown
      triggers == active /\ ~cools /\ LoadBreach(spiking, sustained)
      kept == active /\ ~cools /\ ~triggers
  IN /\ spike_age' = IF kept THEN spiking ELSE None
     /\ sustained_age' = IF kept THEN sustained ELSE None
     /\ load_age' = IF triggers THEN 0 ELSE age
     /\ unanswered' = IF active /\ ~triggers /\ deviation # "none"
                      THEN Min({unanswered + 1, Cooldown + SustainedMinutes + 3}) ELSE 0

LoadTriggers == load_age' = 0

------------------------------------------------------------------------------
\* SolarEventDetector

Total(readings) == FoldFunction(+, 0, readings)

\* _depressed_average, and a reading a fifth above it.
Clearing(power) ==
  Total(samples) > 0 /\ 5 * Len(samples) * power > 6 * Total(samples)

Latest(readings) ==
  IF Len(readings) <= MaxSamples THEN readings ELSE Tail(readings)

CloudAge == Older(cloud_age, Cooldown)
OnsetAge == Older(onset_age, OnsetMinutes + 1)
ClearingAge == Older(clearing_age, ClearingMinutes + 1)

\* Without a plan in force or enough sun forecast: _clear_state_and_scale_factor.
NoCloudWatch ==
  /\ onset_age' = None /\ clearing_age' = None
  /\ in_event' = FALSE /\ samples' = <<>> /\ factor' = None
  /\ cloud_age' = CloudAge

\* _handle_cloud_event: cleared for long enough.
EventClears(power) ==
  /\ in_event /\ Clearing(power)
  /\ ClearingAge > ClearingMinutes
  /\ in_event' = FALSE /\ samples' = <<>>
  /\ clearing_age' = None /\ onset_age' = None
  /\ cloud_age' = 0
  /\ factor' = None

EventMayClear(power) ==
  /\ in_event /\ Clearing(power)
  /\ ClearingAge <= ClearingMinutes
  /\ clearing_age' = IF clearing_age = None THEN 0 ELSE ClearingAge
  /\ cloud_age' = CloudAge
  /\ UNCHANGED <<onset_age, in_event, samples, factor>>

EventGoesOn(power) ==
  /\ in_event /\ ~Clearing(power)
  /\ clearing_age' = None
  /\ samples' = Latest(Append(samples, power))
  /\ cloud_age' = CloudAge
  /\ UNCHANGED <<onset_age, in_event, factor>>

\* _handle_onset_detection
Onset(power) ==
  /\ in_event' = TRUE
  /\ samples' = <<power>>
  /\ onset_age' = None /\ clearing_age' = None
  /\ cloud_age' = 0
  /\ factor' = power

\* No onset: too soon after the last trigger, too much sun, or not for long enough.
NoOnset(age) ==
  /\ onset_age' = age
  /\ cloud_age' = CloudAge
  /\ UNCHANGED <<clearing_age, in_event, samples, factor>>

WatchForClouds(power) ==
  /\ ~in_event
  /\ IF (CloudAge # None /\ CloudAge < Cooldown) \/ 2 * power >= Forecast THEN NoOnset(None)
     ELSE IF 4 * power < Forecast \/ OnsetAge > OnsetMinutes THEN Onset(power)
     ELSE NoOnset(IF onset_age = None THEN 0 ELSE OnsetAge)

EvaluateCloud(active, power) ==
  IF ~active THEN NoCloudWatch
  ELSE EventClears(power) \/ EventMayClear(power) \/ EventGoesOn(power) \/ WatchForClouds(power)

------------------------------------------------------------------------------
\* on_fast_tick: a tick the load takes does not look at the clouds.
LoadTick(active, deviation) ==
  /\ EvaluateLoad(active, deviation) /\ LoadTriggers
  /\ onset_age' = OnsetAge /\ clearing_age' = ClearingAge /\ cloud_age' = CloudAge
  /\ UNCHANGED <<in_event, samples, factor>>

CloudTick(active, deviation, sunny, power) ==
  /\ EvaluateLoad(active, deviation) /\ ~LoadTriggers
  /\ EvaluateCloud(active /\ sunny, power)

\* handle_fast_tick returns early: during the startup grace, say.
MissedTick ==
  /\ spike_age' = Older(spike_age, SpikeMinutes + 1)
  /\ sustained_age' = Older(sustained_age, SustainedMinutes + 1)
  /\ load_age' = Older(load_age, Cooldown)
  /\ unanswered' = 0
  /\ onset_age' = OnsetAge /\ clearing_age' = ClearingAge /\ cloud_age' = CloudAge
  /\ UNCHANGED <<in_event, samples, factor>>

TriggersInit ==
  /\ spike_age = None /\ sustained_age = None /\ load_age = None /\ unanswered = 0
  /\ onset_age = None /\ clearing_age = None /\ cloud_age = None
  /\ in_event = FALSE /\ samples = <<>> /\ factor = None

TriggersNext ==
  \/ \E active \in BOOLEAN, deviation \in {"none", "sustained", "spike"} :
       \/ LoadTick(active, deviation)
       \/ \E sunny \in BOOLEAN, power \in 0..Forecast : CloudTick(active, deviation, sunny, power)
  \/ MissedTick

TriggersSpec == TriggersInit /\ [][TriggersNext]_triggerVars

------------------------------------------------------------------------------
\* Load: a deviation that goes on, spiking or not, is re-planned for within the
\* cooldown of the last re-plan and the sustained time.
DeviationIsAnswered == unanswered <= Cooldown + SustainedMinutes + 1

\* Solar: the plan's sun is scaled down in a cloud event and in nothing else.
FactorIsOfTheEvent ==
  /\ in_event <=> factor # None
  /\ factor # None => 2 * factor < Forecast

(* The detectors neither forget nor cling: a load that goes on deviating is   *)
(* re-planned for, whatever its two windows, which are reset all through the  *)
(* cooldown, have been through; and no way out of a cloud event leaves its    *)
(* factor in the data for the plans after it.                                 *)
DetectorsHold == DeviationIsAnswered /\ FactorIsOfTheEvent
=============================================================================
