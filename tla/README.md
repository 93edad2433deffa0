# LocalShift in TLA+

LocalShift is a Home Assistant integration that runs a Tesla Powerwall: it plans
a day of charging and exporting from prices and forecasts and commands the
battery's mode. Paths below are relative to `src/custom_components/localshift/`.

## 1. The system

| component | state it keeps | operations | modules |
|---|---|---|---|
| decision token, `state/machine.py` | fingerprint, epochs, budget, latches, Tesla-override state, commanded mode, timers | `evaluate_state_machine` under an asyncio lock, manual writes, grid-charging listener | `DecisionGate`, `Actuation`, `Supervision`, `Reserves`, `ChargeWatches` |
| facade, runner, `engine/optimizer_facade.py`, `optimizer_runner.py` | backstop latch and runway hold | `run_inline`, `_assign_active_mode` | `DecisionGate`, `Execution` |
| DP planner, `engine/core.py` and its gates, costs, penalties | none between plans | `DPPlanner.plan` | `BatteryModel`, `PlanGates`, `SpillAvoidance`, `Planner` |
| slot schedule, price inputs, `engine/slot_schedule.py`, `slots.py`, `pricing/`, `utils/export_availability.py` | feeds, health of the slots | readings to slots to prices | `SlotSchedule`, `ExportAvailability`, `PriceInputs` |
| price signals, `engine/price_calculator.py` | the smoothed threshold | two passes per evaluation | `PriceThreshold` |
| derived values, `computation_engine.py` | daily latches, caches | `compute_derived_values` | `DecisionGate`, `DayRecords`, `PriceThreshold` |
| coordinator, dispatcher, ticks, monitor `coordinator/`, `services/` | subscriptions, timers, startup grace, coalescing | set-up, stop, ticks, evaluations | `Lifecycle`, `ReplanTriggers`, `ResponseWatch` |
| controller, client, validator `integration/`, `state/validator.py` | none | a transition: four writes, then a validation with polls | `Actuation` |
| select, automation switch | saved options | user intents | `DecisionGate`, `Actuation` |
| stores: daily totals, outcomes, solar accuracy, bookings | what they persist | load, save, midnight | `DayRecords`, `DecisionOutcomes`, `SolarPeriods`, `Bookings` |
| load history, away mode | caches, away state | fetch, mask | `LoadHistory`, `Reserves` |
| input validation, `utils/validation.py`, `state/reader.py` | health of the entities | checks, readiness | `InputReadiness` |
| booked-load placement, `engine/booked_load.py` | none | choose a start | `LoadPlacement` |
| notifications, views, forms, solar signals, statistics | none a decision reads | | not modelled (section 6) |

`PROJECT.json` lists every component with its status and every hazard with its
line.

The hard behaviour is concurrency without threads. Everything runs on one
asyncio loop, so a step is what runs between two awaits. Evaluations serialise
on a fair lock, but a recompute runs outside it, user picks write to the battery
beside it, and the grid-charging listener reacts to the battery at any time.
Decisions are rationed: the mode may change only when an evaluation *observes* a
new decision context and is granted a token for it; everything that must happen
at an unchanged price has a mechanism of its own, and these mechanisms meet in
the same few variables. Around the decision there are outages and Tesla's own
events, unloads with work under way, stores that must survive a crash, and timers
over noisy readings. The planner is an approximation with a forward pass that
leaves its own grid, run again every few minutes on a feed that moves on.

What makes each part correct:

* the token: a decision only in the window of the evaluation that was granted
  it; nothing due waits for a price that does not move;
* the transition: the commanded mode and the hardware agree, or something will
  make them agree; a user's write is not undone by the automation's;
* outages and events: only a safe mode is written unasked, no wait is cut short,
  no yield lasts for ever;
* the planner: the plan is what its own table promises, its penalties and credits
  have no perverse incentive, floors hold, and the target is reached when the
  insurance says so;
* the inputs: each second is planned once, with the prices of now;
* the life cycle: one coordinator in charge, which leaves nothing behind;
* records: what is learned or remembered is of the time, the decision and the
  house it is attributed to, across midnight, restarts and crashes.

## 2. Modules

| module | models |
|---|---|
| `DecisionGate`, `DecisionGateBudget`, `DecisionGateLive` | the token and the commit; a history of the charges the plan started in a context; a calm with fairness |
| `Actuation`, `ActuationLive` | from the decided mode to the battery, call by call; a bounded number of troubles, then a calm |
| `Supervision`, `SupervisionLive` | what an evaluation does around its decision: readiness gate, fallback, Tesla override, debounce, health check; four kinds of calm |
| `BatteryModel` -> `PlanGates` -> `SpillAvoidance` -> `Planner` -> `Execution` | the planner, each extending the one before: transitions and costs; flags, gates and penalties; negative feed-in; the solves; the receding horizon with the backstops |
| `SlotSchedule`, `ExportAvailability` -> `PriceInputs` | the time axis; the export calendar; feeds read at different moments, and the watch over them |
| `OneController` <- `Lifecycle`, `LifecycleLive` | the promise "one coordinator commands"; set-up, failure, unload and everything under way across them, shown to implement it; its fairness |
| `DayRecords` -> `DecisionOutcomes` | the totals and latches of a day over restarts; decisions measured by these totals |
| `SolarPeriods`, `Reserves`, `ReplanTriggers`, `Bookings`, `ChargeWatches`, `LoadHistory`, `InputReadiness`, `ResponseWatch`, `LoadPlacement`, `PriceThreshold` | one small state machine each, composed in `MCRecords` |
| `DecisionGateProofs`, `ActuationProofs`, `SupervisionProofs`, `LifecycleProofs` | theorems about the module of their name, the first with `DecisionGateBudget` |
| `PlannerProofs` | theorems about the planner, from `BatteryModel` up to the loop of `Execution`, and about `LoadPlacement` |
| `PriceThresholdProofs` | theorems about the price threshold and about the health of the feed in `PriceInputs` |
| `WatchesProofs`, `RecordsProofs` | theorems about ten of the small machines: reserves, alert, triggers, lags and readiness; bookings, load profiles, the records of a day, outcomes and solar periods |
| `MC...` | constants for TLC; the runs of `Supervision` and `SupervisionLive` need none |

How they meet: `DecisionGate` says which modes an evaluation may decide;
`Actuation` takes any decided mode and follows what becomes of it; `Supervision`
takes an evaluation with its write as one step and says when it may write at all;
`Lifecycle` says which coordinator's evaluation it is. `Execution` runs `Planner`
in a closed loop with the backstops of the facade and an arbitrary denial of the
token, which is all it knows of `DecisionGate`. `PriceInputs` ends where
`Planner` begins, with a sequence of slots.

### DecisionGate

An evaluation is two steps. `EvaluateBegin` is everything from taking the lock
to the first await after the facade: the epoch updates, the token,
`compute_derived_values`, the refunds, the export latch, and (when it is due) the
manual-override timeout. `EvaluateEnd` is the finally block. Between them the
evaluation waits for the battery, the flags are up (`token`), and
`RecomputeAndEvaluate`, `Reoptimize`, `PickManual`, `HandBack` and
`InvalidateDecisionFingerprint` may run, as they may when nobody holds the lock.

| variable | code |
|---|---|
| `active_mode`, `plan_mode_pending`, `deferred` | `data.active_mode`, `data.debug_plan_mode_pending`, slot 0's `export_start_deferred` |
| `token` | `data.mode_decision_*`, `data.mode_backstop_allowed` |
| `backstop_holding` | `OptimizerFacade._backstop_holding` |
| `last_fingerprint` | `_last_evaluated_fingerprint` and `_last_evaluated_base` |
| `plan_charge_context`, `plan_charge_granted`, `suppress` | `_plan_charge_*`, `_suppress_plan_charge_grant` |
| `export_start_owed`, `start_gate_refunded` | fields of the same name |
| `running`, `reoptimize_queued` | the evaluation lock and its queue |

Abstractions, each chosen so that the properties cannot tell the difference:

* A context is a price and one flag `dw`, which stands for the three parts
  (demand window, spike, SOC floor) that exempt a grant from the charge-start
  gate. The SOC is `below_target`. The readings and the plan are inputs of a
  pass, any combination the readers and the runner can produce (`Plannings`).
* The two epochs only grow, so a stored fingerprint can only say "the epochs
  have moved since": `stale`.
* HOLD and DEMAND_BLOCK pass every guard of the gate as SELF_CONSUMPTION does.
  SPIKE_DISCHARGE is only ever picked by hand.
* A pass tells an outage from a price, and no price from another, so of the
  prices a pass may read `ReadPrices` keeps one of each kind. An unavailable
  price is the context of price `"0.0"`, because that is what the reader stores.
* The demand-window flag a token sees is one pass old; since readings are
  arbitrary inputs the lag adds no behaviour.
* The lock is fair. Only a reoptimize's own evaluation is told apart from the
  others, so only its place in the queue is kept. Bound: one reoptimize at a
  time (the detectors' cooldown is 15 minutes).
* The end of the startup grace, restored readiness and an abandoned export are
  one action, since all each does to the gate is to forget the fingerprint.
* A manual pick changes options before it raises the override; the listener of
  that change is a `RecomputeAndEvaluate` and a tick of their own.
* Left out: logging, attribution labels, and exceptions raised between the
  facade's own assignments. `forced` is history for the properties.

`OneStart` (`DecisionGateBudget`) counts the charges the plan's own grants
started in a context. It is checked with one price, before the calm, up to the
first thing that excuses a second start, a reoptimize or a refund at the price
boundary (`excused`).

### Actuation

A write is a sequence of awaited calls, so each call is a step of its own and
any task may run in between: `StepOk` and `StepFails` for the four settings in
the order of the mode's recipe, `Validate`, `Settle`, `Resettle`. The
grid-charging step is a retry loop. The tasks that write are `Writers`: an
evaluation for a transition or a health-check correction (one at a time, under
the lock), and the calls of the select and of the automation switch
(`UserCalls`), which take no lock and may overlap. The listener on the switch is
a callback, a task it creates (`ReactiveCorrect`, `CorrectionLands`) and a timer
(`Recheck`).

| variable | code |
|---|---|
| `battery` | the four Teslemetry entities as Home Assistant shows them |
| `write[w]` | the running `_run_transition` of a task: its caller, mode, place in the recipe, attempt of the switch loop |
| `in_transition` | `_in_mode_transition` |
| `commanded`, `manual_mode` | `_commanded_mode`, `_manual_mode` |
| `saved`, `automation`, `override` | the option `manual_battery_mode`, the switch, `data.manual_override` |
| `queued`, `correcting`, `guarded`, `recheck` | the listener's task before and inside its call, its guard interval, `_grid_charging_recheck` |

Abstractions: a reserve is named for the mode that writes it, so two modes never
ask for the same one by accident; HOLD and DEMAND_BLOCK are SELF_CONSUMPTION with
another reserve; reserve steps within a mode are `Reserves`. Home Assistant's
view of the battery and the battery are one: a lagging sensor shows as a call that
fails, a reserve that is re-verified, or a flip. One listener task at a time: a
second event before the first task ran finds the same state. The guard ends at
any time. The debounce, the cooldowns and the validator only delay
(`EvaluateWaits`). Writes cut off by an unload are `Lifecycle`'s. `takeover` and
`since` are history: the user's last act and what has happened since; once
something has happened that no property allows for, both are reset.

### Supervision

Evaluations are serialised and each writes at most once, so an evaluation is one
step whose inputs are what it reads and whether its write succeeds
(`Readings`); ticks (`Ages`) and drifts of the battery come between. `sm` is a
record of the state machine's fields; a time stamp is its age, in ticks, saturating
at the longest wait it is compared with, which loses nothing. `hardware` is the
battery as against what is commanded, `last` and `past` are history. That an unreadable
signal is explained by LocalShift's own last mode or reserve step (machine.py:334-356) is
the reading "quiet" of `SelfInflicted`, with no stamp of that step. Left out:
dry run, which writes nothing, and notifications. A reading that an evaluation
does not come to look at keeps one value (`Matters`).

### The planner

Units: a price unit is about 2.7 c, a charge unit 0.5 %, a time unit 30 minutes;
energy is counted at the meter, costs in hundredths of energy times price. The
taper, the efficiencies and the rates keep their shape in integers. A day
(`MCDays`) is a sequence of slots, a starting charge, the user's settings and
what may go wrong. `Planner` is one call of `DPPlanner.plan`:

| operator | code |
|---|---|
| `PlanOf`, `PlanBlock`, `PlanReady`, `PlanFrom`, `Plan` | `plan`, one stage each |
| `WithPriceBlock`, `Prepared` | the flags and floors written on the slots |
| `Guarded`, `Cheaper` | `_solve_guarded`, with the spike funding |
| `Solve`, `Derived` | `_solve` and the fields it leaves on the configuration |
| `Backward`, `Table`, `Row`, `BestAction` | the table over grid charges |
| `Forward`, `Reconstruct` | the pass from the real charge |
| `TailScope`, `TailPlan`, `Joined` | the next window's tail |

`Execution` carries plans out: `MakePlan`, then `CarryOut` of its first slot with
the token granted or not and the sun short of its forecast or not, then the feed
one slot on.

| variable | code |
|---|---|
| `feed`, `settings` | what `OptimizerInputs` is built from |
| `soc`, `current`, `faults` | the battery, the action it carries out, and what may go wrong |
| `open` | `negative_fit_window_open` |
| `holding` | `_runway_holding` |
| `plan` | the published result |
| `promised` | history: the floor and the runway of the first plan towards a window |

Left out: reason codes and telemetry, the uncertainty rate of a horizon below
twelve hours, the all-Solcast fallback beyond the horizon, `hold_soc`, and the
interpolation fallback of the table, which no grid charge reaches. The runway is
counted in whole slot units. The switching penalty, flat or by the energy of a slot, is
due on slot 1 where the planner knows the current mode; where it does not, both are 0
in the settings. The configuration object is reused between solves,
as in the code: `Guarded` gives the second solve what the first one left on it.

### Inputs

Times are seconds after an hour, and a price is any number, since nothing in the
path computes with it. `SlotSchedule` reads a raw interval, sorts (stably, as
Python does), pads, snaps to the grid and cuts into slots; `PriceInputs` reads
the two feeds at different moments (`ReadGeneral`, `ReadFeedIn`), evaluates at any later instant, and
keeps the watch's samples, whose window of an hour may be pruned at any time.

| variable | code |
|---|---|
| `general`, `feed_in`, `blocked` | `data.general_forecast`, `data.feed_in_forecast`, `data.export_blocked_periods` |
| `exporting` | whether the active mode is PROACTIVE_EXPORT, which excuses the deferral |
| `health` | `data.synthetic_slot_health` |
| `covered` | history: evaluations in a row whose first slot was real |

### Life cycle

An action is what one task does between two awaits. `start[i]` is how far
`async_start` of coordinator `i` has come, and each await in it may fail. Forwarding the
platforms may fail too; then nobody stops the coordinator, and the model sets up no
successor beside it (section 5).
`armed[i]` are its subscriptions and timers, `tasks`, `line` and `hold` its
evaluations before the lock, waiting and inside, `disk` what its stores hold. The
abstract `OneController` sees `live`, `retired` and `commander`; the refinement
mapping is in `Lifecycle`.

| variable | code |
|---|---|
| `entry`, `cur` | the entry's state, `entry.runtime_data` |
| `stopped` | `_stopped` of the coordinator and its parts |
| `coalesce`, `retry`, `grace` | `_coalesce_unsub`, `_retry_count`, `_startup_grace_until` |
| `transition`, `flip` | `_in_mode_transition`, a queued correction of the listener |
| `unseen` | history: a change nobody acted on yet |

Abstractions: waiting evaluations are a count, not a queue, so the lock is not
FIFO here; a timer that was cancelled never fires; at most one store fails in a
final save, which is one step; a tick that finds the grace over does what the
startup-ready trigger does; a slow tick's save comes after the start; manual picks
are `Actuation`'s. The `VIEW` forgets the grace and the transition flag of a
stopped coordinator, which nothing reads.

### Records

They share no state, so `MCRecords` starts a behaviour in one of them and leaves
the others as they are; each has the variables and their code in its header.
Abstractions: there is one tick per minute, an evaluation and a save are one step
each, saves of different stores are independent, and an orderly stop saves before
it goes down. A failed write of Home Assistant's Store is only logged, so "saved"
means that it succeeded.

* `SolarPeriods`: energy is lit or not; what is checked is to which half hour each
  minute is attributed.
* `DecisionOutcomes`: one meter of energy; the two of dollars are left out, since they
  are signed and a fall says nothing of midnight (section 5).
* `Reserves`: percentages are small numbers in the order of the code's. A health check
  that is skipped, in a cooldown or the grace of a transition, is one that fails.
* `ReplanTriggers`, `ChargeWatches`: stamps are ages.
* `Bookings`: an id is a call of `book_load`; a crash may come between any steps,
  and the entry may be reloaded under a placement.
* `LoadPlacement`: the planner's answer for a start is a verdict, a cost or a
  rejection, that any start may get. Time is in units of five minutes. The plan of the
  run has a hole after a half hour that has begun, and what falls into one (`Holes`) is
  all that may be missing of a booked run.
* `InputReadiness`: missing and unavailable are one case, and so are the two kinds
  of invalid value, where the code treats them alike. An entity that is
  Recommended is an Optional one that is mapped.
* `ResponseWatch`: dry runs, which record nothing, are left out.
* `LoadHistory`: time is in quarters; a fetch has a beginning and an end, and the
  options may change in between.
* `PriceThreshold`: prices in cents and not negative, time in units of a clock. A
  change of exactly two cents and a tie in rounding go either way, as the floats
  have it. An empty feed is modelled and not in the run. The window of the run opens
  off the hour.

## 3. Runs

| run | question |
|---|---|
| `safety` | Does a recompute with the flags down decide anything (`IdleRecomputeHolds`), or spend the plan's budget without starting a charge (`BudgetSpentOnStart`)? |
| `calm` | Is everything that is due decided although no price moves: a wanted charge through refunds at the price boundary, the release of a forced boost, a handed-back mode, an owed export? And until then, does the plan start a charge once per context (`OneStart`)? |
| `actuation` | Does a takeover that nothing interferes with reach all four settings (`LoneTakeoverReaches`), and is a standing pick defended against flips of the cloud (`DefendedPickHolds`)? |
| `actuation_calm` | After failed, overlapping and reverted writes, does the battery come to follow the decision (`Converges`)? |
| `supervision` | Is what is written unasked safe (`UnaskedWritesAreSafe`), and does every wait run its length (`WaitsAreServed`)? |
| `supervision_calm` | Does a lasting outage end in a verified SELF_CONSUMPTION (`LastingOutageFallsBack`), does a yield to Tesla that nothing corroborates end (`FalseYieldEnds`), and does a system that is well again match its decision (`Recovers`)? |
| `planner` | Is the plan optimal where the grid is exact (`PlanIsOptimal`), its entry penalty monotone (`EntryNeverDearerFuller`), its terminal credit no reason to buy (`NeverBuysToHoard`), its reserve kept (`ReserveKept`); does the window find the charge that the first plan promised (`PromiseKept`), and the target through failing sun and denied tokens (`RunwayReaches`)? |
| `inputs` | Is each moment planned once (`TimeCountedOnce`) with prices of now (`PricesAreOfNow`), and is a feed that is back reported well in time (`HealthRecovers`)? |
| `lifecycle` | Does `Lifecycle` implement `OneController` (`ImplementsOneController`), and does a coordinator leave nothing behind (`LeavesClean`)? |
| `lifecycle_calm` | Is a changed input acted on, past grace, coalescing, transitions and the lock (`ChangeIsActedOn`)? |
| `records` | Thirteen properties of twelve small machines: what is remembered of a day (`RememberedOfToday`), outcomes (`OutcomesAreTrue`), solar attribution (`LearntAsSeen`), reserve writes and floors (`NoRewriteLoop`, `FloorIsKept`), re-plan detectors (`DetectorsHold`), bookings and their placement (`BookingsHold`, `PlacedAsAsked`), the unattended charge (`UnattendedIsAlerted`), load profiles of an empty house (`EmptyHouseIsApart`), readiness (`ActsOnReadings`), lags (`LagIsOfItsDecision`), the price threshold (`ThresholdsHold`) |
| `watches_stale` | "require the reading to persist past one report so a single stale sample cannot trip it" (const.py:675): violated, see `findings` |

All but the last hold.

**Bounds.** `DecisionGate` has finite domains; the constant is the set of contexts.
A rule about "the same context" needs one, about "a new context" two, and the
exemption of the charge-start gate a pair that differs in `dw`: `MCContexts` has all
three, and the theorems remove the bound. `calm` needs one.

`Actuation`: `MaxInFlight = 2` writes at once, since a conflict needs two writers;
two `UserCalls`, in which the safety run is symmetric; `MaxRetries = 2` for the
code's 3, one attempt that is undone and one that holds. The safety run uses a mode
that charges and one that never does, which is the distinction all recipes make; the
calm adds PROACTIVE_EXPORT for its export mode and SPIKE_DISCHARGE for its
best-effort step. `MaxTroubles = 2` faults or interventions before the calm: any
pair of them can overlap, and the calm may begin anywhere.

`Supervision`: the waits are one to three ticks, in the order of the code's where
one waits for another; two failures reach the cap of the back-off. The calm uses the
shortest waits, since only that they end matters.

`Lifecycle`: two set-ups, since a conflict is between a coordinator and its
successor; one task that has not begun and one that waits; two Solcast retries.

The planner's days are eight families, each aimed at a part of the code: prices and
sun before an evening window, short days whose moves stay on the grid (where every
schedule is enumerated for `PlanIsOptimal`), spikes with funding and savings gates,
price blocks, tails beyond the window, worthless midday exports, afternoons of
half hours whose sun and decisions may fail, and days on which a change of mode costs
the most a user may set or the default. Five to ten slots are enough for a
charge, a window, and something after it.

The inputs are feeds of all granularities the provider knows, on and off the grid, a
second late (as Amber's are), gapped, broken, and stale, and the moments of the clock
on both sides of each boundary. `records` has small waits that keep their order,
two days of three minutes with decisions of at most three and one outcome kept, two
bookings with two stores and two saves under way (`MaxSaves`; symmetric in the
bookings), three half hours of two units, reserves from 0 to 6, and one forecast for
the threshold with one planned horizon and two shortfalls. A configuration of `InputReadiness` has a required entity that gates
and one other of each kind.

The runs that stop (`CHECK_DEADLOCK FALSE`) reach the end of a bounded clock, of the
set-ups or of a day.

**Fairness.** `DecisionGateLive`: weak fairness of `CalmEnd`, as battery calls time
out, and strong fairness of an evaluation outside the price-boundary gap:
evaluations recur every minute (`coordinator/tick_scheduler.py`) and the gap covers at
most 30 + 60 s of each 5 minutes (`const.py:618`). `ActuationLive`: weak fairness of
every writer's next step (calls time out, polls are finite), of an evaluation that has
something to do (the tick, with debounces and cooldowns that run out), of the
listener's task and its call; none of its timers. In the calm no call fails, but a
write may still be refused for the switch, when another writer or the listener undid
each attempt. `SupervisionLive`: weak fairness of the evaluation and the minute, which
alternate; one write may still be refused in the calm. `LifecycleLive`: weak fairness
of every task and armed timer, and, while a startup grace is set, of a change of a
monitored entity (price entities change every few minutes): the grace is not looked
at without one. Nothing is assumed of users, prices, detectors, set-ups or failures. A
calm is a hypothesis ("if from now on ...") that any reachable state may begin.

## 4. Proofs

40 theorems, which need no other hypothesis than the `ASSUME` of the module they are
about; TLC checks that the constants of the runs satisfy it. They state
twenty-four of the safety properties that the runs check, and the refinement.

`DecisionGateProofs`, for every set of contexts that satisfies `ContextsAssumption`
(a context has a price and a flag, and no price is the value that stands for "no
context"), proves the two properties of `safety` and six more that are no longer run.

* `TypeCorrect` is inductive by itself; its lemmas follow the operators.
* `FlagsConfinedCorrect` is inductive: an out-of-lock pass can only raise
  `unspent`, and only under a token (`UnspentNeedsToken`).
* `IdleRecomputeHoldsCorrect` uses it: with the flags down every branch of a
  pass holds the mode (`FrozenHolds`).
* `RefundIsHonouredCorrect` needs a strengthening. That a flag
  `start_gate_refunded` is up does not say that the fingerprint will differ, so
  `RefundOwed` adds that the stored fingerprint is none, of another context, or
  stale; it is inductive because the token was granted on just these grounds
  and no step but an evaluation stores a fingerprint.
* `EpochGrantNeverReversesCorrect` needs `LatchBelongs`: the latch is up over a
  charge mode only when a backstop forced that charge, and a token is never up
  without the backstop's permission. Without it a latch left over from another
  charge could end that charge in the opposite direction.
* The others follow from the type invariant and a lemma about one pass.

Its last section has `OneStartCorrect`, by `Counted`. Until an excuse, a charge
that was started is in the budget, so that the plan's epoch cannot move for it again,
and the stored fingerprint has no epoch behind it, so that a plan-charge token can only
come from an epoch that moves. The excuses (a reoptimize, a refund) are what breaks
either, and with them the count begins anew.

`ActuationProofs`, for every set of commands and user calls, every retry count and
every bound on writes under way: `TypeCorrect`, one lemma per phase of a write;
`MarkBelongsCorrect` and `LonePickNotRevertedCorrect` share the invariant `Inv`.
`WritesModes` says that a write under way names a mode. `PickStaysAlone` is the
heart: as long as nothing has overlapped a pick, its write is the only one and holds
the flag up. `in_transition` alone does not say whose flag it is; it is inductive
because the pick turned automation off, so that no evaluation starts a write, and
turning it on again ends the takeover.

Its last section is about what a takeover reaches, and goes on from `Inv`:

* `LoneTakeoverReachesCorrect` by `LoneWrites`: the write of a takeover that nothing
  has interfered with is the only thing under way, and has done all the steps before
  its place in the recipe (`Written`), so that at its end all four settings are done.
  That an evaluation, the listener or a retry cannot come between is said by
  `automation`, `Defending` and the in-transition flag together.
* `DefendedPickHoldsCorrect` by `StandingDefended`: a standing pick that is past its
  first step has turned the switch off, and once it has ended it is the mode the
  listener defends; then a switch that is on is one the listener was told of.

`SupervisionProofs`, for every length of the waits. `UnaskedWritesAreSafeCorrect` and
`WaitsAreServedCorrect` share `IInv`. The properties are about history variables (for
how long the inputs were valid, when Tesla was last seen, since when the export was
wanted); the code knows of each only a stamp, which some branches of an evaluation
clear. `IInv` says that a stamp is never older than what it stands for:
`RecoveryStamped`, `CooldownStamped` and `DebounceStamped`, and `Outage`, which ties
the fallback and the recovery to an outage that was recorded. An evaluation is one
step of many operators, each with a lemma on what it leaves of these.

`LifecycleProofs`, for every number of set-ups, tasks and retries: the refinement
`ImplementsOneControllerCorrect`, and `LeavesCleanCorrect` with its two halves
`NothingLeftBehindCorrect` and `NeverEmptiedCorrect`. Their invariant `IInv` has, beside
the types,

* `Protocol`: what the entry is doing tells whether its newest coordinator was
  stopped;
* `Succession`: every earlier coordinator was stopped, and one that has no turn yet has
  done nothing;
* `WritersLive`: what is inside the lock writes for a coordinator that was not
  stopped;
* `SaversHaveRead`: a listener that saves is armed only once its stores were read.

A set-up, a stop and a command map to steps of `OneController`, every other step to a
stutter. That the coordinator that commands is the one in charge is `WritersLive` with
`Succession`, and none of the two is inductive without `Protocol`.

`WatchesProofs`:

* Reserves: `NoRewriteLoopCorrect` and `FloorIsKeptCorrect` by `TrackedFromBasis`. What
  the code tracks of a mode is what its last write was made of, also after writes that
  failed; so the same inputs give the tracked value, and no floor is forgotten.
* `UnattendedIsAlertedCorrect`: an episode has its timer or its alert and just one of
  them (`EpisodeIsWatched`), and the timer was started when the switch went on, or
  later while somebody was in control (`TimerIsOfTheEpisode`).
* `DetectorsHoldCorrect` by `WindowKeepsUp`: a deviation goes unanswered for no longer
  than the cooldown and as long as the sustained window has run since. It needs
  `SpikeMinutes <= SustainedMinutes`, as const.py has it.
* `LagIsOfItsDecisionCorrect`: a watch replaced or timed out may not be filled in by the
  response to another decision. `Awaited` says that what is watched for has no lag
  yet, and `DecisionIsNext` that a decision that waits is later than any recorded.
* `ActsOnReadingsCorrect` by `HealthIsOfChecks`: the health record of an entity is what
  its checks have read since it was well, failures counted by cardinality.

`RecordsProofs`:

* `BookingsHoldCorrect`, for any loads and number of stores. While a call searches, is
  cancelled, saves or is cut off by a reload, its load is nowhere until it is placed
  (`UnplacedIsNowhere`), one call at most has the lock of a store (`OneIsPlaced`), and
  a search under way knows the loads of its store (`SearchKnows`), so that of two
  loads one was placed around the other, in memory and on disk (`Apart`). What was
  answered is on disk, and in memory as long as that store may still be saved
  (`AnsweredIsHeld`). Both hold until a store saves over a later one (`overtaken`),
  which the property exempts.
* `EmptyHouseIsApartCorrect`, for any lengths of hour, day and window: `Lived` and
  `Vacant` add to the property that the hours of a profile are over, so that nothing the
  house does later can reach them; a fetch is never of quarters after its start.
* `RememberedOfTodayCorrect` over crashes, midnights and restarts on a later day:
  nothing kept is dated ahead of the clock (`NoneIsAhead`), totals are no more than what
  was metered on their day, in memory and in the store (`TotalsWithin`), and the entry
  and the latch are of the restart's or of today (`EntryFromRestart`,
  `LatchFromRestart`). The clock counts minutes, so a few lemmas on division come first.
* `OutcomesAreTrueCorrect` over the same, by `OutcomeInv`: the meter has gone on from
  the snapshot a decision took, or was set back since (`Fits`), and of the decisions in
  memory and in the store at most one waits. `OutcomesFollowTheDay` says that the log
  disturbs nothing of the totals, so that what is proved of these may be used.
* `LearntAsSeenCorrect` by `SolarInv`: the sums under way are of units seen in this half
  hour by this process (`Accumulated`), a record is whole and of a half hour that was
  over (`Whole`), in memory and in the store, and the count that the sensor goes by is
  that of the records (`Counted`). A list that drops its oldest is handled by its order
  (`InOrderIsOrder`).

`PriceThresholdProofs`, for every feed, horizon, shortfall and length of the windows:

* `ShownAsComputedCorrect`: what is shown is smoothed towards each raw threshold, so
  that it stays between those there were; `SmoothedFromFirst` says that the start is
  not one of them. That a percentile is a price at all is `EveryRank`: times are of
  different rank in the order of prices, so that by counting each rank is taken.
* `ThresholdsHoldCorrect` adds that a pass grants what the plan took a slot's threshold
  to be: a shortfall no smaller has a window no shorter (`WindowsGrow`), over which the
  ramp is no lower (`RampRises`), and rounding costs at most a half. The plan counts to
  the minute a window opens, the live ramp to the hour (`TargetIsNoLater`), which only
  raises it (`RampNears`) until that hour has come; from then to the window the live
  ramp aims at tomorrow's, and the property exempts it (section 5,
  `computation_engine.py:344`).
* `HealthRecoversCorrect`, of the watch in `PriceInputs`, for any samples, feeds and
  length of the window, by `HealthInv`: as many of the newest samples are good as
  evaluations have found a real first slot in a row, however the window was pruned;
  past half of what the window may hold they outvote what the outage has left, and from
  there on the streak that clears the report has run (`health.below`).

`PlannerProofs`, for every battery, grid, tariff, horizon, setting, forecast and number
of cycles that `BatteryAssumption`, `GatesAssumption`, `PlannerAssumption` and
`DaysAssumption` admit. The last asks of a scenario that its slots are slots, its
settings numbers and its charge between empty and the ceiling, below the configured
minimum too.

* `ReserveKeptCorrect` goes from the battery to the loop. `StepKeepsReserve`: a step
  of the battery, for any action, leaves the charge above the lower of where it was and
  the discharge floor, and a sale above the floor of its slot; the taper is a recursion
  over its sub-steps, of which each charges. `ReconstructKeeps`: so does the forward
  pass, whatever the table says, since it applies the policy of the nearest grid charge
  to the charge the battery really has. What is left is that every solve has the same
  floor and the same slots: the price block and the export floors write on slots and
  leave slots (`PriceBlockKeepsSlots`, `PreparedIsSlots`), no derived field is the
  discharge floor (`DerivedKeepsFloor`), the funded solve is one of the same floor
  (`GuardedKeeps`), and the spliced tail is on the slots the splice puts it at
  (`JoinedKeeps`, `TailPlanKeeps`). `LoopInv` says all this of the plan in force; TLC
  finds it on the days of the run too.
* `EntryNeverDearerFullerCorrect` rests on `LoopInv` for `HardFits`: a hard floor is set
  in self-sufficiency only and is not above the target (`HardFloorFits`: whatever the
  feasible recursion returns, the lesser of it and the target is taken). Without it the
  penalty could rise where the hard one ends and the soft one begins; with it,
  `PenaltyFalls` for any two rates.

* `PlacedAsAskedCorrect`, of `LoadPlacement`, for any request, verdicts and plan, with
  holes or without. The starts that are tried are in order and leave the run room in the
  window and in the plan, thinned out or not (`GridIsInWindow`, `RoundedIsNear`,
  `ThinnedKeeps`, `CandidatesFit`); the loop over them keeps the first of the cheapest
  (`CheapestIsFirst`); and the overlaps with the slots add up to no less than the run has
  moments in them (`OverlapCounts`, `PlanPays`), so that what is missing lay in a hole.

`RecursionExists`, `Stays` and `SumIsInt` stand in for the induction principles that
take an operator: a recursive function over an interval is shown to exist from the least
number where it would not, and a sum over a finite set (`SumFunction`) is such a function
of its subsets. They say what values are reached step by step; what they add up to only
where the summands are known, as in `PlanPays`.

Only model-checked:

* liveness (`calm`, `actuation_calm`, `supervision_calm`, `lifecycle_calm`):
  fairness and ENABLED are out of the prover's reach;
* `PlanIsOptimal`, which says what the backward induction computes, for the days where
  every schedule can be enumerated; `NeverBuysToHoard`, which compares costs of whole
  plans; `PromiseKept` and `RunwayReaches`, which hold for the days and the bounds of
  the run: both compare what consecutive plans compute from prices and sun that the
  scenarios relate to one another;
* the price inputs but for their health (`TimeCountedOnce`, `PricesAreOfNow`): sorting,
  selecting and flattening feeds of any length is induction over data.

## 5. Observations

Where the code does other than a comment or a document of the repository says. A
property that leaves such a case out says so in its comment. The first seven were traces of TLC.

* `state/machine.py:1326`: the token's flags stay up while an evaluation awaits
  its write, and `async_recompute_and_evaluate` computes outside the lock. It may
  then commit under the token, against machine.py:1328-1336.
* `state/machine.py:1374`: `_suppress_plan_charge_grant` is cleared by whichever
  evaluation takes the lock next, not "by the evaluation it applies to" (2774).
* `state/machine.py:1468`: the refund at the price boundary gives the fingerprint back
  and not the plan's epoch, so a charge can be started twice in a context,
  against 241-243.
* `state/machine.py:534`: a token restricted to charges overwrites
  `export_start_owed`, and the owed export is dropped, against 262-265.
* `switch.py:189`: switching off writes beside a transition under way, whose
  later calls undo it, against switch.py:180.
* `state/machine.py:2851`: a flip of the switch while a pick is being written is
  not answered, so a self-consumption pick may charge, against 2925-2926.
* `state/machine.py:2796`: a pick and an evaluation share one in-transition flag; the
  first to end lowers it and the listener corrects the other's switch-on, against 2788-2790.
* `state/machine.py:1027`: with the operation mode unreadable the fallback writes
  during an event of Tesla's, against 1010.
* `state/machine.py:1987`: a transition into a mode whose response cannot be
  observed, or a decision that is never carried out, leaves a stamp behind, and the
  next issue of that decision logs a lag of hours.
* `engine/transitions.py:305`: in an export slot that is short of charge the
  model carries the house for free.
* `computation_engine.py:344`: the live ramp is given the hour of the window's
  start and rolls to tomorrow in the last half hour before a window on the half
  hour (`price_calculator.py:295`), where the plan's (`engine/dp_math.py:69`) does not.
  `RampIsHonoured` leaves these minutes out; without that the run violates it.
* `engine/slot_schedule.py:512`: of a half hour that has begun five minutes are planned,
  and where the feed has no five-minute intervals the rest of it, up to 25 minutes, is in
  no slot; slot_schedule.py:197 says "NO GAPS", and
  tests/engine/test_slot_schedule_current_coverage.py:771 that "every accepted feed shape"
  gives none, of moments on a boundary or in the last five minutes. What
  `TimeCountedOnce` allows the hole to be is just this. The part of a booked load that
  falls into it is in no plan and costs nothing, as booked_load.py:179 would prevent
  past the horizon; `PlacedAsAsked` allows just this, and a run of the placement has such
  a hole.
* `__init__.py:63`: forwarding the platforms is awaited outside the `try` whose comment
  (`__init__.py:52-55`) says why a failed set-up must be stopped. If it raises, the
  coordinator evaluates on with all its listeners, and a reload by hand, which does not
  unload an entry whose setup raised, sets up another beside it.
* `engine/outcomes.py:70`: a meter that goes down is taken for a reset, and the dollar
  meters are signed, so that a negative price counts as one. `OutcomesAreTrue` is about
  the energy meters.
* `state/reader.py:710`: the backup reserve is read with default 0.0, so the tests for a
  missing one in `check_automation_ready` and at machine.py:902 never fire.
* `utils/validation.py:51`: a required entity that is "unknown" leaves the status OK,
  while one that is unavailable blocks automation.
* The smoothed price threshold stops short of a constant raw value by up to two
  cents, and its base may exceed `max_precharge_price`.
* `forecast/solar_accuracy.py:310`: the dirty flag is cleared after the awaited save, so a
  sample that arrives in between is not saved until the next.
* A restart early in a period loses the boost flag of a record, and one during a trip
  with the away entity unreadable releases the away reserve.
* A manual pick under way at an unload writes on beside the successor's first
  evaluation.

## 6. Not modelled

* The notification service, which formats and sends; solar signals, computed afresh and
  read by no decision; the other entities, the configuration flow and the
  dashboard, which are views and forms; scripts and simulations, which do not run
  in the integration.
* Forecast profiles, accuracy metrics and the regressions of `learning/` are
  floats whose results reach the modelled parts as inputs. Only what decides which
  samples they learn from is modelled.
* Dry run, which changes nothing on the battery; the restore of the select at
  startup and its filter of re-assertions; the entry migration; the parsing of
  options; the weather refresh and the daily summary of the ticks.

The components' notes in `PROJECT.json` name what is left out of each. What would come
next: the alignment of `SlotSchedule` as theorems, once its sorts and folds are recursive
functions, and the select's restore in `Actuation`.
