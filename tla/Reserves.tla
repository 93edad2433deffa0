------------------------------ MODULE Reserves ------------------------------
(* The backup reserve while a mode stays commanded (state/machine.py): export  *)
(* steps it down after the charge, or up when its floor rises, and the away    *)
(* mode (utils/away.py) raises and releases it in self consumption.  Every     *)
(* write wears on the firmware, so none may repeat; and a floor must hold      *)
(* through all of them.  Percentages are small numbers here.                   *)
EXTENDS Integers, FiniteSets

CONSTANTS
  Full,                \* the charge of a full battery, and the reserve of one
  MaxValid,            \* BACKUP_RESERVE_MAX_VALID: Tesla sets what is between back to it
  Buffer,              \* PROACTIVE_EXPORT_SOC_BUFFER_PERCENT
  Trigger,             \* PROACTIVE_EXPORT_RESERVE_STEP_TRIGGER_PERCENT
  SpikeTrigger,        \* PROACTIVE_EXPORT_RESERVE_STEP_TRIGGER_SPIKE_PERCENT
  MinimumTarget,       \* minimum_target_soc
  PlanFloors,          \* what data.planner_export_floor_pct may be
  BaseReserve,         \* the reserve of self consumption at home
  AwayReserve          \* the user's away reserve, clamped

ASSUME ReservesAssumption ==
  /\ {Full, MaxValid, Buffer, Trigger, SpikeTrigger, MinimumTarget, BaseReserve,
      AwayReserve} \subseteq Nat \ {0}
  /\ MaxValid < Full /\ AwayReserve \in BaseReserve..MaxValid
  /\ Trigger < SpikeTrigger /\ SpikeTrigger < Buffer
  /\ MinimumTarget <= MaxValid /\ PlanFloors \subseteq 0..Full

VARIABLES
  charge,              \* the battery's state of charge
  spike,               \* data.price_spike
  plan_floor,          \* data.planner_export_floor_pct
  away_entity,         \* "on", "off", or "gone" when it cannot be read
  away_held,           \* _away_active_held, data.away_active
  mode,                \* _commanded_mode: "self" or "export"
  export_reserve,      \* _proactive_export_reserve, NoReserve outside export
  export_soc,          \* _proactive_export_reserve_soc
  self_reserve,        \* _self_consumption_reserve, NoReserve in export
  hardware,            \* the reserve the battery keeps
  basis,               \* history: what the last write was made from
  repeated,            \* history: a reserve was stepped from the same again
  settled              \* history: the last evaluation read the charge, and no write failed

reserveVars == <<charge, spike, plan_floor, away_entity, away_held, mode, export_reserve,
                 export_soc, self_reserve, hardware, basis, repeated, settled>>
tracked == <<mode, export_reserve, export_soc, self_reserve>>

NoReserve == -1
Larger(a, b) == IF a >= b THEN a ELSE b

------------------------------------------------------------------------------
\* What Tesla makes of a reserve.
Kept(reserve) == IF reserve <= MaxValid \/ reserve >= Full THEN reserve ELSE MaxValid

\* calculate_proactive_export_reserve
ExportReserve(soc, floor) ==
  LET reserve == Larger(floor, soc - Buffer)
  IN IF reserve <= MaxValid THEN reserve ELSE IF reserve >= Full THEN Full ELSE MaxValid

\* _proactive_export_floor
ExportFloor(away) ==
  LET floor == Larger(MinimumTarget, plan_floor)
  IN IF away THEN Larger(floor, AwayReserve) ELSE floor

\* calculate_self_consumption_reserve
SelfReserve(away) == IF away THEN Larger(AwayReserve, BaseReserve) ELSE BaseReserve

\* _resolve_away_active: an entity that cannot be read changes nothing.
ResolveAway == IF away_entity = "gone" THEN away_held ELSE away_entity = "on"

Basis(away) == [soc |-> charge, floor |-> plan_floor, away |-> away]

------------------------------------------------------------------------------
\* Mutant: a reserve below its floor waits for the charge to come down to it.
StepDueDown(floor) ==
  /\ charge <= export_reserve + Trigger
  /\ ExportReserve(charge, floor) < export_reserve

\* Mutant: the wide trigger of a spike, without the drain it needs.
StepDueAnyDrain(floor) ==
  LET new == ExportReserve(charge, floor)
  IN IF export_reserve < floor THEN new > export_reserve
     ELSE charge <= export_reserve + (IF spike THEN SpikeTrigger ELSE Trigger)

\* _step_proactive_export_reserve, the guards of its write.
StepDue(floor) ==
  LET new == ExportReserve(charge, floor)
      drained == charge <= export_soc - (Buffer - SpikeTrigger)
      trigger == IF spike /\ drained THEN SpikeTrigger ELSE Trigger
  IN IF export_reserve < floor THEN new > export_reserve
     ELSE charge <= export_reserve + trigger /\ new < export_reserve

\* A transition writes what its builder says; a failed one tracks nothing new.
Command(to, away, ok) ==
  LET written == IF to = "export" THEN ExportReserve(charge, ExportFloor(away))
                 ELSE SelfReserve(away)
  IN IF ok
     THEN /\ mode' = to
          /\ export_reserve' = IF to = "export" THEN written ELSE NoReserve
          /\ export_soc' = IF to = "export" THEN charge ELSE NoReserve
          /\ self_reserve' = IF to = "self" THEN written ELSE NoReserve
          /\ hardware' = Kept(written)
          /\ basis' = Basis(away)
     ELSE UNCHANGED <<tracked, basis>> /\ hardware' \in {hardware, Kept(written)}

Transition(to, away, ok) == mode # to /\ Command(to, away, ok) /\ UNCHANGED repeated

\* _perform_health_check: a reserve that is not the tracked one re-runs the mode.
\* A check that is skipped, in the cool-down of a fallback or the grace of a
\* transition, is one that fails before its first write: nothing is written and
\* nothing settled.
HealthCheck(away, ok) ==
  /\ IF hardware = (IF mode = "export" THEN export_reserve ELSE self_reserve)
     THEN UNCHANGED <<tracked, hardware, basis>>
     ELSE Command(mode, away, ok)
  /\ UNCHANGED repeated

Stepped(reserve, away) ==
  /\ hardware' = Kept(reserve)
  /\ repeated' = (repeated \/ basis = Basis(away))
  /\ basis' = Basis(away)
  /\ UNCHANGED mode

\* The mode stays, and its reserve is stepped or else asserted.
StableExport(away, readable, ok) ==
  /\ mode = "export"
  /\ IF readable /\ StepDue(ExportFloor(away)) /\ ok
     THEN /\ export_reserve' = ExportReserve(charge, ExportFloor(away))
          /\ export_soc' = charge
          /\ Stepped(export_reserve', away)
          /\ UNCHANGED self_reserve
     ELSE HealthCheck(away, ok)

\* _step_self_consumption_reserve, in the health check.
StableSelf(away, ok) ==
  /\ mode = "self"
  /\ IF SelfReserve(away) # self_reserve /\ ok
     THEN /\ self_reserve' = SelfReserve(away)
          /\ Stepped(self_reserve', away)
          /\ UNCHANGED <<export_reserve, export_soc>>
     ELSE HealthCheck(away, ok)

\* An evaluation: the derived values resolve the away state, then the mode acts.
Evaluation(wanted, readable, ok) ==
  /\ away_held' = ResolveAway
  /\ \/ wanted = "export" /\ StableExport(away_held', readable, ok)
     \/ wanted = "self" /\ StableSelf(away_held', ok)
     \/ Transition(wanted, away_held', ok)
  /\ settled' = (ok /\ readable)
  /\ UNCHANGED <<charge, spike, plan_floor, away_entity>>

------------------------------------------------------------------------------
\* The world between two evaluations.
Unsettles == settled' = FALSE /\ UNCHANGED <<away_held, tracked, hardware, basis, repeated>>

Drains == charge > 1 /\ charge' = charge - 1 /\ UNCHANGED <<spike, plan_floor, away_entity>>
Fills == charge < Full /\ charge' = charge + 1 /\ UNCHANGED <<spike, plan_floor, away_entity>>
SpikeFlips == spike' = ~spike /\ UNCHANGED <<charge, plan_floor, away_entity>>
Replans == \E floor \in PlanFloors \ {plan_floor} :
             plan_floor' = floor /\ UNCHANGED <<charge, spike, away_entity>>
HouseChanges == \E s \in {"on", "off", "gone"} \ {away_entity} :
                  away_entity' = s /\ UNCHANGED <<charge, spike, plan_floor>>

Outside == (Drains \/ Fills \/ SpikeFlips \/ Replans \/ HouseChanges) /\ Unsettles

ReservesInit ==
  /\ charge \in 1..Full /\ spike = FALSE /\ plan_floor \in PlanFloors
  /\ away_entity \in {"on", "off", "gone"} /\ away_held = FALSE
  /\ mode = "self" /\ export_reserve = NoReserve /\ export_soc = NoReserve
  /\ self_reserve = BaseReserve /\ hardware = BaseReserve
  /\ basis = Basis(FALSE) /\ repeated = FALSE /\ settled = FALSE

ReservesNext ==
  \/ \E wanted \in {"self", "export"}, readable, ok \in BOOLEAN :
       Evaluation(wanted, readable, ok)
  \/ Outside

ReservesSpec == ReservesInit /\ [][ReservesNext]_reserveVars

------------------------------------------------------------------------------
(* No reserve is stepped twice from the same charge, floor and away state,    *)
(* however the spike flag toggles and whatever Tesla makes of a value between *)
(* MaxValid and Full (const.py: with SOC steady the spike flag adds no write).*)
NoRewriteLoop == ~repeated

(* After an evaluation that could read the charge and whose writes succeeded, *)
(* the battery keeps at least what it must: in export the highest of the      *)
(* configured, the planned and the away floor, as far as Tesla lets it, and   *)
(* in self consumption the away reserve for as long as the house was last     *)
(* known to be empty.                                                         *)
FloorIsKept ==
  settled => hardware >= IF mode = "self" THEN SelfReserve(away_held)
                         ELSE ExportReserve(1, ExportFloor(away_held))
=============================================================================
