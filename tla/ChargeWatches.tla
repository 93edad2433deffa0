---------------------------- MODULE ChargeWatches ----------------------------
(* Two watches over a battery that charges from the grid unasked               *)
(* (state/machine.py): with nobody in control, the user is told when the grid  *)
(* charging switch stays on; in export, the mode is given up when the power    *)
(* flows say that Tesla charges instead.                                       *)
EXTENDS Integers, FiniteSetsExt

CONSTANTS
  AlertMinutes,        \* GRID_CHARGING_UNATTENDED_ALERT_SECONDS
  ConfirmMinutes,      \* EXPORT_INVERSION_CONFIRM_SECONDS, rounded up
  HoldoffMinutes       \* EXPORT_INVERSION_HOLDOFF_MINUTES

ASSUME WatchesAssumption ==
  {AlertMinutes, ConfirmMinutes, HoldoffMinutes} \subseteq Nat \ {0}

VARIABLES
  charging_switch,     \* the switch as reported: "on", "off", "gone"
  in_control,          \* automation on, no dry run, no Tesla override
  unattended_timer,    \* minutes until _unattended_timer expires
  unattended_alerted,  \* _unattended_alerted
  on_age,              \* history: minutes the switch has last been known to be on
  free_age,            \* history: minutes nobody has been in control
  alerts,              \* history: alerts of this episode
  exporting,           \* _commanded_mode is PROACTIVE_EXPORT
  inversion_age,       \* minutes since _export_inversion_since
  suppressed,          \* minutes until data.export_suppressed_until
  inverted_age,        \* history: minutes this export has been seen inverted for
  abandoned_at         \* history: inverted_age when an export was last abandoned

attentionVars == <<charging_switch, in_control, unattended_timer, unattended_alerted,
                   on_age, free_age, alerts>>
exportVars == <<exporting, inversion_age, suppressed, inverted_age, abandoned_at>>
watchVars == <<attentionVars, exportVars>>

Unset == -1
Aged(age, cap) == IF age = Unset THEN Unset ELSE Min({age + 1, cap})
Left(minutes) == IF minutes > 0 THEN minutes - 1 ELSE minutes

------------------------------------------------------------------------------
\* _track_unattended_grid_charging
Track(state) ==
  /\ unattended_timer' =
       IF state = "off" THEN Unset
       ELSE IF unattended_timer = Unset /\ ~unattended_alerted THEN AlertMinutes
       ELSE unattended_timer
  /\ unattended_alerted' = (unattended_alerted /\ state # "off")
  /\ alerts' = IF state = "off" THEN 0 ELSE alerts

\* Mutant: what is not "on" ends the episode.
SwitchReportsAll(state) ==
  /\ state # charging_switch
  /\ charging_switch' = state
  /\ Track(IF state = "on" THEN "on" ELSE "off")
  /\ on_age' = IF state = "off" THEN Unset
               ELSE IF state = "on" /\ on_age = Unset THEN 0 ELSE on_age
  /\ UNCHANGED <<in_control, free_age, exportVars>>

\* _on_grid_charging_state_change: unavailable and unknown are not heard.
SwitchReports(state) ==
  /\ state # charging_switch
  /\ charging_switch' = state
  /\ IF state = "gone" THEN UNCHANGED <<unattended_timer, unattended_alerted, alerts, on_age>>
     ELSE /\ Track(state)
          /\ on_age' = IF state = "off" THEN Unset ELSE IF on_age = Unset THEN 0 ELSE on_age
  /\ UNCHANGED <<in_control, free_age, exportVars>>

ControlChanges ==
  /\ in_control' = ~in_control
  /\ free_age' = IF in_control THEN 0 ELSE Unset
  /\ UNCHANGED <<charging_switch, unattended_timer, unattended_alerted, on_age, alerts,
                 exportVars>>

\* _check, when the timer has expired.
TimerExpires ==
  /\ unattended_timer = 0
  /\ IF in_control
     THEN unattended_timer' = AlertMinutes /\ UNCHANGED <<unattended_alerted, alerts>>
     ELSE /\ unattended_timer' = Unset
          /\ unattended_alerted' = TRUE
          /\ alerts' = Min({alerts + 1, 2})
  /\ UNCHANGED <<charging_switch, in_control, on_age, free_age, exportVars>>

\* stop_grid_charging_listener, and start_grid_charging_listener of a new machine.
ListenerRestarts ==
  /\ unattended_timer' = IF charging_switch = "on" THEN AlertMinutes ELSE Unset
  /\ unattended_alerted' = FALSE
  /\ on_age' = IF charging_switch = "on" THEN 0 ELSE Unset
  /\ alerts' = 0
  /\ exporting' = FALSE /\ inversion_age' = Unset /\ suppressed' = 0
  /\ inverted_age' = Unset /\ abandoned_at' = Unset
  /\ UNCHANGED <<charging_switch, in_control, free_age>>

------------------------------------------------------------------------------
\* _abandon_inverted_export, of a mode that stays; its transition may fail.
StableMode(inverted, ok) ==
  IF ~(exporting /\ inverted)
  THEN /\ inversion_age' = Unset
       /\ inverted_age' = Unset
       /\ UNCHANGED <<exporting, suppressed, abandoned_at>>
  ELSE LET seen == IF inverted_age = Unset THEN 0 ELSE inverted_age
       IN IF inversion_age < ConfirmMinutes
          THEN /\ inversion_age' = IF inversion_age = Unset THEN 0 ELSE inversion_age
               /\ inverted_age' = seen
               /\ UNCHANGED <<exporting, suppressed, abandoned_at>>
          ELSE /\ inversion_age' = Unset
               /\ suppressed' = HoldoffMinutes
               /\ abandoned_at' = seen
               /\ exporting' = ~ok
               /\ inverted_age' = Unset

\* An evaluation that wants another mode; the stamp of the inversion stays.
ModeChanges(ok) ==
  /\ exporting' = IF ok THEN ~exporting ELSE exporting
  /\ inverted_age' = IF ok THEN Unset ELSE inverted_age
  /\ UNCHANGED <<inversion_age, suppressed, abandoned_at>>

\* _handle_desired_mode: export that cannot happen is not desired.
EvaluateMode(wanted, inverted, ok) ==
  /\ LET desired == wanted /\ suppressed = 0
     IN IF desired = exporting THEN StableMode(inverted, ok) ELSE ModeChanges(ok)
  /\ UNCHANGED attentionVars

MinutePasses ==
  /\ unattended_timer # 0
  /\ unattended_timer' = Left(unattended_timer)
  /\ on_age' = Aged(on_age, AlertMinutes + 1)
  /\ free_age' = Aged(free_age, AlertMinutes + 1)
  /\ inversion_age' = Aged(inversion_age, ConfirmMinutes)
  /\ inverted_age' = Aged(inverted_age, ConfirmMinutes)
  /\ suppressed' = Left(suppressed)
  /\ UNCHANGED <<charging_switch, in_control, unattended_alerted, alerts, exporting,
                 abandoned_at>>

WatchesInit ==
  /\ charging_switch \in {"on", "off", "gone"}
  /\ in_control = FALSE /\ free_age = 0
  /\ unattended_timer = IF charging_switch = "on" THEN AlertMinutes ELSE Unset
  /\ on_age = IF charging_switch = "on" THEN 0 ELSE Unset
  /\ unattended_alerted = FALSE /\ alerts = 0
  /\ exporting = FALSE /\ inversion_age = Unset /\ suppressed = 0
  /\ inverted_age = Unset /\ abandoned_at = Unset

WatchesNext ==
  \/ \E state \in {"on", "off", "gone"} : SwitchReports(state)
  \/ ControlChanges \/ TimerExpires \/ ListenerRestarts \/ MinutePasses
  \/ \E wanted, inverted, ok \in BOOLEAN : EvaluateMode(wanted, inverted, ok)

WatchesSpec == WatchesInit /\ [][WatchesNext]_watchVars

------------------------------------------------------------------------------
(* A switch known to be on for longer than AlertMinutes, with nobody in       *)
(* control for as long, has raised its alert, and one only, whatever blips,   *)
(* hand-overs and renewed reports there were in between (#1211).              *)
UnattendedIsAlerted ==
  /\ (on_age > AlertMinutes /\ free_age > AlertMinutes) => unattended_alerted
  /\ alerts <= 1

(* No single stale sample gives up an export: the inversion was seen for      *)
(* ConfirmMinutes, as const.py says (require the reading to persist past one  *)
(* report).                                                                   *)
AbandonIsConfirmed == abandoned_at = Unset \/ abandoned_at >= ConfirmMinutes
=============================================================================
