------------------------------ MODULE Actuation ------------------------------
(***************************************************************************)
(* From the decided mode to the battery.  A mode is written as four        *)
(* settings, one awaited service call each, and then validated; any call   *)
(* can fail.  An evaluation writes (state/machine.py, one at a time under  *)
(* its lock) and so does every call of the select and of the automation    *)
(* switch, which take no lock and may overlap each other too.  The cloud   *)
(* turns grid charging back on now and then, and a listener on that switch *)
(* turns it off again unless the event is taken for LocalShift's own.      *)
(*                                                                         *)
(* Left out: dry run, Tesla override, the startup grace and the readiness  *)
(* gate, and the reserve-only steps inside a mode.                         *)
(***************************************************************************)
EXTENDS Naturals, Sequences, FiniteSets

CONSTANTS
    Commands,    \* the battery modes that are commanded
    UserCalls,   \* tasks that may run a call of the select or the switch
    MaxRetries,  \* max_retries of set_grid_charging_allowed
    MaxInFlight  \* bound: so many writes are under way at once

AllCommands == {"self_consumption", "grid_charging", "boost_charging",
                "spike_discharge", "proactive_export"}

ASSUME CommandsAssumption ==
    /\ Commands \subseteq AllCommands /\ "self_consumption" \in Commands
    /\ "automation" \notin UserCalls
    /\ MaxRetries \in Nat \ {0}
    /\ MaxInFlight \in Nat

Charges  == {"grid_charging", "boost_charging"}
Defended == AllCommands \ Charges  \* modes that never charge from the grid
NoMode   == "none"

(***************************************************************************)
(* What each mode asks of the battery.  A reserve is named for the value a *)
(* mode writes.  HOLD and DEMAND_BLOCK are SELF_CONSUMPTION with another   *)
(* reserve.                                                                *)
(***************************************************************************)
Setting(grid, export, op, reserve) ==
    [grid |-> grid, export |-> export, op |-> op, reserve |-> reserve]

Target ==
    [self_consumption |-> Setting(FALSE, "pv_only", "self_consumption", "floor"),
     grid_charging    |-> Setting(TRUE, "pv_only", "backup", "target"),
     boost_charging   |-> Setting(TRUE, "pv_only", "autonomous", "full"),
     spike_discharge  |-> Setting(FALSE, "battery_ok", "autonomous", "minimum"),
     proactive_export |-> Setting(FALSE, "battery_ok", "autonomous", "leash")]

Batteries == [grid    : BOOLEAN,
              export  : {Target[m].export : m \in Commands},
              op      : {Target[m].op : m \in Commands},
              reserve : {Target[m].reserve : m \in Commands}]

\* the order of a recipe's steps
Steps(m) == IF m = "self_consumption" THEN <<"grid", "export", "op", "reserve">>
                                      ELSE <<"grid", "export", "reserve", "op">>

\* TransitionStep(required=False)
BestEffort(m, field) == m = "spike_discharge" /\ field = "grid"

\* a TransitionExpectation names the grid-charging switch
ValidatesGrid(m) == m \in {"self_consumption", "proactive_export"}

Writers == UserCalls \cup {"automation"}

\* what a write is for; the switch's is the only one without a mark
Purposes == {"transition", "health_check", "pick", "switch"}
Nobody   == "nobody"

\* phases of a write: steps 1 to 4 of the recipe, then
Idle       == 0
Validating == 5
Settling   == 6  \* the reserve is looked at once more
Resettling == 7  \* the reserve has been written once more

NoWrite == [by |-> Nobody, mode |-> NoMode, phase |-> Idle, tries |-> 0]

\* mutant: a recipe without its grid-charging step
WriteButGrid(by, m) == [by |-> by, mode |-> m, phase |-> 2, tries |-> 0]

Write(by, m) == [by |-> by, mode |-> m, phase |-> 1, tries |-> 0]

VARIABLES
    battery,        \* the settings as Home Assistant shows them
    write,          \* per task: the purpose of its write, the mode, how far
                    \* it is, and how often this step has called the switch
    in_transition,  \* _in_mode_transition
    commanded,      \* _commanded_mode
    manual_mode,    \* _manual_mode
    saved,          \* the option manual_battery_mode
    automation,     \* the switch automation_enabled
    override,       \* data.manual_override
    queued,         \* a task of the grid-charging listener has been created
    correcting,     \* its turn_off call is under way
    guarded,        \* its guard interval runs
    recheck,        \* _grid_charging_recheck
    \* history, read by properties only
    takeover,       \* the user's last act: "none" while automation is on, and
                    \* once something has happened that no property allows for
    since           \* what has happened since then

writeVars    == <<write, in_transition>>
machineVars  == <<commanded, manual_mode>>
userVars     == <<saved, automation, override>>
listenerVars == <<queued, correcting, guarded, recheck>>
history      == <<takeover, since>>
vars == <<battery, writeVars, machineVars, userVars, listenerVars, history>>

\* What may have happened since, for a property to say something: other work
\* was under way ("overlapped"), the cloud changed a setting, and the listener
\* missed that because of a write.  A failed call is never among them.
Allowed == [none   |-> {{}},
            pick   |-> {{}, {"cloud"}, {"cloud", "missed"}},
            switch |-> {{}, {"overlapped"}}]

TypeOK ==
    /\ battery \in Batteries
    /\ write \in [Writers -> [by : Purposes \cup {Nobody}, mode : Commands \cup {NoMode},
                              phase : 0..7, tries : 0..MaxRetries]]
    /\ in_transition \in BOOLEAN
    /\ commanded \in Commands \cup {"manual"}
    /\ manual_mode \in Commands \cup {NoMode}
    /\ saved \in Commands
    /\ automation \in BOOLEAN
    /\ override \in BOOLEAN
    /\ queued \in BOOLEAN
    /\ correcting \in BOOLEAN
    /\ guarded \in BOOLEAN
    /\ recheck \in BOOLEAN
    /\ takeover \in {"none", "pick", "switch"}
    /\ since \in Allowed[takeover]

Init ==
    /\ \E m \in Commands : battery = Target[m] /\ commanded = m
    /\ write = [w \in Writers |-> NoWrite]
    /\ in_transition = FALSE
    /\ manual_mode = NoMode
    /\ saved = "self_consumption"
    /\ automation = TRUE
    /\ override = FALSE
    /\ queued = FALSE
    /\ correcting = FALSE
    /\ guarded = FALSE
    /\ recheck = FALSE
    /\ takeover = "none"
    /\ since = {}

-----------------------------------------------------------------------------
(* One write                                                                *)

InFlight(w) == write[w].phase # Idle
Wanted(w)   == Target[write[w].mode]
Field(w)    == Steps(write[w].mode)[write[w].phase]

Record(how, what) ==
    /\ takeover' = IF what \in Allowed[how] THEN how ELSE "none"
    /\ since' = IF what \in Allowed[how] THEN what ELSE {}

Happened(what) == Record(takeover, since \cup what)

\* the listener's callback, on every event of the switch
Hears ==
    queued' = (queued \/ (~battery.grid /\ battery'.grid /\ ~in_transition))

Set(field, value) == battery' = [battery EXCEPT ![field] = value] /\ Hears

Advance(w) ==
    /\ write' = [write EXCEPT ![w] = [by |-> @.by, mode |-> @.mode,
                                      phase |-> @.phase + 1, tries |-> 0]]
    /\ UNCHANGED <<in_transition, machineVars>>

\* evaluations and picks lower the same flag
Unmarks(w, success) == write[w].by # "switch"

(***************************************************************************)
(* The end of a write.  The mode is commanded only when it succeeded; a    *)
(* health-check correction commands nothing.  The automation switch        *)
(* ignores its result.                                                     *)
(***************************************************************************)
Finish(w, success) ==
    /\ write' = [write EXCEPT ![w] = NoWrite]
    /\ in_transition' = (in_transition /\ ~Unmarks(w, success))
    /\ commanded' = IF success /\ write[w].by \in {"transition", "pick"}
                    THEN write[w].mode ELSE commanded
    /\ manual_mode' = IF success /\ write[w].by = "pick"
                      THEN write[w].mode ELSE manual_mode
    /\ Happened(IF success THEN {} ELSE {"failed"})

\* a failed step ends the recipe, unless it is best-effort
Fail(w) ==
    IF BestEffort(write[w].mode, Field(w)) THEN Advance(w) /\ Happened({"failed"})
                                           ELSE Finish(w, FALSE)

(***************************************************************************)
(* set_grid_charging_allowed: so many calls, each read back.  A call that  *)
(* changes nothing is no step here, and those that do not get through are  *)
(* part of SwitchFails: all may raise, though the switch is already right. *)
(***************************************************************************)
TrySwitch(w) ==
    /\ battery.grid # Wanted(w).grid
    /\ write[w].tries < MaxRetries
    /\ write' = [write EXCEPT ![w].tries = @ + 1]
    /\ Set("grid", Wanted(w).grid)
    /\ UNCHANGED <<in_transition, machineVars, history>>

SwitchVerified(w) ==
    /\ battery.grid = Wanted(w).grid
    /\ Advance(w)
    /\ UNCHANGED <<battery, queued, history>>

SwitchFails(w) ==
    /\ Fail(w)
    /\ UNCHANGED <<battery, queued>>

\* set_export_mode, set_operation_mode, set_backup_reserve: one call, not
\* read back; a call that raises may have reached the battery
Call(w) ==
    /\ Set(Field(w), Wanted(w)[Field(w)])
    /\ Advance(w)
    /\ UNCHANGED history

CallFails(w) ==
    /\ UNCHANGED battery \/ battery' = [battery EXCEPT ![Field(w)] = Wanted(w)[Field(w)]]
    /\ Fail(w)
    /\ UNCHANGED queued

StepOk(w) ==
    /\ write[w].phase \in 1..4
    /\ \/ Field(w) = "grid" /\ (TrySwitch(w) \/ SwitchVerified(w))
       \/ Field(w) # "grid" /\ Call(w)
    /\ UNCHANGED <<userVars, correcting, guarded, recheck>>

StepFails(w) ==
    /\ write[w].phase \in 1..4
    /\ \/ Field(w) = "grid" /\ SwitchFails(w)
       \/ Field(w) # "grid" /\ CallFails(w)
    /\ UNCHANGED <<userVars, correcting, guarded, recheck>>

-----------------------------------------------------------------------------
(* Validation                                                               *)

\* validate_transition: what its last resort accepts
Accepts(w) ==
    /\ battery.op = Wanted(w).op
    /\ ValidatesGrid(write[w].mode) => battery.grid = Wanted(w).grid

Validate(w) ==
    /\ write[w].phase = Validating
    /\ \/ Accepts(w) /\ Advance(w) /\ UNCHANGED history
       \/ ~Accepts(w) /\ Finish(w, FALSE)
    /\ UNCHANGED <<battery, userVars, listenerVars>>

\* _settle_verify_reserve
Settle(w) ==
    /\ write[w].phase = Settling
    /\ \/ /\ battery.reserve = Wanted(w).reserve
          /\ Finish(w, TRUE)
          /\ UNCHANGED <<battery, queued>>
       \/ /\ battery.reserve # Wanted(w).reserve
          /\ Set("reserve", Wanted(w).reserve)
          /\ Advance(w)
          /\ UNCHANGED history
    /\ UNCHANGED <<userVars, correcting, guarded, recheck>>

SettleFails(w) ==
    /\ write[w].phase = Settling
    /\ battery.reserve # Wanted(w).reserve
    /\ Finish(w, FALSE)
    /\ UNCHANGED <<battery, userVars, listenerVars>>

Resettle(w) ==
    /\ write[w].phase = Resettling
    /\ Finish(w, battery.reserve = Wanted(w).reserve)
    /\ UNCHANGED <<battery, userVars, listenerVars>>

-----------------------------------------------------------------------------
(* Evaluations                                                              *)

BeginWrite(w, by, m) ==
    /\ ~InFlight(w)
    /\ Cardinality({x \in Writers : InFlight(x)}) < MaxInFlight
    /\ write' = [write EXCEPT ![w] = Write(by, m)]

StartsWrite(w, by, m) == BeginWrite(w, by, m) /\ in_transition' = TRUE

\* the timeout of the override is the first thing an evaluation looks at
EvaluateTop ==
    /\ ~InFlight("automation")
    /\ override' \in {override, FALSE}
    /\ UNCHANGED <<battery, saved, automation, listenerVars, history>>

\* _handle_automation_disabled
EvaluateDisabled ==
    /\ EvaluateTop
    /\ ~automation
    /\ commanded' = "manual"
    /\ UNCHANGED <<manual_mode, writeVars>>

\* in control: the debounce, the entity validator or a cooldown may hold it back
EvaluateWaits ==
    /\ EvaluateTop
    /\ automation
    /\ manual_mode' = NoMode
    /\ UNCHANGED <<commanded, writeVars>>

\* what data.active_mode may be; no plan names SPIKE_DISCHARGE
Decides(m) ==
    /\ m \in (Commands \ {"spike_discharge"}) \cup {"manual"}
    /\ override => m = "manual"

\* _execute_mode_transition: to MANUAL it writes nothing, but lowers the flag
\* as at the end of a write, even if that of a pick is under way
StartTransition(m) ==
    /\ EvaluateTop
    /\ automation
    /\ manual_mode' = NoMode
    /\ Decides(m)
    /\ m # commanded
    /\ IF m = "manual" THEN commanded' = m /\ in_transition' = FALSE /\ UNCHANGED write
       ELSE StartsWrite("automation", "transition", m) /\ UNCHANGED commanded

\* mutant: the quick verification leaves out the export mode
HealthyButExport(m) ==
    \A field \in {"grid", "op", "reserve"} : battery[field] = Target[m][field]

\* verify_current_state
Healthy(m) == battery = Target[m]

\* _perform_health_check
RestoreMode(m) ==
    /\ EvaluateTop
    /\ automation
    /\ manual_mode' = NoMode
    /\ m = commanded /\ m # "manual"
    /\ ~override'
    /\ ~Healthy(m)
    /\ StartsWrite("automation", "health_check", m)
    /\ UNCHANGED commanded

-----------------------------------------------------------------------------
(* The user                                                                 *)

\* whether something is under way that a takeover does not wait for
UnderWay == queued \/ correcting \/ recheck \/ \E w \in Writers : InFlight(w)

TakesOver(how) == Record(how, IF UnderWay THEN {"overlapped"} ELSE {})

\* select.py, a mode
PickManual(w, m) ==
    /\ automation' = FALSE
    /\ saved' = m
    /\ override' = TRUE
    /\ StartsWrite(w, "pick", m)
    /\ TakesOver("pick")
    /\ UNCHANGED <<battery, machineVars, listenerVars>>

\* switch.py, async_turn_off, on or off: no lock and no flag
SwitchOff(w) ==
    /\ automation' = FALSE
    /\ saved' = "self_consumption"
    /\ BeginWrite(w, "switch", "self_consumption")
    /\ TakesOver("switch")
    /\ UNCHANGED <<battery, in_transition, machineVars, override, listenerVars>>

\* switch.py, async_turn_on, and "automatic" in select.py
SwitchOn ==
    /\ automation' = TRUE
    /\ override' \in {override, FALSE}
    /\ takeover' = "none" /\ since' = {}
    /\ UNCHANGED <<battery, saved, writeVars, machineVars, listenerVars>>

-----------------------------------------------------------------------------
(* The cloud and the listener                                               *)

\* Teslemetry's cloud sync turns grid charging on
CloudSync ==
    /\ ~battery.grid
    /\ Set("grid", TRUE)
    /\ Happened({"cloud"} \cup IF in_transition THEN {"missed"} ELSE {})
    /\ UNCHANGED <<writeVars, machineVars, userVars, correcting, guarded,
                   recheck>>

\* Tesla reverts a reserve or an export mode
CloudReverts ==
    /\ \E m \in Commands : \/ Set("reserve", Target[m].reserve)
                           \/ Set("export", Target[m].export)
    /\ Happened({"cloud"})
    /\ UNCHANGED <<writeVars, machineVars, userVars, correcting, guarded,
                   recheck>>

\* _grid_charging_defended_mode
DefendedMode ==
    IF automation /\ commanded # "manual" THEN commanded
    ELSE IF manual_mode # NoMode THEN manual_mode
    ELSE saved

\* mutant: a flip inside the guard is dropped, as it was before #1208
GuardDrops == UNCHANGED <<correcting, recheck>>

\* inside the guard the switch is looked at again when it has run out
GuardOrCorrect ==
    IF guarded THEN recheck' = TRUE /\ UNCHANGED correcting
               ELSE correcting' = TRUE /\ UNCHANGED recheck

MayCorrect == ~in_transition /\ DefendedMode \in Defended

\* _reactive_correct_grid_charging, up to its await
ReactiveCorrect ==
    /\ queued
    /\ queued' = FALSE
    /\ IF MayCorrect THEN GuardOrCorrect ELSE UNCHANGED <<correcting, recheck>>
    /\ Happened(IF in_transition THEN {"missed"} ELSE {})
    /\ UNCHANGED <<battery, writeVars, machineVars, userVars, guarded>>

\* and from there
CorrectionLands ==
    /\ correcting
    /\ correcting' = FALSE
    /\ guarded' = TRUE
    /\ \/ Set("grid", FALSE) /\ UNCHANGED history
       \/ UNCHANGED <<battery, queued>> /\ Happened({"failed"})
    /\ UNCHANGED <<writeVars, machineVars, userVars, recheck>>

GuardExpires ==
    /\ guarded
    /\ guarded' = FALSE
    /\ UNCHANGED <<battery, writeVars, machineVars, userVars, queued, correcting,
                   recheck, history>>

\* the timer of _schedule_grid_charging_recheck
Recheck ==
    /\ recheck
    /\ recheck' = FALSE
    /\ queued' = (queued \/ battery.grid)
    /\ UNCHANGED <<battery, writeVars, machineVars, userVars, correcting, guarded,
                   history>>

Next ==
    \/ \E w \in Writers : \/ StepOk(w) \/ StepFails(w)
                          \/ Validate(w) \/ Settle(w) \/ SettleFails(w)
                          \/ Resettle(w)
    \/ EvaluateDisabled \/ EvaluateWaits
    \/ \E m \in Commands \cup {"manual"} : StartTransition(m) \/ RestoreMode(m)
    \/ \E w \in UserCalls : SwitchOff(w) \/ \E m \in Commands : PickManual(w, m)
    \/ SwitchOn
    \/ CloudSync \/ CloudReverts
    \/ ReactiveCorrect \/ CorrectionLands \/ GuardExpires \/ Recheck

Spec == Init /\ [][Next]_vars

-----------------------------------------------------------------------------
(* Properties                                                               *)

AllIdle == \A w \in Writers : ~InFlight(w)

Defending == queued \/ correcting \/ recheck

(***************************************************************************)
(* A user who takes over while nothing else is under way gets the whole    *)
(* mode, all four settings of it, whatever the automation was about, when  *)
(* no call fails and the cloud keeps out of it.                            *)
(***************************************************************************)
LoneTakeoverReaches ==
    AllIdle /\ takeover # "none" /\ since = {} => battery = Target[saved]

(***************************************************************************)
(* While a pick that never charges from the grid stands, a battery that    *)
(* the cloud has made charge is being corrected or will be looked at       *)
(* again (#1208, #1216), unless the event fell into a write.               *)
(***************************************************************************)
DefendedPickHolds ==
    /\ AllIdle
    /\ takeover = "pick" /\ saved \in Defended
    /\ since \subseteq {"cloud"}
    => ~battery.grid \/ Defending

(***************************************************************************)
(* The listener never turns grid charging off under a charging pick that   *)
(* is being written, when the pick began with nothing else under way       *)
(* (#1160, manual_mode_write).                                             *)
(***************************************************************************)
LonePickNotReverted ==
    [][~correcting /\ correcting' /\ takeover = "pick"
        => \A w \in Writers : write[w].by = "pick" => write[w].mode \notin Charges]_vars

(***************************************************************************)
(* The mark of a write is up only while an evaluation or a pick writes, so *)
(* that however the writes overlap and fail, the listener is never deaf    *)
(* once they are over.                                                     *)
(***************************************************************************)
MarkBelongs ==
    in_transition => \E w \in Writers : InFlight(w) /\ write[w].by # "switch"
=============================================================================
