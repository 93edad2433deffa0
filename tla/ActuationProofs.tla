--------------------------- MODULE ActuationProofs ---------------------------
(* Theorems about Actuation for every set of modes and every bound.         *)
EXTENDS Actuation, TLAPS

Fields == {"grid", "export", "op", "reserve"}

\* a mode is written, and only while a write is under way
WritesModes ==
    \A w \in Writers : IF InFlight(w) THEN write[w].mode \in Commands
                                      ELSE write[w].mode = NoMode

\* a pick that began alone stays alone, and marked while it writes
PickStaysAlone ==
    takeover = "pick" =>
        /\ ~automation
        /\ \A w \in Writers : InFlight(w) => write[w].by = "pick" /\ in_transition
        /\ \A w, x \in Writers : InFlight(w) /\ InFlight(x) => w = x

\* the domain of a write under way
WriteRecords == [by : Purposes \cup {Nobody}, mode : Commands \cup {NoMode},
                 phase : 0..7, tries : 0..MaxRetries]

-----------------------------------------------------------------------------
(* Settings                                                                 *)

LEMMA TargetType ==
    ASSUME NEW m \in Commands
    PROVE  Target[m] \in Batteries
<1> DEFINE Grids == [grid : BOOLEAN, export : {Target[m].export},
                     op : {Target[m].op}, reserve : {Target[m].reserve}]
<1>1. m \in AllCommands
  BY CommandsAssumption
<1>2. Target[m] \in Grids
  <2>1. CASE m = "self_consumption"
    BY <2>1 DEF Target, Setting
  <2>2. CASE m = "grid_charging"
    BY <2>2 DEF Target, Setting
  <2>3. CASE m = "boost_charging"
    BY <2>3 DEF Target, Setting
  <2>4. CASE m = "spike_discharge"
    BY <2>4 DEF Target, Setting
  <2>5. CASE m = "proactive_export"
    BY <2>5 DEF Target, Setting
  <2> QED
    BY <1>1, <2>1, <2>2, <2>3, <2>4, <2>5 DEF AllCommands
<1> QED
  BY <1>2 DEF Batteries

LEMMA SetType ==
    ASSUME battery \in Batteries, NEW m \in Commands, NEW field \in Fields
    PROVE  [battery EXCEPT ![field] = Target[m][field]] \in Batteries
BY TargetType DEF Batteries, Fields

LEMMA FieldType ==
    ASSUME NEW w, write[w].phase \in 1..4
    PROVE  Field(w) \in Fields
BY DEF Field, Steps, Fields

-----------------------------------------------------------------------------
(* One write                                                                *)

\* the variables that a step of a write changes beside the settings
WriteType ==
    /\ write \in [Writers -> WriteRecords]
    /\ in_transition \in BOOLEAN
    /\ commanded \in Commands \cup {"manual"}
    /\ manual_mode \in Commands \cup {NoMode}
    /\ takeover \in {"none", "pick", "switch"}
    /\ since \in Allowed[takeover]

WriteInv == WriteType /\ WritesModes /\ MarkBelongs /\ PickStaysAlone

LEMMA RecordType ==
    ASSUME NEW how \in {"none", "pick", "switch"}, NEW what, Record(how, what)
    PROVE  /\ takeover' \in {how, "none"}
           /\ since' \in Allowed[takeover']
BY DEF Record, Allowed

LEMMA AdvanceKeeps ==
    ASSUME WriteInv, NEW w \in Writers, write[w].phase \in 1..6, Advance(w),
           UNCHANGED history \/ Happened({"failed"}), UNCHANGED automation
    PROVE  WriteInv'
<1>1. /\ takeover' \in {takeover, "none"}
      /\ since' \in Allowed[takeover']
  BY RecordType DEF Happened, history, WriteInv, WriteType
<1> DEFINE next == [by |-> write[w].by, mode |-> write[w].mode,
                    phase |-> write[w].phase + 1, tries |-> 0]
<1>2. next \in WriteRecords /\ next.phase \in 1..7
  <2>1. write[w] \in WriteRecords /\ write[w].phase + 1 \in 1..7
    BY DEF WriteInv, WriteType
  <2> QED
    BY <2>1, CommandsAssumption DEF WriteRecords
<1>3. write' = [write EXCEPT ![w] = next]
  BY DEF Advance
<1>4. WriteType'
  BY <1>1, <1>2, <1>3 DEF WriteInv, WriteType, Advance, machineVars
<1>5. \A x \in Writers : write'[x] = IF x = w THEN next ELSE write[x]
  BY <1>3 DEF WriteInv, WriteType
<1>6. \A x \in Writers : InFlight(x)' <=> InFlight(x)
  BY <1>2, <1>5 DEF InFlight, Idle
<1>7. \A x \in Writers : write'[x].mode = write[x].mode /\ write'[x].by = write[x].by
  BY <1>5
<1>8. WritesModes'
  BY <1>6, <1>7 DEF WriteInv, WritesModes
<1>9. MarkBelongs'
  BY <1>6, <1>7 DEF WriteInv, MarkBelongs, Advance
<1>10. PickStaysAlone'
  BY <1>1, <1>6, <1>7 DEF WriteInv, PickStaysAlone, Advance
<1> QED
  BY <1>4, <1>8, <1>9, <1>10 DEF WriteInv

LEMMA FinishKeeps ==
    ASSUME WriteInv, NEW w \in Writers, InFlight(w), NEW success \in BOOLEAN,
           Finish(w, success), UNCHANGED automation
    PROVE  WriteInv'
<1>1. /\ takeover' \in {takeover, "none"}
      /\ since' \in Allowed[takeover']
  BY RecordType DEF Finish, Happened, WriteInv, WriteType
<1>2. write[w].mode \in Commands
  BY DEF WriteInv, WritesModes
<1>3. WriteType'
  BY <1>1, <1>2, CommandsAssumption
     DEF WriteInv, WriteType, WriteRecords, Finish, Unmarks, NoWrite, Idle
<1>4. \A x \in Writers : write'[x] = IF x = w THEN NoWrite ELSE write[x]
  BY DEF WriteInv, WriteType, Finish
<1>5. \A x \in Writers : InFlight(x)' <=> x # w /\ InFlight(x)
  BY <1>4 DEF InFlight, NoWrite
<1>6. WritesModes'
  BY <1>4, <1>5 DEF WriteInv, WritesModes, NoWrite
<1>7. in_transition' => in_transition /\ write[w].by = "switch"
  BY DEF Finish, Unmarks
<1>8. MarkBelongs'
  BY <1>4, <1>5, <1>7 DEF WriteInv, MarkBelongs
<1>9. PickStaysAlone'
  <2> SUFFICES ASSUME takeover' = "pick" PROVE PickStaysAlone'
    BY DEF PickStaysAlone
  <2>1. takeover = "pick"
    BY <1>1
  <2>2. ~automation /\ \A x \in Writers : InFlight(x) => x = w
    BY <2>1 DEF WriteInv, PickStaysAlone
  <2> QED
    BY <1>5, <2>2 DEF PickStaysAlone
<1> QED
  BY <1>3, <1>6, <1>8, <1>9 DEF WriteInv

LEMMA TrySwitchKeeps ==
    ASSUME WriteInv, NEW w \in Writers, InFlight(w), TrySwitch(w), UNCHANGED automation
    PROVE  WriteInv'
<1> DEFINE next == [by |-> write[w].by, mode |-> write[w].mode,
                    phase |-> write[w].phase, tries |-> write[w].tries + 1]
<1>1. next \in WriteRecords
  <2>1. write[w] \in WriteRecords /\ write[w].tries < MaxRetries
    BY DEF WriteInv, WriteType, TrySwitch
  <2>2. write[w].tries + 1 \in 0..MaxRetries
    BY <2>1, CommandsAssumption DEF WriteRecords
  <2> QED
    BY <2>1, <2>2 DEF WriteRecords
<1>2. write' = [write EXCEPT ![w] = next]
  <2>1. write' = [write EXCEPT ![w].tries = write[w].tries + 1]
    BY DEF TrySwitch
  <2>2. write[w] \in WriteRecords
    BY DEF WriteInv, WriteType
  <2>3. [write[w] EXCEPT !.tries = write[w].tries + 1] = next
    BY <2>2 DEF WriteRecords
  <2> QED
    BY <2>1, <2>3
<1>3. UNCHANGED <<in_transition, commanded, manual_mode, takeover, since>>
  BY DEF TrySwitch, machineVars, history
<1>4. WriteType'
  BY <1>1, <1>2, <1>3 DEF WriteInv, WriteType
<1>5. \A x \in Writers : write'[x] = IF x = w THEN next ELSE write[x]
  BY <1>2 DEF WriteInv, WriteType
<1>6. \A x \in Writers : InFlight(x)' <=> InFlight(x)
  BY <1>5 DEF InFlight, Idle
<1>7. \A x \in Writers : write'[x].mode = write[x].mode /\ write'[x].by = write[x].by
  BY <1>5
<1>8. WritesModes' /\ MarkBelongs' /\ PickStaysAlone'
  BY <1>3, <1>6, <1>7 DEF WriteInv, WritesModes, MarkBelongs, PickStaysAlone
<1> QED
  BY <1>4, <1>8 DEF WriteInv

-----------------------------------------------------------------------------
(* The inductive invariant                                                  *)

\* the variables that no step of a write changes, and the settings
OtherType ==
    /\ battery \in Batteries
    /\ saved \in Commands
    /\ automation \in BOOLEAN
    /\ override \in BOOLEAN
    /\ queued \in BOOLEAN
    /\ correcting \in BOOLEAN
    /\ guarded \in BOOLEAN
    /\ recheck \in BOOLEAN

Inv == OtherType /\ WriteInv

LEMMA InvType == Inv => TypeOK /\ MarkBelongs
BY DEF Inv, OtherType, WriteInv, WriteType, WriteRecords, TypeOK

LEMMA SetKeeps ==
    ASSUME OtherType, NEW m \in Commands, NEW field \in Fields,
           Set(field, Target[m][field])
    PROVE  battery' \in Batteries /\ queued' \in BOOLEAN
<1>1. battery' \in Batteries
  BY SetType DEF Set, OtherType
<1> QED
  BY <1>1 DEF Set, Hears, OtherType

LEMMA FailKeeps ==
    ASSUME WriteInv, NEW w \in Writers, write[w].phase \in 1..4, Fail(w),
           UNCHANGED automation
    PROVE  WriteInv'
<1>1. write[w].phase \in 1..6 /\ InFlight(w)
  BY DEF InFlight, Idle
<1>2. CASE Advance(w) /\ Happened({"failed"})
  BY <1>1, <1>2, AdvanceKeeps
<1>3. CASE Finish(w, FALSE)
  BY <1>1, <1>3, FinishKeeps
<1> QED
  BY <1>2, <1>3 DEF Fail

LEMMA StepKeeps ==
    ASSUME Inv, NEW w \in Writers, StepOk(w) \/ StepFails(w)
    PROVE  Inv'
<1>1. /\ write[w].phase \in 1..4 /\ write[w].phase \in 1..6
      /\ UNCHANGED <<saved, automation, override, correcting, guarded, recheck>>
  BY DEF StepOk, StepFails, userVars
<1>2. InFlight(w)
  BY <1>1 DEF InFlight, Idle
<1>3. write[w].mode \in Commands
  BY <1>2 DEF Inv, WriteInv, WritesModes
<1>4. Field(w) \in Fields
  BY <1>1, FieldType
<1>5. ASSUME battery' \in Batteries, queued' \in BOOLEAN PROVE OtherType'
  BY <1>1, <1>5 DEF Inv, OtherType
<1>6. CASE TrySwitch(w)
  <2>1. battery' \in Batteries /\ queued' \in BOOLEAN
    BY <1>3, <1>6, SetKeeps DEF TrySwitch, Wanted, Fields, Inv
  <2> QED
    BY <1>1, <1>2, <1>5, <1>6, <2>1, TrySwitchKeeps DEF Inv
<1>7. CASE SwitchVerified(w)
  BY <1>1, <1>5, <1>7, AdvanceKeeps DEF SwitchVerified, Inv, OtherType
<1>8. CASE SwitchFails(w)
  BY <1>1, <1>5, <1>8, FailKeeps DEF SwitchFails, Inv, OtherType
<1>9. CASE Call(w)
  <2>1. battery' \in Batteries /\ queued' \in BOOLEAN
    BY <1>3, <1>4, <1>9, SetKeeps DEF Call, Wanted, Inv
  <2> QED
    BY <1>1, <1>5, <1>9, <2>1, AdvanceKeeps DEF Call, Inv
<1>10. CASE CallFails(w)
  <2>1. battery' \in Batteries
    BY <1>3, <1>4, <1>10, SetType DEF CallFails, Wanted, Inv, OtherType
  <2> QED
    BY <1>1, <1>5, <1>10, <2>1, FailKeeps DEF CallFails, Inv, OtherType
<1> QED
  BY <1>6, <1>7, <1>8, <1>9, <1>10 DEF StepOk, StepFails

LEMMA ValidationKeeps ==
    ASSUME Inv, NEW w \in Writers,
           Validate(w) \/ Settle(w) \/ SettleFails(w) \/ Resettle(w)
    PROVE  Inv'
<1>1. UNCHANGED <<saved, automation, override, correcting, guarded, recheck>>
  BY DEF Validate, Settle, SettleFails, Resettle, userVars, listenerVars
<1>2. InFlight(w)
  <2>1. write[w].phase = Validating \/ write[w].phase = Settling
        \/ write[w].phase = Resettling
    BY DEF Validate, Settle, SettleFails, Resettle
  <2> QED
    BY <2>1 DEF InFlight, Idle, Validating, Settling, Resettling
<1>3. write[w].mode \in Commands
  BY <1>2 DEF Inv, WriteInv, WritesModes
<1>4. ASSUME battery' \in Batteries, queued' \in BOOLEAN PROVE OtherType'
  BY <1>1, <1>4 DEF Inv, OtherType
<1>5. CASE Validate(w)
  <2>1. OtherType'
    BY <1>4, <1>5 DEF Validate, listenerVars, Inv, OtherType
  <2>2. CASE Advance(w) /\ UNCHANGED history
    BY <1>1, <1>5, <2>1, <2>2, AdvanceKeeps DEF Validate, Validating, Inv
  <2>3. CASE Finish(w, FALSE)
    BY <1>1, <1>2, <2>1, <2>3, FinishKeeps DEF Inv
  <2> QED
    BY <1>5, <2>2, <2>3 DEF Validate
<1>6. CASE Settle(w)
  <2>1. CASE Finish(w, TRUE) /\ UNCHANGED <<battery, queued>>
    BY <1>1, <1>2, <1>4, <2>1, FinishKeeps DEF Inv, OtherType
  <2>2. CASE /\ Set("reserve", Wanted(w).reserve)
             /\ Advance(w) /\ UNCHANGED history
    <3>1. battery' \in Batteries /\ queued' \in BOOLEAN
      BY <1>3, <2>2, SetKeeps DEF Wanted, Fields, Inv
    <3> QED
      BY <1>1, <1>4, <1>6, <2>2, <3>1, AdvanceKeeps DEF Settle, Settling, Inv
  <2> QED
    BY <1>6, <2>1, <2>2 DEF Settle
<1>7. CASE SettleFails(w) \/ Resettle(w)
  <2>1. OtherType'
    BY <1>4, <1>7 DEF SettleFails, Resettle, listenerVars, Inv, OtherType
  <2>2. \E success \in BOOLEAN : Finish(w, success)
    BY <1>7 DEF SettleFails, Resettle
  <2> QED
    BY <1>1, <1>2, <2>1, <2>2, FinishKeeps DEF Inv
<1> QED
  BY <1>5, <1>6, <1>7

-----------------------------------------------------------------------------
(* Beginnings                                                               *)

LEMMA BeginKeeps ==
    ASSUME WriteInv, NEW w \in Writers, NEW by \in Purposes, NEW m \in Commands,
           BeginWrite(w, by, m)
    PROVE  /\ write' \in [Writers -> WriteRecords]
           /\ \A x \in Writers : InFlight(x)' <=> x = w \/ InFlight(x)
           /\ write'[w].by = by
           /\ \A x \in Writers : InFlight(x) => write'[x] = write[x]
           /\ WritesModes'
<1>1. Write(by, m) \in WriteRecords
  BY CommandsAssumption DEF Write, WriteRecords
<1>2. \A x \in Writers : write'[x] = IF x = w THEN Write(by, m) ELSE write[x]
  BY DEF BeginWrite, WriteInv, WriteType
<1>3. \A x \in Writers : InFlight(x)' <=> x = w \/ InFlight(x)
  BY <1>2 DEF InFlight, Idle, Write
<1>4. WritesModes'
  BY <1>2, <1>3 DEF WriteInv, WritesModes, Write
<1>5. write'[w].by = by /\ ~InFlight(w)
  BY <1>2 DEF BeginWrite, Write
<1> QED
  BY <1>1, <1>2, <1>3, <1>4, <1>5 DEF BeginWrite, WriteInv, WriteType

\* an evaluation in control finds no takeover standing that a property reads
LEMMA EvaluationKeeps ==
    ASSUME Inv, EvaluateTop,
           \/ EvaluateDisabled \/ EvaluateWaits
           \/ \E m \in Commands \cup {"manual"} : StartTransition(m) \/ RestoreMode(m)
    PROVE  Inv'
<1>1. OtherType' /\ UNCHANGED <<automation, takeover, since>>
  BY DEF EvaluateTop, Inv, OtherType, listenerVars, history
<1>2. CASE EvaluateDisabled
  <2>1. UNCHANGED <<manual_mode, write, in_transition>> /\ commanded' = "manual"
    BY <1>2 DEF EvaluateDisabled, writeVars
  <2> QED
    BY <1>1, <2>1 DEF Inv, WriteInv, WriteType, WritesModes, MarkBelongs, PickStaysAlone,
                      InFlight
<1>3. ASSUME automation, UNCHANGED write, in_transition' = in_transition \/ in_transition' = FALSE,
             manual_mode' = NoMode, commanded' = commanded \/ commanded' = "manual"
      PROVE  Inv'
  <2>1. takeover' # "pick"
    BY <1>1, <1>3 DEF Inv, WriteInv, PickStaysAlone
  <2>2. WriteType' /\ WritesModes'
    <3>1. in_transition' \in BOOLEAN
      BY <1>3 DEF Inv, WriteInv, WriteType
    <3> QED
      BY <1>1, <1>3, <3>1 DEF Inv, WriteInv, WriteType, WritesModes, InFlight
  <2>3. MarkBelongs'
    BY <1>3 DEF Inv, WriteInv, MarkBelongs, InFlight
  <2> QED
    BY <1>1, <2>1, <2>2, <2>3 DEF Inv, WriteInv, PickStaysAlone
<1>4. ASSUME NEW m \in Commands, NEW by \in {"transition", "health_check"},
             StartsWrite("automation", by, m), automation,
             manual_mode' = NoMode, UNCHANGED commanded
      PROVE  Inv'
  <2>1. /\ "automation" \in Writers /\ by \in Purposes /\ by # "switch"
        /\ BeginWrite("automation", by, m) /\ in_transition'
    BY <1>4 DEF StartsWrite, Writers, Purposes
  <2>2. takeover # "pick"
    BY <1>4 DEF Inv, WriteInv, PickStaysAlone
  <2>3. WriteType' /\ WritesModes'
    BY <1>1, <1>4, <2>1, BeginKeeps DEF StartsWrite, Inv, WriteInv, WriteType
  <2>4. MarkBelongs'
    BY <2>1, BeginKeeps DEF Inv, MarkBelongs
  <2> QED
    BY <1>1, <2>2, <2>3, <2>4 DEF Inv, WriteInv, PickStaysAlone
<1>5. ASSUME NEW m \in Commands \cup {"manual"}, StartTransition(m) PROVE Inv'
  <2>1. CASE m = "manual"
    BY <1>3, <1>5, <2>1 DEF StartTransition, writeVars
  <2>2. CASE m # "manual"
    BY <1>4, <1>5, <2>2 DEF StartTransition
  <2> QED
    BY <2>1, <2>2
<1>6. ASSUME NEW m \in Commands \cup {"manual"}, RestoreMode(m) PROVE Inv'
  BY <1>4, <1>6 DEF RestoreMode
<1> QED
  BY <1>2, <1>3, <1>5, <1>6 DEF EvaluateWaits, writeVars

LEMMA UserKeeps ==
    ASSUME Inv,
           \/ SwitchOn
           \/ \E w \in UserCalls : SwitchOff(w) \/ \E m \in Commands : PickManual(w, m)
    PROVE  Inv'
<1>1. CASE SwitchOn
  <2>1. OtherType'
    BY <1>1 DEF SwitchOn, Inv, OtherType, listenerVars
  <2>2. WriteInv'
    BY <1>1 DEF SwitchOn, Inv, WriteInv, WriteType, WritesModes, MarkBelongs,
                PickStaysAlone, InFlight, writeVars, machineVars, Allowed
  <2> QED
    BY <2>1, <2>2 DEF Inv
<1>2. ASSUME NEW w \in UserCalls, SwitchOff(w) PROVE Inv'
  <2>1. OtherType'
    BY <1>2, CommandsAssumption DEF SwitchOff, Inv, OtherType, listenerVars
  <2>2. takeover' \in {"switch", "none"} /\ since' \in Allowed[takeover']
    BY <1>2, RecordType DEF SwitchOff, TakesOver
  <2>3. /\ w \in Writers /\ "switch" \in Purposes /\ "self_consumption" \in Commands
        /\ BeginWrite(w, "switch", "self_consumption")
        /\ UNCHANGED <<in_transition, commanded, manual_mode>>
    BY <1>2, CommandsAssumption DEF SwitchOff, machineVars, Writers, Purposes
  <2>4. WriteType' /\ WritesModes'
    BY <2>2, <2>3, BeginKeeps DEF Inv, WriteInv, WriteType
  <2>5. MarkBelongs'
    BY <2>3, BeginKeeps DEF Inv, WriteInv, MarkBelongs
  <2> QED
    BY <2>1, <2>2, <2>4, <2>5 DEF Inv, WriteInv, PickStaysAlone
<1>3. ASSUME NEW w \in UserCalls, NEW m \in Commands, PickManual(w, m) PROVE Inv'
  <2>1. OtherType'
    BY <1>3 DEF PickManual, Inv, OtherType, listenerVars
  <2>2. takeover' \in {"pick", "none"} /\ since' \in Allowed[takeover']
    BY <1>3, RecordType DEF PickManual, TakesOver
  <2>3. /\ w \in Writers /\ "pick" \in Purposes
        /\ BeginWrite(w, "pick", m) /\ in_transition' = TRUE /\ ~automation'
        /\ UNCHANGED <<commanded, manual_mode>>
    BY <1>3 DEF PickManual, StartsWrite, machineVars, Writers, Purposes
  <2>4. WriteType' /\ WritesModes'
    BY <2>2, <2>3, BeginKeeps DEF Inv, WriteInv, WriteType
  <2>5. MarkBelongs'
    BY <2>3, BeginKeeps DEF Inv, MarkBelongs
  <2>6. takeover' = "pick" => ~UnderWay
    BY <1>3 DEF PickManual, TakesOver, Record, Allowed
  <2>7. PickStaysAlone'
    BY <2>3, <2>6, BeginKeeps DEF Inv, PickStaysAlone, UnderWay
  <2> QED
    BY <2>1, <2>4, <2>5, <2>7 DEF Inv, WriteInv
<1> QED
  BY <1>1, <1>2, <1>3

LEMMA SurroundingsKeep ==
    ASSUME Inv, CloudSync \/ CloudReverts \/ ReactiveCorrect \/ CorrectionLands
                \/ GuardExpires \/ Recheck
    PROVE  Inv'
<1>1. UNCHANGED <<write, in_transition, commanded, manual_mode, saved,
                  automation, override>>
  BY DEF CloudSync, CloudReverts, ReactiveCorrect, CorrectionLands, GuardExpires,
         Recheck, writeVars, machineVars, userVars
<1>2. takeover' \in {takeover, "none"} /\ since' \in Allowed[takeover']
  <2>1. UNCHANGED history \/ \E what : Happened(what)
    BY DEF CloudSync, CloudReverts, ReactiveCorrect, CorrectionLands, GuardExpires,
           Recheck
  <2> QED
    BY <2>1, RecordType DEF Happened, history, Inv, WriteInv, WriteType
<1>3. WriteInv'
  BY <1>1, <1>2 DEF Inv, WriteInv, WriteType, WritesModes, MarkBelongs, PickStaysAlone,
                    InFlight
<1>4. battery' \in Batteries /\ queued' \in BOOLEAN
  <2>1. CASE UNCHANGED battery /\ queued' \in BOOLEAN
    BY <2>1 DEF Inv, OtherType
  <2>2. CASE CloudSync \/ CorrectionLands
    BY <2>2 DEF CloudSync, CorrectionLands, Set, Hears, Inv, OtherType, Batteries
  <2>3. CASE CloudReverts
    BY <2>3, SetKeeps DEF CloudReverts, Inv, Fields
  <2> QED
    BY <2>1, <2>2, <2>3 DEF ReactiveCorrect, GuardExpires, Recheck, Inv, OtherType
<1>5. correcting' \in BOOLEAN /\ guarded' \in BOOLEAN /\ recheck' \in BOOLEAN
  BY DEF CloudSync, CloudReverts, ReactiveCorrect, CorrectionLands, GuardExpires,
         Recheck, GuardOrCorrect, Inv, OtherType
<1> QED
  BY <1>1, <1>3, <1>4, <1>5 DEF Inv, OtherType

LEMMA Invariance == Spec => []Inv
<1>1. Init => Inv
  <2> SUFFICES ASSUME Init PROVE Inv
    OBVIOUS
  <2>1. battery \in Batteries /\ commanded \in Commands
    BY TargetType DEF Init
  <2>2. OtherType
    BY <2>1, CommandsAssumption DEF Init, OtherType
  <2>3. NoWrite \in WriteRecords
    BY CommandsAssumption DEF NoWrite, Idle, WriteRecords
  <2>4. \A w \in Writers : write[w] = NoWrite /\ ~InFlight(w)
    BY DEF Init, InFlight, NoWrite
  <2>5. WriteType
    BY <2>1, <2>3 DEF Init, WriteType, Allowed
  <2>6. WriteInv
    BY <2>4, <2>5 DEF Init, WriteInv, WritesModes, MarkBelongs, PickStaysAlone, NoWrite
  <2> QED
    BY <2>2, <2>6 DEF Inv
<1>2. Inv /\ [Next]_vars => Inv'
  <2> SUFFICES ASSUME Inv, [Next]_vars PROVE Inv'
    OBVIOUS
  <2>1. CASE \E w \in Writers : StepOk(w) \/ StepFails(w)
    BY <2>1, StepKeeps
  <2>2. CASE \E w \in Writers : \/ Validate(w) \/ Settle(w) \/ SettleFails(w)
                               \/ Resettle(w)
    BY <2>2, ValidationKeeps
  <2>3. CASE \/ EvaluateDisabled \/ EvaluateWaits
             \/ \E m \in Commands \cup {"manual"} : StartTransition(m) \/ RestoreMode(m)
    BY <2>3, EvaluationKeeps
       DEF EvaluateDisabled, EvaluateWaits, StartTransition, RestoreMode
  <2>4. CASE \/ SwitchOn
             \/ \E w \in UserCalls : SwitchOff(w) \/ \E m \in Commands : PickManual(w, m)
    BY <2>4, UserKeeps
  <2>5. CASE \/ CloudSync \/ CloudReverts \/ ReactiveCorrect \/ CorrectionLands
             \/ GuardExpires \/ Recheck
    BY <2>5, SurroundingsKeep
  <2>6. CASE UNCHANGED vars
    BY <2>6 DEF vars, writeVars, machineVars, userVars, listenerVars, history, Inv,
                OtherType, WriteInv, WriteType, WritesModes, MarkBelongs,
                PickStaysAlone, InFlight
  <2> QED
    BY <2>1, <2>2, <2>3, <2>4, <2>5, <2>6 DEF Next
<1> QED
  BY <1>1, <1>2, PTL DEF Spec

(* Every variable stays in its domain.                                      *)
THEOREM TypeCorrect == Spec => []TypeOK
<1>1. Inv => TypeOK
  BY InvType
<1> QED
  BY Invariance, <1>1, PTL

(* The mark of a write never outlives the writes of evaluation and pick.    *)
THEOREM MarkBelongsCorrect == Spec => []MarkBelongs
<1>1. Inv => MarkBelongs
  BY InvType
<1> QED
  BY Invariance, <1>1, PTL

(* The listener never corrects under a charging pick that began alone.      *)
THEOREM LonePickNotRevertedCorrect == Spec => LonePickNotReverted
<1>1. Inv /\ [Next]_vars =>
        [~correcting /\ correcting' /\ takeover = "pick"
            => \A w \in Writers : write[w].by = "pick" => write[w].mode \notin Charges]_vars
  <2> SUFFICES ASSUME Inv, Next, ~correcting, correcting', takeover = "pick",
                      NEW w \in Writers
               PROVE  write[w].mode \notin Charges
    OBVIOUS
  <2>1. ReactiveCorrect /\ MayCorrect
    BY DEF Next, StepOk, StepFails, Validate, Settle, SettleFails, Resettle,
           EvaluateDisabled, EvaluateWaits, StartTransition, RestoreMode, EvaluateTop,
           PickManual, SwitchOff, SwitchOn, CloudSync, CloudReverts, ReactiveCorrect,
           CorrectionLands, GuardExpires, Recheck, listenerVars
  <2>2. ~InFlight(w)
    BY <2>1 DEF MayCorrect, Inv, WriteInv, PickStaysAlone
  <2>3. write[w].mode = NoMode
    BY <2>2 DEF Inv, WriteInv, WritesModes
  <2> QED
    BY <2>3 DEF Charges, NoMode
<1> QED
  BY Invariance, <1>1, PTL DEF Spec, LonePickNotReverted

-----------------------------------------------------------------------------
(* What a takeover by the user reaches                                       *)

\* a takeover that nothing has interfered with
Lone == takeover # "none" /\ since = {}

\* a pick that never charges, which at most the cloud has interfered with
Standing == takeover = "pick" /\ saved \in Defended /\ since \subseteq {"cloud"}

\* what a write of m has done to the settings by a phase of it
Written(settings, m, phase) ==
    /\ phase > 1 => settings.grid = Target[m].grid
    /\ phase > 2 => settings.export = Target[m].export
    /\ phase > 3 => IF m = "self_consumption" THEN settings.op = Target[m].op
                    ELSE settings.reserve = Target[m].reserve
    /\ phase > 4 => settings = Target[m]

OneWriter == \A w, x \in Writers : InFlight(w) /\ InFlight(x) => w = x

\* a write of the saved mode, at which the listener sleeps: a pick is marked,
\* and a switch-off never turns the switch on
Faithful(w) ==
    /\ write[w].mode = saved
    /\ in_transition \/ saved = "self_consumption"
    /\ Written(battery, saved, write[w].phase)

(***************************************************************************)
(* The write of a lone takeover is the only thing under way, and it has    *)
(* done all the steps before its place.                                    *)
(***************************************************************************)
LoneWrites ==
    Lone =>
        /\ ~automation /\ ~Defending
        /\ OneWriter
        /\ \A w \in Writers : InFlight(w) => Faithful(w)
        /\ AllIdle => battery = Target[saved]

(***************************************************************************)
(* A pick that stands has turned the switch off when it is past its first  *)
(* step, and is the mode the listener defends when it has ended.           *)
(***************************************************************************)
StandingDefended ==
    Standing =>
        /\ \A w \in Writers : InFlight(w) =>
              write[w].mode = saved /\ (write[w].phase > 1 => ~battery.grid)
        /\ AllIdle => manual_mode = saved /\ (~battery.grid \/ Defending)

TakeoverInv == Inv /\ LoneWrites /\ StandingDefended

-----------------------------------------------------------------------------
(* History                                                                  *)

LEMMA TakeoverTypes ==
    ASSUME Inv
    PROVE  /\ takeover \in {"none", "pick", "switch"}
           /\ saved \in Commands /\ battery \in Batteries
BY DEF Inv, OtherType, WriteInv, WriteType

\* a failed call ends every claim
LEMMA FailureEnds ==
    ASSUME Inv, Happened({"failed"})
    PROVE  takeover' = "none"
BY TakeoverTypes DEF Happened, Record, Allowed

\* what has happened is not forgotten while a claim stands
LEMMA HistoryGrows ==
    ASSUME NEW what, Happened(what), takeover' # "none"
    PROVE  takeover' = takeover /\ since' = since \cup what
BY DEF Happened, Record

LEMMA FailEnds ==
    ASSUME Inv, NEW w \in Writers, StepFails(w) \/ SettleFails(w) \/ Finish(w, FALSE)
    PROVE  takeover' = "none"
<1>1. Happened({"failed"})
  BY DEF StepFails, SettleFails, SwitchFails, CallFails, Fail, Finish
<1> QED
  BY <1>1, FailureEnds

-----------------------------------------------------------------------------
(* Settings                                                                 *)

LEMMA SameSettings ==
    ASSUME NEW a \in Batteries, NEW b \in Batteries,
           a.grid = b.grid, a.export = b.export, a.op = b.op, a.reserve = b.reserve
    PROVE  a = b
BY DEF Batteries

\* the recipe of m, one field at a time
LEMMA WritesInOrder ==
    ASSUME NEW m \in Commands, NEW phase \in 2..4, NEW settings \in Batteries,
           Written(settings, m, phase), NEW field, field = Steps(m)[phase]
    PROVE  Written([settings EXCEPT ![field] = Target[m][field]], m, phase + 1)
<1> DEFINE next == [settings EXCEPT ![field] = Target[m][field]]
<1>1. Target[m] \in Batteries
  BY TargetType
<1>2. CASE phase = 2
  <2>1. field = "export"
    BY <1>2 DEF Steps
  <2>2. next.grid = settings.grid /\ next.export = Target[m].export
    BY <2>1 DEF Batteries
  <2> QED
    BY <1>2, <2>2 DEF Written
<1>3. CASE phase = 3
  <2>1. settings.grid = Target[m].grid /\ settings.export = Target[m].export
    BY <1>3 DEF Written
  <2>2. CASE m = "self_consumption"
    <3>1. field = "op"
      BY <1>3, <2>2 DEF Steps
    <3>2. /\ next.grid = settings.grid /\ next.export = settings.export
          /\ next.op = Target[m].op
      BY <3>1 DEF Batteries
    <3> QED
      BY <1>3, <2>1, <2>2, <3>2 DEF Written
  <2>3. CASE m # "self_consumption"
    <3>1. field = "reserve"
      BY <1>3, <2>3 DEF Steps
    <3>2. /\ next.grid = settings.grid /\ next.export = settings.export
          /\ next.reserve = Target[m].reserve
      BY <3>1 DEF Batteries
    <3> QED
      BY <1>3, <2>1, <2>3, <3>2 DEF Written
  <2> QED
    BY <2>2, <2>3
<1>4. CASE phase = 4
  <2>1. settings.grid = Target[m].grid /\ settings.export = Target[m].export
    BY <1>4 DEF Written
  <2>2. next \in Batteries /\ next.grid = Target[m].grid /\ next.export = Target[m].export
        /\ next.op = Target[m].op /\ next.reserve = Target[m].reserve
    <3>1. CASE m = "self_consumption"
      <4>1. field = "reserve" /\ settings.op = Target[m].op
        BY <1>4, <3>1 DEF Steps, Written
      <4> QED
        BY <1>1, <2>1, <4>1 DEF Batteries
    <3>2. CASE m # "self_consumption"
      <4>1. field = "op" /\ settings.reserve = Target[m].reserve
        BY <1>4, <3>2 DEF Steps, Written
      <4> QED
        BY <1>1, <2>1, <4>1 DEF Batteries
    <3> QED
      BY <3>1, <3>2
  <2>3. next = Target[m]
    BY <1>1, <2>2, SameSettings
  <2> QED
    BY <1>4, <2>3 DEF Written
<1> QED
  BY <1>2, <1>3, <1>4

\* the listener's callback makes nothing of a write it sleeps at
LEMMA ListenerSleeps ==
    ASSUME Hears, in_transition \/ (battery'.grid => battery.grid), queued \in BOOLEAN
    PROVE  queued' = queued
BY DEF Hears

LEMMA GridTarget ==
    ASSUME NEW m \in Commands
    PROVE  /\ Target["self_consumption"].grid = FALSE
           /\ m \in Defended => Target[m].grid = FALSE
<1>1. m \in AllCommands
  BY CommandsAssumption
<1> QED
  BY <1>1 DEF Target, Setting, Defended, AllCommands, Charges

\* what Set leaves of the settings
LEMMA SetLeaves ==
    ASSUME battery \in Batteries, NEW field \in Fields, NEW value, Set(field, value)
    PROVE  /\ battery' = [battery EXCEPT ![field] = value]
           /\ field = "grid" => battery'.grid = value
           /\ field # "grid" => battery'.grid = battery.grid
           /\ Hears
BY DEF Set, Batteries, Fields

-----------------------------------------------------------------------------
(* Writes                                                                   *)

LEMMA AdvanceMoves ==
    ASSUME Inv, NEW w \in Writers, write[w].phase \in 1..6, Advance(w)
    PROVE  /\ \A x \in Writers : InFlight(x)' <=> InFlight(x)
           /\ \A x \in Writers : write'[x].mode = write[x].mode
           /\ write'[w].phase = write[w].phase + 1
           /\ \A x \in Writers : x # w => write'[x] = write[x]
           /\ UNCHANGED <<in_transition, manual_mode, commanded>>
<1>1. \A x \in Writers :
        write'[x] = IF x = w THEN [by |-> write[w].by, mode |-> write[w].mode,
                                   phase |-> write[w].phase + 1, tries |-> 0]
                    ELSE write[x]
  BY DEF Advance, Inv, WriteInv, WriteType
<1>2. write[w].phase + 1 # 0 /\ write[w].phase # 0
  OBVIOUS
<1> QED
  BY <1>1, <1>2 DEF InFlight, Idle, Advance, machineVars

LEMMA FinishMoves ==
    ASSUME Inv, NEW w \in Writers, NEW success, Finish(w, success)
    PROVE  \A x \in Writers : /\ InFlight(x)' <=> x # w /\ InFlight(x)
                              /\ x # w => write'[x] = write[x]
<1>1. \A x \in Writers : write'[x] = IF x = w THEN NoWrite ELSE write[x]
  BY DEF Finish, Inv, WriteInv, WriteType
<1> QED
  BY <1>1 DEF InFlight, NoWrite, Idle

LEMMA TryMoves ==
    ASSUME Inv, NEW w \in Writers, TrySwitch(w)
    PROVE  /\ \A x \in Writers : /\ InFlight(x)' <=> InFlight(x)
                                 /\ write'[x].mode = write[x].mode
                                 /\ write'[x].phase = write[x].phase
           /\ UNCHANGED <<in_transition, manual_mode, commanded, takeover, since>>
<1>1. write[w] \in WriteRecords /\ write \in [Writers -> WriteRecords]
  BY DEF Inv, WriteInv, WriteType
<1>2. write' = [write EXCEPT ![w] = [write[w] EXCEPT !.tries = write[w].tries + 1]]
  BY DEF TrySwitch
<1>3. \A x \in Writers : /\ write'[x].mode = write[x].mode
                         /\ write'[x].phase = write[x].phase
  BY <1>1, <1>2 DEF WriteRecords
<1> QED
  BY <1>3 DEF InFlight, TrySwitch, machineVars, history

LEMMA BeginMoves ==
    ASSUME Inv, NEW w \in Writers, NEW by \in Purposes, NEW m \in Commands,
           BeginWrite(w, by, m)
    PROVE  /\ \A x \in Writers : InFlight(x)' <=> x = w \/ InFlight(x)
           /\ write'[w] = Write(by, m)
BY BeginKeeps DEF BeginWrite, Inv, WriteInv, WriteType

-----------------------------------------------------------------------------
(* A lone takeover                                                          *)

\* LoneWrites of a step at which the takeover was lone before
LoneGoesOn == Lone /\ LoneWrites /\ Inv /\ UNCHANGED <<saved, automation, correcting, recheck>>

LEMMA LoneStep ==
    ASSUME LoneGoesOn, NEW w \in Writers, StepOk(w), takeover' # "none"
    PROVE  LoneWrites'
<1> DEFINE m == saved
           phase == write[w].phase
<1>1. phase \in 1..4 /\ phase \in 1..6 /\ InFlight(w)
  BY DEF StepOk, InFlight, Idle
<1>2. /\ ~automation /\ ~Defending /\ OneWriter
      /\ write[w].mode = m /\ (in_transition \/ m = "self_consumption")
      /\ Written(battery, m, phase)
  BY <1>1 DEF LoneGoesOn, LoneWrites, Faithful
<1>3. m \in Commands /\ battery \in Batteries /\ queued \in BOOLEAN
  BY DEF LoneGoesOn, Inv, OtherType
<1>4. ASSUME \A x \in Writers : /\ InFlight(x)' <=> InFlight(x)
                                /\ write'[x].mode = write[x].mode,
             UNCHANGED <<in_transition, queued>>, Written(battery', m, write'[w].phase)
      PROVE  LoneWrites'
  <2>1. ~automation' /\ ~Defending' /\ OneWriter'
    BY <1>2, <1>4 DEF LoneGoesOn, Defending, OneWriter
  <2>2. \A x \in Writers : InFlight(x)' => x = w
    BY <1>1, <1>2, <1>4 DEF OneWriter
  <2>3. \A x \in Writers : InFlight(x)' => Faithful(x)'
    BY <1>2, <1>4, <2>2 DEF LoneGoesOn, Faithful, Written
  <2>4. ~AllIdle'
    BY <1>1, <1>4 DEF AllIdle
  <2> QED
    BY <2>1, <2>3, <2>4 DEF LoneWrites
<1>5. ASSUME NEW field \in Fields, Set(field, Target[m][field])
      PROVE  UNCHANGED queued
  <2>1. m = "self_consumption" => (battery'.grid => battery.grid)
    BY <1>3, <1>5, SetLeaves, GridTarget
  <2> QED
    BY <1>2, <1>3, <1>5, <2>1, SetLeaves, ListenerSleeps
<1>6. CASE TrySwitch(w) /\ Field(w) = "grid"
  <2>1. "grid" \in Fields /\ Set("grid", Target[m]["grid"])
    BY <1>2, <1>6 DEF TrySwitch, Wanted, Fields
  <2>2. phase = 1
    BY <1>1, <1>6 DEF Field, Steps
  <2>3. write'[w].phase = 1 /\ UNCHANGED in_transition
    BY <1>6, <2>2, TryMoves DEF LoneGoesOn
  <2>4. Written(battery', m, write'[w].phase)
    BY <2>3 DEF Written
  <2> QED
    BY <1>4, <1>5, <1>6, <2>1, <2>3, <2>4, TryMoves DEF LoneGoesOn
<1>7. CASE SwitchVerified(w) /\ Field(w) = "grid"
  <2>1. Advance(w) /\ UNCHANGED <<battery, queued>> /\ battery.grid = Target[m].grid
    BY <1>2, <1>7 DEF SwitchVerified, Wanted
  <2>2. phase = 1
    BY <1>1, <1>7 DEF Field, Steps
  <2>3. write'[w].phase = 2
    BY <1>1, <2>1, <2>2, AdvanceMoves DEF LoneGoesOn
  <2>4. Written(battery', m, write'[w].phase)
    BY <2>1, <2>3 DEF Written
  <2> QED
    BY <1>1, <1>4, <2>1, <2>4, AdvanceMoves DEF LoneGoesOn
<1>8. CASE Call(w) /\ Field(w) # "grid"
  <2>1. Field(w) \in Fields /\ Set(Field(w), Target[m][Field(w)]) /\ Advance(w)
    BY <1>1, <1>2, <1>8, FieldType DEF Call, Wanted
  <2>2. phase \in 2..4 /\ Field(w) = Steps(m)[phase]
    BY <1>1, <1>2, <1>8 DEF Field, Steps
  <2>3. battery' = [battery EXCEPT ![Field(w)] = Target[m][Field(w)]]
    BY <1>3, <2>1, SetLeaves
  <2>4. Written(battery', m, phase + 1)
    BY <1>2, <1>3, <2>2, <2>3, WritesInOrder
  <2>5. write'[w].phase = phase + 1
    BY <1>1, <2>1, AdvanceMoves DEF LoneGoesOn
  <2> QED
    BY <1>1, <1>4, <1>5, <2>1, <2>4, <2>5, AdvanceMoves DEF LoneGoesOn
<1> QED
  BY <1>6, <1>7, <1>8 DEF StepOk

LEMMA LoneEnds ==
    ASSUME LoneGoesOn, NEW w \in Writers,
           Validate(w) \/ Settle(w) \/ Resettle(w), takeover' # "none"
    PROVE  LoneWrites'
<1>1. /\ write[w].phase \in 5..7 /\ InFlight(w)
      /\ Validate(w) \/ Settle(w) => write[w].phase \in 1..6
      /\ UNCHANGED <<saved, automation, correcting, recheck>>
  <2>1. /\ Validate(w) => write[w].phase = 5
        /\ Settle(w) => write[w].phase = 6
        /\ Resettle(w) => write[w].phase = 7
    BY DEF Validate, Settle, Resettle, Validating, Settling, Resettling
  <2> QED
    BY <2>1 DEF InFlight, Idle, LoneGoesOn
<1>2. /\ ~automation /\ ~Defending /\ OneWriter
      /\ write[w].mode = saved /\ (in_transition \/ saved = "self_consumption")
      /\ battery = Target[saved]
  BY <1>1 DEF LoneGoesOn, LoneWrites, Faithful, Written
<1>3. Inv
  BY DEF LoneGoesOn
<1>4. ~Finish(w, FALSE)
  BY <1>3, FailEnds
<1>5. UNCHANGED battery /\ UNCHANGED queued
      /\ \/ Advance(w) /\ (Validate(w) \/ Settle(w))
         \/ Finish(w, TRUE)
  <2>1. CASE Validate(w)
    BY <1>4, <2>1 DEF Validate, listenerVars
  <2>2. CASE Settle(w)
    BY <1>2, <2>2 DEF Settle, Wanted
  <2>3. CASE Resettle(w)
    BY <1>2, <2>3 DEF Resettle, Wanted, listenerVars
  <2> QED
    BY <2>1, <2>2, <2>3
<1>6. ~automation' /\ ~Defending' /\ battery' = Target[saved']
  BY <1>1, <1>2, <1>5 DEF Defending
<1>7. CASE Advance(w) /\ (Validate(w) \/ Settle(w))
  <2>1. OneWriter' /\ UNCHANGED in_transition
    BY <1>1, <1>2, <1>3, <1>7, AdvanceMoves DEF OneWriter
  <2>2. \A x \in Writers : InFlight(x)' => x = w
    BY <1>1, <1>2, <1>3, <1>7, AdvanceMoves DEF OneWriter
  <2>3. \A x \in Writers : InFlight(x)' => Faithful(x)'
    BY <1>1, <1>2, <1>3, <1>6, <1>7, <2>1, <2>2, AdvanceMoves DEF Faithful, Written
  <2> QED
    BY <1>6, <2>1, <2>3 DEF LoneWrites
<1>8. CASE Finish(w, TRUE)
  <2>1. \A x \in Writers : ~InFlight(x)'
    BY <1>1, <1>2, <1>3, <1>8, FinishMoves DEF OneWriter
  <2> QED
    BY <1>6, <2>1 DEF LoneWrites, OneWriter
<1> QED
  BY <1>5, <1>7, <1>8

LEMMA LoneBegins ==
    ASSUME Inv, NEW w \in UserCalls,
           SwitchOff(w) \/ \E m \in Commands : PickManual(w, m)
    PROVE  LoneWrites'
<1> SUFFICES ASSUME Lone' PROVE LoneWrites'
  BY DEF LoneWrites
<1>1. PICK by \in {"switch", "pick"}, m \in Commands :
        /\ BeginWrite(w, by, m) /\ TakesOver(by) /\ saved' = m /\ ~automation'
        /\ UNCHANGED <<battery, queued, correcting, recheck>>
        /\ in_transition' \/ m = "self_consumption"
  BY CommandsAssumption DEF SwitchOff, PickManual, StartsWrite, listenerVars
<1>2. ~UnderWay
  BY <1>1 DEF TakesOver, Record, Lone
<1>3. /\ \A x \in Writers : InFlight(x)' <=> x = w
      /\ write'[w] = Write(by, m) /\ w \in Writers
  BY <1>1, <1>2, BeginMoves DEF Purposes, Writers, UnderWay
<1>4. ~Defending'
  BY <1>1, <1>2 DEF UnderWay, Defending
<1>5. Faithful(w)'
  BY <1>1, <1>3 DEF Faithful, Written, Write
<1> QED
  BY <1>1, <1>3, <1>4, <1>5 DEF LoneWrites, OneWriter, AllIdle

\* nothing but a step of its write concerns a lone takeover
LEMMA LoneElsewhere ==
    ASSUME Inv, LoneWrites, Lone',
           \/ EvaluateDisabled \/ EvaluateWaits
           \/ \E m \in Commands \cup {"manual"} : StartTransition(m) \/ RestoreMode(m)
           \/ CloudSync \/ CloudReverts \/ ReactiveCorrect \/ CorrectionLands
           \/ GuardExpires \/ Recheck
           \/ UNCHANGED vars
    PROVE  LoneWrites'
<1>1. ~CloudSync /\ ~CloudReverts
  BY HistoryGrows DEF CloudSync, CloudReverts, Lone
<1>2. UNCHANGED history \/ Happened({"failed"}) \/ ReactiveCorrect
  BY <1>1 DEF EvaluateDisabled, EvaluateWaits, StartTransition, RestoreMode, EvaluateTop,
              CorrectionLands, GuardExpires, Recheck, vars
<1>3. Lone
  BY <1>2, FailureEnds, HistoryGrows DEF ReactiveCorrect, Lone, history
<1>4. ~automation /\ ~Defending
  BY <1>3 DEF LoneWrites
<1>5. UNCHANGED <<battery, write, in_transition, saved, automation, queued, correcting, recheck>>
  BY <1>1, <1>4 DEF EvaluateDisabled, EvaluateWaits, StartTransition, RestoreMode, EvaluateTop,
              ReactiveCorrect, CorrectionLands, GuardExpires, Recheck, Defending, vars,
              writeVars, userVars, listenerVars
<1> QED
  BY <1>3, <1>5 DEF LoneWrites, OneWriter, Faithful, Written, InFlight, AllIdle, Defending

LEMMA LoneWritesKept ==
    ASSUME Inv, LoneWrites, [Next]_vars
    PROVE  LoneWrites'
<1> SUFFICES ASSUME Lone' PROVE LoneWrites'
  BY DEF LoneWrites
<1>1. takeover' # "none" /\ since' = {}
  BY DEF Lone
<1>2. ASSUME NEW w \in Writers,
             StepOk(w) \/ StepFails(w) \/ Validate(w) \/ Settle(w) \/ SettleFails(w) \/ Resettle(w)
      PROVE  LoneWrites'
  <2>1. ~StepFails(w) /\ ~SettleFails(w)
    BY <1>1, FailEnds
  <2>2. UNCHANGED history \/ \E what : Happened(what)
    BY <1>2, <2>1 DEF StepOk, TrySwitch, SwitchVerified, Call, Validate, Settle, Resettle, Finish
  <2>3. Lone
    BY <1>1, <2>2, HistoryGrows DEF Lone, history
  <2>4. LoneGoesOn
    BY <1>2, <2>1, <2>3
       DEF LoneGoesOn, StepOk, Validate, Settle, Resettle, userVars, listenerVars
  <2> QED
    BY <1>1, <1>2, <2>1, <2>4, LoneStep, LoneEnds
<1>3. ~SwitchOn
  BY <1>1 DEF SwitchOn
<1> QED
  BY <1>2, <1>3, LoneBegins, LoneElsewhere DEF Next

-----------------------------------------------------------------------------
(* A pick that stands                                                       *)

\* StandingDefended of a step at which the pick stood before
PickGoesOn == Standing /\ StandingDefended /\ Inv /\ UNCHANGED <<saved, correcting, recheck>>

LEMMA StandingFacts ==
    ASSUME Standing, StandingDefended, Inv
    PROVE  /\ ~automation /\ Target[saved].grid = FALSE
           /\ \A w \in Writers : InFlight(w) =>
                 /\ write[w].by = "pick" /\ in_transition
                 /\ write[w].mode = saved
                 /\ \A x \in Writers : InFlight(x) => x = w
BY TakeoverTypes, GridTarget
   DEF Standing, StandingDefended, Inv, WriteInv, PickStaysAlone

LEMMA PickStep ==
    ASSUME PickGoesOn, NEW w \in Writers, StepOk(w)
    PROVE  StandingDefended'
<1>1. /\ write[w].phase \in 1..4 /\ write[w].phase \in 1..6 /\ InFlight(w)
      /\ UNCHANGED saved
  BY DEF StepOk, InFlight, Idle, PickGoesOn
<1>2. /\ write[w].mode = saved /\ Target[saved].grid = FALSE
      /\ write[w].phase > 1 => ~battery.grid
      /\ \A x \in Writers : InFlight(x) => x = w
  BY <1>1, StandingFacts DEF PickGoesOn, StandingDefended
<1>3. Inv /\ battery \in Batteries
  BY DEF PickGoesOn, Inv, OtherType
<1>4. ASSUME \A x \in Writers : /\ InFlight(x)' <=> InFlight(x)
                                /\ write'[x].mode = write[x].mode,
             write'[w].phase > 1 => ~battery'.grid
      PROVE  StandingDefended'
  BY <1>1, <1>2, <1>4 DEF StandingDefended, AllIdle
<1>5. CASE TrySwitch(w)
  <2>1. battery'.grid = FALSE
    BY <1>2, <1>3, <1>5, SetLeaves DEF TrySwitch, Wanted, Fields
  <2> QED
    BY <1>3, <1>4, <1>5, <2>1, TryMoves
<1>6. CASE SwitchVerified(w)
  <2>1. battery'.grid = FALSE /\ Advance(w)
    BY <1>2, <1>6 DEF SwitchVerified, Wanted
  <2> QED
    BY <1>1, <1>3, <1>4, <2>1, AdvanceMoves
<1>7. CASE Call(w) /\ Field(w) # "grid"
  <2>1. write[w].phase > 1
    BY <1>1, <1>7 DEF Field, Steps
  <2>2. battery'.grid = battery.grid /\ Advance(w)
    BY <1>1, <1>3, <1>7, FieldType, SetLeaves DEF Call
  <2> QED
    BY <1>1, <1>2, <1>3, <1>4, <2>1, <2>2, AdvanceMoves
<1> QED
  BY <1>5, <1>6, <1>7 DEF StepOk

LEMMA PickEnds ==
    ASSUME PickGoesOn, NEW w \in Writers,
           Validate(w) \/ Settle(w) \/ Resettle(w), takeover' # "none"
    PROVE  StandingDefended'
<1>1. /\ Validate(w) => write[w].phase = 5
      /\ Settle(w) => write[w].phase = 6
      /\ Resettle(w) => write[w].phase = 7
  BY DEF Validate, Settle, Resettle, Validating, Settling, Resettling
<1>2. InFlight(w) /\ write[w].phase > 1 /\ UNCHANGED saved
  BY <1>1 DEF InFlight, Idle, PickGoesOn
<1>3. /\ write[w].mode = saved /\ write[w].by = "pick" /\ ~battery.grid
      /\ \A x \in Writers : InFlight(x) => x = w
  BY <1>2, StandingFacts DEF PickGoesOn, StandingDefended
<1>4. Inv /\ battery \in Batteries
  BY DEF PickGoesOn, Inv, OtherType
<1>5. ~Finish(w, FALSE)
  BY <1>4, FailEnds
<1>6. ~battery'.grid
  <2>1. Set("reserve", Wanted(w).reserve) => battery'.grid = battery.grid
    BY <1>4, SetLeaves DEF Fields
  <2> QED
    BY <1>3, <2>1 DEF Validate, Settle, Resettle
<1>7. \/ Advance(w) /\ (Validate(w) \/ Settle(w))
      \/ Finish(w, TRUE)
  <2>1. CASE Validate(w)
    BY <1>5, <2>1 DEF Validate
  <2>2. CASE Settle(w)
    BY <2>2 DEF Settle
  <2>3. CASE Resettle(w)
    BY <1>5, <2>3 DEF Resettle
  <2> QED
    BY <2>1, <2>2, <2>3
<1>8. CASE Advance(w) /\ (Validate(w) \/ Settle(w))
  <2>1. write[w].phase \in 1..6
    BY <1>1, <1>8
  <2> QED
    BY <1>2, <1>3, <1>4, <1>6, <1>8, <2>1, AdvanceMoves DEF StandingDefended, AllIdle
<1>9. CASE Finish(w, TRUE)
  <2>1. \A x \in Writers : ~InFlight(x)'
    BY <1>3, <1>4, <1>9, FinishMoves
  <2>2. manual_mode' = saved
    BY <1>3, <1>9 DEF Finish
  <2> QED
    BY <1>2, <1>6, <2>1, <2>2 DEF StandingDefended
<1> QED
  BY <1>7, <1>8, <1>9

LEMMA PickBegins ==
    ASSUME Inv, NEW w \in UserCalls,
           SwitchOff(w) \/ \E m \in Commands : PickManual(w, m)
    PROVE  StandingDefended'
<1> SUFFICES ASSUME takeover' = "pick" PROVE StandingDefended'
  BY DEF StandingDefended, Standing
<1>1. PICK m \in Commands : PickManual(w, m)
  BY DEF SwitchOff, TakesOver, Record
<1>2. /\ BeginWrite(w, "pick", m) /\ saved' = m /\ ~UnderWay
      /\ w \in Writers /\ "pick" \in Purposes
  BY <1>1 DEF PickManual, StartsWrite, TakesOver, Record, Allowed, Writers, Purposes
<1>3. \A x \in Writers : InFlight(x)' <=> x = w
  BY <1>2, BeginMoves DEF UnderWay
<1>4. write'[w] = Write("pick", m)
  BY <1>2, BeginMoves
<1> QED
  BY <1>2, <1>3, <1>4 DEF StandingDefended, AllIdle, Write

\* the cloud and the listener, while the pick stands before and after
LEMMA PickBesieged ==
    ASSUME Standing, StandingDefended, Inv, Standing',
           \/ CloudSync \/ CloudReverts \/ ReactiveCorrect \/ CorrectionLands
           \/ GuardExpires \/ Recheck
    PROVE  StandingDefended'
<1>1. Inv /\ Standing /\ StandingDefended /\ battery \in Batteries /\ saved \in Commands
  BY TakeoverTypes
<1>2. UNCHANGED <<write, in_transition, manual_mode, saved, automation>>
  BY DEF CloudSync, CloudReverts, ReactiveCorrect, CorrectionLands, GuardExpires,
         Recheck, writeVars, machineVars, userVars
<1>3. \A w \in Writers : InFlight(w)' <=> InFlight(w)
  BY <1>2 DEF InFlight
<1>4. takeover' # "none" /\ since' \subseteq {"cloud"}
  BY DEF Standing
<1>5. \A w \in Writers : InFlight(w) => in_transition
  BY <1>1, StandingFacts
<1>6. CASE CloudSync
  <2>1. ~in_transition
    BY <1>4, <1>6, HistoryGrows DEF CloudSync
  <2>2. AllIdle
    BY <1>5, <2>1 DEF AllIdle
  <2>3. battery'.grid /\ Hears /\ ~battery.grid
    BY <1>1, <1>6, SetLeaves DEF CloudSync, Fields
  <2>4. queued'
    BY <2>1, <2>3 DEF Hears
  <2> QED
    BY <1>1, <1>2, <1>3, <2>2, <2>4 DEF StandingDefended, AllIdle, Defending
<1>7. CASE CloudReverts
  <2>1. battery'.grid = battery.grid /\ Hears
    BY <1>1, <1>7, SetLeaves DEF CloudReverts, Fields
  <2>2. Defending => Defending'
    BY <1>7, <2>1 DEF CloudReverts, Hears, Defending
  <2> QED
    BY <1>1, <1>2, <1>3, <2>1, <2>2 DEF StandingDefended, AllIdle
<1>8. CASE ReactiveCorrect
  <2>1. ~in_transition /\ UNCHANGED battery
    BY <1>4, <1>8, HistoryGrows DEF ReactiveCorrect
  <2>2. AllIdle /\ manual_mode = saved
    BY <1>1, <1>5, <2>1 DEF AllIdle, StandingDefended
  <2>3. DefendedMode \in Defended
    <3>1. ~automation /\ saved \in Defended
      BY <1>1, StandingFacts DEF Standing
    <3> QED
      BY <2>2, <3>1 DEF DefendedMode
  <2>4. Defending'
    BY <1>8, <2>1, <2>3 DEF ReactiveCorrect, MayCorrect, GuardOrCorrect, Defending
  <2> QED
    BY <1>1, <1>2, <1>3, <2>2, <2>4 DEF StandingDefended, AllIdle
<1>9. CASE CorrectionLands
  <2>1. ~battery'.grid
    BY <1>1, <1>4, <1>9, FailureEnds, SetLeaves DEF CorrectionLands, Fields
  <2> QED
    BY <1>1, <1>2, <1>3, <2>1 DEF StandingDefended, AllIdle
<1>10. CASE GuardExpires
  BY <1>1, <1>2, <1>3, <1>10 DEF GuardExpires, StandingDefended, AllIdle, Defending
<1>11. CASE Recheck
  <2>1. ~battery'.grid \/ Defending'
    BY <1>11 DEF Recheck, Defending
  <2> QED
    BY <1>1, <1>2, <1>3, <1>11, <2>1 DEF Recheck, StandingDefended, AllIdle
<1> QED
  BY <1>6, <1>7, <1>8, <1>9, <1>10, <1>11

LEMMA StandingKept ==
    ASSUME Inv, StandingDefended, [Next]_vars
    PROVE  StandingDefended'
<1> SUFFICES ASSUME Standing' PROVE StandingDefended'
  BY DEF StandingDefended
<1>1. takeover' = "pick" /\ since' \subseteq {"cloud"} /\ saved' \in Defended
  BY DEF Standing
<1>2. ASSUME NEW w \in Writers,
             StepOk(w) \/ StepFails(w) \/ Validate(w) \/ Settle(w) \/ SettleFails(w) \/ Resettle(w)
      PROVE  StandingDefended'
  <2>1. ~StepFails(w) /\ ~SettleFails(w)
    BY <1>1, FailEnds
  <2>2. UNCHANGED history \/ \E what : Happened(what)
    BY <1>2, <2>1 DEF StepOk, TrySwitch, SwitchVerified, Call, Validate, Settle, Resettle, Finish
  <2>3. UNCHANGED <<saved, correcting, recheck>>
    BY <1>2, <2>1 DEF StepOk, Validate, Settle, Resettle, userVars, listenerVars
  <2>4. PickGoesOn
    BY <1>1, <2>2, <2>3, HistoryGrows DEF Standing, history, PickGoesOn
  <2> QED
    BY <1>1, <1>2, <2>1, <2>4, PickStep, PickEnds
<1>3. CASE \/ EvaluateDisabled \/ EvaluateWaits
           \/ \E m \in Commands \cup {"manual"} : StartTransition(m) \/ RestoreMode(m)
           \/ UNCHANGED vars
  <2>1. UNCHANGED <<takeover, since, saved, battery, automation, queued, correcting, recheck>>
    BY <1>3 DEF EvaluateDisabled, EvaluateWaits, StartTransition, RestoreMode, EvaluateTop,
                listenerVars, history, vars, userVars
  <2>2. Standing
    BY <1>1, <2>1 DEF Standing
  <2>3. ~automation
    BY <2>2, StandingFacts
  <2>4. UNCHANGED <<write, manual_mode>>
    BY <1>3, <2>3 DEF EvaluateDisabled, EvaluateWaits, StartTransition, RestoreMode,
                      writeVars, machineVars, vars
  <2> QED
    BY <2>1, <2>2, <2>4 DEF StandingDefended, InFlight, AllIdle, Defending
<1>4. CASE \/ CloudSync \/ CloudReverts \/ ReactiveCorrect \/ CorrectionLands
           \/ GuardExpires \/ Recheck
  <2>1. UNCHANGED history \/ \E what : Happened(what)
    BY <1>4 DEF CloudSync, CloudReverts, ReactiveCorrect, CorrectionLands, GuardExpires, Recheck
  <2>2. Standing
    BY <1>1, <1>4, <2>1, HistoryGrows
       DEF Standing, history, CloudSync, CloudReverts, ReactiveCorrect, CorrectionLands,
           GuardExpires, Recheck, userVars
  <2> QED
    BY <1>4, <2>2, PickBesieged
<1>5. ~SwitchOn
  BY <1>1 DEF SwitchOn
<1> QED
  BY <1>2, <1>3, <1>4, <1>5, PickBegins DEF Next

-----------------------------------------------------------------------------
(* The theorems                                                             *)

LEMMA TakeoverInvariance == Spec => []TakeoverInv
<1>1. Init => LoneWrites /\ StandingDefended
  BY DEF Init, LoneWrites, Lone, StandingDefended, Standing
<1>2. Inv /\ LoneWrites /\ StandingDefended /\ [Next]_vars => LoneWrites' /\ StandingDefended'
  BY LoneWritesKept, StandingKept
<1> QED
  BY <1>1, <1>2, Invariance, PTL DEF Spec, TakeoverInv

(* A user who takes over while nothing else is under way gets all four      *)
(* settings of the mode, when no call fails and the cloud keeps out of it.  *)
THEOREM LoneTakeoverReachesCorrect == Spec => []LoneTakeoverReaches
<1>1. TakeoverInv => LoneTakeoverReaches
  BY DEF TakeoverInv, LoneWrites, Lone, LoneTakeoverReaches
<1> QED
  BY TakeoverInvariance, <1>1, PTL

(* While a pick that never charges stands, a battery the cloud has made     *)
(* charge is being corrected or will be looked at again.                    *)
THEOREM DefendedPickHoldsCorrect == Spec => []DefendedPickHolds
<1>1. TakeoverInv => DefendedPickHolds
  BY DEF TakeoverInv, StandingDefended, Standing, DefendedPickHolds
<1> QED
  BY TakeoverInvariance, <1>1, PTL
=============================================================================
