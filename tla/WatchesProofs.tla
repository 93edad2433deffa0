---------------------------- MODULE WatchesProofs ----------------------------
(* Theorems about the watches over the battery and its inputs, which share   *)
(* no state: the reserves, the alert, the re-planning triggers, the response *)
(* watch and the readiness of the inputs, for every value of their constants.*)
EXTENDS Reserves, ReplanTriggers, ChargeWatches, ResponseWatch, InputReadiness,
        FiniteSetTheorems, TLAPS

-----------------------------------------------------------------------------
(* Reserves                                                                  *)

ReservesTypes ==
  /\ charge \in 1..Full /\ plan_floor \in PlanFloors
  /\ away_held \in BOOLEAN /\ mode \in {"self", "export"}
  /\ basis \in [soc : 1..Full, floor : PlanFloors, away : BOOLEAN]
  /\ repeated \in BOOLEAN

\* the floor a write was made from
FloorOf(b) ==
  LET floor == Larger(MinimumTarget, b.floor)
  IN IF b.away THEN Larger(floor, AwayReserve) ELSE floor

\* what is tracked of a mode is what its last write was made of, also when
\* writes have failed since
TrackedFromBasis ==
  /\ mode = "export" => export_reserve = ExportReserve(basis.soc, FloorOf(basis))
  /\ mode = "self" => self_reserve = SelfReserve(basis.away)

ReservesInv == ReservesTypes /\ TrackedFromBasis /\ NoRewriteLoop /\ FloorIsKept

\* a write that has succeeded
Written(away) ==
  /\ basis' = Basis(away)
  /\ IF mode' = "export"
     THEN export_reserve' = ExportReserve(charge, ExportFloor(away))
          /\ hardware' = Kept(export_reserve')
     ELSE self_reserve' = SelfReserve(away) /\ hardware' = Kept(self_reserve')

LEMMA ExportFloorRange ==
  ASSUME NEW away \in BOOLEAN, plan_floor \in PlanFloors
  PROVE  /\ ExportFloor(away) \in 0..Full
         /\ ExportFloor(away) = FloorOf(Basis(away))
BY ReservesAssumption DEF ExportFloor, FloorOf, Basis, Larger

\* Tesla keeps every reserve that is written, and a reserve is the higher, the
\* fuller the battery
LEMMA ExportReserveKept ==
  ASSUME NEW soc \in 1..Full, NEW floor \in 0..Full
  PROVE  /\ ExportReserve(soc, floor) \in 0..Full
         /\ Kept(ExportReserve(soc, floor)) = ExportReserve(soc, floor)
         /\ ExportReserve(soc, floor) >= ExportReserve(1, floor)
         /\ ExportReserve(1, floor) <= floor
BY ReservesAssumption DEF ExportReserve, Kept, Larger

LEMMA SelfReserveKept ==
  ASSUME NEW away \in BOOLEAN
  PROVE  /\ SelfReserve(away) \in 0..Full
         /\ Kept(SelfReserve(away)) = SelfReserve(away)
BY ReservesAssumption DEF SelfReserve, Kept, Larger

LEMMA WrittenHolds ==
  ASSUME ReservesTypes, NEW away \in BOOLEAN, Written(away), mode' \in {"self", "export"},
         UNCHANGED <<charge, plan_floor>>, away_held' = away, repeated' = FALSE
  PROVE  ReservesInv'
<1>1. /\ ExportFloor(away) \in 0..Full /\ ExportFloor(away) = FloorOf(Basis(away))
      /\ ExportFloor(away)' = ExportFloor(away)
  BY ExportFloorRange DEF ReservesTypes, ExportFloor
<1>2. /\ Kept(ExportReserve(charge, ExportFloor(away))) = ExportReserve(charge, ExportFloor(away))
      /\ ExportReserve(charge, ExportFloor(away)) >= ExportReserve(1, ExportFloor(away))
  BY <1>1, ExportReserveKept DEF ReservesTypes
<1>3. ReservesTypes'
  BY DEF ReservesTypes, Written, Basis
<1>4. TrackedFromBasis'
  BY <1>1 DEF TrackedFromBasis, Written, Basis
<1>5. FloorIsKept'
  <2>1. SelfReserve(away) \in 0..Full /\ Kept(SelfReserve(away)) = SelfReserve(away)
    BY SelfReserveKept
  <2>2. CASE mode' = "export"
    BY <1>1, <1>2, <2>2 DEF FloorIsKept, Written
  <2>3. CASE mode' = "self"
    BY <2>1, <2>3, ReservesAssumption DEF FloorIsKept, Written
  <2> QED
    BY <2>2, <2>3
<1> QED
  BY <1>3, <1>4, <1>5 DEF ReservesInv, NoRewriteLoop

\* nothing is stepped from what the last write was made from
LEMMA NoStepTwice ==
  ASSUME ReservesInv, NEW away \in BOOLEAN, basis = Basis(away)
  PROVE  /\ mode = "export" => ~StepDue(ExportFloor(away))
         /\ mode = "self" => SelfReserve(away) = self_reserve
<1>1. mode = "export" => export_reserve = ExportReserve(charge, ExportFloor(away))
  BY ExportFloorRange DEF ReservesInv, ReservesTypes, TrackedFromBasis, Basis
<1>2. ExportReserve(charge, ExportFloor(away)) \in 0..Full
  BY ExportFloorRange, ExportReserveKept DEF ReservesInv, ReservesTypes
<1>3. mode = "export" => ~StepDue(ExportFloor(away))
  BY <1>1, <1>2, ReservesAssumption DEF StepDue
<1> QED
  BY <1>3 DEF ReservesInv, TrackedFromBasis, Basis

\* a reserve that needs no step is no lower than its floor
LEMMA NotDueIsKept ==
  ASSUME ReservesInv, NEW away \in BOOLEAN, mode = "export", ~StepDue(ExportFloor(away))
  PROVE  export_reserve >= ExportReserve(1, ExportFloor(away))
<1> DEFINE floor == ExportFloor(away)
<1>1. floor \in 0..Full /\ charge \in 1..Full
  BY ExportFloorRange DEF ReservesInv, ReservesTypes
<1>2. /\ ExportReserve(charge, floor) \in 0..Full
      /\ ExportReserve(charge, floor) >= ExportReserve(1, floor)
      /\ ExportReserve(1, floor) <= floor /\ ExportReserve(1, floor) \in 0..Full
  BY <1>1, ExportReserveKept, ReservesAssumption
<1>3. export_reserve \in 0..Full
  <2>1. FloorOf(basis) \in 0..Full /\ basis.soc \in 1..Full
    <3>1. basis.soc \in 1..Full /\ basis.floor \in 0..Full /\ basis.away \in BOOLEAN
      BY ReservesAssumption DEF ReservesInv, ReservesTypes
    <3> QED
      BY <3>1, ReservesAssumption DEF FloorOf, Larger
  <2> QED
    BY <2>1, ExportReserveKept DEF ReservesInv, TrackedFromBasis
<1>4. export_reserve < floor => ExportReserve(charge, floor) <= export_reserve
  BY <1>2, <1>3 DEF StepDue
<1> HIDE DEF floor
<1> QED
  BY <1>1, <1>2, <1>3, <1>4, ReservesAssumption DEF floor

\* the least that the mode may keep, and the reserve it is known to have
Least(away) == IF mode = "self" THEN SelfReserve(away) ELSE ExportReserve(1, ExportFloor(away))
Tracked == IF mode = "export" THEN export_reserve ELSE self_reserve

\* an evaluation that tracks nothing new
Untracked(away) ==
  /\ UNCHANGED <<tracked, basis, repeated>>
  /\ settled' => hardware' >= Least(away)

LEMMA CommandWrites ==
  ASSUME NEW to \in {"self", "export"}, NEW away, NEW ok \in BOOLEAN, Command(to, away, ok)
  PROVE  /\ ok => mode' = to /\ Written(away)
         /\ ~ok => UNCHANGED <<tracked, basis>>
BY DEF Command, Written

LEMMA EvaluationKeeps ==
  ASSUME ReservesInv, NEW wanted \in {"self", "export"}, NEW readable \in BOOLEAN,
         NEW ok \in BOOLEAN, Evaluation(wanted, readable, ok)
  PROVE  ReservesInv'
<1>0. PICK away \in BOOLEAN : away = away_held'
  BY DEF Evaluation, ResolveAway, ReservesInv, ReservesTypes
<1>1. /\ settled' = (ok /\ readable) /\ repeated = FALSE
      /\ UNCHANGED <<charge, plan_floor>> /\ mode \in {"self", "export"}
  BY DEF Evaluation, ReservesInv, ReservesTypes, NoRewriteLoop
<1>2. ASSUME Written(away), mode' \in {"self", "export"}, repeated' = FALSE PROVE ReservesInv'
  BY <1>0, <1>1, <1>2, WrittenHolds DEF ReservesInv
<1>3. ASSUME Untracked(away) PROVE ReservesInv'
  <2>1. ReservesTypes' /\ TrackedFromBasis' /\ NoRewriteLoop'
    BY <1>0, <1>1, <1>3 DEF Untracked, tracked, ReservesInv, ReservesTypes, TrackedFromBasis,
                           NoRewriteLoop
  <2>2. FloorIsKept'
    BY <1>0, <1>1, <1>3 DEF Untracked, tracked, FloorIsKept, Least, ExportFloor
  <2> QED
    BY <2>1, <2>2 DEF ReservesInv
<1>4. CASE Transition(wanted, away, ok)
  <2>1. CASE ok
    BY <1>1, <1>2, <1>4, <2>1, CommandWrites DEF Transition
  <2>2. CASE ~ok
    BY <1>1, <1>3, <1>4, <2>2, CommandWrites DEF Transition, Untracked
  <2> QED
    BY <2>1, <2>2
<1>5. ASSUME HealthCheck(away, ok), Tracked >= Least(away) \/ ~readable \/ ~ok
      PROVE  ReservesInv'
  <2>1. CASE hardware = Tracked
    <3>1. UNCHANGED <<tracked, hardware, basis, repeated>>
      BY <1>5, <2>1 DEF HealthCheck, Tracked
    <3> QED
      BY <1>1, <1>3, <1>5, <2>1, <3>1 DEF Untracked
  <2>2. CASE hardware # Tracked
    <3>1. Command(mode, away, ok) /\ UNCHANGED repeated
      BY <1>5, <2>2 DEF HealthCheck, Tracked
    <3>2. CASE ok
      BY <1>1, <1>2, <3>1, <3>2, CommandWrites
    <3>3. CASE ~ok
      BY <1>1, <1>3, <3>1, <3>3, CommandWrites DEF Untracked
    <3> QED
      BY <3>2, <3>3
  <2> QED
    BY <2>1, <2>2
<1>6. CASE StableExport(away, readable, ok)
  <2>1. mode = "export"
    BY <1>6 DEF StableExport
  <2>2. CASE readable /\ StepDue(ExportFloor(away)) /\ ok
    <3>1. /\ export_reserve' = ExportReserve(charge, ExportFloor(away))
          /\ Stepped(export_reserve', away)
      BY <1>6, <2>2 DEF StableExport
    <3>2. basis # Basis(away)
      BY <1>1, <2>1, <2>2, NoStepTwice
    <3> QED
      BY <1>1, <1>2, <2>1, <3>1, <3>2 DEF Stepped, Written
  <2>3. CASE ~(readable /\ StepDue(ExportFloor(away)) /\ ok)
    <3>1. HealthCheck(away, ok)
      BY <1>6, <2>3 DEF StableExport
    <3>2. CASE ~StepDue(ExportFloor(away))
      <4>1. export_reserve >= ExportReserve(1, ExportFloor(away))
        BY <1>1, <2>1, <3>2, NotDueIsKept
      <4> QED
        BY <1>5, <2>1, <3>1, <4>1 DEF Tracked, Least
    <3>3. CASE ~readable \/ ~ok
      BY <1>5, <3>1, <3>3
    <3> QED
      BY <2>3, <3>2, <3>3
  <2> QED
    BY <2>2, <2>3
<1>7. CASE StableSelf(away, ok)
  <2>1. mode = "self"
    BY <1>7 DEF StableSelf
  <2>2. CASE SelfReserve(away) # self_reserve /\ ok
    <3>1. self_reserve' = SelfReserve(away) /\ Stepped(self_reserve', away)
      BY <1>7, <2>2 DEF StableSelf
    <3>2. basis # Basis(away)
      BY <1>1, <2>1, <2>2, NoStepTwice
    <3> QED
      BY <1>1, <1>2, <2>1, <3>1, <3>2 DEF Stepped, Written
  <2>3. CASE ~(SelfReserve(away) # self_reserve /\ ok)
    <3>1. HealthCheck(away, ok)
      BY <1>7, <2>3 DEF StableSelf
    <3>2. CASE SelfReserve(away) = self_reserve
      <4>1. SelfReserve(away) \in 0..Full
        BY <1>1, SelfReserveKept
      <4>2. self_reserve >= SelfReserve(away)
        BY <3>2, <4>1, ReservesAssumption
      <4> QED
        BY <1>5, <2>1, <3>1, <4>2 DEF Tracked, Least
    <3>3. CASE ~ok
      BY <1>5, <3>1, <3>3
    <3> QED
      BY <2>3, <3>2, <3>3
  <2> QED
    BY <2>2, <2>3
<1> QED
  BY <1>0, <1>4, <1>6, <1>7 DEF Evaluation

LEMMA ReservesInvariance == ReservesSpec => []ReservesInv
<1>1. ReservesInit => ReservesInv
  <2> SUFFICES ASSUME ReservesInit PROVE ReservesInv
    OBVIOUS
  <2>1. ReservesTypes
    BY DEF ReservesInit, ReservesTypes, Basis
  <2>2. TrackedFromBasis
    BY DEF ReservesInit, TrackedFromBasis, Basis, SelfReserve
  <2> QED
    BY <2>1, <2>2 DEF ReservesInit, ReservesInv, NoRewriteLoop, FloorIsKept
<1>2. ReservesInv /\ [ReservesNext]_reserveVars => ReservesInv'
  <2> SUFFICES ASSUME ReservesInv, [ReservesNext]_reserveVars PROVE ReservesInv'
    OBVIOUS
  <2>1. CASE Outside
    <3>1. UNCHANGED <<away_held, mode, export_reserve, self_reserve, hardware, basis, repeated>>
          /\ settled' = FALSE
      BY <2>1 DEF Outside, Unsettles, tracked
    <3>2. charge' \in 1..Full /\ plan_floor' \in PlanFloors
      BY <2>1, ReservesAssumption
         DEF Outside, Drains, Fills, SpikeFlips, Replans, HouseChanges, ReservesInv, ReservesTypes
    <3> QED
      BY <3>1, <3>2 DEF ReservesInv, ReservesTypes, TrackedFromBasis, NoRewriteLoop, FloorIsKept
  <2>2. CASE UNCHANGED reserveVars
    <3>1. UNCHANGED <<charge, plan_floor, away_held, mode, export_reserve, self_reserve,
                      hardware, basis, repeated, settled>>
      BY <2>2 DEF reserveVars
    <3> QED
      BY <3>1 DEF ReservesInv, ReservesTypes, TrackedFromBasis, NoRewriteLoop, FloorIsKept,
                  ExportFloor
  <2> QED
    BY <2>1, <2>2, EvaluationKeeps DEF ReservesNext
<1> QED
  BY <1>1, <1>2, PTL DEF ReservesSpec

(* No reserve is stepped twice from the same charge, floor and away state,   *)
(* whatever writes fail and whatever Tesla makes of a value.                 *)
THEOREM NoRewriteLoopCorrect == ReservesSpec => []NoRewriteLoop
<1>1. ReservesInv => NoRewriteLoop
  BY DEF ReservesInv
<1> QED
  BY ReservesInvariance, <1>1, PTL

(* After an evaluation that could read the charge and whose writes succeeded *)
(* the battery keeps at least its floor.                                     *)
THEOREM FloorIsKeptCorrect == ReservesSpec => []FloorIsKept
<1>1. ReservesInv => FloorIsKept
  BY DEF ReservesInv
<1> QED
  BY ReservesInvariance, <1>1, PTL

-----------------------------------------------------------------------------
(* Ages                                                                      *)

LEMMA MinOfTwo ==
  ASSUME NEW a \in Int, NEW b \in Int
  PROVE  Min({a, b}) = IF a <= b THEN a ELSE b
BY DEF Min

-----------------------------------------------------------------------------
(* The alert                                                                 *)

AttentionTypes ==
  /\ charging_switch \in {"on", "off", "gone"} /\ in_control \in BOOLEAN
  /\ unattended_timer \in {Unset} \cup 0..AlertMinutes
  /\ unattended_alerted \in BOOLEAN
  /\ on_age \in {Unset} \cup 0..(AlertMinutes + 1)
  /\ free_age \in {Unset} \cup 0..(AlertMinutes + 1)

\* an episode has its timer or its alert, and just one alert
EpisodeIsWatched ==
  /\ unattended_timer # Unset => on_age # Unset /\ ~unattended_alerted
  /\ on_age # Unset => unattended_timer # Unset \/ unattended_alerted
  /\ alerts = IF unattended_alerted THEN 1 ELSE 0

\* the timer was started when the switch went on, or since, while somebody was
\* in control
TimerIsOfTheEpisode ==
  /\ in_control <=> free_age = Unset
  /\ unattended_timer # Unset =>
       \/ on_age <= AlertMinutes - unattended_timer
       \/ free_age <= AlertMinutes - unattended_timer

AttentionInv == AttentionTypes /\ EpisodeIsWatched /\ TimerIsOfTheEpisode

LEMMA AgedType ==
  ASSUME NEW age \in {Unset} \cup 0..(AlertMinutes + 1)
  PROVE  Aged(age, AlertMinutes + 1) =
           IF age = Unset THEN Unset ELSE IF age <= AlertMinutes THEN age + 1 ELSE age
BY MinOfTwo, WatchesAssumption DEF Aged, Unset

LEMMA AttentionKept ==
  ASSUME AttentionInv, [WatchesNext]_watchVars
  PROVE  AttentionInv'
<1> USE DEF Unset
<1>0. AlertMinutes \in Nat \ {0}
  BY WatchesAssumption
<1>1. CASE UNCHANGED attentionVars
  BY <1>1 DEF attentionVars, AttentionInv, AttentionTypes, EpisodeIsWatched, TimerIsOfTheEpisode
<1>2. ASSUME NEW state \in {"on", "off", "gone"}, SwitchReports(state) PROVE AttentionInv'
  <2>1. UNCHANGED <<in_control, free_age>> /\ charging_switch' = state
    BY <1>2 DEF SwitchReports
  <2>2. CASE state = "gone"
    BY <1>2, <2>1, <2>2
       DEF SwitchReports, AttentionInv, AttentionTypes, EpisodeIsWatched, TimerIsOfTheEpisode
  <2>3. CASE state = "off"
    <3>1. /\ unattended_timer' = Unset /\ on_age' = Unset /\ alerts' = 0
          /\ unattended_alerted' = FALSE
      BY <1>2, <2>3 DEF SwitchReports, Track
    <3> QED
      BY <1>0, <2>1, <3>1 DEF AttentionInv, AttentionTypes, EpisodeIsWatched, TimerIsOfTheEpisode
  <2>4. CASE state = "on"
    <3>1. /\ unattended_timer' = IF unattended_timer = Unset /\ ~unattended_alerted
                                 THEN AlertMinutes ELSE unattended_timer
          /\ on_age' = IF on_age = Unset THEN 0 ELSE on_age
          /\ UNCHANGED alerts
      BY <1>2, <2>4 DEF SwitchReports, Track
    <3>2. unattended_alerted' = unattended_alerted
      BY <1>2, <2>4 DEF SwitchReports, Track, AttentionInv, AttentionTypes
    <3> QED
      BY <1>0, <2>1, <3>1, <3>2
         DEF AttentionInv, AttentionTypes, EpisodeIsWatched, TimerIsOfTheEpisode
  <2> QED
    BY <2>2, <2>3, <2>4
<1>3. CASE ControlChanges
  <2>1. in_control' \in BOOLEAN /\ (in_control' <=> ~in_control)
    BY <1>3 DEF ControlChanges
  <2>2. /\ free_age' = IF in_control THEN 0 ELSE Unset
        /\ UNCHANGED <<charging_switch, unattended_timer, unattended_alerted, on_age, alerts>>
    BY <1>3 DEF ControlChanges
  <2> QED
    BY <1>0, <2>1, <2>2 DEF AttentionInv, AttentionTypes, EpisodeIsWatched, TimerIsOfTheEpisode
<1>4. CASE TimerExpires
  <2>1. ~unattended_alerted /\ alerts = 0
    BY <1>4 DEF TimerExpires, AttentionInv, EpisodeIsWatched
  <2>2. Min({alerts + 1, 2}) = 1
    BY <2>1, MinOfTwo
  <2>3. CASE in_control
    BY <1>0, <1>4, <2>3
       DEF TimerExpires, AttentionInv, AttentionTypes, EpisodeIsWatched, TimerIsOfTheEpisode
  <2>4. CASE ~in_control
    <3>1. /\ unattended_timer' = Unset /\ unattended_alerted' = TRUE /\ alerts' = 1
          /\ UNCHANGED <<charging_switch, in_control, on_age, free_age>>
      BY <1>4, <2>2, <2>4 DEF TimerExpires
    <3> QED
      BY <1>0, <3>1 DEF AttentionInv, AttentionTypes, EpisodeIsWatched, TimerIsOfTheEpisode
  <2> QED
    BY <2>3, <2>4
<1>5. CASE ListenerRestarts
  <2>1. unattended_alerted' = FALSE /\ alerts' = 0 /\ UNCHANGED <<charging_switch, in_control, free_age>>
    BY <1>5 DEF ListenerRestarts
  <2>2. CASE charging_switch = "on"
    <3>1. unattended_timer' = AlertMinutes /\ on_age' = 0
      BY <1>5, <2>2 DEF ListenerRestarts
    <3>5. AlertMinutes \in 0..AlertMinutes /\ 0 \in 0..(AlertMinutes + 1)
      BY <1>0
    <3>6. unattended_alerted' \in BOOLEAN
      BY <2>1
    <3>2. AttentionTypes'
      BY <2>1, <3>1, <3>5, <3>6 DEF AttentionInv, AttentionTypes
    <3>3. EpisodeIsWatched'
      BY <1>0, <2>1, <3>1 DEF EpisodeIsWatched
    <3>4. TimerIsOfTheEpisode'
      BY <1>0, <2>1, <3>1 DEF AttentionInv, TimerIsOfTheEpisode
    <3> QED
      BY <3>2, <3>3, <3>4 DEF AttentionInv
  <2>3. CASE charging_switch # "on"
    <3>1. unattended_timer' = Unset /\ on_age' = Unset
      BY <1>5, <2>3 DEF ListenerRestarts
    <3> QED
      BY <1>0, <2>1, <3>1 DEF AttentionInv, AttentionTypes, EpisodeIsWatched, TimerIsOfTheEpisode
  <2> QED
    BY <2>2, <2>3
<1>6. CASE MinutePasses
  <2>1. /\ on_age' = IF on_age = Unset THEN Unset
                    ELSE IF on_age <= AlertMinutes THEN on_age + 1 ELSE on_age
        /\ free_age' = IF free_age = Unset THEN Unset
                      ELSE IF free_age <= AlertMinutes THEN free_age + 1 ELSE free_age
        /\ unattended_timer' = IF unattended_timer = Unset THEN Unset ELSE unattended_timer - 1
        /\ unattended_timer # 0
        /\ UNCHANGED <<charging_switch, in_control, unattended_alerted, alerts>>
    BY <1>0, <1>6, AgedType DEF MinutePasses, Left, AttentionInv, AttentionTypes
  <2> QED
    BY <1>0, <2>1 DEF AttentionInv, AttentionTypes, EpisodeIsWatched, TimerIsOfTheEpisode
<1> QED
  BY <1>1, <1>2, <1>3, <1>4, <1>5, <1>6 DEF WatchesNext, watchVars, EvaluateMode

(* A switch known to be on for longer than AlertMinutes, with nobody in      *)
(* control for as long, has raised its alert, and one only.                  *)
THEOREM UnattendedIsAlertedCorrect == WatchesSpec => []UnattendedIsAlerted
<1>1. WatchesInit => AttentionInv
  <2> SUFFICES ASSUME WatchesInit PROVE AttentionInv
    OBVIOUS
  <2>1. /\ charging_switch \in {"on", "off", "gone"}
        /\ in_control = FALSE /\ free_age = 0 /\ unattended_alerted = FALSE /\ alerts = 0
        /\ \/ unattended_timer = AlertMinutes /\ on_age = 0
           \/ unattended_timer = Unset /\ on_age = Unset
    BY DEF WatchesInit
  <2>2. AlertMinutes \in Nat \ {0}
    BY WatchesAssumption
  <2>3. /\ AlertMinutes \in 0..AlertMinutes /\ 0 \in 0..(AlertMinutes + 1)
        /\ AlertMinutes # Unset /\ 0 # Unset /\ AlertMinutes - AlertMinutes = 0
    BY <2>2 DEF Unset
  <2>4. in_control \in BOOLEAN /\ ~in_control /\ unattended_alerted \in BOOLEAN /\ ~unattended_alerted
    BY <2>1
  <2>5. AttentionTypes
    BY <2>1, <2>3, <2>4 DEF AttentionTypes
  <2>6. EpisodeIsWatched
    BY <2>1, <2>3, <2>4 DEF EpisodeIsWatched
  <2>7. TimerIsOfTheEpisode
    <3>1. unattended_timer # Unset => on_age <= AlertMinutes - unattended_timer
      BY <2>1, <2>2 DEF Unset
    <3> QED
      BY <2>1, <2>3, <2>4, <3>1 DEF TimerIsOfTheEpisode
  <2> QED
    BY <2>5, <2>6, <2>7 DEF AttentionInv
<1>2. AttentionInv => UnattendedIsAlerted
  BY WatchesAssumption
     DEF Unset, AttentionInv, AttentionTypes, EpisodeIsWatched, TimerIsOfTheEpisode,
         UnattendedIsAlerted
<1> QED
  BY <1>1, <1>2, AttentionKept, PTL DEF WatchesSpec

-----------------------------------------------------------------------------
(* The re-planning triggers                                                  *)

LoadTypes ==
  /\ sustained_age \in {None} \cup 0..(SustainedMinutes + 1)
  /\ load_age \in {None} \cup 0..Cooldown
  /\ unanswered \in Nat

Cooling == load_age # None /\ load_age < Cooldown

\* a deviation goes unanswered for the cooldown and for as long as the window
\* of the sustained one has run since
WindowKeepsUp ==
  /\ Cooling => sustained_age = None /\ unanswered <= load_age
  /\ ~Cooling /\ sustained_age = None => unanswered = 0
  /\ sustained_age # None => unanswered <= Cooldown + sustained_age

FactorType == factor \in {None} \cup 0..Forecast

TriggersInv == LoadTypes /\ WindowKeepsUp /\ FactorType /\ FactorIsOfTheEvent

LEMMA OlderIs ==
  ASSUME NEW cap \in Nat, NEW age \in {None} \cup 0..cap
  PROVE  Older(age, cap) = IF age = None THEN None ELSE IF age < cap THEN age + 1 ELSE age
BY MinOfTwo DEF Older, None

LEMMA LoadKept ==
  ASSUME LoadTypes, WindowKeepsUp, NEW active \in BOOLEAN,
         NEW deviation \in {"none", "sustained", "spike"}, EvaluateLoad(active, deviation)
  PROVE  LoadTypes' /\ WindowKeepsUp'
<1> DEFINE age == Older(load_age, Cooldown)
           sustained == Window(Older(sustained_age, SustainedMinutes + 1), "sustained", deviation)
           cools == age # None /\ age < Cooldown
           triggers == load_age' = 0
<1>0. Cooldown \in Nat \ {0} /\ SustainedMinutes \in Nat \ {0}
  BY TriggersAssumption
<1>1. /\ age = IF load_age = None THEN None
               ELSE IF load_age < Cooldown THEN load_age + 1 ELSE load_age
      /\ age # 0
  BY <1>0, OlderIs DEF LoadTypes, None
<1>2. sustained = IF deviation = "none" THEN None
                  ELSE IF sustained_age = None THEN 0
                  ELSE IF sustained_age <= SustainedMinutes THEN sustained_age + 1
                  ELSE sustained_age
  BY <1>0, OlderIs DEF LoadTypes, None, Window
<1>3. /\ active /\ ~cools /\ sustained > SustainedMinutes => triggers
      /\ triggers => active /\ ~cools
      /\ ~triggers => load_age' = age
      /\ sustained_age' = IF active /\ ~cools /\ ~triggers THEN sustained ELSE None
      /\ triggers \/ ~active \/ deviation = "none" => unanswered' = 0
      /\ active /\ ~triggers /\ deviation # "none" =>
           unanswered' = Min({unanswered + 1, Cooldown + SustainedMinutes + 3})
  BY <1>1 DEF EvaluateLoad, LoadBreach
<1>4. unanswered' \in Nat /\ unanswered' <= unanswered + 1
  <2>1. Min({unanswered + 1, Cooldown + SustainedMinutes + 3}) \in 0..(unanswered + 1)
    BY <1>0, MinOfTwo DEF LoadTypes
  <2> QED
    BY <1>3, <2>1 DEF LoadTypes
<1> HIDE DEF age, sustained
<1>5. LoadTypes'
  BY <1>0, <1>1, <1>2, <1>3, <1>4 DEF LoadTypes, None
<1>6. WindowKeepsUp'
  <2>1. CASE triggers \/ ~active \/ deviation = "none"
    BY <1>0, <1>1, <1>2, <1>3, <2>1 DEF WindowKeepsUp, LoadTypes, Cooling, None
  <2>2. CASE ~triggers /\ active /\ deviation # "none" /\ cools
    BY <1>0, <1>1, <1>3, <1>4, <2>2 DEF WindowKeepsUp, LoadTypes, Cooling, None
  <2>3. CASE ~triggers /\ active /\ deviation # "none" /\ ~cools
    BY <1>0, <1>1, <1>2, <1>3, <1>4, <2>3 DEF WindowKeepsUp, LoadTypes, Cooling, None
  <2> QED
    BY <2>1, <2>2, <2>3
<1> QED
  BY <1>5, <1>6

LEMMA TriggersKept ==
  ASSUME TriggersInv, [TriggersNext]_triggerVars
  PROVE  TriggersInv'
<1>0. /\ Cooldown \in Nat \ {0} /\ SustainedMinutes \in Nat \ {0}
      /\ Forecast \in Nat \ {0}
  BY TriggersAssumption
<1>1. CASE UNCHANGED triggerVars
  BY <1>1 DEF triggerVars, loadVars, cloudVars, TriggersInv, LoadTypes, WindowKeepsUp, Cooling,
              FactorType, FactorIsOfTheEvent
<1>2. ASSUME UNCHANGED <<in_event, factor>> PROVE FactorType' /\ FactorIsOfTheEvent'
  BY <1>2 DEF TriggersInv, FactorType, FactorIsOfTheEvent
<1>3. CASE MissedTick
  <2>1. /\ sustained_age' = Older(sustained_age, SustainedMinutes + 1)
        /\ load_age' = Older(load_age, Cooldown) /\ unanswered' = 0
        /\ UNCHANGED <<in_event, factor>>
    BY <1>3 DEF MissedTick
  <2>2. LoadTypes' /\ WindowKeepsUp'
    BY <1>0, <2>1, OlderIs DEF TriggersInv, LoadTypes, WindowKeepsUp, Cooling, None
  <2> QED
    BY <1>2, <2>1, <2>2 DEF TriggersInv
<1>4. ASSUME NEW active \in BOOLEAN, NEW deviation \in {"none", "sustained", "spike"},
             LoadTick(active, deviation)
      PROVE  TriggersInv'
  BY <1>2, <1>4, LoadKept DEF LoadTick, TriggersInv
<1>5. ASSUME NEW active \in BOOLEAN, NEW deviation \in {"none", "sustained", "spike"},
             NEW sunny \in BOOLEAN, NEW power \in 0..Forecast,
             CloudTick(active, deviation, sunny, power)
      PROVE  TriggersInv'
  <2>1. FactorType' /\ FactorIsOfTheEvent'
    <3>1. CASE NoCloudWatch \/ EventClears(power)
      BY <3>1 DEF NoCloudWatch, EventClears, FactorType, FactorIsOfTheEvent
    <3>2. CASE EventMayClear(power) \/ EventGoesOn(power)
      BY <1>2, <3>2 DEF EventMayClear, EventGoesOn
    <3>3. CASE WatchForClouds(power)
      <4>1. CASE 2 * power < Forecast /\ Onset(power)
        BY <1>0, <4>1 DEF Onset, FactorType, FactorIsOfTheEvent, None
      <4>2. CASE \E age : NoOnset(age)
        BY <1>2, <4>2 DEF NoOnset
      <4> QED
        BY <1>0, <3>3, <4>1, <4>2 DEF WatchForClouds
    <3> QED
      BY <1>5, <3>1, <3>2, <3>3 DEF CloudTick, EvaluateCloud
  <2> QED
    BY <1>5, <2>1, LoadKept DEF CloudTick, TriggersInv
<1> QED
  BY <1>1, <1>3, <1>4, <1>5 DEF TriggersNext

(* A load that goes on deviating is re-planned for, and no way out of a      *)
(* cloud event leaves its factor behind.                                     *)
THEOREM DetectorsHoldCorrect == TriggersSpec => []DetectorsHold
<1>1. TriggersInit => TriggersInv
  BY DEF TriggersInit, TriggersInv, LoadTypes, WindowKeepsUp, Cooling, FactorType,
         FactorIsOfTheEvent
<1>2. TriggersInv => DetectorsHold
  BY TriggersAssumption
     DEF TriggersInv, LoadTypes, WindowKeepsUp, DetectorsHold, DeviationIsAnswered, None
<1> QED
  BY <1>1, <1>2, TriggersKept, PTL DEF TriggersSpec

-----------------------------------------------------------------------------
(* The response watch                                                        *)

LagEntry == [id : Nat, mode : DrivenModes, lag : Int]

Ordered(list) == \A i, j \in DOMAIN list : i < j => list[i].id < list[j].id
Truthful(list, seen) ==
  \A i \in DOMAIN list : list[i].lag \notin {Pending, NoResponse} =>
    list[i].lag = seen[list[i].id]
Until(list, last) == \A i \in DOMAIN list : list[i].id \in 1..last
\* what is still watched for has no lag yet
Awaited(list, watch) ==
  watch # NoWatch => \A i \in DOMAIN list : list[i].id = watch.id => list[i].lag = Pending

\* an entry list and a watch, beside the responses to the decisions so far
LagsHold(list, watch, seen) ==
  /\ list \in Seq(LagEntry) /\ Ordered(list) /\ Truthful(list, seen)
  /\ Until(list, Len(seen)) /\ Awaited(list, watch)
  /\ watch # NoWatch => watch.id \in 1..Len(seen)

\* a decision that waits is later than any in the history
DecisionIsNext(d, list, last) ==
  d # NoDecision =>
    /\ d.id \in 1..last /\ d.mode \in DrivenModes
    /\ \A i \in DOMAIN list : list[i].id < d.id

ResponseInv ==
  /\ responses \in Seq(Int) /\ minute \in Nat /\ decided_mode \in DrivenModes
  /\ driven_mode \in DrivenModes
  /\ LagsHold(entries, response_watch, responses)
  /\ DecisionIsNext(decision, entries, Len(responses))

LEMMA BackfilledShape ==
  ASSUME NEW list \in Seq(LagEntry), NEW watch, NEW lag \in Int
  PROVE  /\ Backfilled(list, watch, lag) \in Seq(LagEntry)
         /\ DOMAIN Backfilled(list, watch, lag) = DOMAIN list
         /\ \A i \in DOMAIN list :
              /\ Backfilled(list, watch, lag)[i].id = list[i].id
              /\ \/ Backfilled(list, watch, lag)[i].lag = list[i].lag
                 \/ /\ Backfilled(list, watch, lag)[i].lag = lag
                    /\ list[i].id = watch.id
<1>1. CASE list = <<>> \/ Last(list).id # watch.id
  BY <1>1 DEF Backfilled
<1>2. CASE list # <<>> /\ Last(list).id = watch.id
  <2>1. Len(list) \in DOMAIN list /\ Last(list) = list[Len(list)]
    BY <1>2 DEF Last
  <2>2. Backfilled(list, watch, lag) = [list EXCEPT ![Len(list)].lag = lag]
    BY <1>2 DEF Backfilled
  <2>3. list[Len(list)] \in LagEntry
    BY <2>1
  <2>4. [list[Len(list)] EXCEPT !.lag = lag] \in LagEntry
    BY <2>3 DEF LagEntry
  <2>5. /\ Backfilled(list, watch, lag)
             = [list EXCEPT ![Len(list)] = [list[Len(list)] EXCEPT !.lag = lag]]
        /\ [list[Len(list)] EXCEPT !.lag = lag].id = list[Len(list)].id
        /\ [list[Len(list)] EXCEPT !.lag = lag].lag = lag
    BY <2>1, <2>2, <2>3 DEF LagEntry
  <2> QED
    BY <1>2, <2>1, <2>4, <2>5
<1> QED
  BY <1>1, <1>2

LEMMA ResponseComes ==
  ASSUME NEW list, NEW watch, NEW seen \in Seq(Int), LagsHold(list, watch, seen),
         NEW lag \in Int
  PROVE  /\ LagsHold(Backfilled(list, watch, NoResponse), NoWatch, seen)
         /\ watch # NoWatch =>
              LagsHold(Backfilled(list, watch, lag), NoWatch, [seen EXCEPT ![watch.id] = lag])
<1>1. list \in Seq(LagEntry) /\ Ordered(list) /\ Truthful(list, seen) /\ Until(list, Len(seen))
  BY DEF LagsHold
<1>2. LagsHold(Backfilled(list, watch, NoResponse), NoWatch, seen)
  <2> DEFINE back == Backfilled(list, watch, NoResponse)
  <2>1. /\ back \in Seq(LagEntry) /\ DOMAIN back = DOMAIN list
        /\ \A i \in DOMAIN list :
             /\ back[i].id = list[i].id
             /\ back[i].lag = list[i].lag \/ back[i].lag = NoResponse
    BY <1>1, BackfilledShape DEF NoResponse
  <2> HIDE DEF back
  <2>2. Ordered(back) /\ Until(back, Len(seen)) /\ Truthful(back, seen)
    BY <1>1, <2>1 DEF Ordered, Until, Truthful
  <2> QED
    BY <2>1, <2>2 DEF LagsHold, Awaited, back
<1>3. ASSUME watch # NoWatch
      PROVE  LagsHold(Backfilled(list, watch, lag), NoWatch, [seen EXCEPT ![watch.id] = lag])
  <2> DEFINE back == Backfilled(list, watch, lag)
             heard == [seen EXCEPT ![watch.id] = lag]
  <2>1. /\ back \in Seq(LagEntry) /\ DOMAIN back = DOMAIN list
        /\ \A i \in DOMAIN list :
             /\ back[i].id = list[i].id
             /\ \/ back[i].lag = list[i].lag
                \/ back[i].lag = lag /\ list[i].id = watch.id
    BY <1>1, BackfilledShape
  <2>2. watch.id \in 1..Len(seen) /\ Awaited(list, watch)
    BY <1>3 DEF LagsHold
  <2>3. /\ Len(heard) = Len(seen) /\ heard[watch.id] = lag
        /\ \A id \in 1..Len(seen) : id # watch.id => heard[id] = seen[id]
    BY <2>2
  <2> HIDE DEF back, heard
  <2>4. Ordered(back) /\ Until(back, Len(heard))
    BY <1>1, <2>1, <2>3 DEF Ordered, Until
  <2>5. Truthful(back, heard)
    <3> SUFFICES ASSUME NEW i \in DOMAIN list, back[i].lag \notin {Pending, NoResponse}
                 PROVE  back[i].lag = heard[back[i].id]
      BY <2>1 DEF Truthful
    <3>1. CASE list[i].id = watch.id
      <4>1. list[i].lag = Pending
        BY <1>3, <2>2, <3>1 DEF Awaited
      <4> QED
        BY <2>1, <2>3, <3>1, <4>1
    <3>2. CASE list[i].id # watch.id
      BY <1>1, <2>1, <2>3, <3>2 DEF Truthful, Until
    <3> QED
      BY <3>1, <3>2
  <2> QED
    BY <2>1, <2>4, <2>5 DEF LagsHold, Awaited, back, heard
<1> QED
  BY <1>2, <1>3

LEMMA CheckHolds ==
  ASSUME NEW list, NEW watch, NEW seen \in Seq(Int), LagsHold(list, watch, seen),
         Check(watch, list)
  PROVE  /\ LagsHold(entries', response_watch', seen)
         /\ DOMAIN entries' = DOMAIN list
         /\ \A i \in DOMAIN list : entries'[i].id = list[i].id
<1>1. \/ response_watch' = watch /\ entries' = list
      \/ response_watch' = NoWatch /\ entries' = Backfilled(list, watch, NoResponse)
  BY DEF Check
<1>2. list \in Seq(LagEntry) /\ NoResponse \in Int
  BY DEF LagsHold, NoResponse
<1>3. CASE response_watch' = watch /\ entries' = list
  BY <1>3
<1>4. CASE response_watch' = NoWatch /\ entries' = Backfilled(list, watch, NoResponse)
  <2>1. LagsHold(entries', response_watch', seen)
    BY <1>2, <1>4, ResponseComes
  <2> QED
    BY <1>2, <1>4, <2>1, BackfilledShape
<1> QED
  BY <1>1, <1>3, <1>4

LEMMA DecisionHolds ==
  ASSUME NEW list, NEW watch, NEW seen \in Seq(Int), LagsHold(list, watch, seen)
  PROVE  /\ LagsHold(list, watch, Append(seen, Pending))
         /\ LagsHold(list, NoWatch, seen)
         /\ Append(seen, Pending) \in Seq(Int) /\ Len(Append(seen, Pending)) = Len(seen) + 1
<1>1. /\ Append(seen, Pending) \in Seq(Int) /\ Len(Append(seen, Pending)) = Len(seen) + 1
      /\ \A i \in 1..Len(seen) : Append(seen, Pending)[i] = seen[i]
      /\ Len(seen) \in Nat
  BY DEF Pending
<1>2. Truthful(list, Append(seen, Pending)) /\ Until(list, Len(seen) + 1)
  BY <1>1 DEF LagsHold, Truthful, Until
<1> QED
  BY <1>1, <1>2 DEF LagsHold, Awaited

\* the entry of a decision that is carried out, with a watch of its own or without
LEMMA EntryHolds ==
  ASSUME NEW list, NEW watch, NEW seen \in Seq(Int), LagsHold(list, watch, seen),
         NEW d, d # NoDecision, DecisionIsNext(d, list, Len(seen)), NEW own, own \in {watch, Watching(d)}
  PROVE  LagsHold(KeptEntries(Append(list, Entry(d))), own, seen)
<1> DEFINE all == Append(list, Entry(d))
<1>1. /\ list \in Seq(LagEntry) /\ Ordered(list) /\ Truthful(list, seen)
      /\ Until(list, Len(seen)) /\ Awaited(list, watch)
      /\ watch # NoWatch => watch.id \in 1..Len(seen)
  BY DEF LagsHold
<1>2. /\ d.id \in 1..Len(seen) /\ d.mode \in DrivenModes
      /\ \A i \in DOMAIN list : list[i].id < d.id
      /\ Len(seen) \in Nat
  BY DEF DecisionIsNext
<1>3. Entry(d) \in LagEntry /\ Entry(d).id = d.id /\ Entry(d).lag = Pending
  BY <1>2 DEF Entry, LagEntry, Pending
<1>4. /\ all \in Seq(LagEntry) /\ Len(all) = Len(list) + 1 /\ Len(list) \in Nat
      /\ DOMAIN all = 1..(Len(list) + 1) /\ DOMAIN list = 1..Len(list)
      /\ all[Len(list) + 1] = Entry(d) /\ \A i \in 1..Len(list) : all[i] = list[i]
  BY <1>1, <1>3
<1> HIDE DEF all
<1>5. \A i \in DOMAIN list : list[i].id \in Nat
  <2>1. \A i \in DOMAIN list : list[i] \in LagEntry
    BY <1>1, <1>4
  <2> QED
    BY <2>1 DEF LagEntry
<1>6. Ordered(all)
  <2> SUFFICES ASSUME NEW i \in 1..(Len(list) + 1), NEW j \in 1..(Len(list) + 1), i < j
               PROVE  all[i].id < all[j].id
    BY <1>4 DEF Ordered
  <2>1. i \in 1..Len(list) /\ all[i] = list[i]
    BY <1>4
  <2>2. CASE j \in 1..Len(list)
    BY <1>1, <1>4, <2>1, <2>2 DEF Ordered
  <2>3. CASE j = Len(list) + 1
    BY <1>2, <1>3, <1>4, <2>1, <2>3
  <2> QED
    BY <1>4, <2>2, <2>3
<1>7. Truthful(all, seen) /\ Until(all, Len(seen))
  <2>1. \A i \in DOMAIN all : (i \in DOMAIN list /\ all[i] = list[i]) \/ all[i] = Entry(d)
    BY <1>4
  <2>2. Truthful(all, seen)
    BY <1>1, <1>3, <2>1 DEF Truthful
  <2>3. Until(all, Len(seen))
    BY <1>1, <1>2, <1>3, <2>1 DEF Until
  <2> QED
    BY <2>2, <2>3
<1>8. own # NoWatch => own.id \in 1..Len(seen)
  BY <1>1, <1>2 DEF Watching
<1>9. Awaited(all, own)
  <2>1. CASE own = watch
    BY <1>1, <1>3, <1>4, <2>1 DEF Awaited
  <2>2. CASE own = Watching(d)
    <3>1. own.id = d.id
      BY <2>2 DEF Watching
    <3> QED
      BY <1>2, <1>3, <1>4, <1>5, <3>1 DEF Awaited
  <2> QED
    BY <2>1, <2>2
<1>10. LagsHold(all, own, seen)
  BY <1>4, <1>6, <1>7, <1>8, <1>9 DEF LagsHold
<1>11. /\ Tail(all) \in Seq(LagEntry) /\ DOMAIN Tail(all) = 1..Len(list)
       /\ \A i \in 1..Len(list) : Tail(all)[i] = all[i + 1] /\ i + 1 \in DOMAIN all
  BY <1>4
<1>12. LagsHold(Tail(all), own, seen)
  <2>1. Ordered(Tail(all))
    BY <1>4, <1>6, <1>11 DEF Ordered
  <2>2. Truthful(Tail(all), seen) /\ Until(Tail(all), Len(seen)) /\ Awaited(Tail(all), own)
    BY <1>7, <1>9, <1>11 DEF Truthful, Until, Awaited
  <2> QED
    BY <1>8, <1>11, <2>1, <2>2 DEF LagsHold
<1> QED
  BY <1>10, <1>12 DEF KeptEntries, all

LEMMA EvaluationHolds ==
  ASSUME ResponseInv, NEW chosen \in DrivenModes, NEW target \in Targets(chosen),
         NEW succeeds \in BOOLEAN, NEW full \in BOOLEAN,
         EvaluateDecision(chosen, target, succeeds, full)
  PROVE  ResponseInv'
<1> DEFINE d == CommitDecision(chosen)
           own == target # "none" /\ d.mode = target
<1>1. /\ responses \in Seq(Int) /\ Len(responses) \in Nat /\ minute \in Nat
      /\ LagsHold(entries, response_watch, responses)
      /\ DecisionIsNext(decision, entries, Len(responses))
  BY DEF ResponseInv
<1>2. PICK seen \in Seq(Int) :
        /\ responses' = seen /\ LagsHold(entries, response_watch, seen)
        /\ DecisionIsNext(d, entries, Len(seen))
  <2>1. responses' = IF d = decision THEN responses ELSE Append(responses, Pending)
    BY DEF EvaluateDecision
  <2>2. CASE chosen = decided_mode
    <3>1. d = decision
      BY <2>2 DEF CommitDecision
    <3> QED
      BY <1>1, <2>1, <3>1
  <2>3. CASE chosen # decided_mode
    <3>1. d = [id |-> Len(responses) + 1, at |-> minute, mode |-> chosen]
      BY <2>3 DEF CommitDecision
    <3>2. d.id = Len(responses) + 1 /\ d.mode = chosen
      BY <3>1
    <3>3. decision.id # Len(responses) + 1
      BY <1>1 DEF DecisionIsNext, NoDecision
    <3>4. responses' = Append(responses, Pending)
      BY <2>1, <3>2, <3>3
    <3>5. /\ LagsHold(entries, response_watch, Append(responses, Pending))
          /\ Append(responses, Pending) \in Seq(Int)
          /\ Len(Append(responses, Pending)) = Len(responses) + 1
      BY <1>1, DecisionHolds
    <3>6. \A i \in DOMAIN entries : entries[i].id \in 1..Len(responses)
      BY <1>1 DEF LagsHold, Until
    <3>7. DecisionIsNext(d, entries, Len(responses) + 1)
      BY <1>1, <3>2, <3>6 DEF DecisionIsNext
    <3> QED
      BY <3>4, <3>5, <3>7
  <2> QED
    BY <2>2, <2>3
<1>3. /\ minute' \in Nat /\ decided_mode' \in DrivenModes /\ driven_mode' \in DrivenModes
  BY DEF EvaluateDecision, ResponseInv, Targets, DrivenModes
<1>4. CASE own /\ succeeds
  <2>1. d # NoDecision
    BY <1>4 DEF NoDecision
  <2>2. /\ decision' = NoDecision
        /\ Check(IF Started(d, full) THEN Watching(d) ELSE response_watch,
                 KeptEntries(Append(entries, Entry(d))))
    BY <1>4 DEF EvaluateDecision
  <2>3. PICK watch : /\ watch \in {response_watch, Watching(d)}
                     /\ Check(watch, KeptEntries(Append(entries, Entry(d))))
    BY <2>2
  <2> HIDE DEF d
  <2>4. LagsHold(KeptEntries(Append(entries, Entry(d))), watch, seen)
    BY <1>2, <2>1, <2>3, EntryHolds
  <2>5. LagsHold(entries', response_watch', seen)
    BY <2>3, <2>4, CheckHolds
  <2> QED
    BY <1>2, <1>3, <2>2, <2>5 DEF ResponseInv, DecisionIsNext
<1>5. CASE own /\ ~succeeds
  <2>1. decision' = NoDecision /\ Check(NoWatch, entries)
    BY <1>5 DEF EvaluateDecision
  <2>2. LagsHold(entries, NoWatch, seen)
    BY <1>2, DecisionHolds
  <2>3. LagsHold(entries', response_watch', seen)
    BY <2>1, <2>2, CheckHolds
  <2> QED
    BY <1>2, <1>3, <2>1, <2>3 DEF ResponseInv, DecisionIsNext
<1>6. CASE ~own
  <2>1. decision' = d /\ Check(response_watch, entries)
    BY <1>6 DEF EvaluateDecision
  <2>2. /\ LagsHold(entries', response_watch', seen) /\ DOMAIN entries' = DOMAIN entries
        /\ \A i \in DOMAIN entries : entries'[i].id = entries[i].id
    BY <1>2, <2>1, CheckHolds
  <2> HIDE DEF d
  <2>3. DecisionIsNext(d, entries', Len(seen))
    BY <1>2, <2>2 DEF DecisionIsNext
  <2> QED
    BY <1>2, <1>3, <2>1, <2>2, <2>3 DEF ResponseInv
<1> QED
  BY <1>4, <1>5, <1>6

(* A lag in the history was seen by the watch of its own decision, for any    *)
(* timeout, any length of the history and any number of decisions.            *)
THEOREM LagIsOfItsDecisionCorrect == ResponseSpec => []LagIsOfItsDecision
<1>1. ResponseInit => ResponseInv
  BY DEF ResponseInit, ResponseInv, DrivenModes, LagsHold, Ordered, Truthful, Until, Awaited,
         DecisionIsNext
<1>2. ResponseInv /\ [ResponseNext]_responseVars => ResponseInv'
  <2> SUFFICES ASSUME ResponseInv, [ResponseNext]_responseVars PROVE ResponseInv'
    OBVIOUS
  <2>1. CASE UNCHANGED responseVars
    BY <2>1 DEF responseVars, ResponseInv
  <2>2. ASSUME NEW chosen \in DrivenModes, NEW target \in Targets(chosen),
               NEW succeeds \in BOOLEAN, NEW full \in BOOLEAN,
               EvaluateDecision(chosen, target, succeeds, full)
        PROVE  ResponseInv'
    BY <2>2, EvaluationHolds
  <2>3. CASE MinuteTick
    BY <2>3 DEF MinuteTick, ResponseInv
  <2>4. CASE FastTickChecks
    <3>1. /\ Check(response_watch, entries)
          /\ UNCHANGED <<minute, decided_mode, driven_mode, decision, responses>>
      BY <2>4 DEF FastTickChecks
    <3>2. /\ LagsHold(entries', response_watch', responses) /\ DOMAIN entries' = DOMAIN entries
          /\ \A i \in DOMAIN entries : entries'[i].id = entries[i].id
      BY <3>1, CheckHolds DEF ResponseInv
    <3> QED
      BY <3>1, <3>2 DEF ResponseInv, DecisionIsNext
  <2>5. ASSUME NEW direction \in {"charging", "discharging"}, PowerShows(direction)
        PROVE  ResponseInv'
    <3>1. /\ response_watch # NoWatch /\ response_watch' = NoWatch
          /\ UNCHANGED <<minute, decided_mode, driven_mode, decision>>
          /\ \/ /\ entries' = Backfilled(entries, response_watch, minute)
                /\ responses' = [responses EXCEPT ![response_watch.id] = minute]
             \/ /\ entries' = Backfilled(entries, response_watch, NoResponse)
                /\ responses' = responses
      BY <2>5 DEF PowerShows
    <3>2. /\ minute \in Int /\ NoResponse \in Int /\ responses \in Seq(Int)
          /\ LagsHold(entries, response_watch, responses)
          /\ entries \in Seq(LagEntry)
      BY DEF ResponseInv, LagsHold, NoResponse
    <3>3. responses' \in Seq(Int) /\ Len(responses') = Len(responses)
      <4>1. CASE responses' = responses
        BY <3>2, <4>1
      <4>2. CASE responses' = [responses EXCEPT ![response_watch.id] = minute]
        <5>1. responses \in [1 .. Len(responses) -> Int] /\ Len(responses) \in Nat
          BY <3>2
        <5>2. responses' \in [1 .. Len(responses) -> Int]
          BY <3>2, <4>2, <5>1
        <5> QED
          BY <5>1, <5>2
      <4> QED
        BY <3>1, <4>1, <4>2
    <3>4. LagsHold(entries', NoWatch, responses')
      <4>1. /\ LagsHold(Backfilled(entries, response_watch, NoResponse), NoWatch, responses)
            /\ LagsHold(Backfilled(entries, response_watch, minute), NoWatch,
                        [responses EXCEPT ![response_watch.id] = minute])
        BY <3>1, <3>2, ResponseComes
      <4> QED
        BY <3>1, <4>1
    <3>5. /\ DOMAIN entries' = DOMAIN entries
          /\ \A i \in DOMAIN entries : entries'[i].id = entries[i].id
      BY <3>1, <3>2, BackfilledShape
    <3> QED
      BY <3>1, <3>3, <3>4, <3>5 DEF ResponseInv, DecisionIsNext
  <2> QED
    BY <2>1, <2>2, <2>3, <2>4, <2>5 DEF ResponseNext
<1>3. ResponseInv => LagIsOfItsDecision
  BY DEF ResponseInv, LagsHold, Ordered, Truthful, LagIsOfItsDecision
<1> QED
  BY <1>1, <1>2, <1>3, PTL DEF ResponseSpec

-----------------------------------------------------------------------------
(* The readiness of the inputs                                               *)

Failing == {"gone", "invalid", "late", "unknown"}
HealthRecord == [status : Failing \cup {"ok"}, failures : Nat, broken : BOOLEAN]

Counted(seen) == {i \in DOMAIN seen : seen[i] # "late"}

\* the health of an entity is what its checks have read since it was well
IsOf(h, seen) ==
  /\ h \in HealthRecord /\ seen \in Seq(Failing)
  /\ h.failures = Cardinality(Counted(seen))
  /\ h.broken <=> h.failures >= FailureThreshold
  /\ h.status = IF seen = <<>> THEN "ok" ELSE seen[Len(seen)]

HealthIsOfChecks == \A e \in checked : IsOf(health[e], checks_seen[e])

ReadinessInv ==
  /\ DOMAIN health = checked /\ DOMAIN checks_seen = checked
  /\ HealthIsOfChecks /\ ActsOnReadings

LEMMA NewIsOfNothing == IsOf(NewHealth, <<>>)
<1>1. Counted(<<>>) = {}
  BY DEF Counted
<1>2. Cardinality(Counted(<<>>)) = 0
  BY <1>1, FS_EmptySet
<1> QED
  BY <1>2, ReadinessAssumption DEF IsOf, NewHealth, HealthRecord, Failing

LEMMA CountedGrows ==
  ASSUME NEW seen \in Seq(Failing), NEW status \in Failing
  PROVE  /\ Cardinality(Counted(seen)) \in Nat
         /\ Cardinality(Counted(Append(seen, status))) =
              Cardinality(Counted(seen)) + IF status = "late" THEN 0 ELSE 1
<1> DEFINE n == Len(seen)
           all == Append(seen, status)
<1>1. /\ n \in Nat /\ DOMAIN seen = 1..n /\ DOMAIN all = 1..(n + 1)
      /\ all[n + 1] = status /\ \A i \in 1..n : all[i] = seen[i]
  OBVIOUS
<1> HIDE DEF n, all
<1>2. IsFiniteSet(1..n)
  BY <1>1, FS_Interval
<1>3. IsFiniteSet(Counted(seen))
  BY <1>1, <1>2, FS_Subset DEF Counted
<1>4. Cardinality(Counted(seen)) \in Nat
  BY <1>3, FS_CardinalityType
<1>5. CASE status = "late"
  <2>1. Counted(all) = Counted(seen)
    BY <1>1, <1>5 DEF Counted
  <2> QED
    BY <1>4, <1>5, <2>1 DEF all
<1>6. CASE status # "late"
  <2>1. Counted(all) = Counted(seen) \cup {n + 1} /\ n + 1 \notin Counted(seen)
    BY <1>1, <1>6 DEF Counted
  <2>2. Cardinality(Counted(all)) = Cardinality(Counted(seen)) + 1
    BY <1>3, <2>1, FS_AddElement
  <2> QED
    BY <1>4, <1>6, <2>2 DEF all
<1> QED
  BY <1>5, <1>6

\* the verdict on an entity after a check
LEMMA CheckedIsOf ==
  ASSUME NEW h, NEW seen, IsOf(h, seen),
         NEW shown \in Shown \cup {"unmapped", "warming"}
  PROVE  IsOf(Checked(h, shown), IF shown \in Well THEN <<>> ELSE Append(seen, StatusOf(shown)))
<1>1. CASE shown \in Well
  <2>1. Checked(h, shown) = NewHealth
    BY <1>1 DEF Checked, Well
  <2> QED
    BY <1>1, <2>1, NewIsOfNothing
<1>2. CASE shown \notin Well
  <2> DEFINE status == StatusOf(shown)
             all == Append(seen, status)
             next == Checked(h, shown)
  <2>1. /\ status \in Failing /\ (status = "late" <=> shown = "late")
    BY <1>2 DEF StatusOf, Failing, Shown, Well
  <2>2. h \in HealthRecord /\ seen \in Seq(Failing)
    BY DEF IsOf
  <2>3. /\ all \in Seq(Failing) /\ all # <<>> /\ all[Len(all)] = status
    BY <2>1, <2>2
  <2>4. /\ Cardinality(Counted(seen)) \in Nat
        /\ Cardinality(Counted(all)) =
             Cardinality(Counted(seen)) + IF status = "late" THEN 0 ELSE 1
    BY <2>1, <2>2, CountedGrows
  <2>5. /\ next \in HealthRecord /\ next.status = status
        /\ next.failures = h.failures + IF status = "late" THEN 0 ELSE 1
        /\ next.broken <=> next.failures >= FailureThreshold
    <3>1. FailureThreshold \in Nat
      BY ReadinessAssumption
    <3>2. CASE shown = "late"
      <4>1. next = [h EXCEPT !.status = "late"]
        BY <1>2, <3>2 DEF Checked
      <4>2. /\ next \in HealthRecord /\ next.status = "late" /\ next.failures = h.failures
            /\ next.broken = h.broken
        BY <2>2, <4>1 DEF HealthRecord, Failing
      <4> QED
        BY <2>1, <2>2, <3>2, <4>2 DEF IsOf, HealthRecord
    <3>3. CASE shown # "late"
      <4>1. next = Failed(h, shown)
        BY <1>2, <3>3 DEF Checked
      <4>2. PICK broken \in BOOLEAN :
              /\ broken <=> (h.broken \/ h.failures + 1 >= FailureThreshold)
              /\ next = [status |-> status, failures |-> h.failures + 1, broken |-> broken]
        BY <4>1 DEF Failed
      <4>3. /\ next.status = status /\ next.failures = h.failures + 1 /\ next.broken = broken
        BY <4>2
      <4>4. h.failures \in Nat /\ (h.broken <=> h.failures >= FailureThreshold)
        BY <2>2 DEF IsOf, HealthRecord
      <4>5. next \in HealthRecord
        BY <2>1, <4>2, <4>4 DEF HealthRecord
      <4> QED
        BY <2>1, <3>1, <3>3, <4>2, <4>3, <4>4, <4>5
    <3> QED
      BY <3>2, <3>3
  <2>6. h.failures = Cardinality(Counted(seen))
    BY DEF IsOf
  <2> HIDE DEF all, next, status
  <2>7. IsOf(next, all)
    BY <2>3, <2>4, <2>5, <2>6 DEF IsOf
  <2> QED
    BY <1>2, <2>7 DEF all, next, status
<1> QED
  BY <1>1, <1>2

\* what blocks is what is unfit
LEMMA AllowedIsFit ==
  ASSUME HealthIsOfChecks
  PROVE  Allowed <=> Unfit = {}
<1>1. ASSUME NEW e \in checked PROVE Blocks(health[e]) <=> Gone(e) \/ FailsOn(e)
  <2>1. IsOf(health[e], checks_seen[e])
    BY DEF HealthIsOfChecks
  <2>2. health[e].status = "gone" <=> Gone(e)
    BY <2>1 DEF IsOf, Gone
  <2>3. health[e].broken <=> FailsOn(e)
    BY <2>1 DEF IsOf, FailsOn, Counted
  <2> QED
    BY <2>2, <2>3 DEF Blocks
<1> QED
  BY <1>1 DEF Allowed, Unfit

\* what is unfit shows
LEMMA UnfitShows ==
  ASSUME HealthIsOfChecks, Unfit # {}
  PROVE  IntegrationStatus # "ok" \/ \E e \in Unfit : checks_seen[e][Len(checks_seen[e])] = "unknown"
<1>1. PICK e \in Unfit : TRUE
  OBVIOUS
<1>2. e \in checked \cap Required /\ (Gone(e) \/ FailsOn(e))
  BY <1>1 DEF Unfit
<1>3. IsOf(health[e], checks_seen[e])
  BY <1>2 DEF HealthIsOfChecks
<1>4. checks_seen[e] # <<>>
  <2>1. CASE Gone(e)
    BY <2>1 DEF Gone
  <2>2. CASE FailsOn(e)
    <3>1. Cardinality(Counted(checks_seen[e])) >= FailureThreshold
      BY <2>2 DEF FailsOn, Counted
    <3>2. ASSUME checks_seen[e] = <<>> PROVE Cardinality(Counted(checks_seen[e])) = 0
      <4>1. Counted(checks_seen[e]) = {}
        BY <3>2 DEF Counted
      <4> QED
        BY <4>1, FS_EmptySet
    <3>3. FailureThreshold \in Nat \ {0}
      BY ReadinessAssumption
    <3> QED
      BY <3>1, <3>2, <3>3
  <2> QED
    BY <1>2, <2>1, <2>2
<1>5. /\ health[e].status = checks_seen[e][Len(checks_seen[e])]
      /\ health[e].status \in Failing
  <2>1. checks_seen[e] \in Seq(Failing)
    BY <1>3 DEF IsOf
  <2> QED
    BY <1>3, <1>4, <2>1 DEF IsOf
<1>6. CASE health[e].status \in {"gone", "invalid"}
  BY <1>2, <1>6 DEF IntegrationStatus, Errors
<1>7. CASE health[e].status = "late"
  BY <1>2, <1>7 DEF IntegrationStatus, Warnings
<1>8. CASE health[e].status = "unknown"
  BY <1>1, <1>5, <1>8
<1> QED
  BY <1>5, <1>6, <1>7, <1>8 DEF Failing

(* A mode is commanded on inputs that were read, while no required entity is  *)
(* unfit, and a block shows: for any entities and any threshold.              *)
THEOREM ActsOnReadingsCorrect == ReadinessSpec => []ActsOnReadings
<1>1. ReadinessInit => ReadinessInv
  <2> SUFFICES ASSUME ReadinessInit PROVE ReadinessInv
    OBVIOUS
  <2>1. /\ health = [e \in checked |-> NewHealth] /\ checks_seen = [e \in checked |-> <<>>]
        /\ attempt.why = "none"
    BY DEF ReadinessInit, NoAttempt
  <2> QED
    BY <2>1, NewIsOfNothing DEF ReadinessInv, HealthIsOfChecks, ActsOnReadings
<1>2. ReadinessInv /\ [ReadinessNext]_readinessVars => ReadinessInv'
  <2> SUFFICES ASSUME ReadinessInv, [ReadinessNext]_readinessVars PROVE ReadinessInv'
    OBVIOUS
  <2>1. ASSUME UNCHANGED <<checked, health, checks_seen>>
        PROVE  /\ (DOMAIN health = checked)' /\ (DOMAIN checks_seen = checked)'
               /\ HealthIsOfChecks' /\ Unfit' = Unfit /\ IntegrationStatus' = IntegrationStatus
    BY <2>1 DEF ReadinessInv, HealthIsOfChecks, Unfit, Gone, FailsOn, IntegrationStatus, Errors,
                Warnings
  <2>2. CASE UNCHANGED readinessVars
    BY <2>1, <2>2 DEF readinessVars, ReadinessInv, ActsOnReadings
  <2>3. ASSUME NEW shows \in [checked \cap Needed -> Shown], FallBack(shows) PROVE ReadinessInv'
    <3>1. /\ UNCHANGED <<checked, health, checks_seen>> /\ Allowed /\ attempt'.why = "fallback"
      BY <2>3 DEF FallBack, Attempt
    <3>2. Unfit = {}
      BY <3>1, AllowedIsFit DEF ReadinessInv
    <3> QED
      BY <2>1, <3>1, <3>2 DEF ReadinessInv, ActsOnReadings
  <2>4. ASSUME NEW shows \in [checked \cap Needed -> Shown], NEW desired \in CommandModes,
               Decide(shows, desired)
        PROVE  ReadinessInv'
    <3>1. /\ UNCHANGED <<checked, health, checks_seen>> /\ GateMissing(shows) = {}
          /\ attempt' = Attempt(IF Allowed THEN "decision" ELSE "blocked", shows)
      BY <2>4 DEF Decide
    <3>2. attempt'.unread = {}
      BY <3>1 DEF Attempt, GateMissing, HasValue
    <3>3. CASE Allowed
      <4>1. attempt'.why = "decision" /\ Unfit = {}
        BY <3>1, <3>3, AllowedIsFit DEF ReadinessInv, Attempt
      <4> QED
        BY <2>1, <3>1, <3>2, <4>1 DEF ReadinessInv, ActsOnReadings
    <3>4. CASE ~Allowed
      <4>1. attempt'.why = "blocked" /\ Unfit # {}
        BY <3>1, <3>4, AllowedIsFit DEF ReadinessInv, Attempt
      <4>2. \/ IntegrationStatus # "ok"
            \/ \E e \in Unfit : checks_seen[e][Len(checks_seen[e])] = "unknown"
        BY <4>1, UnfitShows DEF ReadinessInv
      <4> QED
        BY <2>1, <3>1, <3>2, <4>1, <4>2 DEF ReadinessInv, ActsOnReadings
    <3> QED
      BY <3>3, <3>4
  <2>5. ASSUME NEW shows \in Showing, CheckEntities(shows) PROVE ReadinessInv'
    <3>1. /\ health' = [e \in checked |-> Checked(health[e], shows[e])]
          /\ checks_seen' = [e \in checked |-> IF shows[e] \in Well THEN <<>>
                               ELSE Append(checks_seen[e], StatusOf(shows[e]))]
          /\ attempt'.why = "none" /\ checked' = checked
      BY <2>5 DEF CheckEntities, NoAttempt
    <3>2. \A e \in checked : shows[e] \in Shown \cup {"unmapped", "warming"}
      BY DEF Showing, ShownOf, Shown
    <3>3. ASSUME NEW e \in checked PROVE IsOf(health'[e], checks_seen'[e])
      <4>1. IsOf(health[e], checks_seen[e])
        BY DEF ReadinessInv, HealthIsOfChecks
      <4> QED
        BY <3>1, <3>2, <4>1, CheckedIsOf
    <3> QED
      BY <3>1, <3>3 DEF ReadinessInv, HealthIsOfChecks, ActsOnReadings
  <2>6. CASE OptionsChange
    <3>1. /\ health' = [e \in checked |-> IF e \in Optional THEN NewHealth ELSE health[e]]
          /\ checks_seen' = [e \in checked |-> IF e \in Optional THEN <<>> ELSE checks_seen[e]]
          /\ attempt'.why = "none" /\ checked' = checked
      BY <2>6 DEF OptionsChange, NoAttempt
    <3>2. ASSUME NEW e \in checked PROVE IsOf(health'[e], checks_seen'[e])
      BY <3>1, NewIsOfNothing DEF ReadinessInv, HealthIsOfChecks
    <3> QED
      BY <3>1, <3>2 DEF ReadinessInv, HealthIsOfChecks, ActsOnReadings
  <2> QED
    BY <2>2, <2>3, <2>4, <2>5, <2>6 DEF ReadinessNext
<1>3. ReadinessInv => ActsOnReadings
  BY DEF ReadinessInv
<1> QED
  BY <1>1, <1>2, <1>3, PTL DEF ReadinessSpec
=============================================================================
