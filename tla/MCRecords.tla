------------------------------ MODULE MCRecords ------------------------------
(* The records, timers and tests beside the decisions.  They share no state,  *)
(* so a behaviour follows one of them and leaves the others as they are.       *)
EXTENDS DecisionOutcomes, SolarPeriods, Reserves, ReplanTriggers, Bookings,
        ChargeWatches, LoadHistory, InputReadiness, ResponseWatch, LoadPlacement,
        PriceThreshold

CONSTANTS
  Parts,               \* the machines looked at
  Horizon,             \* bound of the clock where decisions are followed
  MaxSaves             \* bound of the saves under way at a time

ASSUME MCAssumption == {Horizon, MaxSaves} \subseteq Nat

VARIABLE followed

MCConfigurations == {{"soc", "reserve"}, {"soc", "weather"}, {"soc", "accuracy"}}
MCSlots == <<[at |-> 0, len |-> 1], [at |-> 6, len |-> 6], [at |-> 12, len |-> 6]>>
MCRequests == {[earliest |-> e, finish |-> f, duration |-> d] :
                 e \in {1, 3}, f \in {8, 12, 21}, d \in {2, 5, 11}}

MCFeeds ==
  {[t \in {0, 2, 4, 6, 8, 10, 12} |->
      IF t \in {2, 8} THEN 2 ELSE IF t \in {4, 6} THEN 5 ELSE 9]}

MCAlike == Permutations(Loads)

recordsVars == <<followed, vars, solarVars, reserveVars, triggerVars, bookingVars,
                 watchVars, historyVars, readinessVars, responseVars, placementVars,
                 thresholdVars>>

Follows(part) == followed = part /\ UNCHANGED followed

\* What is not followed has one initial state.
One(part, start) == followed # part => start

RecordsInit ==
  /\ followed \in Parts
  /\ Init /\ SolarInit /\ TriggersInit /\ BookingsInit /\ ResponseInit
  /\ ReservesInit
  /\ One("reserves", charge = 1 /\ plan_floor = 0 /\ away_entity = "off")
  /\ WatchesInit /\ One("watches", charging_switch = "off")
  /\ HistoryInit /\ One("history", ~away_option)
  /\ ReadinessInit /\ One("readiness", checked = {"soc", "reserve"})
  /\ IF followed = "placement" THEN PlacementInit
     ELSE /\ request = CHOOSE r \in Requests : TRUE
          /\ usable = FALSE /\ spare = {} /\ verdicts = <<>> /\ placed = Unplaced
  /\ ThresholdInit /\ One("threshold", hour = 0)

Idle ==
  /\ followed \notin {"day", "outcomes"} => UNCHANGED dayVars
  /\ followed # "outcomes"  => UNCHANGED outcomeVars
  /\ followed # "solar"     => UNCHANGED solarVars
  /\ followed # "reserves"  => UNCHANGED reserveVars
  /\ followed # "triggers"  => UNCHANGED triggerVars
  /\ followed # "bookings"  => UNCHANGED bookingVars
  /\ followed # "watches"   => UNCHANGED watchVars
  /\ followed # "history"   => UNCHANGED historyVars
  /\ followed # "readiness" => UNCHANGED readinessVars
  /\ followed # "response"  => UNCHANGED responseVars
  /\ followed # "placement" => UNCHANGED placementVars
  /\ followed # "threshold" => UNCHANGED thresholdVars

RecordsNext ==
  \/ Follows("day") /\ DayNext /\ Idle
  \/ Follows("outcomes") /\ Next /\ now' <= Horizon /\ Idle
  \/ Follows("solar") /\ SolarNext /\ Idle
  \/ Follows("reserves") /\ ReservesNext /\ Idle
  \/ Follows("triggers") /\ TriggersNext /\ Idle
  \/ Follows("bookings") /\ BookingsNext /\ Cardinality(saves') <= MaxSaves /\ Idle
  \/ Follows("watches") /\ WatchesNext /\ Idle
  \/ Follows("history") /\ HistoryNext /\ Idle
  \/ Follows("readiness") /\ ReadinessNext /\ Idle
  \/ Follows("response") /\ ResponseNext /\ Idle
  \/ Follows("placement") /\ Place /\ Idle
  \/ Follows("threshold") /\ ThresholdNext /\ Idle

RecordsSpec == RecordsInit /\ [][RecordsNext]_recordsVars
=============================================================================
