---------------------------- MODULE ResponseWatch ----------------------------
(* How long the battery takes to follow a decision (issue #508).  A decision   *)
(* is stamped by the facade, the transition that carries it out opens an entry *)
(* of the lag history and, for a mode that must show as power, a watch; the    *)
(* coordinator listens to the battery's power until it shows or the watch      *)
(* expires (state/machine.py, coordinator.py).  Telemetry: no decision reads   *)
(* it.  Dry runs, which record nothing, are left out.                          *)
EXTENDS Integers, SequencesExt

CONSTANTS
  ResponseTimeout,     \* PHYSICAL_RESPONSE_TIMEOUT, in minutes
  MaxEntries,          \* the 50 entries that are kept
  LastDecision,        \* bound of the decisions
  LastMinute           \* bound of the clock

ASSUME ResponseAssumption ==
  /\ {ResponseTimeout, MaxEntries} \subseteq Nat \ {0}
  /\ {LastDecision, LastMinute} \subseteq Nat

VARIABLES
  minute,
  decided_mode,        \* data.active_mode
  driven_mode,         \* _commanded_mode
  decision,            \* decision_timestamp and decision_mode; ids stand for stamps
  response_watch,      \* data.physical_response_watch
  hearing,             \* the battery power listener is subscribed
  entries,             \* data.decision_lag_history
  responses            \* history: decision -> the response its watch has seen

responseVars == <<minute, decided_mode, driven_mode, decision, response_watch, hearing,
                  entries, responses>>

\* PHYSICAL_RESPONSE_DIRECTIONS
Direction(mode) ==
  CASE mode = "grid_charging"    -> "charging"
    [] mode = "proactive_export" -> "discharging"
    [] OTHER                     -> "none"
DrivenModes == {"self_consumption", "grid_charging", "proactive_export"}

NoDecision == [id |-> 0, at |-> 0, mode |-> "none"]
NoWatch == [id |-> 0, mode |-> "none", expires |-> 0]
Pending == -1
NoResponse == -2

------------------------------------------------------------------------------
\* _commit_mode, on an allowed evaluation.
CommitDecision(mode) ==
  IF mode = decided_mode THEN decision
  ELSE [id |-> Len(responses) + 1, at |-> minute, mode |-> mode]

\* _start_physical_response_watch; full: a charge finds the battery at its target.
Started(d, full) ==
  /\ Direction(d.mode) # "none"
  /\ ~(Direction(d.mode) = "charging" /\ full)
Watching(d) == [id |-> d.id, mode |-> d.mode, expires |-> d.at + ResponseTimeout]

\* _record_transition_metrics
Entry(d) == [id |-> d.id, mode |-> d.mode, lag |-> Pending]
KeptEntries(list) == IF Len(list) > MaxEntries THEN Tail(list) ELSE list

\* Mutant: the newest entry gets the response, whatever decision it is of.
BackfilledNewest(list, watch, lag) ==
  IF list = <<>> THEN list ELSE [list EXCEPT ![Len(list)].lag = lag]

\* _record_physical_response, as far as the history goes.
Backfilled(list, watch, lag) ==
  IF list = <<>> \/ Last(list).id # watch.id THEN list
  ELSE [list EXCEPT ![Len(list)].lag = lag]

\* _check_physical_response_watch of a watch and a history.
Check(watch, list) ==
  LET expired == watch # NoWatch /\ minute >= watch.expires
  IN  /\ response_watch' = IF expired THEN NoWatch ELSE watch
      /\ entries' = IF expired THEN Backfilled(list, watch, NoResponse) ELSE list
      /\ hearing' = (watch # NoWatch /\ ~expired)

------------------------------------------------------------------------------
\* An evaluation that decides a mode, and commands nothing, or target: the mode that
\* is decided, the one in force once more, or SELF_CONSUMPTION as a fallback.
EvaluateDecision(mode, target, succeeds, full) ==
  LET d == CommitDecision(mode)
      own == target # "none" /\ d.mode = target
  IN
  /\ mode # decided_mode => Len(responses) < LastDecision
  /\ decided_mode' = mode
  /\ responses' = IF d = decision THEN responses ELSE Append(responses, Pending)
  /\ driven_mode' = IF target # "none" /\ succeeds THEN target ELSE driven_mode
  /\ \/ /\ own /\ succeeds
        /\ decision' = NoDecision
        /\ Check(IF Started(d, full) THEN Watching(d) ELSE response_watch,
                 KeptEntries(Append(entries, Entry(d))))
     \/ /\ own /\ ~succeeds
        /\ decision' = NoDecision
        /\ Check(NoWatch, entries)
     \/ /\ ~own
        /\ decision' = d
        /\ Check(response_watch, entries)
  /\ UNCHANGED minute

Targets(mode) == {"none", mode, driven_mode, "self_consumption"}

\* The fast tick, after its minute.
MinuteTick ==
  /\ minute < LastMinute
  /\ minute' = minute + 1
  /\ UNCHANGED <<decided_mode, driven_mode, decision, response_watch, hearing, entries,
                 responses>>

FastTickChecks ==
  /\ Check(response_watch, entries)
  /\ UNCHANGED <<minute, decided_mode, driven_mode, decision, responses>>

\* _on_battery_power_change, with power past the threshold in a direction.
PowerShows(direction) ==
  LET shown == minute < response_watch.expires
      seen == direction = Direction(response_watch.mode)
  IN
  /\ hearing /\ response_watch # NoWatch /\ (seen \/ ~shown)
  /\ entries' = Backfilled(entries, response_watch,
                  IF shown THEN minute ELSE NoResponse)
  /\ responses' = IF shown THEN [responses EXCEPT ![response_watch.id] = minute]
                  ELSE responses
  /\ response_watch' = NoWatch /\ hearing' = FALSE
  /\ UNCHANGED <<minute, decided_mode, driven_mode, decision>>

ResponseInit ==
  /\ minute = 0
  /\ decided_mode = "self_consumption" /\ driven_mode = "self_consumption"
  /\ decision = NoDecision /\ response_watch = NoWatch /\ hearing = FALSE
  /\ entries = <<>> /\ responses = <<>>

ResponseNext ==
  \/ \E mode \in DrivenModes : \E target \in Targets(mode), succeeds, full \in BOOLEAN :
       EvaluateDecision(mode, target, succeeds, full)
  \/ MinuteTick \/ FastTickChecks
  \/ \E direction \in {"charging", "discharging"} : PowerShows(direction)

ResponseSpec == ResponseInit /\ [][ResponseNext]_responseVars

------------------------------------------------------------------------------
(* A lag in the history is that of its own decision: it was seen by the watch *)
(* of that decision, while it ran and before it timed out, although decisions *)
(* follow one another before the battery responds, transitions fail, and a    *)
(* mode that is not observable leaves the watch of the one before it in       *)
(* place.                                                                     *)
LagIsOfItsDecision ==
  \A i \in DOMAIN entries :
    /\ entries[i].lag \notin {Pending, NoResponse} =>
         entries[i].lag = responses[entries[i].id]
    /\ \A j \in DOMAIN entries : i < j => entries[i].id < entries[j].id
=============================================================================
