----------------------------- MODULE LoadHistory -----------------------------
(* The load profiles (forecast/history.py): hourly rows of the recorder, split *)
(* by whether the house was away (utils/away.py), fetched in a thread and kept *)
(* until midnight.  Time is counted in quarters; the away option may change,   *)
(* the cache be cleared, the recorder fail while a fetch is under way.         *)
EXTENDS Integers, FiniteSets

CONSTANTS
  Quarters,            \* bound of the time looked at
  HourQuarters,        \* quarters of an hour
  DayHours,            \* hours of a day
  WindowHours,         \* HISTORY_WINDOW_DAYS, in hours
  MinHours             \* hours a profile needs

ASSUME HistoryAssumption ==
  {Quarters, HourQuarters, DayHours, WindowHours, MinHours} \subseteq Nat \ {0}

VARIABLES
  quarter,             \* of now
  house,               \* the away entity in each quarter: "on", "off" or "gone"
  away_option,         \* an away entity is configured
  fetches,             \* fetches under way: when each began, for which option
  profile,             \* _historical_load_cache, as the hours in it, and its key
  away_profile         \* _away_avg, as the hours in it

historyVars == <<quarter, house, away_option, fetches, profile, away_profile>>

NoProfile == [hours |-> {}, day |-> -1, away |-> FALSE]

HourStart(h) == h * HourQuarters
QuartersOf(h) == HourStart(h)..(HourStart(h) + HourQuarters - 1)
HistoryDay(q) == q \div (DayHours * HourQuarters)

------------------------------------------------------------------------------
\* The window of a fetch, floored to the hour, and its rows: hours that are over.
FirstHour(f) ==
  LET hour == f.at \div HourQuarters - WindowHours IN IF hour > 0 THEN hour ELSE 0
Rows(f) == {h \in 0..Quarters : h >= FirstHour(f) /\ HourStart(h + 1) <= f.at}

\* fetch_away_intervals_sync: from an "on" to the next state that reads otherwise;
\* what cannot be read holds the state before it.
IsAway(q, from) ==
  \E since \in from..q : house[since] = "on" /\ \A r \in since..q : house[r] # "off"
AwayQuarters(f) ==
  LET from == HourStart(FirstHour(f)) IN {q \in from..(f.at - 1) : IsAway(q, from)}

\* away_utc_hour_starts and away_full_utc_hour_starts
AwayHours(f) == {h \in Rows(f) : QuartersOf(h) \cap AwayQuarters(f) # {}}

FullAwayHours(f) == {h \in Rows(f) : QuartersOf(h) \subseteq AwayQuarters(f)}

HomeRows(f) == IF f.away THEN Rows(f) \ AwayHours(f) ELSE Rows(f)

------------------------------------------------------------------------------
QuarterPasses(state) ==
  /\ quarter < Quarters
  /\ house' = [house EXCEPT ![quarter] = state]
  /\ quarter' = quarter + 1
  /\ UNCHANGED <<away_option, fetches, profile, away_profile>>

OptionChanges ==
  /\ away_option' = ~away_option
  /\ UNCHANGED <<quarter, house, fetches, profile, away_profile>>

\* clear_historical_cache
Clear ==
  /\ profile # NoProfile \/ away_profile # {}
  /\ profile' = NoProfile /\ away_profile' = {}
  /\ UNCHANGED <<quarter, house, away_option, fetches>>

Cached ==
  profile.hours # {} /\ profile.day = HistoryDay(quarter) /\ profile.away = away_option

\* The medium tick starts a fetch, which copies the time and the option.
StartFetch ==
  /\ ~Cached /\ Cardinality(fetches) < 2
  /\ fetches' = fetches \cup {[at |-> quarter, away |-> away_option]}
  /\ UNCHANGED <<quarter, house, away_option, profile, away_profile>>

\* Mutant: the key is read after the fetch.
FetchedUnkeyed(f, readable) ==
  /\ fetches' = fetches \ {f}
  /\ profile' = IF readable /\ Cardinality(HomeRows(f)) >= MinHours
                THEN [hours |-> HomeRows(f), day |-> HistoryDay(quarter), away |-> away_option]
                ELSE profile
  /\ away_profile' = IF f.away /\ readable THEN FullAwayHours(f) ELSE away_profile
  /\ UNCHANGED <<quarter, house, away_option>>

\* The rest of async_get_historical_hourly_averages.  A fetch the recorder fails
\* keeps what there is; one that finds the house mostly empty keeps the at-home
\* profile and takes the other.
Fetched(f, readable) ==
  LET full == IF f.away THEN FullAwayHours(f) ELSE {}
      enough == Cardinality(HomeRows(f)) >= MinHours
  IN /\ fetches' = fetches \ {f}
     /\ profile' = IF readable /\ enough
                   THEN [hours |-> HomeRows(f), day |-> HistoryDay(f.at), away |-> f.away]
                   ELSE profile
     /\ away_profile' = IF readable /\ (enough \/ full # {}) THEN full ELSE away_profile
     /\ UNCHANGED <<quarter, house, away_option>>

HistoryInit ==
  /\ quarter = 0 /\ house = [q \in 0..(Quarters - 1) |-> "gone"]
  /\ away_option \in BOOLEAN
  /\ fetches = {} /\ profile = NoProfile /\ away_profile = {}

HistoryNext ==
  \/ \E state \in {"on", "off", "gone"} : QuarterPasses(state)
  \/ OptionChanges \/ Clear \/ StartFetch
  \/ \E f \in fetches, readable \in BOOLEAN : Fetched(f, readable)

HistorySpec == HistoryInit /\ [][HistoryNext]_historyVars

------------------------------------------------------------------------------
(* An empty house teaches nothing of a lived-in one, nor the other way round: *)
(* a profile in use under its away entity has no hour in which that entity    *)
(* was ever on, or unreadable since it was; the away profile has no hour in   *)
(* which it was off.  Neither a departure, a reload in mid-trip, a change of  *)
(* the option during a fetch, nor a fetch that fails mixes them.              *)
EmptyHouseIsApart ==
  /\ (Cached /\ profile.away) =>
       \A h \in profile.hours :
         \A q \in QuartersOf(h) :
           /\ house[q] # "on"
           /\ (house[q] = "gone" /\ q - 1 \in QuartersOf(h)) => house[q - 1] # "on"
  /\ \A h \in away_profile : \A q \in QuartersOf(h) : house[q] # "off"
=============================================================================
