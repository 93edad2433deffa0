----------------------------- MODULE DayRecords -----------------------------
(* What LocalShift remembers of a day: the totals of energy and money          *)
(* (utils/costs.py), the charge the demand window was entered with, and        *)
(* whether the target was reached (computation_engine.py).  The first two are  *)
(* saved and restored (utils/daily_totals_store.py), the third is not.  Home   *)
(* Assistant may go down between any two steps, and midnight may pass then.    *)
EXTENDS Integers

CONSTANTS
  Days,                \* bound of the clock, in days
  DayLength,           \* minutes of a day
  WindowStart,         \* minute the demand window begins
  WindowEnd,           \* minute it is over
  CaptureGrace,        \* DW_ENTRY_CAPTURE_GRACE, in minutes
  Energy,              \* what a minute may import
  Prices               \* what it may cost per unit

ASSUME RecordsAssumption ==
  /\ {Days, DayLength, CaptureGrace} \subseteq Nat \ {0}
  /\ WindowStart \in 0..(DayLength - 1)
  /\ WindowEnd \in (WindowStart + 1)..DayLength
  /\ Energy \subseteq Nat
  /\ Prices \subseteq Int

VARIABLES
  now,                     \* the minutes since the start
  ticked,                  \* the fast tick of this minute has come
  process,                 \* "down", "loading" (totals restored) or "running"
  midnight_due,            \* the midnight timer has expired, its handler waits
  totals,                  \* data.grid_import_kwh_today and data.grid_import_cost
  totals_date,             \* CostTracker._totals_date
  dw_entry,                \* data.dw_entry_actual_*
  target_reached_today,
  last_target_reset_date,
  store,                   \* the daily totals store on disk
  metered,                 \* history: what the ticks of each day have seen
  reached_on,              \* history: the last day an evaluation saw the target met
  restored                 \* history: the store could be read at the last start

dayVars == <<now, ticked, process, midnight_due, totals, totals_date, dw_entry,
             target_reached_today, last_target_reset_date, store, metered,
             reached_on, restored>>

Day(t) == t \div DayLength
Today == Day(now)
MinuteOfDay == now % DayLength

NoDay == -1            \* None for a date
Zero == [kwh |-> 0, cost |-> 0]
Plus(sums, kwh, price) == [kwh |-> sums.kwh + kwh, cost |-> sums.cost + kwh * price]
NoEntry == [date |-> NoDay, at |-> NoDay]
Blank == [date |-> NoDay, totals |-> Zero, entry |-> NoEntry]

------------------------------------------------------------------------------
(* A minute passes.  The midnight timer only expires for a process that runs. *)
Advance ==
  /\ now + 1 < Days * DayLength
  /\ now' = now + 1
  /\ ticked' = FALSE
  /\ midnight_due' = (midnight_due \/ (process = "running" /\ Day(now') # Today))
  /\ UNCHANGED <<process, totals, totals_date, dw_entry, target_reached_today,
                 last_target_reset_date, store, metered, reached_on, restored>>

\* accumulate_costs: the date guard, then this minute.
FastTick(kwh, price) ==
  /\ process = "running" /\ ~ticked
  /\ ticked' = TRUE
  /\ LET kept == IF totals_date = Today THEN totals ELSE Zero
     IN totals' = Plus(kept, kwh, price)
  /\ totals_date' = Today
  /\ metered' = [metered EXCEPT ![Today] = Plus(@, kwh, price)]
  /\ UNCHANGED <<now, process, midnight_due, dw_entry, target_reached_today,
                 last_target_reset_date, store, reached_on, restored>>

\* handle_midnight_reset.  The clock may have moved on before the handler runs.
MidnightReset ==
  /\ process = "running" /\ midnight_due
  /\ midnight_due' = FALSE
  /\ target_reached_today' = FALSE
  /\ totals' = Zero
  /\ totals_date' = Today
  /\ UNCHANGED <<now, ticked, process, dw_entry, last_target_reset_date, store,
                 metered, reached_on, restored>>

------------------------------------------------------------------------------
(* An evaluation of the derived values, as far as it touches these records.   *)

\* Mutant: a restored record is blanked by the first evaluation (#1142).
ResetLatchBlanks ==
  [latch |-> target_reached_today /\ last_target_reset_date = Today,
   entry |-> IF last_target_reset_date # Today THEN NoEntry ELSE dw_entry]

\* _reset_daily_precharge_latch: a record that is already of today is kept.
ResetLatch ==
  [latch |-> target_reached_today /\ last_target_reset_date = Today,
   entry |-> IF last_target_reset_date # Today /\ dw_entry.date # Today
             THEN NoEntry ELSE dw_entry]

\* _capture_dw_entry_actual: once a day, and only as the window begins.
CaptureEntry(entry, soc_readable) ==
  IF /\ WindowStart <= MinuteOfDay /\ MinuteOfDay < WindowEnd
     /\ entry.date # Today
     /\ MinuteOfDay - WindowStart < CaptureGrace
     /\ soc_readable
  THEN [date |-> Today, at |-> now]
  ELSE entry

\* _compute_solar_battery_forecast looks at the target, before the window and
\* after it; a manual override returns before the forecast is computed.
SeesTarget(target_met, manual) == target_met /\ ~manual

Evaluate(soc_readable, target_met, manual) ==
  /\ process = "running"
  /\ dw_entry' = CaptureEntry(ResetLatch.entry, soc_readable)
  /\ target_reached_today' = (ResetLatch.latch \/ SeesTarget(target_met, manual))
  /\ last_target_reset_date' = Today
  /\ reached_on' = IF SeesTarget(target_met, manual) THEN Today ELSE reached_on
  /\ UNCHANGED <<now, ticked, process, midnight_due, totals, totals_date, store,
                 metered, restored>>

------------------------------------------------------------------------------
(* Saving, going down and coming back.                                        *)

\* snapshot_daily_totals bears the date of the totals, whatever day it is; the
\* entry record bears its own, and an entry that is blank is saved as blank.
Snapshot == [date |-> totals_date, totals |-> totals, entry |-> dw_entry]

\* DailyTotalsStore.async_save, periodic or the first step of a final save.
SaveTotals ==
  /\ process = "running"
  /\ store' = Snapshot
  /\ UNCHANGED <<now, ticked, process, midnight_due, totals, totals_date, dw_entry,
                 target_reached_today, last_target_reset_date, metered, reached_on,
                 restored>>

\* CoordinatorData as it is created; the latch and its date are saved nowhere.
FreshData == target_reached_today' = FALSE /\ last_target_reset_date' = NoDay

\* A crash, or, after the saves, an orderly stop.
GoDown ==
  /\ process # "down"
  /\ process' = "down"
  /\ FreshData
  /\ totals' = Zero /\ totals_date' = NoDay /\ dw_entry' = NoEntry
  /\ midnight_due' = FALSE
  /\ UNCHANGED <<now, ticked, store, metered, reached_on, restored>>

\* restore_daily_totals: validated whole, and of today, or not at all.
TotalsRestored(readable) == readable /\ store.date = Today

\* restore_dw_entry_record: only beside restored totals, and of today itself.
EntryRestored(totals_readable, entry_readable) ==
  TotalsRestored(totals_readable) /\ entry_readable /\ store.entry.date = Today

\* async_restore into fresh data; what is not restored stays blank, and the
\* entry that cannot be read costs the totals nothing.
Restore(totals_readable, entry_readable) ==
  /\ process = "down"
  /\ process' = "loading"
  /\ totals' = IF TotalsRestored(totals_readable) THEN store.totals ELSE Zero
  /\ dw_entry' = IF EntryRestored(totals_readable, entry_readable)
                 THEN store.entry ELSE NoEntry
  /\ totals_date' = Today
  /\ FreshData
  /\ restored' = (totals_readable /\ entry_readable)
  /\ UNCHANGED <<now, ticked, midnight_due, store, metered, reached_on>>

\* The timers are armed, which may be after the midnight the totals were
\* restored before.
Subscribe ==
  /\ process = "loading"
  /\ process' = "running"
  /\ UNCHANGED <<now, ticked, midnight_due, totals, totals_date, dw_entry,
                 target_reached_today, last_target_reset_date, store, metered,
                 reached_on, restored>>

------------------------------------------------------------------------------
DayInit ==
  /\ now = 0 /\ ticked = FALSE
  /\ process = "down" /\ midnight_due = FALSE
  /\ totals = Zero /\ totals_date = NoDay
  /\ dw_entry = NoEntry
  /\ target_reached_today = FALSE /\ last_target_reset_date = NoDay
  /\ store = Blank
  /\ metered = [d \in 0..(Days - 1) |-> Zero]
  /\ reached_on = NoDay
  /\ restored = TRUE

DayNext ==
  \/ Advance
  \/ \E kwh \in Energy, price \in Prices : FastTick(kwh, price)
  \/ MidnightReset
  \/ \E readable, met, manual \in BOOLEAN : Evaluate(readable, met, manual)
  \/ SaveTotals
  \/ GoDown
  \/ \E totals_ok, entry_ok \in BOOLEAN : Restore(totals_ok, entry_ok)
  \/ Subscribe

DaySpec == DayInit /\ [][DayNext]_dayVars

------------------------------------------------------------------------------
(* A day's totals, in memory and on disk, hold nothing of another day and     *)
(* nothing twice: never more than the ticks of the day they are dated with    *)
(* have seen (costs.py: a previous day's figures can never leak into today).  *)
TotalsAreOfTheirDay ==
  LET within(sums, date) == sums.kwh <= IF date = NoDay THEN 0 ELSE metered[date].kwh
  IN /\ process # "down" => within(totals, totals_date)
     /\ within(store.totals, store.date)

(* The record of the window's entry that is on disk for today is the one in   *)
(* memory: no evaluation and no restart blanks it or records another (#1142). *)
EntryIsKept ==
  (process = "running" /\ restored /\ store.date = Today /\ store.entry.date = Today)
    => dw_entry = store.entry

(* After an evaluation, "target reached today" is true only if it was reached *)
(* today, although the midnight timer may be missed or run late: it is what   *)
(* keeps the charge before the window from being urgent.                      *)
LatchIsOfToday ==
  (process = "running" /\ last_target_reset_date = Today /\ target_reached_today)
    => reached_on = Today

(* Whatever is remembered of a day is of that day, across every order of      *)
(* restarts, saves, ticks and a midnight that is missed or handled late.      *)
RememberedOfToday == TotalsAreOfTheirDay /\ EntryIsKept /\ LatchIsOfToday
=============================================================================
