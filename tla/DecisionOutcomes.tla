-------------------------- MODULE DecisionOutcomes --------------------------
(* The outcome of each mode decision (engine/outcomes.py, learning/telemetry): *)
(* the meters of the day are copied when a mode is taken up and differenced    *)
(* when the next one is, or after half an hour.  Midnight sets the meters back *)
(* in between, and a restart may bring both meters and decisions back as they  *)
(* were at two different saves.                                                *)
EXTENDS DayRecords, Sequences

CONSTANTS
  MaxDuration,         \* MAX_DECISION_DURATION, in minutes
  MaxCompleted,        \* MAX_COMPLETED_DECISIONS
  MaxDecisions         \* bound of the decisions taken

ASSUME OutcomesAssumption == {MaxDuration, MaxCompleted, MaxDecisions} \subseteq Nat \ {0}

VARIABLES
  pending,             \* _pending_decisions
  completed,           \* _completed_decisions
  outcome_store,       \* what of both is on disk
  taken,               \* how many decisions were taken, which names them
  imported             \* history: all the ticks have seen since the start

outcomeVars == <<pending, completed, outcome_store, taken, imported>>
vars == <<dayVars, outcomeVars>>

NoDecisions == [pending |-> <<>>, completed |-> <<>>]

------------------------------------------------------------------------------
\* Mutant: a meter that was set back is differenced all the same.
MeterDeltaAbsolute(current, snapshot) ==
  IF current >= snapshot THEN current - snapshot ELSE snapshot - current

\* _meter_delta: a meter below its snapshot is taken to have been set back.
MeterDelta(current, snapshot) ==
  IF current >= snapshot THEN current - snapshot ELSE current

\* Of a decision that ends now: what is booked to it, by one meter of energy,
\* and what was seen meanwhile.  The two meters of dollars are signed, so that
\* a fall says nothing of midnight; they are left out.
Outcome(d) ==
  [n |-> d.n, torn |-> d.torn,
   kwh |-> MeterDelta(totals.kwh, d.snapshot), actual |-> imported - d.seen]

\* One that ran out while Home Assistant was down gets a neutral outcome.
Neutral(d) == [n |-> d.n, torn |-> d.torn, kwh |-> 0, actual |-> 0]

\* The deque drops its oldest.
KeepNewest(done, outcome) ==
  LET longer == Append(done, outcome)
  IN IF Len(longer) > MaxCompleted THEN Tail(longer) ELSE longer

TimedOut(d) == now - d.at >= MaxDuration

------------------------------------------------------------------------------
(* A decision is only added once the one that waits is taken out, so the list *)
(* of those that wait, in memory as on disk, is empty or holds just one.      *)

\* record_decision, of a transition that has succeeded.
RecordDecision ==
  /\ process = "running" /\ taken < MaxDecisions
  /\ taken' = taken + 1
  /\ completed' = IF pending = <<>> THEN completed
                  ELSE KeepNewest(completed, Outcome(Head(pending)))
  /\ pending' = Append(IF pending = <<>> THEN <<>> ELSE Tail(pending),
                       [n |-> taken', at |-> now, snapshot |-> totals.kwh,
                        seen |-> imported, torn |-> FALSE])
  /\ UNCHANGED <<dayVars, outcome_store, imported>>

\* backfill_outcomes on the medium tick; a save follows as a task of its own.
BackfillOutcomes ==
  /\ process = "running"
  /\ pending # <<>> /\ TimedOut(Head(pending))
  /\ completed' = KeepNewest(completed, Outcome(Head(pending)))
  /\ pending' = Tail(pending)
  /\ UNCHANGED <<dayVars, outcome_store, taken, imported>>

\* async_save, at midnight, after a backfill, periodic and final.
SaveDecisions ==
  /\ process = "running"
  /\ outcome_store' = [pending |-> pending, completed |-> completed]
  /\ UNCHANGED <<dayVars, pending, completed, taken, imported>>

\* async_load, before the subscriptions.
LoadDecisions ==
  /\ Subscribe
  /\ LET saved == outcome_store.pending
         ended == saved # <<>> /\ TimedOut(Head(saved))
     IN /\ completed' = IF ended THEN KeepNewest(outcome_store.completed, Neutral(Head(saved)))
                        ELSE outcome_store.completed
        /\ pending' = IF ended THEN Tail(saved) ELSE saved
  /\ UNCHANGED <<outcome_store, taken, imported>>

------------------------------------------------------------------------------
(* The steps of the day do nothing to decisions.                              *)

Tick(kwh, price) == FastTick(kwh, price) /\ imported' = imported + kwh

DayStep ==
  /\ \/ \E kwh \in Energy, price \in Prices : Tick(kwh, price)
     \/ (Advance \/ MidnightReset \/ SaveTotals) /\ UNCHANGED imported
  /\ UNCHANGED <<pending, completed, outcome_store, taken>>

\* A decision that was saved outlives its process; the meters it copied may not.
TotalsLost == store.date # totals_date \/ store.totals # totals
Torn(decisions) ==
  [i \in DOMAIN decisions |-> [decisions[i] EXCEPT !.torn = @ \/ TotalsLost]]

Stop ==
  /\ GoDown
  /\ pending' = <<>> /\ completed' = <<>>
  /\ outcome_store' = [outcome_store EXCEPT !.pending = Torn(@)]
  /\ UNCHANGED <<taken, imported>>

Start ==
  /\ \E totals_ok, entry_ok \in BOOLEAN : Restore(totals_ok, entry_ok)
  /\ UNCHANGED outcomeVars

Init ==
  /\ DayInit
  /\ pending = <<>> /\ completed = <<>> /\ outcome_store = NoDecisions
  /\ taken = 0 /\ imported = 0

Next ==
  \/ DayStep \/ RecordDecision \/ BackfillOutcomes \/ SaveDecisions
  \/ Stop \/ Start \/ LoadDecisions

Spec == Init /\ [][Next]_vars

------------------------------------------------------------------------------
(* A decision has one outcome, however often it was saved, restored or timed  *)
(* out, and the ones that still wait have none (outcomes.py).                 *)
OneOutcomeEach ==
  LET all == completed \o pending
  IN \A i, j \in DOMAIN all : i < j => all[i].n < all[j].n

(* No energy is booked to a decision but what was imported while it lasted,   *)
(* midnight or not -- unless a crash lost minutes that it had already copied. *)
EnergyIsOfItsDecision ==
  \A i \in DOMAIN completed :
     ~completed[i].torn => completed[i].kwh <= completed[i].actual

(* At most one decision waits for its outcome: a save and a restart bring back *)
(* none that was already followed by another.                                 *)
OneWaits == Len(pending) <= 1 /\ Len(outcome_store.pending) <= 1

(* What is learned from a decision is of that decision, and learned once.     *)
OutcomesAreTrue == OneOutcomeEach /\ EnergyIsOfItsDecision /\ OneWaits
=============================================================================
