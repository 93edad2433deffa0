------------------------- MODULE ExportAvailability -------------------------
(* When an export would reach the grid at all (utils/export_availability.py):  *)
(* Tesla exports only in the periods of the best rate of its own tariff, and   *)
(* not while a seen refusal is waited out.                                     *)
EXTENDS Integers, Sequences

\* The periods of a tariff below its top rate. A tariff that cannot be read
\* entirely restricts nothing. An event is [readable, start, end, rate].
ExportBlockedPeriods(events) ==
  IF \E e \in events : ~e.readable THEN {}
  ELSE {[start |-> e.start, end |-> e.end] :
          e \in {e \in events : \E better \in events : better.rate > e.rate}}

ExportAvailableAt(when, blocked, suppressed_until) ==
  /\ when >= suppressed_until
  /\ \A period \in blocked : ~(period.start <= when /\ when < period.end)
==============================================================================
