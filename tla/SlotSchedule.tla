---------------------------- MODULE SlotSchedule ----------------------------
(* The planner's time axis: how a price feed becomes the slots that are        *)
(* planned (engine/slot_schedule.py, pricing/provider.py, and the padding of   *)
(* state/reader.py).                                                           *)
(*                                                                             *)
(* Times are seconds after an hour. A feed is a sequence of entries            *)
(*   [start, dur, price, estimate, window, source]                             *)
(* with dur in minutes; the flags estimate and window are "yes", "no" or       *)
(* "none". Nothing here computes with a price: any number serves.              *)
EXTENDS Integers, Sequences, FiniteSets, SequencesExt, FiniteSetsExt

CONSTANTS
  Horizon,       \* seconds the reader pads a feed to, and the schedule cuts at
  AssumedPrice   \* the price of the padding: an average of the day

ASSUME HorizonAssumption == Horizon \in Nat \ {0}

Minutes(n) == 60 * n

\* What a raw entry has in the place of a duration or an end.
Absent == -1
Malformed == -2

Durations == {5, 30, 60}      \* the durations the schedule understands

------------------------------------------------------------------------------
(* From the provider to a feed.                                                *)

\* The duration of a raw entry that states none: the nearest of 5, 15 and 30 to
\* the length of the interval, and 30 when there is no end.
InferredDuration(raw) ==
  IF raw.end = Absent THEN 30
  ELSE LET length == raw.end - raw.start
           away(d) == IF Minutes(d) >= length THEN Minutes(d) - length ELSE length - Minutes(d)
       IN IF length <= 0 THEN 5
          ELSE CHOOSE d \in {5, 15, 30} :
                 /\ \A e \in {5, 15, 30} : away(d) <= away(e)
                 /\ \A e \in {5, 15, 30} : away(e) = away(d) => d <= e

\* The feed of one reading: an entry that cannot be read is left out, the
\* others stay in the provider's order.
Normalized(raws) ==
  LET readable(raw) == raw.dur # Malformed
      slot(raw) ==
        [start |-> raw.start,
         dur |-> IF raw.dur = Absent THEN InferredDuration(raw) ELSE raw.dur,
         price |-> raw.price, estimate |-> raw.estimate, window |-> raw.window,
         source |-> "provider"]
      kept == SelectSeq(raws, readable)
  IN [i \in DOMAIN kept |-> slot(kept[i])]

\* A feed that ends before the horizon is continued at an assumed price.
Extended(feed, now) ==
  IF feed = <<>> THEN <<>>
  ELSE LET end == Last(feed).start + Minutes(Last(feed).dur)
           missing == now + Horizon - end
           n == IF missing <= 0 THEN 0 ELSE (missing + Minutes(30) - 1) \div Minutes(30)
       IN feed \o [k \in 1..n |->
                     [start |-> end + (k - 1) * Minutes(30), dur |-> 30,
                      price |-> AssumedPrice, estimate |-> "none", window |-> "none",
                      source |-> "extended"]]

------------------------------------------------------------------------------
(* Which entry is the current one.                                             *)

BoundaryOffsetTolerance(d) == IF 2 * d < 60 THEN 2 * d ELSE 60

\* The boundary an entry belongs to: a start a few seconds late is noise of the
\* provider's clock, a start further off is an interval of its own.
IntervalOrigin(start, d) ==
  LET floored == start - (start % Minutes(d))
  IN IF start - floored < BoundaryOffsetTolerance(d) THEN floored ELSE start

CoversNow(start, d, now) ==
  /\ d \in {5, 30}
  /\ IntervalOrigin(start, d) <= now
  /\ now < IntervalOrigin(start, d) + Minutes(d)

\* The entry that covers now: <<>> when there is none, else the first of them.
CurrentEntry(feed, now) ==
  LET covers(e) == CoversNow(e.start, e.dur, now)
      found == SelectSeq(feed, covers)
  IN IF found = <<>> THEN <<>> ELSE <<Head(found)>>

FloorTo5Min(t) == t - (t % Minutes(5))

------------------------------------------------------------------------------
(* From an entry to its slots. A slot is                                       *)
(*   [start, width, price, from, estimate, window, source], in seconds.        *)

Slot(start, mins, price, from) ==
  [start |-> start, width |-> Minutes(mins), price |-> price, from |-> from,
   estimate |-> "none", window |-> "none", source |-> "none"]

\* Mutant: the five minutes of the clock overrun the half hour (#948).
Current30MinSlotOverrun(e, now) ==
  IF IntervalOrigin(e.start, 30) >= now THEN Slot(e.start, 30, e.price, "current")
  ELSE Slot(FloorTo5Min(now), 5, e.price, "current")

\* A current half hour shrinks to five minutes once some of it has gone by: the
\* five minutes of the clock, moved back where they would overrun its end.
Current30MinSlot(e, now) ==
  LET origin == IntervalOrigin(e.start, 30)
      end == origin + Minutes(30)
      anchor == IF FloorTo5Min(now) + Minutes(5) > end
                THEN end - Minutes(5) ELSE FloorTo5Min(now)
      whole == origin >= now
  IN [Slot(IF whole THEN e.start ELSE anchor, IF whole THEN 30 ELSE 5, e.price, "current")
        EXCEPT !.estimate = e.estimate, !.window = e.window]

Split60MinSlot(e) ==
  <<Slot(e.start, 30, e.price, "30min"), Slot(e.start + Minutes(30), 30, e.price, "30min")>>

\* An hour has no current slot: one that has begun is dropped whole.
ParseSingleEntry(e, now) ==
  LET current == CoversNow(e.start, e.dur, now)
      from == IF current THEN "current" ELSE IF e.dur = 5 THEN "5min" ELSE "30min"
  IN IF e.dur \notin Durations \/ (~current /\ e.start < now) THEN <<>>
     ELSE IF e.dur = 60 THEN Split60MinSlot(e)
     ELSE IF current /\ e.dur = 30 THEN <<Current30MinSlot(e, now)>>
     ELSE <<[Slot(e.start, e.dur, e.price, from)
               EXCEPT !.estimate = e.estimate, !.window = e.window, !.source = e.source]>>

ParsedEntries(feed, now) ==
  FlattenSeq([i \in DOMAIN feed |-> ParseSingleEntry(feed[i], now)])

------------------------------------------------------------------------------
(* The schedule: all five-minute slots, then the half hours that reach beyond  *)
(* them, and a slot for now when no entry has one.                             *)

End(slot) == slot.start + slot.width

\* The sorts of the code are stable. In a feed without two entries of one start
\* and width the order of start and width is the same.
Earlier(s, t) == s.start < t.start \/ (s.start = t.start /\ s.width < t.width)

Sorted(slots) == SortSeq(slots, Earlier)

Thirty(slots, fives, cutoff) ==
  LET beyond(s) == /\ s.width = Minutes(30)
                   /\ s.start < cutoff
                   /\ fives = <<>> \/ End(s) > End(Last(fives))
  IN SelectSeq(slots, beyond)

BuildHybridSchedule(slots, cutoff) ==
  LET isFive(s) == s.width = Minutes(5)
      fives == SelectSeq(slots, isFive)
  IN Sorted(fives \o Thirty(slots, fives, cutoff))

EnsureCurrentSlotCoverage(slots, now) ==
  IF slots = <<>> \/ CoversNow(Head(slots).start, Head(slots).width \div 60, now)
  THEN slots
  ELSE <<Slot(FloorTo5Min(now), 5, Head(slots).price, "synthetic")>> \o slots

HybridSlotSchedule(feed, now) ==
  EnsureCurrentSlotCoverage(
    BuildHybridSchedule(Sorted(ParsedEntries(feed, now)), now + Horizon), now)
==============================================================================
