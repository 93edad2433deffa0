----------------------------- MODULE PriceInputs -----------------------------
(* What the planner is given at each evaluation: two price feeds that are read *)
(* at different moments and grow old, the slots made of them, the prices and   *)
(* flags of each slot (engine/slots.py), and the watch on feeds that no longer *)
(* cover the present (coordinator/synthetic_slot_health.py, entity_monitor.py).*)
EXTENDS SlotSchedule, ExportAvailability

CONSTANTS
  Instants,            \* the moments of the clock, in seconds
  RawGeneral,          \* what the provider may hold for the buying side
  RawFeedIn,           \* and for the selling side
  Tariffs,             \* what Tesla's tariff calendar may hold
  ClockWindow,         \* [start, end) of the configured demand window
  WindowFromAmber,     \* the switch demand_window_from_amber
  ConfirmationGrace,   \* seconds an unconfirmed price may start no export
  MinSamples, MaxSamples, Consecutive, StartupChecks

ASSUME InputsAssumption ==
  /\ Instants \subseteq Nat /\ Instants # {}
  /\ ConfirmationGrace \in Nat
  /\ {MinSamples, MaxSamples, Consecutive, StartupChecks} \subseteq Nat \ {0}
  /\ MinSamples <= MaxSamples

VARIABLES
  now,
  general, feed_in,    \* data.general_forecast, data.feed_in_forecast before padding
  blocked,             \* data.export_blocked_periods
  exporting,           \* data.active_mode is PROACTIVE_EXPORT
  health,              \* data.synthetic_slot_health
  covered              \* history: evaluations in a row whose first slot was real

vars == <<now, general, feed_in, blocked, exporting, health, covered>>

------------------------------------------------------------------------------
(* Prices of a slot.                                                           *)

\* The sell price of a slot that is not the current one: the mean of the
\* entries its first quarter of an hour overlaps, else the last begun one's.
PriceForSlot(feed, start) ==
  LET overlapping(e) == e.start < start + Minutes(15) /\ start < e.start + Minutes(e.dur)
      begun(e) == e.start <= start
      plus(sum, e) == sum + e.price
      overlaps == SelectSeq(feed, overlapping)
      past == {feed[i] : i \in {i \in DOMAIN feed : begun(feed[i])}}
  IN IF overlaps # <<>> THEN FoldLeft(plus, 0, overlaps) \div Len(overlaps)
     ELSE IF past = {} THEN 0
     ELSE (CHOOSE e \in past : \A other \in past : other.start <= e.start).price

\* The clock's window, which may reach over midnight.
InClockWindow(t) ==
  LET day == t % 86400
  IN IF ClockWindow.end <= ClockWindow.start
     THEN day >= ClockWindow.start \/ day < ClockWindow.end
     ELSE ClockWindow.start <= day /\ day < ClockWindow.end

\* Padding of one entry only tops a feed up that is a moment short of the
\* horizon; more is padding of a feed that is stale.
PadTopUp(slots) ==
  LET padding(s) == s.source = "extended" IN Len(SelectSeq(slots, padding)) < 2

\* Whether each slot lies in the demand window: Amber's own flag when it is to
\* decide and there is one, else the clock; a top-up may continue a window and
\* not open one.
InWindow(slots) ==
  LET flag[i \in 0..Len(slots)] ==
        IF i = 0 THEN FALSE
        ELSE LET s == slots[i]
                 clock == InClockWindow(s.start)
             IN IF ~WindowFromAmber THEN clock
                ELSE IF s.window # "none" THEN s.window = "yes"
                ELSE IF PadTopUp(slots) /\ s.source = "extended" THEN clock /\ flag[i - 1]
                ELSE clock
  IN flag

ProcessAllSlots(slots, feed) ==
  LET flag == InWindow(slots)
  IN [i \in DOMAIN slots |->
        [start |-> slots[i].start, width |-> slots[i].width,
         buy |-> slots[i].price, sell |-> PriceForSlot(feed, slots[i].start),
         window |-> flag[i], entry |-> flag[i] /\ ~flag[i - 1],
         export |-> ExportAvailableAt(slots[i].start, blocked, 0),
         from |-> slots[i].from]]

\* Mutant: slot 1 sells at the mean of the lookup, as the later slots do.
PriceSlot0ByLookup(contexts, feed) == contexts

\* Slot 1 is the one that is acted on. It sells at the price of the entry that
\* covers now; a price not yet confirmed may not start an export.
PriceSlot0(contexts, feed) ==
  LET current == CurrentEntry(feed, now)
      e == Head(current)
      young == now - IntervalOrigin(e.start, e.dur) < ConfirmationGrace
      defer == e.estimate = "yes" /\ young /\ ~exporting
  IN IF contexts = <<>> \/ current = <<>> THEN contexts
     ELSE [contexts EXCEPT ![1].sell = e.price,
                           ![1].export = @ /\ ~defer]

BuildSlots ==
  LET feed == Extended(feed_in, now)
  IN PriceSlot0(ProcessAllSlots(HybridSlotSchedule(Extended(general, now), now), feed), feed)

------------------------------------------------------------------------------
(* The watch on synthetic slots.                                               *)

NoHealth == [samples |-> <<>>, above |-> 0, below |-> 0, degraded |-> FALSE,
             evaluations |-> 0, seen |-> FALSE, warned |-> FALSE]

Synthetic(samples) == Cardinality({i \in DOMAIN samples : samples[i]})

\* At least half of the samples.
RateHigh(samples) == 2 * Synthetic(samples) >= Len(samples)

AtMost(n, bound) == IF n < bound THEN n ELSE bound

\* Mutant: a full window refuses the new sample.
NewestRefused(samples) ==
  IF Len(samples) > MaxSamples THEN SubSeq(samples, 1, MaxSamples) ELSE samples

Newest(samples) ==
  IF Len(samples) > MaxSamples
  THEN SubSeq(samples, Len(samples) - MaxSamples + 1, Len(samples)) ELSE samples

\* One sample; `gone` of the oldest have left the window of an hour.
Record(h, synthetic, gone) ==
  LET samples == Newest(Append(SubSeq(h.samples, gone + 1, Len(h.samples)), synthetic))
      high == Len(samples) >= MinSamples /\ RateHigh(samples)
      above == IF high THEN AtMost(h.above + 1, Consecutive) ELSE 0
      below == IF high THEN 0 ELSE AtMost(h.below + 1, Consecutive)
  IN [h EXCEPT !.samples = samples, !.above = above, !.below = below,
               !.evaluations = AtMost(@ + 1, StartupChecks),
               !.seen = @ \/ ~synthetic,
               !.degraded = IF @ THEN below < Consecutive ELSE above >= Consecutive]

\* The evaluations an outage's samples can outlast it: until good ones are the
\* majority of a full window, and Consecutive of those.
ClearsWithin == MaxSamples \div 2 + Consecutive

NeedsStartupWarning(h) == h.evaluations >= StartupChecks /\ ~h.seen /\ ~h.warned

------------------------------------------------------------------------------
Init ==
  /\ now = Min(Instants)
  /\ general \in {Normalized(raw) : raw \in RawGeneral}
  /\ feed_in \in {Normalized(raw) : raw \in RawFeedIn}
  /\ blocked = {}
  /\ exporting = FALSE
  /\ health = NoHealth
  /\ covered = 0

Tick ==
  /\ \E later \in Instants :
       /\ later > now
       /\ \A t \in Instants : t <= now \/ later <= t
       /\ now' = later
  /\ UNCHANGED <<general, feed_in, blocked, exporting, health, covered>>

\* Each side of the market is an entity of its own, published at its own time.
ReadGeneral ==
  /\ \E raw \in RawGeneral : general' = Normalized(raw)
  /\ UNCHANGED <<now, feed_in, blocked, exporting, health, covered>>

ReadFeedIn ==
  /\ \E raw \in RawFeedIn : feed_in' = Normalized(raw)
  /\ UNCHANGED <<now, general, blocked, exporting, health, covered>>

\* EntityMonitor.refresh_tesla_tariff: a calendar that cannot be read, or is
\* empty, keeps the periods of the last reading.
RefreshTeslaTariff ==
  /\ \E events \in Tariffs : events # {} /\ blocked' = ExportBlockedPeriods(events)
  /\ UNCHANGED <<now, general, feed_in, exporting, health, covered>>

\* An evaluation: the slots are built, the watch takes its sample, and the plan
\* may export now if the first slot may. Without slots there is no new plan.
Evaluate ==
  /\ LET contexts == BuildSlots
         synthetic == contexts = <<>> \/ Head(contexts).from = "synthetic"
     IN /\ \E gone \in 0..Len(health.samples) : health' = Record(health, synthetic, gone)
        /\ covered' = IF synthetic THEN 0 ELSE AtMost(covered + 1, ClearsWithin)
        /\ IF contexts = <<>> THEN UNCHANGED exporting
           ELSE \E export \in BOOLEAN :
                  /\ export => Head(contexts).export
                  /\ exporting' = export
  /\ UNCHANGED <<now, general, feed_in, blocked>>

\* EntityMonitor._apply_synthetic_slot_health: the startup warning is given once.
CheckEntityHealth ==
  /\ NeedsStartupWarning(health)
  /\ health' = [health EXCEPT !.warned = TRUE]
  /\ UNCHANGED <<now, general, feed_in, blocked, exporting, covered>>

Next ==
  \/ Tick
  \/ ReadGeneral
  \/ ReadFeedIn
  \/ RefreshTeslaTariff
  \/ Evaluate
  \/ CheckEntityHealth

Spec == Init /\ [][Next]_vars

------------------------------------------------------------------------------
(* Properties.                                                                 *)

Slots == HybridSlotSchedule(Extended(general, now), now)

\* The feed names every moment from now on once, in half hours and shorter.
Tiles(feed) ==
  /\ feed # <<>>
  /\ \A i \in DOMAIN feed : feed[i].dur \in {5, 30}
  /\ \A i \in DOMAIN feed : i > 1 => feed[i].start = feed[i - 1].start + Minutes(feed[i - 1].dur)
  /\ IntervalOrigin(feed[1].start, feed[1].dur) <= now

\* Nothing is planned twice, and the first slot is now.  Of a feed that names every
\* moment once and covers the present one (itself or by its padding), no two slots
\* overlap, and a moment that no slot covers lies between the first slot and the end
\* of the half hour it was cut from: the planner multiplies every slot's power with
\* its width, so a moment that is in two slots is charged twice.  The first slot
\* contains the present moment, and claims no time that has gone by beyond the five
\* minutes it is planned in.
TimeCountedOnce ==
  LET feed == Extended(general, now)
      current == CurrentEntry(feed, now)
      s == Slots
  IN /\ Tiles(general) /\ current # <<>> =>
          /\ \A i \in 1..Len(s) - 1 : End(s[i]) <= s[i + 1].start
          /\ \A i \in 2..Len(s) - 1 : End(s[i]) = s[i + 1].start
          /\ Len(s) > 1 =>
               s[2].start \in {End(s[1]), Head(current).start + Minutes(Head(current).dur)}
     /\ s # <<>> =>
          /\ IntervalOrigin(s[1].start, s[1].width \div 60) <= now
          /\ now < End(s[1])
          /\ now - s[1].start < Minutes(5)

\* What is acted on is priced by the present: as long as some interval of each
\* feed, or of its padding, contains now, the first slot buys and sells at the
\* price of such an interval, however old either feed is (#1119).
PricesAreOfNow ==
  LET buys == Extended(general, now)
      sells == Extended(feed_in, now)
      isNow(feed, price) ==
        \E i \in DOMAIN feed : /\ feed[i].price = price
                               /\ CoversNow(feed[i].start, feed[i].dur, now)
      c == BuildSlots
  IN CurrentEntry(buys, now) # <<>> /\ CurrentEntry(sells, now) # <<>>
       => /\ isNow(buys, c[1].buy)
          /\ isNow(sells, c[1].sell)

\* A feed that has come back is not reported as degraded for longer than its
\* bad samples can be the majority, whatever mixture the outage has left in the
\* window and however that window is pruned (#956).
HealthRecovers == covered >= ClearsWithin => ~health.degraded
==============================================================================
