---------------------------- MODULE LoadPlacement ----------------------------
(* Where a booked load is placed (engine/booked_load.py, bookings.py): at the  *)
(* start whose plan costs least, or, if no plan can say, where spare solar     *)
(* carries it, or last of all where its deadline leaves it.  The planner is    *)
(* Planner's; here its answer for a start is a verdict.  Time is in units of   *)
(* five minutes from the start of the first slot, a quarter of the clock.      *)
EXTENDS Integers, Sequences, FiniteSets, FiniteSetsExt

CONSTANTS
  Slots,               \* the plan's slots: [at, len]
  Requests,            \* what may be asked: [earliest, finish, duration]
  SlotUnits,           \* the 15 minutes of SLOT
  MaxCandidates,       \* MAX_CANDIDATES
  Costs                \* what a plan may cost, in some order

ASSUME PlacementAssumption ==
  /\ Slots \in Seq([at : Nat, len : Nat \ {0}]) /\ Slots # <<>>
  /\ SlotUnits \in Nat \ {0} /\ MaxCandidates \in Nat \ {0, 1} /\ Costs \subseteq Nat \ {0}
  /\ \A r \in Requests :
       r.duration \in Nat \ {0} /\ r.earliest \in Nat /\ r.finish \in Nat

VARIABLES
  request,             \* the arguments of book_load
  usable,              \* there is a plan, no older than MAX_PLAN_AGE, that covers now
  verdicts,            \* start -> its plan: a cost, or why it is rejected
  spare,               \* the slots whose spare solar carries the load
  placed               \* the start and the reason that are stored

placementVars == <<request, usable, verdicts, spare, placed>>

Fails == -1            \* the planner has no plan
Imports == -2          \* _adds_window_import
Shorter == -3          \* _worse_at_window_entry
Verdicts == {Fails, Imports, Shorter} \cup Costs

Unplaced == [start |-> 0, reason |-> "none"]
SlotEnd(slot) == slot.at + slot.len
SlotTimes(slot) == slot.at .. SlotEnd(slot) - 1
HorizonEnd == Max({SlotEnd(Slots[i]) : i \in DOMAIN Slots})

------------------------------------------------------------------------------
\* with_booked_load: how much of a run is in a slot.
Overlap(slot, start, stop) ==
  Max({0, Min({SlotEnd(slot), stop}) - Max({slot.at, start})})
InThePlan(start, stop) ==
  LET sum[i \in 0..Len(Slots)] ==
        IF i = 0 THEN 0 ELSE sum[i - 1] + Overlap(Slots[i], start, stop)
  IN sum[Len(Slots)]

\* round() of Python, halves to even.
Rounded(n, d) ==
  LET whole == n \div d
      rest == 2 * (n % d)
  IN IF rest > d \/ (rest = d /\ whole % 2 = 1) THEN whole + 1 ELSE whole

Thinned(starts) ==
  IF Len(starts) <= MaxCandidates THEN starts
  ELSE [i \in 1..MaxCandidates |->
          starts[1 + Rounded((i - 1) * (Len(starts) - 1), MaxCandidates - 1)]]

OnGrid(from, to) ==
  LET first == ((from + SlotUnits - 1) \div SlotUnits) * SlotUnits
  IN [i \in 1..(IF first > to THEN 0 ELSE (to - first) \div SlotUnits + 1) |->
        first + (i - 1) * SlotUnits]

\* Mutant: the tail of a run may lie beyond the plan.
CandidatesUncapped(r) ==
  LET latest == r.finish - r.duration
      grid == OnGrid(r.earliest, latest)
  IN IF grid = <<>> /\ r.earliest <= latest THEN <<r.earliest>> ELSE Thinned(grid)

\* _candidates, of choose_start
Candidates(r) ==
  LET latest == Min({r.finish, HorizonEnd}) - r.duration
      grid == OnGrid(r.earliest, latest)
  IN IF grid = <<>> /\ r.earliest <= latest THEN <<r.earliest>> ELSE Thinned(grid)

\* One more start is tried: {} or the one start that is best so far.
Better(best, start) ==
  IF verdicts[start] \notin Costs THEN best
  ELSE IF best = {} \/ verdicts[start] < verdicts[Max(best)] THEN {start}
  ELSE best

\* choose_start: the first of the cheapest, if there is one.
CheapestStart(r) ==
  LET starts == Candidates(r)
      best[i \in 0..Len(starts)] == IF i = 0 THEN {} ELSE Better(best[i - 1], starts[i])
  IN best[Len(starts)]

\* excess_from_data and pick_start: the first run from earliest on, a slot's length
\* apart, that spare solar carries through.
Carried(start, stop) ==
  /\ InThePlan(start, stop) = stop - start
  /\ \A i \in DOMAIN Slots : Overlap(Slots[i], start, stop) > 0 => i \in spare
SunnyStarts(r) ==
  {s \in r.earliest..(r.finish - r.duration) :
     (s - r.earliest) % SlotUnits = 0 /\ Carried(s, s + r.duration)}

\* _plan_chooser: a plan says where, unless there is none that is fit to.
PlannedStart(r) == IF usable THEN CheapestStart(r) ELSE {}

\* async_book from the arguments to _add.
Place ==
  /\ placed = Unplaced
  /\ request.finish - request.earliest >= request.duration
  /\ placed' = CASE PlannedStart(request) # {} ->
                   [start |-> Max(PlannedStart(request)), reason |-> "lowest plan cost"]
                 [] PlannedStart(request) = {} /\ SunnyStarts(request) # {} ->
                   [start |-> Min(SunnyStarts(request)), reason |-> "fits spare solar"]
                 [] OTHER ->
                   [start |-> request.finish - request.duration, reason |-> "deadline"]
  /\ UNCHANGED <<request, usable, verdicts, spare>>

PlacementInit ==
  /\ request \in Requests
  /\ usable \in BOOLEAN
  /\ spare \in SUBSET DOMAIN Slots
  /\ verdicts \in [{Candidates(request)[i] : i \in DOMAIN Candidates(request)} -> Verdicts]
  /\ placed = Unplaced

PlacementSpec == PlacementInit /\ [][Place]_placementVars

------------------------------------------------------------------------------
\* Of a half hour that has begun only five minutes are planned (SlotSchedule):
\* there may be times before the plan's end that it has no slot for.
Holes == {t \in 0..HorizonEnd - 1 : \A i \in DOMAIN Slots : t \notin SlotTimes(Slots[i])}

\* The plan pays for all of a run but what falls into its holes.
PaidFor(start, stop) ==
  /\ stop <= HorizonEnd
  /\ InThePlan(start, stop) + Cardinality((start..stop - 1) \cap Holes) >= stop - start

(* The run is where it was asked for.  One placed by plan cost is paid for in *)
(* the plan to its end, none of its energy past the horizon where it would    *)
(* look free, nor anywhere before it that has a slot, and no start that was   *)
(* tried is admissible and cheaper, or as cheap and earlier (#1238); a start  *)
(* is tried whenever there is room for one.  One placed in the sun is carried *)
(* by it throughout.  What falls into a hole is not paid for (README).        *)
PlacedAsAsked ==
  placed # Unplaced =>
    LET stop == placed.start + request.duration
        Admissible == {s \in DOMAIN verdicts : usable /\ verdicts[s] \in Costs}
    IN
    /\ request.earliest <= placed.start /\ stop <= request.finish
    /\ request.earliest + request.duration <= Min({request.finish, HorizonEnd})
         => DOMAIN verdicts # {}
    /\ placed.reason = "lowest plan cost" =>
         /\ PaidFor(placed.start, stop)
         /\ \A s \in Admissible \ {placed.start} :
              \/ verdicts[placed.start] < verdicts[s]
              \/ verdicts[placed.start] = verdicts[s] /\ placed.start < s
    /\ placed.reason # "lowest plan cost" => Admissible = {}
    /\ placed.reason = "fits spare solar" => Carried(placed.start, stop)
=============================================================================
