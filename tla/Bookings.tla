------------------------------ MODULE Bookings ------------------------------
(* The loads the house books (bookings.py, engine/booked_load.py).  A booking  *)
(* is placed under a lock, against the bookings there are when its search, in  *)
(* a thread, begins; it is cancelled or reported on without the lock, while    *)
(* others are searched for or saved.  Every change is saved before its call    *)
(* returns.  Home Assistant may crash between any two steps, and the entry may *)
(* be reloaded under a booking that is being placed.                           *)
EXTENDS Integers, FiniteSets

CONSTANTS
  Loads,               \* the bookings there may be, which stand for their ids
  MaxStores            \* bound of the stores made

ASSUME BookingsAssumption == IsFiniteSet(Loads) /\ MaxStores \in Nat

VARIABLES
  store_loaded,        \* an entry with a store is loaded
  epoch,               \* how many stores there were, which names the latest
  bookings,            \* its _bookings: id -> status
  left_behind,         \* _bookings of the one before, which its calls still have
  calls,               \* id -> how far its book_load call is, and on which store
  saves,               \* commits whose save has not returned
  book_store,          \* what is on disk
  finished,            \* ids whose latest_finish has passed
  answered,            \* history: id -> its status in the last answer about it
  fixed_loads,         \* history: id -> the loads it was placed around
  overtaken            \* history: a store has saved after its successor had loaded

bookingVars == <<store_loaded, epoch, bookings, left_behind, calls, saves, book_store,
                 finished, answered, fixed_loads, overtaken>>

Absent == "absent"
Active == {"booked", "started"}
NoBookings == [b \in Loads |-> Absent]
NoCall == [phase |-> "none", epoch |-> 0]

\* The store a call works on: the latest, or the one before it.
In(e) == IF e = epoch THEN bookings ELSE left_behind

\* _prune
Pruned(held) == [b \in Loads |-> IF b \in finished THEN Absent ELSE held[b]]

\* active_loads of as_list
ActiveLoads(e) == {b \in Loads \ finished : In(e)[b] \in Active}

\* _NEXT_STATUS, and a cancellation.
NextStatus(status) ==
  CASE status = "booked"  -> {"started", "done", "cancelled"}
    [] status = "started" -> {"done", "cancelled"}
    [] OTHER              -> {}

\* A booking only moves forward.
AtLeast(status, earlier) == status = earlier \/ status \in NextStatus(earlier)

------------------------------------------------------------------------------
\* _commit as far as its save: the store drops what is over and hands the rest on.
Commit(e, loads, status) ==
  /\ LET held == Pruned([b \in Loads |-> IF b \in loads THEN status ELSE In(e)[b]])
     IN IF e = epoch THEN bookings' = held /\ UNCHANGED left_behind
        ELSE left_behind' = held /\ UNCHANGED bookings
  /\ saves' = saves \cup {[loads |-> loads, status |-> status, epoch |-> e]}

\* book_load is called; its window and its plan are of this moment.
Book(load) ==
  /\ store_loaded /\ calls[load].phase = "none" /\ load \notin finished
  /\ calls' = [calls EXCEPT ![load] = [phase |-> "queued", epoch |-> epoch]]
  /\ UNCHANGED <<store_loaded, epoch, bookings, left_behind, saves, book_store, finished,
                 answered, fixed_loads, overtaken>>

\* _placing is a store's own, and held until the save has returned.
Placing(e) == \E b \in Loads : calls[b].epoch = e /\ calls[b].phase \in {"searching", "saving"}

\* Mutant: no lock.
SearchUnlocked(load) ==
  /\ calls[load].phase = "queued"
  /\ calls' = [calls EXCEPT ![load].phase = "searching"]
  /\ fixed_loads' = [fixed_loads EXCEPT ![load] = ActiveLoads(calls[load].epoch)]
  /\ UNCHANGED <<store_loaded, epoch, bookings, left_behind, saves, book_store, finished,
                 answered, overtaken>>

\* The lock is taken; choose_start gets the bookings and goes off to the executor.
Search(load) ==
  /\ calls[load].phase = "queued" /\ ~Placing(calls[load].epoch)
  /\ calls' = [calls EXCEPT ![load].phase = "searching"]
  /\ fixed_loads' = [fixed_loads EXCEPT ![load] = ActiveLoads(calls[load].epoch)]
  /\ UNCHANGED <<store_loaded, epoch, bookings, left_behind, saves, book_store, finished,
                 answered, overtaken>>

\* _add, with the start that was found or the one the deadline leaves.
Add(load) ==
  /\ calls[load].phase = "searching"
  /\ calls' = [calls EXCEPT ![load].phase = "saving"]
  /\ Commit(calls[load].epoch, {load}, "booked")
  /\ UNCHANGED <<store_loaded, epoch, book_store, finished, answered, fixed_loads, overtaken>>

\* Mutant: a change answers without a save of its own.
ChangeUnsaved(hits, status) ==
  /\ store_loaded /\ hits # {}
  /\ status = "cancelled" \/ Cardinality(hits) = 1
  /\ \A b \in hits : status \in NextStatus(bookings[b])
  /\ bookings' = Pruned([b \in Loads |-> IF b \in hits THEN status ELSE bookings[b]])
  /\ answered' = [b \in Loads |-> IF b \in hits \ finished THEN status ELSE answered[b]]
  /\ UNCHANGED <<store_loaded, epoch, left_behind, calls, saves, book_store, finished,
                 fixed_loads, overtaken>>

\* async_cancel of one or of all of a name, and async_report of one: no lock.
Change(hits, status) ==
  /\ store_loaded /\ hits # {}
  /\ status = "cancelled" \/ Cardinality(hits) = 1
  /\ \A b \in hits : status \in NextStatus(bookings[b])
  /\ Commit(epoch, hits, status)
  /\ UNCHANGED <<store_loaded, epoch, calls, book_store, finished, answered, fixed_loads,
                 overtaken>>

\* The disk gets what the store has handed over last; the call returns with the
\* status its booking has by now, which another call may have moved on.
Saved(save) ==
  /\ book_store' = In(save.epoch)
  /\ saves' = saves \ {save}
  /\ answered' = [b \in Loads |->
       IF b \in save.loads \ finished THEN In(save.epoch)[b] ELSE answered[b]]
  /\ calls' = [b \in Loads |->
       IF b \in save.loads /\ save.status = "booked" THEN [calls[b] EXCEPT !.phase = "placed"]
       ELSE calls[b]]
  /\ overtaken' = (overtaken \/ save.epoch # epoch)
  /\ UNCHANGED <<store_loaded, epoch, bookings, left_behind, finished, fixed_loads>>

\* latest_finish passes.  The history forgets what nothing is claimed of any more.
IsOver(load) ==
  /\ load \notin finished
  /\ finished' = finished \cup {load}
  /\ answered' = [answered EXCEPT ![load] = Absent]
  /\ fixed_loads' = [b \in Loads |-> IF b = load THEN {} ELSE fixed_loads[b] \ {load}]
  /\ UNCHANGED <<store_loaded, epoch, bookings, left_behind, calls, saves, book_store, overtaken>>

------------------------------------------------------------------------------
\* The entry is unloaded; a call that is under way goes on with the store it has.
UnloadStore ==
  /\ store_loaded
  /\ store_loaded' = FALSE
  /\ UNCHANGED <<epoch, bookings, left_behind, calls, saves, book_store, finished,
                 answered, fixed_loads, overtaken>>

InProgress == saves # {} \/ \E b \in Loads : calls[b].phase \in {"queued", "searching"}

\* async_load into a new store.  Bound: no call is two stores behind.
LoadStore ==
  /\ ~store_loaded /\ epoch < MaxStores
  /\ \A b \in Loads : calls[b].phase \in {"queued", "searching", "saving"} => calls[b].epoch = epoch
  /\ \A save \in saves : save.epoch = epoch
  /\ store_loaded' = TRUE
  /\ epoch' = epoch + 1
  /\ left_behind' = IF InProgress THEN bookings ELSE NoBookings
  /\ bookings' = Pruned(book_store)
  /\ UNCHANGED <<calls, saves, book_store, finished, answered, fixed_loads, overtaken>>

\* A call that does not return has promised nothing.
Crash ==
  /\ epoch < MaxStores
  /\ store_loaded' = FALSE
  /\ bookings' = NoBookings /\ left_behind' = NoBookings
  /\ saves' = {}
  /\ calls' = [b \in Loads |->
       IF calls[b].phase = "none" THEN NoCall ELSE [calls[b] EXCEPT !.phase = "placed"]]
  /\ UNCHANGED <<epoch, book_store, finished, answered, fixed_loads, overtaken>>

BookingsInit ==
  /\ store_loaded = TRUE /\ epoch = 1
  /\ bookings = NoBookings /\ left_behind = NoBookings
  /\ calls = [b \in Loads |-> NoCall] /\ saves = {}
  /\ book_store = NoBookings /\ finished = {}
  /\ answered = NoBookings /\ fixed_loads = [b \in Loads |-> {}]
  /\ overtaken = FALSE

BookingsStep ==
  \/ \E load \in Loads : Book(load) \/ Search(load) \/ Add(load) \/ IsOver(load)
  \/ \E hits \in SUBSET Loads, status \in {"started", "done", "cancelled"} : Change(hits, status)
  \/ \E save \in saves : Saved(save)
  \/ UnloadStore \/ LoadStore \/ Crash

\* Bound: nothing is claimed once a store is overtaken.
BookingsNext == ~overtaken /\ BookingsStep

BookingsSpec == BookingsInit /\ [][BookingsNext]_bookingVars

------------------------------------------------------------------------------
(* What a call has answered is kept: the booking has at least that status on  *)
(* disk and in the store that is loaded, also after a crash (bookings.py:     *)
(* bookings survive a restart), whatever other calls save meanwhile -- until  *)
(* a store that an unloaded entry has left behind saves over its successor.   *)
AcknowledgedIsKept ==
  \A b \in Loads \ finished :
    (answered[b] # Absent /\ ~overtaken) =>
      /\ AtLeast(book_store[b], answered[b])
      /\ store_loaded => AtLeast(bookings[b], answered[b])

(* Of two loads that are still to run, one was placed around the other: no    *)
(* two searches each took the sun the other was given.                        *)
EachSeesTheEarlier ==
  \A a, b \in ActiveLoads(epoch) :
    (a # b /\ ~overtaken) => a \in fixed_loads[b] \/ b \in fixed_loads[a]

(* Both, over every order of searches, cancellations, reports and crashes.    *)
BookingsHold == AcknowledgedIsKept /\ EachSeesTheEarlier
=============================================================================
