---------------------------- MODULE RecordsProofs ----------------------------
(* Theorems about what LocalShift keeps: the bookings of loads, the load       *)
(* profiles, the records of a day and what is learned of the solar forecast,   *)
(* for every value of their constants.                                         *)
EXTENDS Bookings, LoadHistory, DecisionOutcomes, SolarPeriods,
        SequenceTheorems, FiniteSetTheorems, TLAPS

-----------------------------------------------------------------------------
(* Bookings                                                                  *)

Statuses == {Absent, "booked", "started", "done", "cancelled"}
Phases == {"none", "queued", "searching", "saving", "placed"}

BookingTypes ==
  /\ store_loaded \in BOOLEAN /\ overtaken \in BOOLEAN /\ epoch \in Nat
  /\ bookings \in [Loads -> Statuses] /\ left_behind \in [Loads -> Statuses]
  /\ book_store \in [Loads -> Statuses] /\ answered \in [Loads -> Statuses]
  /\ calls \in [Loads -> [phase : Phases, epoch : Nat]]
  /\ saves \subseteq [loads : SUBSET Loads, status : Statuses, epoch : Nat]
  /\ finished \subseteq Loads
  /\ fixed_loads \in [Loads -> SUBSET Loads]

\* a booking that is not placed yet is nowhere
UnplacedIsNowhere ==
  \A b \in Loads : calls[b].phase \in {"none", "queued", "searching"} =>
    /\ bookings[b] = Absent /\ left_behind[b] = Absent
    /\ book_store[b] = Absent /\ answered[b] = Absent
    /\ \A save \in saves : b \notin save.loads

\* the lock
OneIsPlaced ==
  \A a, b \in Loads :
    /\ calls[a].phase \in {"searching", "saving"}
    /\ calls[b].phase \in {"searching", "saving"}
    /\ calls[a].epoch = calls[b].epoch
    => a = b

\* the latest store may still be saved
Live ==
  \/ store_loaded
  \/ \E save \in saves : save.epoch = epoch
  \/ \E b \in Loads : calls[b].phase \in {"queued", "searching"} /\ calls[b].epoch = epoch

AnsweredIsHeld ==
  \A b \in Loads \ finished : answered[b] # Absent =>
    AtLeast(book_store[b], answered[b]) /\ (Live => AtLeast(bookings[b], answered[b]))

\* a search under way knows the loads of its store
SearchKnows ==
  \A a, b \in Loads \ finished :
    /\ calls[b].phase = "searching" /\ calls[b].epoch = epoch
    /\ bookings[a] \in Active
    => a \in fixed_loads[b]

\* of two loads in the store, one knows the other
Apart(held) ==
  \A a, b \in Loads \ finished :
    held[a] \in Active /\ held[b] \in Active /\ a # b =>
      a \in fixed_loads[b] \/ b \in fixed_loads[a]

BookingsInv ==
  /\ BookingTypes /\ UnplacedIsNowhere /\ OneIsPlaced
  /\ ~overtaken => AnsweredIsHeld /\ SearchKnows /\ Apart(bookings) /\ Apart(book_store)

LEMMA StatusesMoveForward ==
  ASSUME NEW current \in Statuses, NEW earlier \in Statuses, NEW next,
         AtLeast(current, earlier), next \in NextStatus(current)
  PROVE  /\ AtLeast(next, earlier)
         /\ next \in {"started", "done", "cancelled"} /\ current \in Active
BY DEF AtLeast, NextStatus, Statuses, Absent, Active

\* what a commit does to the latest store
LEMMA CommitKeeps ==
  ASSUME BookingTypes, NEW e \in Nat, NEW loads \in SUBSET Loads, NEW status \in Statuses,
         Commit(e, loads, status)
  PROVE  /\ bookings' \in [Loads -> Statuses] /\ left_behind' \in [Loads -> Statuses]
         /\ saves' \subseteq [loads : SUBSET Loads, status : Statuses, epoch : Nat]
         /\ \A save \in saves' : save \in saves \/ (save.loads = loads /\ save.epoch = e)
         /\ saves \subseteq saves'
         /\ \A b \in Loads \ loads :
              /\ bookings'[b] = bookings[b] \/ bookings'[b] = Absent
              /\ left_behind'[b] = left_behind[b] \/ left_behind'[b] = Absent
         /\ \A b \in (Loads \ loads) \ finished : bookings'[b] = bookings[b]
         /\ e = epoch => \A b \in loads \ finished : bookings'[b] = status
         /\ e # epoch => bookings' = bookings
<1>1. CASE e = epoch
  <2>1. /\ bookings' = [b \in Loads |-> IF b \in finished THEN Absent
                                        ELSE IF b \in loads THEN status ELSE bookings[b]]
        /\ left_behind' = left_behind
    BY <1>1 DEF Commit, In, Pruned
  <2>2. saves' = saves \cup {[loads |-> loads, status |-> status, epoch |-> e]}
    BY DEF Commit
  <2>3. saves' \subseteq [loads : SUBSET Loads, status : Statuses, epoch : Nat]
    BY <2>2 DEF BookingTypes
  <2>4. bookings' \in [Loads -> Statuses] /\ left_behind' \in [Loads -> Statuses]
    BY <2>1 DEF BookingTypes, Statuses, Absent
  <2>5. /\ \A save \in saves' : save \in saves \/ (save.loads = loads /\ save.epoch = e)
        /\ saves \subseteq saves'
    BY <2>2
  <2> QED
    BY <1>1, <2>1, <2>3, <2>4, <2>5
<1>2. CASE e # epoch
  <2>1. /\ left_behind' = [b \in Loads |-> IF b \in finished THEN Absent
                                           ELSE IF b \in loads THEN status ELSE left_behind[b]]
        /\ bookings' = bookings
    BY <1>2 DEF Commit, In, Pruned
  <2>2. saves' = saves \cup {[loads |-> loads, status |-> status, epoch |-> e]}
    BY DEF Commit
  <2>3. saves' \subseteq [loads : SUBSET Loads, status : Statuses, epoch : Nat]
    BY <2>2 DEF BookingTypes
  <2>4. bookings' \in [Loads -> Statuses] /\ left_behind' \in [Loads -> Statuses]
    BY <2>1 DEF BookingTypes, Statuses, Absent
  <2>5. /\ \A save \in saves' : save \in saves \/ (save.loads = loads /\ save.epoch = e)
        /\ saves \subseteq saves'
    BY <2>2
  <2> QED
    BY <1>2, <2>1, <2>3, <2>4, <2>5
<1> QED
  BY <1>1, <1>2

LEMMA BookKeeps ==
  ASSUME BookingsInv, ~overtaken, NEW load \in Loads, Book(load)
  PROVE  BookingsInv'
<1>1. /\ calls' \in [Loads -> [phase : Phases, epoch : Nat]]
      /\ \A b \in Loads \ {load} : calls'[b] = calls[b]
      /\ calls[load].phase = "none" /\ calls'[load].phase = "queued"
      /\ store_loaded
  BY DEF Book, BookingsInv, BookingTypes, Phases
<1>2. UNCHANGED <<store_loaded, epoch, bookings, left_behind, saves, book_store, finished,
                  answered, fixed_loads, overtaken>>
  BY DEF Book
<1>3. BookingTypes'
  BY <1>1, <1>2 DEF BookingsInv, BookingTypes
<1>4. UnplacedIsNowhere' /\ OneIsPlaced'
  BY <1>1, <1>2 DEF BookingsInv, UnplacedIsNowhere, OneIsPlaced
<1>5. AnsweredIsHeld' /\ SearchKnows' /\ Apart(bookings)' /\ Apart(book_store)'
  BY <1>1, <1>2 DEF BookingsInv, AnsweredIsHeld, SearchKnows, Apart, Live
<1> QED
  BY <1>3, <1>4, <1>5 DEF BookingsInv

LEMMA SearchKeeps ==
  ASSUME BookingsInv, ~overtaken, NEW load \in Loads, Search(load)
  PROVE  BookingsInv'
<1>1. /\ calls' \in [Loads -> [phase : Phases, epoch : Nat]]
      /\ \A b \in Loads \ {load} : calls'[b] = calls[b] /\ fixed_loads'[b] = fixed_loads[b]
      /\ calls[load].phase = "queued" /\ calls'[load].phase = "searching"
      /\ calls'[load].epoch = calls[load].epoch
      /\ ~Placing(calls[load].epoch)
      /\ fixed_loads' \in [Loads -> SUBSET Loads]
      /\ fixed_loads'[load] = ActiveLoads(calls[load].epoch)
  BY DEF Search, BookingsInv, BookingTypes, Phases, ActiveLoads
<1>2. UNCHANGED <<store_loaded, epoch, bookings, left_behind, saves, book_store, finished,
                  answered, overtaken>>
  BY DEF Search
<1>3. BookingTypes'
  BY <1>1, <1>2 DEF BookingsInv, BookingTypes
<1>4. UnplacedIsNowhere' /\ OneIsPlaced'
  BY <1>1, <1>2 DEF BookingsInv, UnplacedIsNowhere, OneIsPlaced, Placing
<1>5. AnsweredIsHeld'
  BY <1>1, <1>2 DEF BookingsInv, AnsweredIsHeld, Live
<1>6. SearchKnows'
  BY <1>1, <1>2 DEF BookingsInv, SearchKnows, ActiveLoads, In
<1>7. bookings[load] = Absent /\ book_store[load] = Absent
  BY <1>1 DEF BookingsInv, UnplacedIsNowhere
<1>8. Apart(bookings)' /\ Apart(book_store)'
  BY <1>1, <1>2, <1>7 DEF BookingsInv, Apart, Active, Absent
<1> QED
  BY <1>3, <1>4, <1>5, <1>6, <1>8 DEF BookingsInv

LEMMA AddKeeps ==
  ASSUME BookingsInv, ~overtaken, NEW load \in Loads, Add(load)
  PROVE  BookingsInv'
<1> DEFINE e == calls[load].epoch
<1>1. /\ calls' \in [Loads -> [phase : Phases, epoch : Nat]]
      /\ \A b \in Loads \ {load} : calls'[b] = calls[b]
      /\ calls[load].phase = "searching" /\ calls'[load].phase = "saving"
      /\ calls'[load].epoch = calls[load].epoch
  BY DEF Add, BookingsInv, BookingTypes, Phases
<1>2. UNCHANGED <<store_loaded, epoch, book_store, finished, answered, fixed_loads, overtaken>>
  BY DEF Add
<1>3. /\ e \in Nat /\ {load} \in SUBSET Loads /\ "booked" \in Statuses
      /\ Commit(e, {load}, "booked") /\ BookingTypes
  BY DEF Add, BookingsInv, BookingTypes, Statuses
<1>4. /\ bookings' \in [Loads -> Statuses] /\ left_behind' \in [Loads -> Statuses]
      /\ saves' \subseteq [loads : SUBSET Loads, status : Statuses, epoch : Nat]
      /\ \A save \in saves' : save \in saves \/ (save.loads = {load} /\ save.epoch = e)
      /\ \A b \in Loads \ {load} :
           /\ bookings'[b] = bookings[b] \/ bookings'[b] = Absent
           /\ left_behind'[b] = left_behind[b] \/ left_behind'[b] = Absent
      /\ \A b \in (Loads \ {load}) \ finished : bookings'[b] = bookings[b]
      /\ e # epoch => bookings' = bookings
  BY <1>3, CommitKeeps
<1>5. BookingTypes'
  BY <1>1, <1>2, <1>4 DEF BookingsInv, BookingTypes
<1>6. UnplacedIsNowhere'
  BY <1>1, <1>2, <1>4 DEF BookingsInv, UnplacedIsNowhere
<1>7. OneIsPlaced'
  BY <1>1 DEF BookingsInv, OneIsPlaced
<1>8. answered[load] = Absent /\ book_store[load] = Absent
  BY <1>1 DEF BookingsInv, UnplacedIsNowhere
<1>9. AnsweredIsHeld'
  <2>1. Live' => Live
    BY <1>1, <1>2, <1>4 DEF Live
  <2> QED
    BY <1>2, <1>4, <1>8, <2>1 DEF BookingsInv, AnsweredIsHeld, AtLeast, NextStatus
<1>10. SearchKnows'
  <2>1. \A b \in Loads \ {load} : calls[b].phase = "searching" => calls[b].epoch # e
    BY <1>1 DEF BookingsInv, OneIsPlaced
  <2>2. CASE e = epoch
    BY <1>1, <1>2, <2>1, <2>2 DEF SearchKnows
  <2>3. CASE e # epoch
    BY <1>1, <1>2, <1>4, <2>3 DEF BookingsInv, SearchKnows
  <2> QED
    BY <2>2, <2>3
<1>11. Apart(bookings)'
  <2>1. CASE e = epoch
    BY <1>1, <1>2, <1>4, <2>1 DEF BookingsInv, SearchKnows, Apart
  <2>2. CASE e # epoch
    BY <1>2, <1>4, <2>2 DEF BookingsInv, Apart
  <2> QED
    BY <2>1, <2>2
<1>12. Apart(book_store)'
  BY <1>2 DEF BookingsInv, Apart
<1> QED
  BY <1>5, <1>6, <1>7, <1>9, <1>10, <1>11, <1>12 DEF BookingsInv

LEMMA ChangeKeeps ==
  ASSUME BookingsInv, ~overtaken, NEW hits \in SUBSET Loads,
         NEW status \in {"started", "done", "cancelled"}, Change(hits, status)
  PROVE  BookingsInv'
<1>1. /\ UNCHANGED <<store_loaded, epoch, calls, book_store, finished, answered, fixed_loads,
                     overtaken>>
      /\ store_loaded /\ \A b \in hits : status \in NextStatus(bookings[b])
  BY DEF Change
<1>2. epoch \in Nat /\ status \in Statuses /\ Commit(epoch, hits, status) /\ BookingTypes
  BY DEF Change, BookingsInv, BookingTypes, Statuses
<1>3. /\ bookings' \in [Loads -> Statuses] /\ left_behind' \in [Loads -> Statuses]
      /\ saves' \subseteq [loads : SUBSET Loads, status : Statuses, epoch : Nat]
      /\ \A save \in saves' : save \in saves \/ (save.loads = hits /\ save.epoch = epoch)
      /\ \A b \in Loads \ hits :
           /\ bookings'[b] = bookings[b] \/ bookings'[b] = Absent
           /\ left_behind'[b] = left_behind[b] \/ left_behind'[b] = Absent
      /\ \A b \in (Loads \ hits) \ finished : bookings'[b] = bookings[b]
      /\ \A b \in hits \ finished : bookings'[b] = status
  <2>1. /\ bookings' \in [Loads -> Statuses] /\ left_behind' \in [Loads -> Statuses]
        /\ saves' \subseteq [loads : SUBSET Loads, status : Statuses, epoch : Nat]
        /\ \A save \in saves' : save \in saves \/ (save.loads = hits /\ save.epoch = epoch)
    BY <1>2, CommitKeeps
  <2>2. \A b \in Loads \ hits :
          /\ bookings'[b] = bookings[b] \/ bookings'[b] = Absent
          /\ left_behind'[b] = left_behind[b] \/ left_behind'[b] = Absent
    BY <1>2, CommitKeeps
  <2>3. /\ \A b \in (Loads \ hits) \ finished : bookings'[b] = bookings[b]
        /\ \A b \in hits \ finished : bookings'[b] = status
    BY <1>2, CommitKeeps
  <2> QED
    BY <2>1, <2>2, <2>3
<1>4. left_behind' = left_behind
  BY <1>2 DEF Commit
<1>5. \A b \in hits : bookings[b] \in Active
  BY <1>1, <1>2 DEF NextStatus, Active
<1>6. BookingTypes'
  BY <1>1, <1>2, <1>3 DEF BookingTypes
<1>7. UnplacedIsNowhere'
  <2>1. \A b \in hits : calls[b].phase \notin {"none", "queued", "searching"}
    BY <1>5 DEF BookingsInv, UnplacedIsNowhere, Active, Absent
  <2> QED
    BY <1>1, <1>3, <1>4, <2>1 DEF BookingsInv, UnplacedIsNowhere
<1>8. OneIsPlaced'
  BY <1>1 DEF BookingsInv, OneIsPlaced
<1>9. AnsweredIsHeld'
  <2> SUFFICES ASSUME NEW b \in Loads \ finished, answered[b] # Absent
               PROVE  AtLeast(book_store[b], answered[b]) /\ AtLeast(bookings'[b], answered[b])
    BY <1>1 DEF AnsweredIsHeld
  <2>1. AtLeast(book_store[b], answered[b]) /\ AtLeast(bookings[b], answered[b])
    BY <1>1 DEF BookingsInv, AnsweredIsHeld, Live
  <2>2. CASE b \in hits
    <3>1. bookings'[b] = status /\ status \in NextStatus(bookings[b])
      BY <1>1, <1>3, <2>2
    <3>2. bookings[b] \in Statuses /\ answered[b] \in Statuses
      BY <1>2 DEF BookingTypes
    <3> QED
      BY <2>1, <3>1, <3>2, StatusesMoveForward
  <2>3. CASE b \notin hits
    BY <1>3, <2>1, <2>3
  <2> QED
    BY <2>1, <2>2, <2>3
<1>10. \A b \in Loads \ finished : bookings'[b] \in Active => bookings[b] \in Active
  BY <1>3, <1>5
<1>11. SearchKnows' /\ Apart(bookings)'
  BY <1>1, <1>10 DEF BookingsInv, SearchKnows, Apart
<1>12. Apart(book_store)'
  BY <1>1 DEF BookingsInv, Apart
<1> QED
  BY <1>6, <1>7, <1>8, <1>9, <1>11, <1>12 DEF BookingsInv

LEMMA SavedKeeps ==
  ASSUME BookingsInv, ~overtaken, NEW save \in saves, Saved(save)
  PROVE  BookingsInv'
<1>1. /\ book_store' = In(save.epoch) /\ saves' = saves \ {save}
      /\ \A b \in Loads : answered'[b] = IF b \in save.loads \ finished THEN In(save.epoch)[b]
                                        ELSE answered[b]
      /\ \A b \in Loads : /\ calls'[b] = calls[b] \/ calls'[b].phase = "placed"
      /\ overtaken' = (overtaken \/ save.epoch # epoch)
      /\ UNCHANGED <<store_loaded, epoch, bookings, left_behind, finished, fixed_loads>>
  BY DEF Saved, BookingsInv, BookingTypes
<1>2. In(save.epoch) \in [Loads -> Statuses]
  BY DEF BookingsInv, BookingTypes, In
<1>3. BookingTypes'
  <2>1. answered' \in [Loads -> Statuses]
    BY <1>2 DEF Saved, BookingsInv, BookingTypes
  <2>2. calls' \in [Loads -> [phase : Phases, epoch : Nat]]
    BY DEF Saved, BookingsInv, BookingTypes, Phases
  <2>3. overtaken' \in BOOLEAN
    BY <1>1
  <2> QED
    BY <1>1, <1>2, <2>1, <2>2, <2>3 DEF BookingsInv, BookingTypes
<1>4. UnplacedIsNowhere'
  BY <1>1 DEF BookingsInv, UnplacedIsNowhere, In
<1>5. OneIsPlaced'
  BY <1>1 DEF BookingsInv, OneIsPlaced
<1>6. ASSUME ~overtaken' PROVE AnsweredIsHeld' /\ SearchKnows' /\ Apart(bookings)' /\ Apart(book_store)'
  <2>1. save.epoch = epoch
    BY <1>1, <1>6
  <2>2. Live /\ book_store' = bookings
    BY <1>1, <2>1 DEF Live, In
  <2>3. AnsweredIsHeld'
    BY <1>1, <2>1, <2>2 DEF BookingsInv, AnsweredIsHeld, In, AtLeast
  <2>4. SearchKnows'
    BY <1>1 DEF BookingsInv, SearchKnows
  <2>5. Apart(bookings)' /\ Apart(book_store)'
    BY <1>1, <2>2 DEF BookingsInv, Apart
  <2> QED
    BY <2>3, <2>4, <2>5
<1> QED
  BY <1>3, <1>4, <1>5, <1>6 DEF BookingsInv

LEMMA IsOverKeeps ==
  ASSUME BookingsInv, ~overtaken, NEW load \in Loads, IsOver(load)
  PROVE  BookingsInv'
<1>1. /\ UNCHANGED <<store_loaded, epoch, bookings, left_behind, calls, saves, book_store,
                     overtaken>>
      /\ finished' = finished \cup {load}
      /\ answered' \in [Loads -> Statuses] /\ answered'[load] = Absent
      /\ \A b \in Loads \ {load} : answered'[b] = answered[b]
      /\ fixed_loads' \in [Loads -> SUBSET Loads]
      /\ \A b \in Loads \ {load} : fixed_loads'[b] = fixed_loads[b] \ {load}
  BY DEF IsOver, BookingsInv, BookingTypes, Statuses
<1>2. BookingTypes'
  BY <1>1 DEF BookingsInv, BookingTypes
<1>3. UnplacedIsNowhere' /\ OneIsPlaced'
  BY <1>1 DEF BookingsInv, UnplacedIsNowhere, OneIsPlaced
<1>4. AnsweredIsHeld'
  BY <1>1 DEF BookingsInv, AnsweredIsHeld, Live
<1>5. SearchKnows' /\ Apart(bookings)' /\ Apart(book_store)'
  BY <1>1 DEF BookingsInv, SearchKnows, Apart
<1> QED
  BY <1>2, <1>3, <1>4, <1>5 DEF BookingsInv

LEMMA RestartsKeep ==
  ASSUME BookingsInv, ~overtaken, UnloadStore \/ LoadStore \/ Crash
  PROVE  BookingsInv'
<1>1. CASE UnloadStore
  <2>1. /\ store_loaded' = FALSE
        /\ UNCHANGED <<epoch, bookings, left_behind, calls, saves, book_store, finished,
                       answered, fixed_loads, overtaken>>
    BY <1>1 DEF UnloadStore
  <2>2. BookingTypes'
    BY <2>1 DEF BookingsInv, BookingTypes
  <2>3. UnplacedIsNowhere' /\ OneIsPlaced'
    BY <2>1 DEF BookingsInv, UnplacedIsNowhere, OneIsPlaced
  <2>4. AnsweredIsHeld'
    BY <2>1 DEF BookingsInv, AnsweredIsHeld, Live
  <2>5. SearchKnows' /\ Apart(bookings)' /\ Apart(book_store)'
    BY <2>1 DEF BookingsInv, SearchKnows, Apart
  <2> QED
    BY <2>2, <2>3, <2>4, <2>5 DEF BookingsInv
<1>2. CASE LoadStore
  <2>1. /\ store_loaded' = TRUE /\ epoch' = epoch + 1
        /\ \A b \in Loads :
             calls[b].phase \in {"queued", "searching", "saving"} => calls[b].epoch = epoch
        /\ left_behind' = bookings \/ left_behind' = NoBookings
        /\ bookings' = [b \in Loads |-> IF b \in finished THEN Absent ELSE book_store[b]]
        /\ UNCHANGED <<calls, saves, book_store, finished, answered, fixed_loads, overtaken>>
    BY <1>2 DEF LoadStore, Pruned
  <2>2. BookingTypes'
    BY <2>1 DEF BookingsInv, BookingTypes, NoBookings, Statuses, Absent
  <2>3. UnplacedIsNowhere'
    BY <2>1 DEF BookingsInv, UnplacedIsNowhere, NoBookings
  <2>4. OneIsPlaced'
    BY <2>1 DEF BookingsInv, OneIsPlaced
  <2>5. AnsweredIsHeld' /\ Apart(bookings)' /\ Apart(book_store)'
    BY <2>1 DEF BookingsInv, AnsweredIsHeld, Apart
  <2>6. SearchKnows'
    BY <2>1 DEF BookingsInv, BookingTypes, SearchKnows
  <2> QED
    BY <2>2, <2>3, <2>4, <2>5, <2>6 DEF BookingsInv
<1>3. CASE Crash
  <2>1. /\ store_loaded' = FALSE /\ bookings' = NoBookings /\ left_behind' = NoBookings
        /\ saves' = {}
        /\ \A b \in Loads : \/ calls[b].phase = "none" /\ calls'[b] = NoCall
                            \/ calls'[b].phase = "placed"
        /\ calls' \in [Loads -> [phase : Phases, epoch : Nat]]
        /\ UNCHANGED <<epoch, book_store, finished, answered, fixed_loads, overtaken>>
    BY <1>3 DEF Crash, BookingsInv, BookingTypes, Phases, NoCall
  <2>2. BookingTypes'
    BY <2>1 DEF BookingsInv, BookingTypes, NoBookings, Statuses, Absent
  <2>3. UnplacedIsNowhere' /\ OneIsPlaced'
    BY <2>1 DEF BookingsInv, UnplacedIsNowhere, OneIsPlaced, NoBookings, NoCall
  <2>4. ~Live'
    BY <2>1 DEF Live, NoCall
  <2>5. AnsweredIsHeld'
    BY <2>1, <2>4 DEF BookingsInv, AnsweredIsHeld
  <2>6. SearchKnows' /\ Apart(bookings)' /\ Apart(book_store)'
    BY <2>1 DEF BookingsInv, SearchKnows, Apart, NoCall, NoBookings, Active, Absent
  <2> QED
    BY <2>2, <2>3, <2>5, <2>6 DEF BookingsInv
<1> QED
  BY <1>1, <1>2, <1>3

(* What a call has answered is kept on disk and in the store that is loaded,  *)
(* and of two loads still to run one was placed around the other: for any     *)
(* number of loads and of restarts.                                           *)
THEOREM BookingsHoldCorrect == BookingsSpec => []BookingsHold
<1>1. BookingsInit => BookingsInv
  <2> SUFFICES ASSUME BookingsInit PROVE BookingsInv
    OBVIOUS
  <2>1. BookingTypes
    BY DEF BookingsInit, BookingTypes, NoBookings, NoCall, Statuses, Phases, Absent
  <2>2. UnplacedIsNowhere /\ OneIsPlaced
    BY DEF BookingsInit, UnplacedIsNowhere, OneIsPlaced, NoBookings, NoCall
  <2>3. AnsweredIsHeld /\ SearchKnows /\ Apart(bookings) /\ Apart(book_store)
    BY DEF BookingsInit, AnsweredIsHeld, SearchKnows, Apart, NoBookings, NoCall, Absent, Active
  <2> QED
    BY <2>1, <2>2, <2>3 DEF BookingsInv
<1>2. BookingsInv /\ [BookingsNext]_bookingVars => BookingsInv'
  <2> SUFFICES ASSUME BookingsInv, [BookingsNext]_bookingVars PROVE BookingsInv'
    OBVIOUS
  <2>1. CASE UNCHANGED bookingVars
    BY <2>1 DEF bookingVars, BookingsInv, BookingTypes, UnplacedIsNowhere, OneIsPlaced,
                AnsweredIsHeld, SearchKnows, Apart, Live
  <2>2. CASE BookingsNext
    BY <2>2, BookKeeps, SearchKeeps, AddKeeps, ChangeKeeps, SavedKeeps, IsOverKeeps, RestartsKeep
       DEF BookingsNext, BookingsStep
  <2> QED
    BY <2>1, <2>2
<1>3. BookingsInv => BookingsHold
  <2> SUFFICES ASSUME BookingsInv PROVE BookingsHold
    OBVIOUS
  <2>1. AcknowledgedIsKept
    BY DEF BookingsInv, AcknowledgedIsKept, AnsweredIsHeld, Live
  <2>2. EachSeesTheEarlier
    BY DEF BookingsInv, EachSeesTheEarlier, Apart, ActiveLoads, In
  <2> QED
    BY <2>1, <2>2 DEF BookingsHold
<1> QED
  BY <1>1, <1>2, <1>3, PTL DEF BookingsSpec

-----------------------------------------------------------------------------
(* The load profiles                                                         *)

HistoryTypes ==
  /\ quarter \in Nat
  /\ house \in [0..(Quarters - 1) -> {"on", "off", "gone"}]
  /\ \A f \in fetches : f.at \in 0..quarter
  /\ \A h \in profile.hours : h \in Nat
  /\ \A h \in away_profile : h \in Nat

\* an hour of the home profile, or of the other, which is over
Lived(h) ==
  \A q \in QuartersOf(h) :
    /\ q < quarter
    /\ house[q] # "on"
    /\ (house[q] = "gone" /\ q - 1 \in QuartersOf(h)) => house[q - 1] # "on"
Vacant(h) == \A q \in QuartersOf(h) : q < quarter /\ house[q] # "off"

HistoryInv ==
  /\ HistoryTypes
  /\ profile.away => \A h \in profile.hours : Lived(h)
  /\ \A h \in away_profile : Vacant(h)

LEMMA QuartersOfRows ==
  ASSUME HistoryTypes, NEW f \in fetches, NEW h \in Rows(f), NEW q \in QuartersOf(h)
  PROVE  /\ h \in Nat /\ FirstHour(f) \in Nat
         /\ q \in HourStart(FirstHour(f))..(f.at - 1)
         /\ q \in Nat /\ q < quarter
<1>1. /\ HourQuarters \in Nat \ {0} /\ WindowHours \in Nat /\ DayHours \in Nat /\ Quarters \in Nat
  BY HistoryAssumption
<1>2. f.at \in Nat /\ f.at <= quarter /\ quarter \in Nat
  BY DEF HistoryTypes
<1>3. f.at \div HourQuarters \in Int
  BY <1>1, <1>2
<1>4. FirstHour(f) \in Nat
  BY <1>1, <1>3 DEF FirstHour
<1>5. h \in Nat /\ h >= FirstHour(f) /\ HourStart(h + 1) <= f.at
  BY <1>1, <1>4 DEF Rows
<1>6. HourStart(h + 1) = HourStart(h) + HourQuarters /\ HourStart(h) \in Nat
  BY <1>1, <1>5 DEF HourStart
<1>7. HourStart(FirstHour(f)) <= HourStart(h) /\ HourStart(FirstHour(f)) \in Nat
  BY <1>1, <1>4, <1>5 DEF HourStart
<1> HIDE DEF HourStart
<1>8. q \in Int /\ HourStart(h) <= q /\ q <= HourStart(h) + HourQuarters - 1
  BY <1>1, <1>6 DEF QuartersOf
<1> QED
  BY <1>1, <1>2, <1>4, <1>5, <1>6, <1>7, <1>8

\* what a fetch counts as home, the house was lived in for
LEMMA HomeRowsAreLived ==
  ASSUME HistoryTypes, NEW f \in fetches, f.away, NEW h \in HomeRows(f)
  PROVE  h \in Nat /\ Lived(h)
<1>1. h \in Rows(f) /\ QuartersOf(h) \cap AwayQuarters(f) = {}
  BY DEF HomeRows, AwayHours
<1> SUFFICES ASSUME NEW q \in QuartersOf(h)
             PROVE  /\ h \in Nat /\ q < quarter /\ house[q] # "on"
                    /\ (house[q] = "gone" /\ q - 1 \in QuartersOf(h)) => house[q - 1] # "on"
  <2>1. h \in Nat
    BY <1>1, HistoryAssumption DEF Rows
  <2> QED
    BY <2>1 DEF Lived
<1> DEFINE from == HourStart(FirstHour(f))
<1>2. /\ h \in Nat /\ q \in from..(f.at - 1) /\ q \in Nat /\ q < quarter
      /\ FirstHour(f) \in Nat /\ from \in Nat
  <2>1. FirstHour(f) \in Nat => from \in Nat
    BY HistoryAssumption DEF HourStart
  <2> QED
    BY <1>1, <2>1, QuartersOfRows
<1> HIDE DEF from
<1>3. ~IsAway(q, from)
  BY <1>1, <1>2 DEF AwayQuarters, from
<1>4. house[q] # "on"
  <2> SUFFICES ASSUME house[q] = "on" PROVE FALSE
    OBVIOUS
  <2>1. q \in from..q /\ \A r \in q..q : house[r] # "off"
    BY <1>2
  <2> QED
    BY <1>3, <2>1 DEF IsAway
<1>5. ASSUME house[q] = "gone", q - 1 \in QuartersOf(h), house[q - 1] = "on" PROVE FALSE
  <2>1. q - 1 \in from..(f.at - 1)
    BY <1>1, <1>5, QuartersOfRows DEF from
  <2>2. q - 1 \in from..q /\ \A r \in (q - 1)..q : house[r] # "off"
    BY <1>2, <1>5, <2>1
  <2> QED
    BY <1>3, <1>5, <2>2 DEF IsAway
<1> QED
  BY <1>2, <1>4, <1>5

\* what a fetch counts as away, the house was left for
LEMMA FullAwayHoursAreLeft ==
  ASSUME HistoryTypes, NEW f \in fetches, NEW h \in FullAwayHours(f)
  PROVE  h \in Nat /\ Vacant(h)
<1>1. h \in Rows(f) /\ QuartersOf(h) \subseteq AwayQuarters(f)
  BY DEF FullAwayHours
<1>2. h \in Nat
  BY <1>1, HistoryAssumption DEF Rows
<1> SUFFICES ASSUME NEW q \in QuartersOf(h) PROVE q < quarter /\ house[q] # "off"
  BY <1>2 DEF Vacant
<1> DEFINE from == HourStart(FirstHour(f))
<1>3. q \in from..(f.at - 1) /\ q \in Nat /\ q < quarter
  BY <1>1, QuartersOfRows
<1>4. IsAway(q, from)
  BY <1>1 DEF AwayQuarters
<1> HIDE DEF from
<1>5. PICK since \in from..q : house[since] = "on" /\ \A r \in since..q : house[r] # "off"
  BY <1>4 DEF IsAway
<1>6. from \in Int
  BY <1>1, QuartersOfRows, HistoryAssumption DEF from, HourStart
<1>7. q \in since..q
  BY <1>3, <1>5, <1>6
<1> QED
  BY <1>3, <1>5, <1>7

(* No hour of a lived-in house is in the away profile, nor the other way      *)
(* round, for any lengths of the hour, the day and the window.                *)
THEOREM EmptyHouseIsApartCorrect == HistorySpec => []EmptyHouseIsApart
<1>1. HistoryInit => HistoryInv
  BY HistoryAssumption DEF HistoryInit, HistoryInv, HistoryTypes, NoProfile
<1>2. HistoryInv /\ [HistoryNext]_historyVars => HistoryInv'
  <2> SUFFICES ASSUME HistoryInv, [HistoryNext]_historyVars PROVE HistoryInv'
    OBVIOUS
  <2>1. CASE UNCHANGED historyVars
    BY <2>1 DEF historyVars, HistoryInv, HistoryTypes, Lived, Vacant
  <2>2. ASSUME NEW state \in {"on", "off", "gone"}, QuarterPasses(state) PROVE HistoryInv'
    <3>1. /\ quarter' = quarter + 1 /\ UNCHANGED <<away_option, fetches, profile, away_profile>>
          /\ house' \in [0..(Quarters - 1) -> {"on", "off", "gone"}]
          /\ \A q \in 0..(Quarters - 1) : q # quarter => house'[q] = house[q]
          /\ quarter < Quarters /\ quarter \in Nat
      BY <2>2 DEF QuarterPasses, HistoryInv, HistoryTypes
    <3>2. HistoryTypes'
      BY <3>1 DEF HistoryInv, HistoryTypes
    <3>3. \A h \in Nat : \A q \in QuartersOf(h) : q \in Nat
      BY HistoryAssumption DEF QuartersOf, HourStart
    <3>4. \A q \in Nat : q < quarter => q < quarter' /\ house'[q] = house[q]
      BY <3>1, HistoryAssumption
    <3>5. \A h \in Nat : Lived(h) => Lived(h)'
      <4> SUFFICES ASSUME NEW h \in Nat, Lived(h), NEW q \in QuartersOf(h)
                   PROVE  /\ q < quarter' /\ house'[q] # "on"
                          /\ (house'[q] = "gone" /\ q - 1 \in QuartersOf(h)) => house'[q - 1] # "on"
        BY DEF Lived, QuartersOf, HourStart
      <4>1. /\ q < quarter' /\ house'[q] = house[q]
            /\ q - 1 \in QuartersOf(h) => house'[q - 1] = house[q - 1]
        BY <3>3, <3>4 DEF Lived
      <4> QED
        BY <4>1 DEF Lived
    <3>6. \A h \in Nat : Vacant(h) => Vacant(h)'
      <4> SUFFICES ASSUME NEW h \in Nat, Vacant(h), NEW q \in QuartersOf(h)
                   PROVE  q < quarter' /\ house'[q] # "off"
        BY DEF Vacant, QuartersOf, HourStart
      <4> QED
        BY <3>3, <3>4 DEF Vacant
    <3> QED
      BY <3>1, <3>2, <3>5, <3>6 DEF HistoryInv, HistoryTypes
  <2>3. CASE OptionChanges
    BY <2>3 DEF OptionChanges, HistoryInv, HistoryTypes, Lived, Vacant
  <2>4. CASE Clear
    <3>1. ~NoProfile.away /\ NoProfile.hours = {}
      BY DEF NoProfile
    <3> QED
      BY <2>4, <3>1 DEF Clear, HistoryInv, HistoryTypes, Lived, Vacant
  <2>5. CASE StartFetch
    <3>1. /\ UNCHANGED <<quarter, house, away_option, profile, away_profile>>
          /\ \A f \in fetches' : f \in fetches \/ f.at = quarter
      BY <2>5 DEF StartFetch
    <3> QED
      BY <3>1 DEF HistoryInv, HistoryTypes, Lived, Vacant
  <2>6. ASSUME NEW f \in fetches, NEW readable \in BOOLEAN, Fetched(f, readable)
        PROVE  HistoryInv'
    <3>1. /\ UNCHANGED <<quarter, house, away_option>> /\ fetches' \subseteq fetches
      BY <2>6 DEF Fetched
    <3>2. \/ profile' = profile
          \/ profile'.hours = HomeRows(f) /\ profile'.away = f.away
      BY <2>6 DEF Fetched
    <3>3. \A h \in away_profile' : h \in away_profile \/ (f.away /\ h \in FullAwayHours(f))
      BY <2>6 DEF Fetched
    <3>4. \A h \in HomeRows(f) : h \in Nat
      BY HistoryAssumption DEF HomeRows, Rows
    <3>5. HistoryTypes /\ \A h \in FullAwayHours(f) : h \in Nat /\ Vacant(h)
      BY FullAwayHoursAreLeft DEF HistoryInv
    <3>6. HistoryTypes'
      BY <3>1, <3>2, <3>3, <3>4, <3>5 DEF HistoryTypes
    <3>7. (\A h : Lived(h)' <=> Lived(h)) /\ (\A h : Vacant(h)' <=> Vacant(h))
      BY <3>1 DEF Lived, Vacant
    <3>8. ASSUME profile'.away PROVE \A h \in profile'.hours : Lived(h)
      <4>1. CASE profile' = profile
        BY <3>8, <4>1 DEF HistoryInv
      <4>2. CASE profile'.hours = HomeRows(f) /\ profile'.away = f.away
        BY <3>5, <3>8, <4>2, HomeRowsAreLived
      <4> QED
        BY <3>2, <4>1, <4>2
    <3>9. \A h \in away_profile' : Vacant(h)
      BY <3>3, <3>5 DEF HistoryInv
    <3> QED
      BY <3>6, <3>7, <3>8, <3>9 DEF HistoryInv
  <2> QED
    BY <2>1, <2>2, <2>3, <2>4, <2>5, <2>6 DEF HistoryNext
<1>3. HistoryInv => EmptyHouseIsApart
  BY DEF HistoryInv, EmptyHouseIsApart, Lived, Vacant
<1> QED
  BY <1>1, <1>2, <1>3, PTL DEF HistorySpec

-----------------------------------------------------------------------------
(* The records of a day                                                      *)

Kept == [kwh : Nat, cost : Int]

DayTypes ==
  /\ now \in Nat /\ now < Days * DayLength
  /\ process \in {"down", "loading", "running"}
  /\ totals \in Kept /\ totals_date \in Int /\ last_target_reset_date \in Int
  /\ target_reached_today \in BOOLEAN /\ restored \in BOOLEAN
  /\ metered \in [0..(Days - 1) -> Kept]
  /\ store.totals \in Kept /\ store.date \in Int

\* no record is dated after today
NoneIsAhead ==
  /\ totals_date \in -1..Today /\ last_target_reset_date <= Today
  /\ store.date \in -1..Today

Within(sums, date) == sums.kwh <= IF date = NoDay THEN 0 ELSE metered[date].kwh

TotalsWithin ==
  /\ process # "down" => Within(totals, totals_date)
  /\ Within(store.totals, store.date)

\* what RememberedOfToday says of a process that runs, from its restart on
EntryFromRestart ==
  (process # "down" /\ restored /\ store.date = Today /\ store.entry.date = Today)
    => dw_entry = store.entry
LatchFromRestart ==
  (process # "down" /\ last_target_reset_date = Today /\ target_reached_today)
    => reached_on = Today

DayInv == DayTypes /\ NoneIsAhead /\ TotalsWithin /\ EntryFromRestart /\ LatchFromRestart

LEMMA Quotient ==
  ASSUME NEW t \in Nat, NEW n \in Nat \ {0}
  PROVE  t \div n \in Nat /\ n * (t \div n) <= t /\ t < n * (t \div n) + n
OBVIOUS

LEMMA DayGrows ==
  ASSUME NEW t \in Nat
  PROVE  Day(t) \in Nat /\ Day(t) <= Day(t + 1)
<1> DEFINE a == t \div DayLength
           b == (t + 1) \div DayLength
<1>1. a \in Nat /\ DayLength * a <= t
  BY Quotient, RecordsAssumption
<1>2. b \in Nat /\ t + 1 < DayLength * b + DayLength
  <2>1. t + 1 \in Nat /\ DayLength \in Nat \ {0}
    BY RecordsAssumption
  <2> QED
    BY <2>1, Quotient
<1> HIDE DEF a, b
<1>3. ASSUME a >= b + 1 PROVE FALSE
  <2>1. DayLength * a >= DayLength * (b + 1)
    BY <1>1, <1>2, <1>3, RecordsAssumption
  <2>2. DayLength * (b + 1) = DayLength * b + DayLength
    BY <1>2, RecordsAssumption
  <2>3. DayLength * a \in Nat /\ DayLength * b \in Nat /\ DayLength \in Nat
    BY <1>1, <1>2, RecordsAssumption
  <2> QED
    BY <1>1, <1>2, <2>1, <2>2, <2>3
<1> QED
  BY <1>1, <1>2, <1>3 DEF Day, a, b

LEMMA DayIsCounted ==
  ASSUME NEW t \in Nat, t < Days * DayLength
  PROVE  Day(t) \in 0..(Days - 1)
<1> DEFINE a == t \div DayLength
<1>1. a \in Nat /\ DayLength * a <= t
  BY Quotient, RecordsAssumption
<1> HIDE DEF a
<1>2. DayLength \in Nat \ {0} /\ Days \in Nat \ {0}
  BY RecordsAssumption
<1>3. ASSUME a >= Days PROVE FALSE
  <2>1. DayLength * a >= DayLength * Days
    BY <1>1, <1>2, <1>3
  <2>2. Days * DayLength = DayLength * Days /\ DayLength * a \in Nat /\ DayLength * Days \in Nat
    BY <1>1, <1>2
  <2> QED
    BY <1>1, <2>1, <2>2
<1> QED
  BY <1>1, <1>2, <1>3 DEF Day, a

LEMMA DayKept ==
  ASSUME DayInv, [DayNext]_dayVars
  PROVE  DayInv'
<1>1. Today \in 0..(Days - 1) /\ Today \in Nat /\ Days \in Nat
  BY DayIsCounted, RecordsAssumption DEF DayInv, DayTypes, Today
<1>2. Zero \in Kept /\ Zero.kwh = 0 /\ NoDay = -1 /\ NoDay \in Int
  BY DEF Kept, Zero, NoDay
<1> HIDE DEF Zero, NoDay
<1>3. CASE UNCHANGED dayVars
  BY <1>3 DEF dayVars, DayInv, DayTypes, NoneIsAhead, TotalsWithin, Within, EntryFromRestart,
              LatchFromRestart, Today
<1>4. CASE Advance
  <2>1. /\ now' = now + 1 /\ now' < Days * DayLength
        /\ UNCHANGED <<process, totals, totals_date, dw_entry, target_reached_today,
                       last_target_reset_date, store, metered, reached_on, restored>>
    BY <1>4 DEF Advance
  <2>2. Today' \in Int /\ Today <= Today'
    BY <1>1, <2>1, DayGrows DEF DayInv, DayTypes, Today, Day
  <2>3. DayTypes'
    BY <2>1 DEF DayInv, DayTypes
  <2>4. NoneIsAhead'
    BY <1>1, <2>1, <2>2 DEF DayInv, DayTypes, NoneIsAhead
  <2>5. TotalsWithin'
    BY <2>1 DEF DayInv, TotalsWithin, Within
  <2>6. Today' = Today \/ (store.date # Today' /\ last_target_reset_date # Today')
    BY <1>1, <2>2 DEF DayInv, DayTypes, NoneIsAhead
  <2>7. EntryFromRestart' /\ LatchFromRestart'
    BY <2>1, <2>6 DEF DayInv, EntryFromRestart, LatchFromRestart
  <2> QED
    BY <2>3, <2>4, <2>5, <2>7 DEF DayInv
<1>5. ASSUME now' = now PROVE Today' = Today
  BY <1>5 DEF Today
<1>6. ASSUME NEW kwh \in Energy, NEW price \in Prices, FastTick(kwh, price) PROVE DayInv'
  <2>1. /\ UNCHANGED <<now, process, dw_entry, target_reached_today, last_target_reset_date,
                       store, reached_on, restored>>
        /\ process = "running" /\ totals_date' = Today
    BY <1>6 DEF FastTick
  <2>2. Today' = Today /\ kwh \in Nat /\ price \in Int
    BY <1>5, <2>1, RecordsAssumption
  <2>3. PICK kept \in Kept : /\ totals' = Plus(kept, kwh, price)
                             /\ (totals_date = Today /\ kept = totals) \/ kept = Zero
    BY <1>2, <1>6 DEF FastTick, DayInv, DayTypes
  <2>4. kept.kwh <= metered[Today].kwh
    <3>1. metered[Today] \in Kept
      BY <1>1 DEF DayInv, DayTypes
    <3>2. metered[Today].kwh >= 0
      BY <3>1 DEF Kept
    <3>3. totals_date = Today => totals.kwh <= metered[Today].kwh
      BY <1>1, <1>2, <2>1 DEF DayInv, TotalsWithin, Within
    <3> QED
      BY <1>2, <2>3, <3>2, <3>3
  <2>5. totals' \in Kept /\ totals'.kwh = kept.kwh + kwh
    BY <2>2, <2>3 DEF Plus, Kept
  <2>6. /\ metered' = [metered EXCEPT ![Today] = Plus(metered[Today], kwh, price)]
        /\ metered[Today] \in Kept
    BY <1>1, <1>6 DEF FastTick, DayInv, DayTypes
  <2>7. /\ Plus(metered[Today], kwh, price) \in Kept
        /\ Plus(metered[Today], kwh, price).kwh = metered[Today].kwh + kwh
    BY <2>2, <2>6 DEF Plus, Kept
  <2>8. /\ metered' \in [0..(Days - 1) -> Kept]
        /\ metered'[Today].kwh = metered[Today].kwh + kwh
        /\ \A d \in 0..(Days - 1) : d # Today => metered'[d] = metered[d]
    BY <1>1, <2>6, <2>7 DEF DayInv, DayTypes
  <2>9. DayTypes'
    BY <1>1, <2>1, <2>5, <2>8 DEF DayInv, DayTypes
  <2>10. NoneIsAhead'
    BY <1>1, <2>1, <2>2 DEF DayInv, DayTypes, NoneIsAhead
  <2>11. TotalsWithin'
    <3>1. kept.kwh \in Nat /\ metered[Today].kwh \in Nat /\ store.totals.kwh \in Nat
      BY <2>3, <2>6 DEF Kept, DayInv, DayTypes
    <3>2. Within(totals, totals_date)'
      BY <1>1, <1>2, <2>1, <2>2, <2>4, <2>5, <2>8, <3>1 DEF Within
    <3>3. store.date = -1 \/ store.date \in 0..(Days - 1)
      BY <1>1 DEF DayInv, NoneIsAhead
    <3>4. Within(store.totals, store.date)'
      BY <1>1, <1>2, <2>1, <2>2, <2>8, <3>1, <3>3 DEF DayInv, TotalsWithin, Within
    <3> QED
      BY <3>2, <3>4 DEF TotalsWithin
  <2>12. EntryFromRestart' /\ LatchFromRestart'
    BY <2>1, <2>2 DEF DayInv, EntryFromRestart, LatchFromRestart
  <2> QED
    BY <2>9, <2>10, <2>11, <2>12 DEF DayInv
<1>7. CASE MidnightReset
  <2>1. /\ UNCHANGED <<now, process, dw_entry, last_target_reset_date, store, metered,
                       reached_on, restored>>
        /\ target_reached_today' = FALSE /\ totals' = Zero /\ totals_date' = Today
    BY <1>7 DEF MidnightReset
  <2>2. Today' = Today
    BY <1>5, <2>1
  <2>3. target_reached_today' \in BOOLEAN
    BY <2>1
  <2>4. DayTypes'
    BY <1>1, <1>2, <2>1, <2>3 DEF DayInv, DayTypes
  <2>5. NoneIsAhead'
    BY <1>1, <2>1, <2>2 DEF DayInv, DayTypes, NoneIsAhead
  <2>6. metered[Today].kwh >= 0
    <3>1. metered[Today] \in Kept
      BY <1>1 DEF DayInv, DayTypes
    <3> QED
      BY <3>1 DEF Kept
  <2>7. TotalsWithin'
    BY <1>1, <1>2, <2>1, <2>2, <2>6 DEF DayInv, TotalsWithin, Within
  <2>8. EntryFromRestart' /\ LatchFromRestart'
    BY <2>1, <2>2 DEF DayInv, EntryFromRestart, LatchFromRestart
  <2> QED
    BY <2>4, <2>5, <2>7, <2>8 DEF DayInv
<1>8. ASSUME NEW readable \in BOOLEAN, NEW met \in BOOLEAN, NEW manual \in BOOLEAN,
             Evaluate(readable, met, manual)
      PROVE  DayInv'
  <2>1. /\ UNCHANGED <<now, process, totals, totals_date, store, metered, restored>>
        /\ process = "running" /\ last_target_reset_date' = Today
        /\ reached_on' = IF SeesTarget(met, manual) THEN Today ELSE reached_on
    BY <1>8 DEF Evaluate
  <2>2. Today' = Today
    BY <1>5, <2>1
  <2>3. /\ target_reached_today' \in BOOLEAN
        /\ target_reached_today' =>
             \/ SeesTarget(met, manual)
             \/ target_reached_today /\ last_target_reset_date = Today
    BY <1>8 DEF Evaluate, ResetLatch
  <2>4. dw_entry.date = Today => dw_entry' = dw_entry
    BY <1>8 DEF Evaluate, ResetLatch, CaptureEntry
  <2>5. DayTypes'
    BY <1>1, <2>1, <2>3 DEF DayInv, DayTypes
  <2>6. NoneIsAhead'
    BY <1>1, <2>1, <2>2 DEF DayInv, DayTypes, NoneIsAhead
  <2>7. TotalsWithin'
    BY <2>1 DEF DayInv, TotalsWithin, Within
  <2>8. EntryFromRestart'
    BY <2>1, <2>2, <2>4 DEF DayInv, EntryFromRestart
  <2>9. LatchFromRestart'
    BY <2>1, <2>2, <2>3 DEF DayInv, LatchFromRestart
  <2> QED
    BY <2>5, <2>6, <2>7, <2>8, <2>9 DEF DayInv
<1>9. CASE SaveTotals
  <2>1. /\ UNCHANGED <<now, process, totals, totals_date, dw_entry, target_reached_today,
                       last_target_reset_date, metered, reached_on, restored>>
        /\ process = "running"
        /\ store'.date = totals_date /\ store'.totals = totals /\ store'.entry = dw_entry
    BY <1>9 DEF SaveTotals, Snapshot
  <2>2. Today' = Today
    BY <1>5, <2>1
  <2>3. DayTypes'
    BY <2>1 DEF DayInv, DayTypes
  <2>4. NoneIsAhead' /\ TotalsWithin'
    BY <2>1, <2>2 DEF DayInv, NoneIsAhead, TotalsWithin, Within
  <2>5. EntryFromRestart' /\ LatchFromRestart'
    BY <2>1, <2>2 DEF DayInv, EntryFromRestart, LatchFromRestart
  <2> QED
    BY <2>3, <2>4, <2>5 DEF DayInv
<1>10. CASE GoDown
  <2>1. /\ UNCHANGED <<now, store, metered, reached_on, restored>>
        /\ process' = "down" /\ target_reached_today' = FALSE
        /\ last_target_reset_date' = NoDay /\ totals' = Zero /\ totals_date' = NoDay
    BY <1>10 DEF GoDown, FreshData
  <2>2. Today' = Today /\ target_reached_today' \in BOOLEAN
    BY <1>5, <2>1
  <2>3. DayTypes'
    BY <1>2, <2>1, <2>2 DEF DayInv, DayTypes
  <2>4. NoneIsAhead'
    BY <1>1, <1>2, <2>1, <2>2 DEF DayInv, DayTypes, NoneIsAhead
  <2>5. TotalsWithin' /\ EntryFromRestart' /\ LatchFromRestart'
    BY <2>1 DEF DayInv, TotalsWithin, Within, EntryFromRestart, LatchFromRestart
  <2> QED
    BY <2>3, <2>4, <2>5 DEF DayInv
<1>11. ASSUME NEW totals_ok \in BOOLEAN, NEW entry_ok \in BOOLEAN, Restore(totals_ok, entry_ok)
       PROVE  DayInv'
  <2>1. /\ UNCHANGED <<now, store, metered, reached_on>>
        /\ process' = "loading" /\ target_reached_today' = FALSE
        /\ last_target_reset_date' = NoDay /\ totals_date' = Today
        /\ \/ totals' = Zero
           \/ totals' = store.totals /\ store.date = Today
        /\ restored' = (totals_ok /\ entry_ok)
    BY <1>11 DEF Restore, FreshData, TotalsRestored
  <2>2. Today' = Today /\ target_reached_today' \in BOOLEAN /\ restored' \in BOOLEAN
    BY <1>5, <2>1
  <2>3. DayTypes'
    BY <1>1, <1>2, <2>1, <2>2 DEF DayInv, DayTypes
  <2>4. NoneIsAhead'
    BY <1>1, <1>2, <2>1, <2>2 DEF DayInv, DayTypes, NoneIsAhead
  <2>5. TotalsWithin'
    <3>1. metered[Today] \in Kept
      BY <1>1 DEF DayInv, DayTypes
    <3>2. metered[Today].kwh >= 0
      BY <3>1 DEF Kept
    <3> QED
      BY <1>1, <1>2, <2>1, <2>2, <3>2 DEF DayInv, TotalsWithin, Within
  <2>6. EntryFromRestart'
    <3>1. (totals_ok /\ entry_ok /\ store.date = Today /\ store.entry.date = Today)
            => dw_entry' = store.entry
      BY <1>11 DEF Restore, TotalsRestored, EntryRestored
    <3> QED
      BY <2>1, <2>2, <3>1 DEF EntryFromRestart
  <2>7. LatchFromRestart'
    BY <2>1 DEF LatchFromRestart
  <2> QED
    BY <2>3, <2>4, <2>5, <2>6, <2>7 DEF DayInv
<1>12. CASE Subscribe
  <2>1. /\ UNCHANGED <<now, totals, totals_date, dw_entry, target_reached_today,
                       last_target_reset_date, store, metered, reached_on, restored>>
        /\ process = "loading" /\ process' = "running"
    BY <1>12 DEF Subscribe
  <2>2. Today' = Today
    BY <1>5, <2>1
  <2> QED
    BY <2>1, <2>2 DEF DayInv, DayTypes, NoneIsAhead, TotalsWithin, Within, EntryFromRestart,
                      LatchFromRestart
<1> QED
  BY <1>3, <1>4, <1>6, <1>7, <1>8, <1>9, <1>10, <1>11, <1>12 DEF DayNext

LEMMA DayInvariance == DaySpec => []DayInv
<1>1. DayInit => DayInv
  <2> SUFFICES ASSUME DayInit PROVE DayInv
    OBVIOUS
  <2>1. /\ Days \in Nat \ {0} /\ DayLength \in Nat \ {0} /\ 0 < Days * DayLength
    BY RecordsAssumption
  <2>2. Today \in Nat
    BY <2>1, DayGrows DEF DayInit, Today
  <2>3. /\ Zero \in Kept /\ Zero.kwh = 0 /\ NoDay = -1
        /\ store.totals = Zero /\ store.date = NoDay
    BY DEF DayInit, Kept, Zero, NoDay, Blank
  <2>4. target_reached_today \in BOOLEAN /\ restored \in BOOLEAN
    BY DEF DayInit
  <2>5. DayTypes
    BY <2>1, <2>3, <2>4 DEF DayInit, DayTypes
  <2>6. NoneIsAhead
    BY <2>2, <2>3 DEF DayInit, NoneIsAhead
  <2>7. TotalsWithin /\ EntryFromRestart /\ LatchFromRestart
    BY <2>3 DEF DayInit, TotalsWithin, Within, EntryFromRestart, LatchFromRestart
  <2> QED
    BY <2>5, <2>6, <2>7 DEF DayInv
<1> QED
  BY <1>1, DayKept, PTL DEF DaySpec

(* The totals in memory and on disk are of the day they are dated with, the   *)
(* record of the window's entry is never blanked by an evaluation or a        *)
(* restart, and the latch is of today: for any length of the day.             *)
THEOREM RememberedOfTodayCorrect == DaySpec => []RememberedOfToday
<1>1. DayInv => RememberedOfToday
  <2> SUFFICES ASSUME DayInv PROVE RememberedOfToday
    OBVIOUS
  <2>1. TotalsAreOfTheirDay
    BY DEF DayInv, TotalsWithin, Within, TotalsAreOfTheirDay
  <2>2. EntryIsKept /\ LatchIsOfToday
    BY DEF DayInv, EntryFromRestart, LatchFromRestart, EntryIsKept, LatchIsOfToday
  <2> QED
    BY <2>1, <2>2 DEF RememberedOfToday
<1> QED
  BY <1>1, DayInvariance, PTL

-----------------------------------------------------------------------------
(* The outcomes of decisions                                                 *)

Waiting == [n : Nat, at : Int, snapshot : Nat, seen : Nat, torn : BOOLEAN]
Ended == [n : Nat, torn : BOOLEAN, kwh : Int, actual : Int]

OutcomeTypes ==
  /\ taken \in Nat /\ imported \in Nat
  /\ pending \in Seq(Waiting) /\ completed \in Seq(Ended)
  /\ outcome_store \in [pending : Seq(Waiting), completed : Seq(Ended)]

\* the outcomes of decisions before the next one, none with what is not its own
Settled(done, next) ==
  /\ \A i, j \in DOMAIN done : i < j => done[i].n < done[j].n
  /\ \A i \in DOMAIN done : /\ done[i].n < next
                            /\ ~done[i].torn => done[i].kwh <= done[i].actual

\* one waits at most, and it is later than those that ended
Listed(waits, done) ==
  /\ waits = <<>> => Settled(done, taken + 1)
  /\ waits # <<>> => /\ Len(waits) = 1 /\ waits[1].n <= taken
                     /\ Settled(done, waits[1].n)

\* the meter a decision will be measured by, and would be after a restart
Meter == IF process = "down" THEN store.totals.kwh ELSE totals.kwh

\* a meter that stands where the decision can be measured by it: it went on from
\* its snapshot, or was set back since
Fits(d, kwh) ==
  /\ d.seen <= imported
  /\ ~d.torn => /\ kwh <= d.snapshot + (imported - d.seen)
                /\ kwh <= imported - d.seen \/ kwh >= d.snapshot

OutcomeInv ==
  /\ OutcomeTypes
  /\ Listed(pending, completed) /\ Listed(outcome_store.pending, outcome_store.completed)
  /\ \A i \in DOMAIN pending : Fits(pending[i], Meter)
  /\ \A i \in DOMAIN outcome_store.pending : Fits(outcome_store.pending[i], Meter)

LEMMA SettledLater ==
  ASSUME NEW done \in Seq(Ended), NEW a \in Nat, NEW b \in Nat, a <= b, Settled(done, a)
  PROVE  Settled(done, b)
<1>1. \A i \in DOMAIN done : done[i] \in Ended
  OBVIOUS
<1>2. \A i \in DOMAIN done : done[i].n \in Nat
  BY <1>1 DEF Ended
<1> QED
  BY <1>2 DEF Settled

LEMMA NewestSettled ==
  ASSUME NEW done \in Seq(Ended), NEW outcome \in Ended, Settled(done, outcome.n),
         ~outcome.torn => outcome.kwh <= outcome.actual
  PROVE  /\ KeepNewest(done, outcome) \in Seq(Ended)
         /\ Settled(KeepNewest(done, outcome), outcome.n + 1)
<1> DEFINE longer == Append(done, outcome)
<1>1. longer \in Seq(Ended) /\ Len(longer) = Len(done) + 1 /\ longer # <<>>
  OBVIOUS
<1>2. \A i \in 1..Len(longer) : longer[i] = IF i <= Len(done) THEN done[i] ELSE outcome
  OBVIOUS
<1>3. Settled(longer, outcome.n + 1)
  <2>1. outcome.n \in Nat /\ \A i \in 1..Len(done) : done[i].n \in Nat /\ done[i].n < outcome.n
    <3>1. \A i \in 1..Len(done) : done[i] \in Ended
      OBVIOUS
    <3>2. \A i \in 1..Len(done) : done[i].n < outcome.n
      BY DEF Settled
    <3> QED
      BY <3>1, <3>2 DEF Ended
  <2>2. /\ DOMAIN longer = 1..Len(longer) /\ DOMAIN done = 1..Len(done) /\ Len(done) \in Nat
    BY <1>1
  <2> HIDE DEF longer
  <2>3. \A i, j \in DOMAIN longer : i < j => longer[i].n < longer[j].n
    BY <1>1, <1>2, <2>1, <2>2 DEF Settled
  <2>4. \A i \in DOMAIN longer : /\ longer[i].n < outcome.n + 1
                                 /\ ~longer[i].torn => longer[i].kwh <= longer[i].actual
    BY <1>1, <1>2, <2>1, <2>2 DEF Settled
  <2> QED
    BY <2>3, <2>4 DEF Settled
<1> HIDE DEF longer
<1>4. Tail(longer) \in Seq(Ended) /\ Settled(Tail(longer), outcome.n + 1)
  BY <1>1, <1>3 DEF Settled
<1>5. KeepNewest(done, outcome) \in {longer, Tail(longer)}
  BY DEF KeepNewest, longer
<1> QED
  BY <1>1, <1>3, <1>4, <1>5

\* what a decision that waits is booked
LEMMA OutcomeFits ==
  ASSUME OutcomeTypes, totals.kwh \in Nat, NEW d \in Waiting, Fits(d, totals.kwh)
  PROVE  /\ Outcome(d) \in Ended /\ Outcome(d).n = d.n
         /\ ~Outcome(d).torn => Outcome(d).kwh <= Outcome(d).actual
<1>1. d.snapshot \in Nat /\ d.seen \in Nat /\ imported \in Nat /\ d.n \in Nat /\ d.torn \in BOOLEAN
  BY DEF OutcomeTypes, Waiting
<1>2. PICK booked \in Int : booked = MeterDelta(totals.kwh, d.snapshot)
  BY <1>1 DEF MeterDelta
<1>3. ~d.torn => booked <= imported - d.seen
  BY <1>1, <1>2 DEF MeterDelta, Fits
<1>4. Outcome(d) = [n |-> d.n, torn |-> d.torn, kwh |-> booked, actual |-> imported - d.seen]
  BY <1>2 DEF Outcome
<1>5. imported - d.seen \in Int
  BY <1>1
<1> QED
  BY <1>1, <1>3, <1>4, <1>5 DEF Ended

LEMMA MeterType ==
  ASSUME DayInv
  PROVE  Meter \in Nat /\ totals.kwh \in Nat /\ store.totals.kwh \in Nat
BY DEF DayInv, DayTypes, Kept, Meter

LEMMA DayStepKeeps ==
  ASSUME DayInv, OutcomeInv, DayStep
  PROVE  OutcomeInv'
<1>1. UNCHANGED <<pending, completed, outcome_store, taken>>
  BY DEF DayStep
<1>2. /\ Meter \in Nat /\ imported \in Nat /\ totals.kwh \in Nat
      /\ pending \in Seq(Waiting) /\ outcome_store.pending \in Seq(Waiting)
  BY MeterType DEF OutcomeInv, OutcomeTypes
<1>3. PICK k \in Nat : imported' = imported + k /\ Meter' \in {Meter + k, k}
  <2>1. CASE \E kwh \in Energy, price \in Prices : Tick(kwh, price)
    <3>1. PICK kwh \in Energy, price \in Prices : Tick(kwh, price)
      BY <2>1
    <3>2. /\ kwh \in Nat /\ imported' = imported + kwh
          /\ process = "running" /\ process' = "running"
          /\ totals' = Plus(IF totals_date = Today THEN totals ELSE Zero, kwh, price)
      BY <3>1, RecordsAssumption DEF Tick, FastTick
    <3>3. totals'.kwh = (IF totals_date = Today THEN totals.kwh ELSE 0) + kwh
      BY <3>2 DEF Plus, Zero
    <3> QED
      BY <1>2, <3>2, <3>3 DEF Meter
  <2>2. CASE Advance /\ UNCHANGED imported
    <3>1. Meter' = Meter + 0 /\ imported' = imported + 0
      BY <1>2, <2>2 DEF Advance, Meter
    <3> QED
      BY <3>1
  <2>3. CASE MidnightReset /\ UNCHANGED imported
    <3>1. Meter' = 0 /\ imported' = imported + 0
      BY <1>2, <2>3 DEF MidnightReset, Meter, Zero
    <3> QED
      BY <3>1
  <2>4. CASE SaveTotals /\ UNCHANGED imported
    <3>1. Meter' = Meter + 0 /\ imported' = imported + 0
      BY <1>2, <2>4 DEF SaveTotals, Meter
    <3> QED
      BY <3>1
  <2> QED
    BY <2>1, <2>2, <2>3, <2>4 DEF DayStep
<1>4. ASSUME NEW d \in Waiting, Fits(d, Meter)
      PROVE  Fits(d, Meter)'
  BY <1>2, <1>3, <1>4 DEF Fits, Waiting
<1>5. OutcomeTypes'
  BY <1>1, <1>2, <1>3 DEF OutcomeInv, OutcomeTypes
<1>6. Listed(pending, completed)' /\ Listed(outcome_store.pending, outcome_store.completed)'
  BY <1>1 DEF OutcomeInv, Listed, Settled
<1>7. \A i \in DOMAIN pending' : Fits(pending[i], Meter)'
  BY <1>1, <1>2, <1>4 DEF OutcomeInv
<1>8. \A i \in DOMAIN outcome_store.pending' : Fits(outcome_store.pending[i], Meter)'
  BY <1>1, <1>2, <1>4 DEF OutcomeInv
<1> QED
  BY <1>5, <1>6, <1>7, <1>8 DEF OutcomeInv

\* what the decision that ends leaves behind
LEMMA HeadEnds ==
  ASSUME DayInv, OutcomeInv, process = "running", pending # <<>>
  PROVE  /\ Tail(pending) = <<>> /\ Head(pending) = pending[1] /\ pending[1] \in Waiting
         /\ pending[1].n \in Nat /\ pending[1].n <= taken
         /\ KeepNewest(completed, Outcome(Head(pending))) \in Seq(Ended)
         /\ Settled(KeepNewest(completed, Outcome(Head(pending))), taken + 1)
<1>1. /\ pending \in Seq(Waiting) /\ completed \in Seq(Ended) /\ taken \in Nat
      /\ Len(pending) = 1 /\ pending[1].n <= taken /\ Settled(completed, pending[1].n)
  BY DEF OutcomeInv, OutcomeTypes, Listed
<1>2. Tail(pending) = <<>> /\ Head(pending) = pending[1] /\ pending[1] \in Waiting
  <2>1. pending[1] \in Waiting /\ Head(pending) = pending[1]
    BY <1>1
  <2>2. Tail(pending) \in Seq(Waiting) /\ Len(Tail(pending)) = 0
    BY <1>1
  <2>3. Tail(pending) = <<>>
    BY <2>2, EmptySeq
  <2> QED
    BY <2>1, <2>3
<1>3. pending[1].n \in Nat
  BY <1>2 DEF Waiting
<1>4. Fits(pending[1], totals.kwh)
  BY <1>1 DEF OutcomeInv, Meter
<1>5. /\ Outcome(pending[1]) \in Ended /\ Outcome(pending[1]).n = pending[1].n
      /\ ~Outcome(pending[1]).torn => Outcome(pending[1]).kwh <= Outcome(pending[1]).actual
  BY <1>2, <1>4, MeterType, OutcomeFits DEF OutcomeInv
<1>6. /\ KeepNewest(completed, Outcome(pending[1])) \in Seq(Ended)
      /\ Settled(KeepNewest(completed, Outcome(pending[1])), pending[1].n + 1)
  BY <1>1, <1>5, NewestSettled
<1>7. Settled(KeepNewest(completed, Outcome(pending[1])), taken + 1)
  BY <1>1, <1>3, <1>6, SettledLater
<1> QED
  BY <1>1, <1>2, <1>3, <1>6, <1>7

LEMMA DecisionsKeep ==
  ASSUME DayInv, OutcomeInv, RecordDecision \/ BackfillOutcomes \/ SaveDecisions
  PROVE  OutcomeInv'
<1>1. /\ process = "running" /\ UNCHANGED <<dayVars, imported>>
      /\ Meter' = Meter /\ Meter = totals.kwh
  BY DEF RecordDecision, BackfillOutcomes, SaveDecisions, Meter, dayVars
<1>2. /\ Meter \in Nat /\ now \in Nat /\ OutcomeTypes
      /\ taken \in Nat /\ imported \in Nat
      /\ pending \in Seq(Waiting) /\ completed \in Seq(Ended)
      /\ outcome_store.pending \in Seq(Waiting) /\ outcome_store.completed \in Seq(Ended)
  BY MeterType DEF OutcomeInv, OutcomeTypes, DayInv, DayTypes
<1>3. ASSUME NEW d, Fits(d, Meter)
      PROVE  Fits(d, Meter)'
  BY <1>1, <1>3 DEF Fits
<1>4. CASE RecordDecision
  <2> DEFINE d == [n |-> taken + 1, at |-> now, snapshot |-> totals.kwh, seen |-> imported,
                   torn |-> FALSE]
  <2>1. d \in Waiting
    BY <1>1, <1>2 DEF Waiting
  <2>2. /\ taken' = taken + 1 /\ outcome_store' = outcome_store
        /\ completed' = IF pending = <<>> THEN completed
                        ELSE KeepNewest(completed, Outcome(Head(pending)))
        /\ pending' = Append(IF pending = <<>> THEN <<>> ELSE Tail(pending), d)
    BY <1>4 DEF RecordDecision
  <2>3. completed' \in Seq(Ended) /\ Settled(completed', taken + 1)
    <3>1. CASE pending = <<>>
      BY <1>2, <2>2, <3>1 DEF OutcomeInv, Listed
    <3>2. CASE pending # <<>>
      BY <1>1, <2>2, <3>2, HeadEnds
    <3> QED
      BY <3>1, <3>2
  <2>4. pending' = <<d>>
    <3>1. pending # <<>> => Tail(pending) = <<>>
      BY <1>1, HeadEnds
    <3>2. pending' = Append(<<>>, d)
      BY <2>2, <3>1
    <3> HIDE DEF d
    <3> QED
      BY <2>1, <3>2
  <2>5. d.n = taken + 1 /\ Fits(d, Meter)
    BY <1>1, <1>2 DEF Fits
  <2> HIDE DEF d
  <2>6. pending' \in Seq(Waiting) /\ Len(pending') = 1 /\ pending'[1] = d /\ pending' # <<>>
        /\ DOMAIN pending' = {1}
    BY <2>1, <2>4
  <2>7. OutcomeTypes'
    BY <1>1, <1>2, <2>2, <2>3, <2>6 DEF OutcomeTypes
  <2>8. Listed(pending, completed)'
    BY <1>2, <2>2, <2>3, <2>5, <2>6 DEF Listed, Settled
  <2>9. Listed(outcome_store.pending, outcome_store.completed)'
    <3>1. CASE outcome_store.pending = <<>>
      <4>1. Settled(outcome_store.completed, taken + 1)
        BY <3>1 DEF OutcomeInv, Listed
      <4>2. Settled(outcome_store.completed, taken + 2)
        BY <1>2, <4>1, SettledLater
      <4>3. taken' + 1 = taken + 2
        BY <1>2, <2>2
      <4> QED
        BY <2>2, <3>1, <4>2, <4>3 DEF Listed, Settled
    <3>2. CASE outcome_store.pending # <<>>
      <4>1. /\ Len(outcome_store.pending) = 1 /\ outcome_store.pending[1].n <= taken
            /\ Settled(outcome_store.completed, outcome_store.pending[1].n)
        BY <3>2 DEF OutcomeInv, Listed
      <4>2. outcome_store.pending[1].n \in Nat
        <5>1. outcome_store.pending[1] \in Waiting
          BY <1>2, <4>1
        <5> QED
          BY <5>1 DEF Waiting
      <4> QED
        BY <1>2, <2>2, <3>2, <4>1, <4>2 DEF Listed, Settled
    <3> QED
      BY <3>1, <3>2
  <2>10. \A i \in DOMAIN pending' : Fits(pending[i], Meter)'
    BY <1>3, <2>5, <2>6
  <2>11. \A i \in DOMAIN outcome_store.pending' : Fits(outcome_store.pending[i], Meter)'
    BY <1>3, <2>2 DEF OutcomeInv
  <2> QED
    BY <2>7, <2>8, <2>9, <2>10, <2>11 DEF OutcomeInv
<1>5. CASE BackfillOutcomes
  <2>1. /\ pending # <<>> /\ UNCHANGED <<outcome_store, taken>>
        /\ completed' = KeepNewest(completed, Outcome(Head(pending)))
        /\ pending' = Tail(pending)
    BY <1>5 DEF BackfillOutcomes
  <2>2. /\ pending' = <<>>
        /\ completed' \in Seq(Ended) /\ Settled(completed', taken + 1)
    BY <1>1, <2>1, HeadEnds
  <2>3. pending' \in Seq(Waiting) /\ DOMAIN pending' = {}
    BY <2>2
  <2>4. OutcomeTypes'
    BY <1>1, <1>2, <2>1, <2>2, <2>3 DEF OutcomeTypes
  <2>5. Listed(pending, completed)'
    BY <2>1, <2>2 DEF Listed, Settled
  <2>6. Listed(outcome_store.pending, outcome_store.completed)'
    BY <2>1 DEF OutcomeInv, Listed, Settled
  <2>7. \A i \in DOMAIN outcome_store.pending' : Fits(outcome_store.pending[i], Meter)'
    BY <1>3, <2>1 DEF OutcomeInv
  <2> QED
    BY <2>3, <2>4, <2>5, <2>6, <2>7 DEF OutcomeInv
<1>6. CASE SaveDecisions
  <2>1. /\ UNCHANGED <<pending, completed, taken>>
        /\ outcome_store' = [pending |-> pending, completed |-> completed]
    BY <1>6 DEF SaveDecisions
  <2>2. outcome_store'.pending = pending /\ outcome_store'.completed = completed
    BY <2>1
  <2>3. outcome_store' \in [pending : Seq(Waiting), completed : Seq(Ended)]
    BY <1>2, <2>1
  <2>4. OutcomeTypes'
    BY <1>1, <1>2, <2>1, <2>3 DEF OutcomeTypes
  <2>5. Listed(pending, completed)' /\ Listed(outcome_store.pending, outcome_store.completed)'
    BY <2>1, <2>2 DEF OutcomeInv, Listed, Settled
  <2>6. /\ \A i \in DOMAIN pending' : Fits(pending[i], Meter)'
        /\ \A i \in DOMAIN outcome_store.pending' : Fits(outcome_store.pending[i], Meter)'
    BY <1>3, <2>1, <2>2 DEF OutcomeInv
  <2> QED
    BY <2>4, <2>5, <2>6 DEF OutcomeInv
<1> QED
  BY <1>4, <1>5, <1>6

LEMMA StopKeeps ==
  ASSUME DayInv, OutcomeInv, Stop
  PROVE  OutcomeInv'
<1> DEFINE saved == outcome_store.pending
<1>1. /\ process # "down" /\ process' = "down" /\ store' = store
      /\ pending' = <<>> /\ completed' = <<>>
      /\ taken' = taken /\ imported' = imported
  BY DEF Stop, GoDown
<1>2. /\ Meter = totals.kwh /\ Meter' = store.totals.kwh /\ Meter \in Nat
      /\ taken \in Nat /\ imported \in Nat
      /\ saved \in Seq(Waiting) /\ outcome_store.completed \in Seq(Ended)
  BY <1>1, MeterType DEF OutcomeInv, OutcomeTypes, Meter
<1>4. ~TotalsLost => Meter' = Meter
  BY <1>2 DEF TotalsLost
<1>6. /\ outcome_store'.completed = outcome_store.completed
      /\ outcome_store'.pending = Torn(saved)
      /\ outcome_store' = [pending |-> outcome_store'.pending,
                           completed |-> outcome_store'.completed]
  BY DEF Stop, OutcomeInv, OutcomeTypes
<1>7. /\ DOMAIN outcome_store'.pending = DOMAIN saved
      /\ Len(outcome_store'.pending) = Len(saved)
      /\ outcome_store'.pending \in Seq(Waiting)
      /\ \A i \in DOMAIN saved :
           /\ outcome_store'.pending[i].n = saved[i].n
           /\ outcome_store'.pending[i].seen = saved[i].seen
           /\ outcome_store'.pending[i].snapshot = saved[i].snapshot
           /\ outcome_store'.pending[i].torn = (saved[i].torn \/ TotalsLost)
  <2> DEFINE torn == [i \in DOMAIN saved |->
                        [n |-> saved[i].n, at |-> saved[i].at,
                         snapshot |-> saved[i].snapshot, seen |-> saved[i].seen,
                         torn |-> saved[i].torn \/ TotalsLost]]
  <2>1. \A i \in DOMAIN saved : saved[i] \in Waiting
    BY <1>2
  <2>2. DOMAIN saved = 1..Len(saved) /\ Len(saved) \in Nat
    BY <1>2
  <2>3. Torn(saved) = torn
    <3> HIDE DEF saved
    <3> QED
      BY <2>1 DEF Torn, Waiting
  <2>4. torn \in [1..Len(saved) -> Waiting]
    <3> HIDE DEF saved
    <3> QED
      BY <2>1, <2>2 DEF Waiting
  <2>5. torn \in Seq(Waiting) /\ Len(torn) = Len(saved)
    <3> HIDE DEF torn, saved
    <3> QED
      BY <2>2, <2>4, LenProperties, SeqDef
  <2>6. \A i \in DOMAIN saved :
          torn[i].n = saved[i].n /\ torn[i].seen = saved[i].seen
          /\ torn[i].snapshot = saved[i].snapshot
    <3> HIDE DEF saved
    <3> QED
      OBVIOUS
  <2>7. \A i \in DOMAIN saved : torn[i].torn = (saved[i].torn \/ TotalsLost)
    <3> HIDE DEF saved
    <3> QED
      OBVIOUS
  <2> HIDE DEF torn, saved
  <2>8. DOMAIN torn = DOMAIN saved
    BY <2>2, <2>4
  <2> QED
    BY <1>6, <2>3, <2>5, <2>6, <2>7, <2>8
<1>8. OutcomeTypes'
  <2>1. outcome_store' \in [pending : Seq(Waiting), completed : Seq(Ended)]
    BY <1>2, <1>6, <1>7
  <2> QED
    BY <1>1, <1>2, <2>1 DEF OutcomeTypes
<1>9. Listed(pending, completed)'
  BY <1>1 DEF Listed, Settled
<1>10. Listed(outcome_store.pending, outcome_store.completed)'
  <2>1. Listed(saved, outcome_store.completed)
    BY DEF OutcomeInv
  <2>2. CASE saved = <<>>
    <3>1. outcome_store'.pending = <<>>
      BY <1>7, <2>2, EmptySeq
    <3> QED
      BY <1>1, <1>6, <2>1, <2>2, <3>1 DEF Listed, Settled
  <2>3. CASE saved # <<>>
    <3>1. Len(saved) = 1 /\ 1 \in DOMAIN saved
      BY <1>2, <2>1, <2>3 DEF Listed
    <3>2. outcome_store'.pending # <<>> /\ outcome_store'.pending[1].n = saved[1].n
      BY <1>7, <3>1, EmptySeq
    <3> QED
      BY <1>1, <1>6, <1>7, <2>1, <2>3, <3>1, <3>2 DEF Listed, Settled
  <2> QED
    BY <2>2, <2>3
<1>11. \A i \in DOMAIN outcome_store'.pending : Fits(outcome_store.pending[i], Meter)'
  <2> SUFFICES ASSUME NEW i \in DOMAIN saved
               PROVE  Fits(outcome_store.pending[i], Meter)'
    BY <1>7
  <2>1. Fits(saved[i], Meter)
    BY DEF OutcomeInv
  <2>2. CASE saved[i].torn \/ TotalsLost
    BY <1>1, <1>7, <2>1, <2>2 DEF Fits
  <2>3. CASE ~saved[i].torn /\ ~TotalsLost
    BY <1>1, <1>4, <1>7, <2>1, <2>3 DEF Fits
  <2> QED
    BY <2>2, <2>3
<1>12. DOMAIN pending' = {}
  BY <1>1
<1> QED
  BY <1>8, <1>9, <1>10, <1>11, <1>12 DEF OutcomeInv

LEMMA RestartKeeps ==
  ASSUME DayInv, OutcomeInv, Start \/ LoadDecisions
  PROVE  OutcomeInv'
<1>1. /\ Meter \in Nat /\ now \in Nat /\ OutcomeTypes
      /\ taken \in Nat /\ imported \in Nat
      /\ pending \in Seq(Waiting) /\ completed \in Seq(Ended)
      /\ outcome_store.pending \in Seq(Waiting) /\ outcome_store.completed \in Seq(Ended)
      /\ UNCHANGED <<outcome_store, taken, imported>>
  BY MeterType DEF OutcomeInv, OutcomeTypes, DayInv, DayTypes, Start, outcomeVars, LoadDecisions
<1>2. Meter' \in {Meter, 0}
  <2>1. CASE Start
    <3>1. /\ process = "down" /\ process' = "loading"
          /\ totals' \in {store.totals, Zero}
      BY <2>1 DEF Start, Restore
    <3>2. totals'.kwh \in {store.totals.kwh, 0}
      BY <3>1 DEF Zero
    <3> QED
      BY <3>1, <3>2 DEF Meter
  <2>2. CASE LoadDecisions
    BY <2>2 DEF LoadDecisions, Subscribe, Meter
  <2> QED
    BY <2>1, <2>2
<1>3. ASSUME NEW d \in Waiting, Fits(d, Meter)
      PROVE  Fits(d, Meter)'
  BY <1>1, <1>2, <1>3 DEF Fits, Waiting
<1>4. /\ Listed(outcome_store.pending, outcome_store.completed)'
      /\ \A i \in DOMAIN outcome_store.pending' : Fits(outcome_store.pending[i], Meter)'
  <2>1. Listed(outcome_store.pending, outcome_store.completed)'
    BY <1>1 DEF OutcomeInv, Listed, Settled
  <2>2. \A i \in DOMAIN outcome_store.pending' : Fits(outcome_store.pending[i], Meter)'
    BY <1>1, <1>3 DEF OutcomeInv
  <2> QED
    BY <2>1, <2>2
<1>5. CASE Start
  <2>1. UNCHANGED <<pending, completed>>
    BY <1>5 DEF Start, outcomeVars
  <2>2. OutcomeTypes'
    BY <1>1, <2>1 DEF OutcomeTypes
  <2>3. Listed(pending, completed)'
    BY <1>1, <2>1 DEF OutcomeInv, Listed, Settled
  <2>4. \A i \in DOMAIN pending' : Fits(pending[i], Meter)'
    BY <1>1, <1>3, <2>1 DEF OutcomeInv
  <2> QED
    BY <1>4, <2>2, <2>3, <2>4 DEF OutcomeInv
<1>6. CASE LoadDecisions
  <2> DEFINE saved == outcome_store.pending
             done == outcome_store.completed
  <2>1. Listed(saved, done) /\ \A i \in DOMAIN saved : Fits(saved[i], Meter)
    BY DEF OutcomeInv
  <2>2. CASE pending' = saved /\ completed' = done
    <3>1. OutcomeTypes'
      BY <1>1, <2>2 DEF OutcomeTypes
    <3>2. Listed(pending, completed)'
      BY <1>1, <2>1, <2>2 DEF Listed, Settled
    <3>3. \A i \in DOMAIN pending' : Fits(pending[i], Meter)'
      BY <1>1, <1>3, <2>1, <2>2
    <3> QED
      BY <1>4, <3>1, <3>2, <3>3 DEF OutcomeInv
  <2>3. CASE /\ saved # <<>>
             /\ pending' = Tail(saved) /\ completed' = KeepNewest(done, Neutral(Head(saved)))
    <3>1. /\ Len(saved) = 1 /\ saved[1].n <= taken /\ Settled(done, saved[1].n)
      BY <2>1, <2>3 DEF Listed
    <3>2. /\ saved[1] \in Waiting /\ Head(saved) = saved[1]
          /\ Tail(saved) \in Seq(Waiting) /\ Len(Tail(saved)) = 0
      BY <1>1, <3>1
    <3>3. pending' = <<>>
      BY <2>3, <3>2, EmptySeq
    <3>4. /\ Neutral(saved[1]) \in Ended /\ Neutral(saved[1]).n = saved[1].n
          /\ Neutral(saved[1]).kwh <= Neutral(saved[1]).actual /\ saved[1].n \in Nat
      BY <3>2 DEF Neutral, Waiting, Ended
    <3>5. /\ completed' \in Seq(Ended) /\ Settled(completed', saved[1].n + 1)
      BY <1>1, <2>3, <3>1, <3>2, <3>4, NewestSettled
    <3>6. Settled(completed', taken + 1)
      BY <1>1, <3>1, <3>4, <3>5, SettledLater
    <3>7. OutcomeTypes'
      BY <1>1, <3>3, <3>5 DEF OutcomeTypes
    <3>8. Listed(pending, completed)'
      BY <1>1, <3>3, <3>6 DEF Listed, Settled
    <3>9. DOMAIN pending' = {}
      BY <3>3
    <3> QED
      BY <1>4, <3>7, <3>8, <3>9 DEF OutcomeInv
  <2> QED
    BY <1>6, <2>2, <2>3 DEF LoadDecisions
<1> QED
  BY <1>5, <1>6

LEMMA OutcomesKeep ==
  ASSUME DayInv, OutcomeInv, [Next]_vars
  PROVE  OutcomeInv'
<1>1. CASE UNCHANGED vars
  <2>1. UNCHANGED <<process, totals, store, pending, completed, outcome_store, taken, imported>>
    BY <1>1 DEF vars, dayVars, outcomeVars
  <2>2. Meter' = Meter
    BY <2>1 DEF Meter
  <2> QED
    BY <2>1, <2>2 DEF OutcomeInv, OutcomeTypes, Listed, Settled, Fits
<1> QED
  BY <1>1, DayStepKeeps, DecisionsKeep, StopKeeps, RestartKeeps DEF Next

(* What decisions and their outcomes do is no step of the day, and a step of  *)
(* the day with them is one without: the records of the day are as they would *)
(* be alone.                                                                  *)
THEOREM OutcomesFollowTheDay == Spec => DaySpec
<1>1. Init => DayInit
  BY DEF Init
<1>2. [Next]_vars => [DayNext]_dayVars
  <2> SUFFICES ASSUME [Next]_vars PROVE [DayNext]_dayVars
    OBVIOUS
  <2>1. CASE UNCHANGED vars
    BY <2>1 DEF vars
  <2>2. CASE DayStep
    <3>1. DayNext
      BY <2>2 DEF DayStep, Tick, DayNext
    <3> QED
      BY <3>1
  <2>3. CASE RecordDecision \/ BackfillOutcomes \/ SaveDecisions
    <3>1. UNCHANGED dayVars
      BY <2>3 DEF RecordDecision, BackfillOutcomes, SaveDecisions
    <3> QED
      BY <3>1
  <2>4. CASE Stop \/ Start \/ LoadDecisions
    <3>1. DayNext
      BY <2>4 DEF Stop, Start, LoadDecisions, DayNext
    <3> QED
      BY <3>1
  <2> QED
    BY <2>1, <2>2, <2>3, <2>4 DEF Next
<1> QED
  BY <1>1, <1>2, PTL DEF Spec, DaySpec

(* Every decision has one outcome and none is booked more than was imported   *)
(* while it lasted, over every order of saves, midnights, crashes and restarts *)
(* and for any energies: the meter either went on from its snapshot or was set *)
(* back since, and what is not known of is marked.                            *)
THEOREM OutcomesAreTrueCorrect == Spec => []OutcomesAreTrue
<1>1. Init => OutcomeInv
  <2> SUFFICES ASSUME Init PROVE OutcomeInv
    OBVIOUS
  <2>1. /\ pending = <<>> /\ completed = <<>> /\ taken = 0 /\ imported = 0
        /\ outcome_store = [pending |-> <<>>, completed |-> <<>>]
    BY DEF Init, NoDecisions
  <2>2. OutcomeTypes
    BY <2>1 DEF OutcomeTypes
  <2>3. outcome_store.pending = <<>> /\ outcome_store.completed = <<>>
    BY <2>1
  <2>4. Settled(<<>>, 1)
    BY DEF Settled
  <2>5. Listed(pending, completed) /\ Listed(outcome_store.pending, outcome_store.completed)
    BY <2>1, <2>3, <2>4 DEF Listed
  <2>6. DOMAIN pending = {} /\ DOMAIN outcome_store.pending = {}
    BY <2>1, <2>3
  <2> QED
    BY <2>2, <2>5, <2>6 DEF OutcomeInv
<1>2. OutcomeInv => OutcomesAreTrue
  <2> SUFFICES ASSUME OutcomeInv PROVE OutcomesAreTrue
    OBVIOUS
  <2>1. /\ pending \in Seq(Waiting) /\ completed \in Seq(Ended) /\ taken \in Nat
        /\ outcome_store.pending \in Seq(Waiting)
        /\ Listed(pending, completed) /\ Listed(outcome_store.pending, outcome_store.completed)
    BY DEF OutcomeInv, OutcomeTypes
  <2>2. OneWaits
    <3>1. Len(pending) <= 1
      <4>1. CASE pending = <<>>
        BY <4>1
      <4>2. CASE pending # <<>>
        <5>1. Len(pending) = 1
          BY <2>1, <4>2 DEF Listed
        <5> QED
          BY <5>1
      <4> QED
        BY <4>1, <4>2
    <3>2. Len(outcome_store.pending) <= 1
      <4>1. CASE outcome_store.pending = <<>>
        BY <4>1
      <4>2. CASE outcome_store.pending # <<>>
        <5>1. Len(outcome_store.pending) = 1
          BY <2>1, <4>2 DEF Listed
        <5> QED
          BY <5>1
      <4> QED
        BY <4>1, <4>2
    <3> QED
      BY <3>1, <3>2 DEF OneWaits
  <2>3. EnergyIsOfItsDecision
    BY <2>1 DEF EnergyIsOfItsDecision, Listed, Settled
  <2>4. OneOutcomeEach
    <3> DEFINE all == completed \o pending
    <3>1. CASE pending = <<>>
      <4>1. all = completed
        BY <2>1, <3>1
      <4> QED
        BY <2>1, <3>1, <4>1 DEF OneOutcomeEach, Listed, Settled
    <3>2. CASE pending # <<>>
      <4>1. Len(pending) = 1 /\ Settled(completed, pending[1].n)
        BY <2>1, <3>2 DEF Listed
      <4>2. /\ DOMAIN all = 1..(Len(completed) + 1) /\ Len(completed) \in Nat
            /\ DOMAIN completed = 1..Len(completed)
            /\ \A i \in 1..Len(completed) : all[i] = completed[i]
            /\ all[Len(completed) + 1] = pending[1]
        <5>0. completed \in Seq(Ended \cup Waiting) /\ pending \in Seq(Ended \cup Waiting)
          <6>1. completed \in Seq(Ended \cup Waiting)
            BY <2>1, SeqMonotonic, Zenon
          <6>2. pending \in Seq(Ended \cup Waiting)
            BY <2>1, SeqMonotonic, Zenon
          <6> QED
            BY <6>1, <6>2
        <5>1. Len(all) = Len(completed) + 1 /\ all \in Seq(Ended \cup Waiting)
          <6>1. Len(all) = Len(completed) + Len(pending) /\ all \in Seq(Ended \cup Waiting)
            BY <5>0, ConcatProperties, Zenon
          <6> QED
            BY <4>1, <6>1
        <5>2. \A i \in 1..Len(all) :
                all[i] = IF i <= Len(completed) THEN completed[i] ELSE pending[i - Len(completed)]
          <6>1. \A i \in 1..Len(completed) + Len(pending) :
                  all[i] = IF i <= Len(completed) THEN completed[i] ELSE pending[i - Len(completed)]
            BY <5>0, ConcatProperties, Zenon
          <6> QED
            BY <4>1, <5>1, <6>1
        <5>3. Len(completed) \in Nat /\ DOMAIN completed = 1..Len(completed)
          BY <2>1
        <5>4. DOMAIN all = 1..Len(all)
          BY <5>1, LenProperties
        <5> HIDE DEF all
        <5>5. (Len(completed) + 1) - Len(completed) = 1
          BY <5>3
        <5> QED
          BY <5>1, <5>2, <5>3, <5>4, <5>5
      <4> HIDE DEF all
      <4>3. \A i, j \in DOMAIN all : i < j => all[i].n < all[j].n
        <5> SUFFICES ASSUME NEW i \in DOMAIN all, NEW j \in DOMAIN all, i < j
                     PROVE  all[i].n < all[j].n
          OBVIOUS
        <5>1. i \in 1..Len(completed) /\ all[i] = completed[i]
          BY <4>2
        <5>2. CASE j \in 1..Len(completed)
          BY <4>1, <4>2, <5>1, <5>2 DEF Settled
        <5>3. CASE j = Len(completed) + 1
          BY <4>1, <4>2, <5>1, <5>3 DEF Settled
        <5> QED
          BY <4>2, <5>2, <5>3
      <4> QED
        BY <4>3 DEF OneOutcomeEach, all
    <3> QED
      BY <3>1, <3>2
  <2> QED
    BY <2>2, <2>3, <2>4 DEF OutcomesAreTrue
<1>3. OutcomeInv /\ DayInv /\ [Next]_vars => OutcomeInv'
  BY OutcomesKeep
<1>4. Spec => []DayInv
  BY OutcomesFollowTheDay, DayInvariance, PTL
<1> QED
  BY <1>1, <1>2, <1>3, <1>4, PTL DEF Spec

-----------------------------------------------------------------------------
(* What is learned of the sun                                                *)

EndOf(p) == StartOf(p) + PeriodUnits
Sums == [covered : Nat, lit : BOOLEAN, boost : BOOLEAN]
Learnt == [period : Halves, time : TimesOfDay, boost : BOOLEAN, covered : Nat,
           units : SUBSET Nat]

SolarTypes ==
  /\ clock \in Nat /\ tracking \in BOOLEAN /\ baseline \in Int
  /\ baseline = NoBaseline \/ baseline \in 0..clock
  /\ ~tracking => baseline = NoBaseline
  /\ accum \in [Halves -> Sums]
  /\ records \in Seq(Learnt) /\ solar_store.records \in Seq(Learnt)
  /\ seen \subseteq 0..(baseline - 1)

\* what is accumulated of a half hour that is not over is what was seen of it,
\* and of one that is over nothing is left
Accumulated ==
  \A p \in Halves :
    accum[p].covered = IF EndOf(p) <= baseline THEN 0 ELSE Cardinality(seen \cap UnitsOf(p))

\* records of whole half hours, each of one that was over by then
Whole(done, by) ==
  /\ \A i \in DOMAIN done : /\ done[i].covered = Cardinality(done[i].units)
                            /\ done[i].covered >= MinCovered
                            /\ EndOf(done[i].period) <= by
  /\ \A i, j \in DOMAIN done : i # j => done[i].period # done[j].period

SolarInv ==
  /\ SolarTypes /\ Accumulated
  /\ Whole(records, IF baseline = NoBaseline THEN clock ELSE baseline)
  /\ Whole(solar_store.records, clock)
  /\ (tracking /\ records # <<>>) => sample_count = Cardinality(Counted(records))

\* A finite set of numbers can be put in order.
LEMMA InOrderIsOrder ==
  ASSUME NEW S \in SUBSET Nat, IsFiniteSet(S)
  PROVE  /\ Cardinality(S) \in Nat
         /\ InOrder(S) \in [1..Cardinality(S) -> S]
         /\ \A i, j \in 1..Cardinality(S) : i < j => InOrder(S)[i] < InOrder(S)[j]
<1> DEFINE n == Cardinality(S)
           below(x) == {y \in S : y < x}
           rank == [x \in S |-> Cardinality(below(x)) + 1]
<1>1. n \in Nat
  BY FS_CardinalityType
<1>2. \A x \in S : IsFiniteSet(below(x)) /\ rank[x] \in 1..n
  <2> SUFFICES ASSUME NEW x \in S
               PROVE  IsFiniteSet(below(x)) /\ rank[x] \in 1..n
    OBVIOUS
  <2>1. below(x) \in SUBSET S /\ below(x) # S
    <3>1. x \notin below(x)
      OBVIOUS
    <3> QED
      BY <3>1
  <2> HIDE DEF below
  <2>2. IsFiniteSet(below(x)) /\ Cardinality(below(x)) <= n /\ Cardinality(below(x)) # n
    BY <2>1, FS_Subset
  <2>3. Cardinality(below(x)) \in Nat
    BY <2>2, FS_CardinalityType
  <2> QED
    BY <1>1, <2>2, <2>3
<1>3. \A x, y \in S : x < y => rank[x] < rank[y]
  <2> SUFFICES ASSUME NEW x \in S, NEW y \in S, x < y
               PROVE  rank[x] < rank[y]
    OBVIOUS
  <2>1. below(x) \in SUBSET below(y) /\ below(x) # below(y)
    <3>1. x \in below(y) /\ x \notin below(x)
      OBVIOUS
    <3>2. ASSUME NEW z \in S, z < x PROVE z < y
      <4>1. x \in Nat /\ y \in Nat /\ z \in Nat
        OBVIOUS
      <4> QED
        BY <3>2, <4>1
    <3>3. below(x) \subseteq below(y)
      BY <3>2
    <3> HIDE DEF below
    <3> QED
      BY <3>1, <3>3
  <2>2. IsFiniteSet(below(y))
    BY <1>2
  <2> HIDE DEF below
  <2>3. Cardinality(below(x)) <= Cardinality(below(y)) /\ Cardinality(below(x)) # Cardinality(below(y))
    BY <2>1, <2>2, FS_Subset
  <2>4. Cardinality(below(x)) \in Nat /\ Cardinality(below(y)) \in Nat
    BY <1>2, FS_CardinalityType
  <2> QED
    BY <2>3, <2>4
<1> HIDE DEF rank, n
<1>4. rank \in [S -> 1..n]
  BY <1>2 DEF rank
<1>5. \A x, y \in S : rank[x] = rank[y] => x = y
  <2> SUFFICES ASSUME NEW x \in S, NEW y \in S, rank[x] = rank[y]
               PROVE  x = y
    OBVIOUS
  <2>1. x \in Nat /\ y \in Nat /\ rank[x] \in Nat /\ rank[y] \in Nat
    BY <1>1, <1>4
  <2> QED
    BY <1>3, <2>1
<1>6. rank \in Surjection(S, 1..n)
  <2>1. rank \in Injection(S, 1..n)
    BY <1>4, <1>5 DEF Injection, IsInjective
  <2>2. IsFiniteSet(1..n) /\ Cardinality(1..n) = n
    BY <1>1, FS_Interval
  <2> QED
    BY <2>1, <2>2, FS_Injection DEF n
<1>7. \A k \in 1..n : \E x \in S : rank[x] = k
  BY <1>6 DEF Surjection
<1> DEFINE order == [k \in 1..n |-> CHOOSE x \in S : rank[x] = k]
<1>8. \A k \in 1..n : order[k] \in S /\ rank[order[k]] = k
  BY <1>7
<1> HIDE DEF order
<1>9. \A i, j \in 1..n : i < j => order[i] < order[j]
  <2> SUFFICES ASSUME NEW i \in 1..n, NEW j \in 1..n, i < j
               PROVE  order[i] < order[j]
    OBVIOUS
  <2>1. /\ order[i] \in S /\ order[j] \in S /\ order[i] \in Nat /\ order[j] \in Nat
        /\ rank[order[i]] = i /\ rank[order[j]] = j
    BY <1>8
  <2>2. ASSUME order[j] < order[i] PROVE FALSE
    BY <1>3, <2>1, <2>2
  <2>3. order[i] # order[j]
    BY <2>1
  <2> QED
    BY <2>1, <2>2, <2>3
<1>10. order \in [1..n -> S] /\ DOMAIN order = 1..n
  BY <1>8 DEF order
<1>11. \E o \in [1..n -> S] : \A i, j \in DOMAIN o : i < j => o[i] < o[j]
  BY <1>9, <1>10
<1>12. /\ InOrder(S) \in [1..n -> S]
       /\ \A i, j \in DOMAIN InOrder(S) : i < j => InOrder(S)[i] < InOrder(S)[j]
  BY <1>11 DEF InOrder, n
<1>13. DOMAIN InOrder(S) = 1..n
  BY <1>12
<1> QED
  BY <1>1, <1>12, <1>13 DEF n

LEMMA HalvesAreTimes ==
  /\ Halves \subseteq Nat /\ IsFiniteSet(Halves)
  /\ \A p \in Halves : /\ StartOf(p) \in Nat /\ EndOf(p) \in Nat
                       /\ StartOf(p) < EndOf(p)
                       /\ \A u \in UnitsOf(p) : u \in Nat /\ StartOf(p) <= u /\ u < EndOf(p)
                       /\ IsFiniteSet(UnitsOf(p)) /\ TimeOfDay(p) \in TimesOfDay
<1>1. Halves \subseteq Nat /\ IsFiniteSet(Halves)
  <2>1. 0 \in Int /\ Periods - 1 \in Int
    BY PeriodsAssumption
  <2> QED
    BY <2>1, FS_Interval DEF Halves
<1>2. ASSUME NEW p \in Halves
      PROVE  /\ StartOf(p) \in Nat /\ EndOf(p) \in Nat
             /\ StartOf(p) < EndOf(p)
             /\ \A u \in UnitsOf(p) : u \in Nat /\ StartOf(p) <= u /\ u < EndOf(p)
             /\ IsFiniteSet(UnitsOf(p))
  <2>1. StartOf(p) \in Nat /\ PeriodUnits \in Nat \ {0}
    BY <1>1, PeriodsAssumption DEF StartOf
  <2> HIDE DEF StartOf
  <2>2. StartOf(p) + PeriodUnits - 1 \in Int
    BY <2>1
  <2>3. IsFiniteSet(UnitsOf(p))
    BY <2>1, <2>2, FS_Interval DEF UnitsOf
  <2> QED
    BY <2>1, <2>3 DEF UnitsOf, EndOf
<1>3. \A p : TimeOfDay(p) \in TimesOfDay
  BY DEF TimeOfDay, TimesOfDay
<1> QED
  BY <1>1, <1>2, <1>3

LEMMA LearntFields ==
  ASSUME NEW done \in Seq(Learnt), NEW i \in DOMAIN done
  PROVE  /\ done[i] \in Learnt /\ done[i].period \in Halves /\ done[i].time \in TimesOfDay
         /\ done[i].boost \in BOOLEAN /\ done[i].covered \in Nat
         /\ EndOf(done[i].period) \in Nat
<1>1. done[i] \in Learnt
  OBVIOUS
<1>2. /\ done[i].period \in Halves /\ done[i].time \in TimesOfDay
      /\ done[i].boost \in BOOLEAN /\ done[i].covered \in Nat
  BY <1>1 DEF Learnt
<1> QED
  BY <1>1, <1>2, HalvesAreTimes

LEMMA WholeLater ==
  ASSUME NEW done \in Seq(Learnt), NEW a \in Int, NEW b \in Int, a <= b, Whole(done, a)
  PROVE  Whole(done, b)
<1>1. \A i \in DOMAIN done : EndOf(done[i].period) \in Nat
  BY LearntFields
<1> QED
  BY <1>1 DEF Whole

LEMMA NewestWhole ==
  ASSUME NEW done \in Seq(Learnt), NEW by \in Int, Whole(done, by)
  PROVE  Newest(done) \in Seq(Learnt) /\ Whole(Newest(done), by)
<1>1. CASE Newest(done) = done
  BY <1>1
<1>2. CASE /\ Len(done) > MaxPeriodRecords
           /\ Newest(done) = SubSeq(done, Len(done) - MaxPeriodRecords + 1, Len(done))
  <2>1. MaxPeriodRecords \in Nat \ {0} /\ Len(done) \in Nat
    BY PeriodsAssumption
  <2>3. PICK n \in Nat : n = Len(done)
    BY <2>1
  <2>2. PICK m \in Int : m = n - MaxPeriodRecords + 1
    BY <2>1
  <2>4. 1 <= m /\ m <= n
    BY <1>2, <2>1, <2>2, <2>3
  <2>5. DOMAIN done = 1..n /\ \A i \in m..n : done[i] \in Learnt
    BY <2>3, <2>4
  <2>6. /\ SubSeq(done, m, n) \in Seq(Learnt)
        /\ Len(SubSeq(done, m, n)) = n - m + 1
        /\ \A i \in 1..(n - m + 1) : SubSeq(done, m, n)[i] = done[m + i - 1]
    BY <2>4, <2>5, SubSeqProperties
  <2>7. DOMAIN SubSeq(done, m, n) = 1..(n - m + 1)
    BY <2>6
  <2>8. \A i \in 1..(n - m + 1) : m + i - 1 \in 1..n
    BY <2>4
  <2>9. Whole(SubSeq(done, m, n), by)
    <3>1. \A i \in DOMAIN SubSeq(done, m, n) :
            m + i - 1 \in DOMAIN done /\ SubSeq(done, m, n)[i] = done[m + i - 1]
      BY <2>5, <2>6, <2>7, <2>8
    <3>2. \A i, j \in DOMAIN SubSeq(done, m, n) : i # j => m + i - 1 # m + j - 1
      BY <2>7
    <3> QED
      BY <3>1, <3>2 DEF Whole
  <2> QED
    BY <1>2, <2>2, <2>3, <2>6, <2>9
<1>3. Len(done) \in Nat /\ MaxPeriodRecords \in Nat
  BY PeriodsAssumption
<1>4. CASE Len(done) <= MaxPeriodRecords
  BY <1>1, <1>4 DEF Newest
<1>5. CASE ~(Len(done) <= MaxPeriodRecords)
  <2>1. Len(done) > MaxPeriodRecords
    BY <1>3, <1>5
  <2>2. Newest(done) = SubSeq(done, Len(done) - MaxPeriodRecords + 1, Len(done))
    BY <1>5, Zenon DEF Newest
  <2> QED
    BY <1>2, <2>1, <2>2
<1> QED
  BY <1>4, <1>5

LEMMA ConcatWhole ==
  ASSUME NEW old \in Seq(Learnt), NEW new \in Seq(Learnt), NEW by \in Int,
         Whole(old, by), Whole(new, by),
         \A i \in DOMAIN old, j \in DOMAIN new : old[i].period # new[j].period
  PROVE  old \o new \in Seq(Learnt) /\ Whole(old \o new, by)
<1> DEFINE both == old \o new
<1>1. /\ both \in Seq(Learnt) /\ Len(both) = Len(old) + Len(new)
      /\ \A i \in 1..Len(old) + Len(new) :
           both[i] = IF i <= Len(old) THEN old[i] ELSE new[i - Len(old)]
  BY ConcatProperties, Zenon
<1>2. PICK n \in Nat, m \in Nat : n = Len(old) /\ m = Len(new)
  OBVIOUS
<1>3. DOMAIN old = 1..n /\ DOMAIN new = 1..m /\ DOMAIN both = 1..(n + m)
  BY <1>1, <1>2
<1> HIDE DEF both
<1>4. \A i \in DOMAIN both : \/ i \in DOMAIN old /\ both[i] = old[i]
                             \/ i > n /\ i - n \in DOMAIN new /\ both[i] = new[i - n]
  BY <1>1, <1>2, <1>3
<1>5. \A i, j \in DOMAIN both : i # j => both[i].period # both[j].period
  <2> SUFFICES ASSUME NEW i \in DOMAIN both, NEW j \in DOMAIN both, i # j
               PROVE  both[i].period # both[j].period
    OBVIOUS
  <2>1. i \in Int /\ j \in Int
    BY <1>3
  <2>2. CASE i \in DOMAIN old /\ both[i] = old[i] /\ j \in DOMAIN old /\ both[j] = old[j]
    BY <2>2 DEF Whole
  <2>3. CASE /\ i > n /\ i - n \in DOMAIN new /\ both[i] = new[i - n]
             /\ j > n /\ j - n \in DOMAIN new /\ both[j] = new[j - n]
    <3>1. i - n # j - n
      BY <2>1
    <3> QED
      BY <2>3, <3>1 DEF Whole
  <2>4. CASE /\ i > n /\ i - n \in DOMAIN new /\ both[i] = new[i - n]
             /\ j \in DOMAIN old /\ both[j] = old[j]
    BY <2>4
  <2>5. CASE /\ j > n /\ j - n \in DOMAIN new /\ both[j] = new[j - n]
             /\ i \in DOMAIN old /\ both[i] = old[i]
    BY <2>5
  <2> QED
    BY <1>4, <2>2, <2>3, <2>4, <2>5
<1>6. \A i \in DOMAIN both : /\ both[i].covered = Cardinality(both[i].units)
                             /\ both[i].covered >= MinCovered
                             /\ EndOf(both[i].period) <= by
  BY <1>4 DEF Whole
<1> QED
  BY <1>1, <1>5, <1>6 DEF Whole, both

\* an integral adds to each half hour what the interval has of it
LEMMA IntegratedIsSeen ==
  ASSUME SolarInv, NEW lit \in BOOLEAN, NEW boost \in BOOLEAN, MediumTick(lit, boost)
  PROVE  /\ baseline \in Nat /\ baseline < clock
         /\ seen' \subseteq 0..(clock - 1)
         /\ Integrated(lit, boost) \in [Halves -> Sums]
         /\ \A p \in Halves : Integrated(lit, boost)[p].covered
              = IF EndOf(p) <= baseline THEN 0 ELSE Cardinality(seen' \cap UnitsOf(p))
<1>1. /\ baseline \in Nat /\ baseline < clock /\ clock \in Nat
      /\ seen \subseteq 0..(baseline - 1) /\ accum \in [Halves -> Sums]
  BY DEF SolarInv, SolarTypes, MediumTick, NoBaseline
<1>2. seen' = IF clock - baseline > MaxIntegration THEN seen
              ELSE seen \cup (baseline..(clock - 1))
  BY DEF MediumTick
<1>3. seen' \subseteq 0..(clock - 1)
  BY <1>1, <1>2
<1>4. \A p \in Halves : IsFiniteSet(OverlapIn(p)) /\ Cardinality(OverlapIn(p)) \in Nat
  BY HalvesAreTimes, FS_Intersection, FS_CardinalityType DEF OverlapIn
<1>5. ASSUME NEW p \in Halves
      PROVE  /\ Integrated(lit, boost)[p] \in Sums
             /\ Integrated(lit, boost)[p].covered
                  = IF EndOf(p) <= baseline THEN 0 ELSE Cardinality(seen' \cap UnitsOf(p))
  <2>1. accum[p] \in Sums /\ accum[p].covered \in Nat /\ accum[p].lit \in BOOLEAN
        /\ accum[p].boost \in BOOLEAN
    BY <1>1 DEF Sums
  <2>2. accum[p].covered = IF EndOf(p) <= baseline THEN 0 ELSE Cardinality(seen \cap UnitsOf(p))
    BY DEF SolarInv, Accumulated
  <2>3. CASE clock - baseline > MaxIntegration
    <3>1. Integrated(lit, boost)[p] = accum[p] /\ seen' = seen
      BY <1>2, <2>3 DEF Integrated
    <3> QED
      BY <2>1, <2>2, <3>1
  <2>4. CASE ~(clock - baseline > MaxIntegration) /\ OverlapIn(p) = {}
    <3>1. Integrated(lit, boost)[p] = accum[p]
      BY <2>4 DEF Integrated
    <3>2. seen' \cap UnitsOf(p) = seen \cap UnitsOf(p)
      BY <1>2, <2>4 DEF OverlapIn
    <3> QED
      BY <2>1, <2>2, <3>1, <3>2
  <2>5. CASE ~(clock - baseline > MaxIntegration) /\ OverlapIn(p) # {}
    <3>1. Integrated(lit, boost)[p] = [covered |-> accum[p].covered + Cardinality(OverlapIn(p)),
                                       lit     |-> accum[p].lit \/ lit,
                                       boost   |-> accum[p].boost \/ boost]
      BY <2>5 DEF Integrated
    <3>2. Integrated(lit, boost)[p] \in Sums
      BY <1>4, <2>1, <3>1 DEF Sums
    <3>3. ~(EndOf(p) <= baseline)
      <4>1. PICK u \in UnitsOf(p) : u \in baseline..(clock - 1)
        BY <2>5 DEF OverlapIn
      <4>2. u \in Nat /\ u < EndOf(p) /\ EndOf(p) \in Nat /\ baseline <= u
        BY <1>1, <4>1, HalvesAreTimes
      <4> QED
        BY <1>1, <4>2
    <3> DEFINE before == seen \cap UnitsOf(p)
               over == OverlapIn(p)
    <3>4. seen' \cap UnitsOf(p) = before \cup over
      BY <1>2, <2>5 DEF OverlapIn
    <3>5. before \cap over = {}
      BY <1>1 DEF OverlapIn
    <3>6. IsFiniteSet(before) /\ IsFiniteSet(over)
      BY <1>4, HalvesAreTimes, FS_Intersection
    <3>7. Cardinality(before) \in Nat /\ Cardinality(over) \in Nat
      BY <3>6, FS_CardinalityType
    <3> HIDE DEF before, over
    <3>8. Cardinality(before \cup over) = Cardinality(before) + Cardinality(over)
      <4>1. Cardinality(before \cap over) = 0
        BY <3>5, FS_EmptySet
      <4>2. Cardinality(before \cup over)
              = Cardinality(before) + Cardinality(over) - Cardinality(before \cap over)
        BY <3>6, FS_Union, Zenon
      <4> QED
        BY <3>7, <4>1, <4>2
    <3>9. accum[p].covered = Cardinality(before)
      BY <2>2, <3>3 DEF before
    <3>10. Integrated(lit, boost)[p].covered = Cardinality(before) + Cardinality(over)
      BY <3>1, <3>9 DEF over
    <3> QED
      BY <3>2, <3>3, <3>4, <3>8, <3>10
  <2> QED
    BY <2>3, <2>4, <2>5
<1>6. Integrated(lit, boost) \in [Halves -> Sums]
  <2>1. \A p \in Halves : Integrated(lit, boost)[p] \in Sums
    BY <1>5
  <2> DEFINE f == Integrated(lit, boost)
  <2>2. f = [p \in Halves |-> f[p]]
    BY DEF Integrated
  <2> HIDE DEF f
  <2> QED
    BY <2>1, <2>2 DEF f
<1> QED
  BY <1>1, <1>3, <1>5, <1>6

LEMMA RecordIsLearnt ==
  ASSUME NEW p \in Halves, NEW sum \in Sums
  PROVE  /\ Record(p, sum) \in Learnt /\ Record(p, sum).period = p
         /\ Record(p, sum).covered = sum.covered
         /\ Record(p, sum).units = seen' \cap UnitsOf(p)
<1>1. seen' \cap UnitsOf(p) \in SUBSET Nat /\ TimeOfDay(p) \in TimesOfDay
  BY HalvesAreTimes
<1>2. sum.covered \in Nat /\ sum.boost \in BOOLEAN
  BY DEF Sums
<1> QED
  BY <1>1, <1>2 DEF Record, Learnt

\* what a medium tick makes of the half hours that are over
LEMMA FlushedIsWhole ==
  ASSUME SolarInv, NEW lit \in BOOLEAN, NEW boost \in BOOLEAN, MediumTick(lit, boost)
  PROVE  records' \in Seq(Learnt) /\ Whole(records', clock)
<1> DEFINE sums == Integrated(lit, boost)
           taught == {p \in Completed(sums) : Recorded(p, sums[p])}
           done == InOrder(taught)
           new == [i \in DOMAIN done |-> Record(done[i], sums[done[i]])]
<1>1. records' = Newest(records \o new)
  BY DEF MediumTick, Flushed
<1>2. /\ baseline \in Nat /\ clock \in Nat /\ baseline < clock
      /\ sums \in [Halves -> Sums]
      /\ \A p \in Halves : sums[p].covered
           = IF EndOf(p) <= baseline THEN 0 ELSE Cardinality(seen' \cap UnitsOf(p))
  BY IntegratedIsSeen DEF SolarInv, SolarTypes
<1>3. records \in Seq(Learnt) /\ Whole(records, baseline)
  BY <1>2 DEF SolarInv, SolarTypes, NoBaseline
<1> HIDE DEF sums
<1>4. taught \subseteq Halves /\ IsFiniteSet(taught) /\ taught \in SUBSET Nat
  <2>1. taught \subseteq Halves
    BY DEF Completed
  <2> QED
    BY <2>1, HalvesAreTimes, FS_Subset
<1>5. ASSUME NEW p \in taught
      PROVE  /\ p \in Halves /\ sums[p].covered >= MinCovered /\ EndOf(p) <= clock
             /\ EndOf(p) > baseline
             /\ sums[p].covered = Cardinality(seen' \cap UnitsOf(p))
             /\ sums[p].covered \in Nat /\ sums[p].boost \in BOOLEAN
  <2>1. /\ p \in Halves /\ sums[p].covered > 0 /\ EndOf(p) <= clock
        /\ sums[p].covered >= MinCovered
    BY DEF Completed, Recorded, EndOf
  <2>2. sums[p] \in Sums
    BY <1>2, <2>1
  <2>3. sums[p].covered \in Nat /\ sums[p].boost \in BOOLEAN
    BY <2>2 DEF Sums
  <2>4. ASSUME EndOf(p) <= baseline PROVE FALSE
    <3>1. sums[p].covered = 0
      BY <1>2, <2>1, <2>4
    <3> QED
      BY <2>1, <3>1
  <2>5. EndOf(p) \in Nat
    BY <2>1, HalvesAreTimes
  <2> QED
    BY <1>2, <2>1, <2>3, <2>4, <2>5
<1> HIDE DEF taught
<1>6. PICK n \in Nat : n = Cardinality(taught)
  BY <1>4, InOrderIsOrder
<1>7. /\ done \in [1..n -> taught] /\ DOMAIN done = 1..n
      /\ \A i, j \in 1..n : i < j => done[i] < done[j]
  <2>1. /\ done \in [1..n -> taught]
        /\ \A i, j \in 1..n : i < j => done[i] < done[j]
    BY <1>4, <1>6, InOrderIsOrder
  <2> QED
    BY <2>1
<1> HIDE DEF done
<1>8. \A i, j \in 1..n : i # j => done[i] # done[j]
  <2> SUFFICES ASSUME NEW i \in 1..n, NEW j \in 1..n, i # j
               PROVE  done[i] # done[j]
    OBVIOUS
  <2>1. done[i] \in Nat /\ done[j] \in Nat
    BY <1>4, <1>7
  <2>2. i < j \/ j < i
    OBVIOUS
  <2> QED
    BY <1>7, <2>1, <2>2
<1>9. DOMAIN new = 1..n
  BY <1>7
<1>10. ASSUME NEW i \in 1..n
       PROVE  /\ new[i] \in Learnt /\ new[i].period = done[i] /\ done[i] \in taught
              /\ new[i].covered = Cardinality(new[i].units)
              /\ new[i].covered >= MinCovered
              /\ EndOf(new[i].period) <= clock /\ EndOf(new[i].period) > baseline
  <2>1. done[i] \in taught
    BY <1>7
  <2>2. new[i] = Record(done[i], sums[done[i]])
    BY <1>9
  <2> HIDE DEF new
  <2>3. /\ new[i] \in Learnt /\ new[i].period = done[i]
        /\ new[i].covered = sums[done[i]].covered
        /\ new[i].units = seen' \cap UnitsOf(done[i])
    <3>1. PICK p \in Halves, sum \in Sums : p = done[i] /\ sum = sums[p]
      BY <1>2, <1>5, <2>1
    <3>2. /\ Record(p, sum) \in Learnt /\ Record(p, sum).period = p
          /\ Record(p, sum).covered = sum.covered
          /\ Record(p, sum).units = seen' \cap UnitsOf(p)
      BY RecordIsLearnt
    <3> QED
      BY <2>2, <3>1, <3>2
  <2> QED
    BY <1>5, <2>1, <2>3
<1>11. new \in Seq(Learnt)
  <2>1. new \in [1..n -> Learnt]
    BY <1>9, <1>10
  <2> HIDE DEF new
  <2> QED
    BY <2>1, SeqDef
<1> HIDE DEF new
<1>12. Whole(new, clock)
  BY <1>8, <1>9, <1>10 DEF Whole
<1>13. \A i \in DOMAIN records, j \in DOMAIN new : records[i].period # new[j].period
  <2> SUFFICES ASSUME NEW i \in DOMAIN records, NEW j \in DOMAIN new,
                      records[i].period = new[j].period
               PROVE  FALSE
    OBVIOUS
  <2>1. EndOf(records[i].period) <= baseline
    BY <1>3 DEF Whole
  <2>2. EndOf(new[j].period) > baseline
    BY <1>9, <1>10
  <2>3. EndOf(records[i].period) \in Nat
    BY <1>3, LearntFields
  <2> QED
    BY <1>2, <2>1, <2>2, <2>3
<1>14. Whole(records, clock)
  BY <1>2, <1>3, WholeLater
<1>15. records \o new \in Seq(Learnt) /\ Whole(records \o new, clock)
  BY <1>2, <1>3, <1>11, <1>12, <1>13, <1>14, ConcatWhole
<1>16. clock \in Int
  BY <1>2
<1> QED
  BY <1>1, <1>15, <1>16, NewestWhole

LEMMA NothingIsWhole ==
  ASSUME NEW by
  PROVE  <<>> \in Seq(Learnt) /\ Whole(<<>>, by)
  BY DEF Whole

\* a medium tick accumulates what it integrates, and clears what is over
LEMMA TickAccumulates ==
  ASSUME SolarInv, NEW lit \in BOOLEAN, NEW boost \in BOOLEAN, MediumTick(lit, boost)
  PROVE  accum' \in [Halves -> Sums] /\ Accumulated'
<1> DEFINE sums == Integrated(lit, boost)
           over == Completed(sums)
<1>1. /\ baseline \in Nat /\ clock \in Nat /\ baseline < clock
      /\ sums \in [Halves -> Sums]
      /\ \A p \in Halves : sums[p].covered
           = IF EndOf(p) <= baseline THEN 0 ELSE Cardinality(seen' \cap UnitsOf(p))
  BY IntegratedIsSeen DEF SolarInv, SolarTypes
<1>2. accum' = [p \in Halves |-> IF p \in over THEN Nothing ELSE sums[p]]
  BY DEF MediumTick
<1>3. baseline' = clock
  BY DEF MediumTick
<1> HIDE DEF sums
<1>4. Nothing \in Sums /\ Nothing.covered = 0
  BY DEF Nothing, Sums
<1>5. accum' \in [Halves -> Sums]
  BY <1>1, <1>2, <1>4
<1>6. ASSUME NEW p \in Halves
      PROVE  accum'[p].covered
               = IF EndOf(p) <= clock THEN 0 ELSE Cardinality(seen' \cap UnitsOf(p))
  <2>1. sums[p] \in Sums /\ EndOf(p) \in Nat
    BY <1>1, HalvesAreTimes
  <2>2. sums[p].covered \in Nat
    BY <2>1 DEF Sums
  <2>3. p \in over <=> (sums[p].covered > 0 /\ EndOf(p) <= clock)
    BY DEF Completed, EndOf
  <2>4. accum'[p] = IF p \in over THEN Nothing ELSE sums[p]
    BY <1>2
  <2> HIDE DEF over
  <2>5. CASE p \in over
    BY <1>4, <2>3, <2>4, <2>5
  <2>6. CASE p \notin over /\ EndOf(p) <= clock
    BY <2>2, <2>3, <2>4, <2>6
  <2>7. CASE p \notin over /\ ~(EndOf(p) <= clock)
    <3>1. ~(EndOf(p) <= baseline)
      BY <1>1, <2>1, <2>7
    <3>2. sums[p].covered = Cardinality(seen' \cap UnitsOf(p))
      BY <1>1, <3>1
    <3>3. accum'[p] = sums[p]
      BY <2>4, <2>7
    <3> QED
      BY <2>7, <3>2, <3>3
  <2> QED
    BY <2>5, <2>6, <2>7
<1>7. \A p : EndOf(p)' = EndOf(p) /\ UnitsOf(p)' = UnitsOf(p)
  BY DEF EndOf, UnitsOf
<1> QED
  BY <1>3, <1>5, <1>6 DEF Accumulated, EndOf, StartOf, UnitsOf

LEMMA SolarInvInitially == SolarInit => SolarInv
<1> SUFFICES ASSUME SolarInit PROVE SolarInv
  OBVIOUS
<1>1. Nothing \in Sums /\ Nothing.covered = 0
  BY DEF Nothing, Sums
<1>2. SolarTypes
  BY <1>1, NothingIsWhole DEF SolarInit, SolarTypes, NoBaseline
<1>3. Accumulated
  <2>1. \A p \in Halves : accum[p].covered = 0 /\ Cardinality(seen \cap UnitsOf(p)) = 0
    <3>1. \A p \in Halves : seen \cap UnitsOf(p) = {}
      BY DEF SolarInit
    <3> QED
      BY <1>1, <3>1, FS_EmptySet DEF SolarInit
  <2> QED
    BY <2>1 DEF Accumulated
<1>4. /\ Whole(records, IF baseline = NoBaseline THEN clock ELSE baseline)
      /\ Whole(solar_store.records, clock)
  BY NothingIsWhole DEF SolarInit
<1>5. records = <<>>
  BY DEF SolarInit
<1> QED
  BY <1>2, <1>3, <1>4, <1>5 DEF SolarInv

LEMMA SolarInvPreserved == SolarInv /\ [SolarNext]_solarVars => SolarInv'
<1> SUFFICES ASSUME SolarInv, [SolarNext]_solarVars PROVE SolarInv'
  OBVIOUS
<1>1. /\ SolarTypes /\ Accumulated
      /\ Whole(records, IF baseline = NoBaseline THEN clock ELSE baseline)
      /\ Whole(solar_store.records, clock)
      /\ (tracking /\ records # <<>>) => sample_count = Cardinality(Counted(records))
  BY DEF SolarInv
<1>2. /\ clock \in Nat /\ tracking \in BOOLEAN /\ baseline \in Int
      /\ baseline = NoBaseline \/ baseline \in 0..clock
      /\ ~tracking => baseline = NoBaseline
      /\ accum \in [Halves -> Sums]
      /\ records \in Seq(Learnt) /\ solar_store.records \in Seq(Learnt)
      /\ seen \subseteq 0..(baseline - 1)
  BY <1>1 DEF SolarTypes
<1>3. Nothing \in Sums /\ Nothing.covered = 0 /\ NoBaseline = -1
  BY DEF Nothing, Sums, NoBaseline
<1>4. CASE UnitPasses
  <2>1. /\ clock' = clock + 1 /\ clock' \in Nat
        /\ UNCHANGED <<tracking, baseline, accum, waiting, records, sample_count,
                       solar_store, seen>>
    BY <1>2, <1>4 DEF UnitPasses
  <2>2. SolarTypes'
    BY <1>2, <1>3, <2>1 DEF SolarTypes
  <2>3. Accumulated'
    BY <1>1, <2>1 DEF Accumulated
  <2>4. Whole(solar_store.records, clock')
    BY <1>1, <1>2, <2>1, WholeLater
  <2>5. Whole(records, IF baseline = NoBaseline THEN clock' ELSE baseline)
    <3>1. CASE baseline = NoBaseline
      <4>1. Whole(records, clock)
        BY <1>1, <3>1
      <4>2. Whole(records, clock')
        BY <1>2, <2>1, <4>1, WholeLater
      <4> QED
        BY <3>1, <4>2
    <3>2. CASE baseline # NoBaseline
      BY <1>1, <3>2
    <3> QED
      BY <3>1, <3>2
  <2> QED
    BY <1>1, <2>1, <2>2, <2>3, <2>4, <2>5 DEF SolarInv, Counted
<1>5. CASE FirstTick
  <2>1. /\ tracking /\ baseline = NoBaseline /\ baseline' = clock
        /\ UNCHANGED <<clock, tracking, accum, waiting, records, sample_count,
                       solar_store, seen>>
    BY <1>5 DEF FirstTick
  <2>2. seen = {}
    BY <1>2, <1>3, <2>1
  <2>3. SolarTypes'
    BY <1>2, <1>3, <2>1, <2>2 DEF SolarTypes
  <2>4. \A p \in Halves : accum[p].covered = 0 /\ Cardinality(seen \cap UnitsOf(p)) = 0
    <3>1. \A p \in Halves : EndOf(p) \in Nat /\ seen \cap UnitsOf(p) = {}
      BY <2>2, HalvesAreTimes
    <3>2. \A p \in Halves : Cardinality(seen \cap UnitsOf(p)) = 0
      BY <3>1, FS_EmptySet
    <3> QED
      BY <1>1, <3>2 DEF Accumulated
  <2>5. Accumulated'
    BY <2>1, <2>4 DEF Accumulated
  <2>6. Whole(records, clock) /\ clock # NoBaseline
    BY <1>1, <1>2, <1>3, <2>1
  <2> QED
    BY <1>1, <2>1, <2>3, <2>5, <2>6 DEF SolarInv, Counted
<1>6. ASSUME NEW lit \in BOOLEAN, NEW boost \in BOOLEAN, MediumTick(lit, boost)
      PROVE  SolarInv'
  <2>1. /\ tracking /\ baseline # NoBaseline /\ baseline' = clock
        /\ sample_count' = IF records' = records THEN sample_count ELSE SampleCount(records')
        /\ UNCHANGED <<clock, tracking, solar_store>>
    BY <1>6 DEF MediumTick
  <2>2. records' \in Seq(Learnt) /\ Whole(records', clock)
    BY <1>6, FlushedIsWhole
  <2>3. accum' \in [Halves -> Sums] /\ Accumulated'
    BY <1>6, TickAccumulates
  <2>4. seen' \subseteq 0..(clock - 1)
    BY <1>6, IntegratedIsSeen
  <2>5. SolarTypes'
    BY <1>2, <2>1, <2>2, <2>3, <2>4 DEF SolarTypes
  <2>6. clock # NoBaseline
    BY <1>2, <1>3
  <2>7. records' # <<>> => sample_count' = Cardinality(Counted(records'))
    <3>1. CASE records' = records
      BY <1>1, <2>1, <3>1
    <3>2. CASE records' # records
      BY <2>1, <3>2 DEF SampleCount
    <3> QED
      BY <3>1, <3>2
  <2> QED
    BY <1>1, <2>1, <2>2, <2>3, <2>5, <2>6, <2>7 DEF SolarInv, Counted
<1>7. ASSUME UNCHANGED <<clock, tracking, baseline, accum, records, sample_count, seen>>,
             \/ UNCHANGED solar_store
             \/ solar_store'.records = records
      PROVE  SolarInv'
  <2>1. Whole(records, clock)
    <3>1. (IF baseline = NoBaseline THEN clock ELSE baseline) <= clock
      BY <1>2
    <3>2. (IF baseline = NoBaseline THEN clock ELSE baseline) \in Int
      BY <1>2
    <3> QED
      BY <1>1, <1>2, <3>1, <3>2, WholeLater
  <2>2. solar_store'.records \in Seq(Learnt) /\ Whole(solar_store'.records, clock)
    BY <1>1, <1>2, <1>7, <2>1
  <2>3. SolarTypes'
    BY <1>2, <1>7, <2>2 DEF SolarTypes
  <2>4. Accumulated'
    BY <1>1, <1>7 DEF Accumulated
  <2> QED
    BY <1>1, <1>7, <2>2, <2>3, <2>4 DEF SolarInv, Counted
<1>8. CASE \E first \in Halves, forecast \in BOOLEAN : RecordForecasts(first, forecast)
  BY <1>7, <1>8 DEF RecordForecasts
<1>9. CASE SaveSolar
  <2>1. solar_store'.records = records
    BY <1>9 DEF SaveSolar
  <2> QED
    BY <1>7, <1>9, <2>1 DEF SaveSolar
<1>10. CASE SolarGoesDown
  <2>1. /\ ~tracking' /\ baseline' = NoBaseline /\ records' = <<>> /\ seen' = {}
        /\ accum' = [p \in Halves |-> Nothing] /\ UNCHANGED <<clock, solar_store>>
    BY <1>10 DEF SolarGoesDown
  <2>2. SolarTypes'
    <3>1. accum' \in [Halves -> Sums]
      BY <1>3, <2>1
    <3>2. records' \in Seq(Learnt) /\ solar_store'.records \in Seq(Learnt)
      BY <1>2, <2>1, NothingIsWhole
    <3>3. tracking' \in BOOLEAN /\ (~tracking' => baseline' = NoBaseline)
      BY <1>10, <2>1 DEF SolarGoesDown
    <3>4. seen' \subseteq 0..(baseline' - 1) /\ baseline' \in Int
      BY <1>3, <2>1
    <3> QED
      BY <1>2, <2>1, <3>1, <3>2, <3>3, <3>4 DEF SolarTypes
  <2>3. Accumulated'
    <3>1. \A p \in Halves : seen' \cap UnitsOf(p) = {}
      BY <2>1
    <3>2. \A p \in Halves : accum'[p].covered = 0 /\ Cardinality(seen' \cap UnitsOf(p)) = 0
      BY <1>3, <2>1, <3>1, FS_EmptySet
    <3> QED
      BY <3>2 DEF Accumulated
  <2>4. Whole(<<>>, clock)
    BY NothingIsWhole
  <2> QED
    BY <1>1, <2>1, <2>2, <2>3, <2>4 DEF SolarInv
<1>11. ASSUME NEW readable \in BOOLEAN, LoadSolar(readable)
       PROVE  SolarInv'
  <2>1. /\ ~tracking /\ tracking' = TRUE
        /\ records' = IF readable THEN solar_store.records ELSE <<>>
        /\ sample_count' = IF records' # <<>> THEN Cardinality(Counted(records'))
                           ELSE solar_store.count
        /\ UNCHANGED <<clock, baseline, accum, solar_store, seen>>
    BY <1>11 DEF LoadSolar
  <2>2. baseline = NoBaseline
    BY <1>2, <2>1
  <2>3. records' \in Seq(Learnt) /\ Whole(records', clock)
    <3>1. CASE readable
      BY <1>1, <1>2, <2>1, <3>1
    <3>2. CASE ~readable
      BY <2>1, <3>2, NothingIsWhole
    <3> QED
      BY <3>1, <3>2
  <2>4. SolarTypes'
    BY <1>2, <2>1, <2>2, <2>3 DEF SolarTypes
  <2>5. Accumulated'
    BY <1>1, <2>1 DEF Accumulated
  <2>6. records' # <<>> => sample_count' = Cardinality(Counted(records'))
    BY <2>1
  <2> QED
    BY <1>1, <2>1, <2>2, <2>3, <2>4, <2>5, <2>6 DEF SolarInv, Counted
<1>12. CASE UNCHANGED solarVars
  BY <1>7, <1>12 DEF solarVars
<1> QED
  BY <1>4, <1>5, <1>6, <1>8, <1>9, <1>10, <1>11, <1>12 DEF SolarNext

LEMMA SolarInvHolds == SolarSpec => []SolarInv
<1> QED
  BY SolarInvInitially, SolarInvPreserved, PTL DEF SolarSpec

\* whatever the context, no rung of the ladder has more evidence than the whole
LEMMA CorrectionsAgree ==
  ASSUME SolarInv
  PROVE  CorrectionAgrees
<1> SUFFICES ASSUME tracking, records # <<>>, NEW time \in TimesOfDay
             PROVE  Reported <=> Corrects(time)
  BY DEF CorrectionAgrees
<1> DEFINE mine == {i \in Counted(records) : time = "any" \/ records[i].time = time}
           all == {i \in Counted(records) : "any" = "any" \/ records[i].time = "any"}
<1>1. records \in Seq(Learnt) /\ sample_count = Cardinality(Counted(records))
  BY DEF SolarInv, SolarTypes
<1>2. IsFiniteSet(Counted(records))
  <2>1. DOMAIN records = 1..Len(records) /\ Len(records) \in Int
    BY <1>1
  <2>2. IsFiniteSet(DOMAIN records)
    BY <2>1, FS_Interval
  <2>3. Counted(records) \in SUBSET DOMAIN records
    BY DEF Counted
  <2> QED
    BY <2>2, <2>3, FS_Subset
<1>3. all = Counted(records)
  OBVIOUS
<1>4. mine \in SUBSET Counted(records)
  OBVIOUS
<1>5. Evidence(time) = Cardinality(mine) /\ Evidence("any") = Cardinality(all)
  BY DEF Evidence
<1> HIDE DEF mine, all
<1>6. IsFiniteSet(mine) /\ Cardinality(mine) <= Cardinality(Counted(records))
  BY <1>2, <1>4, FS_Subset
<1>7. PICK n \in Nat, m \in Nat : n = Evidence(time) /\ m = sample_count
  BY <1>1, <1>2, <1>5, <1>6, FS_CardinalityType
<1>8. n <= m /\ Evidence("any") = m /\ Evidence(time) = n /\ sample_count = m
  BY <1>1, <1>3, <1>5, <1>6, <1>7
<1>9. time # "none" /\ "any" # "none" /\ MinSamples \in Nat
  BY PeriodsAssumption DEF TimesOfDay
<1>10. CASE n >= MinSamples
  <2>1. m >= MinSamples
    BY <1>8, <1>9, <1>10
  <2> QED
    BY <1>8, <1>9, <1>10, <2>1 DEF Reported, Corrects, Scope
<1>11. CASE ~(n >= MinSamples) /\ m >= MinSamples
  BY <1>8, <1>9, <1>11 DEF Reported, Corrects, Scope
<1>12. CASE ~(n >= MinSamples) /\ ~(m >= MinSamples)
  BY <1>8, <1>9, <1>12 DEF Reported, Corrects, Scope
<1> QED
  BY <1>10, <1>11, <1>12

\* The forecast of the sun is corrected by what was seen, and just when the
\* sensor says so: forecast/solar_accuracy.py over any number of restarts.
THEOREM LearntAsSeenCorrect == SolarSpec => []LearntAsSeen
<1>1. SolarInv => LearntAsSeen
  <2> SUFFICES ASSUME SolarInv PROVE LearntAsSeen
    OBVIOUS
  <2>1. WholePeriodsOnly
    BY DEF SolarInv, Whole, WholePeriodsOnly
  <2> QED
    BY <2>1, CorrectionsAgree DEF LearntAsSeen
<1> QED
  BY <1>1, SolarInvHolds, PTL
=============================================================================
