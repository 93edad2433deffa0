------------------------------ MODULE Lifecycle ------------------------------
(***************************************************************************)
(* The life of a coordinator: set-up, failed set-up, unload and set-up     *)
(* again, with everything that can still be under way across them: timers, *)
(* subscriptions, the Solcast retry, evaluation tasks that have not begun, *)
(* evaluations that wait for the lock, a transition in the middle of its   *)
(* writes, a correction of the grid-charging listener.                     *)
(*                                                                         *)
(* Home Assistant runs one task at a time and switches at awaits: an       *)
(* action is what one task does between two awaits.  What an evaluation    *)
(* decides is the subject of DecisionGate, what it writes of Actuation;    *)
(* here it is only whether it writes, and for which coordinator.           *)
(***************************************************************************)
EXTENDS Integers, FiniteSets

CONSTANTS
  Setups,       \* bound: coordinators created, one after the other
  TaskCap,      \* bound: evaluation tasks not yet begun, and waiting ones
  MaxRetries    \* SOLCAST_MAX_STARTUP_RETRIES

ASSUME LifecycleAssumption ==
  /\ Setups \in Nat \ {0} /\ TaskCap \in Nat \ {0}
  /\ MaxRetries \in Nat

VARIABLES
  entry,        \* the config entry's state in Home Assistant
  cur,          \* entry.runtime_data: the newest coordinator, 0 for none
  start,        \* how far each coordinator's async_start has come
  stopped,      \* _stopped, set on every part by stop_listening
  armed,        \* subscriptions and timers a coordinator holds
  coalesce,     \* _coalesce_unsub is set: a change waits to settle
  retry,        \* the Solcast retry asleep: its _retry_count, 0 for none
  grace,        \* _startup_grace_until: ahead, in the past, or None
  tasks,        \* evaluation tasks created and not begun
  line,         \* evaluations waiting for _evaluate_lock
  hold,         \* the evaluation inside the lock, at an await
  transition,   \* _in_mode_transition
  flip,         \* a correction of the grid-charging listener is queued
  unseen,       \* a monitored input changed and no evaluation acted since,
                \* while the coordinator is not stopped
  commander,    \* the coordinator whose own decision was written last
  disk          \* what each store holds on disk: the history, or blanks

life == <<entry, cur, start, stopped>>
waits == <<coalesce, retry, grace>>
evals == <<tasks, line, hold>>
vars == <<life, armed, waits, evals, transition, flip, unseen, commander, disk>>

Instances == 1..Setups

(***************************************************************************)
(* async_start, in the stretches between its awaits: "new" restores the    *)
(* day's totals, "restored" loads the decision records, "recorded" the     *)
(* solar samples, "subscribed" the load and forecast history, "loaded" the *)
(* Tesla tariff and the Solcast check, "booting" awaits the first          *)
(* evaluation, "started" the weather.                                      *)
(***************************************************************************)
Rank(s) ==
  CASE s = "none" -> 0 [] s = "new" -> 1 [] s = "restored" -> 2
    [] s = "recorded" -> 3 [] s = "subscribed" -> 4 [] s = "loaded" -> 5
    [] s = "booting" -> 6 [] s = "started" -> 7

Stages == {"none", "new", "restored", "recorded", "subscribed", "loaded",
           "booting", "started"}

Reached(i, s) == Rank(start[i]) >= Rank(s)

Stores == {"totals", "decisions", "solar", "forecast"}

\* The stores whose contents a coordinator has read from disk.
Holds(i) == {s \in Stores :
               \/ s = "totals" /\ Reached(i, "restored")
               \/ s = "decisions" /\ Reached(i, "recorded")
               \/ s = "solar" /\ Reached(i, "subscribed")
               \/ s = "forecast" /\ Reached(i, "loaded")}

\* A broken form of FinalSaveSteps: the forecast stores are saved unread.
FinalSaveStepsUnread(i) ==
  {"totals", "forecast"}
    \cup (IF Reached(i, "recorded") THEN {"decisions"} ELSE {})
    \cup (IF Reached(i, "subscribed") THEN {"solar"} ELSE {})

(***************************************************************************)
(* The stores a final save writes: the decision tracker is there only once *)
(* it has loaded, the solar tracker saves only what was recorded into it,  *)
(* and the forecast stores wait for _forecast_stores_loaded.               *)
(***************************************************************************)
FinalSaveSteps(i) ==
  {"totals"}
    \cup (IF Reached(i, "recorded") THEN {"decisions"} ELSE {})
    \cup (IF Reached(i, "subscribed") THEN {"solar"} ELSE {})
    \cup (IF Reached(i, "loaded") THEN {"forecast"} ELSE {})

\* Each store is saved on its own: one that fails or times out is skipped,
\* and those after it are saved.
Save(i, steps) ==
  \E failed \in {{}} \cup {{s} : s \in steps} :
    disk' = [s \in Stores |->
               IF s \notin steps \ failed THEN disk[s]
               ELSE IF s \in Holds(i) THEN "history" ELSE "blank"]

Init ==
  /\ entry = "not_loaded" /\ cur = 0
  /\ start = [i \in Instances |-> "none"]
  /\ stopped = [i \in Instances |-> FALSE]
  /\ armed = [i \in Instances |-> {}]
  /\ coalesce = [i \in Instances |-> FALSE]
  /\ retry = [i \in Instances |-> 0]
  /\ grace = [i \in Instances |-> "none"]
  /\ tasks = [i \in Instances |-> 0]
  /\ line = [i \in Instances |-> 0]
  /\ hold = [i \in Instances |-> "free"]
  /\ transition = [i \in Instances |-> FALSE]
  /\ flip = [i \in Instances |-> FALSE]
  /\ unseen = [i \in Instances |-> FALSE]
  /\ commander = 0
  /\ disk = [s \in Stores |-> "history"]

-----------------------------------------------------------------------------
(* Set-up *)

AsyncSetupEntry ==
  /\ entry \in {"not_loaded", "failed"} /\ cur < Setups
  /\ entry' = "setting_up"
  /\ cur' = cur + 1
  /\ start' = [start EXCEPT ![cur'] = "new"]
  /\ UNCHANGED <<stopped, armed, waits, evals, transition, flip, unseen,
                 commander, disk>>

Advance(from, to) ==
  /\ entry = "setting_up" /\ start[cur] = from
  /\ start' = [start EXCEPT ![cur] = to]
  /\ UNCHANGED <<entry, cur, stopped>>

\* Totals and bookings are back: the shutdown listener, the state machine
\* with its startup grace and the grid-charging listener come into being.
Restored ==
  /\ Advance("new", "restored")
  /\ armed' = [armed EXCEPT ![cur] = {"shutdown", "grid"}]
  /\ grace' = [grace EXCEPT ![cur] = "running"]
  /\ UNCHANGED <<coalesce, retry, evals, transition, flip, unseen,
                 commander, disk>>

DecisionsLoaded ==
  /\ Advance("restored", "recorded")
  /\ UNCHANGED <<armed, waits, evals, transition, flip, unseen, commander, disk>>

\* SubscriptionManager.start, and the first read of the inputs.
Subscribed ==
  /\ Advance("recorded", "subscribed")
  /\ armed' = [armed EXCEPT ![cur] = @ \cup {"inputs", "summary"}]
  /\ UNCHANGED <<waits, evals, transition, flip, unseen, commander, disk>>

ForecastStoresLoaded ==
  /\ Advance("subscribed", "loaded")
  /\ UNCHANGED <<armed, waits, evals, transition, flip, unseen, commander, disk>>

\* wait_for_solcast_and_compute, called by async_start.
SolcastReady ==
  /\ Advance("loaded", "booting")
  /\ UNCHANGED <<armed, waits, evals, transition, flip, unseen, commander, disk>>

SolcastNotReady ==
  /\ MaxRetries > 0
  /\ Advance("loaded", "started")
  /\ retry' = [retry EXCEPT ![cur] = 1]
  /\ UNCHANGED <<armed, coalesce, grace, evals, transition, flip, unseen,
                 commander, disk>>

\* The weather is refreshed, async_start returns, the platforms are forwarded
\* and the options listener is added.
Loaded ==
  /\ entry = "setting_up" /\ start[cur] = "started"
  /\ entry' = "loaded"
  /\ UNCHANGED <<cur, start, stopped, armed, waits, evals, transition, flip,
                 unseen, commander, disk>>

(***************************************************************************)
(* Forwarding the platforms raises, outside the try around async_start:    *)
(* nobody stops the coordinator.  Home Assistant does not set such an      *)
(* entry up again of its own accord, and nor does the model: a reload by   *)
(* hand would run a second coordinator beside this one.                    *)
(***************************************************************************)
ForwardingFails ==
  /\ entry = "setting_up" /\ start[cur] = "started"
  /\ entry' = "abandoned"
  /\ UNCHANGED <<cur, start, stopped, armed, waits, evals, transition, flip,
                 unseen, commander, disk>>

\* A broken form of StopListening: the evaluation in the lock writes on.
StopListeningWritesOn(i) ==
  /\ stopped' = [stopped EXCEPT ![i] = TRUE]
  /\ coalesce' = [coalesce EXCEPT ![i] = FALSE]
  /\ hold' = hold
  /\ armed' = [armed EXCEPT ![i] = {}]
  /\ unseen' = [unseen EXCEPT ![i] = FALSE]

(***************************************************************************)
(* stop_listening: flags every part, cancels the coalesce timer, cancels   *)
(* the evaluation inside the lock, and drops every listener and timer.     *)
(***************************************************************************)
StopListening(i) ==
  /\ stopped' = [stopped EXCEPT ![i] = TRUE]
  /\ coalesce' = [coalesce EXCEPT ![i] = FALSE]
  /\ hold' = [hold EXCEPT ![i] = IF @ = "free" THEN @ ELSE "cancelled"]
  /\ armed' = [armed EXCEPT ![i] = {}]
  /\ unseen' = [unseen EXCEPT ![i] = FALSE]

\* Any await of async_start may raise, the weather refresh that ends it too;
\* what was loaded is not saved.
StartFails ==
  /\ entry = "setting_up" /\ start[cur] # "booting"
  /\ StopListening(cur)
  /\ entry' = "failed"
  /\ UNCHANGED <<cur, start, retry, grace, tasks, line, transition,
                 flip, commander, disk>>

-----------------------------------------------------------------------------
(* Unload *)

\* A broken form of AsyncUnloadEntry: the coordinator stops ahead of the
\* platforms.
AsyncUnloadEntryStopsFirst ==
  /\ entry = "loaded"
  /\ entry' = "unloading"
  /\ StopListening(cur)
  /\ UNCHANGED <<cur, start, retry, grace, tasks, line, transition, flip,
                 commander, disk>>

\* Platforms first: if they refuse, nothing has been stopped.
AsyncUnloadEntry ==
  /\ entry = "loaded"
  /\ entry' = "unloading"
  /\ UNCHANGED <<cur, start, stopped, armed, waits, evals, transition, flip,
                 unseen, commander, disk>>

PlatformsRefuse ==
  /\ entry = "unloading"
  /\ entry' = "loaded"
  /\ UNCHANGED <<cur, start, stopped, armed, waits, evals, transition, flip,
                 unseen, commander, disk>>

AsyncStop ==
  /\ entry = "unloading"
  /\ entry' = "stopping"
  /\ StopListening(cur)
  /\ UNCHANGED <<cur, start, retry, grace, tasks, line, transition, flip,
                 commander, disk>>

FinalSaveOnUnload ==
  /\ entry = "stopping"
  /\ Save(cur, FinalSaveSteps(cur))
  /\ entry' = "not_loaded"
  /\ UNCHANGED <<cur, start, stopped, armed, waits, evals, transition, flip,
                 unseen, commander>>

\* Home Assistant shuts down: no entry is unloaded, the listener saves.
HandleHomeassistantStop(i) ==
  /\ "shutdown" \in armed[i]
  /\ armed' = [armed EXCEPT ![i] = @ \ {"shutdown"}]
  /\ Save(i, FinalSaveSteps(i))
  /\ UNCHANGED <<life, waits, evals, transition, flip, unseen, commander>>

\* The five-minute save; its timer is armed together with the inputs.
HandleLearningSave(i) ==
  /\ "inputs" \in armed[i]
  /\ Save(i, {"totals", "decisions", "solar"})
  /\ UNCHANGED <<life, armed, waits, evals, transition, flip, unseen, commander>>

\* A broken form of AsyncOptionsUpdated: it arms the timer of a stopped
\* coordinator.
AsyncOptionsUpdatedRearms ==
  /\ entry \in {"loaded", "unloading", "stopping"} /\ tasks[cur] < TaskCap
  /\ armed' = [armed EXCEPT ![cur] = @ \cup {"summary"}]
  /\ tasks' = [tasks EXCEPT ![cur] = @ + 1]
  /\ UNCHANGED <<life, waits, line, hold, transition, flip, unseen, commander,
                 disk>>

\* A changed option: the summary timer moves and a recompute evaluates.
AsyncOptionsUpdated ==
  /\ entry \in {"loaded", "unloading", "stopping"} /\ tasks[cur] < TaskCap
  /\ armed' = IF stopped[cur] THEN armed
              ELSE [armed EXCEPT ![cur] = @ \cup {"summary"}]
  /\ tasks' = [tasks EXCEPT ![cur] = @ + 1]
  /\ UNCHANGED <<life, waits, line, hold, transition, flip, unseen, commander,
                 disk>>

-----------------------------------------------------------------------------
(* What asks for an evaluation *)

\* A monitored entity changes; during a transition that is all.
OnStateChange(i) ==
  /\ "inputs" \in armed[i]
  /\ unseen' = [unseen EXCEPT ![i] = TRUE]
  /\ coalesce' = [coalesce EXCEPT ![i] = @ \/ ~transition[i]]
  /\ UNCHANGED <<life, armed, retry, grace, evals, transition, flip,
                 commander, disk>>

OnCoalesceTimerExpired(i) ==
  /\ coalesce[i] /\ tasks[i] < TaskCap
  /\ coalesce' = [coalesce EXCEPT ![i] = FALSE]
  /\ tasks' = [tasks EXCEPT ![i] = IF stopped[i] \/ transition[i] THEN @ ELSE @ + 1]
  /\ UNCHANGED <<life, armed, retry, grace, line, hold, transition,
                 flip, unseen, commander, disk>>

\* A broken form of HandleFastTick: the price gate of old, an evaluation only
\* on a change.
HandleFastTickGated(i) ==
  /\ "inputs" \in armed[i] /\ grace[i] = "none" /\ coalesce[i]
  /\ tasks[i] < TaskCap
  /\ tasks' = [tasks EXCEPT ![i] = @ + 1]
  /\ UNCHANGED <<life, armed, waits, line, hold, transition, flip, unseen,
                 commander, disk>>

\* The minute's tick: nothing while a startup grace is set; else an
\* evaluation, whether a detector, a stale price, automation that has just
\* become ready or only the minute asks for it.
HandleFastTick(i) ==
  /\ "inputs" \in armed[i] /\ grace[i] = "none" /\ tasks[i] < TaskCap
  /\ tasks' = [tasks EXCEPT ![i] = @ + 1]
  /\ UNCHANGED <<life, armed, waits, line, hold, transition, flip, unseen,
                 commander, disk>>

\* The Solcast retry wakes: it ends when stopped, evaluates when Solcast is
\* there or the retries are used up, and sleeps again otherwise.
RetrySolcastCheck(i) ==
  /\ retry[i] > 0 /\ line[i] < TaskCap
  /\ \/ /\ retry' = [retry EXCEPT ![i] = 0]
        /\ line' = [line EXCEPT ![i] = IF stopped[i] THEN @ ELSE @ + 1]
     \/ /\ ~stopped[i] /\ retry[i] < MaxRetries
        /\ retry' = [retry EXCEPT ![i] = @ + 1]
        /\ UNCHANGED line
  /\ UNCHANGED <<life, armed, coalesce, grace, tasks, hold, transition, flip,
                 unseen, commander, disk>>

GraceElapses(i) ==
  /\ grace[i] = "running"
  /\ grace' = [grace EXCEPT ![i] = "elapsed"]
  /\ UNCHANGED <<life, armed, coalesce, retry, evals, transition, flip,
                 unseen, commander, disk>>

-----------------------------------------------------------------------------
(* An evaluation *)

\* A task begins: the coordinator's own check, then the wait for the lock.
BeginEvaluation(i) ==
  /\ tasks[i] > 0 /\ line[i] < TaskCap
  /\ tasks' = [tasks EXCEPT ![i] = @ - 1]
  /\ line' = [line EXCEPT ![i] = IF stopped[i] THEN @ ELSE @ + 1]
  /\ UNCHANGED <<life, armed, waits, hold, transition, flip, unseen, commander,
                 disk>>

\* async_start awaits an evaluation of its own, the others are tasks.
Kinds == {"boot", "task"}

Waiting(i, k) ==
  IF k = "task" THEN line[i] > 0
  ELSE i = cur /\ entry = "setting_up" /\ start[i] = "booting" /\ hold[i] # "boot"

LeavesLine(i, k) == line' = [line EXCEPT ![i] = IF k = "task" THEN @ - 1 ELSE @]
Returns(i, k) == start' = [start EXCEPT ![i] = IF k = "boot" THEN "started" ELSE @]

\* The lock comes free for an evaluation that was stopped while it waited.
RefusesStopped(i) ==
  /\ hold[i] = "free" /\ Waiting(i, "task") /\ stopped[i]
  /\ LeavesLine(i, "task")
  /\ UNCHANGED <<life, armed, waits, tasks, hold, transition, flip, unseen,
                 commander, disk>>

\* Within the grace an evaluation reads and computes and does nothing else.
EvaluatesInGrace(i, k) ==
  /\ hold[i] = "free" /\ Waiting(i, k) /\ ~stopped[i] /\ grace[i] = "running"
  /\ LeavesLine(i, k) /\ Returns(i, k)
  /\ UNCHANGED <<entry, cur, stopped, armed, waits, tasks, hold, transition,
                 flip, unseen, commander, disk>>

Acts(i, k) ==
  /\ hold[i] = "free" /\ Waiting(i, k) /\ ~stopped[i] /\ grace[i] # "running"
  /\ grace' = [grace EXCEPT ![i] = "none"]
  /\ unseen' = [unseen EXCEPT ![i] = FALSE]
  /\ LeavesLine(i, k)

\* The hardware is where it should be: nothing to write.
FindsNothingToDo(i, k) ==
  /\ Acts(i, k) /\ Returns(i, k)
  /\ UNCHANGED <<entry, cur, stopped, armed, coalesce, retry, tasks,
                 hold, transition, flip, commander, disk>>

\* A transition raises the flag, a correction or a fallback does not; the
\* first command is sent at once.
BeginsWriting(i, k) ==
  /\ Acts(i, k)
  /\ hold' = [hold EXCEPT ![i] = k]
  /\ \E f \in BOOLEAN : transition' = [transition EXCEPT ![i] = @ \/ f]
  /\ commander' = i
  /\ UNCHANGED <<life, armed, coalesce, retry, tasks, flip, disk>>

WritesOn(i) ==
  /\ hold[i] \in Kinds
  /\ commander' = i
  /\ UNCHANGED <<life, armed, waits, evals, transition, flip, unseen, disk>>

\* A transition may leave a watch for the battery's response behind; the
\* coordinator subscribes to it as the evaluation returns.
FinishesWriting(i) ==
  /\ hold[i] \in Kinds
  /\ Returns(i, hold[i])
  /\ hold' = [hold EXCEPT ![i] = "free"]
  /\ transition' = [transition EXCEPT ![i] = FALSE]
  /\ \/ UNCHANGED armed
     \/ armed' = [armed EXCEPT ![i] = @ \cup {"watch"}]
  /\ UNCHANGED <<entry, cur, stopped, waits, tasks, line, flip, unseen,
                 commander, disk>>

\* An evaluation raises: a task's exception is logged and forgotten, the one
\* async_start awaits fails the set-up.
TaskRaises(i) ==
  /\ hold[i] = "task"
  /\ hold' = [hold EXCEPT ![i] = "free"]
  /\ transition' = [transition EXCEPT ![i] = FALSE]
  /\ UNCHANGED <<life, armed, waits, tasks, line, flip, unseen, commander, disk>>

BootRaises ==
  /\ cur > 0 /\ hold[cur] = "boot"
  /\ stopped' = [stopped EXCEPT ![cur] = TRUE]
  /\ coalesce' = [coalesce EXCEPT ![cur] = FALSE]
  /\ hold' = [hold EXCEPT ![cur] = "free"]
  /\ transition' = [transition EXCEPT ![cur] = FALSE]
  /\ armed' = [armed EXCEPT ![cur] = {}]
  /\ unseen' = [unseen EXCEPT ![cur] = FALSE]
  /\ entry' = "failed"
  /\ UNCHANGED <<cur, start, retry, grace, tasks, line, flip,
                 commander, disk>>

\* The cancelled evaluation unwinds, whenever the loop comes to it.
Unwinds(i) ==
  /\ hold[i] = "cancelled"
  /\ hold' = [hold EXCEPT ![i] = "free"]
  /\ transition' = [transition EXCEPT ![i] = FALSE]
  /\ UNCHANGED <<life, armed, waits, tasks, line, flip, unseen, commander, disk>>

\* The battery responded, or its time is up.
WatchEnds(i) ==
  /\ "watch" \in armed[i]
  /\ armed' = [armed EXCEPT ![i] = @ \ {"watch"}]
  /\ UNCHANGED <<life, waits, evals, transition, flip, unseen, commander, disk>>

-----------------------------------------------------------------------------
(* Beside the evaluations: the grid-charging listener *)

\* The switch turns on: in a transition it is taken for its own write.
GridChargingFlips(i) ==
  /\ "grid" \in armed[i]
  /\ flip' = [flip EXCEPT ![i] = @ \/ ~transition[i]]
  /\ UNCHANGED <<life, armed, waits, evals, transition, unseen,
                 commander, disk>>

ReactiveCorrectGridCharging(i) ==
  /\ flip[i]
  /\ flip' = [flip EXCEPT ![i] = FALSE]
  /\ \/ UNCHANGED commander
     \/ /\ ~transition[i] /\ ~stopped[i]
        /\ commander' = i
  /\ UNCHANGED <<life, armed, waits, evals, transition, unseen, disk>>

-----------------------------------------------------------------------------
SettingUp ==
  \/ AsyncSetupEntry \/ Restored \/ DecisionsLoaded \/ Subscribed
  \/ ForecastStoresLoaded \/ SolcastReady \/ SolcastNotReady \/ Loaded
  \/ ForwardingFails \/ StartFails \/ BootRaises

Unloading ==
  \/ AsyncUnloadEntry \/ PlatformsRefuse \/ AsyncStop \/ FinalSaveOnUnload

Requests(i) ==
  \/ OnStateChange(i) \/ OnCoalesceTimerExpired(i) \/ HandleFastTick(i)
  \/ RetrySolcastCheck(i) \/ GraceElapses(i)

Evaluations(i) ==
  \/ BeginEvaluation(i) \/ RefusesStopped(i)
  \/ \E k \in Kinds : \/ EvaluatesInGrace(i, k) \/ FindsNothingToDo(i, k)
                      \/ BeginsWriting(i, k)
  \/ WritesOn(i) \/ FinishesWriting(i) \/ TaskRaises(i) \/ Unwinds(i)
  \/ WatchEnds(i)

Others(i) ==
  \/ HandleHomeassistantStop(i) \/ HandleLearningSave(i)
  \/ GridChargingFlips(i) \/ ReactiveCorrectGridCharging(i)

Next ==
  \/ SettingUp \/ Unloading \/ AsyncOptionsUpdated
  \/ \E i \in Instances : Requests(i) \/ Evaluations(i) \/ Others(i)

Spec == Init /\ [][Next]_vars

-----------------------------------------------------------------------------
(* What must hold *)

\* The coordinator in charge is the newest one until it is stopped, and the
\* commander is whoever last wrote a decision of its own.
Live == {i \in Instances : i = cur /\ ~stopped[i]}
Retired == {i \in Instances : stopped[i]}
Commander == {i \in Instances : i = commander}

Controller == INSTANCE OneController
  WITH live <- Live, retired <- Retired, commander <- Commander

\* Across set-ups, failed set-ups and unloads one coordinator at most is in
\* charge, and an evaluation or a correction of one that was replaced never
\* reaches the battery (#1149, #1152).
ImplementsOneController == Controller!Spec

\* A coordinator that was stopped holds no subscription and no timer, whatever
\* was still under way when it was stopped (#1148, #1149).
NothingLeftBehind ==
  \A i \in Instances : stopped[i] => armed[i] = {} /\ ~coalesce[i]

\* No save, whenever it comes, overwrites a store with the blanks of a
\* coordinator that has not read it yet (#1142).
NeverEmptied == \A s \in Stores : disk[s] = "history"

\* What a coordinator that has gone leaves: nothing that runs, and stores that
\* hold what they held, whichever await its set-up, its unload or Home Assistant's
\* shutdown fell into.
LeavesClean == NothingLeftBehind /\ NeverEmptied

\* An entry Home Assistant keeps loaded has a coordinator that evaluates: a
\* refused unload has stopped nothing.
LoadedIsInControl == entry = "loaded" => ~stopped[cur]
=============================================================================
