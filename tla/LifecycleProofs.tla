--------------------------- MODULE LifecycleProofs ---------------------------
(***************************************************************************)
(* Lifecycle keeps its invariants and implements OneController, for every  *)
(* number of set-ups and every bound on tasks and retries.                 *)
(***************************************************************************)
EXTENDS Lifecycle, TLAPS

USE LifecycleAssumption

Types ==
  /\ cur \in 0..Setups
  /\ entry \in {"not_loaded", "setting_up", "loaded", "unloading", "stopping",
                "failed", "abandoned"}
  /\ start \in [Instances -> Stages]
  /\ stopped \in [Instances -> BOOLEAN]
  /\ armed \in [Instances -> SUBSET {"shutdown", "grid", "inputs", "summary", "watch"}]
  /\ coalesce \in [Instances -> BOOLEAN]
  /\ tasks \in [Instances -> Nat]
  /\ line \in [Instances -> Nat]
  /\ retry \in [Instances -> Nat]
  /\ hold \in [Instances -> Kinds \cup {"free", "cancelled"}]
  /\ flip \in [Instances -> BOOLEAN]
  /\ commander \in 0..Setups
  /\ disk \in [Stores -> {"history", "blank"}]

\* Home Assistant creates coordinators one after the other, and what the entry
\* is doing tells whether the newest one has been stopped.
Protocol ==
  /\ entry \in {"setting_up", "loaded", "unloading", "abandoned"} => cur > 0 /\ ~stopped[cur]
  /\ entry = "stopping" => cur > 0 /\ stopped[cur]
  /\ entry \in {"not_loaded", "failed"} => cur = 0 \/ stopped[cur]
  /\ entry \in {"loaded", "unloading", "stopping"} => start[cur] = "started"

\* Every earlier coordinator was stopped; a later one has done nothing.
Succession ==
  \A i \in Instances :
    /\ i < cur => stopped[i]
    /\ i > cur => /\ ~stopped[i] /\ start[i] = "none" /\ armed[i] = {}
                  /\ hold[i] = "free" /\ tasks[i] = 0 /\ line[i] = 0
                  /\ retry[i] = 0 /\ ~flip[i] /\ ~coalesce[i]

\* What is inside the lock writes for a coordinator that was not stopped.
WritersLive == \A i \in Instances : hold[i] \in Kinds => ~stopped[i]

\* A listener that saves is armed once the stores it saves have been read.
SaversHaveRead ==
  \A i \in Instances :
    /\ "shutdown" \in armed[i] => Reached(i, "restored")
    /\ "inputs" \in armed[i] => Reached(i, "subscribed")

IInv ==
  /\ Types /\ Protocol /\ Succession /\ WritersLive /\ NothingLeftBehind
  /\ SaversHaveRead /\ NeverEmptied

LEMMA InitHolds == Init => IInv
  BY DEF Init, IInv, Types, Protocol, Succession, WritersLive,
     NothingLeftBehind, SaversHaveRead, NeverEmptied, Instances, Kinds, Stages,
     Reached

\* A save of stores that have been read leaves the history on disk.
LEMMA SaveKeeps ==
  ASSUME NEW i, NEW steps, steps \subseteq Holds(i), NeverEmptied, Save(i, steps)
  PROVE  NeverEmptied' /\ disk' \in [Stores -> {"history", "blank"}]
  BY DEF NeverEmptied, Save

\* What the final save writes has been read by then.
LEMMA FinalStepsRead ==
  ASSUME NEW i \in Instances, Types, Reached(i, "restored")
  PROVE  FinalSaveSteps(i) \subseteq Holds(i)
  BY DEF FinalSaveSteps, Holds, Stores, Reached

LEMMA LearningStepsRead ==
  ASSUME NEW i \in Instances, Types, Reached(i, "subscribed")
  PROVE  {"totals", "decisions", "solar"} \subseteq Holds(i)
<1>1. Reached(i, "restored") /\ Reached(i, "recorded")
  BY DEF Reached, Rank, Types, Stages
<1>2. QED
  BY <1>1 DEF Holds, Stores

LEMMA StepKeeps == IInv /\ [Next]_vars => IInv'
<1> SUFFICES ASSUME IInv, [Next]_vars PROVE IInv'
  OBVIOUS
<1> USE DEF IInv
<1>1. CASE UNCHANGED vars
  BY <1>1 DEF vars, life, waits, evals, Types, Protocol, Succession,
     WritersLive, NothingLeftBehind, SaversHaveRead, NeverEmptied, Reached
<1>2. CASE AsyncSetupEntry
  <2>1. Types' /\ Protocol'
    BY <1>2 DEF AsyncSetupEntry, waits, evals, Types, Protocol, Succession,
       Stages, Instances
  <2>2. Succession'
    BY <1>2 DEF AsyncSetupEntry, waits, evals, Types, Protocol, Succession,
       Instances
  <2>3. SaversHaveRead'
    BY <1>2 DEF AsyncSetupEntry, Types, Succession, SaversHaveRead, Reached,
       Instances
  <2>4. (WritersLive /\ NothingLeftBehind /\ NeverEmptied)'
    BY <1>2 DEF AsyncSetupEntry, waits, evals, WritersLive, NothingLeftBehind,
       NeverEmptied
  <2>5. QED
    BY <2>1, <2>2, <2>3, <2>4
<1>3. CASE Restored
  BY <1>3 DEF Restored, Advance, life, waits, evals, Types, Protocol,
     Succession, WritersLive, NothingLeftBehind, SaversHaveRead, NeverEmptied,
     Reached, Rank, Stages, Instances, Kinds
<1>4. CASE DecisionsLoaded
  BY <1>4 DEF DecisionsLoaded, Advance, life, waits, evals, Types, Protocol,
     Succession, WritersLive, NothingLeftBehind, SaversHaveRead, NeverEmptied,
     Reached, Rank, Stages, Instances, Kinds
<1>5. CASE Subscribed
  <2>1. Types'
    BY <1>5 DEF Subscribed, Advance, life, waits, evals, Types, Stages,
       Instances
  <2>2. SaversHaveRead'
    BY <1>5 DEF Subscribed, Advance, SaversHaveRead, Reached, Rank, Types,
       Stages, Instances
  <2>3. (Protocol /\ Succession /\ WritersLive /\ NothingLeftBehind /\ NeverEmptied)'
    BY <1>5 DEF Subscribed, Advance, life, waits, evals, Types, Protocol,
       Succession, WritersLive, NothingLeftBehind, NeverEmptied, Instances
  <2>4. QED
    BY <2>1, <2>2, <2>3
<1>6. CASE ForecastStoresLoaded
  BY <1>6 DEF ForecastStoresLoaded, Advance, life, waits, evals, Types,
     Protocol, Succession, WritersLive, NothingLeftBehind, SaversHaveRead,
     NeverEmptied, Reached, Rank, Stages, Instances, Kinds
<1>7. CASE SolcastReady
  BY <1>7 DEF SolcastReady, Advance, life, waits, evals, Types, Protocol,
     Succession, WritersLive, NothingLeftBehind, SaversHaveRead, NeverEmptied,
     Reached, Rank, Stages, Instances, Kinds
<1>8. CASE SolcastNotReady
  BY <1>8 DEF SolcastNotReady, Advance, life, waits, evals, Types, Protocol,
     Succession, WritersLive, NothingLeftBehind, SaversHaveRead, NeverEmptied,
     Reached, Rank, Stages, Instances, Kinds
<1>9. CASE Loaded \/ ForwardingFails
  BY <1>9 DEF Loaded, ForwardingFails, life, waits, evals, Types, Protocol, Succession,
     WritersLive, NothingLeftBehind, SaversHaveRead, NeverEmptied, Reached,
     Rank, Stages, Instances, Kinds
<1>10. CASE StartFails
  BY <1>10 DEF StartFails, StopListening, life, waits, evals, Types, Protocol,
     Succession, WritersLive, NothingLeftBehind, SaversHaveRead, NeverEmptied,
     Reached, Rank, Stages, Instances, Kinds
<1>11. CASE BootRaises
  BY <1>11 DEF BootRaises, life, waits, evals, Types, Protocol, Succession,
     WritersLive, NothingLeftBehind, SaversHaveRead, NeverEmptied, Reached,
     Rank, Stages, Instances, Kinds
<1>12. CASE AsyncUnloadEntry
  BY <1>12 DEF AsyncUnloadEntry, life, waits, evals, Types, Protocol,
     Succession, WritersLive, NothingLeftBehind, SaversHaveRead, NeverEmptied,
     Reached, Rank, Stages, Instances, Kinds
<1>13. CASE PlatformsRefuse
  BY <1>13 DEF PlatformsRefuse, life, waits, evals, Types, Protocol, Succession,
     WritersLive, NothingLeftBehind, SaversHaveRead, NeverEmptied, Reached,
     Rank, Stages, Instances, Kinds
<1>14. CASE AsyncStop
  BY <1>14 DEF AsyncStop, StopListening, life, waits, evals, Types, Protocol,
     Succession, WritersLive, NothingLeftBehind, SaversHaveRead, NeverEmptied,
     Reached, Rank, Stages, Instances, Kinds
<1>15. CASE FinalSaveOnUnload
  BY <1>15, SaveKeeps, FinalStepsRead DEF FinalSaveOnUnload, life, waits, evals,
     Types, Protocol, Succession, WritersLive, NothingLeftBehind,
     SaversHaveRead, NeverEmptied, Reached, Rank, Stages, Instances, Kinds
<1>16. CASE AsyncOptionsUpdated
  <2>1. Types' /\ cur \in Instances
    BY <1>16 DEF AsyncOptionsUpdated, life, waits, evals, Types, Protocol,
       Instances
  <2>2. (Protocol /\ NeverEmptied /\ WritersLive /\ NothingLeftBehind)'
    BY <1>16, <2>1 DEF AsyncOptionsUpdated, life, waits, evals, Types, Protocol,
       NeverEmptied, WritersLive, NothingLeftBehind
  <2>3. (Succession /\ SaversHaveRead)'
    BY <1>16, <2>1 DEF AsyncOptionsUpdated, life, waits, evals, Types,
       Succession, SaversHaveRead, Reached, Instances
  <2>4. QED
    BY <2>1, <2>2, <2>3
<1>17. ASSUME NEW i \in Instances, OnStateChange(i) PROVE IInv'
  BY <1>17 DEF OnStateChange, life, waits, evals, Types, Protocol, Succession,
     WritersLive, NothingLeftBehind, SaversHaveRead, NeverEmptied, Reached,
     Rank, Stages, Instances, Kinds
<1>18. ASSUME NEW i \in Instances, OnCoalesceTimerExpired(i) PROVE IInv'
  <2>1. Types'
    BY <1>18 DEF OnCoalesceTimerExpired, life, waits, evals, Types, Stages,
       Kinds
  <2>2. (Protocol /\ SaversHaveRead /\ NeverEmptied /\ WritersLive)'
    BY <1>18 DEF OnCoalesceTimerExpired, life, evals, Protocol, SaversHaveRead,
       NeverEmptied, Reached, WritersLive
  <2>3. NothingLeftBehind'
    BY <1>18 DEF OnCoalesceTimerExpired, life, waits, Types, NothingLeftBehind
  <2>4. Succession'
    <3>1. tasks[i] > 0 \/ coalesce[i]
      BY <1>18 DEF OnCoalesceTimerExpired
    <3>2. i <= cur
      BY <3>1 DEF Succession, Types, Instances
    <3>3. \A j \in Instances \ {i} : tasks'[j] = tasks[j] /\ coalesce'[j] = coalesce[j]
      BY <1>18 DEF OnCoalesceTimerExpired, Types
    <3>4. QED
      BY <1>18, <3>2, <3>3 DEF OnCoalesceTimerExpired, life, waits, evals, Types,
         Succession, Instances
  <2>5. QED
    BY <2>1, <2>2, <2>3, <2>4
<1>19. ASSUME NEW i \in Instances, HandleFastTick(i) PROVE IInv'
  BY <1>19 DEF HandleFastTick, life, waits, evals, Types, Protocol, Succession,
     WritersLive, NothingLeftBehind, SaversHaveRead, NeverEmptied, Reached,
     Rank, Stages, Instances, Kinds
<1>20. ASSUME NEW i \in Instances, RetrySolcastCheck(i) PROVE IInv'
  <2>1. Types'
    BY <1>20 DEF RetrySolcastCheck, life, waits, evals, Types, Stages, Kinds
  <2>2. (Protocol /\ SaversHaveRead /\ NeverEmptied /\ WritersLive /\ NothingLeftBehind)'
    BY <1>20 DEF RetrySolcastCheck, life, waits, evals, Types, Protocol,
       SaversHaveRead, NeverEmptied, Reached, WritersLive, NothingLeftBehind
  <2>3. Succession'
    <3>1. i <= cur
      BY <1>20 DEF RetrySolcastCheck, Succession, Types, Instances
    <3>2. \A j \in Instances \ {i} : retry'[j] = retry[j] /\ line'[j] = line[j]
      BY <1>20 DEF RetrySolcastCheck, Types
    <3>3. QED
      BY <1>20, <3>1, <3>2 DEF RetrySolcastCheck, life, waits, evals, Types,
         Succession, Instances
  <2>4. QED
    BY <2>1, <2>2, <2>3
<1>21. ASSUME NEW i \in Instances, GraceElapses(i) PROVE IInv'
  BY <1>21 DEF GraceElapses, life, waits, evals, Types, Protocol, Succession,
     WritersLive, NothingLeftBehind, SaversHaveRead, NeverEmptied, Reached,
     Rank, Stages, Instances, Kinds
<1>22. ASSUME NEW i \in Instances, BeginEvaluation(i) PROVE IInv'
  <2>1. Types'
    BY <1>22 DEF BeginEvaluation, life, waits, evals, Types, Stages,
       Kinds
  <2>2. (Protocol /\ SaversHaveRead /\ NeverEmptied /\ WritersLive)'
    BY <1>22 DEF BeginEvaluation, life, evals, Protocol, SaversHaveRead,
       NeverEmptied, Reached, WritersLive
  <2>3. NothingLeftBehind'
    BY <1>22 DEF BeginEvaluation, life, waits, Types, NothingLeftBehind
  <2>4. Succession'
    <3>1. tasks[i] > 0 \/ coalesce[i]
      BY <1>22 DEF BeginEvaluation
    <3>2. i <= cur
      BY <3>1 DEF Succession, Types, Instances
    <3>3. \A j \in Instances \ {i} : tasks'[j] = tasks[j] /\ line'[j] = line[j]
      BY <1>22 DEF BeginEvaluation, Types
    <3>4. QED
      BY <1>22, <3>2, <3>3 DEF BeginEvaluation, life, waits, evals, Types,
         Succession, Instances
  <2>5. QED
    BY <2>1, <2>2, <2>3, <2>4
<1>23. ASSUME NEW i \in Instances, RefusesStopped(i) PROVE IInv'
  <2>1. Types'
    BY <1>23 DEF RefusesStopped, Waiting, LeavesLine, life, waits, evals, Types
  <2>2. (Protocol /\ SaversHaveRead /\ NeverEmptied /\ WritersLive /\ NothingLeftBehind)'
    BY <1>23 DEF RefusesStopped, life, waits, evals, Types, Protocol,
       SaversHaveRead, NeverEmptied, Reached, WritersLive, NothingLeftBehind
  <2>3. Succession'
    BY <1>23 DEF RefusesStopped, Waiting, LeavesLine, life, waits, evals, Types,
       Succession, Instances
  <2>4. QED
    BY <2>1, <2>2, <2>3
<1>24. ASSUME NEW i \in Instances, WritesOn(i) PROVE IInv'
  BY <1>24 DEF WritesOn, life, waits, evals, Types, Protocol, Succession,
     WritersLive, NothingLeftBehind, SaversHaveRead, NeverEmptied, Reached,
     Rank, Stages, Instances, Kinds
<1>25. ASSUME NEW i \in Instances, FinishesWriting(i) PROVE IInv'
  <2>1. Types'
    BY <1>25 DEF FinishesWriting, Returns, life, waits, evals, Types, Stages,
       Kinds
  <2>2. (Protocol /\ NeverEmptied)'
    BY <1>25 DEF FinishesWriting, Returns, life, waits, evals, Types, Protocol,
       NeverEmptied, Instances
  <2>3. SaversHaveRead'
    <3>1. \A j \in Instances : start'[j] = start[j] \/ start'[j] = "started"
      BY <1>25 DEF FinishesWriting, Returns, Types
    <3>2. \A j \in Instances : armed'[j] \subseteq armed[j] \cup {"watch"}
      BY <1>25 DEF FinishesWriting, Types
    <3>3. Rank("started") = 7 /\ Rank("subscribed") = 4 /\ Rank("restored") = 2
      BY DEF Rank
    <3>4. QED
      BY <3>1, <3>2, <3>3 DEF SaversHaveRead, Reached
  <2>4. (Succession /\ WritersLive /\ NothingLeftBehind)'
    BY <1>25 DEF FinishesWriting, Returns, life, waits, evals, Types, Protocol,
       Succession, WritersLive, NothingLeftBehind, Kinds, Instances
  <2>5. QED
    BY <2>1, <2>2, <2>3, <2>4
<1>26. ASSUME NEW i \in Instances, TaskRaises(i) PROVE IInv'
  BY <1>26 DEF TaskRaises, life, waits, evals, Types, Protocol, Succession,
     WritersLive, NothingLeftBehind, SaversHaveRead, NeverEmptied, Reached,
     Rank, Stages, Instances, Kinds
<1>27. ASSUME NEW i \in Instances, Unwinds(i) PROVE IInv'
  BY <1>27 DEF Unwinds, life, waits, evals, Types, Protocol, Succession,
     WritersLive, NothingLeftBehind, SaversHaveRead, NeverEmptied, Reached,
     Rank, Stages, Instances, Kinds
<1>28. ASSUME NEW i \in Instances, WatchEnds(i) PROVE IInv'
  BY <1>28 DEF WatchEnds, life, waits, evals, Types, Protocol, Succession,
     WritersLive, NothingLeftBehind, SaversHaveRead, NeverEmptied, Reached,
     Rank, Stages, Instances, Kinds
<1>29. ASSUME NEW i \in Instances, HandleHomeassistantStop(i) PROVE IInv'
  <2>1. NeverEmptied' /\ disk' \in [Stores -> {"history", "blank"}]
    BY <1>29, SaveKeeps, FinalStepsRead DEF HandleHomeassistantStop,
       SaversHaveRead
  <2>2. QED
    BY <1>29, <2>1 DEF HandleHomeassistantStop, life, waits, evals, Types,
       Protocol, Succession, WritersLive, NothingLeftBehind, SaversHaveRead,
       Reached
<1>30. ASSUME NEW i \in Instances, HandleLearningSave(i) PROVE IInv'
  BY <1>30, SaveKeeps, LearningStepsRead DEF HandleLearningSave, life, waits,
     evals, Types, Protocol, Succession, WritersLive, NothingLeftBehind,
     SaversHaveRead, NeverEmptied, Reached, Rank, Stages, Instances, Kinds
<1>31. ASSUME NEW i \in Instances, GridChargingFlips(i) PROVE IInv'
  BY <1>31 DEF GridChargingFlips, life, waits, evals, Types, Protocol,
     Succession, WritersLive, NothingLeftBehind, SaversHaveRead, NeverEmptied,
     Reached, Rank, Stages, Instances, Kinds
<1>32. ASSUME NEW i \in Instances, ReactiveCorrectGridCharging(i) PROVE IInv'
  BY <1>32 DEF ReactiveCorrectGridCharging, life, waits, evals, Types, Protocol,
     Succession, WritersLive, NothingLeftBehind, SaversHaveRead, NeverEmptied,
     Reached, Rank, Stages, Instances, Kinds
<1>33. ASSUME NEW i \in Instances, NEW k \in Kinds, EvaluatesInGrace(i, k) PROVE IInv'
  <2>1. /\ Waiting(i, k) /\ LeavesLine(i, k) /\ Returns(i, k)
        /\ unseen' = unseen \/ unseen' = [unseen EXCEPT ![i] = FALSE]
        /\ UNCHANGED <<entry, cur, stopped, armed, coalesce, retry, tasks, hold,
                       flip, commander, disk>>
    BY <1>33 DEF EvaluatesInGrace, waits
  <2>2. Types' /\ Protocol'
    <3>1. start' \in [Instances -> Stages]
      BY <2>1 DEF Returns, Types, Stages
    <3>2. line' \in [Instances -> Nat]
      BY <2>1 DEF LeavesLine, Waiting, Types, Kinds
    <3>3. \A j \in Instances : start[j] = "started" => start'[j] = "started"
      BY <2>1 DEF Returns, Types
    <3>4. cur > 0 => cur \in Instances
      BY DEF Types, Instances
    <3>5. QED
      BY <2>1, <3>1, <3>2, <3>3, <3>4 DEF Types, Protocol
  <2>3. SaversHaveRead'
    <3>1. \A j \in Instances : start'[j] = start[j] \/ start'[j] = "started"
      BY <2>1 DEF Returns, Types
    <3>2. Rank("started") = 7 /\ Rank("subscribed") = 4 /\ Rank("restored") = 2
      BY DEF Rank
    <3>3. QED
      BY <2>1, <3>1, <3>2 DEF SaversHaveRead, Reached
  <2>4. (NeverEmptied /\ NothingLeftBehind /\ WritersLive)'
    BY <2>1 DEF NeverEmptied, NothingLeftBehind, WritersLive
  <2>5. Succession'
    <3>1. i <= cur
      BY <2>1 DEF Waiting, Succession, Types, Instances
    <3>2. \A j \in Instances \ {i} : line'[j] = line[j] /\ start'[j] = start[j]
      BY <2>1 DEF LeavesLine, Returns, Types
    <3>3. QED
      BY <2>1, <3>1, <3>2 DEF Succession, Types, Instances
  <2>6. QED
    BY <2>2, <2>3, <2>4, <2>5
<1>34. ASSUME NEW i \in Instances, NEW k \in Kinds, FindsNothingToDo(i, k) PROVE IInv'
  <2>1. /\ Waiting(i, k) /\ LeavesLine(i, k) /\ Returns(i, k)
        /\ unseen' = unseen \/ unseen' = [unseen EXCEPT ![i] = FALSE]
        /\ UNCHANGED <<entry, cur, stopped, armed, coalesce, retry, tasks, hold,
                       flip, commander, disk>>
    BY <1>34 DEF FindsNothingToDo, Acts, waits
  <2>2. Types' /\ Protocol'
    <3>1. start' \in [Instances -> Stages]
      BY <2>1 DEF Returns, Types, Stages
    <3>2. line' \in [Instances -> Nat]
      BY <2>1 DEF LeavesLine, Waiting, Types, Kinds
    <3>3. \A j \in Instances : start[j] = "started" => start'[j] = "started"
      BY <2>1 DEF Returns, Types
    <3>4. cur > 0 => cur \in Instances
      BY DEF Types, Instances
    <3>5. QED
      BY <2>1, <3>1, <3>2, <3>3, <3>4 DEF Types, Protocol
  <2>3. SaversHaveRead'
    <3>1. \A j \in Instances : start'[j] = start[j] \/ start'[j] = "started"
      BY <2>1 DEF Returns, Types
    <3>2. Rank("started") = 7 /\ Rank("subscribed") = 4 /\ Rank("restored") = 2
      BY DEF Rank
    <3>3. QED
      BY <2>1, <3>1, <3>2 DEF SaversHaveRead, Reached
  <2>4. (NeverEmptied /\ NothingLeftBehind /\ WritersLive)'
    BY <2>1 DEF NeverEmptied, NothingLeftBehind, WritersLive
  <2>5. Succession'
    <3>1. i <= cur
      BY <2>1 DEF Waiting, Succession, Types, Instances
    <3>2. \A j \in Instances \ {i} : line'[j] = line[j] /\ start'[j] = start[j]
      BY <2>1 DEF LeavesLine, Returns, Types
    <3>3. QED
      BY <2>1, <3>1, <3>2 DEF Succession, Types, Instances
  <2>6. QED
    BY <2>2, <2>3, <2>4, <2>5
<1>35. ASSUME NEW i \in Instances, NEW k \in Kinds, BeginsWriting(i, k) PROVE IInv'
  <2>1. /\ ~stopped[i] /\ Waiting(i, k) /\ LeavesLine(i, k) /\ commander' = i
        /\ hold' = [hold EXCEPT ![i] = k] /\ unseen' = [unseen EXCEPT ![i] = FALSE]
        /\ UNCHANGED <<entry, cur, start, stopped, armed, coalesce, retry, tasks,
                       flip, disk>>
    BY <1>35 DEF BeginsWriting, Acts, life
  <2>2. Types'
    BY <2>1 DEF LeavesLine, Waiting, Types, Instances, Kinds
  <2>3. (Protocol /\ SaversHaveRead /\ NeverEmptied /\ NothingLeftBehind)'
    BY <2>1 DEF Protocol, SaversHaveRead, NeverEmptied, NothingLeftBehind, Reached
  <2>4. WritersLive'
    BY <2>1 DEF WritersLive, Types
  <2>5. Succession'
    <3>1. i <= cur
      BY <2>1 DEF Waiting, Succession, Types, Instances
    <3>2. \A j \in Instances \ {i} : line'[j] = line[j] /\ hold'[j] = hold[j]
      BY <2>1 DEF LeavesLine, Types
    <3>3. QED
      BY <2>1, <3>1, <3>2 DEF Succession, Types, Instances
  <2>6. QED
    BY <2>2, <2>3, <2>4, <2>5
<1>36. QED
  BY <1>1, <1>2, <1>3, <1>4, <1>5, <1>6, <1>7, <1>8, <1>9, <1>10, <1>11, <1>12,
     <1>13, <1>14, <1>15, <1>16, <1>17, <1>18, <1>19, <1>20, <1>21, <1>22,
     <1>23, <1>24, <1>25, <1>26, <1>27, <1>28, <1>29, <1>30, <1>31, <1>32,
     <1>33, <1>34, <1>35 DEF Next, SettingUp, Unloading, Requests, Evaluations,
     Others

THEOREM InvariantCorrect == Spec => []IInv
<1>1. IInv /\ [Next]_vars => IInv'
  BY StepKeeps
<1>2. QED
  BY InitHolds, <1>1, PTL DEF Spec

\* A stopped coordinator holds no listener and no timer.
THEOREM NothingLeftBehindCorrect == Spec => []NothingLeftBehind
<1>1. IInv => NothingLeftBehind
  BY DEF IInv
<1>2. QED
  BY InvariantCorrect, <1>1, PTL

\* No save empties a store.
THEOREM NeverEmptiedCorrect == Spec => []NeverEmptied
<1>1. IInv => NeverEmptied
  BY DEF IInv
<1>2. QED
  BY InvariantCorrect, <1>1, PTL

\* An entry that stays loaded has a coordinator that evaluates.
THEOREM LoadedIsInControlCorrect == Spec => []LoadedIsInControl
<1>1. IInv => LoadedIsInControl
  BY DEF IInv, Protocol, LoadedIsInControl
<1>2. QED
  BY InvariantCorrect, <1>1, PTL

-----------------------------------------------------------------------------
(* The refinement: a set-up takes charge, a stop retires, a write of an    *)
(* evaluation or of the listener commands, and everything else stutters.   *)

\* Only the coordinator in charge is inside the lock.
LEMMA WriterInCharge ==
  ASSUME IInv, NEW i \in Instances, hold[i] \in Kinds
  PROVE  i = cur /\ ~stopped[i]
  BY DEF IInv, WritersLive, Succession, Kinds, Types, Instances

LEMMA CommandRefined ==
  ASSUME IInv, NEW i \in Instances, i = cur, ~stopped[i], commander' = i,
         UNCHANGED <<cur, stopped>>
  PROVE  Controller!Next
<1>1. Live = {i} /\ Live' = Live /\ Retired' = Retired
  BY DEF Live, Retired
<1>2. Commander' = Live
  BY <1>1 DEF Commander
<1>3. QED
  BY <1>1, <1>2 DEF Controller!Next, Controller!Command

LEMMA StopRefined ==
  ASSUME IInv, cur > 0, ~stopped[cur], stopped' = [stopped EXCEPT ![cur] = TRUE],
         UNCHANGED <<cur, commander>>
  PROVE  Controller!Next
<1>1. cur \in Instances
  BY DEF IInv, Types, Instances
<1>2. Live = {cur} /\ Live' = {} /\ Commander' = Commander
  BY <1>1 DEF IInv, Types, Live, Commander
<1>3. Retired' = Retired \cup Live
  BY <1>1, <1>2 DEF IInv, Types, Retired
<1>4. QED
  BY <1>2, <1>3 DEF Controller!Next, Controller!Retire

LEMMA SetupRefined ==
  ASSUME IInv, AsyncSetupEntry
  PROVE  Controller!Next
<1>1. cur' = cur + 1 /\ cur' \in Instances /\ UNCHANGED <<stopped, commander>>
  BY DEF AsyncSetupEntry, IInv, Types, Instances
<1>2. Live = {} /\ cur' \notin Retired
  BY <1>1 DEF AsyncSetupEntry, IInv, Types, Protocol, Succession, Live, Retired,
     Instances
<1>3. Live' = {cur'} /\ Retired' = Retired /\ Commander' = Commander
  BY <1>1, <1>2 DEF Live, Retired, Commander
<1>4. QED
  BY <1>1, <1>2, <1>3 DEF Controller!Next, Controller!Take

LEMMA StepRefined ==
  IInv /\ [Next]_vars => [Controller!Next]_(Controller!vars)
<1> SUFFICES ASSUME IInv, [Next]_vars
             PROVE  [Controller!Next]_(Controller!vars)
  OBVIOUS
<1>1. CASE UNCHANGED <<cur, stopped, commander>>
  BY <1>1 DEF Controller!vars, Live, Retired, Commander
<1>2. CASE AsyncSetupEntry
  BY <1>2, SetupRefined
<1>3. CASE StartFails \/ AsyncStop
  <2>1. cur > 0 /\ ~stopped[cur]
    BY <1>3 DEF StartFails, AsyncStop, IInv, Protocol
  <2>2. QED
    BY <1>3, <2>1, StopRefined DEF StartFails, AsyncStop, StopListening
<1>4. CASE BootRaises
  <2>1. cur > 0 /\ ~stopped[cur]
    BY <1>4, WriterInCharge DEF BootRaises, IInv, Types, Kinds, Instances
  <2>2. QED
    BY <1>4, <2>1, StopRefined DEF BootRaises
<1>5. ASSUME NEW i \in Instances, WritesOn(i)
      PROVE  Controller!Next
  BY <1>5, WriterInCharge, CommandRefined DEF WritesOn, life
<1>6. ASSUME NEW i \in Instances, NEW k \in Kinds, BeginsWriting(i, k)
      PROVE  Controller!Next
  <2>1. i = cur /\ ~stopped[i]
    BY <1>6 DEF BeginsWriting, Acts, Waiting, IInv, Succession, Types,
       Instances, Kinds
  <2>2. QED
    BY <1>6, <2>1, CommandRefined DEF BeginsWriting, life
<1>7. ASSUME NEW i \in Instances, ReactiveCorrectGridCharging(i),
             ~UNCHANGED commander
      PROVE  Controller!Next
  <2>1. i = cur /\ ~stopped[i]
    BY <1>7 DEF ReactiveCorrectGridCharging, IInv, Succession, Types, Instances
  <2>2. QED
    BY <1>7, <2>1, CommandRefined DEF ReactiveCorrectGridCharging, life
<1>8. QED
  BY <1>1, <1>2, <1>3, <1>4, <1>5, <1>6, <1>7 DEF Next, vars, life, SettingUp,
     Unloading, Requests, Evaluations, Others, Restored, DecisionsLoaded,
     Subscribed, ForecastStoresLoaded, SolcastReady, SolcastNotReady, Loaded,
     ForwardingFails, Advance, AsyncUnloadEntry, PlatformsRefuse, FinalSaveOnUnload,
     AsyncOptionsUpdated, OnStateChange, OnCoalesceTimerExpired, HandleFastTick,
     RetrySolcastCheck, GraceElapses, BeginEvaluation, RefusesStopped,
     EvaluatesInGrace, FindsNothingToDo, FinishesWriting, TaskRaises, Unwinds,
     WatchEnds, HandleHomeassistantStop, HandleLearningSave, GridChargingFlips,
     ReactiveCorrectGridCharging

\* Neither leaves a coordinator that has gone anything that runs, nor a store
\* without what it held, for any number of set-ups and whichever fail.
THEOREM LeavesCleanCorrect == Spec => []LeavesClean
<1>1. IInv => LeavesClean
  BY DEF IInv, LeavesClean
<1>2. QED
  BY InvariantCorrect, <1>1, PTL

\* At most one coordinator is in charge, and none that was replaced writes.
THEOREM ImplementsOneControllerCorrect == Spec => ImplementsOneController
<1>1. Init => Controller!Init
  BY DEF Init, Controller!Init, Live, Retired, Commander, Instances
<1>2. QED
  BY InvariantCorrect, <1>1, StepRefined, PTL
     DEF Spec, ImplementsOneController, Controller!Spec
=============================================================================
