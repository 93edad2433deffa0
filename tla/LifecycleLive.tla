---------------------------- MODULE LifecycleLive ----------------------------
(***************************************************************************)
(* The life of a coordinator under the fairness of Home Assistant's loop:  *)
(* a task that can go on goes on, a timer that is armed fires, the minute  *)
(* ticks.  Set-ups, unloads and failures are not obliged to come.          *)
(***************************************************************************)
EXTENDS Lifecycle

Progress(i) ==
  /\ WF_vars(HandleFastTick(i))
  /\ WF_vars(OnCoalesceTimerExpired(i))
  /\ WF_vars(RetrySolcastCheck(i))
  /\ WF_vars(GraceElapses(i))
  /\ WF_vars(BeginEvaluation(i))
  /\ WF_vars(RefusesStopped(i))
  /\ \A k \in Kinds :
       WF_vars(EvaluatesInGrace(i, k) \/ FindsNothingToDo(i, k) \/ BeginsWriting(i, k))
  /\ WF_vars(FinishesWriting(i))
  /\ WF_vars(Unwinds(i))

QuietSpec == Spec /\ \A i \in Instances : Progress(i)

\* A monitored entity changes, sooner or later, while a startup grace is set:
\* the price entities do so every few minutes.
FairSpec ==
  QuietSpec /\ \A i \in Instances : WF_vars(grace[i] # "none" /\ OnStateChange(i))

\* A change of a monitored input is acted on by an evaluation that read it,
\* past startup grace, transitions, coalescing and the lock, unless the
\* coordinator is stopped first.
ChangeIsActedOn ==
  \A i \in Instances : unseen[i] ~> (~unseen[i] \/ stopped[i])
=============================================================================
