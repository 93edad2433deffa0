---------------------------- MODULE ActuationLive ----------------------------
(***************************************************************************)
(* Whether the battery ends up in the mode that was decided.  Operation    *)
(* with so many troubles (a call that fails, an act of the user, a setting *)
(* that the cloud changes) ends at any point in a calm: automation is on,  *)
(* every evaluation decides the same mode and nothing fails any more.      *)
(* What was under way when the calm began still runs to its end.           *)
(***************************************************************************)
EXTENDS Actuation

CONSTANT MaxTroubles  \* bound: so many troubles come before the calm

ASSUME TroublesAssumption == MaxTroubles \in Nat

VARIABLES
    troubles,  \* how many there were
    calm       \* the mode decided throughout the calm, or NoMode before it

liveVars == <<vars, troubles, calm>>

LiveInit == Init /\ troubles = 0 /\ calm = NoMode

\* every call got through, and yet the switch is not as it was called to be
SwitchRefuses(w) ==
    /\ write[w].tries = MaxRetries /\ battery.grid # Wanted(w).grid
    /\ StepFails(w)

WriterWorks(w) ==
    StepOk(w) \/ SwitchRefuses(w) \/ Validate(w) \/ Settle(w) \/ Resettle(w)

ListenerWorks == ReactiveCorrect \/ CorrectionLands \/ GuardExpires \/ Recheck

Evaluates(m) == StartTransition(m) \/ RestoreMode(m)

Trouble ==
    \/ \E w \in Writers : StepFails(w) \/ SettleFails(w)
    \/ \E w \in UserCalls : SwitchOff(w) \/ \E m \in Commands : PickManual(w, m)
    \/ SwitchOn
    \/ CloudSync \/ CloudReverts

Operate ==
    /\ calm = NoMode
    /\ \/ /\ \/ \E w \in Writers : WriterWorks(w)
             \/ \E m \in Commands \cup {"manual"} : Evaluates(m)
             \/ EvaluateDisabled \/ EvaluateWaits
             \/ ListenerWorks
          /\ UNCHANGED troubles
       \/ troubles < MaxTroubles /\ Trouble /\ troubles' = troubles + 1
    /\ UNCHANGED calm

CalmBegins ==
    /\ calm = NoMode
    /\ automation /\ ~override
    /\ calm' \in {m \in Commands : Decides(m)}
    /\ UNCHANGED <<vars, troubles>>

Calmly(A) == calm # NoMode /\ A /\ UNCHANGED <<troubles, calm>>

CalmWrite(w)   == Calmly(WriterWorks(w))
CalmEvaluation == Calmly(Evaluates(calm))

LiveNext ==
    \/ Operate
    \/ CalmBegins
    \/ \E w \in Writers : CalmWrite(w)
    \/ CalmEvaluation \/ Calmly(EvaluateWaits)
    \/ Calmly(ListenerWorks)

(***************************************************************************)
(* A write under way goes on: its calls time out and its polls are finite. *)
(* An evaluation that has something to do comes to do it: the tick is      *)
(* every minute, the debounce of a mode that stays decided and the         *)
(* cooldown of the health check run out.  The listener's task and its call *)
(* run to their end.  Nothing is assumed of its timers.                    *)
(***************************************************************************)
Fairness ==
    /\ \A w \in Writers : WF_liveVars(CalmWrite(w))
    /\ WF_liveVars(CalmEvaluation)
    /\ WF_liveVars(Calmly(ReactiveCorrect))
    /\ WF_liveVars(Calmly(CorrectionLands))

LiveSpec == LiveInit /\ [][LiveNext]_liveVars /\ Fairness

(***************************************************************************)
(* The battery comes to follow the decided mode in all four settings, and  *)
(* stays, whatever writes, corrections and stale timers were under way     *)
(* when the calm began.                                                    *)
(***************************************************************************)
Converges ==
    calm # NoMode ~> [](calm \in Commands /\ battery = Target[calm] /\ commanded = calm)
=============================================================================
