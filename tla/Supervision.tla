----------------------------- MODULE Supervision -----------------------------
(***************************************************************************)
(* What an evaluation does around its decision (state/machine.py,          *)
(* _evaluate_core): the startup grace, the readiness gate with its         *)
(* fallback and back-off (#1228), the Tesla override with its re-probe and *)
(* cooldown, the debounce of an export, and the health check.  Evaluations *)
(* are serialised and each writes at most once, so an evaluation is one    *)
(* step, with what it reads and whether its write succeeds as inputs; time *)
(* passes between evaluations.                                             *)
(*                                                                         *)
(* Left out: dry run, the timeout of the manual override (DecisionGate),   *)
(* the export's reserve steps and inversion watchdog (Reserves and         *)
(* ChargeWatches), and notifications.                                      *)
(***************************************************************************)
EXTENDS Integers

\* the intervals of const.py, in ticks
CONSTANTS
    LossConfirm,      \* READINESS_LOSS_CONFIRM_SECONDS
    RecoveryConfirm,  \* READINESS_RECOVERY_CONFIRM_SECONDS
    CorrectionWait,   \* STATE_MACHINE_MIN_CORRECTION_INTERVAL_MINUTES
    RetryCap,         \* READINESS_FALLBACK_RETRY_CAP_MINUTES
    SelfGrace,        \* TESLA_OVERRIDE_SELF_COMMAND_GRACE_MINUTES
    Reprobe,          \* TESLA_OVERRIDE_REPROBE_INTERVAL_MINUTES
    Cooldown,         \* TESLA_OVERRIDE_RELEASE_COOLDOWN_MINUTES
    ExportDebounce,   \* the debounce of PROACTIVE_EXPORT
    MaxFailures       \* bound: _readiness_failures, past which the cap rules

ASSUME SupervisionAssumption ==
    /\ {LossConfirm, RecoveryConfirm, CorrectionWait, RetryCap, SelfGrace,
        Reprobe, Cooldown, ExportDebounce, MaxFailures} \subseteq Nat \ {0}
    /\ CorrectionWait * 2 ^ (MaxFailures - 1) >= RetryCap

Modes == {"self_consumption", "grid_charging", "proactive_export"}

\* what a stamp's age may be: not set, or so many ticks
Unset == -1
Age(limit) == Unset..limit

Older(age, limit) == IF age = Unset \/ age = limit THEN age ELSE age + 1
Reached(age, wait) == age # Unset /\ age >= wait
Runs(age, wait) == age # Unset /\ age < wait

(***************************************************************************)
(* What one evaluation reads.  A missing forecast makes the inputs not     *)
(* ready, which the end of the startup grace asks, but is not missing to   *)
(* the gate.  An unreadable operation mode cannot show Tesla's signature.  *)
(* A reading an evaluation does not come to look at keeps one value.       *)
(* Signals that are unknown while the commanded mode keeps Tesla's reserve *)
(* itself, or a step of the reserve alone is recent, show no override just *)
(* as known ones do: they count as quiet.                                  *)
(***************************************************************************)
Inputs  == {"valid", "no_forecast", "no_prices", "no_operation_mode"}
Gated   == {"no_prices", "no_operation_mode"}
Signals == {"event", "quiet", "unknown"}  \* grid services and storm watch

Readings ==
    {r \in [inputs : Inputs, signals : Signals, automation : BOOLEAN,
            override : BOOLEAN, desired : Modes \cup {"manual"},
            spike : BOOLEAN,      \* the export start is a confirmed spike
            allowed : BOOLEAN,    \* the entity validator
            succeeds : BOOLEAN] : \* the write, if there is one
        /\ r.spike => r.desired = "proactive_export"
        /\ r.inputs \in Gated => r.desired = "self_consumption"
        /\ r.desired = "manual" => r.succeeds
        /\ r.automation \/ (r.signals = "quiet" /\ ~r.override /\ r.allowed
                            /\ r.succeeds /\ r.desired = "manual")}

VARIABLES
    sm,        \* the state machine's fields; a stamp is the age of the field
    hardware,  \* the battery, against what is commanded
    last,      \* history: the last evaluation's write, and what it read
    past       \* history: ages that properties read

vars == <<sm, hardware, last, past>>

Fields ==
    [commanded     : Modes \cup {"manual"},
     grace         : BOOLEAN,               \* _startup_grace_until is set
     skip_debounce : BOOLEAN,
     desired_since : Age(ExportDebounce),   \* of PROACTIVE_EXPORT
     lost_since    : Age(LossConfirm),
     ok_since      : Age(RecoveryConfirm),
     fallback_done : BOOLEAN,
     unverified    : BOOLEAN,
     last_attempt  : Age(RetryCap),
     failures      : 0..MaxFailures,
     detected      : BOOLEAN,               \* _tesla_override_detected
     last_probe    : Age(Reprobe),
     released_at   : Age(Cooldown),
     correction    : Age(CorrectionWait),   \* _last_health_correction
     transition    : Age(SelfGrace)]        \* _last_successful_transition

Purposes == {"none", "decision", "fallback", "probe", "correction"}

\* what the properties remember of an evaluation
NoWrite == [why |-> "none", mode |-> "none", inputs |-> "valid",
            signals |-> "quiet", signature |-> FALSE, fast |-> FALSE]

Init ==
    /\ sm = [commanded |-> "self_consumption", grace |-> TRUE,
             skip_debounce |-> FALSE, desired_since |-> Unset,
             lost_since |-> Unset, ok_since |-> Unset, fallback_done |-> FALSE,
             unverified |-> FALSE, last_attempt |-> Unset, failures |-> 0,
             detected |-> FALSE, last_probe |-> Unset, released_at |-> Unset,
             correction |-> Unset, transition |-> Unset]
    /\ hardware \in {"healthy", "drifted", "signature"}
    /\ last = NoWrite
    /\ past = [valid |-> 0, seen |-> Unset, wanted |-> Unset]

-----------------------------------------------------------------------------
(* An evaluation so far: the fields, and the write it has made              *)

Result(s, why, mode) == [sm |-> s, why |-> why, mode |-> mode]
Nothing(s) == Result(s, "none", s.commanded)

\* _execute_mode_transition: a write that succeeds is stamped
Written(s, r) == IF r.succeeds THEN [s EXCEPT !.transition = 0] ELSE s

\* _reset_readiness_outage
Ended(s) ==
    [s EXCEPT !.lost_since = Unset, !.ok_since = Unset, !.fallback_done = FALSE,
              !.unverified = FALSE, !.last_attempt = Unset, !.failures = 0]

\* mutant: the first valid input ends an outage
RestoredAtOnce(s, r) ==
    IF r.inputs \in Gated \/ s.lost_since = Unset THEN s ELSE Ended(s)

\* mutant: every valid evaluation starts the recovery window afresh
RestoredNever(s, r) ==
    IF r.inputs \in Gated \/ s.lost_since = Unset THEN s
    ELSE IF s.fallback_done THEN [s EXCEPT !.ok_since = 0] ELSE Ended(s)

\* _note_readiness_restored
Restored(s, r) ==
    LET ok == IF s.ok_since = Unset THEN 0 ELSE s.ok_since
    IN  IF r.inputs \in Gated \/ s.lost_since = Unset THEN s
        ELSE IF s.fallback_done /\ ok < RecoveryConfirm THEN [s EXCEPT !.ok_since = ok]
        ELSE Ended(s)

-----------------------------------------------------------------------------
(* Tesla override                                                           *)

Signature(r) == hardware = "signature" /\ r.inputs # "no_operation_mode"

\* _is_signature_self_inflicted, of a recent transition; the commanded mode and a
\* recent reserve step are in the signals
SelfInflicted(s) == Runs(s.transition, SelfGrace)

\* _detect_tesla_override
DetectsOverride(s, r) ==
    /\ Signature(r)
    /\ r.signals = "event" \/ (r.signals = "unknown" /\ ~SelfInflicted(s))

\* a re-probe is due: the yield is old and nothing corroborates it now
ProbesDue(s, r) ==
    s.detected /\ r.signals # "event" /\ Reached(s.last_probe, Reprobe)

Probed(s, r, target) ==
    IF r.succeeds
    THEN [Written(s, r) EXCEPT !.detected = FALSE, !.last_probe = Unset,
                               !.released_at = Unset, !.commanded = target,
                               !.unverified = @ /\ target # "self_consumption"]
    ELSE [s EXCEPT !.last_probe = 0]

\* mutant: every evaluation that yields holds the probe off
YieldedAfresh(s, r) == [s EXCEPT !.detected = TRUE, !.last_probe = 0]

Yielded(s, r) ==
    IF s.detected /\ r.signals # "event" THEN s
    ELSE [s EXCEPT !.detected = TRUE, !.last_probe = 0]

\* the signature is gone: a cooldown, then nothing is left of the override
Released(s) ==
    LET t == IF s.detected
             THEN [s EXCEPT !.detected = FALSE, !.last_probe = Unset, !.released_at = 0]
             ELSE s
    IN  IF Reached(t.released_at, Cooldown) THEN [t EXCEPT !.released_at = Unset] ELSE t

\* _handle_tesla_override_state: what it leaves and writes, and whether health
\* checks are to be skipped
TeslaOverride(s, r, target) ==
    IF ~DetectsOverride(s, r) THEN Nothing(Released(s))
    ELSE IF ProbesDue(s, r) THEN Result(Probed(s, r, target), "probe", target)
    ELSE Nothing(Yielded(s, r))

Skips(o) == o.sm.detected \/ o.sm.released_at # Unset

-----------------------------------------------------------------------------
(* Health check                                                             *)

Corrected(s, r) == [Written(s, r) EXCEPT !.correction = 0]

\* _perform_health_check, after the override has been handled
Verified(s, r) ==
    IF \/ Runs(s.transition, 1)               \* transition grace
       \/ hardware = "healthy"
       \/ s.commanded = "manual"
       \/ Runs(s.correction, CorrectionWait)
    THEN Nothing(s)
    ELSE Result(Corrected(s, r), "correction", s.commanded)

HealthCheck(s, r) ==
    IF r.override THEN Nothing(s)
    ELSE LET o == TeslaOverride(s, r, s.commanded)
         IN  IF Skips(o) \/ o.why # "none" THEN o ELSE Verified(o.sm, r)

-----------------------------------------------------------------------------
(* Readiness gate                                                           *)

\* _health_check_possible_while_gated
HealthPossible(s, r) ==
    /\ s.commanded = "self_consumption" /\ ~s.unverified
    /\ r.inputs # "no_operation_mode"

MinOf(a, b) == IF a <= b THEN a ELSE b

\* the first wait after a success or an exception is half a correction's
FallbackWait(s) ==
    IF s.failures = 0 THEN CorrectionWait \div 2
    ELSE MinOf(CorrectionWait * 2 ^ (s.failures - 1), RetryCap)

\* mutant: a failed fallback is not tried again in the outage
AttemptDueOnce(s, r) == r.allowed /\ s.last_attempt = Unset

AttemptDue(s, r) == r.allowed /\ ~Runs(s.last_attempt, FallbackWait(s))

\* _attempt_readiness_fallback
Fallback(s, r) ==
    LET t == [Written(s, r) EXCEPT !.last_attempt = 0]
    IN  IF ~AttemptDue(s, r) THEN Nothing(s)
        ELSE Result(IF r.succeeds
                    THEN [t EXCEPT !.commanded = "self_consumption", !.failures = 0,
                                   !.unverified = FALSE, !.desired_since = Unset]
                    ELSE [t EXCEPT !.failures = MinOf(@ + 1, MaxFailures)],
                    "fallback", "self_consumption")

\* mutant: the gate probes with the commanded mode
ProbeModeCommanded(s) == s.commanded

\* a re-probe in an outage never re-issues the mode of before it
ProbeMode(s) == "self_consumption"

\* _handle_readiness_gate, inputs missing
Gate(s, r) ==
    LET t        == [s EXCEPT !.ok_since = Unset,
                              !.lost_since = IF @ = Unset THEN 0 ELSE @]
        healthy  == HealthPossible(t, r)
        o        == IF healthy THEN Nothing(t) ELSE TeslaOverride(t, r, ProbeMode(t))
        confirmed == t.fallback_done \/ Reached(t.lost_since, LossConfirm)
        u        == [o.sm EXCEPT !.fallback_done = confirmed]
        needed   == confirmed /\ (u.commanded # "self_consumption" \/ u.unverified)
    IN  IF o.why # "none" THEN [o EXCEPT !.sm = u]
        ELSE IF needed THEN IF Skips(o) THEN Nothing(u) ELSE Fallback(u, r)
        ELSE IF healthy THEN HealthCheck(u, r)
        ELSE Nothing(u)

-----------------------------------------------------------------------------
(* Decisions                                                                *)

\* _clear_stale_debounce_timers
Cleared(s, r) ==
    IF r.desired # "proactive_export" THEN [s EXCEPT !.desired_since = Unset] ELSE s

\* _handle_stable_mode
Stable(s, r) ==
    HealthCheck([s EXCEPT !.desired_since = Unset, !.skip_debounce = FALSE], r)

\* _get_debounce_duration
Debounce(s, r) ==
    IF s.skip_debounce \/ r.spike \/ r.desired # "proactive_export" THEN 0
    ELSE ExportDebounce

\* _execute_transition_with_validation; a block keeps the place in the debounce
Transit(s, r) ==
    IF ~r.allowed THEN Nothing(s)
    ELSE IF r.succeeds
    THEN Result([Written(s, r) EXCEPT !.commanded = r.desired, !.desired_since = Unset],
                "decision", r.desired)
    ELSE Result([s EXCEPT !.desired_since = Unset], "decision", r.desired)

\* _handle_desired_mode_transition
Desire(s, r) ==
    LET t == Cleared(s, r)
        u == IF r.desired = "proactive_export" /\ t.desired_since = Unset
             THEN [t EXCEPT !.desired_since = 0] ELSE t
        v == [u EXCEPT !.skip_debounce = FALSE]
    IN  IF Debounce(s, r) > 0 /\ ~Reached(u.desired_since, Debounce(s, r))
        THEN Nothing(v) ELSE Transit(v, r)

-----------------------------------------------------------------------------
(* The whole evaluation                                                     *)

\* _handle_automation_disabled; an outage is not carried over
Disabled(s) == Ended([s EXCEPT !.commanded = "manual", !.desired_since = Unset])

InControl(s, r) ==
    IF ~r.automation THEN Nothing(Disabled(s))
    ELSE IF r.inputs \in Gated THEN Gate(s, r)
    ELSE IF s.lost_since # Unset THEN Nothing(s)
    ELSE IF r.desired = s.commanded THEN Stable(s, r)
    ELSE Desire(s, r)

\* _handle_startup_grace_period, inputs not ready: the battery is trusted to
\* be in SELF_CONSUMPTION though nothing was sent to it
GraceEndsUnready(s) ==
    [s EXCEPT !.grace = FALSE, !.commanded = "self_consumption",
              !.skip_debounce = TRUE, !.lost_since = 0, !.unverified = TRUE]

\* infer_current_hardware_mode
GraceEndsReady(s, inferred) ==
    [s EXCEPT !.grace = FALSE, !.commanded = inferred, !.skip_debounce = TRUE]

\* _evaluate_core; inside the startup grace an evaluation does nothing, so a
\* first one that does something is the one that ends it
Evaluation(s, r, inferred) ==
    LET t == Restored(s, r)
    IN  IF t.grace /\ r.inputs # "valid" THEN Nothing(GraceEndsUnready(t))
        ELSE InControl(IF t.grace THEN GraceEndsReady(t, inferred) ELSE t, r)

\* whether the evaluation gets as far as to act on the desired mode
Acts(s, r) ==
    /\ r.automation
    /\ r.inputs = "valid" \/ (r.inputs = "no_forecast" /\ ~s.grace)
    /\ Restored(s, r).lost_since = Unset

Remember(o, r) ==
    /\ last' = IF o.why = "none" THEN NoWrite
               ELSE [why |-> o.why, mode |-> o.mode, inputs |-> r.inputs,
                     signals |-> r.signals, signature |-> Signature(r),
                     fast |-> sm.skip_debounce \/ sm.grace \/ r.spike]
    /\ past' = [valid  |-> IF r.inputs \in Gated THEN 0 ELSE past.valid,
                seen   |-> IF o.why = "probe" /\ r.succeeds THEN Unset
                           ELSE IF o.sm.detected THEN 0 ELSE past.seen,
                wanted |-> IF ~r.automation \/ (Acts(sm, r) /\ r.desired # "proactive_export")
                           THEN Unset
                           ELSE IF Acts(sm, r) /\ past.wanted = Unset THEN 0
                           ELSE past.wanted]

\* the battery after an evaluation; the grace's end and a switched-off
\* automation change what is commanded, and so what the battery is held against
Battery(o, r) ==
    IF o.why = "none" \/ o.mode = "manual"
    THEN IF o.sm.commanded = sm.commanded THEN {hardware}
         ELSE {hardware, "drifted", "healthy"}
    ELSE IF r.succeeds THEN {"healthy"} ELSE {hardware, "drifted"}

\* the readings that can make a difference now
Matters(r) ==
    /\ r.inputs = "no_forecast" => sm.grace
    /\ r.signals # "quiet" => hardware = "signature"
    /\ r.override => r.inputs \in Gated \/ r.desired = sm.commanded

Outcomes(r) ==
    {Evaluation(sm, r, inferred) :
        inferred \in IF sm.grace THEN {"self_consumption", "grid_charging"}
                     ELSE {sm.commanded}}

Leaves(o, r) == sm' = o.sm /\ hardware' \in Battery(o, r)

Evaluate(r) ==
    /\ Matters(r)
    /\ \E o \in Outcomes(r) : Leaves(o, r) /\ Remember(o, r)

\* the battery, the cloud or Tesla changes a setting
Drift ==
    /\ hardware' \in {"healthy", "drifted", "signature"} \ {hardware}
    /\ last' = NoWrite
    /\ UNCHANGED <<sm, past>>

\* set_commanded_mode: a manual pick that has been written
Commands ==
    /\ \E m \in Modes :
         sm' = [sm EXCEPT !.commanded = m, !.desired_since = Unset]
    /\ hardware' = "healthy"

CommandManually ==
    /\ Commands
    /\ past' = [past EXCEPT !.wanted = Unset]
    /\ last' = NoWrite

Ages ==
    /\ sm' = [sm EXCEPT !.desired_since = Older(@, ExportDebounce),
                        !.lost_since    = Older(@, LossConfirm),
                        !.ok_since      = Older(@, RecoveryConfirm),
                        !.last_attempt  = Older(@, RetryCap),
                        !.last_probe    = Older(@, Reprobe),
                        !.released_at   = Older(@, Cooldown),
                        !.correction    = Older(@, CorrectionWait),
                        !.transition    = Older(@, SelfGrace)]
    /\ UNCHANGED hardware

Tick ==
    /\ Ages
    /\ past' = [valid  |-> Older(past.valid, RecoveryConfirm),
                seen   |-> Older(past.seen, Cooldown),
                wanted |-> Older(past.wanted, ExportDebounce)]
    /\ last' = NoWrite

Next ==
    \/ \E r \in Readings : Evaluate(r)
    \/ Drift \/ CommandManually \/ Tick

Spec == Init /\ [][Next]_vars

-----------------------------------------------------------------------------
Unasked == {"fallback", "probe", "correction"}

(* What the state machine writes without being asked is safe.  While a      *)
(* gated input is missing that is SELF_CONSUMPTION, by the fallback, a      *)
(* re-probe or a health check, whatever mode was commanded when the input   *)
(* went missing (#1228); and it is never against an event that an           *)
(* evaluation sees.                                                         *)
UnaskedWritesAreSafe ==
    /\ last.why # "none" /\ last.inputs \in Gated => last.mode = "self_consumption"
    /\ last.why \in Unasked => ~(last.signature /\ last.signals = "event")

\* Decisions resume after a fallback only when the inputs have been valid for the
\* whole recovery window; a blip between two outages is not enough.
DecisionsNeedSteadyInputs ==
    sm.fallback_done /\ last'.why = "decision" => past.valid = RecoveryConfirm

\* After Tesla has been seen in control nothing but a decision or a re-probe is
\* written before the release cooldown has run out, however the release came about.
CooldownKept ==
    last'.why \in {"fallback", "correction"} => ~Runs(past.seen, Cooldown)

\* An export starts only when it has been wanted for the debounce, but for the
\* first transition after startup and a confirmed spike (#1120).
ExportDebounced ==
    last'.why = "decision" /\ last'.mode = "proactive_export" /\ ~last'.fast
        => past.wanted = ExportDebounce

(* No wait is cut short: the recovery window, the release cooldown and the  *)
(* export's debounce run their whole length, although outages, refusals,    *)
(* overrides and switches of the automation fall into them and each resets  *)
(* some of the stamps and not others.                                       *)
WaitsAreServed ==
    [][DecisionsNeedSteadyInputs /\ CooldownKept /\ ExportDebounced]_vars
=============================================================================
