--------------------------- MODULE InputReadiness ---------------------------
(* What a decision may rest on.  Each evaluation reads the inputs afresh and   *)
(* asks whether they are there (state/reader.py, machine.py), while the        *)
(* entity validator (utils/validation.py) has its verdict of the last medium   *)
(* tick, up to five minutes ago, and counts the checks that failed in a row.   *)
(* The hold and the fallback of an outage are Supervision's; here an           *)
(* evaluation that lacks an input may fall back or not.                        *)
EXTENDS Integers, Sequences, FiniteSets

CONSTANTS
  Required, Optional,  \* external entities by category; Recommended ones are like
                       \* Optional ones that are mapped
  Needed,              \* the required ones check_automation_ready asks for:
                       \* soc, both prices, operation mode
  Own,                 \* LocalShift's own entities, which gate nothing
  Configurations,      \* the sets of entities a configuration may have
  FailureThreshold,    \* FAILURE_THRESHOLD_ERROR
  MaxChecks            \* bound of the checks in a row

ASSUME ReadinessAssumption ==
  /\ Needed \subseteq Required
  /\ \A c \in Configurations : c \subseteq Required \cup Optional \cup Own
  /\ FailureThreshold \in Nat \ {0} /\ MaxChecks \in Nat

VARIABLES
  checked,             \* the keys of the validator's config
  health,              \* _entity_health and _localshift_entity_health
  commanded_mode, retry_mode, \* _commanded_mode, _pending_retry_mode
  checks_seen,         \* history: entity -> what its checks read since it was well
  attempt              \* history: what the last step did, and the inputs it had no value of

readinessVars == <<checked, health, commanded_mode, retry_mode, checks_seen, attempt>>

CommandModes == {"self_consumption", "grid_charging"}

\* What Home Assistant shows of an entity: gone is missing or unavailable, garbled
\* is not a number where one is expected, wrong is out of range, late is past its
\* staleness threshold, warming is unknown with samples_until_active above zero.
Shown == {"good", "late", "wrong", "garbled", "unknown", "gone"}
ShownOf(e) ==
  CASE e \in Own      -> {"good", "late", "garbled", "unknown", "gone", "warming"}
    [] e \in Optional -> Shown \cup {"unmapped"}
    [] OTHER          -> Shown

Showing == {s \in [checked -> UNION {ShownOf(e) : e \in checked}] :
              \A e \in checked : s[e] \in ShownOf(e)}

\* EntityHealth; garbled and wrong are both INVALID_VALUE, late is STALE.
NewHealth == [status |-> "ok", failures |-> 0, broken |-> FALSE]

Well == {"good", "unmapped", "warming"}
StatusOf(shown) == IF shown \in {"garbled", "wrong"} THEN "invalid" ELSE shown

------------------------------------------------------------------------------
\* _record_entity_failure and _check_failure_thresholds
Failed(h, shown) ==
  [status |-> StatusOf(shown), failures |-> h.failures + 1,
   broken |-> h.broken \/ h.failures + 1 >= FailureThreshold]

\* Mutant: a stale reading ends the failures before it.
CheckedStaleAsGood(h, shown) ==
  CASE shown \in Well   -> NewHealth
    [] shown = "late" -> [NewHealth EXCEPT !.status = "late"]
    [] OTHER          -> Failed(h, shown)

\* check_entity and _check_single_localshift_entity: an optional entity that is
\* not mapped is well, as an own one that warms up; a stale reading neither counts
\* nor clears what was counted.
Checked(h, shown) ==
  CASE shown \in Well   -> NewHealth
    [] shown = "late" -> [h EXCEPT !.status = "late"]
    [] OTHER          -> Failed(h, shown)

\* should_allow_automation
Blocks(h) == h.status = "gone" \/ h.broken
Allowed == \A e \in checked \cap Required : ~Blocks(health[e])

\* _categorize_health_severity and _update_cached_status
Errors == {e \in checked \cap Required : health[e].status \in {"gone", "invalid"}}
Warnings == {e \in checked \cap Required : health[e].status = "late"}
IntegrationStatus ==
  CASE Errors # {}   -> "error"
    [] Warnings # {} -> "degraded"
    [] OTHER         -> "ok"

------------------------------------------------------------------------------
\* _read_float_optional and _read_state: a value, also zero or an old one, or none.
\* What is out of range is a value.
HasValue(shown) == shown \in {"good", "late", "wrong"}

\* read_all_external_state, check_automation_ready and _gate_missing.  The reserve
\* is read with the default 0.0 and is never missing; neither is a forecast to the gate.
GateMissing(shows) == {e \in checked \cap Needed : ~HasValue(shows[e])}

NoAttempt == [why |-> "none", unread |-> {}]
Attempt(why, shows) ==
  [why |-> why,
   unread |-> {e \in checked \cap Needed :
                 shows[e] \in {"garbled", "unknown", "gone"}}]

\* _execute_transition_with_validation, for a write that succeeds.
Decide(shows, desired) ==
  /\ GateMissing(shows) = {} /\ desired # commanded_mode
  /\ IF Allowed
     THEN commanded_mode' = desired /\ retry_mode' = "none"
     ELSE UNCHANGED commanded_mode /\ retry_mode' = desired
  /\ attempt' = Attempt(IF Allowed THEN "decision" ELSE "blocked", shows)
  /\ UNCHANGED <<checked, health, checks_seen>>

\* _attempt_readiness_fallback, when it is due.
FallBack(shows) ==
  /\ GateMissing(shows) # {} /\ commanded_mode # "self_consumption" /\ Allowed
  /\ commanded_mode' = "self_consumption" /\ retry_mode' = "none"
  /\ attempt' = Attempt("fallback", shows)
  /\ UNCHANGED <<checked, health, checks_seen>>

\* check_all_entities and check_all_localshift_entities, on the medium tick.
CheckEntities(shows) ==
  /\ \A e \in checked : Len(checks_seen[e]) < MaxChecks
  /\ health' = [e \in checked |-> Checked(health[e], shows[e])]
  /\ checks_seen' = [e \in checked |-> IF shows[e] \in Well THEN <<>>
                                      ELSE Append(checks_seen[e], StatusOf(shows[e]))]
  /\ attempt' = NoAttempt
  /\ UNCHANGED <<checked, commanded_mode, retry_mode>>

\* reset_entity_tracking of the weather entity when the options change.
OptionsChange ==
  /\ checked \cap Optional # {}
  /\ health' = [e \in checked |-> IF e \in Optional THEN NewHealth ELSE health[e]]
  /\ checks_seen' = [e \in checked |-> IF e \in Optional THEN <<>> ELSE checks_seen[e]]
  /\ attempt' = NoAttempt
  /\ UNCHANGED <<checked, commanded_mode, retry_mode>>

ReadinessInit ==
  /\ checked \in Configurations
  /\ health = [e \in checked |-> NewHealth]
  /\ commanded_mode = "self_consumption" /\ retry_mode = "none"
  /\ checks_seen = [e \in checked |-> <<>>]
  /\ attempt = NoAttempt

ReadinessNext ==
  \/ \E shows \in [checked \cap Needed -> Shown] :
       FallBack(shows) \/ \E desired \in CommandModes : Decide(shows, desired)
  \/ \E shows \in Showing : CheckEntities(shows)
  \/ OptionsChange

ReadinessSpec == ReadinessInit /\ [][ReadinessNext]_readinessVars

------------------------------------------------------------------------------
Gone(e) == checks_seen[e] # <<>> /\ checks_seen[e][Len(checks_seen[e])] = "gone"
FailsOn(e) == Cardinality({i \in DOMAIN checks_seen[e] : checks_seen[e][i] # "late"}) >= FailureThreshold
Unfit == {e \in checked \cap Required : Gone(e) \/ FailsOn(e)}

(* A mode is commanded on values that were really read, never on the defaults *)
(* the reader fills in (#330, #1228), and while no required entity was gone   *)
(* at its last check or has failed FAILURE_THRESHOLD_ERROR checks since it    *)
(* was last well -- stale ones neither count nor excuse.  Nothing else blocks *)
(* it, and a block shows in integration_status, unless the entity that failed *)
(* is "unknown", which is no error to _categorize_health_severity.            *)
ActsOnReadings ==
  /\ attempt.why = "decision" => attempt.unread = {}
  /\ attempt.why \in {"decision", "fallback"} => Unfit = {}
  /\ attempt.why = "blocked" =>
       /\ Unfit # {}
       /\ IntegrationStatus # "ok" \/ \E e \in Unfit : checks_seen[e][Len(checks_seen[e])] = "unknown"
=============================================================================
