--------------------------- MODULE SupervisionProofs ---------------------------
(***************************************************************************)
(* Theorems about Supervision, for every choice of the waits: the types,   *)
(* that what is written unasked is safe, and that no wait is cut short.    *)
(* An evaluation is one step of many operators; each has a lemma that      *)
(* says what it leaves of an outage, an override and a debounce.           *)
(***************************************************************************)
EXTENDS Supervision, TLAPS

CommandedModes == Modes \cup {"manual"}

\* an outage is under way while there is a fallback or a recovery, and cannot
\* be in the startup grace
Outage(s) ==
    /\ s.fallback_done => s.lost_since # Unset
    /\ s.ok_since # Unset => s.lost_since # Unset
    /\ s.grace => s.lost_since = Unset /\ s.desired_since = Unset

\* the stamp of the recovery is no older than the inputs are valid
RecoveryStamped(s, valid) == s.ok_since # Unset => s.ok_since <= valid

\* while a cooldown since Tesla was last seen runs, the yield or its stamp stands
CooldownStamped(s, seen) ==
    Runs(seen, Cooldown) =>
        s.detected \/ (s.released_at # Unset /\ s.released_at <= seen)

\* the stamp of the debounce is no older than the export is wanted
DebounceStamped(s, wanted) ==
    s.desired_since # Unset => wanted # Unset /\ s.desired_since <= wanted

Types ==
    /\ sm \in Fields
    /\ past \in [valid : 0..RecoveryConfirm, seen : Age(Cooldown),
                 wanted : Age(ExportDebounce)]

\* the inductive invariant: the fields know of each wait at least what the
\* history knows
IInv ==
    /\ Types
    /\ Outage(sm)
    /\ RecoveryStamped(sm, past.valid)
    /\ CooldownStamped(sm, past.seen)
    /\ DebounceStamped(sm, past.wanted)

LEMMA Waits ==
    /\ LossConfirm \in Nat \ {0} /\ RecoveryConfirm \in Nat \ {0}
    /\ CorrectionWait \in Nat \ {0} /\ RetryCap \in Nat \ {0}
    /\ SelfGrace \in Nat \ {0} /\ Reprobe \in Nat \ {0}
    /\ Cooldown \in Nat \ {0} /\ ExportDebounce \in Nat \ {0}
    /\ MaxFailures \in Nat \ {0}
<1>1. {LossConfirm, RecoveryConfirm, CorrectionWait, RetryCap, SelfGrace,
        Reprobe, Cooldown, ExportDebounce, MaxFailures} \subseteq Nat \ {0}
    BY SupervisionAssumption
<1> QED BY <1>1

\* A stamp that ages stays in range, set or unset, and behind an older one.
LEMMA OlderStamp ==
    ASSUME NEW limit \in Nat, NEW a \in Age(limit)
    PROVE  /\ Older(a, limit) \in Age(limit)
           /\ Older(a, limit) = Unset <=> a = Unset
           /\ a \in 0..limit => Older(a, limit) \in 0..limit
           /\ \A b \in Age(limit) :
                a <= b => Older(a, limit) <= Older(b, limit)
           /\ Runs(Older(a, limit), limit) => Runs(a, limit)
BY DEF Older, Age, Unset, Runs

LEMMA Stamps ==
    /\ 0 # Unset
    /\ \A limit \in Nat : Unset \in Age(limit) /\ 0 \in Age(limit)
BY DEF Age, Unset

-----------------------------------------------------------------------------
(* What the parts of an evaluation leave                                    *)

SameOutage(s, t) ==
    /\ t.grace = s.grace
    /\ t.lost_since = s.lost_since
    /\ t.ok_since = s.ok_since
    /\ t.fallback_done = s.fallback_done

\* what a result o, reached from s, owes to the cooldown
KeepsCooldown(s, o, r) ==
    \A seen \in Age(Cooldown) :
        CooldownStamped(s, seen) =>
            /\ (o.why = "probe" /\ r.succeeds) \/ CooldownStamped(o.sm, seen)
            /\ o.why \in {"fallback", "correction"} => ~Runs(seen, Cooldown)

\* what is written unasked is not written against an event
KeepsClear(o, r) ==
    o.why \in Unasked => ~(Signature(r) /\ r.signals = "event")

LEMMA OverrideLeaves ==
    ASSUME NEW s \in Fields, NEW r \in Readings, NEW target \in CommandedModes
    PROVE  LET o == TeslaOverride(s, r, target)
           IN  /\ o.sm \in Fields
               /\ SameOutage(s, o.sm)
               /\ o.sm.desired_since = s.desired_since
               /\ o.why \in {"none", "probe"}
               /\ o.why = "probe" => o.mode = target
               /\ KeepsClear(o, r)
               /\ KeepsCooldown(s, o, r)
               /\ o = Result(o.sm, o.why, o.mode)
               /\ o.why = "none" /\ ~Skips(o) =>
                    /\ ~DetectsOverride(s, r)
                    /\ \A seen \in Age(Cooldown) :
                         CooldownStamped(s, seen) => ~Runs(seen, Cooldown)
<1> DEFINE o == TeslaOverride(s, r, target)
<1> USE Waits, Stamps DEF CommandedModes
<1>1. CASE ~DetectsOverride(s, r)
    <2>1. /\ o.sm = Released(s) /\ o.why = "none"
          /\ o = Result(o.sm, o.why, o.mode)
        BY <1>1 DEF TeslaOverride, Nothing, Result
    <2>2. /\ Released(s) \in Fields
          /\ SameOutage(s, Released(s))
          /\ Released(s).desired_since = s.desired_since
        <3> DEFINE t == IF s.detected
                        THEN [s EXCEPT !.detected = FALSE, !.last_probe = Unset,
                                       !.released_at = 0]
                        ELSE s
        <3>1. /\ t \in Fields /\ SameOutage(s, t)
              /\ t.desired_since = s.desired_since
            BY DEF Fields, SameOutage
        <3>2. Released(s) \in {t, [t EXCEPT !.released_at = Unset]}
            BY DEF Released
        <3> HIDE DEF t
        <3>3. [t EXCEPT !.released_at = Unset] \in Fields
            BY <3>1 DEF Fields
        <3> QED BY <3>1, <3>2, <3>3 DEF Fields, SameOutage
    <2>3. \A seen \in Age(Cooldown) :
            CooldownStamped(s, seen) => CooldownStamped(Released(s), seen)
        BY DEF Released, Fields, CooldownStamped, Runs, Reached, Age, Unset
    <2>4. ~Released(s).detected
        BY DEF Released, Fields
    <2> QED BY <1>1, <2>1, <2>2, <2>3, <2>4
            DEF KeepsCooldown, KeepsClear, Unasked, Skips, CooldownStamped
<1>2. CASE DetectsOverride(s, r) /\ ProbesDue(s, r)
    <2>1. /\ o.sm = Probed(s, r, target)
          /\ o.why = "probe"
          /\ o.mode = target
          /\ o = Result(o.sm, o.why, o.mode)
        BY <1>2 DEF TeslaOverride, Result
    <2>2. /\ Probed(s, r, target) \in Fields
          /\ SameOutage(s, Probed(s, r, target))
          /\ Probed(s, r, target).desired_since = s.desired_since
          /\ ~r.succeeds => Probed(s, r, target).detected
        <3>1. CASE r.succeeds
            <4> DEFINE w == [s EXCEPT !.transition = 0]
                       x == [w EXCEPT !.detected = FALSE, !.last_probe = Unset]
                       b == w.unverified /\ target # "self_consumption"
                       z == [x EXCEPT !.released_at = Unset, !.commanded = target,
                                      !.unverified = b]
            <4>1. w \in Fields /\ SameOutage(s, w) /\ w.desired_since = s.desired_since
                BY DEF Fields, SameOutage
            <4>2. /\ x \in Fields /\ SameOutage(w, x)
                  /\ x.desired_since = w.desired_since
                <5> HIDE DEF w
                <5> QED BY <4>1 DEF Fields, SameOutage
            <4>3. /\ z \in Fields /\ SameOutage(x, z)
                  /\ z.desired_since = x.desired_since
                <5>1. b \in BOOLEAN
                    OBVIOUS
                <5> HIDE DEF x, b
                <5> QED BY <4>2, <5>1 DEF Fields, SameOutage
            <4>4. Probed(s, r, target) = z
                BY <3>1 DEF Probed, Written
            <4> HIDE DEF w, x, z
            <4> QED BY <3>1, <4>1, <4>2, <4>3, <4>4 DEF SameOutage
        <3>2. CASE ~r.succeeds
            BY <1>2, <3>2 DEF Probed, ProbesDue, Fields, SameOutage
        <3> QED BY <3>1, <3>2
    <2>3. r.signals # "event"
        BY <1>2 DEF ProbesDue
    <2> QED BY <2>1, <2>2, <2>3 DEF KeepsCooldown, KeepsClear, CooldownStamped
<1>3. CASE DetectsOverride(s, r) /\ ~ProbesDue(s, r)
    <2>1. /\ o.sm = Yielded(s, r) /\ o.why = "none"
          /\ o = Result(o.sm, o.why, o.mode)
        BY <1>3 DEF TeslaOverride, Nothing, Result
    <2>2. /\ Yielded(s, r) \in Fields
          /\ SameOutage(s, Yielded(s, r))
          /\ Yielded(s, r).desired_since = s.desired_since
          /\ Yielded(s, r).detected
        BY DEF Yielded, Fields, SameOutage
    <2> QED BY <2>1, <2>2 DEF KeepsCooldown, KeepsClear, Unasked, CooldownStamped, Skips
<1> QED BY <1>1, <1>2, <1>3

LEMMA HealthCheckLeaves ==
    ASSUME NEW s \in Fields, NEW r \in Readings
    PROVE  LET o == HealthCheck(s, r)
           IN  /\ o.sm \in Fields
               /\ SameOutage(s, o.sm)
               /\ o.sm.desired_since = s.desired_since
               /\ o.why \in {"none", "probe", "correction"}
               /\ o.why # "none" => o.mode = s.commanded
               /\ KeepsClear(o, r)
               /\ KeepsCooldown(s, o, r)
<1> DEFINE o == HealthCheck(s, r)
           v == TeslaOverride(s, r, s.commanded)
<1>0. s.commanded \in CommandedModes
    BY DEF Fields, CommandedModes
<1>1. CASE r.override
    <2>1. o.sm = s /\ o.why = "none"
        BY <1>1 DEF HealthCheck, Nothing, Result
    <2> QED BY <2>1 DEF SameOutage, KeepsClear, KeepsCooldown, Unasked
<1>2. CASE ~r.override /\ (Skips(v) \/ v.why # "none")
    <2>1. o = v
        BY <1>2 DEF HealthCheck
    <2> QED BY <1>0, <2>1, OverrideLeaves
<1>3. CASE ~r.override /\ ~Skips(v) /\ v.why = "none"
    <2>1. o = Verified(v.sm, r)
        BY <1>3 DEF HealthCheck
    <2>2. /\ v.sm \in Fields /\ SameOutage(s, v.sm)
          /\ v.sm.desired_since = s.desired_since
          /\ KeepsCooldown(s, v, r)
          /\ ~DetectsOverride(s, r)
          /\ \A seen \in Age(Cooldown) :
                CooldownStamped(s, seen) => ~Runs(seen, Cooldown)
        BY <1>0, <1>3, OverrideLeaves
    <2>3. v.sm = Released(s) /\ v.sm.commanded = s.commanded
        BY <2>2 DEF TeslaOverride, Nothing, Result, Released, Fields
    <2>4. ~(Signature(r) /\ r.signals = "event")
        BY <2>2 DEF DetectsOverride
    <2>5. /\ o.sm \in Fields /\ SameOutage(v.sm, o.sm)
          /\ o.sm.desired_since = v.sm.desired_since
          /\ o.sm.detected = v.sm.detected /\ o.sm.released_at = v.sm.released_at
          /\ o.why \in {"none", "correction"}
          /\ o.why # "none" => o.mode = v.sm.commanded
        <3> DEFINE y == v.sm
                   w == Written(y, r)
                   x == Corrected(y, r)
        <3>1. \/ o.sm = y /\ o.why = "none"
              \/ o.sm = x /\ o.why = "correction" /\ o.mode = y.commanded
            BY <2>1 DEF Verified, Nothing, Result
        <3>2. y \in Fields
            BY <2>2
        <3> HIDE DEF y
        <3>3. /\ w \in Fields /\ SameOutage(y, w) /\ w.desired_since = y.desired_since
              /\ w.detected = y.detected /\ w.released_at = y.released_at
            BY <3>2, Waits, Stamps DEF Written, Fields, SameOutage
        <3>4. /\ x \in Fields /\ SameOutage(w, x) /\ x.desired_since = w.desired_since
              /\ x.detected = w.detected /\ x.released_at = w.released_at
            <4> HIDE DEF w
            <4>1. x = [w EXCEPT !.correction = 0]
                BY DEF Corrected, w
            <4> QED BY <3>3, <4>1, Waits, Stamps DEF Fields, SameOutage
        <3> HIDE DEF w, x
        <3>5. \/ o.sm = y
              \/ /\ o.sm \in Fields /\ SameOutage(y, o.sm)
                 /\ o.sm.desired_since = y.desired_since
                 /\ o.sm.detected = y.detected /\ o.sm.released_at = y.released_at
            BY <3>1, <3>3, <3>4 DEF SameOutage
        <3> QED BY <3>1, <3>2, <3>5 DEF y, SameOutage
    <2>6. SameOutage(s, o.sm) /\ o.sm.desired_since = s.desired_since
        <3> HIDE DEF o, v
        <3> QED BY <2>2, <2>5 DEF SameOutage
    <2>7. KeepsClear(o, r)
        BY <2>4 DEF KeepsClear
    <2>8. KeepsCooldown(s, o, r)
        <3> SUFFICES ASSUME NEW seen \in Age(Cooldown), CooldownStamped(s, seen)
                     PROVE  ~Runs(seen, Cooldown)
            BY DEF KeepsCooldown, CooldownStamped
        <3> QED BY <2>2
    <2>9. /\ o.sm \in Fields
          /\ o.why \in {"none", "probe", "correction"}
          /\ o.why # "none" => o.mode = s.commanded
        <3> HIDE DEF o, v
        <3> QED BY <2>3, <2>5
    <2> QED BY <2>6, <2>7, <2>8, <2>9
<1> QED BY <1>1, <1>2, <1>3

LEMMA FallbackLeaves ==
    ASSUME NEW s \in Fields, NEW r \in Readings
    PROVE  LET o == Fallback(s, r)
           IN  /\ o.sm \in Fields
               /\ SameOutage(s, o.sm)
               /\ o.sm.desired_since \in {s.desired_since, Unset}
               /\ o.sm.detected = s.detected /\ o.sm.released_at = s.released_at
               /\ o.why \in {"none", "fallback"}
               /\ o.why = "fallback" => o.mode = "self_consumption"
<1> DEFINE o == Fallback(s, r)
           w == Written(s, r)
           t == [w EXCEPT !.last_attempt = 0]
           x == [t EXCEPT !.commanded = "self_consumption"]
           y == [x EXCEPT !.failures = 0]
           z == [y EXCEPT !.unverified = FALSE, !.desired_since = Unset]
           f == [t EXCEPT !.failures = MinOf(@ + 1, MaxFailures)]
           Same(a, b) == /\ b \in Fields
                         /\ SameOutage(a, b)
                         /\ b.desired_since \in {a.desired_since, Unset}
                         /\ b.detected = a.detected
                         /\ b.released_at = a.released_at
<1> USE Waits, Stamps
<1>1. Same(s, w)
    BY DEF Written, Fields, SameOutage
<1>2. Same(w, t)
    <2> HIDE DEF w
    <2> QED BY <1>1 DEF Fields, SameOutage
<1>3. Same(t, y)
    <2>1. "self_consumption" \in Modes /\ 0 \in 0..MaxFailures
        BY DEF Modes
    <2>2. Same(t, x)
        <3> HIDE DEF t
        <3> QED BY <1>2, <2>1 DEF Fields, SameOutage
    <2>3. Same(x, y)
        <3> HIDE DEF x
        <3> QED BY <2>1, <2>2 DEF Fields, SameOutage
    <2> HIDE DEF t, x, y
    <2> QED BY <2>2, <2>3 DEF SameOutage
<1>4. Same(y, z)
    <2> HIDE DEF y
    <2> QED BY <1>3 DEF Fields, SameOutage
<1>5. Same(t, f)
    <2> HIDE DEF t
    <2>1. t.failures \in 0..MaxFailures
        BY <1>2 DEF Fields
    <2>2. MinOf(t.failures + 1, MaxFailures) \in 0..MaxFailures
        BY <2>1 DEF MinOf
    <2> QED BY <1>2, <2>2 DEF Fields, SameOutage
<1>6. \/ o.sm = s /\ o.why = "none"
      \/ o.sm \in {z, f} /\ o.why = "fallback" /\ o.mode = "self_consumption"
    BY DEF Fallback, Nothing, Result
<1> HIDE DEF w, t, x, y, z, f, o
<1>7. Same(s, z)
    BY <1>1, <1>2, <1>3, <1>4 DEF SameOutage
<1>8. Same(s, f)
    BY <1>1, <1>2, <1>5 DEF SameOutage
<1>9. o.sm = s \/ Same(s, o.sm)
    BY <1>6, <1>7, <1>8
<1>10. Same(s, o.sm)
    BY <1>9 DEF SameOutage
<1> QED BY <1>6, <1>10 DEF o

\* What the readiness gate leaves: an outage, of which SELF_CONSUMPTION is written.
LEMMA GateLeaves ==
    ASSUME NEW s \in Fields, NEW r \in Readings
    PROVE  LET o == Gate(s, r)
           IN  /\ o.sm \in Fields
               /\ o.sm.grace = s.grace
               /\ o.sm.lost_since # Unset /\ o.sm.ok_since = Unset
               /\ o.sm.desired_since \in {s.desired_since, Unset}
               /\ o.why \in {"none"} \cup Unasked
               /\ o.why # "none" => o.mode = "self_consumption"
               /\ KeepsClear(o, r)
               /\ KeepsCooldown(s, o, r)
<1> DEFINE since == IF s.lost_since = Unset THEN 0 ELSE s.lost_since
           t == [s EXCEPT !.ok_since = Unset, !.lost_since = since]
           healthy == HealthPossible(t, r)
           o == IF healthy THEN Nothing(t) ELSE TeslaOverride(t, r, ProbeMode(t))
           confirmed == t.fallback_done \/ Reached(t.lost_since, LossConfirm)
           u == [o.sm EXCEPT !.fallback_done = confirmed]
           needed == confirmed /\ (u.commanded # "self_consumption" \/ u.unverified)
           g == Gate(s, r)
<1> USE Waits, Stamps
<1>1. /\ t \in Fields
      /\ t.grace = s.grace
      /\ t.lost_since # Unset /\ t.ok_since = Unset
      /\ t.desired_since = s.desired_since
      /\ t.detected = s.detected /\ t.released_at = s.released_at
    <2>1. since \in Age(LossConfirm) /\ since # Unset
        BY DEF Fields
    <2> HIDE DEF since
    <2> QED BY <2>1 DEF Fields
<1>2. ProbeMode(t) = "self_consumption" /\ ProbeMode(t) \in CommandedModes
    BY DEF ProbeMode, CommandedModes, Modes
<1>3. g = IF o.why # "none" THEN [o EXCEPT !.sm = u]
          ELSE IF needed THEN IF Skips(o) THEN Nothing(u) ELSE Fallback(u, r)
          ELSE IF healthy THEN HealthCheck(u, r)
          ELSE Nothing(u)
    BY DEF Gate
<1>4. confirmed \in BOOLEAN
    BY <1>1 DEF Fields, Reached
<1>5. healthy => t.commanded = "self_consumption" /\ ~t.unverified
    BY DEF HealthPossible
<1> HIDE DEF t, confirmed, healthy, g
<1>6. /\ o.sm \in Fields
      /\ SameOutage(t, o.sm)
      /\ o.sm.desired_since = t.desired_since
      /\ o.why \in {"none", "probe"}
      /\ o.why = "probe" => o.mode = "self_consumption"
      /\ KeepsClear(o, r)
      /\ KeepsCooldown(t, o, r)
      /\ o = Result(o.sm, o.why, o.mode)
      /\ healthy => o.sm = t /\ o.why = "none"
    <2>1. CASE healthy
        BY <1>1, <2>1 DEF Nothing, Result, SameOutage, KeepsClear, KeepsCooldown, Unasked
    <2>2. CASE ~healthy
        BY <1>1, <1>2, <2>2, OverrideLeaves
    <2> QED BY <2>1, <2>2
<1>7. ~healthy /\ o.why = "none" /\ ~Skips(o) =>
        /\ ~(Signature(r) /\ r.signals = "event")
        /\ \A seen \in Age(Cooldown) :
             CooldownStamped(t, seen) => ~Runs(seen, Cooldown)
    BY <1>1, <1>2, OverrideLeaves DEF DetectsOverride
<1> HIDE DEF o
<1>8. /\ u \in Fields
      /\ u.grace = s.grace /\ u.lost_since # Unset /\ u.ok_since = Unset
      /\ u.desired_since = s.desired_since
      /\ u.detected = o.sm.detected /\ u.released_at = o.sm.released_at
      /\ u.commanded = o.sm.commanded /\ u.unverified = o.sm.unverified
    BY <1>1, <1>4, <1>6 DEF Fields, SameOutage
<1>9. \A seen \in Age(Cooldown) :
        CooldownStamped(s, seen) =>
            /\ CooldownStamped(t, seen)
            /\ (o.why = "probe" /\ r.succeeds) \/ CooldownStamped(u, seen)
    BY <1>1, <1>6, <1>8 DEF KeepsCooldown, CooldownStamped
<1> HIDE DEF u
<1>10. CASE o.why # "none"
    <2>1. g.sm = u /\ g.why = o.why /\ g.mode = o.mode
        BY <1>3, <1>6, <1>10 DEF Result
    <2>2. KeepsClear(g, r) /\ KeepsCooldown(s, g, r)
        BY <1>6, <1>9, <2>1 DEF KeepsClear, KeepsCooldown
    <2> QED BY <1>6, <1>8, <1>10, <2>1, <2>2 DEF g, Unasked
<1>11. CASE o.why = "none" /\ g = Nothing(u)
    <2>1. g.sm = u /\ g.why = "none"
        BY <1>11 DEF Nothing, Result
    <2>2. KeepsClear(g, r) /\ KeepsCooldown(s, g, r)
        BY <1>9, <1>11, <2>1 DEF KeepsClear, KeepsCooldown, Unasked
    <2> QED BY <1>8, <2>1, <2>2 DEF g
<1>12. CASE o.why = "none" /\ needed /\ ~Skips(o)
    <2>1. g = Fallback(u, r)
        BY <1>3, <1>12
    <2>2. ~healthy
        <3> SUFFICES ASSUME healthy PROVE FALSE
            OBVIOUS
        <3>1. u.commanded = "self_consumption" /\ ~u.unverified
            BY <1>5, <1>6, <1>8
        <3> QED BY <1>12, <3>1
    <2>3. /\ ~(Signature(r) /\ r.signals = "event")
          /\ \A seen \in Age(Cooldown) :
               CooldownStamped(s, seen) => ~Runs(seen, Cooldown)
        BY <1>7, <1>9, <1>12, <2>2
    <2>4. /\ g.sm \in Fields /\ SameOutage(u, g.sm)
          /\ g.sm.desired_since \in {u.desired_since, Unset}
          /\ g.why \in {"none", "fallback"}
          /\ g.why = "fallback" => g.mode = "self_consumption"
        BY <1>8, <2>1, FallbackLeaves
    <2>5. KeepsClear(g, r) /\ KeepsCooldown(s, g, r)
        BY <2>3 DEF KeepsClear, KeepsCooldown, CooldownStamped
    <2>6. /\ g.sm.grace = s.grace /\ g.sm.lost_since # Unset /\ g.sm.ok_since = Unset
          /\ g.sm.desired_since \in {s.desired_since, Unset}
        BY <1>8, <2>4 DEF SameOutage
    <2> QED BY <2>4, <2>5, <2>6 DEF g, Unasked
<1>13. CASE o.why = "none" /\ ~needed /\ healthy
    <2>1. g = HealthCheck(u, r)
        BY <1>3, <1>13
    <2>2. u.commanded = "self_consumption"
        BY <1>5, <1>6, <1>8, <1>13
    <2>3. /\ g.sm \in Fields /\ SameOutage(u, g.sm)
          /\ g.sm.desired_since = u.desired_since
          /\ g.why \in {"none", "probe", "correction"}
          /\ g.why # "none" => g.mode = u.commanded
          /\ KeepsClear(g, r)
          /\ KeepsCooldown(u, g, r)
        BY <1>8, <2>1, HealthCheckLeaves
    <2>4. KeepsCooldown(s, g, r)
        BY <1>9, <1>13, <2>3 DEF KeepsCooldown
    <2>5. /\ g.sm.grace = s.grace /\ g.sm.lost_since # Unset /\ g.sm.ok_since = Unset
          /\ g.sm.desired_since = s.desired_since
        BY <1>8, <2>3 DEF SameOutage
    <2> QED BY <2>2, <2>3, <2>4, <2>5 DEF g, Unasked
<1> QED BY <1>3, <1>10, <1>11, <1>12, <1>13

-----------------------------------------------------------------------------
(* Decisions                                                                *)

\* the stamp of the debounce after an evaluation that acts on the desired mode
DebounceGoesOn(s, o, r) ==
    o.sm.desired_since = Unset
    \/ (r.desired = "proactive_export"
        /\ o.sm.desired_since = IF s.desired_since = Unset THEN 0 ELSE s.desired_since)

LEMMA TransitLeaves ==
    ASSUME NEW s \in Fields, NEW r \in Readings
    PROVE  LET o == Transit(s, r)
           IN  /\ o.sm \in Fields
               /\ SameOutage(s, o.sm)
               /\ o.sm.desired_since \in {s.desired_since, Unset}
               /\ o.sm.detected = s.detected /\ o.sm.released_at = s.released_at
               /\ o.why \in {"none", "decision"}
               /\ o.why = "decision" => o.mode = r.desired
<1> DEFINE o == Transit(s, r)
           w == Written(s, r)
           y == [w EXCEPT !.commanded = r.desired, !.desired_since = Unset]
           z == [s EXCEPT !.desired_since = Unset]
           Same(a, b) == /\ b \in Fields
                         /\ SameOutage(a, b)
                         /\ b.desired_since \in {a.desired_since, Unset}
                         /\ b.detected = a.detected
                         /\ b.released_at = a.released_at
<1> USE Waits, Stamps
<1>1. r.desired \in Modes \cup {"manual"}
    BY DEF Readings
<1>2. Same(s, w)
    BY DEF Written, Fields, SameOutage
<1>3. Same(w, y)
    <2> HIDE DEF w
    <2> QED BY <1>1, <1>2 DEF Fields, SameOutage
<1>4. Same(s, z)
    BY DEF Fields, SameOutage
<1>5. \/ o.sm = s /\ o.why = "none"
      \/ o.sm \in {y, z} /\ o.why = "decision" /\ o.mode = r.desired
    BY DEF Transit, Nothing, Result
<1> HIDE DEF w, y, z, o
<1>6. Same(s, y)
    BY <1>2, <1>3 DEF SameOutage
<1>7. o.sm = s \/ Same(s, o.sm)
    BY <1>4, <1>5, <1>6
<1>8. Same(s, o.sm)
    BY <1>7 DEF SameOutage
<1> QED BY <1>5, <1>8 DEF o

LEMMA DesireLeaves ==
    ASSUME NEW s \in Fields, NEW r \in Readings
    PROVE  LET o == Desire(s, r)
           IN  /\ o.sm \in Fields
               /\ SameOutage(s, o.sm)
               /\ DebounceGoesOn(s, o, r)
               /\ o.why \in {"none", "decision"}
               /\ o.why = "decision" => o.mode = r.desired
               /\ KeepsClear(o, r)
               /\ KeepsCooldown(s, o, r)
               /\ o.why = "decision" /\ o.mode = "proactive_export"
                    => \/ s.skip_debounce \/ r.spike
                       \/ s.desired_since # Unset /\ s.desired_since >= ExportDebounce
<1> DEFINE o == Desire(s, r)
           t == Cleared(s, r)
           wants == r.desired = "proactive_export" /\ t.desired_since = Unset
           u == IF wants THEN [t EXCEPT !.desired_since = 0] ELSE t
           v == [u EXCEPT !.skip_debounce = FALSE]
           waits == Debounce(s, r) > 0 /\ ~Reached(u.desired_since, Debounce(s, r))
           Same(a, b) == /\ b \in Fields
                         /\ SameOutage(a, b)
                         /\ b.detected = a.detected
                         /\ b.released_at = a.released_at
<1> USE Waits, Stamps
<1>1. /\ Same(s, t)
      /\ t.desired_since = IF r.desired = "proactive_export" THEN s.desired_since
                           ELSE Unset
    BY DEF Cleared, Fields, SameOutage
<1>2. /\ Same(t, u)
      /\ u.desired_since = IF wants THEN 0 ELSE t.desired_since
    <2> HIDE DEF t
    <2> QED BY <1>1 DEF Fields, SameOutage
<1>3. Same(u, v) /\ v.desired_since = u.desired_since
    <2> HIDE DEF u
    <2> QED BY <1>2 DEF Fields, SameOutage
<1>4. o = IF waits THEN Nothing(v) ELSE Transit(v, r)
    BY DEF Desire
<1> HIDE DEF t, u, v, o
<1>5. /\ Same(s, v)
      /\ v.desired_since = IF r.desired # "proactive_export" THEN Unset
                           ELSE IF s.desired_since = Unset THEN 0 ELSE s.desired_since
    BY <1>1, <1>2, <1>3 DEF SameOutage
<1>6. /\ Same(v, o.sm)
      /\ o.sm.desired_since \in {v.desired_since, Unset}
      /\ o.why \in {"none", "decision"}
      /\ o.why = "decision" => o.mode = r.desired /\ ~waits
    <2>1. CASE waits
        BY <1>4, <1>5, <2>1 DEF Nothing, Result, SameOutage
    <2>2. CASE ~waits
        BY <1>4, <1>5, <2>2, TransitLeaves
    <2> QED BY <2>1, <2>2
<1>7. Same(s, o.sm)
    BY <1>5, <1>6 DEF SameOutage
<1>8. DebounceGoesOn(s, o, r)
    BY <1>5, <1>6 DEF DebounceGoesOn
<1>9. KeepsClear(o, r) /\ KeepsCooldown(s, o, r)
    BY <1>6, <1>7 DEF KeepsClear, KeepsCooldown, CooldownStamped, Unasked
<1>10. ASSUME o.why = "decision", o.mode = "proactive_export",
              ~s.skip_debounce, ~r.spike
       PROVE  s.desired_since # Unset /\ s.desired_since >= ExportDebounce
    <2>1. Debounce(s, r) = ExportDebounce /\ ~waits /\ r.desired = "proactive_export"
        BY <1>6, <1>10 DEF Debounce
    <2>2. u.desired_since # Unset /\ u.desired_since >= ExportDebounce
        BY <2>1 DEF Reached
    <2>3. v.desired_since # 0
        BY <1>3, <2>2
    <2> QED BY <1>3, <1>5, <2>1, <2>2, <2>3
<1> QED BY <1>6, <1>7, <1>8, <1>9, <1>10 DEF o

LEMMA StableLeaves ==
    ASSUME NEW s \in Fields, NEW r \in Readings
    PROVE  LET o == Stable(s, r)
           IN  /\ o.sm \in Fields
               /\ SameOutage(s, o.sm)
               /\ DebounceGoesOn(s, o, r)
               /\ o.why \in {"none", "probe", "correction"}
               /\ KeepsClear(o, r)
               /\ KeepsCooldown(s, o, r)
<1> DEFINE t == [s EXCEPT !.desired_since = Unset, !.skip_debounce = FALSE]
           o == Stable(s, r)
<1>1. /\ t \in Fields /\ SameOutage(s, t) /\ t.desired_since = Unset
      /\ t.detected = s.detected /\ t.released_at = s.released_at
    BY Waits, Stamps DEF Fields, SameOutage
<1>2. o = HealthCheck(t, r)
    BY DEF Stable
<1> HIDE DEF t, o
<1>3. /\ o.sm \in Fields /\ SameOutage(t, o.sm)
      /\ o.sm.desired_since = t.desired_since
      /\ o.why \in {"none", "probe", "correction"}
      /\ KeepsClear(o, r) /\ KeepsCooldown(t, o, r)
    BY <1>1, <1>2, HealthCheckLeaves
<1>4. KeepsCooldown(s, o, r)
    BY <1>1, <1>3 DEF KeepsCooldown, CooldownStamped
<1>5. SameOutage(s, o.sm) /\ DebounceGoesOn(s, o, r)
    BY <1>1, <1>3 DEF SameOutage, DebounceGoesOn
<1> QED BY <1>3, <1>4, <1>5 DEF o

LEMMA EndedLeaves ==
    ASSUME NEW s \in Fields
    PROVE  /\ Ended(s) \in Fields
           /\ Ended(s).grace = s.grace /\ Ended(s).skip_debounce = s.skip_debounce
           /\ Ended(s).lost_since = Unset /\ Ended(s).ok_since = Unset
           /\ Ended(s).fallback_done = FALSE
           /\ Ended(s).desired_since = s.desired_since
           /\ Ended(s).detected = s.detected
           /\ Ended(s).released_at = s.released_at
<1> DEFINE x == [s EXCEPT !.lost_since = Unset, !.ok_since = Unset]
           y == [x EXCEPT !.fallback_done = FALSE, !.unverified = FALSE]
           z == [y EXCEPT !.last_attempt = Unset, !.failures = 0]
           Same(a, b) == /\ b \in Fields
                         /\ b.grace = a.grace /\ b.skip_debounce = a.skip_debounce
                         /\ b.desired_since = a.desired_since
                         /\ b.detected = a.detected
                         /\ b.released_at = a.released_at
<1> USE Waits, Stamps
<1>1. Same(s, x) /\ x.lost_since = Unset /\ x.ok_since = Unset
    BY DEF Fields
<1>2. /\ Same(x, y) /\ y.lost_since = x.lost_since /\ y.ok_since = x.ok_since
      /\ y.fallback_done = FALSE
    <2> HIDE DEF x
    <2> QED BY <1>1 DEF Fields
<1>3. /\ Same(y, z) /\ z.lost_since = y.lost_since /\ z.ok_since = y.ok_since
      /\ z.fallback_done = y.fallback_done
    <2>1. 0 \in 0..MaxFailures
        OBVIOUS
    <2> HIDE DEF y
    <2> QED BY <1>2, <2>1 DEF Fields
<1>4. Ended(s) = z
    BY DEF Ended
<1> HIDE DEF x, y, z
<1> QED BY <1>1, <1>2, <1>3, <1>4

-----------------------------------------------------------------------------
(* The whole evaluation                                                     *)

LEMMA RestoredLeaves ==
    ASSUME NEW s \in Fields, NEW r \in Readings, Outage(s)
    PROVE  LET t == Restored(s, r)
           IN  /\ t \in Fields /\ Outage(t)
               /\ t.grace = s.grace /\ t.skip_debounce = s.skip_debounce
               /\ t.desired_since = s.desired_since
               /\ t.detected = s.detected /\ t.released_at = s.released_at
               /\ r.inputs \in Gated => t = s
               /\ t.ok_since \in {s.ok_since, 0, Unset}
               /\ s.fallback_done /\ t.lost_since = Unset
                    => s.ok_since # Unset /\ s.ok_since >= RecoveryConfirm
<1> DEFINE ok == IF s.ok_since = Unset THEN 0 ELSE s.ok_since
           x == [s EXCEPT !.ok_since = ok]
           t == Restored(s, r)
<1> USE Waits, Stamps
<1>1. t = IF r.inputs \in Gated \/ s.lost_since = Unset THEN s
          ELSE IF s.fallback_done /\ ok < RecoveryConfirm THEN x ELSE Ended(s)
    BY DEF Restored
<1>2. CASE t = s /\ (r.inputs \in Gated \/ s.lost_since = Unset)
    BY <1>2 DEF Outage
<1>3. CASE t = x /\ r.inputs \notin Gated /\ s.lost_since # Unset
    <2>1. ok \in Age(RecoveryConfirm) /\ ok \in {s.ok_since, 0}
        BY DEF Fields
    <2> HIDE DEF ok
    <2>2. /\ x \in Fields
          /\ x.grace = s.grace /\ x.skip_debounce = s.skip_debounce
          /\ x.desired_since = s.desired_since
          /\ x.detected = s.detected /\ x.released_at = s.released_at
          /\ x.lost_since = s.lost_since /\ x.ok_since = ok
        BY <2>1 DEF Fields
    <2> HIDE DEF x, t
    <2> QED BY <1>3, <2>1, <2>2 DEF Outage, t
<1>4. CASE /\ t = Ended(s) /\ r.inputs \notin Gated
           /\ ~(s.fallback_done /\ ok < RecoveryConfirm)
    <2>1. s.fallback_done => s.ok_since # Unset /\ s.ok_since >= RecoveryConfirm
        BY <1>4 DEF Fields, Age, Unset
    <2> HIDE DEF ok, t
    <2> QED BY <1>4, <2>1, EndedLeaves DEF Outage, t
<1> QED BY <1>1, <1>2, <1>3, <1>4

\* what a decision to export at normal speed has waited for
HasWaited(s, o, r) ==
    o.why = "decision" /\ o.mode = "proactive_export"
        => \/ s.skip_debounce \/ r.spike
           \/ s.desired_since # Unset /\ s.desired_since >= ExportDebounce

LEMMA InControlLeaves ==
    ASSUME NEW s \in Fields, NEW r \in Readings, Outage(s), ~s.grace
    PROVE  LET o == InControl(s, r)
           IN  /\ o.sm \in Fields /\ Outage(o.sm)
               /\ o.sm.ok_since \in {s.ok_since, Unset}
               /\ r.inputs \in Gated => o.sm.ok_since = Unset
               /\ o.why # "none" /\ r.inputs \in Gated => o.mode = "self_consumption"
               /\ o.why = "decision" => s.lost_since = Unset
               /\ HasWaited(s, o, r)
               /\ KeepsClear(o, r)
               /\ KeepsCooldown(s, o, r)
               /\ ~r.automation => o.sm.desired_since = Unset
               /\ IF r.inputs \notin Gated /\ s.lost_since = Unset
                  THEN DebounceGoesOn(s, o, r)
                  ELSE o.sm.desired_since \in {s.desired_since, Unset}
<1> DEFINE o == InControl(s, r)
<1>1. CASE ~r.automation
    <2> DEFINE x == [s EXCEPT !.commanded = "manual", !.desired_since = Unset]
    <2>1. /\ x \in Fields /\ x.grace = s.grace /\ x.desired_since = Unset
          /\ x.detected = s.detected /\ x.released_at = s.released_at
        BY Waits, Stamps DEF Fields
    <2>2. o.sm = Ended(x) /\ o.why = "none"
        BY <1>1 DEF InControl, Nothing, Result, Disabled
    <2> HIDE DEF x, o
    <2>3. /\ o.sm \in Fields /\ o.sm.grace = x.grace
          /\ o.sm.lost_since = Unset /\ o.sm.ok_since = Unset
          /\ o.sm.fallback_done = FALSE /\ o.sm.desired_since = x.desired_since
          /\ o.sm.detected = x.detected /\ o.sm.released_at = x.released_at
        BY <2>1, <2>2, EndedLeaves
    <2>4. Outage(o.sm)
        BY <2>1, <2>3 DEF Outage
    <2>5. KeepsClear(o, r) /\ KeepsCooldown(s, o, r)
        BY <2>1, <2>2, <2>3 DEF KeepsClear, KeepsCooldown, CooldownStamped, Unasked
    <2> QED BY <2>1, <2>2, <2>3, <2>4, <2>5 DEF o, HasWaited, DebounceGoesOn
<1>2. CASE r.automation /\ r.inputs \in Gated
    <2>1. o = Gate(s, r)
        BY <1>2 DEF InControl
    <2> HIDE DEF o
    <2>2. /\ o.sm \in Fields
          /\ o.sm.grace = s.grace
          /\ o.sm.lost_since # Unset /\ o.sm.ok_since = Unset
          /\ o.sm.desired_since \in {s.desired_since, Unset}
          /\ o.why \in {"none"} \cup Unasked
          /\ o.why # "none" => o.mode = "self_consumption"
          /\ KeepsClear(o, r)
          /\ KeepsCooldown(s, o, r)
        BY <2>1, GateLeaves
    <2>3. Outage(o.sm) /\ HasWaited(s, o, r)
        BY <2>2 DEF Outage, HasWaited, Unasked
    <2> QED BY <1>2, <2>2, <2>3 DEF o, Unasked
<1>3. CASE r.automation /\ r.inputs \notin Gated /\ s.lost_since # Unset
    <2>1. o.sm = s /\ o.why = "none"
        BY <1>3 DEF InControl, Nothing, Result
    <2>2. KeepsClear(o, r) /\ KeepsCooldown(s, o, r) /\ HasWaited(s, o, r)
        BY <2>1 DEF KeepsClear, KeepsCooldown, HasWaited, Unasked
    <2> HIDE DEF o
    <2> QED BY <1>3, <2>1, <2>2 DEF o
<1>4. CASE r.automation /\ r.inputs \notin Gated /\ s.lost_since = Unset
    <2>1. /\ o.sm \in Fields /\ SameOutage(s, o.sm)
          /\ DebounceGoesOn(s, o, r) /\ HasWaited(s, o, r)
          /\ KeepsClear(o, r) /\ KeepsCooldown(s, o, r)
        <3>1. CASE r.desired = s.commanded
            <4>1. o = Stable(s, r)
                BY <1>4, <3>1 DEF InControl
            <4> HIDE DEF o
            <4>2. o.why \in {"none", "probe", "correction"}
                BY <4>1, StableLeaves
            <4> QED BY <4>1, <4>2, StableLeaves DEF HasWaited
        <3>2. CASE r.desired # s.commanded
            <4>1. o = Desire(s, r)
                BY <1>4, <3>2 DEF InControl
            <4> HIDE DEF o
            <4> QED BY <4>1, DesireLeaves DEF HasWaited
        <3> QED BY <3>1, <3>2
    <2> HIDE DEF o
    <2>2. Outage(o.sm) /\ o.sm.ok_since = s.ok_since
        BY <2>1 DEF Outage, SameOutage
    <2> QED BY <1>4, <2>1, <2>2 DEF o
<1> QED BY <1>1, <1>2, <1>3, <1>4

LEMMA EvaluationLeaves ==
    ASSUME IInv, NEW r \in Readings, NEW inferred \in CommandedModes
    PROVE  LET o == Evaluation(sm, r, inferred)
           IN  /\ o.sm \in Fields /\ Outage(o.sm)
               /\ RecoveryStamped(o.sm, IF r.inputs \in Gated THEN 0 ELSE past.valid)
               /\ o.why # "none" /\ r.inputs \in Gated => o.mode = "self_consumption"
               /\ KeepsClear(o, r)
               /\ KeepsCooldown(sm, o, r)
               /\ o.why = "decision" /\ sm.fallback_done => past.valid = RecoveryConfirm
               /\ o.why = "decision" /\ o.mode = "proactive_export"
                    => \/ sm.skip_debounce \/ sm.grace \/ r.spike
                       \/ past.wanted = ExportDebounce
               /\ ~r.automation => o.sm.desired_since = Unset
               /\ IF Acts(sm, r) THEN DebounceGoesOn(sm, o, r)
                  ELSE o.sm.desired_since \in {sm.desired_since, Unset}
<1> DEFINE o == Evaluation(sm, r, inferred)
           t == Restored(sm, r)
<1> USE Waits, Stamps
<1>1. /\ sm \in Fields /\ Outage(sm) /\ RecoveryStamped(sm, past.valid)
      /\ DebounceStamped(sm, past.wanted)
      /\ past.valid \in 0..RecoveryConfirm /\ past.wanted \in Age(ExportDebounce)
    BY DEF IInv, Types
<1>2. /\ t \in Fields /\ Outage(t)
      /\ t.grace = sm.grace /\ t.skip_debounce = sm.skip_debounce
      /\ t.desired_since = sm.desired_since
      /\ t.detected = sm.detected /\ t.released_at = sm.released_at
      /\ r.inputs \in Gated => t = sm
      /\ t.ok_since \in {sm.ok_since, 0, Unset}
      /\ sm.fallback_done /\ t.lost_since = Unset
            => sm.ok_since # Unset /\ sm.ok_since >= RecoveryConfirm
    BY <1>1, RestoredLeaves
<1>3. r.inputs \in Inputs
    BY DEF Readings
<1>4. Acts(sm, r) <=> /\ r.automation
                      /\ r.inputs = "valid" \/ (r.inputs = "no_forecast" /\ ~t.grace)
                      /\ t.lost_since = Unset
    BY <1>2 DEF Acts
<1>5. o = IF t.grace /\ r.inputs # "valid" THEN Nothing(GraceEndsUnready(t))
          ELSE InControl(IF t.grace THEN GraceEndsReady(t, inferred) ELSE t, r)
    BY DEF Evaluation
<1> HIDE DEF t, o
<1>6. CASE t.grace /\ r.inputs # "valid"
    <2> DEFINE x == [t EXCEPT !.grace = FALSE, !.commanded = "self_consumption"]
               y == [x EXCEPT !.skip_debounce = TRUE, !.lost_since = 0]
               z == [y EXCEPT !.unverified = TRUE]
               Same(a, b) == /\ b \in Fields /\ b.ok_since = a.ok_since
                             /\ b.fallback_done = a.fallback_done
                             /\ b.desired_since = a.desired_since
                             /\ b.detected = a.detected
                             /\ b.released_at = a.released_at
    <2>1. Same(t, x) /\ x.grace = FALSE
        BY <1>2 DEF Fields, Modes
    <2>2. Same(x, y) /\ y.grace = x.grace /\ y.lost_since = 0
        <3> HIDE DEF x
        <3> QED BY <2>1 DEF Fields
    <2>3. Same(y, z) /\ z.grace = y.grace /\ z.lost_since = y.lost_since
        <3> HIDE DEF y
        <3> QED BY <2>2 DEF Fields
    <2>4. o.sm = z /\ o.why = "none"
        BY <1>5, <1>6 DEF Nothing, Result, GraceEndsUnready
    <2> HIDE DEF x, y, z
    <2>5. /\ Same(t, o.sm) /\ o.sm.grace = FALSE /\ o.sm.lost_since = 0
        BY <2>1, <2>2, <2>3, <2>4
    <2>6. /\ o.sm.ok_since = Unset /\ sm.desired_since = Unset
          /\ ~Acts(sm, r)
        BY <1>2, <1>4, <1>6, <2>5 DEF Outage
    <2>7. Outage(o.sm) /\ KeepsClear(o, r) /\ KeepsCooldown(sm, o, r)
        BY <1>2, <2>4, <2>5 DEF Outage, KeepsClear, KeepsCooldown, CooldownStamped, Unasked
    <2> QED BY <1>2, <2>4, <2>5, <2>6, <2>7 DEF o, RecoveryStamped
<1>7. CASE ~(t.grace /\ r.inputs # "valid")
    <2> DEFINE x == IF t.grace THEN GraceEndsReady(t, inferred) ELSE t
    <2>1. /\ x \in Fields /\ x.grace = FALSE
          /\ x.lost_since = t.lost_since /\ x.ok_since = t.ok_since
          /\ x.fallback_done = t.fallback_done
          /\ x.desired_since = t.desired_since
          /\ x.detected = t.detected /\ x.released_at = t.released_at
          /\ x.skip_debounce => t.skip_debounce \/ t.grace
        BY <1>2 DEF GraceEndsReady, Fields, CommandedModes
    <2>2. o = InControl(x, r)
        BY <1>5, <1>7
    <2> HIDE DEF x
    <2>3. Outage(x)
        BY <1>2, <2>1 DEF Outage
    <2>4. /\ o.sm \in Fields /\ Outage(o.sm)
          /\ o.sm.ok_since \in {x.ok_since, Unset}
          /\ r.inputs \in Gated => o.sm.ok_since = Unset
          /\ o.why # "none" /\ r.inputs \in Gated => o.mode = "self_consumption"
          /\ o.why = "decision" => x.lost_since = Unset
          /\ HasWaited(x, o, r)
          /\ KeepsClear(o, r)
          /\ KeepsCooldown(x, o, r)
          /\ ~r.automation => o.sm.desired_since = Unset
          /\ IF r.inputs \notin Gated /\ x.lost_since = Unset
             THEN DebounceGoesOn(x, o, r)
             ELSE o.sm.desired_since \in {x.desired_since, Unset}
        BY <2>1, <2>2, <2>3, InControlLeaves
    <2>5. RecoveryStamped(o.sm, IF r.inputs \in Gated THEN 0 ELSE past.valid)
        <3>1. CASE r.inputs \in Gated
            BY <2>4, <3>1 DEF RecoveryStamped
        <3>2. CASE r.inputs \notin Gated
            BY <1>1, <1>2, <2>1, <2>4, <3>2 DEF RecoveryStamped
        <3> QED BY <3>1, <3>2
    <2>6. KeepsCooldown(sm, o, r)
        BY <1>2, <2>1, <2>4 DEF KeepsCooldown, CooldownStamped
    <2>7. o.why = "decision" /\ sm.fallback_done => past.valid = RecoveryConfirm
        BY <1>1, <1>2, <2>1, <2>4 DEF RecoveryStamped, Fields, Age, Unset
    <2>8. o.why = "decision" /\ o.mode = "proactive_export"
            => \/ sm.skip_debounce \/ sm.grace \/ r.spike
               \/ past.wanted = ExportDebounce
        BY <1>1, <1>2, <2>1, <2>4 DEF HasWaited, DebounceStamped, Fields, Age, Unset
    <2>9. IF Acts(sm, r) THEN DebounceGoesOn(sm, o, r)
          ELSE o.sm.desired_since \in {sm.desired_since, Unset}
        <3>1. CASE ~r.automation
            BY <1>4, <2>4, <3>1
        <3>2. CASE r.automation
            <4>1. Acts(sm, r) <=> r.inputs \notin Gated /\ x.lost_since = Unset
                BY <1>3, <1>4, <1>7, <2>1, <3>2 DEF Inputs, Gated
            <4> QED BY <1>2, <2>1, <2>4, <4>1 DEF DebounceGoesOn
        <3> QED BY <3>1, <3>2
    <2> QED BY <2>4, <2>5, <2>6, <2>7, <2>8, <2>9 DEF o
<1> QED BY <1>6, <1>7

\* the waits as they are served by one step
StepServes == DecisionsNeedSteadyInputs /\ CooldownKept /\ ExportDebounced

LEMMA EvaluateStep ==
    ASSUME IInv, NEW r \in Readings, Evaluate(r)
    PROVE  IInv' /\ UnaskedWritesAreSafe' /\ StepServes
<1>1. PICK inferred \in CommandedModes :
        LET o == Evaluation(sm, r, inferred)
        IN  Leaves(o, r) /\ Remember(o, r)
    <2>1. sm.commanded \in CommandedModes
        BY DEF IInv, Types, Fields, CommandedModes
    <2> QED BY <2>1 DEF Evaluate, Outcomes, CommandedModes, Modes
<1> DEFINE o == Evaluation(sm, r, inferred)
<1>2. /\ o.sm \in Fields /\ Outage(o.sm)
      /\ RecoveryStamped(o.sm, IF r.inputs \in Gated THEN 0 ELSE past.valid)
      /\ o.why # "none" /\ r.inputs \in Gated => o.mode = "self_consumption"
      /\ KeepsClear(o, r)
      /\ KeepsCooldown(sm, o, r)
      /\ o.why = "decision" /\ sm.fallback_done => past.valid = RecoveryConfirm
      /\ o.why = "decision" /\ o.mode = "proactive_export"
           => \/ sm.skip_debounce \/ sm.grace \/ r.spike
              \/ past.wanted = ExportDebounce
      /\ ~r.automation => o.sm.desired_since = Unset
      /\ IF Acts(sm, r) THEN DebounceGoesOn(sm, o, r)
         ELSE o.sm.desired_since \in {sm.desired_since, Unset}
    BY EvaluationLeaves
<1> HIDE DEF o
<1>3. /\ sm' = o.sm
      /\ last' = IF o.why = "none" THEN NoWrite
                 ELSE [why |-> o.why, mode |-> o.mode, inputs |-> r.inputs,
                       signals |-> r.signals, signature |-> Signature(r),
                       fast |-> sm.skip_debounce \/ sm.grace \/ r.spike]
      /\ past' = [valid  |-> IF r.inputs \in Gated THEN 0 ELSE past.valid,
                  seen   |-> IF o.why = "probe" /\ r.succeeds THEN Unset
                             ELSE IF o.sm.detected THEN 0 ELSE past.seen,
                  wanted |-> IF ~r.automation
                                \/ (Acts(sm, r) /\ r.desired # "proactive_export")
                             THEN Unset
                             ELSE IF Acts(sm, r) /\ past.wanted = Unset THEN 0
                             ELSE past.wanted]
    BY <1>1 DEF o, Leaves, Remember
<1>4. /\ past.valid \in 0..RecoveryConfirm /\ past.seen \in Age(Cooldown)
      /\ past.wanted \in Age(ExportDebounce)
      /\ CooldownStamped(sm, past.seen) /\ DebounceStamped(sm, past.wanted)
    BY DEF IInv, Types
<1>5. Types'
    BY <1>2, <1>3, <1>4, Waits, Stamps DEF Types
<1>6. RecoveryStamped(sm, past.valid)'
    BY <1>2, <1>3 DEF RecoveryStamped
<1>7. CooldownStamped(sm, past.seen)'
    BY <1>2, <1>3, <1>4 DEF KeepsCooldown, CooldownStamped, Runs
<1>8. DebounceStamped(sm, past.wanted)'
    BY <1>2, <1>3, <1>4 DEF DebounceGoesOn, DebounceStamped, Age, Unset
<1>9. Outage(sm)'
    BY <1>2, <1>3 DEF Outage
<1>10. UnaskedWritesAreSafe'
    <2>1. CASE o.why = "none"
        BY <1>3, <2>1 DEF UnaskedWritesAreSafe, NoWrite, Unasked
    <2>2. CASE o.why # "none"
        <3>1. /\ last'.why = o.why /\ last'.mode = o.mode
              /\ last'.inputs = r.inputs /\ last'.signals = r.signals
              /\ last'.signature = Signature(r)
            BY <1>3, <2>2
        <3> QED BY <1>2, <2>2, <3>1 DEF UnaskedWritesAreSafe, KeepsClear
    <2> QED BY <2>1, <2>2
<1>11. StepServes
    <2>1. o.why = "none" => last'.why = "none"
        BY <1>3 DEF NoWrite
    <2>2. o.why # "none" => /\ last'.why = o.why /\ last'.mode = o.mode
                            /\ last'.fast = (sm.skip_debounce \/ sm.grace \/ r.spike)
        BY <1>3
    <2>3. DecisionsNeedSteadyInputs
        BY <1>2, <2>1, <2>2 DEF DecisionsNeedSteadyInputs
    <2>4. CooldownKept
        BY <1>2, <1>4, <2>1, <2>2 DEF CooldownKept, KeepsCooldown
    <2>5. ExportDebounced
        BY <1>2, <2>1, <2>2 DEF ExportDebounced
    <2> QED BY <2>3, <2>4, <2>5 DEF StepServes
<1> QED BY <1>5, <1>6, <1>7, <1>8, <1>9, <1>10, <1>11 DEF IInv

LEMMA TickStep ==
    ASSUME IInv, Tick
    PROVE  IInv' /\ UnaskedWritesAreSafe' /\ StepServes
<1> USE Waits
<1>1. /\ sm \in Fields /\ Outage(sm)
      /\ past.valid \in Age(RecoveryConfirm) /\ past.valid \in 0..RecoveryConfirm
      /\ past.seen \in Age(Cooldown) /\ past.wanted \in Age(ExportDebounce)
      /\ sm.ok_since \in Age(RecoveryConfirm) /\ sm.lost_since \in Age(LossConfirm)
      /\ sm.desired_since \in Age(ExportDebounce) /\ sm.released_at \in Age(Cooldown)
      /\ sm.last_attempt \in Age(RetryCap) /\ sm.last_probe \in Age(Reprobe)
      /\ sm.correction \in Age(CorrectionWait) /\ sm.transition \in Age(SelfGrace)
    BY DEF IInv, Types, Fields, Age, Unset
<1>2. /\ past'.valid = Older(past.valid, RecoveryConfirm)
      /\ past'.seen = Older(past.seen, Cooldown)
      /\ past'.wanted = Older(past.wanted, ExportDebounce)
      /\ past' = [valid |-> past'.valid, seen |-> past'.seen, wanted |-> past'.wanted]
      /\ last' = NoWrite
    BY DEF Tick
<1>3. /\ sm'.ok_since = Older(sm.ok_since, RecoveryConfirm)
      /\ sm'.lost_since = Older(sm.lost_since, LossConfirm)
      /\ sm'.desired_since = Older(sm.desired_since, ExportDebounce)
      /\ sm'.released_at = Older(sm.released_at, Cooldown)
      /\ sm'.detected = sm.detected /\ sm'.grace = sm.grace
      /\ sm'.fallback_done = sm.fallback_done
    BY <1>1 DEF Tick, Ages, Fields
<1>4. /\ Older(sm.ok_since, RecoveryConfirm) \in Age(RecoveryConfirm)
      /\ Older(sm.lost_since, LossConfirm) \in Age(LossConfirm)
      /\ Older(sm.desired_since, ExportDebounce) \in Age(ExportDebounce)
      /\ Older(sm.released_at, Cooldown) \in Age(Cooldown)
      /\ Older(sm.last_attempt, RetryCap) \in Age(RetryCap)
      /\ Older(sm.last_probe, Reprobe) \in Age(Reprobe)
      /\ Older(sm.correction, CorrectionWait) \in Age(CorrectionWait)
      /\ Older(sm.transition, SelfGrace) \in Age(SelfGrace)
      /\ Older(past.valid, RecoveryConfirm) \in 0..RecoveryConfirm
      /\ Older(past.seen, Cooldown) \in Age(Cooldown)
      /\ Older(past.wanted, ExportDebounce) \in Age(ExportDebounce)
    BY <1>1, OlderStamp
<1>5. sm' \in Fields
    <2> DEFINE x == [sm EXCEPT !.desired_since = Older(@, ExportDebounce),
                               !.lost_since    = Older(@, LossConfirm)]
               y == [x EXCEPT !.ok_since       = Older(@, RecoveryConfirm),
                              !.last_attempt   = Older(@, RetryCap)]
               z == [y EXCEPT !.last_probe     = Older(@, Reprobe),
                              !.released_at    = Older(@, Cooldown)]
               Rest(a, b) == /\ b.last_probe = a.last_probe
                             /\ b.released_at = a.released_at
                             /\ b.correction = a.correction
                             /\ b.transition = a.transition
    <2>1. /\ x \in Fields /\ Rest(sm, x)
          /\ x.ok_since = sm.ok_since /\ x.last_attempt = sm.last_attempt
        BY <1>1, <1>4 DEF Fields
    <2>2. y \in Fields /\ Rest(x, y)
        <3> HIDE DEF x
        <3> QED BY <1>1, <1>4, <2>1 DEF Fields
    <2>3. z \in Fields /\ z.correction = y.correction /\ z.transition = y.transition
        <3> HIDE DEF y
        <3>1. y.last_probe = sm.last_probe /\ y.released_at = sm.released_at
            BY <2>1, <2>2
        <3> QED BY <1>1, <1>4, <2>2, <3>1 DEF Fields
    <2>4. sm' = [z EXCEPT !.correction = Older(@, CorrectionWait),
                          !.transition = Older(@, SelfGrace)]
        BY DEF Tick, Ages
    <2> HIDE DEF x, y, z
    <2>5. z.correction = sm.correction /\ z.transition = sm.transition
        BY <2>1, <2>2, <2>3
    <2> QED BY <1>1, <1>4, <2>3, <2>4, <2>5 DEF Fields
<1>6. Types'
    BY <1>2, <1>4, <1>5 DEF Types
<1>7. Outage(sm)'
    <2>1. /\ sm'.lost_since = Unset <=> sm.lost_since = Unset
          /\ sm'.ok_since = Unset <=> sm.ok_since = Unset
          /\ sm'.desired_since = Unset <=> sm.desired_since = Unset
        BY <1>1, <1>3, OlderStamp
    <2> QED BY <1>1, <1>3, <2>1 DEF Outage
<1>8. RecoveryStamped(sm, past.valid)'
    <2>1. sm.ok_since # Unset => sm.ok_since <= past.valid
        BY DEF IInv, RecoveryStamped
    <2>2. sm'.ok_since # Unset => sm.ok_since # Unset
        BY <1>1, <1>3, OlderStamp
    <2>3. sm.ok_since <= past.valid => sm'.ok_since <= past'.valid
        BY <1>1, <1>2, <1>3, OlderStamp
    <2> QED BY <2>1, <2>2, <2>3 DEF RecoveryStamped
<1>9. CooldownStamped(sm, past.seen)'
    <2>1. Runs(past'.seen, Cooldown) => Runs(past.seen, Cooldown)
        BY <1>1, <1>2, OlderStamp
    <2>2. sm.released_at # Unset => sm'.released_at # Unset
        BY <1>1, <1>3, OlderStamp
    <2>3. sm.released_at <= past.seen => sm'.released_at <= past'.seen
        BY <1>1, <1>2, <1>3, OlderStamp
    <2> QED BY <1>3, <2>1, <2>2, <2>3 DEF IInv, CooldownStamped
<1>10. DebounceStamped(sm, past.wanted)'
    <2>1. /\ sm'.desired_since # Unset => sm.desired_since # Unset
          /\ past.wanted # Unset => past'.wanted # Unset
        BY <1>1, <1>2, <1>3, OlderStamp
    <2>2. sm.desired_since <= past.wanted => sm'.desired_since <= past'.wanted
        BY <1>1, <1>2, <1>3, OlderStamp
    <2> QED BY <2>1, <2>2 DEF IInv, DebounceStamped
<1>11. UnaskedWritesAreSafe' /\ StepServes
    BY <1>2 DEF UnaskedWritesAreSafe, StepServes, DecisionsNeedSteadyInputs,
                CooldownKept, ExportDebounced, NoWrite, Unasked
<1> QED BY <1>6, <1>7, <1>8, <1>9, <1>10, <1>11 DEF IInv

LEMMA NextStep ==
    ASSUME IInv, UnaskedWritesAreSafe, [Next]_vars
    PROVE  IInv' /\ UnaskedWritesAreSafe' /\ [StepServes]_vars
<1>1. ASSUME NEW r \in Readings, Evaluate(r)
      PROVE  IInv' /\ UnaskedWritesAreSafe' /\ [StepServes]_vars
    BY <1>1, EvaluateStep
<1>2. CASE Tick
    BY <1>2, TickStep
<1>3. CASE Drift
    <2>1. last' = NoWrite /\ sm' = sm /\ past' = past
        BY <1>3 DEF Drift
    <2>2. IInv'
        BY <2>1 DEF IInv, Types, Outage, RecoveryStamped, CooldownStamped, DebounceStamped
    <2> QED BY <2>1, <2>2
            DEF UnaskedWritesAreSafe, StepServes, DecisionsNeedSteadyInputs,
                CooldownKept, ExportDebounced, NoWrite, Unasked
<1>4. CASE CommandManually
    <2>1. PICK m \in Modes : sm' = [sm EXCEPT !.commanded = m, !.desired_since = Unset]
        BY <1>4 DEF CommandManually, Commands
    <2>2. last' = NoWrite /\ past' = [past EXCEPT !.wanted = Unset]
        BY <1>4 DEF CommandManually
    <2>3. sm \in Fields
        BY DEF IInv, Types
    <2>4. /\ sm' \in Fields /\ SameOutage(sm, sm') /\ sm'.desired_since = Unset
          /\ sm'.detected = sm.detected /\ sm'.released_at = sm.released_at
        BY <2>1, <2>3, Waits, Stamps DEF Fields, SameOutage
    <2>5. Types' /\ past'.valid = past.valid /\ past'.seen = past.seen
        BY <2>2, <2>4, Waits, Stamps DEF IInv, Types
    <2>6. IInv'
        BY <2>4, <2>5 DEF IInv, Outage, SameOutage, RecoveryStamped, CooldownStamped,
                          DebounceStamped
    <2> QED BY <2>2, <2>6
            DEF UnaskedWritesAreSafe, StepServes, DecisionsNeedSteadyInputs,
                CooldownKept, ExportDebounced, NoWrite, Unasked
<1>5. CASE UNCHANGED vars
    BY <1>5 DEF vars, IInv, Types, Outage, RecoveryStamped, CooldownStamped,
                DebounceStamped, UnaskedWritesAreSafe
<1> QED BY <1>1, <1>2, <1>3, <1>4, <1>5 DEF Next

LEMMA InitStands == Init => IInv /\ UnaskedWritesAreSafe
<1> SUFFICES ASSUME Init PROVE IInv /\ UnaskedWritesAreSafe
    OBVIOUS
<1> USE Waits, Stamps
<1>1. sm \in Fields
    <2>1. "self_consumption" \in Modes \cup {"manual"} /\ 0 \in 0..MaxFailures
        BY DEF Modes
    <2> QED BY <2>1 DEF Init, Fields
<1>2. Types
    BY <1>1 DEF Init, Types
<1>3. /\ Outage(sm) /\ RecoveryStamped(sm, past.valid)
      /\ CooldownStamped(sm, past.seen) /\ DebounceStamped(sm, past.wanted)
    BY DEF Init, Outage, RecoveryStamped, CooldownStamped, DebounceStamped, Runs
<1>4. UnaskedWritesAreSafe
    BY DEF Init, UnaskedWritesAreSafe, NoWrite, Unasked
<1> QED BY <1>2, <1>3, <1>4 DEF IInv

(* The fields of the state machine and the history stay in their types:    *)
(* no stamp or counter of the gate, the override or the debounce leaves    *)
(* the range its waits give it.                                            *)
THEOREM TypeCorrect == Spec => []Types
<1>1. Init => IInv /\ UnaskedWritesAreSafe
    BY InitStands
<1>2. (IInv /\ UnaskedWritesAreSafe) /\ [Next]_vars => (IInv /\ UnaskedWritesAreSafe)'
    BY NextStep
<1>3. IInv => Types
    BY DEF IInv
<1> QED BY <1>1, <1>2, <1>3, PTL DEF Spec

(* Whatever mode was commanded and however outages, events, refusals and   *)
(* manual picks follow each other, what the gate, a re-probe or a health   *)
(* check writes is SELF_CONSUMPTION in an outage and never against an      *)
(* event that the evaluation sees.                                         *)
THEOREM UnaskedWritesAreSafeCorrect == Spec => []UnaskedWritesAreSafe
<1>1. Init => IInv /\ UnaskedWritesAreSafe
    BY InitStands
<1>2. (IInv /\ UnaskedWritesAreSafe) /\ [Next]_vars => (IInv /\ UnaskedWritesAreSafe)'
    BY NextStep
<1> QED BY <1>1, <1>2, PTL DEF Spec

(* For any lengths of the waits the recovery window, the release cooldown  *)
(* and the debounce of an export run their whole length.                   *)
THEOREM WaitsAreServedCorrect == Spec => WaitsAreServed
<1>1. Init => IInv /\ UnaskedWritesAreSafe
    BY InitStands
<1>2. (IInv /\ UnaskedWritesAreSafe) /\ [Next]_vars => (IInv /\ UnaskedWritesAreSafe)'
    BY NextStep
<1>3. (IInv /\ UnaskedWritesAreSafe) /\ [Next]_vars
        => [DecisionsNeedSteadyInputs /\ CooldownKept /\ ExportDebounced]_vars
    BY NextStep DEF StepServes
<1> QED BY <1>1, <1>2, <1>3, PTL DEF Spec, WaitsAreServed

=============================================================================
