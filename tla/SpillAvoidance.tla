--------------------------- MODULE SpillAvoidance ---------------------------
(***************************************************************************)
(* Negative feed-in avoidance (engine/negative_fit.py): whether a run of   *)
(* slots that pay nothing or charge for exports is worth making room for,  *)
(* and how far the battery may be sold down before it.                     *)
(*                                                                         *)
(* A spill context is a record: end, the last slot of the risk window      *)
(* (None without one), and floors, the recoverability floor per slot.      *)
(***************************************************************************)
EXTENDS PlanGates

CONSTANTS
    MinSpill      \* NEGATIVE_FIT_MIN_SPILL_COST, energy unit times price unit

NoSpill(slots) == [end |-> None, floors |-> [i \in DOMAIN slots |-> MaxSoc]]

\* First deadline slot, or the last slot.
RecoveryDeadline(slots) ==
    LET I == {i \in DOMAIN slots : slots[i].deadline}
    IN  IF I = {} THEN Len(slots) ELSE Min(I)

\* First through last bad-price slot up to the recovery deadline.
RiskWindow(slots) ==
    LET bad == {i \in 1 .. RecoveryDeadline(slots) : slots[i].sell <= 0}
    IN  IF bad = {} THEN <<None, None>> ELSE <<Min(bad), Max(bad)>>

IdleAfter(slot, c, soc) ==
    IF Net(slot) <= 0 THEN Greater(c.floor, soc + (100 * Net(slot) * StorePer) \div ChargeEff)
    ELSE Lesser(MaxSoc, soc + Net(slot) * StorePer)

\* Charge along the do-nothing trajectory before slot i: surplus stored,
\* deficits taken one for one, between the floor and the ceiling.
IdleSoc(slots, c, soc, i) ==
    LET before[j \in 1 .. i] ==
            IF j = 1 THEN Greater(c.floor, Lesser(MaxSoc, soc))
            ELSE IdleAfter(slots[j - 1], c, before[j - 1])
    IN  before[i]

\* What the surplus the battery has no room for costs over the window.
SpillCost(slots, c, soc, r) ==
    SumFunction([i \in {i \in r[1] .. r[2] : slots[i].sell <= 0 /\ Net(slots[i]) > 0} |->
                    Positive(Net(slots[i])
                             - (MaxSoc - IdleSoc(slots, c, soc, i)) \div StorePer)
                      * (-slots[i].sell)])

\* The same with the battery left out of it.
SpillExposure(slots, r) ==
    SumFunction([i \in {i \in r[1] .. r[2] : slots[i].sell <= 0 /\ Net(slots[i]) > 0} |->
                    Net(slots[i]) * (-slots[i].sell)])

\* Room the window needs, in charge units (80% of its surplus).
RequiredRoom(slots, c, r) ==
    Lesser(MaxSoc - c.floor,
           (4 * StorePer * SumFunction([i \in r[1] .. r[2] |-> Positive(Net(slots[i]))])) \div 5)

\* Room the do-nothing trajectory leaves at the start of the window.  Unlike
\* SpillCost's, this projection clamps only at its end.
ExistingRoom(slots, c, soc, r) ==
    LET moved == SumFunction([i \in 1 .. r[1] - 1 |->
                    IF Net(slots[i]) > 0 THEN Net(slots[i]) * StorePer
                    ELSE (100 * Net(slots[i]) * StorePer) \div ChargeEff])
    IN  MaxSoc - Greater(c.floor, Lesser(MaxSoc, soc + moved))

\* The charge from which discounted solar still reaches the target in time.
RecoverabilityFloor(slots, c, i) ==
    LET factor == Lesser(80, c.acc)
        solar  == SumFunction([j \in i + 1 .. RecoveryDeadline(slots) |->
                                 Positive(Net(slots[j]))])
    IN  Lesser(c.target, Greater(c.floor, c.target - (solar * StorePer * factor) \div 100))

\* Material: the window would cost the threshold, or it is already open and
\* the forecast still carries half of it.
Material(slots, c, soc, r, open) ==
    \/ SpillCost(slots, c, soc, r) >= MinSpill
    \/ open /\ 2 * SpillExposure(slots, r) >= MinSpill

\* assess_negative_fit_avoidance; open says the last plan had the window open.
SpillContext(slots, c, soc, open) ==
    LET r == RiskWindow(slots)
    IN  IF /\ r[1] # None
           /\ \E i \in 1 .. r[2] : slots[i].sell > 0 /\ slots[i].exportable
           /\ RequiredRoom(slots, c, r) > 0
           /\ ExistingRoom(slots, c, soc, r) < RequiredRoom(slots, c, r)
           /\ Material(slots, c, soc, r, open)
        THEN [end |-> r[2],
              floors |-> [i \in DOMAIN slots |-> RecoverabilityFloor(slots, c, i)]]
        ELSE NoSpill(slots)
=============================================================================
