--------------------------- MODULE PlannerProofs ---------------------------
(***************************************************************************)
(* Proofs about the planner and its closed loop: every plan, the one after *)
(* a spike was funded and the one with a tail of its own included, keeps   *)
(* the reserve, and the penalty for entering the demand window never       *)
(* attracts it to a degraded floor.  And about the placement of a load by  *)
(* what its plans cost: it is where it was asked for, and in its plan.     *)
(*                                                                         *)
(* The argument goes from the battery to the loop.  A step of the battery  *)
(* keeps the reserve on any slot and for any action (StepKeepsReserve);    *)
(* the forward pass therefore does, whatever the table tells it to do      *)
(* (ReconstructKeeps); a solve changes no discharge floor, and writes on   *)
(* the slots only flags and floors (PriceBlockKeepsSlots, PreparedIsSlots, *)
(* SolveKeeps); funding a spike and planning the tail choose among or join *)
(* such plans (GuardedKeeps, TailPlanKeeps).  LoopInv says it of the plan  *)
(* in force.  The planner's recursive functions and sums are reached by    *)
(* induction along an interval (Stays, RecursionExists, SumIsInt), and so  *)
(* are the placement's sum and its loop (PlanCovers, CheapestIsFirst).     *)
(***************************************************************************)
EXTENDS Execution, LoadPlacement, FiniteSetTheorems, SequenceTheorems,
        WellFoundedInduction, TLAPS

-----------------------------------------------------------------------------
(* Intervals, recursion and sums                                             *)

\* Every set of naturals with an element has a least one.
LEMMA LeastOf ==
  ASSUME NEW S \in SUBSET Nat, S # {}
  PROVE  \E m \in S : \A k \in S : m <= k
<1> DEFINE below == {p \in Nat \X Nat : p[1] < p[2]}
<1>1. IsWellFoundedOn(below, Nat)
  BY NatLessThanWellFounded, Zenon DEF OpToRel
<1> HIDE DEF below
<1>2. PICK m \in S : \A k \in S : ~(<<k, m>> \in below)
  BY <1>1, WFMin
<1>3. \A k \in S : ~(k < m)
  BY <1>2 DEF below
<1> QED
  BY <1>2, <1>3

\* The minimum of such a set is one of its elements.
LEMMA LeastIsElement ==
  ASSUME NEW S \in SUBSET Nat, S # {}
  PROVE  Min(S) \in S
<1>1. \E m \in S : \A k \in S : m <= k
  BY LeastOf
<1> QED
  BY <1>1 DEF Min

\* What holds at the first of an interval and goes from each of its numbers to
\* the next holds on all of it.
LEMMA Stays ==
  ASSUME NEW b \in Nat, NEW n \in Nat, NEW f, NEW V,
         f[b] \in V, \A i \in b + 1 .. n : f[i - 1] \in V => f[i] \in V
  PROVE  \A i \in b .. n : f[i] \in V
<1> SUFFICES ASSUME NEW j \in b .. n, f[j] \notin V PROVE FALSE
  OBVIOUS
<1> DEFINE out == {i \in b .. n : f[i] \notin V}
<1>1. PICK m \in out : \A k \in out : m <= k
  <2>1. out \in SUBSET Nat /\ out # {}
    OBVIOUS
  <2> QED
    BY <2>1, LeastOf
<1>2. m \in b .. n /\ f[m] \notin V /\ m # b
  OBVIOUS
<1>3. m - 1 \in b .. n /\ m - 1 \notin out
  BY <1>1, <1>2
<1> QED
  BY <1>2, <1>3

\* the values of a recursion over an interval
Follows(f, V, b, n, first, step) ==
  /\ f \in [b .. n -> V]
  /\ \A i \in b .. n : f[i] = IF i = b THEN first ELSE step[i][f[i - 1]]

\* A recursive function over an interval exists.
LEMMA RecursionExists ==
  ASSUME NEW V, NEW b \in Nat, NEW n \in Nat, b <= n, NEW first \in V,
         NEW step \in [b + 1 .. n -> [V -> V]]
  PROVE  \E f : Follows(f, V, b, n, first, step)
<1> DEFINE reached == {k \in b .. n :
             \E f \in [b .. k -> V] :
               \A i \in b .. k : f[i] = IF i = b THEN first ELSE step[i][f[i - 1]]}
           id == [k \in b .. n |-> k]
<1>1. b \in reached
  <2> DEFINE f == [i \in b .. b |-> first]
  <2>1. f \in [b .. b -> V] /\ \A i \in b .. b : f[i] = first /\ i = b
    OBVIOUS
  <2> HIDE DEF f
  <2> QED
    BY <2>1
<1>2. ASSUME NEW k \in b + 1 .. n, k - 1 \in reached
      PROVE  k \in reached
  <2>2. PICK f \in [b .. (k - 1) -> V] :
           \A i \in b .. (k - 1) : f[i] = IF i = b THEN first ELSE step[i][f[i - 1]]
    BY <1>2
  <2> DEFINE last == step[k][f[k - 1]]
             g == [i \in b .. k |-> IF i = k THEN last ELSE f[i]]
  <2>4. f[k - 1] \in V
    BY <2>2
  <2>5. step[k] \in [V -> V]
    BY <2>4
  <2>6. last \in V
    BY <2>4, <2>5
  <2>7. g \in [b .. k -> V]
    <3> HIDE DEF last
    <3> QED
      BY <2>2, <2>6
  <2>8. ASSUME NEW i \in b .. k PROVE g[i] = IF i = b THEN first ELSE step[i][g[i - 1]]
    <3>1. CASE i = k
      <4>1. g[i] = last /\ i # b /\ i - 1 \in b .. k /\ i - 1 # k
        BY <3>1
      <4>2. g[i - 1] = f[i - 1]
        BY <4>1
      <4> QED
        BY <3>1, <4>1, <4>2
    <3>2. CASE i # k
      <4>1. i \in b .. (k - 1) /\ (i # b => i - 1 \in b .. k /\ i - 1 # k)
        BY <3>2
      <4>2. g[i] = f[i] /\ (i # b => g[i - 1] = f[i - 1])
        BY <3>2, <4>1
      <4> QED
        BY <2>2, <4>1, <4>2
    <3> QED
      BY <3>1, <3>2
  <2> HIDE DEF g
  <2> QED
    BY <2>7, <2>8
<1>3. n \in reached
  <2> HIDE DEF reached
  <2>1. id[b] \in reached /\ \A i \in b + 1 .. n : id[i - 1] \in reached => id[i] \in reached
    BY <1>1, <1>2
  <2> HIDE DEF id
  <2>2. \A k \in b .. n : id[k] \in reached
    BY <2>1, Stays
  <2> QED
    BY <2>2 DEF id
<1>4. PICK f \in [b .. n -> V] :
         \A i \in b .. n : f[i] = IF i = b THEN first ELSE step[i][f[i - 1]]
  BY <1>3
<1> QED
  BY <1>4 DEF Follows

\* The same for a set of numbers.
LEMMA Climbs ==
  ASSUME NEW n \in Nat, NEW T, 0 \in T, \A i \in 0 + 1 .. n : i - 1 \in T => i \in T
  PROVE  \A i \in 0 .. n : i \in T
<1> DEFINE id == [i \in 0 .. n |-> i]
<1>1. id[0] \in T /\ \A i \in 0 + 1 .. n : id[i - 1] \in T => id[i] \in T
  OBVIOUS
<1> HIDE DEF id
<1>2. \A i \in 0 .. n : id[i] \in T
  BY <1>1, Stays
<1> QED
  BY <1>2 DEF id

\* A finite set less one of its elements is smaller by one.
LEMMA OneLess ==
  ASSUME NEW S, IsFiniteSet(S), NEW s \in SUBSET S, s # {}, NEW x \in s
  PROVE  /\ Cardinality(s) \in 0 + 1 .. Cardinality(S)
         /\ s \ {x} \in SUBSET S
         /\ Cardinality(s \ {x}) = Cardinality(s) - 1
<1>1. IsFiniteSet(s) /\ Cardinality(s) <= Cardinality(S)
  BY FS_Subset
<1>2. Cardinality(s) \in Nat /\ Cardinality(s) # 0 /\ Cardinality(S) \in Nat
  BY <1>1, FS_CardinalityType, FS_EmptySet
<1>3. Cardinality(s \ {x}) = Cardinality(s) - 1
  BY <1>1, FS_RemoveElement
<1> QED
  BY <1>1, <1>2, <1>3

\* The sum of integers over a finite set (SumFunction) is an integer.
LEMMA SumIsInt ==
  ASSUME NEW S, IsFiniteSet(S), NEW g \in [S -> Int]
  PROVE  SumFunction(g) \in Int
<1> DEFINE n == Cardinality(S)
           one == [s \in SUBSET S |-> CHOOSE x \in s : TRUE]
           V == [SUBSET S -> Int]
           sums == [s \in SUBSET S |-> 0]
           step == [k \in 0 + 1 .. n |-> [h \in V |-> [s \in SUBSET S |->
                        IF s = {} THEN 0 ELSE g[one[s]] + h[s \ {one[s]}]]]]
           iter[s \in SUBSET S] ==
             IF s = {} THEN 0
             ELSE g[CHOOSE x \in s : TRUE] + iter[s \ {CHOOSE x \in s : TRUE}]
<1>1. n \in Nat /\ 0 \in Nat /\ 0 <= n
  BY FS_CardinalityType
<1> HIDE DEF n
<1>2. ASSUME NEW s \in SUBSET S, s # {}
      PROVE  /\ one[s] \in S /\ g[one[s]] \in Int
             /\ Cardinality(s) \in 0 + 1 .. n
             /\ s \ {one[s]} \in SUBSET S
             /\ Cardinality(s \ {one[s]}) = Cardinality(s) - 1
  <2>1. one[s] \in s
    BY <1>2
  <2> HIDE DEF one
  <2> QED
    BY <1>2, <2>1, OneLess DEF n
<1> HIDE DEF one
<1>4. step \in [0 + 1 .. n -> [V -> V]] /\ sums \in V
  <2>1. ASSUME NEW h \in V
        PROVE  [s \in SUBSET S |-> IF s = {} THEN 0 ELSE g[one[s]] + h[s \ {one[s]}]] \in V
    <3>1. ASSUME NEW s \in SUBSET S, s # {} PROVE g[one[s]] + h[s \ {one[s]}] \in Int
      <4>1. g[one[s]] \in Int /\ s \ {one[s]} \in SUBSET S
        BY <1>2, <3>1
      <4>2. h[s \ {one[s]}] \in Int
        BY <4>1
      <4> QED
        BY <4>1, <4>2
    <3>2. \A s \in SUBSET S : (IF s = {} THEN 0 ELSE g[one[s]] + h[s \ {one[s]}]) \in Int
      BY <3>1
    <3> QED
      BY <3>2, Zenon
  <2>2. sums \in V
    OBVIOUS
  <2> HIDE DEF V
  <2> QED
    BY <2>1, <2>2, Zenon
<1>5. PICK H : Follows(H, V, 0, n, sums, step)
  <2> HIDE DEF V, step, sums
  <2> QED
    BY <1>1, <1>4, RecursionExists
<1> DEFINE total == [s \in SUBSET S |-> H[Cardinality(s)][s]]
<1>6. total[{}] = 0
  <2>1. 0 \in 0 .. n
    BY <1>1
  <2>2. H[0] = sums
    BY <1>5, <2>1 DEF Follows
  <2> QED
    BY <2>2, FS_EmptySet
<1>7. ASSUME NEW s \in SUBSET S, s # {}
      PROVE  total[s] = g[one[s]] + total[s \ {one[s]}]
  <2>1. PICK k \in 0 + 1 .. n : k = Cardinality(s)
    BY <1>2, <1>7
  <2>2. k \in 0 .. n /\ k # 0 /\ k - 1 \in 0 .. n
    BY <1>1, <2>1
  <2>3. H[k] = step[k][H[k - 1]] /\ H[k - 1] \in V
    <3> HIDE DEF step, V
    <3> QED
      BY <1>5, <2>2 DEF Follows
  <2>4. H[k][s] = g[one[s]] + H[k - 1][s \ {one[s]}]
    BY <1>7, <2>1, <2>3
  <2>5. Cardinality(s \ {one[s]}) = k - 1 /\ s \ {one[s]} \in SUBSET S
    BY <1>2, <1>7, <2>1
  <2> QED
    BY <2>1, <2>4, <2>5
<1>8. ASSUME NEW s \in SUBSET S PROVE one[s] = CHOOSE x \in s : TRUE
  BY DEF one
<1>9. total = [s \in SUBSET S |->
                IF s = {} THEN 0
                ELSE g[CHOOSE x \in s : TRUE] + total[s \ {CHOOSE x \in s : TRUE}]]
  <2>1. ASSUME NEW s \in SUBSET S
        PROVE  total[s] = IF s = {} THEN 0
                 ELSE g[CHOOSE x \in s : TRUE] + total[s \ {CHOOSE x \in s : TRUE}]
    <3> HIDE DEF total
    <3> QED
      BY <1>6, <1>7, <1>8
  <2> QED
    BY <2>1
<1>10. iter = [s \in SUBSET S |->
                IF s = {} THEN 0
                ELSE g[CHOOSE x \in s : TRUE] + iter[s \ {CHOOSE x \in s : TRUE}]]
  <2> HIDE DEF total
  <2> QED
    BY <1>9
<1> HIDE DEF iter
<1>11. ASSUME NEW s \in SUBSET S
       PROVE  iter[s] = IF s = {} THEN 0 ELSE g[one[s]] + iter[s \ {one[s]}]
  BY <1>8, <1>10
<1> DEFINE T == {k \in 0 .. n : \A s \in SUBSET S : Cardinality(s) = k => iter[s] \in Int}
<1>12. \A k \in 0 .. n : k \in T
  <2>1. 0 \in T
    <3>1. ASSUME NEW s \in SUBSET S, Cardinality(s) = 0 PROVE iter[s] \in Int
      <4>1. s = {}
        BY <3>1, FS_Subset, FS_EmptySet
      <4> QED
        BY <1>11, <4>1
    <3> QED
      BY <1>1, <3>1
  <2>2. ASSUME NEW k \in 0 + 1 .. n, k - 1 \in T PROVE k \in T
    <3>1. ASSUME NEW s \in SUBSET S, Cardinality(s) = k PROVE iter[s] \in Int
      <4> HIDE DEF T
      <4>1. s # {}
        BY <1>1, <3>1, FS_EmptySet
      <4>2. /\ g[one[s]] \in Int /\ s \ {one[s]} \in SUBSET S
            /\ Cardinality(s \ {one[s]}) = k - 1
        BY <1>2, <3>1, <4>1
      <4>3. iter[s \ {one[s]}] \in Int
        BY <2>2, <4>2 DEF T
      <4> QED
        BY <1>11, <4>1, <4>2, <4>3
    <3> QED
      BY <1>1, <3>1
  <2> HIDE DEF T
  <2> QED
    BY <1>1, <2>1, <2>2, Climbs
<1>13. iter[S] \in Int
  <2>1. n \in 0 .. n /\ S \in SUBSET S
    BY <1>1
  <2> QED
    BY <1>12, <2>1 DEF n
<1>14. DOMAIN g = S
  OBVIOUS
<1> QED
  BY <1>13, <1>14
     DEF SumFunction, SumFunctionOnSet, FoldFunctionOnSet, MapThenFoldSet, iter

-----------------------------------------------------------------------------
(* The battery                                                               *)

\* The charges the battery can have, below the configured minimum too.
Socs == 0 .. MaxSoc

\* The product of two naturals is a natural.
LEMMA Product ==
  ASSUME NEW a \in Nat, NEW k \in Nat
  PROVE  a * k \in Nat
OBVIOUS

\* A product of naturals does not fall when a factor rises.
LEMMA ProductRises ==
  ASSUME NEW a \in Nat, NEW z \in Nat, a <= z, NEW k \in Nat
  PROVE  a * k <= z * k
OBVIOUS

\* A sub-step of the taper charges.
LEMMA TaperedStepCharges ==
  ASSUME NEW s \in Int, s <= MaxSoc, NEW part \in Nat
  PROVE  TaperedStep(s, part) \in s .. MaxSoc
<1>1. MaxSoc \in Nat /\ TaperStart \in Nat /\ TaperStart <= MaxSoc /\ TaperMin \in 0 .. 100
  BY BatteryAssumption
<1>2. TaperFactor(s) \in Nat
  <2>1. CASE s <= TaperStart
    BY <2>1 DEF TaperFactor
  <2>2. CASE ~(s <= TaperStart)
    <3> DEFINE a == s - TaperStart
               z == Greater(1, MaxSoc - TaperStart)
               k == 100 - TaperMin
    <3>1. a \in Nat /\ z \in Nat \ {0} /\ a <= z /\ k \in 0 .. 100
      BY <1>1, <2>2 DEF Greater
    <3>2. TaperFactor(s) = 100 - (a * k) \div z
      BY <2>2 DEF TaperFactor
    <3> HIDE DEF a, z, k
    <3>3. a * k \in Nat /\ z * k \in Nat /\ a * k <= z * k
      BY <3>1, Product, ProductRises
    <3>4. PICK q \in Int : q = (a * k) \div z /\ q * z <= a * k
      BY <3>1, <3>3
    <3>5. q <= k
      <4> SUFFICES ASSUME q >= k + 1 PROVE FALSE
        BY <3>1
      <4>1. (k + 1) * z <= q * z
        BY <3>1, ProductRises
      <4>2. (k + 1) * z = z * k + z
        BY <3>1
      <4> QED
        BY <3>1, <3>3, <3>4, <4>1, <4>2
    <3> QED
      BY <3>1, <3>2, <3>4, <3>5
  <2> QED
    BY <2>1, <2>2
<1>3. (part * TaperFactor(s)) \div 100 \in Nat
  <2>1. part * TaperFactor(s) \in Nat
    BY <1>2, Product
  <2> QED
    BY <2>1
<1> QED
  BY <1>1, <1>3 DEF TaperedStep, Lesser

\* All sub-steps of the taper together charge as well
\* (engine/transitions.py: _tapered_stored_kwh).
LEMMA TaperedFromCharges ==
  ASSUME NEW s \in Int, s <= MaxSoc, NEW part \in Nat
  PROVE  TaperedFrom(s, part) \in Nat
<1> DEFINE V == s .. MaxSoc
           step == [n \in 0 + 1 .. TaperSteps |-> [v \in V |-> TaperedStep(v, part)]]
           reached[n \in 0 .. TaperSteps] ==
             IF n = 0 THEN s ELSE TaperedStep(reached[n - 1], part)
<1>1. TaperSteps \in Nat /\ 0 <= TaperSteps /\ MaxSoc \in Int /\ s \in V
  BY BatteryAssumption
<1>2. \A v \in V : TaperedStep(v, part) \in V
  <2> TAKE v \in V
  <2>1. TaperedStep(v, part) \in v .. MaxSoc
    BY <1>1, TaperedStepCharges
  <2> QED
    BY <1>1, <2>1
<1>3. step \in [0 + 1 .. TaperSteps -> [V -> V]]
  BY <1>2
<1>4. PICK f : Follows(f, V, 0, TaperSteps, s, step)
  <2>1. 0 \in Nat
    OBVIOUS
  <2> HIDE DEF V, step
  <2> QED
    BY <1>1, <1>3, <2>1, RecursionExists
<1>5. f = [n \in 0 .. TaperSteps |-> IF n = 0 THEN s ELSE TaperedStep(f[n - 1], part)]
  <2>1. ASSUME NEW n \in 0 .. TaperSteps, n # 0
        PROVE  f[n] = TaperedStep(f[n - 1], part)
    <3>1. n \in 0 + 1 .. TaperSteps /\ n - 1 \in 0 .. TaperSteps
      BY <1>1, <2>1
    <3> QED
      BY <1>4, <2>1, <3>1 DEF Follows
  <2> HIDE DEF step
  <2> QED
    BY <1>1, <1>4, <2>1 DEF Follows
<1>6. reached = [n \in 0 .. TaperSteps |-> IF n = 0 THEN s ELSE TaperedStep(reached[n - 1], part)]
  <2> HIDE DEF step, V
  <2> QED
    BY <1>5
<1> HIDE DEF reached
<1>7. \A n \in 0 .. TaperSteps : reached[n] \in V
  <2>1. reached[0] \in V
    BY <1>1, <1>6
  <2>2. \A n \in 0 + 1 .. TaperSteps : reached[n - 1] \in V => reached[n] \in V
    BY <1>1, <1>2, <1>6
  <2> HIDE DEF V
  <2> QED
    BY <1>1, <2>1, <2>2, Stays
<1>8. reached[TaperSteps] - s \in Nat
  BY <1>1, <1>7
<1> QED
  BY <1>8 DEF TaperedFrom, reached

\* What a step of the battery may do to its charge: below the floor it sinks
\* no further, and no sale goes below the floor of the slot.
Keeps(next, s, a, slot, floor) ==
  /\ next \in Int
  /\ next >= Lesser(s, floor)
  /\ a = "export" /\ next < s => next >= slot.exportFloor

\* Types of what the transitions read of a slot and of the battery.
LEMMA NetIsInt ==
  ASSUME NEW slot \in SlotRecords
  PROVE  /\ Net(slot) \in Int /\ slot.len \in Nat /\ slot.exportFloor \in Int
         /\ DischargeRate * slot.len \in Nat /\ SolarRate * slot.len \in Nat
         /\ DischargeRate * slot.len * TakePer \in Nat
         /\ MinSoc \in Nat /\ MaxSoc \in Nat /\ MinSoc < MaxSoc
         /\ StorePer \in Nat /\ TakePer \in Nat
<1>1. /\ MinSoc \in Nat /\ MaxSoc \in Nat /\ MinSoc < MaxSoc /\ StorePer \in Nat
      /\ TakePer \in Nat /\ SolarRate \in Nat /\ DischargeRate \in Nat
  BY BatteryAssumption
<1>2. /\ slot.len \in Nat /\ slot.solar \in Nat /\ slot.load \in Nat
      /\ slot.exportFloor \in Int
  BY DEF SlotRecords
<1>3. DischargeRate * slot.len \in Nat /\ SolarRate * slot.len \in Nat
  BY <1>1, <1>2, Product
<1>4. DischargeRate * slot.len * TakePer \in Nat
  BY <1>1, <1>3, Product
<1> QED
  BY <1>1, <1>2, <1>3, <1>4 DEF Net

\* A hold with surplus solar fills the battery up to its ceiling.
LEMMA HoldSurplusKeeps ==
  ASSUME NEW s \in Socs, NEW slot \in SlotRecords, NEW floor \in Int, Net(slot) >= 0
  PROVE  HoldSurplus(s, slot).soc \in s .. MaxSoc
<1> DEFINE put == Lesser(Net(slot), SolarRate * slot.len)
           stored == Lesser(put * StorePer, Positive(MaxSoc - s))
<1>1. put \in Nat /\ StorePer \in Nat /\ MaxSoc \in Nat /\ s \in Int /\ s <= MaxSoc
  BY NetIsInt DEF Lesser, Socs
<1>2. put * StorePer \in Nat
  BY <1>1, Product
<1>3. stored \in 0 .. MaxSoc - s
  <2> DEFINE e == put * StorePer
  <2>1. e \in Nat
    BY <1>2
  <2> HIDE DEF e, put
  <2>2. stored = Lesser(e, Positive(MaxSoc - s))
    BY DEF e
  <2> QED
    BY <1>1, <2>1, <2>2 DEF Lesser, Positive, Greater
<1>4. HoldSurplus(s, slot).soc = s + stored
  BY DEF HoldSurplus, Moved
<1> HIDE DEF stored
<1> QED
  BY <1>1, <1>3, <1>4

\* A hold with a deficit takes no charge from below the floor.
LEMMA HoldDeficitKeeps ==
  ASSUME NEW s \in Socs, NEW slot \in SlotRecords, NEW floor \in Int, Net(slot) < 0
  PROVE  /\ HoldDeficit(s, slot, floor).soc \in Int
         /\ HoldDeficit(s, slot, floor).soc >= Lesser(s, floor)
<1> DEFINE out == Lesser(-Net(slot), DischargeRate * slot.len)
           taken == Lesser(out * TakePer, Positive(s - floor))
<1>1. out \in Nat /\ TakePer \in Nat /\ s \in Int
  BY NetIsInt DEF Lesser, Socs
<1>2. out * TakePer \in Nat
  BY <1>1, Product
<1>3. taken \in Nat /\ taken <= Positive(s - floor)
  <2> DEFINE e == out * TakePer
  <2>1. e \in Nat
    BY <1>2
  <2> HIDE DEF e, out
  <2>2. taken = Lesser(e, Positive(s - floor))
    BY DEF e
  <2> QED
    BY <1>1, <2>1, <2>2 DEF Lesser, Positive, Greater
<1>4. HoldDeficit(s, slot, floor).soc = s - taken
  BY DEF HoldDeficit, Moved
<1> HIDE DEF taken
<1> QED
  BY <1>1, <1>3, <1>4 DEF Positive, Greater, Lesser

\* The charge stored in a slot is a natural.
LEMMA TaperedIsNat ==
  ASSUME NEW s \in Socs, NEW rate \in Nat, NEW len \in Nat
  PROVE  Tapered(s, rate, len) \in Nat
<1> DEFINE full == rate * StorePer * len
<1>1. StorePer \in Nat /\ TaperSteps \in Nat \ {0} /\ s \in Int /\ s <= MaxSoc
  BY BatteryAssumption DEF Socs
<1>2. full \in Nat
  BY <1>1, Product
<1> HIDE DEF full
<1>3. full \div TaperSteps \in Nat
  BY <1>1, <1>2
<1>4. TaperedFrom(s, full \div TaperSteps) \in Nat
  BY <1>1, <1>3, TaperedFromCharges
<1>5. Tapered(s, rate, len) = IF s + full <= TaperStart THEN full
                              ELSE TaperedFrom(s, full \div TaperSteps)
  BY DEF Tapered, full
<1> QED
  BY <1>2, <1>4, <1>5

\* A grid charge ends between where it started and the ceiling.
LEMMA ChargeGridKeeps ==
  ASSUME NEW s \in Socs, NEW slot \in SlotRecords, NEW rate \in Nat
  PROVE  ChargeGrid(s, slot, rate).soc \in s .. MaxSoc
<1> DEFINE solar == Positive(Net(slot)) * StorePer
           stored == Tapered(s, rate, slot.len)
           taken == IF Net(slot) > 0 THEN Lesser(stored, Positive(MaxSoc - s - solar))
                    ELSE stored
<1>1. /\ Positive(Net(slot)) \in Nat /\ StorePer \in Nat /\ MaxSoc \in Nat
      /\ s \in Int /\ s <= MaxSoc /\ stored \in Nat
  <2>1. slot.len \in Nat /\ Net(slot) \in Int /\ StorePer \in Nat /\ MaxSoc \in Nat
    BY NetIsInt
  <2>2. stored \in Nat
    BY <2>1, TaperedIsNat
  <2> QED
    BY <2>1, <2>2 DEF Positive, Greater, Socs
<1>2. solar \in Nat
  BY <1>1, Product
<1> HIDE DEF solar, stored
<1>3. taken \in Nat
  BY <1>1, <1>2 DEF Lesser, Positive, Greater
<1>4. ChargeGrid(s, slot, rate).soc = Lesser(MaxSoc, s + solar + taken)
  BY DEF ChargeGrid, Moved, solar, stored
<1> HIDE DEF taken
<1> QED
  BY <1>1, <1>2, <1>3, <1>4 DEF Lesser

\* A sale stops at the discharge floor and at the floor of its slot.
LEMMA ExportKeeps ==
  ASSUME NEW s \in Socs, NEW slot \in SlotRecords, NEW floor \in Int
  PROVE  Keeps(Export(s, slot, floor).soc, s, "export", slot, floor)
<1> DEFINE most == DischargeRate * slot.len * TakePer
           taken == Lesser(most, Positive(s - Greater(floor, slot.exportFloor)))
<1>1. most \in Nat /\ slot.exportFloor \in Int /\ s \in Int
  BY NetIsInt DEF Socs
<1>2. Export(s, slot, floor).soc = s - taken
  BY DEF Export, Moved
<1> HIDE DEF most
<1>3. taken \in Nat /\ taken <= Positive(s - Greater(floor, slot.exportFloor))
  BY <1>1 DEF Lesser, Positive, Greater
<1> HIDE DEF taken
<1> QED
  BY <1>1, <1>2, <1>3 DEF Keeps, Positive, Greater, Lesser

\* The reserve is kept by every step of the battery, on whichever slot and for
\* whichever action, and the charge stays one that the battery can have.
LEMMA StepKeepsReserve ==
  ASSUME NEW s \in Socs, NEW a, NEW slot \in SlotRecords, NEW floor \in Int
  PROVE  /\ Clamped(Transition(s, a, slot, floor)).soc \in Socs
         /\ Keeps(Clamped(Transition(s, a, slot, floor)).soc, s, a, slot, floor)
<1> DEFINE moved == Transition(s, a, slot, floor)
<1>1. /\ s \in Int /\ 0 <= s /\ s <= MaxSoc /\ slot.exportFloor \in Int
      /\ MinSoc \in Nat /\ MaxSoc \in Nat /\ MinSoc < MaxSoc /\ ChargeRate \in Nat /\ BoostRate \in Nat
      /\ Net(slot) \in Int
  BY NetIsInt, BatteryAssumption DEF Socs
<1>2. moved = Moved(moved.soc, moved.drawn, moved.sold) /\ Keeps(moved.soc, s, a, slot, floor)
  <2>1. ASSUME NEW z \in s .. MaxSoc PROVE Keeps(z, s, a, slot, floor)
    BY <1>1, <2>1 DEF Keeps, Lesser
  <2>2. CASE a \in {"hold", "strict"} /\ Net(slot) >= 0
    <3>1. moved = HoldSurplus(s, slot)
      BY <2>2 DEF Transition
    <3>2. HoldSurplus(s, slot).soc \in s .. MaxSoc
      BY <2>2, HoldSurplusKeeps
    <3> QED
      BY <2>1, <3>1, <3>2 DEF HoldSurplus, Moved
  <2>3. CASE a = "hold" /\ ~(Net(slot) >= 0)
    <3>1. moved = HoldDeficit(s, slot, floor)
      BY <2>3 DEF Transition
    <3>2. Keeps(HoldDeficit(s, slot, floor).soc, s, a, slot, floor)
      BY <1>1, <2>3, HoldDeficitKeeps DEF Keeps
    <3> QED
      BY <3>1, <3>2 DEF HoldDeficit, Moved
  <2>4. CASE a = "strict" /\ ~(Net(slot) >= 0)
    <3>1. moved = Moved(s, -Net(slot), 0) /\ s \in s .. MaxSoc
      BY <1>1, <2>4 DEF Transition
    <3> QED
      BY <2>1, <3>1 DEF Moved
  <2>5. CASE a \in {"charge", "boost"}
    <3>1. PICK rate \in Nat : moved = ChargeGrid(s, slot, rate)
      BY <1>1, <2>5 DEF Transition
    <3>2. ChargeGrid(s, slot, rate).soc \in s .. MaxSoc
      BY ChargeGridKeeps
    <3> QED
      BY <2>1, <3>1, <3>2 DEF ChargeGrid, Moved
  <2>6. CASE a = "export"
    <3>1. moved = Export(s, slot, floor)
      BY <2>6 DEF Transition
    <3> QED
      BY <2>6, <3>1, ExportKeeps DEF Export, Moved
  <2>7. CASE a \notin {"hold", "strict", "charge", "boost", "export"}
    <3>1. moved = Moved(s, 0, 0) /\ s \in s .. MaxSoc
      BY <1>1, <2>7 DEF Transition
    <3> QED
      BY <2>1, <3>1 DEF Moved
  <2> QED
    BY <2>2, <2>3, <2>4, <2>5, <2>6, <2>7
<1> HIDE DEF moved
<1>3. Clamped(moved).soc = Greater(MinSoc, Lesser(MaxSoc, moved.soc))
  BY <1>2 DEF Clamped, Moved
<1> QED
  BY <1>1, <1>2, <1>3 DEF Keeps, Greater, Lesser, Socs, moved

-----------------------------------------------------------------------------
(* The slots                                                                 *)

\* The product of two integers is an integer.
LEMMA ProductIsInt ==
  ASSUME NEW a \in Int, NEW k \in Int
  PROVE  a * k \in Int
OBVIOUS

\* An interval is finite.
LEMMA IntervalIsFinite ==
  ASSUME NEW a \in Int, NEW z \in Int
  PROVE  IsFiniteSet(a .. z)
BY FS_Interval

\* A sequence is a function on an interval.
LEMMA IsSequence ==
  ASSUME NEW R, NEW n \in Nat, NEW f \in [1 .. n -> R]
  PROVE  f \in Seq(R) /\ Len(f) = n /\ DOMAIN f = 1 .. n
<1>1. f \in Seq(R)
  BY SeqDef
<1> QED
  BY <1>1, LenProperties

\* A slot whose deadline flags are written is still a slot.
LEMMA FlagsAreOfSlot ==
  ASSUME NEW slot \in SlotRecords, NEW d \in BOOLEAN, NEW e \in BOOLEAN
  PROVE  [slot EXCEPT !.deadline = d, !.entry = e] \in SlotRecords
BY DEF SlotRecords

\* A slot whose export floor and admission are written is still a slot.
LEMMA FloorIsOfSlot ==
  ASSUME NEW slot \in SlotRecords, NEW f \in Int, NEW e \in BOOLEAN
  PROVE  /\ [slot EXCEPT !.exportFloor = f, !.admitted = e] \in SlotRecords
         /\ [slot EXCEPT !.exportFloor = f, !.admitted = e].exportFloor = f
BY DEF SlotRecords

\* Mirroring the charge window onto the deadline flags keeps slots slots.
LEMMA MirroredIsSlots ==
  ASSUME NEW slots \in Seq(SlotRecords)
  PROVE  Mirrored(slots) \in [1 .. Len(slots) -> SlotRecords]
<1> DEFINE entry(i) == slots[i].window /\ (i = 1 \/ ~slots[i - 1].window)
<1>1. ASSUME NEW i \in 1 .. Len(slots)
      PROVE  [slots[i] EXCEPT !.deadline = slots[i].window, !.entry = entry(i)] \in SlotRecords
  <2>1. slots[i] \in SlotRecords /\ entry(i) \in BOOLEAN
    OBVIOUS
  <2>2. slots[i].window \in BOOLEAN
    BY <2>1 DEF SlotRecords
  <2> HIDE DEF entry
  <2> QED
    BY <2>1, <2>2, FlagsAreOfSlot
<1>2. DOMAIN slots = 1 .. Len(slots)
  OBVIOUS
<1> HIDE DEF entry
<1>3. Mirrored(slots) = [i \in 1 .. Len(slots) |->
         [slots[i] EXCEPT !.deadline = slots[i].window, !.entry = entry(i)]]
  BY <1>2 DEF Mirrored, entry
<1> QED
  BY <1>1, <1>3

\* The net load of a run of slots is an integer.
LEMMA NetLoadIsInt ==
  ASSUME NEW n \in Nat, NEW slots \in [1 .. n -> SlotRecords],
         NEW a \in 1 .. n, NEW z \in 1 .. n, NEW acc \in Int
  PROVE  NetLoad(slots, <<a, z>>, acc) \in Int
<1> DEFINE g == [i \in a .. z |-> Positive(100 * slots[i].load - acc * slots[i].solar)]
<1>1. g \in [a .. z -> Int]
  <2>1. ASSUME NEW i \in a .. z
        PROVE  Positive(100 * slots[i].load - acc * slots[i].solar) \in Int
    <3>1. slots[i] \in SlotRecords
      OBVIOUS
    <3>2. slots[i].load \in Int /\ slots[i].solar \in Int
      BY <3>1 DEF SlotRecords
    <3>3. acc * slots[i].solar \in Int
      BY <3>2, ProductIsInt
    <3> QED
      BY <3>2, <3>3 DEF Positive, Greater
  <2> QED
    BY <2>1
<1>2. IsFiniteSet(a .. z)
  BY IntervalIsFinite
<1> HIDE DEF g
<1>3. SumFunction(g) \in Int
  BY <1>1, <1>2, SumIsInt
<1> QED
  BY <1>3 DEF NetLoad, g

\* The price block is a pair of slot numbers.
LEMMA BlockIsRun ==
  ASSUME NEW slots, NEW before, NEW r \in PriceBlock(slots, before)
  PROVE  r \in (DOMAIN slots) \X (DOMAIN slots)
<1>1. r \in DearRuns(slots, LowPrice(slots))
  BY DEF PriceBlock
<1> QED
  BY <1>1 DEF DearRuns

\* The target a price block needs is an integer.
LEMMA BlockTargetIsInt ==
  ASSUME NEW n \in Nat, NEW slots \in [1 .. n -> SlotRecords],
         NEW a \in 1 .. n, NEW z \in 1 .. n,
         NEW c, c.floor \in Int, c.target \in Int, c.acc \in Int
  PROVE  BlockTarget(slots, <<a, z>>, c, c.target) \in Int
<1> DEFINE load == NetLoad(slots, <<a, z>>, c.acc)
           need == (load * TakePer) \div 100
<1>1. load \in Int /\ TakePer \in Int /\ Headroom \in Int
  <2>1. PICK acc \in Int : acc = c.acc
    OBVIOUS
  <2>2. NetLoad(slots, <<a, z>>, acc) \in Int
    BY NetLoadIsInt
  <2> QED
    BY <2>1, <2>2, BatteryAssumption, GatesAssumption
<1> HIDE DEF load
<1>2. need \in Int
  BY <1>1, ProductIsInt
<1> HIDE DEF need
<1>3. BlockTarget(slots, <<a, z>>, c, c.target) =
        Greater(Lesser(c.floor, c.target),
                Lesser(c.target, Lesser(c.floor, c.target) + need + Headroom))
  BY DEF BlockTarget, need, load
<1> QED
  BY <1>1, <1>2, <1>3 DEF Greater, Lesser

\* The price block writes flags on the slots and sets a target: there are as
\* many as before, and they are still slots (engine/price_block.py: apply_price_block).
LEMMA PriceBlockKeepsSlots ==
  ASSUME NEW slots \in Seq(SlotRecords),
         NEW c, c.floor \in Int, c.target \in Int, c.acc \in Int
  PROVE  /\ WithPriceBlock(slots, c).slots \in Seq(SlotRecords)
         /\ Len(WithPriceBlock(slots, c).slots) = Len(slots)
         /\ WithPriceBlock(slots, c).target \in Int
<1> DEFINE n == Len(slots)
           mirrored == Mirrored(slots)
           windows  == {i \in DOMAIN slots : slots[i].window}
           start    == IF windows = {} THEN None ELSE Min(windows)
           deadline(r) ==
               ~ /\ start # None
                 /\ \/ Span(slots, r[2] + 1, start - 1) < 12 * Hour
                    \/ r[1] = 1 /\ c.sinceEnd < 2 * Hour
           block    == {r \in PriceBlock(mirrored, start) : deadline(r)}
           marked(r) == [i \in DOMAIN slots |->
               IF i \in r[1] .. r[2]
               THEN [mirrored[i] EXCEPT !.deadline = TRUE,
                                        !.entry = @ \/ i = r[1]]
               ELSE mirrored[i]]
           result == WithPriceBlock(slots, c)
<1>1. n \in Nat /\ DOMAIN slots = 1 .. n /\ mirrored \in [1 .. n -> SlotRecords]
  BY MirroredIsSlots
<1> HIDE DEF n, mirrored, start, deadline, windows
<1>2. ASSUME result = [slots |-> slots, target |-> c.target]
      PROVE  result.slots \in Seq(SlotRecords) /\ Len(result.slots) = n /\ result.target \in Int
  <2> HIDE DEF result
  <2> QED
    BY <1>2 DEF n
<1>3. ASSUME result = [slots |-> mirrored, target |-> c.target]
      PROVE  result.slots \in Seq(SlotRecords) /\ Len(result.slots) = n /\ result.target \in Int
  <2> HIDE DEF result
  <2> QED
    BY <1>1, <1>3, IsSequence
<1>4. ASSUME NEW r \in block, NEW target \in {c.target, BlockTarget(mirrored, r, c, c.target)},
             result = [slots |-> marked(r), target |-> target]
      PROVE  result.slots \in Seq(SlotRecords) /\ Len(result.slots) = n /\ result.target \in Int
  <2>1. PICK a \in 1 .. n, z \in 1 .. n : r = <<a, z>>
    <3>1. r \in (DOMAIN mirrored) \X (DOMAIN mirrored)
      BY BlockIsRun
    <3> QED
      BY <1>1, <3>1
  <2>2. target \in Int
    <3>1. BlockTarget(mirrored, <<a, z>>, c, c.target) \in Int
      BY <1>1, BlockTargetIsInt
    <3> QED
      BY <2>1, <3>1
  <2>3. marked(r) \in [1 .. n -> SlotRecords]
    <3>1. ASSUME NEW i \in 1 .. n
          PROVE  [mirrored[i] EXCEPT !.deadline = TRUE, !.entry = @ \/ i = r[1]] \in SlotRecords
      <4>1. mirrored[i] \in SlotRecords
        BY <1>1
      <4>2. (mirrored[i].entry \/ i = r[1]) \in BOOLEAN
        OBVIOUS
      <4> QED
        BY <4>1, <4>2, FlagsAreOfSlot, Zenon
    <3> QED
      BY <1>1, <3>1
  <2> HIDE DEF marked
  <2> QED
    BY <1>1, <1>4, <2>2, <2>3, IsSequence
<1> HIDE DEF block, marked
<1>5. \/ result = [slots |-> slots, target |-> c.target]
      \/ result = [slots |-> mirrored, target |-> c.target]
      \/ \E r \in block : \E target \in {c.target, BlockTarget(mirrored, r, c, c.target)} :
            result = [slots |-> marked(r), target |-> target]
  <2>1. CASE ~c.amber
    BY <2>1 DEF WithPriceBlock
  <2>2. CASE c.amber /\ (start = 1 \/ block = {})
    BY <2>2 DEF WithPriceBlock, block, deadline, start, windows, mirrored
  <2>3. CASE c.amber /\ ~(start = 1 \/ block = {})
    <3> DEFINE r == CHOOSE r \in block : TRUE
               target == IF r[1] = 1 /\ start # None THEN c.target
                         ELSE BlockTarget(mirrored, r, c, c.target)
    <3>1. r \in block
      BY <2>3
    <3>2. result = [slots |-> marked(r), target |-> target]
      BY <2>3 DEF WithPriceBlock, block, deadline, start, windows, mirrored, marked
    <3>3. target \in {c.target, BlockTarget(mirrored, r, c, c.target)}
      OBVIOUS
    <3> HIDE DEF r, target
    <3> QED
      BY <3>1, <3>2, <3>3
  <2> QED
    BY <2>1, <2>2, <2>3
<1>6. ASSUME \E r \in block : \E target \in {c.target, BlockTarget(mirrored, r, c, c.target)} :
             result = [slots |-> marked(r), target |-> target]
      PROVE  result.slots \in Seq(SlotRecords) /\ Len(result.slots) = n /\ result.target \in Int
  <2> HIDE DEF result
  <2> QED
    BY <1>4, <1>6
<1> HIDE DEF result
<1>7. result.slots \in Seq(SlotRecords) /\ Len(result.slots) = n /\ result.target \in Int
  <2>1. CASE result = [slots |-> slots, target |-> c.target]
    BY <1>2, <2>1
  <2>2. CASE result = [slots |-> mirrored, target |-> c.target]
    BY <1>3, <2>2
  <2> QED
    BY <1>5, <1>6, <2>1, <2>2
<1> QED
  BY <1>7 DEF n, result

-----------------------------------------------------------------------------
(* The forward pass                                                          *)

\* A decision that keeps the reserve.
Decided(d, slot, floor) ==
  /\ d.from \in Socs /\ d.soc \in Socs
  /\ Keeps(d.soc, d.from, d.a, slot, floor)

\* Decisions that keep the reserve, one for each slot.
Schedule(decisions, slots, floor) ==
  /\ decisions = [i \in 1 .. Len(slots) |-> decisions[i]]
  /\ \A i \in 1 .. Len(slots) : Decided(decisions[i], slots[i], floor)

\* The outcome of an action in a slot of the horizon keeps the reserve.
LEMMA OutcomeKeeps ==
  ASSUME NEW slots \in Seq(SlotRecords), NEW i \in 1 .. Len(slots),
         NEW c, c.floor \in Int, NEW s \in Socs, NEW a
  PROVE  /\ Outcome(slots, c, i, s, a).soc \in Socs
         /\ Keeps(Outcome(slots, c, i, s, a).soc, s, a, slots[i], c.floor)
<1> DEFINE slot == slots[i]
           floor == c.floor
<1>1. slot \in SlotRecords /\ floor \in Int
  OBVIOUS
<1> HIDE DEF slot, floor
<1>2. /\ Clamped(Transition(s, a, slot, floor)).soc \in Socs
      /\ Keeps(Clamped(Transition(s, a, slot, floor)).soc, s, a, slot, floor)
  BY <1>1, StepKeepsReserve
<1> QED
  BY <1>2 DEF Outcome, slot, floor

\* A decision that starts from a charge of the battery keeps the reserve.
LEMMA DecisionKeeps ==
  ASSUME NEW slots \in Seq(SlotRecords), NEW i \in 1 .. Len(slots),
         NEW c, c.floor \in Int, NEW s \in Socs, NEW a, NEW hardware
  PROVE  Decided(Decision(slots, c, i, s, a, hardware), slots[i], c.floor)
<1> DEFINE moved == Outcome(slots, c, i, s, a)
           d == Decision(slots, c, i, s, a, hardware)
<1>1. moved.soc \in Socs /\ Keeps(moved.soc, s, a, slots[i], c.floor)
  BY OutcomeKeeps
<1>2. d.from = s /\ d.a = a /\ d.soc = moved.soc
  BY DEF Decision
<1> HIDE DEF moved, d
<1>3. Decided(d, slots[i], c.floor)
  BY <1>1, <1>2 DEF Decided
<1> QED
  BY <1>3 DEF d

\* Whatever the table says, carrying it out keeps the reserve: the table is
\* indexed by the nearest grid charge, the battery moves from its own.
LEMMA ReconstructKeeps ==
  ASSUME NEW slots \in Seq(SlotRecords), slots # <<>>, NEW c, c.floor \in Int,
         NEW table, NEW s \in Socs, NEW hardware
  PROVE  Schedule(Reconstruct(slots, c, table, s, hardware), slots, c.floor)
<1> DEFINE n == Len(slots)
           Policy(i, t) == table[i][Bin(t)].a
           after(i, t) == Outcome(slots, c, i, t, Policy(i, t)).soc
           step == [i \in 1 + 1 .. n |-> [t \in Socs |-> after(i - 1, t)]]
           from[i \in DOMAIN slots] ==
             IF i = 1 THEN s
             ELSE LET t == from[i - 1] IN Outcome(slots, c, i - 1, t, Policy(i - 1, t)).soc
<1>1. n \in Nat /\ 1 <= n /\ 1 \in Nat /\ DOMAIN slots = 1 .. n
  OBVIOUS
<1>2. \A i \in 1 .. n, t \in Socs : after(i, t) \in Socs
  <2> TAKE i \in 1 .. n, t \in Socs
  <2> DEFINE a == Policy(i, t)
  <2> HIDE DEF a
  <2>1. Outcome(slots, c, i, t, a).soc \in Socs
    BY OutcomeKeeps
  <2> QED
    BY <2>1 DEF a
<1> HIDE DEF n, Policy, after
<1>3. step \in [1 + 1 .. n -> [Socs -> Socs]]
  <2>1. ASSUME NEW i \in 1 + 1 .. n
        PROVE  [t \in Socs |-> after(i - 1, t)] \in [Socs -> Socs]
    <3>1. i - 1 \in 1 .. n
      BY <1>1
    <3> QED
      BY <1>2, <3>1
  <2> QED
    BY <2>1
<1>4. PICK f : Follows(f, Socs, 1, n, s, step)
  <2> HIDE DEF step
  <2> QED
    BY <1>1, <1>3, RecursionExists
<1>5. f = [i \in 1 .. n |-> IF i = 1 THEN s ELSE after(i - 1, f[i - 1])]
  <2>1. ASSUME NEW i \in 1 .. n, i # 1
        PROVE  f[i] = after(i - 1, f[i - 1])
    <3>1. i \in 1 + 1 .. n /\ i - 1 \in 1 .. n
      BY <1>1, <2>1
    <3>2. f[i - 1] \in Socs
      BY <1>4, <3>1 DEF Follows
    <3>3. f[i] = step[i][f[i - 1]]
      <4> HIDE DEF step
      <4> QED
        BY <1>4, <2>1 DEF Follows
    <3> QED
      BY <3>1, <3>2, <3>3
  <2> HIDE DEF step
  <2> QED
    BY <1>1, <1>4, <2>1 DEF Follows
<1>6. from = [i \in 1 .. n |-> IF i = 1 THEN s ELSE after(i - 1, from[i - 1])]
  <2>1. f = [i \in DOMAIN slots |->
              IF i = 1 THEN s
              ELSE LET t == f[i - 1] IN Outcome(slots, c, i - 1, t, Policy(i - 1, t)).soc]
    <3> HIDE DEF step
    <3> QED
      BY <1>1, <1>5 DEF after
  <2>2. from = [i \in DOMAIN slots |->
              IF i = 1 THEN s
              ELSE LET t == from[i - 1] IN Outcome(slots, c, i - 1, t, Policy(i - 1, t)).soc]
    <3> HIDE DEF step
    <3> QED
      BY <2>1
  <2> HIDE DEF from, step
  <2> QED
    BY <1>1, <2>2 DEF after
<1> HIDE DEF from, step
<1>7. \A i \in 1 .. n : from[i] \in Socs
  <2>1. from[1] \in Socs
    BY <1>1, <1>6
  <2>2. \A i \in 1 + 1 .. n : from[i - 1] \in Socs => from[i] \in Socs
    <3> TAKE i \in 1 + 1 .. n
    <3> HAVE from[i - 1] \in Socs
    <3>1. i - 1 \in 1 .. n /\ i \in 1 .. n /\ i # 1
      BY <1>1
    <3>2. from[i] = after(i - 1, from[i - 1])
      BY <1>6, <3>1
    <3> QED
      BY <1>2, <3>1, <3>2
  <2> QED
    BY <1>1, <2>1, <2>2, Stays
<1> DEFINE result == [i \in 1 .. n |->
                        Decision(slots, c, i, from[i], Policy(i, from[i]), hardware)]
<1>8. Reconstruct(slots, c, table, s, hardware) = result
  BY <1>1 DEF Reconstruct, from, Policy
<1>9. \A i \in 1 .. n : Decided(result[i], slots[i], c.floor)
  <2> TAKE i \in 1 .. n
  <2> DEFINE a == Policy(i, from[i])
             t == from[i]
  <2>1. result[i] = Decision(slots, c, i, t, a, hardware)
    OBVIOUS
  <2>2. t \in Socs
    BY <1>7
  <2> HIDE DEF a, t, result
  <2>3. Decided(Decision(slots, c, i, t, a, hardware), slots[i], c.floor)
    BY <2>2, DecisionKeeps DEF n
  <2> QED
    BY <2>1, <2>3
<1>10. result = [i \in 1 .. n |-> result[i]]
  OBVIOUS
<1> HIDE DEF result
<1> QED
  BY <1>8, <1>9, <1>10 DEF Schedule, n

-----------------------------------------------------------------------------
(* The configuration and its hard floor                                      *)

\* The fields of a configuration that a solve reads or sets here.
Config(c) ==
  /\ {"floor", "target", "mode", "term", "hard"} \subseteq DOMAIN c
  /\ c.floor \in Int /\ c.target \in Int

\* A hard floor is set for a target of self-sufficiency and is not above it.
HardFits(c) == c.hard \in Int /\ (c.hard # None => c.hard <= c.target /\ c.mode = "self")

\* d is c with fields of its own that a solve derives.
Keeping(d, c) ==
  /\ DOMAIN d = DOMAIN c /\ d.floor = c.floor /\ d.target = c.target /\ d.mode = c.mode

\* The deadline is a slot of the horizon, or there is none.
LEMMA EntryIsSlot ==
  ASSUME NEW slots \in Seq(SlotRecords)
  PROVE  Entry(slots) = None \/ Entry(slots) \in 1 .. Len(slots)
<1> DEFINE I == {i \in DOMAIN slots :
                   slots[i].entry /\ \E j \in 1 .. i - 1 : ~slots[j].deadline}
<1>1. I \subseteq 1 .. Len(slots)
  OBVIOUS
<1>2. Entry(slots) = IF I = {} THEN None ELSE Min(I)
  BY DEF Entry
<1> HIDE DEF I
<1>3. CASE I # {}
  <2>1. I \in SUBSET Nat
    BY <1>1
  <2>2. Min(I) \in I
    BY <1>3, <2>1, LeastIsElement
  <2> QED
    BY <1>1, <1>2, <1>3, <2>2
<1> QED
  BY <1>2, <1>3

\* A slot on solar and load alone ends at an integer charge.
LEMMA DriftIsInt ==
  ASSUME NEW s \in Int, NEW slot \in SlotRecords, NEW floor \in Int, NEW ceiling \in Int
  PROVE  Drift(s, slot, floor, ceiling) \in Int
<1> DEFINE rate == SolarRate * slot.len
           moved == IF Net(slot) >= 0 THEN Lesser(Net(slot), rate) * StorePer
                    ELSE -(Lesser(-Net(slot), rate) * TakePer)
<1>1. rate \in Int /\ Net(slot) \in Int /\ StorePer \in Int /\ TakePer \in Int
  BY NetIsInt
<1> HIDE DEF rate
<1>2. Lesser(Net(slot), rate) \in Int /\ Lesser(-Net(slot), rate) \in Int
  BY <1>1 DEF Lesser
<1>3. Lesser(Net(slot), rate) * StorePer \in Int /\ Lesser(-Net(slot), rate) * TakePer \in Int
  BY <1>1, <1>2, ProductIsInt
<1>4. moved \in Int
  BY <1>3
<1>5. Drift(s, slot, floor, ceiling) = Greater(floor, Lesser(ceiling, s + moved))
  BY DEF Drift, rate
<1> HIDE DEF moved
<1> QED
  BY <1>4, <1>5 DEF Greater, Lesser

\* So does a slot with the most that may be charged in it.
LEMMA FeasibleAfterIsInt ==
  ASSUME NEW slots \in Seq(SlotRecords), NEW i \in 1 .. Len(slots),
         NEW c, c.floor \in Int, c.target \in Int, NEW s \in Int
  PROVE  FeasibleAfter(slots, c, s, i) \in Int
<1> DEFINE slot == slots[i]
           floor == c.floor
           target == c.target
           charged == s + BoostRate * slot.len * StorePer + Positive(Net(slot)) * StorePer
<1>1. slot \in SlotRecords /\ floor \in Int /\ target \in Int
  OBVIOUS
<1> HIDE DEF slot, floor, target
<1>2. Drift(s, slot, floor, target) \in Int
  BY <1>1, DriftIsInt
<1>3. charged \in Int
  <2>1. slot.len \in Int /\ Net(slot) \in Int /\ StorePer \in Int /\ BoostRate \in Int
    BY <1>1, NetIsInt, BatteryAssumption
  <2>2. BoostRate * slot.len \in Int /\ Positive(Net(slot)) \in Int
    BY <2>1, ProductIsInt DEF Positive, Greater
  <2>3. BoostRate * slot.len * StorePer \in Int /\ Positive(Net(slot)) * StorePer \in Int
    BY <2>1, <2>2, ProductIsInt
  <2> QED
    BY <2>3
<1>4. FeasibleAfter(slots, c, s, i) =
        IF Chargeable(slots, c, i) THEN Greater(floor, Lesser(target, charged))
        ELSE Drift(s, slot, floor, target)
  BY DEF FeasibleAfter, slot, floor, target
<1> HIDE DEF charged
<1> QED
  BY <1>1, <1>2, <1>3, <1>4 DEF Greater, Lesser

\* The highest feasible charge at the deadline is an integer, and is only
\* computed for a target of self-sufficiency.
LEMMA MaxFeasibleIsInt ==
  ASSUME NEW slots \in Seq(SlotRecords), NEW c, c.floor \in Int, c.target \in Int,
         c.term = None \/ c.term \in 1 .. Len(slots), NEW s \in Int
  PROVE  /\ MaxFeasible(slots, c, s) \in Int
         /\ MaxFeasible(slots, c, s) # None => c.mode = "self"
<1> DEFINE n == c.term
           after(i, v) == FeasibleAfter(slots, c, v, i)
           step == [i \in 1 + 1 .. n |-> [v \in Int |-> after(i - 1, v)]]
           entering[i \in 1 .. c.term] ==
             IF i = 1 THEN s ELSE FeasibleAfter(slots, c, entering[i - 1], i - 1)
<1>1. CASE c.term = None \/ c.mode # "self"
  BY <1>1 DEF MaxFeasible, None
<1>2. CASE c.term \in 1 .. Len(slots) /\ c.mode = "self"
  <2>1. n \in Nat /\ 1 <= n /\ 1 \in Nat /\ \A i \in 1 .. n : i \in 1 .. Len(slots)
    BY <1>2
  <2>2. \A i \in 1 .. n, v \in Int : after(i, v) \in Int
    BY <2>1, FeasibleAfterIsInt
  <2> HIDE DEF after
  <2>3. step \in [1 + 1 .. n -> [Int -> Int]]
    <3>1. ASSUME NEW i \in 1 + 1 .. n
          PROVE  [v \in Int |-> after(i - 1, v)] \in [Int -> Int]
      <4>1. i - 1 \in 1 .. n
        BY <2>1
      <4> HIDE DEF n
      <4> QED
        BY <2>2, <4>1
    <3> HIDE DEF n
    <3> QED
      BY <3>1
  <2>4. PICK f : Follows(f, Int, 1, n, s, step)
    <3> HIDE DEF step, n
    <3> QED
      BY <2>1, <2>3, RecursionExists
  <2>5. f = [i \in 1 .. n |-> IF i = 1 THEN s ELSE after(i - 1, f[i - 1])]
    <3> HIDE DEF n
    <3>1. ASSUME NEW i \in 1 .. n, i # 1
          PROVE  f[i] = after(i - 1, f[i - 1])
      <4>1. i \in 1 + 1 .. n /\ i - 1 \in 1 .. n
        BY <2>1, <3>1
      <4>2. f[i - 1] \in Int
        BY <2>4, <4>1 DEF Follows
      <4>3. f[i] = step[i][f[i - 1]]
        <5> HIDE DEF step
        <5> QED
          BY <2>4, <3>1 DEF Follows
      <4> QED
        BY <4>1, <4>2, <4>3
    <3> HIDE DEF step
    <3> QED
      BY <2>1, <2>4, <3>1 DEF Follows
  <2>6. entering = [i \in 1 .. n |-> IF i = 1 THEN s ELSE after(i - 1, entering[i - 1])]
    <3> HIDE DEF step
    <3> QED
      BY <2>5 DEF after
  <2> HIDE DEF entering, step
  <2>7. \A i \in 1 .. n : entering[i] \in Int
    <3> HIDE DEF n
    <3>1. entering[1] \in Int
      BY <2>1, <2>6
    <3>2. \A i \in 1 + 1 .. n : entering[i - 1] \in Int => entering[i] \in Int
      <4> TAKE i \in 1 + 1 .. n
      <4> HAVE entering[i - 1] \in Int
      <4>1. i - 1 \in 1 .. n /\ i \in 1 .. n /\ i # 1
        BY <2>1
      <4>2. entering[i] = after(i - 1, entering[i - 1])
        BY <2>6, <4>1
      <4> QED
        BY <2>2, <4>1, <4>2
    <3> QED
      BY <2>1, <3>1, <3>2, Stays
  <2>8. entering[n] \in Int
    <3> HIDE DEF n
    <3> QED
      BY <2>1, <2>7
  <2>9. MaxFeasible(slots, c, s) = entering[n]
    BY <1>2 DEF MaxFeasible, entering, None
  <2> QED
    BY <1>2, <2>8, <2>9
<1> QED
  BY <1>1, <1>2

\* The hard floor is never above the target, and only set in that mode.
LEMMA HardFloorFits ==
  ASSUME NEW slots \in Seq(SlotRecords), NEW c, c.floor \in Int, c.target \in Int,
         c.term = None \/ c.term \in 1 .. Len(slots), NEW s \in Int
  PROVE  /\ HardFloor(slots, c, s) \in Int
         /\ HardFloor(slots, c, s) # None => HardFloor(slots, c, s) <= c.target /\ c.mode = "self"
<1> DEFINE best == MaxFeasible(slots, c, s)
<1>1. best \in Int /\ (best # None => c.mode = "self")
  BY MaxFeasibleIsInt
<1>2. HardFloor(slots, c, s) = None \/ (best # None /\ HardFloor(slots, c, s) = Lesser(c.target, best))
  BY DEF HardFloor
<1> HIDE DEF best
<1> QED
  BY <1>1, <1>2 DEF Lesser, None

\* What a solve derives on its configuration leaves the discharge floor, the
\* target and the mode alone, and sets a hard floor that fits them.
LEMMA DerivedFits ==
  ASSUME NEW slots \in Seq(SlotRecords), NEW c, Config(c), NEW s \in Int, NEW wasOpen
  PROVE  /\ Config(Derived(slots, c, s, wasOpen))
         /\ Keeping(Derived(slots, c, s, wasOpen), c)
         /\ HardFits(Derived(slots, c, s, wasOpen))
<1> DEFINE term  == Entry(slots)
           clear == [Cleared(c) EXCEPT
                     !.term = term,
                     !.urgent = UrgentFrom(slots, term, UrgencyWindow(c, s))]
           gated == [clear EXCEPT !.thr = Thresholds(slots, clear, s)]
           water == IF gated.thr = <<>> THEN NoPrice ELSE WaterLevel(slots, clear, s)
           hard == HardFloor(slots, gated, s)
           floor == [gated EXCEPT !.water = water, !.hard = hard]
           d == Derived(slots, c, s, wasOpen)
<1>1. Keeping(Cleared(c), c)
  BY DEF Cleared, Keeping, Config
<1>2. Keeping(clear, c) /\ clear.term = term
  <2> DEFINE e == Cleared(c)
             urgent == UrgentFrom(slots, term, UrgencyWindow(c, s))
  <2>1. clear = [e EXCEPT !.term = term, !.urgent = urgent]
    OBVIOUS
  <2>2. Keeping(e, c)
    BY <1>1
  <2> HIDE DEF e, urgent, clear, term
  <2> QED
    BY <2>1, <2>2 DEF Keeping, Config
<1>3. Keeping(gated, c) /\ gated.term = term
  <2> DEFINE thr == Thresholds(slots, clear, s)
  <2>1. gated = [clear EXCEPT !.thr = thr]
    OBVIOUS
  <2> HIDE DEF thr, clear, gated, term
  <2> QED
    BY <1>2, <2>1 DEF Keeping, Config
<1>4. Keeping(floor, c) /\ floor.hard = hard
  <2> HIDE DEF gated, water, hard
  <2> QED
    BY <1>3 DEF Keeping, Config
<1>5. Keeping(d, c) /\ d.hard = hard
  <2> DEFINE spill == SpillContext(slots, floor, s, wasOpen)
  <2>1. d = [floor EXCEPT !.spill = spill]
    BY DEF Derived, Opened
  <2> HIDE DEF spill, floor, d, hard
  <2> QED
    BY <1>4, <2>1 DEF Keeping, Config
<1>6. hard \in Int /\ (hard # None => hard <= c.target /\ c.mode = "self")
  <2>1. /\ gated.floor \in Int /\ gated.target = c.target /\ gated.target \in Int
        /\ gated.mode = c.mode /\ gated.term = term
    BY <1>3 DEF Keeping, Config
  <2>2. term = None \/ term \in 1 .. Len(slots)
    BY EntryIsSlot
  <2> HIDE DEF gated, term
  <2>3. hard \in Int /\ (hard # None => hard <= gated.target /\ gated.mode = "self")
    BY <2>1, <2>2, HardFloorFits
  <2> QED
    BY <2>1, <2>3
<1> HIDE DEF d, hard
<1>7. Config(d) /\ Keeping(d, c) /\ HardFits(d)
  BY <1>5, <1>6 DEF Keeping, Config, HardFits
<1> QED
  BY <1>7 DEF d

-----------------------------------------------------------------------------
(* One solve                                                                 *)

\* A configuration as the user sets it.
Settings(c) ==
  /\ Config(c) /\ {"acc", "loadMargin"} \subseteq DOMAIN c
  /\ c.acc \in Int /\ c.loadMargin \in Int

\* The load-sized export floor is an integer.
LEMMA ExportFloorIsInt ==
  ASSUME NEW slots \in Seq(SlotRecords), NEW i \in 1 .. Len(slots), NEW c, Settings(c)
  PROVE  ExportFloor(slots, i, c) \in Int
<1> DEFINE median == MedianPrice(slots, DOMAIN slots)
           held   == {j \in ElevatedAfter(slots, i, (3 * median) \div 2) :
                       2 * slots[j].buy >= slots[i].sell}
           g == [j \in held |-> Positive(-Net(slots[j]))]
           reserve == SumFunction(g)
           floor == c.floor
           margin == c.loadMargin
<1>1. held \subseteq 1 .. Len(slots)
  BY DEF ElevatedAfter
<1>2. floor \in Int /\ margin \in Int /\ MaxSoc \in Int /\ TakePer \in Int
  BY BatteryAssumption DEF Settings, Config
<1>3. g \in [held -> Int]
  <2> HIDE DEF held
  <2>1. ASSUME NEW j \in held PROVE Positive(-Net(slots[j])) \in Int
    <3>1. slots[j] \in SlotRecords
      BY <1>1
    <3>2. Net(slots[j]) \in Int
      BY <3>1, NetIsInt
    <3> QED
      BY <3>2 DEF Positive, Greater
  <2> QED
    BY <2>1
<1>4. IsFiniteSet(held)
  <2>1. 1 \in Int /\ Len(slots) \in Int
    OBVIOUS
  <2>2. IsFiniteSet(1 .. Len(slots))
    BY <2>1, IntervalIsFinite, Zenon
  <2> HIDE DEF held
  <2> QED
    BY <1>1, <2>2, FS_Subset
<1>5. ExportFloor(slots, i, c) =
        IF margin <= 0 \/ median <= 0 THEN floor
        ELSE Lesser(MaxSoc, floor + (reserve * margin * TakePer) \div 100)
  BY DEF ExportFloor
<1> HIDE DEF held, g
<1>6. reserve \in Int
  BY <1>3, <1>4, SumIsInt
<1> HIDE DEF reserve, margin, floor
<1>7. reserve * margin \in Int
  BY <1>2, <1>6, ProductIsInt
<1>8. reserve * margin * TakePer \in Int
  BY <1>2, <1>7, ProductIsInt
<1> DEFINE need == reserve * margin * TakePer
<1>9. need \in Int /\ ExportFloor(slots, i, c) =
        IF margin <= 0 \/ median <= 0 THEN floor
        ELSE Lesser(MaxSoc, floor + need \div 100)
  BY <1>5, <1>8
<1> HIDE DEF need, median
<1> QED
  BY <1>2, <1>9 DEF Lesser

\* Writing export floors and admissions keeps slots slots.
LEMMA PreparedIsSlots ==
  ASSUME NEW slots \in Seq(SlotRecords), NEW c, Settings(c)
  PROVE  /\ Prepared(slots, c) \in Seq(SlotRecords)
         /\ Len(Prepared(slots, c)) = Len(slots)
<1> DEFINE n == Len(slots)
           floor(i) == ExportFloor(slots, i, c)
           admitted(i) == i = 1 /\ SpikeAdmitted(slots, c)
           result == [i \in 1 .. n |->
             [slots[i] EXCEPT !.exportFloor = floor(i), !.admitted = admitted(i)]]
<1>1. ASSUME NEW i \in 1 .. n
      PROVE  [slots[i] EXCEPT !.exportFloor = floor(i), !.admitted = admitted(i)] \in SlotRecords
  <2>1. slots[i] \in SlotRecords /\ admitted(i) \in BOOLEAN
    OBVIOUS
  <2>2. floor(i) \in Int
    BY ExportFloorIsInt
  <2> HIDE DEF floor, admitted
  <2> QED
    BY <2>1, <2>2, FloorIsOfSlot
<1>2. Prepared(slots, c) = result
  <2>1. DOMAIN slots = 1 .. n
    OBVIOUS
  <2> HIDE DEF n
  <2> QED
    BY <2>1 DEF Prepared
<1>3. n \in Nat
  OBVIOUS
<1> HIDE DEF n, floor, admitted
<1>4. result \in [1 .. n -> SlotRecords]
  BY <1>1
<1> HIDE DEF result
<1>5. result \in Seq(SlotRecords) /\ Len(result) = n
  BY <1>3, <1>4, IsSequence
<1> QED
  BY <1>2, <1>5 DEF n

\* What a solve promises about the discharge floor alone.
Kept(solution, slots, floor) ==
  /\ "floor" \in DOMAIN solution.c /\ solution.c.floor = floor
  /\ Schedule(solution.decisions, slots, floor)

\* No field a solve derives is the discharge floor.
LEMMA DerivedKeepsFloor ==
  ASSUME NEW slots, NEW c, "floor" \in DOMAIN c, NEW s, NEW wasOpen
  PROVE  /\ "floor" \in DOMAIN Derived(slots, c, s, wasOpen)
         /\ Derived(slots, c, s, wasOpen).floor = c.floor
<1> DEFINE term  == Entry(slots)
           urgent == UrgentFrom(slots, term, UrgencyWindow(c, s))
           cleared == Cleared(c)
           clear == [cleared EXCEPT !.term = term, !.urgent = urgent]
           thr == Thresholds(slots, clear, s)
           gated == [clear EXCEPT !.thr = thr]
           water == IF gated.thr = <<>> THEN NoPrice ELSE WaterLevel(slots, clear, s)
           hard == HardFloor(slots, gated, s)
           floor == [gated EXCEPT !.water = water, !.hard = hard]
           spill == SpillContext(slots, floor, s, wasOpen)
           Same(d) == "floor" \in DOMAIN d /\ d.floor = c.floor
<1>1. Same(cleared)
  BY DEF Cleared
<1>2. Same(clear)
  <2> HIDE DEF cleared, term, urgent
  <2> QED
    BY <1>1
<1>3. Same(gated)
  <2> HIDE DEF clear, thr
  <2> QED
    BY <1>2
<1>4. Same(floor)
  <2> HIDE DEF gated, water, hard
  <2> QED
    BY <1>3
<1>5. Same([floor EXCEPT !.spill = spill])
  <2> HIDE DEF floor, spill
  <2> QED
    BY <1>4
<1>6. Derived(slots, c, s, wasOpen) = [floor EXCEPT !.spill = spill]
  BY DEF Derived, Opened
<1> HIDE DEF floor, spill
<1> QED
  BY <1>5, <1>6

\* A solve from any charge the battery can have keeps the reserve, whatever it
\* derives and whatever its table holds.
LEMMA SolveKeeps ==
  ASSUME NEW slots \in Seq(SlotRecords), slots # <<>>, NEW c, "floor" \in DOMAIN c,
         c.floor \in Int, NEW s \in Socs, NEW hardware, NEW wasOpen
  PROVE  /\ Solve(slots, c, s, hardware, wasOpen).c = Derived(slots, c, s, wasOpen)
         /\ Kept(Solve(slots, c, s, hardware, wasOpen), slots, c.floor)
<1> DEFINE d == Derived(slots, c, s, wasOpen)
           table == Table(slots, d, hardware)
           decisions == Reconstruct(slots, d, table, s, hardware)
           solution == Solve(slots, c, s, hardware, wasOpen)
<1>1. solution.c = d /\ solution.decisions = decisions
  BY DEF Solve, Backward, Forward, Solution
<1>2. "floor" \in DOMAIN d /\ d.floor = c.floor
  BY DerivedKeepsFloor
<1> HIDE DEF d, solution, table
<1>3. Schedule(decisions, slots, d.floor)
  BY <1>2, ReconstructKeeps
<1> HIDE DEF decisions
<1>4. solution.c = d /\ Kept(solution, slots, c.floor)
  BY <1>1, <1>2, <1>3 DEF Kept
<1> QED
  BY <1>4 DEF d, solution

\* The second solve of a fundable spike changes nothing about it.
LEMMA GuardedKeeps ==
  ASSUME NEW slots \in Seq(SlotRecords), slots # <<>>, NEW baseline, NEW floor \in Int,
         Kept(baseline, slots, floor), NEW s \in Socs, NEW hardware, NEW wasOpen
  PROVE  Kept(Guarded(slots, baseline, s, hardware, wasOpen), slots, floor)
<1> DEFINE funding == FundingSlots(slots, baseline.c)
           aim == [baseline.c EXCEPT !.funding = funding]
           funded == Solve(slots, aim, s, hardware, wasOpen)
           result == Guarded(slots, baseline, s, hardware, wasOpen)
<1>1. result \in {funded, baseline}
  BY DEF Guarded, Cheaper
<1>2. "floor" \in DOMAIN aim /\ aim.floor = floor
  BY DEF Kept
<1> HIDE DEF aim, result
<1>3. Kept(funded, slots, floor)
  BY <1>2, SolveKeeps
<1> HIDE DEF funded
<1>4. Kept(result, slots, floor)
  BY <1>1, <1>3
<1> QED
  BY <1>4 DEF result

\* A solve leaves a configuration whose hard floor fits.
LEMMA SolveFits ==
  ASSUME NEW slots \in Seq(SlotRecords), NEW c, Config(c),
         NEW s \in Int, NEW hardware, NEW wasOpen
  PROVE  /\ Config(Solve(slots, c, s, hardware, wasOpen).c)
         /\ HardFits(Solve(slots, c, s, hardware, wasOpen).c)
<1>1. Solve(slots, c, s, hardware, wasOpen).c = Derived(slots, c, s, wasOpen)
  BY DEF Solve, Backward, Forward, Solution
<1> QED
  BY <1>1, DerivedFits

\* So does the choice between it and the solve with a funded spike.
LEMMA GuardedFits ==
  ASSUME NEW slots \in Seq(SlotRecords), NEW baseline, Config(baseline.c),
         HardFits(baseline.c), NEW s \in Int, NEW hardware, NEW wasOpen
  PROVE  /\ Config(Guarded(slots, baseline, s, hardware, wasOpen).c)
         /\ HardFits(Guarded(slots, baseline, s, hardware, wasOpen).c)
<1> DEFINE c == baseline.c
           funding == FundingSlots(slots, c)
           aim == [c EXCEPT !.funding = funding]
           funded == Solve(slots, aim, s, hardware, wasOpen)
           result == Guarded(slots, baseline, s, hardware, wasOpen)
<1>1. result \in {funded, baseline}
  BY DEF Guarded, Cheaper
<1>2. Config(aim)
  <2>1. Config(c)
    OBVIOUS
  <2> HIDE DEF c, funding
  <2> QED
    BY <2>1 DEF Config
<1> HIDE DEF aim, result
<1>3. Config(funded.c) /\ HardFits(funded.c)
  BY <1>2, SolveFits
<1> HIDE DEF funded
<1>4. Config(result.c) /\ HardFits(result.c)
  BY <1>1, <1>3
<1> QED
  BY <1>4 DEF result

-----------------------------------------------------------------------------
(* The tail                                                                  *)

\* The tail starts at a slot of the horizon, or there is none.
LEMMA TailStartIsSlot ==
  ASSUME NEW slots \in Seq(SlotRecords)
  PROVE  TailStart(slots) = None \/ TailStart(slots) \in 1 .. Len(slots)
<1> DEFINE n == Len(slots)
           entry == Entry(slots)
           outside == {i \in DOMAIN slots : ~slots[i].deadline}
           ends == {j \in entry .. n :
                      j = n \/ ~slots[j + 1].deadline \/ slots[j + 1].entry}
           split == IF entry # None THEN Min(ends) + 1
                    ELSE IF outside = {} THEN None ELSE Min(outside)
<1>1. n \in Nat /\ outside \in SUBSET Nat
  OBVIOUS
<1>2. TailStart(slots) = None \/ (TailStart(slots) = split /\ split # None /\ ~(split > n))
  BY DEF TailStart, WindowEnd
<1>3. CASE entry # None
  <2>1. entry \in 1 .. n
    BY <1>3, EntryIsSlot
  <2> HIDE DEF entry, n
  <2>2. ends \in SUBSET Nat /\ n \in ends
    BY <1>1, <2>1
  <2>3. Min(ends) \in Nat
    <3> HIDE DEF ends
    <3> QED
      BY <2>2, LeastIsElement
  <2>4. split = Min(ends) + 1
    BY <1>3
  <2> HIDE DEF split, ends
  <2> QED
    BY <1>1, <1>2, <2>3, <2>4 DEF n, None
<1>4. CASE entry = None /\ outside # {}
  <2> HIDE DEF entry, n
  <2>1. outside \subseteq 1 .. n
    BY DEF n
  <2>2. Min(outside) \in outside
    <3> HIDE DEF outside
    <3> QED
      BY <1>1, <1>4, LeastIsElement
  <2>3. split = Min(outside)
    BY <1>4
  <2> HIDE DEF split, outside
  <2> QED
    BY <1>2, <2>1, <2>2, <2>3 DEF n
<1>5. CASE entry = None /\ outside = {}
  <2> HIDE DEF entry, n, outside
  <2> QED
    BY <1>2, <1>5
<1> QED
  BY <1>3, <1>4, <1>5

\* A schedule is a sequence as long as the horizon.
LEMMA ScheduleIsSequence ==
  ASSUME NEW slots \in Seq(SlotRecords), NEW decisions, NEW floor,
         Schedule(decisions, slots, floor)
  PROVE  \E R : decisions \in Seq(R) /\ Len(decisions) = Len(slots)
<1> DEFINE n == Len(slots)
           R == {decisions[i] : i \in 1 .. n}
           f == [i \in 1 .. n |-> decisions[i]]
<1>1. n \in Nat /\ f \in [1 .. n -> R]
  OBVIOUS
<1>2. decisions = f
  BY DEF Schedule
<1> HIDE DEF f, R, n
<1>3. f \in Seq(R) /\ Len(f) = n
  BY <1>1, IsSequence
<1> QED
  BY <1>2, <1>3 DEF n

\* Joining the main plan before the tail with the tail's plan gives a plan of
\* all slots, when the tail's slots are those of the horizon and a stand-in.
LEMMA JoinedKeeps ==
  ASSUME NEW slots \in Seq(SlotRecords), NEW split \in 2 .. Len(slots), NEW floor,
         NEW rest \in Seq(SlotRecords), Len(rest) = Len(slots) - split + 2,
         \A j \in 1 .. Len(slots) - split + 1 : rest[j] = slots[split + j - 1],
         NEW main, Schedule(main.decisions, slots, floor),
         NEW tail, Schedule(tail.decisions, rest, floor)
  PROVE  Schedule(Joined(main, split, tail), slots, floor)
<1> DEFINE n == Len(slots)
           m == Len(rest)
           md == main.decisions
           td == tail.decisions
           before == SubSeq(md, 1, split - 1)
           after == SubSeq(td, 1, Len(td) - 1)
           joined == before \o after
<1>1. n \in Nat /\ m \in Nat /\ m = n - split + 2 /\ split \in 2 .. n
  OBVIOUS
<1>2. PICK R : md \in Seq(R) /\ Len(md) = n
  BY ScheduleIsSequence
<1>3. PICK Q : td \in Seq(Q) /\ Len(td) = m
  BY ScheduleIsSequence
<1>4. /\ \A i \in 1 .. n : Decided(md[i], slots[i], floor)
      /\ \A j \in 1 .. m : Decided(td[j], rest[j], floor)
  BY DEF Schedule
<1>5. Joined(main, split, tail) = joined
  BY DEF Joined
<1> HIDE DEF n, m, md, td
<1>6. before \in Seq(R) /\ Len(before) = split - 1 /\ \A i \in 1 .. split - 1 : before[i] = md[i]
  BY <1>1, <1>2
<1>7. after \in Seq(Q) /\ Len(after) = m - 1 /\ \A j \in 1 .. m - 1 : after[j] = td[j]
  BY <1>1, <1>3
<1> HIDE DEF before, after
<1>8. before \in Seq(R \cup Q) /\ after \in Seq(R \cup Q)
  BY <1>6, <1>7
<1>9. joined \in Seq(R \cup Q) /\ Len(joined) = n
  <2>1. joined \in Seq(R \cup Q) /\ Len(joined) = Len(before) + Len(after)
    BY <1>8, ConcatProperties, Zenon
  <2> HIDE DEF joined
  <2> QED
    BY <1>1, <1>6, <1>7, <2>1
<1>10. ASSUME NEW i \in 1 .. n PROVE Decided(joined[i], slots[i], floor)
  <2>1. CASE i <= split - 1
    <3>1. joined[i] = md[i]
      BY <1>1, <1>6, <1>8, <2>1
    <3> QED
      BY <1>4, <3>1
  <2>2. CASE ~(i <= split - 1)
    <3> DEFINE j == i - split + 1
    <3>1. j \in 1 .. m - 1 /\ j \in 1 .. n - split + 1 /\ split + j - 1 = i
      BY <1>1, <2>2
    <3>2. joined[i] = after[j]
      BY <1>1, <1>6, <1>7, <1>8, <2>2
    <3> HIDE DEF j, joined
    <3>3. joined[i] = td[j] /\ rest[j] = slots[i]
      BY <1>7, <3>1, <3>2 DEF n
    <3>4. Decided(td[j], rest[j], floor)
      BY <1>1, <1>4, <3>1
    <3> QED
      BY <3>3, <3>4
  <2> QED
    BY <2>1, <2>2
<1>11. joined = [i \in 1 .. n |-> joined[i]]
  <2> HIDE DEF joined
  <2> QED
    BY <1>9
<1> HIDE DEF joined
<1> QED
  BY <1>5, <1>10, <1>11 DEF Schedule, n

\* The tail is planned again only where there is one.
LEMMA TailIsInside ==
  ASSUME NEW slots \in Seq(SlotRecords), NEW c, NEW main, NEW gap,
         TailScope(slots, c, main, gap) = "apply"
  PROVE  TailStart(slots) \in 2 .. Len(slots)
<1>1. TailStart(slots) # None /\ TailStart(slots) # 1
  BY DEF TailScope
<1> QED
  BY <1>1, TailStartIsSlot

\* The plan with a tail of its own keeps the reserve on every slot.
LEMMA TailPlanKeeps ==
  ASSUME NEW slots \in Seq(SlotRecords), NEW c, NEW floor \in Int, NEW main,
         Kept(main, slots, floor), NEW gap, TailStart(slots) \in 2 .. Len(slots)
  PROVE  Schedule(TailPlan(slots, c, main, gap), slots, floor)
<1> DEFINE n == Len(slots)
           split == TailStart(slots)
           last  == slots[n]
           later == last.at + last.len
           stand == [last EXCEPT !.at = later, !.solar = 0, !.load = 0,
                              !.entry = TRUE, !.deadline = TRUE, !.window = TRUE,
                              !.exportable = FALSE, !.admitted = FALSE]
           rest  == Append(SubSeq(slots, split, n), stand)
           target == RequiredBeforeGap(c, gap)
           aim   == [main.c EXCEPT !.target = target, !.funding = {}]
           from == TailFrom(main, split)
           base == Solve(rest, aim, from, "none", FALSE)
           tail == GuardedSolve(rest, aim, from, "none", FALSE)
<1>1. n \in Nat /\ split \in 2 .. n
  OBVIOUS
<1>2. last \in SlotRecords
  BY <1>1
<1>3. stand \in SlotRecords
  <2> HIDE DEF last
  <2>1. later \in Nat
    <3>1. last.at \in Nat /\ last.len \in Nat
      BY <1>2 DEF SlotRecords
    <3> QED
      BY <3>1
  <2> HIDE DEF later
  <2> DEFINE idle == [last EXCEPT !.at = later, !.solar = 0, !.load = 0]
             flagged == [idle EXCEPT !.entry = TRUE, !.deadline = TRUE, !.window = TRUE]
  <2>3. idle \in SlotRecords
    BY <1>2, <2>1 DEF SlotRecords
  <2>4. flagged \in SlotRecords
    <3> HIDE DEF idle
    <3> QED
      BY <2>3 DEF SlotRecords
  <2>5. [flagged EXCEPT !.exportable = FALSE, !.admitted = FALSE] \in SlotRecords
    <3> HIDE DEF flagged
    <3> QED
      BY <2>4 DEF SlotRecords
  <2>6. stand = [flagged EXCEPT !.exportable = FALSE, !.admitted = FALSE]
    BY Zenon
  <2> QED
    BY <2>5, <2>6
<1> HIDE DEF split, stand
<1>4. /\ rest \in Seq(SlotRecords) /\ rest # <<>> /\ Len(rest) = n - split + 2
      /\ \A j \in 1 .. n - split + 1 : rest[j] = slots[split + j - 1]
  <2> DEFINE cut == SubSeq(slots, split, n)
  <2>1. cut \in Seq(SlotRecords) /\ Len(cut) = n - split + 1
    BY <1>1
  <2>2. \A j \in 1 .. n - split + 1 : cut[j] = slots[split + j - 1]
    BY <1>1
  <2> HIDE DEF cut, n
  <2>3. Append(cut, stand) \in Seq(SlotRecords) /\ Len(Append(cut, stand)) = n - split + 2
    BY <1>1, <1>3, <2>1
  <2>4. \A j \in 1 .. n - split + 1 : Append(cut, stand)[j] = cut[j]
    BY <1>1, <1>3, <2>1
  <2>5. Append(cut, stand) # <<>>
    BY <1>1, <2>3
  <2> QED
    BY <2>2, <2>3, <2>4, <2>5 DEF cut
<1>5. "floor" \in DOMAIN aim /\ aim.floor = floor
  <2>1. "floor" \in DOMAIN main.c /\ main.c.floor = floor
    BY DEF Kept
  <2> HIDE DEF target
  <2> QED
    BY <2>1
<1>6. from \in Socs
  <2> DEFINE i == split - 1
  <2>1. i \in 1 .. n
    BY <1>1
  <2>2. Decided(main.decisions[i], slots[i], floor)
    BY <2>1 DEF Kept, Schedule
  <2> QED
    BY <2>2 DEF Decided, TailFrom
<1> HIDE DEF rest, aim, from
<1>7. Kept(base, rest, floor)
  BY <1>4, <1>5, <1>6, SolveKeeps
<1>8. tail = Guarded(rest, base, from, "none", FALSE)
  BY DEF GuardedSolve
<1> HIDE DEF base, tail
<1>9. Kept(tail, rest, floor)
  BY <1>4, <1>6, <1>7, <1>8, GuardedKeeps
<1>10. Schedule(tail.decisions, rest, floor) /\ Schedule(main.decisions, slots, floor)
  BY <1>9 DEF Kept
<1>11. Schedule(Joined(main, split, tail), slots, floor)
  BY <1>1, <1>4, <1>10, JoinedKeeps DEF n
<1>12. TailPlan(slots, c, main, gap) = Joined(main, split, tail)
  BY DEF TailPlan, split, tail, rest, stand, aim, from
<1> QED
  BY <1>11, <1>12

-----------------------------------------------------------------------------
(* The plan                                                                  *)

\* What a plan promises, whatever it was made from.
Sound(p) ==
  /\ p.slots \in Seq(SlotRecords) /\ p.slots # <<>>
  /\ Config(p.c) /\ HardFits(p.c)
  /\ Schedule(p.decisions, p.slots, p.c.floor)

\* A plan is sound when the solve it is made of keeps its floor.
LEMMA PlanIsSound ==
  ASSUME NEW slots \in Seq(SlotRecords), slots # <<>>, NEW c, NEW s, NEW base, NEW main,
         Config(main.c), HardFits(main.c), Kept(main, slots, main.c.floor), NEW gap
  PROVE  Sound(Plan(slots, c, s, base, main, gap))
<1> DEFINE status == TailScope(slots, main.c, main, gap)
           tail == TailPlan(slots, c, main, gap)
           p == Plan(slots, c, s, base, main, gap)
           floor == main.c.floor
<1>1. /\ p.slots = slots /\ p.c = main.c
      /\ p.decisions = IF status = "apply" THEN tail ELSE main.decisions
  BY DEF Plan
<1>2. floor \in Int /\ Kept(main, slots, floor)
  BY DEF Config
<1>3. Schedule(main.decisions, slots, floor)
  BY <1>2 DEF Kept
<1>4. ASSUME status = "apply" PROVE Schedule(tail, slots, floor)
  <2>1. TailStart(slots) \in 2 .. Len(slots)
    <3> DEFINE d == main.c
    <3>1. TailScope(slots, d, main, gap) = "apply"
      BY <1>4
    <3> HIDE DEF d
    <3> QED
      BY <3>1, TailIsInside
  <2> HIDE DEF floor
  <2> QED
    BY <1>2, <2>1, TailPlanKeeps
<1> HIDE DEF status, tail, p, floor
<1>5. Schedule(p.decisions, slots, floor)
  BY <1>1, <1>3, <1>4
<1>6. Sound(p)
  BY <1>1, <1>5 DEF Sound, floor
<1> QED
  BY <1>6 DEF p

\* One call of the planner makes a sound plan, for every horizon and setting
\* (engine/core.py: DPPlanner.plan).
LEMMA PlanOfIsSound ==
  ASSUME NEW slots \in Seq(SlotRecords), slots # <<>>, NEW config, Settings(config),
         NEW s \in Socs, NEW hardware, NEW wasOpen, NEW gap
  PROVE  Sound(PlanOf(slots, config, s, hardware, wasOpen, gap))
<1> DEFINE block == WithPriceBlock(slots, config)
           blocked == block.slots
           target == block.target
           c == [config EXCEPT !.target = target]
           ready == Prepared(blocked, c)
           base == Solve(ready, c, s, hardware, wasOpen)
           main == Guarded(ready, base, s, hardware, wasOpen)
<1>1. blocked \in Seq(SlotRecords) /\ Len(blocked) = Len(slots) /\ target \in Int
  <2>1. config.floor \in Int /\ config.target \in Int /\ config.acc \in Int
    BY DEF Settings, Config
  <2> QED
    BY <2>1, PriceBlockKeepsSlots
<1>2. Len(slots) \in Nat \ {0}
  OBVIOUS
<1>3. PlanOf(slots, config, s, hardware, wasOpen, gap) = Plan(ready, c, s, base, main, gap)
  BY DEF PlanOf, PlanBlock, PlanReady, PlanFrom
<1> HIDE DEF blocked, target
<1>4. Settings(c)
  BY <1>1 DEF Settings, Config
<1> HIDE DEF c
<1>5. ready \in Seq(SlotRecords) /\ Len(ready) = Len(slots)
  BY <1>1, <1>4, PreparedIsSlots
<1> HIDE DEF ready
<1>6. ready # <<>>
  BY <1>2, <1>5
<1>7. Config(c) /\ "floor" \in DOMAIN c /\ c.floor \in Int
  BY <1>4 DEF Settings, Config
<1>8. s \in Int
  BY BatteryAssumption DEF Socs
<1>9. Config(base.c) /\ HardFits(base.c)
  BY <1>5, <1>7, <1>8, SolveFits
<1>10. Kept(base, ready, c.floor)
  BY <1>5, <1>6, <1>7, SolveKeeps
<1> DEFINE floor == c.floor
<1>11. floor \in Int /\ Kept(base, ready, floor)
  BY <1>7, <1>10
<1> HIDE DEF base, floor
<1>12. Config(main.c) /\ HardFits(main.c)
  BY <1>5, <1>8, <1>9, GuardedFits
<1>13. Kept(main, ready, floor)
  BY <1>5, <1>6, <1>11, GuardedKeeps
<1> HIDE DEF main
<1>14. Kept(main, ready, main.c.floor)
  BY <1>13 DEF Kept
<1>15. Sound(Plan(ready, c, s, base, main, gap))
  BY <1>5, <1>6, <1>12, <1>14, PlanIsSound
<1> QED
  BY <1>3, <1>15

-----------------------------------------------------------------------------
(* The closed loop                                                           *)

\* What every cycle keeps: slots and settings as the code has them, a charge
\* the battery can have, and a sound plan.
LoopInv ==
  /\ feed \in Seq(SlotRecords)
  /\ Settings(settings)
  /\ faults.sun \subseteq Nat
  /\ soc \in Socs
  /\ plan # NoPlan => Sound(plan)

\* The loop starts in the invariant.
LEMMA LoopStarts ==
  ASSUME Init
  PROVE  LoopInv
<1>1. PICK d \in Days : /\ feed = d.slots /\ settings = d.settings
                        /\ soc = d.soc /\ faults = d.faults /\ plan = NoPlan
  BY DEF Init
<1>2. /\ d.slots \in Seq(SlotRecords) /\ d.soc \in 0 .. MaxSoc
      /\ {"floor", "target", "mode", "acc", "loadMargin", "term", "hard"}
            \subseteq DOMAIN d.settings
      /\ {d.settings.floor, d.settings.target, d.settings.acc, d.settings.loadMargin}
            \subseteq Int
      /\ d.faults.sun \subseteq Nat
  BY DaysAssumption
<1>3. Settings(d.settings)
  BY <1>2 DEF Settings, Config
<1> QED
  BY <1>1, <1>2, <1>3 DEF LoopInv, Socs

\* Planning keeps the invariant.
LEMMA MakePlanKeeps ==
  ASSUME LoopInv, MakePlan
  PROVE  LoopInv'
<1>1. feed \in Seq(SlotRecords) /\ feed # <<>> /\ Settings(settings) /\ soc \in Socs
  BY DEF LoopInv, MakePlan
<1>2. View(feed) \in Seq(SlotRecords) /\ View(feed) # <<>>
  <2> DEFINE n == Lesser(InView, Len(feed))
  <2>1. n \in 1 .. Len(feed)
    BY <1>1, DaysAssumption DEF Lesser
  <2> HIDE DEF n
  <2>2. SubSeq(feed, 1, n) \in Seq(SlotRecords) /\ Len(SubSeq(feed, 1, n)) = n
    BY <1>1, <2>1
  <2>3. SubSeq(feed, 1, n) # <<>>
    BY <2>1, <2>2
  <2> QED
    BY <2>2, <2>3 DEF View, n
<1>3. Sound(PlanOf(View(feed), settings, soc, current, open, Gap(feed)))
  BY <1>1, <1>2, PlanOfIsSound
<1>4. Sound(plan')
  BY <1>3 DEF MakePlan
<1> QED
  BY <1>4 DEF LoopInv, MakePlan, Sound

\* So does carrying a slot out, by the plan, by the backstop or by what the
\* hardware was doing, with whatever sun there is.
LEMMA CarryOutKeeps ==
  ASSUME LoopInv, CarryOut
  PROVE  LoopInv'
<1>1. Sound(plan) /\ soc \in Socs /\ faults.sun \subseteq Nat
  BY DEF LoopInv, CarryOut
<1>2. plan.slots[1] \in SlotRecords /\ plan.c.floor \in Int
  <2> DEFINE slots == plan.slots
  <2>1. slots \in Seq(SlotRecords) /\ slots # <<>> /\ plan.c.floor \in Int
    BY <1>1 DEF Sound, Config
  <2> HIDE DEF slots
  <2>2. slots[1] \in SlotRecords
    BY <2>1
  <2> QED
    BY <2>1, <2>2 DEF slots
<1>3. soc' \in Socs
  <2>1. PICK granted \in faults.grants, sun \in faults.sun :
           LET slot == [plan.slots[1] EXCEPT !.solar = (@ * sun) \div 100]
               a    == IF Backstop THEN "boost"
                       ELSE IF granted THEN plan.decisions[1].a
                       ELSE IF current = "none" THEN "hold" ELSE current
           IN  soc' = Clamped(Transition(soc, a, slot, plan.c.floor)).soc
    BY DEF CarryOut
  <2> DEFINE first == plan.slots[1]
             solar == (first.solar * sun) \div 100
             slot == [first EXCEPT !.solar = solar]
             floor == plan.c.floor
             a == IF Backstop THEN "boost"
                  ELSE IF granted THEN plan.decisions[1].a
                  ELSE IF current = "none" THEN "hold" ELSE current
  <2>2. soc' = Clamped(Transition(soc, a, slot, floor)).soc
    BY <2>1
  <2> HIDE DEF a
  <2>3. solar \in Nat
    <3> HIDE DEF first
    <3>1. first \in SlotRecords
      BY <1>2 DEF first
    <3>2. first.solar \in Nat /\ sun \in Nat
      BY <1>1, <3>1 DEF SlotRecords
    <3>3. first.solar * sun \in Nat
      BY <3>2, Product
    <3> QED
      BY <3>3
  <2>4. slot \in SlotRecords
    <3> HIDE DEF solar, first
    <3>1. first \in SlotRecords
      BY <1>2 DEF first
    <3> QED
      BY <2>3, <3>1 DEF SlotRecords
  <2>5. floor \in Int
    BY <1>2
  <2> HIDE DEF slot, floor
  <2> QED
    BY <1>1, <2>2, <2>4, <2>5, StepKeepsReserve
<1>4. feed' \in Seq(SlotRecords)
  <2>1. CASE feed = <<>>
    BY <2>1 DEF CarryOut, LoopInv
  <2>2. CASE feed # <<>>
    BY <2>2 DEF CarryOut, LoopInv
  <2> QED
    BY <2>1, <2>2
<1>5. settings' = settings /\ faults' = faults /\ plan' = NoPlan
  BY DEF CarryOut
<1> QED
  BY <1>3, <1>4, <1>5 DEF LoopInv

\* The closed loop stays in its invariant.
THEOREM LoopInvCorrect == Spec => []LoopInv
<1>1. Init => LoopInv
  BY LoopStarts
<1>2. LoopInv /\ [Next]_vars => LoopInv'
  <2> SUFFICES ASSUME LoopInv, [Next]_vars PROVE LoopInv'
    OBVIOUS
  <2>1. CASE MakePlan
    BY <2>1, MakePlanKeeps
  <2>2. CASE CarryOut
    BY <2>2, CarryOutKeeps
  <2>3. CASE UNCHANGED vars
    BY <2>3 DEF vars, LoopInv
  <2> QED
    BY <2>1, <2>2, <2>3 DEF Next
<1> QED
  BY <1>1, <1>2, PTL DEF Spec

-----------------------------------------------------------------------------
(* What the plan keeps                                                       *)

\* Neither the main plan nor the tail sells or spends the reserve, on any grid,
\* for any tariff, weather and battery: no decision takes the charge below the
\* discharge floor and no sale goes below the floor of its own slot
\* (engine/core.py: _forward_reconstruct; engine/export_floor.py).
THEOREM ReserveKeptCorrect == Spec => []ReserveKept
<1>1. LoopInv => ReserveKept
  <2> SUFFICES ASSUME LoopInv, Planned, NEW i \in DOMAIN plan.decisions
               PROVE  LET d == plan.decisions[i]
                      IN  /\ d.soc >= Lesser(d.from, plan.c.floor)
                          /\ d.a = "export" /\ d.soc < d.from =>
                               d.soc >= plan.slots[i].exportFloor
    BY DEF ReserveKept
  <2>1. Sound(plan)
    BY DEF LoopInv, Planned
  <2>2. i \in 1 .. Len(plan.slots)
    BY <2>1 DEF Sound, Schedule
  <2>3. Decided(plan.decisions[i], plan.slots[i], plan.c.floor)
    BY <2>1, <2>2 DEF Sound, Schedule
  <2> QED
    BY <2>3 DEF Decided, Keeps
<1> QED
  BY <1>1, LoopInvCorrect, PTL

\* Above a floor that was degraded below the target, the penalty for entering
\* the demand window goes on falling: it never rises with the charge, whatever
\* the two penalty rates are (engine/core.py: _initialize_dp_tables, #903).
LEMMA PenaltyFalls ==
  ASSUME NEW c, Config(c), HardFits(c), NEW s \in Int, NEW t \in Int, s <= t
  PROVE  EntryPenalty(c, t) <= EntryPenalty(c, s)
<1> DEFINE target == c.target
           hard == c.hard
           Below(z) == hard # None /\ z < hard
           Short(z) == c.mode = "self" /\ z < target /\ ~Below(z)
           gap(z) == IF Below(z) THEN (target - z) + (hard - z) ELSE Positive(target - z)
           rate(z) == IF Below(z) \/ Short(z) THEN HardPenalty ELSE SoftPenalty
<1>1. /\ target \in Int /\ hard \in Int /\ (hard # None => hard <= target /\ c.mode = "self")
      /\ HardPenalty \in Nat /\ SoftPenalty \in Nat
  BY PlannerAssumption DEF Config, HardFits
<1>2. ASSUME NEW z \in Int
      PROVE  EntryPenalty(c, z) = gap(z) * rate(z)
  <2>1. CASE Below(z)
    BY <2>1 DEF EntryPenalty
  <2>2. CASE Short(z)
    <3>1. target - z = Positive(target - z)
      BY <1>1, <2>2 DEF Positive, Greater
    <3>2. EntryPenalty(c, z) = (target - z) * HardPenalty
      BY <2>2 DEF EntryPenalty
    <3> QED
      BY <2>2, <3>1, <3>2
  <2>3. CASE ~Below(z) /\ ~Short(z)
    <3>1. EntryPenalty(c, z) = TerminalCost(z, target, SoftPenalty)
      BY <2>3 DEF EntryPenalty
    <3> QED
      BY <2>3, <3>1 DEF TerminalCost
  <2> QED
    BY <2>1, <2>2, <2>3
<1>3. \A z \in Int : gap(z) \in Nat /\ rate(z) \in Nat
  BY <1>1 DEF Positive, Greater
<1>4. gap(t) <= gap(s)
  BY <1>1 DEF Positive, Greater
<1>5. gap(t) = 0 \/ rate(t) = rate(s)
  <2>1. CASE Below(s)
    BY <1>1, <2>1 DEF Positive, Greater
  <2>2. CASE ~Below(s)
    BY <1>1, <2>2 DEF Positive, Greater
  <2> QED
    BY <2>1, <2>2
<1> HIDE DEF gap, rate
<1>6. gap(t) * rate(t) <= gap(s) * rate(s)
  <2> DEFINE a == gap(t)
             b == gap(s)
             k == rate(t)
             m == rate(s)
  <2>1. a \in Nat /\ b \in Nat /\ k \in Nat /\ m \in Nat /\ a <= b /\ (a = 0 \/ k = m)
    BY <1>3, <1>4, <1>5
  <2> HIDE DEF a, b, k, m
  <2>2. a * m <= b * m /\ b * m \in Nat
    BY <2>1, Product, ProductRises
  <2>3. a * k <= b * m
    <3>1. CASE a = 0
      BY <2>1, <2>2, <3>1
    <3>2. CASE k = m
      BY <2>2, <3>2
    <3> QED
      BY <2>1, <3>1, <3>2
  <2> QED
    BY <2>3 DEF a, b, k, m
<1> QED
  BY <1>2, <1>6

\* Every plan's configuration has a penalty that never rises with the charge.
THEOREM EntryNeverDearerFullerCorrect == Spec => []EntryNeverDearerFuller
<1>1. LoopInv => EntryNeverDearerFuller
  <2> SUFFICES ASSUME LoopInv, Planned,
                      NEW s \in {Grid[k] : k \in DOMAIN Grid},
                      NEW t \in {Grid[k] : k \in DOMAIN Grid}, s <= t
               PROVE  EntryPenalty(plan.c, t) <= EntryPenalty(plan.c, s)
    BY DEF EntryNeverDearerFuller
  <2>1. ASSUME NEW k \in DOMAIN Grid PROVE Grid[k] \in Int
    <3> DEFINE n == (MaxSoc - MinSoc) \div Step + 1
    <3>1. MinSoc \in Int /\ MaxSoc \in Int /\ Step \in Int /\ n \in Int
      BY BatteryAssumption, PlannerAssumption
    <3> HIDE DEF n
    <3>2. k \in 1 .. n /\ Grid[k] = MinSoc + (k - 1) * Step
      BY <2>1 DEF Grid, SocGrid, n
    <3>3. (k - 1) * Step \in Int
      BY <3>1, <3>2, ProductIsInt
    <3> QED
      BY <3>1, <3>2, <3>3
  <2>2. s \in Int /\ t \in Int
    BY <2>1
  <2> DEFINE c == plan.c
  <2>3. Config(c) /\ HardFits(c)
    BY DEF LoopInv, Planned, Sound
  <2> HIDE DEF c
  <2>4. EntryPenalty(c, t) <= EntryPenalty(c, s)
    BY <2>2, <2>3, PenaltyFalls
  <2> QED
    BY <2>4 DEF c
<1> QED
  BY <1>1, LoopInvCorrect, PTL

-----------------------------------------------------------------------------
(* Where a booked load is placed                                             *)

\* the lesser and the greater of two numbers
LEMMA LesserAndGreater ==
  ASSUME NEW a \in Int, NEW b \in Int
  PROVE  /\ Min({a, b}) = IF a <= b THEN a ELSE b
         /\ Max({a, b}) = IF a <= b THEN b ELSE a
BY DEF Min, Max

\* The slots of a plan end some time, and the horizon with the last of them.
LEMMA SlotsEnd ==
  /\ Len(Slots) \in Nat /\ Len(Slots) > 0 /\ DOMAIN Slots = 1 .. Len(Slots)
  /\ \A i \in 1 .. Len(Slots) : Slots[i].at \in Nat /\ SlotEnd(Slots[i]) \in Nat
  /\ HorizonEnd \in Nat
<1> DEFINE n == Len(Slots)
           end(i) == SlotEnd(Slots[i])
           R == [at : Nat, len : Nat \ {0}]
           T == {i \in 0 .. n : i = 0 \/ \E j \in 1 .. i : \A k \in 1 .. i : end(k) <= end(j)}
           S == {end(i) : i \in DOMAIN Slots}
<1>1. n \in Nat /\ n > 0 /\ DOMAIN Slots = 1 .. n /\ \A i \in 1 .. n : Slots[i] \in R
  <2>1. Slots \in Seq(R) /\ Slots # <<>>
    BY PlacementAssumption
  <2> HIDE DEF R
  <2> QED
    BY <2>1
<1>2. ASSUME NEW i \in 1 .. n PROVE Slots[i].at \in Nat /\ end(i) \in Nat
  <2>1. Slots[i].at \in Nat /\ Slots[i].len \in Nat
    BY <1>1
  <2> QED
    BY <2>1 DEF SlotEnd
<1> HIDE DEF R, end
<1>3. ASSUME NEW i \in 0 + 1 .. n, i - 1 \in T PROVE i \in T
  <2>1. CASE i = 1
    <3>1. \A k \in 1 .. i : k = 1 /\ end(k) \in Nat
      BY <1>1, <1>2, <2>1
    <3> QED
      BY <1>1, <2>1, <3>1
  <2>2. CASE i # 1
    <3>1. PICK j \in 1 .. i - 1 : \A k \in 1 .. i - 1 : end(k) <= end(j)
      BY <1>1, <1>3, <2>2
    <3>2. end(i) \in Nat /\ end(j) \in Nat /\ \A k \in 1 .. i - 1 : end(k) \in Nat
      BY <1>1, <1>2
    <3> DEFINE later == IF end(i) <= end(j) THEN j ELSE i
    <3>3. later \in 1 .. i
      BY <1>1
    <3>4. \A k \in 1 .. i : end(k) <= end(later)
      <4> SUFFICES ASSUME NEW k \in 1 .. i PROVE end(k) <= end(later)
        OBVIOUS
      <4>1. CASE k = i
        BY <3>2, <4>1
      <4>2. CASE k # i
        <5>1. k \in 1 .. i - 1
          BY <1>1, <4>2
        <5> QED
          BY <3>1, <3>2, <5>1
      <4> QED
        BY <4>1, <4>2
    <3> HIDE DEF later
    <3> QED
      BY <1>1, <3>3, <3>4
  <2> QED
    BY <2>1, <2>2
<1>4. n \in T
  <2>1. 0 \in T
    BY <1>1
  <2> HIDE DEF T
  <2>2. \A i \in 0 .. n : i \in T
    BY <1>1, <1>3, <2>1, Climbs
  <2> QED
    BY <1>1, <2>2
<1>5. PICK j \in 1 .. n : \A k \in 1 .. n : end(k) <= end(j)
  BY <1>1, <1>4
<1>6. Max(S) \in S
  <2>1. end(j) \in S /\ \A x \in S : end(j) >= x
    BY <1>1, <1>2, <1>5
  <2> HIDE DEF S
  <2> QED
    BY <2>1 DEF Max
<1>7. HorizonEnd = Max(S)
  BY DEF HorizonEnd, end
<1> QED
  BY <1>1, <1>2, <1>6, <1>7 DEF end

\* How long a run is in a slot is how many of its times are.
LEMMA OverlapCounts ==
  ASSUME NEW i \in 1 .. Len(Slots), NEW start \in Nat, NEW stop \in Nat
  PROVE  LET shared == (start .. stop - 1) \cap SlotTimes(Slots[i])
         IN  /\ Overlap(Slots[i], start, stop) \in Nat
             /\ IsFiniteSet(shared) /\ Cardinality(shared) = Overlap(Slots[i], start, stop)
<1> DEFINE shared == (start .. stop - 1) \cap SlotTimes(Slots[i])
           a == Slots[i].at
           b == SlotEnd(Slots[i])
           from == Max({a, start})
           to == Min({b, stop})
           d == to - from
<1>1. a \in Nat /\ b \in Nat
  BY SlotsEnd
<1>2. Overlap(Slots[i], start, stop) = Max({0, d})
  BY DEF Overlap
<1>3. SlotTimes(Slots[i]) = a .. b - 1
  BY DEF SlotTimes
<1> HIDE DEF a, b
<1>4. /\ from = IF a <= start THEN start ELSE a
      /\ to = IF b <= stop THEN b ELSE stop
  <2>1. a \in Int /\ b \in Int /\ start \in Int /\ stop \in Int
    BY <1>1
  <2>2. Max({a, start}) = IF a <= start THEN start ELSE a
    BY <2>1, LesserAndGreater
  <2>3. Min({b, stop}) = IF b <= stop THEN b ELSE stop
    BY <2>1, LesserAndGreater
  <2> QED
    BY <2>2, <2>3
<1> HIDE DEF from, to
<1>5. from \in Nat /\ to \in Nat
  BY <1>1, <1>4
<1>6. shared = from .. to - 1
  BY <1>1, <1>3, <1>4
<1> HIDE DEF shared
<1>7. IsFiniteSet(shared) /\ Cardinality(shared) = IF from > to - 1 THEN 0 ELSE to - 1 - from + 1
  BY <1>5, <1>6, FS_Interval
<1>8. Max({0, d}) = IF 0 <= d THEN d ELSE 0
  <2>1. 0 \in Int /\ d \in Int
    BY <1>5
  <2> HIDE DEF d
  <2> QED
    BY <2>1, LesserAndGreater
<1> QED
  BY <1>2, <1>5, <1>7, <1>8 DEF shared

\* The plan pays for a run within the horizon, whatever its slots are.
LEMMA PlanPays ==
  ASSUME NEW start \in Nat, NEW stop \in Nat, start <= stop, stop <= HorizonEnd
  PROVE  PaidFor(start, stop)
<1> DEFINE n == Len(Slots)
           run == start .. stop - 1
           over(i) == Overlap(Slots[i], start, stop)
           step == [i \in 0 + 1 .. n |-> [v \in Int |-> v + over(i)]]
           sum[i \in 0 .. Len(Slots)] ==
             IF i = 0 THEN 0 ELSE sum[i - 1] + Overlap(Slots[i], start, stop)
           met(i) == {t \in run : \E j \in 1 .. i : t \in SlotTimes(Slots[j])}
           shared(i) == run \cap SlotTimes(Slots[i])
<1>1. n \in Nat /\ 0 <= n /\ 0 \in Nat /\ 0 \in Int /\ DOMAIN Slots = 1 .. n /\ HorizonEnd \in Nat
  BY SlotsEnd
<1>2. ASSUME NEW i \in 1 .. n
      PROVE  /\ over(i) \in Nat /\ over(i) \in Int
             /\ IsFiniteSet(shared(i)) /\ Cardinality(shared(i)) = over(i)
  <2>1. over(i) \in Nat /\ IsFiniteSet(shared(i)) /\ Cardinality(shared(i)) = over(i)
    BY OverlapCounts
  <2> HIDE DEF over, shared
  <2> QED
    BY <2>1
<1> HIDE DEF over
<1>3. step \in [0 + 1 .. n -> [Int -> Int]]
  <2>1. ASSUME NEW i \in 0 + 1 .. n PROVE [v \in Int |-> v + over(i)] \in [Int -> Int]
    <3>1. i \in 1 .. n
      BY <1>1
    <3>2. over(i) \in Int
      BY <1>2, <3>1
    <3> QED
      BY <3>2
  <2> QED
    BY <2>1
<1>4. PICK f : Follows(f, Int, 0, n, 0, step)
  <2> HIDE DEF step, n
  <2> QED
    BY <1>1, <1>3, RecursionExists
<1>5. f = [i \in 0 .. n |-> IF i = 0 THEN 0 ELSE f[i - 1] + over(i)]
  <2> HIDE DEF n
  <2>1. ASSUME NEW i \in 0 .. n, i # 0 PROVE f[i] = f[i - 1] + over(i)
    <3>1. i \in 0 + 1 .. n /\ i - 1 \in 0 .. n
      BY <1>1, <2>1
    <3>2. f[i - 1] \in Int
      BY <1>4, <3>1 DEF Follows
    <3>3. f[i] = step[i][f[i - 1]]
      <4> HIDE DEF step
      <4> QED
        BY <1>4, <2>1 DEF Follows
    <3> QED
      BY <3>1, <3>2, <3>3
  <2> HIDE DEF step
  <2> QED
    BY <1>1, <1>4, <2>1 DEF Follows
<1>6. sum = [i \in 0 .. n |-> IF i = 0 THEN 0 ELSE sum[i - 1] + over(i)]
  <2> HIDE DEF step
  <2> QED
    BY <1>5 DEF over
<1>7. IsFiniteSet(run) /\ Cardinality(run) = stop - start
  <2>1. IsFiniteSet(run) /\ Cardinality(run) = IF start > stop - 1 THEN 0 ELSE stop - 1 - start + 1
    BY FS_Interval
  <2> QED
    BY <2>1
<1>8. \A i \in 0 .. n : IsFiniteSet(met(i)) /\ Cardinality(met(i)) \in Nat
  <2> TAKE i \in 0 .. n
  <2>1. met(i) \in SUBSET run
    OBVIOUS
  <2> HIDE DEF met, run
  <2> QED
    BY <1>7, <2>1, FS_Subset, FS_CardinalityType
<1> DEFINE T == {i \in 0 .. n : sum[i] \in Int /\ Cardinality(met(i)) <= sum[i]}
<1>9. 0 \in T
  <2>1. sum[0] = 0
    <3> HIDE DEF sum
    <3> QED
      BY <1>1, <1>6
  <2>2. met(0) = {}
    OBVIOUS
  <2>3. Cardinality(met(0)) = 0
    BY <2>2, FS_EmptySet
  <2> HIDE DEF sum, met
  <2> QED
    BY <1>1, <2>1, <2>3
<1>10. ASSUME NEW i \in 0 + 1 .. n, i - 1 \in T PROVE i \in T
  <2>1. i \in 1 .. n /\ i \in 0 .. n /\ i - 1 \in 0 .. n /\ i # 0
    BY <1>1
  <2>2. sum[i] = sum[i - 1] + over(i)
    <3> HIDE DEF sum
    <3> QED
      BY <1>6, <2>1
  <2>3. met(i) = met(i - 1) \cup shared(i)
    <3>1. \A j : j \in 1 .. i <=> j \in 1 .. i - 1 \/ j = i
      BY <1>1, <2>1
    <3> QED
      BY <3>1
  <2> HIDE DEF met, shared, sum
  <2>4. /\ IsFiniteSet(met(i - 1)) /\ IsFiniteSet(shared(i))
        /\ Cardinality(met(i - 1)) \in Nat /\ Cardinality(shared(i)) = over(i) /\ over(i) \in Nat
    BY <1>2, <1>8, <2>1
  <2>5. Cardinality(met(i)) = Cardinality(met(i - 1)) + Cardinality(shared(i))
                                - Cardinality(met(i - 1) \cap shared(i))
    BY <2>3, <2>4, FS_Union
  <2>6. Cardinality(met(i - 1) \cap shared(i)) \in Nat
    <3>1. met(i - 1) \cap shared(i) \in SUBSET shared(i)
      OBVIOUS
    <3> QED
      BY <2>4, <3>1, FS_Subset, FS_CardinalityType
  <2> QED
    BY <1>10, <2>1, <2>2, <2>4, <2>5, <2>6
<1>11. sum[n] \in Int /\ Cardinality(met(n)) <= sum[n]
  <2> HIDE DEF T
  <2>1. \A i \in 0 .. n : i \in T
    BY <1>1, <1>9, <1>10, Climbs
  <2>2. n \in T
    BY <1>1, <2>1
  <2> QED
    BY <2>2 DEF T
<1> DEFINE missed == run \cap Holes
<1>12. run = met(n) \cup missed
  <2>1. \A t \in run : t \in 0 .. HorizonEnd - 1
    BY <1>1
  <2> QED
    BY <1>1, <2>1 DEF Holes
<1>13. InThePlan(start, stop) = sum[n]
  BY DEF InThePlan
<1> HIDE DEF sum, met
<1>14. IsFiniteSet(missed) /\ Cardinality(missed) \in Nat
  <2>1. missed \in SUBSET run
    OBVIOUS
  <2> HIDE DEF missed, run
  <2> QED
    BY <1>7, <2>1, FS_Subset, FS_CardinalityType
<1>15. Cardinality(run) <= Cardinality(met(n)) + Cardinality(missed)
  <2>1. IsFiniteSet(met(n)) /\ Cardinality(met(n)) \in Nat
    BY <1>1, <1>8
  <2> HIDE DEF missed, run, n
  <2>2. Cardinality(run) = Cardinality(met(n)) + Cardinality(missed)
                             - Cardinality(met(n) \cap missed)
    BY <1>12, <1>14, <2>1, FS_Union
  <2>3. Cardinality(met(n) \cap missed) \in Nat
    <3>1. met(n) \cap missed \in SUBSET missed
      OBVIOUS
    <3> QED
      BY <1>14, <3>1, FS_Subset, FS_CardinalityType
  <2> QED
    BY <1>14, <2>1, <2>2, <2>3
<1>16. Cardinality(met(n)) \in Nat
  BY <1>1, <1>8
<1>17. InThePlan(start, stop) + Cardinality(missed) >= stop - start
  BY <1>7, <1>11, <1>13, <1>14, <1>15, <1>16
<1> QED
  BY <1>17 DEF PaidFor

\* division with a rest
LEMMA Quotient ==
  ASSUME NEW t \in Nat, NEW n \in Nat \ {0}
  PROVE  /\ t \div n \in Nat /\ n * (t \div n) <= t /\ t < n * (t \div n) + n
         /\ n * (t \div n) \in Nat
OBVIOUS

LEMMA Rest ==
  ASSUME NEW t \in Nat, NEW n \in Nat \ {0}
  PROVE  t % n \in 0 .. n - 1 /\ t % n = t - n * (t \div n)
OBVIOUS

\* The quarters of the clock that are tried lie in the window, in order.
LEMMA GridIsInWindow ==
  ASSUME NEW from \in Nat, NEW to \in Int
  PROVE  /\ OnGrid(from, to) \in Seq(Nat)
         /\ \A i \in 1 .. Len(OnGrid(from, to)) :
              from <= OnGrid(from, to)[i] /\ OnGrid(from, to)[i] <= to
         /\ \A i, j \in 1 .. Len(OnGrid(from, to)) :
              i <= j => OnGrid(from, to)[i] <= OnGrid(from, to)[j]
<1> DEFINE k == (from + SlotUnits - 1) \div SlotUnits
           first == k * SlotUnits
           m == IF first > to THEN 0 ELSE (to - first) \div SlotUnits + 1
           grid == [i \in 1 .. m |-> first + (i - 1) * SlotUnits]
<1>1. SlotUnits \in Nat \ {0}
  BY PlacementAssumption
<1>2. k \in Nat /\ first \in Nat /\ from <= first
  <2> DEFINE x == from + SlotUnits - 1
  <2>1. x \in Nat
    BY <1>1
  <2> HIDE DEF x
  <2>2. k \in Nat /\ SlotUnits * k \in Nat /\ x < SlotUnits * k + SlotUnits
    BY <1>1, <2>1, Quotient DEF x
  <2> HIDE DEF k
  <2>3. first = SlotUnits * k
    BY <1>1, <2>2
  <2> HIDE DEF first
  <2> QED
    BY <1>1, <2>2, <2>3 DEF x
<1> HIDE DEF k
<1>3. /\ m \in Nat
      /\ \A i \in 1 .. m : (i - 1) * SlotUnits \in Nat /\ first + (i - 1) * SlotUnits <= to
  <2>1. CASE first > to
    BY <2>1
  <2>2. CASE first <= to
    <3> DEFINE y == to - first
               q == y \div SlotUnits
    <3>1. y \in Nat
      BY <1>2, <2>2
    <3> HIDE DEF y
    <3>2. q \in Nat /\ SlotUnits * q <= y /\ SlotUnits * q \in Nat
      BY <1>1, <3>1, Quotient
    <3>3. m = q + 1
      BY <1>2, <2>2, <3>2 DEF y
    <3> HIDE DEF q, m
    <3>4. ASSUME NEW i \in 1 .. m
          PROVE (i - 1) * SlotUnits \in Nat /\ first + (i - 1) * SlotUnits <= to
      <4>1. i - 1 \in Nat /\ i - 1 <= q
        BY <3>2, <3>3
      <4>2. (i - 1) * SlotUnits <= q * SlotUnits
        BY <1>1, <3>2, <4>1, ProductRises
      <4>3. q * SlotUnits = SlotUnits * q /\ (i - 1) * SlotUnits \in Nat
        BY <1>1, <3>2, <4>1
      <4> DEFINE z == (i - 1) * SlotUnits
                 v == SlotUnits * q
      <4>4. z \in Nat /\ v \in Nat /\ z <= v /\ v <= y
        BY <3>2, <4>2, <4>3
      <4> HIDE DEF z, v, first
      <4>5. z \in Nat /\ first + z <= to
        BY <1>2, <4>4 DEF y
      <4> QED
        BY <4>5 DEF z
    <3> QED
      BY <3>2, <3>3, <3>4
  <2> QED
    BY <1>2, <2>1, <2>2
<1> HIDE DEF m
<1>4. OnGrid(from, to) = grid
  BY DEF OnGrid, m, k
<1> HIDE DEF first
<1>5. ASSUME NEW i \in 1 .. m
      PROVE  grid[i] = first + (i - 1) * SlotUnits /\ (i - 1) * SlotUnits \in Nat
  BY <1>3
<1>6. ASSUME NEW i \in 1 .. m, NEW j \in 1 .. m, i <= j
      PROVE  (i - 1) * SlotUnits <= (j - 1) * SlotUnits
  <2>1. i - 1 \in Nat /\ j - 1 \in Nat /\ i - 1 <= j - 1
    BY <1>3, <1>6
  <2> QED
    BY <1>1, <2>1, ProductRises
<1>7. grid \in [1 .. m -> Nat]
  <2>1. ASSUME NEW i \in 1 .. m PROVE grid[i] \in Nat
    <3> DEFINE z == (i - 1) * SlotUnits
    <3>1. grid[i] = first + z /\ z \in Nat
      BY <1>5
    <3> HIDE DEF z, grid
    <3> QED
      BY <1>2, <3>1
  <2>2. grid = [i \in 1 .. m |-> grid[i]]
    OBVIOUS
  <2> HIDE DEF grid
  <2> QED
    BY <2>1, <2>2
<1>8. grid \in Seq(Nat) /\ Len(grid) = m
  <2> HIDE DEF grid
  <2> QED
    BY <1>3, <1>7
<1>9. ASSUME NEW i \in 1 .. m PROVE from <= grid[i] /\ grid[i] <= to
  <2> DEFINE z == (i - 1) * SlotUnits
  <2>1. grid[i] = first + z /\ z \in Nat
    BY <1>5
  <2>2. first + z <= to
    BY <1>3
  <2> HIDE DEF grid, z
  <2> QED
    BY <1>2, <2>1, <2>2
<1>10. ASSUME NEW i \in 1 .. m, NEW j \in 1 .. m, i <= j PROVE grid[i] <= grid[j]
  <2> DEFINE z == (i - 1) * SlotUnits
             y == (j - 1) * SlotUnits
  <2>1. grid[i] = first + z /\ z \in Nat /\ grid[j] = first + y /\ y \in Nat
    BY <1>5
  <2>2. z <= y
    BY <1>6, <1>10
  <2> HIDE DEF grid, y, z
  <2> QED
    BY <1>2, <2>1, <2>2
<1> HIDE DEF grid
<1> QED
  BY <1>4, <1>8, <1>9, <1>10

\* What is rounded is off by half a unit at most.
LEMMA RoundedIsNear ==
  ASSUME NEW n \in Nat, NEW d \in Nat \ {0}
  PROVE  /\ Rounded(n, d) \in Nat /\ d * Rounded(n, d) \in Nat
         /\ 2 * (d * Rounded(n, d)) <= 2 * n + d
         /\ 2 * n <= 2 * (d * Rounded(n, d)) + d
<1> DEFINE q == n \div d
           z == d * q
           r == n % d
<1>1. q \in Nat /\ z \in Nat /\ r \in 0 .. d - 1 /\ r = n - z
  BY Quotient, Rest
<1>2. d * (q + 1) = z + d
  <2> HIDE DEF q
  <2> QED
    BY <1>1
<1>3. CASE Rounded(n, d) = q + 1
  <2>1. 2 * r >= d
    <3>1. \/ 2 * r > d \/ 2 * r = d
          \/ q = q + 1
      BY <1>3 DEF Rounded
    <3> HIDE DEF q, r
    <3> QED
      BY <1>1, <3>1
  <2>2. d * Rounded(n, d) = z + d /\ Rounded(n, d) \in Nat
    BY <1>1, <1>2, <1>3
  <2> HIDE DEF q, z, r
  <2> QED
    BY <1>1, <2>1, <2>2
<1>4. CASE Rounded(n, d) = q
  <2>1. 2 * r <= d
    <3>1. \/ ~(2 * r > d)
          \/ q = q + 1
      BY <1>4 DEF Rounded
    <3> HIDE DEF q, r
    <3> QED
      BY <1>1, <3>1
  <2>2. d * Rounded(n, d) = z /\ Rounded(n, d) \in Nat
    BY <1>1, <1>4
  <2> HIDE DEF q, z, r
  <2> QED
    BY <1>1, <2>1, <2>2
<1>5. Rounded(n, d) = q + 1 \/ Rounded(n, d) = q
  BY DEF Rounded
<1> QED
  BY <1>3, <1>4, <1>5

\* Rounding keeps order.
LEMMA RoundedRises ==
  ASSUME NEW d \in Nat \ {0}, NEW n \in Nat, NEW o \in Nat, n <= o
  PROVE  Rounded(n, d) <= Rounded(o, d)
<1> DEFINE r == Rounded(n, d)
           s == Rounded(o, d)
<1>1. r \in Nat /\ d * r \in Nat /\ 2 * (d * r) <= 2 * n + d
  BY RoundedIsNear
<1>2. s \in Nat /\ d * s \in Nat /\ 2 * o <= 2 * (d * s) + d
  BY RoundedIsNear
<1>3. n = o => r = s
  OBVIOUS
<1> HIDE DEF r, s
<1>4. ASSUME s + 1 <= r PROVE n = o
  <2> DEFINE x == d * r
             y == d * s
  <2>1. (s + 1) * d <= r * d /\ (s + 1) * d = d * s + d /\ r * d = d * r
    BY <1>1, <1>2, <1>4, ProductRises
  <2>2. x \in Nat /\ y \in Nat /\ y + d <= x /\ 2 * x <= 2 * n + d /\ 2 * o <= 2 * y + d
    BY <1>1, <1>2, <2>1
  <2> HIDE DEF x, y
  <2> QED
    BY <2>2
<1>5. r <= s
  BY <1>1, <1>2, <1>3, <1>4
<1> QED
  BY <1>5 DEF r, s

\* A multiple is rounded to its quotient.
LEMMA RoundedOfMultiple ==
  ASSUME NEW d \in Nat \ {0}, NEW q \in Nat
  PROVE  Rounded(q * d, d) = q
<1> DEFINE n == q * d
           r == Rounded(n, d)
<1>1. n \in Nat /\ n = d * q
  OBVIOUS
<1> HIDE DEF n
<1>2. /\ r \in Nat /\ d * r \in Nat
      /\ 2 * (d * r) <= 2 * n + d /\ 2 * n <= 2 * (d * r) + d
  BY <1>1, RoundedIsNear
<1> HIDE DEF r
<1> DEFINE x == d * r
<1>3. ASSUME r + 1 <= q PROVE FALSE
  <2>1. (r + 1) * d <= q * d /\ (r + 1) * d = d * r + d /\ q * d = d * q
    BY <1>2, <1>3, ProductRises
  <2>2. x \in Nat /\ x + d <= n /\ 2 * n <= 2 * x + d
    BY <1>1, <1>2, <2>1
  <2> HIDE DEF x
  <2> QED
    BY <1>1, <2>2
<1>4. ASSUME q + 1 <= r PROVE FALSE
  <2>1. (q + 1) * d <= r * d /\ (q + 1) * d = d * q + d /\ r * d = d * r
    BY <1>2, <1>4, ProductRises
  <2>2. x \in Nat /\ n + d <= x /\ 2 * x <= 2 * n + d
    BY <1>1, <1>2, <2>1
  <2> HIDE DEF x
  <2> QED
    BY <1>1, <2>2
<1>5. r = q
  BY <1>2, <1>3, <1>4
<1> QED
  BY <1>5 DEF r, n

\* starts to try, in order, none before the one time or after the other
InOrder(s, from, to) ==
  /\ s \in Seq(Nat)
  /\ \A i \in 1 .. Len(s) : from <= s[i] /\ s[i] <= to
  /\ \A i, j \in 1 .. Len(s) : i <= j => s[i] <= s[j]

\* Starts that are thinned out stay in their order and in the window, and some
\* are left (booked_load.py: _candidates).
LEMMA ThinnedKeeps ==
  ASSUME NEW from \in Nat, NEW to \in Int, NEW s, InOrder(s, from, to)
  PROVE  InOrder(Thinned(s), from, to) /\ (s # <<>> => Thinned(s) # <<>>)
<1> DEFINE n == Len(s)
           d == MaxCandidates - 1
           pick(i) == 1 + Rounded((i - 1) * (n - 1), d)
           t == [i \in 1 .. MaxCandidates |-> s[pick(i)]]
<1>1. n \in Nat /\ d \in Nat \ {0} /\ MaxCandidates \in Nat /\ MaxCandidates = d + 1
  BY PlacementAssumption DEF InOrder
<1>2. CASE n <= MaxCandidates
  <2>1. Thinned(s) = s
    BY <1>2 DEF Thinned
  <2> QED
    BY <2>1
<1>3. CASE n > MaxCandidates
  <2>1. n - 1 \in Nat
    BY <1>1, <1>3
  <2>2. ASSUME NEW i \in 1 .. MaxCandidates
        PROVE  (i - 1) * (n - 1) \in Nat /\ pick(i) \in 1 .. n
    <3> DEFINE a == (i - 1) * (n - 1)
               b == (n - 1) * d
               r == Rounded(a, d)
    <3>1. i - 1 \in Nat /\ i - 1 <= d
      BY <1>1
    <3>2. a \in Nat /\ a <= d * (n - 1) /\ d * (n - 1) = b /\ b \in Nat
      BY <1>1, <2>1, <3>1, ProductRises
    <3> HIDE DEF a, b
    <3>3. r \in Nat /\ r <= Rounded(b, d)
      BY <1>1, <3>2, RoundedIsNear, RoundedRises
    <3>4. Rounded(b, d) = n - 1
      BY <1>1, <2>1, RoundedOfMultiple DEF b
    <3> HIDE DEF r
    <3>5. 1 + r \in 1 .. n
      BY <1>1, <2>1, <3>3, <3>4
    <3> QED
      BY <3>2, <3>5 DEF a, r
  <2>3. ASSUME NEW i \in 1 .. MaxCandidates, NEW j \in 1 .. MaxCandidates, i <= j
        PROVE  pick(i) <= pick(j)
    <3> DEFINE a == (i - 1) * (n - 1)
               b == (j - 1) * (n - 1)
    <3>1. i - 1 \in Nat /\ j - 1 \in Nat /\ i - 1 <= j - 1
      BY <1>1, <2>3
    <3>2. a \in Nat /\ b \in Nat /\ a <= b
      BY <2>1, <2>2, <3>1, ProductRises
    <3> HIDE DEF a, b
    <3>3. Rounded(a, d) <= Rounded(b, d) /\ Rounded(a, d) \in Nat /\ Rounded(b, d) \in Nat
      BY <1>1, <3>2, RoundedIsNear, RoundedRises
    <3>4. 1 + Rounded(a, d) <= 1 + Rounded(b, d)
      BY <3>3
    <3> QED
      BY <3>4 DEF a, b
  <2>4. Thinned(s) = t
    <3>1. ~(Len(s) <= MaxCandidates)
      BY <1>1, <1>3
    <3> QED
      BY <3>1 DEF Thinned
  <2> HIDE DEF pick
  <2>5. ASSUME NEW i \in 1 .. MaxCandidates
        PROVE  t[i] = s[pick(i)] /\ t[i] \in Nat /\ from <= t[i] /\ t[i] <= to
    BY <2>2 DEF InOrder
  <2>6. ASSUME NEW i \in 1 .. MaxCandidates, NEW j \in 1 .. MaxCandidates, i <= j
        PROVE  t[i] <= t[j]
    BY <2>2, <2>3, <2>5, <2>6 DEF InOrder
  <2>7. t \in [1 .. MaxCandidates -> Nat]
    <3>1. t = [i \in 1 .. MaxCandidates |-> t[i]]
      OBVIOUS
    <3> HIDE DEF t
    <3> QED
      BY <2>5, <3>1
  <2> HIDE DEF t
  <2>8. t \in Seq(Nat) /\ Len(t) = MaxCandidates /\ t # <<>>
    BY <1>1, <2>7
  <2> QED
    BY <2>4, <2>5, <2>6, <2>8 DEF InOrder
<1> QED
  BY <1>1, <1>2, <1>3

\* A start that is tried leaves the run room to its end, in the window and in
\* the plan, and one is tried if there is one (booked_load.py: _candidates).
LEMMA CandidatesFit ==
  ASSUME NEW r \in Requests
  PROVE  LET latest == Min({r.finish, HorizonEnd}) - r.duration
         IN  /\ InOrder(Candidates(r), r.earliest, latest)
             /\ r.earliest <= latest => Candidates(r) # <<>>
             /\ latest \in Int /\ latest + r.duration <= r.finish
             /\ latest + r.duration <= HorizonEnd
<1> DEFINE latest == Min({r.finish, HorizonEnd}) - r.duration
           grid == OnGrid(r.earliest, latest)
<1>1. r.duration \in Nat /\ r.earliest \in Nat /\ r.finish \in Nat
  BY PlacementAssumption
<1>2. HorizonEnd \in Nat
  BY SlotsEnd
<1>3. latest \in Int /\ latest + r.duration <= r.finish /\ latest + r.duration <= HorizonEnd
  <2>1. Min({r.finish, HorizonEnd}) = IF r.finish <= HorizonEnd THEN r.finish ELSE HorizonEnd
    BY <1>1, <1>2, LesserAndGreater
  <2> QED
    BY <1>1, <1>2, <2>1
<1>4. Candidates(r) = IF grid = <<>> /\ r.earliest <= latest THEN <<r.earliest>>
                      ELSE Thinned(grid)
  BY DEF Candidates
<1> HIDE DEF latest
<1>5. InOrder(grid, r.earliest, latest)
  BY <1>1, <1>3, GridIsInWindow DEF InOrder
<1> HIDE DEF grid
<1>6. CASE grid = <<>> /\ r.earliest <= latest
  <2> DEFINE one == <<r.earliest>>
  <2>1. one \in Seq(Nat) /\ Len(one) = 1 /\ one[1] = r.earliest /\ one # <<>>
    BY <1>1
  <2>2. Candidates(r) = one
    BY <1>4, <1>6
  <2> HIDE DEF one
  <2>3. InOrder(one, r.earliest, latest)
    BY <1>1, <1>6, <2>1 DEF InOrder
  <2>4. InOrder(Candidates(r), r.earliest, latest) /\ Candidates(r) # <<>>
    BY <2>1, <2>2, <2>3
  <2> QED
    BY <1>3, <2>4 DEF latest
<1>7. CASE ~(grid = <<>> /\ r.earliest <= latest)
  <2>1. Candidates(r) = Thinned(grid)
    BY <1>4, <1>7
  <2>2. /\ InOrder(Candidates(r), r.earliest, latest)
        /\ r.earliest <= latest => Candidates(r) # <<>>
    BY <1>1, <1>3, <1>5, <1>7, <2>1, ThinnedKeeps
  <2> QED
    BY <1>3, <2>2 DEF latest
<1> QED
  BY <1>6, <1>7

\* the greatest of one number
LEMMA GreatestOfOne ==
  ASSUME NEW x \in Nat
  PROVE  Max({x}) = x
BY DEF Max

\* a best start so far: none while none is admissible, else the first of the
\* cheapest
FirstCheapest(best, starts, i) ==
  \/ best = {} /\ \A k \in 1 .. i : verdicts[starts[k]] \notin Costs
  \/ \E m \in 1 .. i :
       /\ best = {starts[m]} /\ verdicts[starts[m]] \in Costs
       /\ \A k \in 1 .. i :
            verdicts[starts[k]] \in Costs =>
              \/ verdicts[starts[m]] < verdicts[starts[k]]
              \/ verdicts[starts[m]] = verdicts[starts[k]] /\ starts[m] <= starts[k]

\* One more start is compared, no earlier than those before it.
LEMMA BetterIsFirstCheapest ==
  ASSUME NEW starts \in Seq(Nat), NEW i \in 1 .. Len(starts), NEW best,
         \A k \in 1 .. Len(starts) : k <= i => starts[k] <= starts[i],
         FirstCheapest(best, starts, i - 1)
  PROVE  FirstCheapest(Better(best, starts[i]), starts, i)
<1> DEFINE cost(k) == verdicts[starts[k]]
           new == Better(best, starts[i])
<1>1. Costs \subseteq Nat
  BY PlacementAssumption
<1>2. \A k \in 1 .. Len(starts) : starts[k] \in Nat
  OBVIOUS
<1>3. /\ i \in 1 .. i /\ i - 1 \in Nat
      /\ \A k \in 1 .. i : k \in 1 .. Len(starts) /\ (k # i => k \in 1 .. i - 1)
      /\ \A k \in 1 .. i - 1 : k \in 1 .. i /\ k \in 1 .. Len(starts)
  OBVIOUS
<1>4. CASE cost(i) \notin Costs
  <2>1. new = best
    BY <1>4 DEF Better
  <2>2. FirstCheapest(best, starts, i)
    BY <1>3, <1>4 DEF FirstCheapest
  <2> QED
    BY <2>1, <2>2
<1>5. CASE cost(i) \in Costs /\ best = {}
  <2>1. new = {starts[i]}
    BY <1>5 DEF Better
  <2>2. \A k \in 1 .. i - 1 : cost(k) \notin Costs
    BY <1>5 DEF FirstCheapest
  <2>3. \A k \in 1 .. i : cost(k) \in Costs =>
          \/ cost(i) < cost(k) \/ (cost(i) = cost(k) /\ starts[i] <= starts[k])
    <3> SUFFICES ASSUME NEW k \in 1 .. i, cost(k) \in Costs PROVE k = i
      BY <1>2
    <3> QED
      BY <1>3, <2>2
  <2> QED
    BY <1>3, <1>5, <2>1, <2>3 DEF FirstCheapest
<1>6. CASE cost(i) \in Costs /\ best # {}
  <2>1. PICK m \in 1 .. i - 1 :
          /\ best = {starts[m]} /\ cost(m) \in Costs
          /\ \A k \in 1 .. i - 1 : cost(k) \in Costs =>
               \/ cost(m) < cost(k) \/ (cost(m) = cost(k) /\ starts[m] <= starts[k])
    BY <1>6 DEF FirstCheapest
  <2>2. m \in 1 .. i /\ starts[m] \in Nat /\ starts[m] <= starts[i]
    BY <1>2, <1>3
  <2>3. Max(best) = starts[m]
    BY <2>1, <2>2, GreatestOfOne
  <2>4. cost(m) \in Nat /\ cost(i) \in Nat
    BY <1>1, <1>6, <2>1
  <2>5. new = IF cost(i) < cost(m) THEN {starts[i]} ELSE best
    BY <1>6, <2>3 DEF Better
  <2> HIDE DEF new
  <2>6. CASE cost(i) < cost(m)
    <3>1. ASSUME NEW k \in 1 .. i, cost(k) \in Costs
          PROVE  \/ cost(i) < cost(k) \/ (cost(i) = cost(k) /\ starts[i] <= starts[k])
      <4>1. CASE k = i
        BY <1>2, <4>1
      <4>2. CASE k # i
        <5>1. k \in 1 .. i - 1 /\ cost(k) \in Nat
          BY <1>1, <1>3, <3>1, <4>2
        <5>2. cost(m) < cost(k) \/ cost(m) = cost(k)
          BY <2>1, <3>1, <5>1
        <5>3. cost(i) < cost(k)
          <6> HIDE DEF cost
          <6> QED
            BY <2>4, <2>6, <5>1, <5>2
        <5> QED
          BY <5>3
      <4> QED
        BY <4>1, <4>2
    <3>2. new = {starts[i]}
      BY <2>5, <2>6
    <3>3. FirstCheapest(new, starts, i)
      BY <1>3, <1>6, <3>1, <3>2 DEF FirstCheapest
    <3> QED
      BY <3>3 DEF new
  <2>7. CASE ~(cost(i) < cost(m))
    <3>1. ASSUME NEW k \in 1 .. i, cost(k) \in Costs
          PROVE  \/ cost(m) < cost(k) \/ (cost(m) = cost(k) /\ starts[m] <= starts[k])
      <4>1. CASE k = i
        <5>1. cost(m) <= cost(i)
          <6> HIDE DEF cost
          <6> QED
            BY <2>4, <2>7
        <5>2. cost(m) < cost(i) \/ cost(m) = cost(i)
          <6> HIDE DEF cost
          <6> QED
            BY <2>4, <5>1
        <5> QED
          BY <2>2, <4>1, <5>2
      <4>2. CASE k # i
        BY <1>3, <2>1, <3>1, <4>2
      <4> QED
        BY <4>1, <4>2
    <3>2. new = {starts[m]}
      BY <2>1, <2>5, <2>7
    <3>3. FirstCheapest(new, starts, i)
      BY <2>1, <2>2, <3>1, <3>2 DEF FirstCheapest
    <3> QED
      BY <3>3 DEF new
  <2> QED
    BY <2>6, <2>7
<1> QED
  BY <1>4, <1>5, <1>6

\* What the loop over the candidates ends with (booked_load.py: choose_start).
LEMMA CheapestIsFirst ==
  ASSUME NEW r \in Requests, NEW from \in Nat, NEW to \in Int,
         InOrder(Candidates(r), from, to)
  PROVE  FirstCheapest(CheapestStart(r), Candidates(r), Len(Candidates(r)))
<1> DEFINE starts == Candidates(r)
           n == Len(starts)
           best[i \in 0 .. Len(starts)] ==
             IF i = 0 THEN {} ELSE Better(best[i - 1], starts[i])
           V == SUBSET Nat
           step == [i \in 0 + 1 .. n |-> [v \in V |-> Better(v, starts[i])]]
           T == {i \in 0 .. n : FirstCheapest(best[i], starts, i)}
<1>1. /\ starts \in Seq(Nat) /\ n \in Nat /\ 0 \in Nat /\ 0 <= n
      /\ \A i, j \in 1 .. n : i <= j => starts[i] <= starts[j]
  BY DEF InOrder
<1>2. CheapestStart(r) = best[n]
  BY DEF CheapestStart
<1> HIDE DEF starts
<1>3. step \in [0 + 1 .. n -> [V -> V]]
  <2>1. ASSUME NEW i \in 0 + 1 .. n, NEW v \in V PROVE Better(v, starts[i]) \in V
    <3>1. starts[i] \in Nat
      BY <1>1
    <3> QED
      BY <3>1 DEF Better
  <2> QED
    BY <2>1
<1>4. PICK f : Follows(f, V, 0, n, {}, step)
  <2>1. {} \in V
    OBVIOUS
  <2> HIDE DEF step, n, V
  <2> QED
    BY <1>1, <1>3, <2>1, RecursionExists
<1>5. f = [i \in 0 .. n |-> IF i = 0 THEN {} ELSE Better(f[i - 1], starts[i])]
  <2>1. ASSUME NEW i \in 0 .. n, i # 0 PROVE f[i] = Better(f[i - 1], starts[i])
    <3>1. i \in 0 + 1 .. n /\ i - 1 \in 0 .. n
      BY <1>1, <2>1
    <3>2. f[i - 1] \in V
      <4> HIDE DEF V, n, step
      <4> QED
        BY <1>4, <3>1 DEF Follows
    <3>3. f[i] = step[i][f[i - 1]]
      <4> HIDE DEF step, n, V
      <4> QED
        BY <1>4, <2>1 DEF Follows
    <3> HIDE DEF V, n
    <3> QED
      BY <3>1, <3>2, <3>3
  <2> HIDE DEF step, n, V
  <2> QED
    BY <1>1, <1>4, <2>1 DEF Follows
<1>6. best = [i \in 0 .. n |-> IF i = 0 THEN {} ELSE Better(best[i - 1], starts[i])]
  <2> HIDE DEF step
  <2> QED
    BY <1>5
<1> HIDE DEF best, n
<1>7. 0 \in T
  <2>1. best[0] = {}
    BY <1>1, <1>6
  <2>2. FirstCheapest(best[0], starts, 0)
    BY <2>1 DEF FirstCheapest
  <2> QED
    BY <1>1, <2>2
<1>8. ASSUME NEW i \in 0 + 1 .. n, i - 1 \in T PROVE i \in T
  <2>1. i \in 1 .. n /\ i \in 0 .. n /\ i # 0
    BY <1>1
  <2>2. best[i] = Better(best[i - 1], starts[i])
    BY <1>6, <2>1
  <2>3. FirstCheapest(best[i - 1], starts, i - 1)
    BY <1>8
  <2>4. i \in 1 .. Len(starts) /\ \A k \in 1 .. Len(starts) : k <= i => starts[k] <= starts[i]
    BY <1>1, <2>1 DEF n
  <2>5. FirstCheapest(Better(best[i - 1], starts[i]), starts, i)
    <3> DEFINE b == best[i - 1]
    <3>1. FirstCheapest(b, starts, i - 1)
      BY <2>3
    <3> HIDE DEF b
    <3>2. FirstCheapest(Better(b, starts[i]), starts, i)
      BY <1>1, <2>4, <3>1, BetterIsFirstCheapest
    <3> QED
      BY <3>2 DEF b
  <2> QED
    BY <2>1, <2>2, <2>5
<1>9. n \in T
  <2> HIDE DEF T
  <2>1. \A i \in 0 .. n : i \in T
    BY <1>1, <1>7, <1>8, Climbs
  <2> QED
    BY <1>1, <2>1
<1>10. FirstCheapest(best[n], starts, n)
  BY <1>9
<1>11. CheapestStart(r) = best[n]
  BY <1>2 DEF n
<1> QED
  BY <1>10, <1>11 DEF starts, n

\* The arguments are one of the requests, and only the starts that are tried
\* for it have a plan.
Asked ==
  /\ request \in Requests
  /\ verdicts \in [{Candidates(request)[i] : i \in DOMAIN Candidates(request)} -> Verdicts]

PlacedInv == Asked /\ PlacedAsAsked

\* The start that costs least is admissible and in the plan to its end, none
\* beats it, and there is one if any start is admissible.
LEMMA PlannedStartIsBest ==
  ASSUME Asked
  PROVE  /\ PlannedStart(request) = {} =>
              \A s \in DOMAIN verdicts : ~(usable /\ verdicts[s] \in Costs)
         /\ PlannedStart(request) # {} =>
              LET start == Max(PlannedStart(request))
                  stop == start + request.duration
              IN  /\ request.earliest <= start /\ stop <= request.finish
                  /\ PaidFor(start, stop)
                  /\ \A s \in DOMAIN verdicts \ {start} :
                       verdicts[s] \in Costs =>
                         \/ verdicts[start] < verdicts[s]
                         \/ (verdicts[start] = verdicts[s] /\ start < s)
<1> DEFINE starts == Candidates(request)
           n == Len(starts)
           latest == Min({request.finish, HorizonEnd}) - request.duration
<1>1. /\ request \in Requests /\ request.earliest \in Nat
      /\ request.duration \in Nat /\ request.finish \in Nat
  BY PlacementAssumption DEF Asked
<1>2. /\ InOrder(starts, request.earliest, latest) /\ latest \in Int
      /\ latest + request.duration <= request.finish
      /\ latest + request.duration <= HorizonEnd
  BY <1>1, CandidatesFit
<1>3. FirstCheapest(CheapestStart(request), starts, n)
  BY <1>1, <1>2, CheapestIsFirst
<1>4. DOMAIN verdicts = {starts[i] : i \in 1 .. n}
  <2>1. DOMAIN starts = 1 .. n
    <3> HIDE DEF starts
    <3> QED
      BY <1>2 DEF InOrder
  <2> QED
    BY <2>1 DEF Asked
<1>5. HorizonEnd \in Nat
  BY SlotsEnd
<1> HIDE DEF starts, latest
<1>6. ASSUME PlannedStart(request) = {}, NEW s \in DOMAIN verdicts, usable, verdicts[s] \in Costs
      PROVE  FALSE
  <2>1. CheapestStart(request) = {}
    BY <1>6 DEF PlannedStart
  <2>2. PICK k \in 1 .. n : s = starts[k]
    BY <1>4
  <2> QED
    BY <1>3, <1>6, <2>1, <2>2 DEF FirstCheapest
<1>7. ASSUME PlannedStart(request) # {}
      PROVE  LET start == Max(PlannedStart(request))
                 stop == start + request.duration
             IN  /\ request.earliest <= start /\ stop <= request.finish
                 /\ PaidFor(start, stop)
                 /\ \A s \in DOMAIN verdicts \ {start} :
                      verdicts[s] \in Costs =>
                        \/ verdicts[start] < verdicts[s]
                        \/ (verdicts[start] = verdicts[s] /\ start < s)
  <2>1. PlannedStart(request) = CheapestStart(request)
    BY <1>7 DEF PlannedStart
  <2>2. PICK m \in 1 .. n :
          /\ CheapestStart(request) = {starts[m]} /\ verdicts[starts[m]] \in Costs
          /\ \A k \in 1 .. n :
               verdicts[starts[k]] \in Costs =>
                 \/ verdicts[starts[m]] < verdicts[starts[k]]
                 \/ (verdicts[starts[m]] = verdicts[starts[k]] /\ starts[m] <= starts[k])
    BY <1>3, <1>7, <2>1 DEF FirstCheapest
  <2> DEFINE start == starts[m]
             stop == start + request.duration
  <2>3. start \in Nat /\ request.earliest <= start /\ start <= latest
    BY <1>2 DEF InOrder
  <2>4. Max(PlannedStart(request)) = start
    BY <2>1, <2>2, <2>3, GreatestOfOne
  <2> HIDE DEF start
  <2>5. stop \in Nat /\ start <= stop /\ stop <= request.finish /\ stop <= HorizonEnd
    BY <1>1, <1>2, <1>5, <2>3
  <2>6. PaidFor(start, stop)
    <3> HIDE DEF stop
    <3> QED
      BY <2>3, <2>5, PlanPays
  <2>7. ASSUME NEW s \in DOMAIN verdicts \ {start}, verdicts[s] \in Costs
        PROVE  \/ verdicts[start] < verdicts[s]
               \/ (verdicts[start] = verdicts[s] /\ start < s)
    <3>1. PICK k \in 1 .. n : s = starts[k]
      BY <1>4
    <3>2. \/ verdicts[start] < verdicts[s]
          \/ (verdicts[start] = verdicts[s] /\ start <= s)
      BY <2>2, <2>7, <3>1 DEF start
    <3>3. s \in Nat /\ s # start
      BY <1>2, <3>1 DEF InOrder
    <3> QED
      BY <2>3, <3>2, <3>3
  <2> QED
    BY <2>3, <2>4, <2>5, <2>6, <2>7
<1> QED
  BY <1>6, <1>7

\* The booking that is stored (bookings.py: async_book).
LEMMA PlaceAsAsked ==
  ASSUME Asked, Place
  PROVE  PlacedAsAsked'
<1> DEFINE r == request
           admissible == {s \in DOMAIN verdicts : usable /\ verdicts[s] \in Costs}
           stop == placed'.start + r.duration
<1>1. /\ r \in Requests /\ r.earliest \in Nat
      /\ r.duration \in Nat /\ r.finish \in Nat
  BY PlacementAssumption DEF Asked
<1>2. r.earliest + r.duration <= r.finish
  <2>1. r.finish - r.earliest >= r.duration
    BY DEF Place
  <2> HIDE DEF r
  <2> QED
    BY <1>1, <2>1
<1>3. UNCHANGED <<request, usable, verdicts, spare>>
  BY DEF Place
<1>4. r.earliest + r.duration <= Min({r.finish, HorizonEnd}) => DOMAIN verdicts # {}
  <2> SUFFICES ASSUME r.earliest + r.duration <= Min({r.finish, HorizonEnd})
               PROVE  DOMAIN verdicts # {}
    OBVIOUS
  <2> DEFINE room == Min({r.finish, HorizonEnd})
             latest == room - r.duration
  <2>1. InOrder(Candidates(r), r.earliest, latest) /\ latest \in Int
    BY <1>1, CandidatesFit
  <2>2. r.earliest <= latest => Candidates(r) # <<>>
    BY <1>1, CandidatesFit
  <2>3. HorizonEnd \in Nat
    BY SlotsEnd
  <2>4. room \in Int
    <3>1. room = IF r.finish <= HorizonEnd THEN r.finish ELSE HorizonEnd
      BY <1>1, <2>3, LesserAndGreater
    <3> QED
      BY <1>1, <2>3, <3>1
  <2>5. r.earliest <= latest
    <3> HIDE DEF room
    <3> QED
      BY <1>1, <2>4 DEF room
  <2>6. Candidates(r) # <<>> /\ Candidates(r) \in Seq(Nat)
    BY <2>1, <2>2, <2>5 DEF InOrder
  <2>7. 1 \in DOMAIN Candidates(r)
    BY <2>6
  <2> QED
    BY <2>7 DEF Asked
<1>5. CASE PlannedStart(r) # {}
  <2>1. placed' = [start |-> Max(PlannedStart(r)), reason |-> "lowest plan cost"]
    BY <1>5 DEF Place
  <2>2. /\ r.earliest <= placed'.start /\ stop <= r.finish
        /\ PaidFor(placed'.start, stop)
        /\ \A s \in DOMAIN verdicts \ {placed'.start} :
             verdicts[s] \in Costs =>
               \/ verdicts[placed'.start] < verdicts[s]
               \/ (verdicts[placed'.start] = verdicts[s] /\ placed'.start < s)
    BY <1>5, <2>1, PlannedStartIsBest
  <2>3. placed'.reason = "lowest plan cost"
    BY <2>1
  <2> QED
    BY <1>3, <1>4, <2>2, <2>3 DEF PlacedAsAsked, PaidFor, InThePlan, Overlap, SlotEnd, SlotTimes, HorizonEnd, Holes
<1>6. CASE PlannedStart(r) = {} /\ SunnyStarts(r) # {}
  <2>1. placed' = [start |-> Min(SunnyStarts(r)), reason |-> "fits spare solar"]
    BY <1>6 DEF Place
  <2>2. Min(SunnyStarts(r)) \in SunnyStarts(r)
    <3>1. SunnyStarts(r) \in SUBSET Nat
      BY <1>1 DEF SunnyStarts
    <3> QED
      BY <1>6, <3>1, LeastIsElement
  <2>3. /\ placed'.start \in r.earliest .. r.finish - r.duration
        /\ Carried(placed'.start, stop)
    BY <2>1, <2>2 DEF SunnyStarts
  <2>4. r.earliest <= placed'.start /\ stop <= r.finish
    BY <1>1, <2>3
  <2>5. admissible = {}
    BY <1>6, PlannedStartIsBest
  <2>6. placed'.reason = "fits spare solar" /\ "fits spare solar" # "lowest plan cost"
    BY <2>1
  <2> QED
    BY <1>3, <1>4, <2>3, <2>4, <2>5, <2>6
    DEF PlacedAsAsked, Carried, PaidFor, InThePlan, Overlap, SlotEnd, HorizonEnd
<1>7. CASE PlannedStart(r) = {} /\ SunnyStarts(r) = {}
  <2>1. placed' = [start |-> r.finish - r.duration, reason |-> "deadline"]
    BY <1>7 DEF Place
  <2>2. r.earliest <= placed'.start /\ stop <= r.finish
    BY <1>1, <1>2, <2>1
  <2>3. admissible = {}
    BY <1>7, PlannedStartIsBest
  <2>4. /\ placed'.reason = "deadline"
        /\ "deadline" # "lowest plan cost" /\ "deadline" # "fits spare solar"
    BY <2>1
  <2> QED
    BY <1>3, <1>4, <2>2, <2>3, <2>4 DEF PlacedAsAsked, HorizonEnd, SlotEnd
<1> QED
  BY <1>5, <1>6, <1>7

\* A booking is where it was asked for: at the first of the starts whose plan
\* costs least and in that plan to its end, or in the sun, or at its deadline
\* (engine/booked_load.py: choose_start, pick_start; bookings.py: async_book).
\* For every plan, with holes or without: what falls into a hole is all that it
\* does not pay for.
THEOREM PlacedAsAskedCorrect == PlacementSpec => []PlacedAsAsked
<1>1. PlacementInit => PlacedInv
  BY DEF PlacementInit, PlacedInv, Asked, PlacedAsAsked
<1>2. PlacedInv /\ [Place]_placementVars => PlacedInv'
  <2> SUFFICES ASSUME PlacedInv, [Place]_placementVars PROVE PlacedInv'
    OBVIOUS
  <2>1. UNCHANGED <<request, verdicts>>
    BY DEF Place, placementVars
  <2>2. Asked'
    BY <2>1 DEF PlacedInv, Asked
  <2>3. CASE Place
    BY <2>2, <2>3, PlaceAsAsked DEF PlacedInv
  <2>4. CASE UNCHANGED placementVars
    BY <2>2, <2>4 DEF PlacedInv, PlacedAsAsked, placementVars, Carried, PaidFor, InThePlan,
                      Overlap, SlotEnd, SlotTimes, HorizonEnd, Holes
  <2> QED
    BY <2>3, <2>4
<1>3. PlacedInv => PlacedAsAsked
  BY DEF PlacedInv
<1> QED
  BY <1>1, <1>2, <1>3, PTL DEF PlacementSpec
=============================================================================
