------------------------- MODULE PriceThresholdProofs -------------------------
(* Theorems about prices: PriceThreshold, for every feed, horizon and          *)
(* shortfall, and every length of the day, the hour and the windows; and the   *)
(* watch on the feeds in PriceInputs, for every feed and length of the watch.  *)
EXTENDS PriceThreshold, PriceInputs, FiniteSetTheorems, SequenceTheorems, TLAPS

-----------------------------------------------------------------------------
(* The order of prices: a percentile and the cheapest are a price of a rank.  *)

\* the times of T that are cheaper than t, or as cheap and earlier
Before(T, feed, t) == {u \in T : feed[u] < feed[t] \/ (feed[u] = feed[t] /\ u < t)}

\* Every rank is that of some time.
LEMMA EveryRank ==
  ASSUME NEW T, IsFiniteSet(T), NEW feed, \A t \in T : t \in Int /\ feed[t] \in Int,
         NEW i \in 0 .. Cardinality(T) - 1
  PROVE  \E t \in T : Cardinality(Before(T, feed, t)) = i
<1> DEFINE n == Cardinality(T)
           rank == [t \in T |-> Cardinality(Before(T, feed, t))]
<1>1. n \in Nat
  BY FS_CardinalityType
<1>2. \A t \in T : IsFiniteSet(Before(T, feed, t)) /\ rank[t] \in 0 .. n - 1
  <2> SUFFICES ASSUME NEW t \in T
               PROVE  IsFiniteSet(Before(T, feed, t)) /\ rank[t] \in 0 .. n - 1
    OBVIOUS
  <2>1. Before(T, feed, t) \in SUBSET T /\ t \notin Before(T, feed, t)
    BY DEF Before
  <2>2. /\ IsFiniteSet(Before(T, feed, t))
        /\ Cardinality(Before(T, feed, t)) <= n
        /\ Cardinality(Before(T, feed, t)) # n
    BY <2>1, FS_Subset
  <2>3. Cardinality(Before(T, feed, t)) \in Nat
    BY <2>2, FS_CardinalityType
  <2> QED
    BY <1>1, <2>2, <2>3
<1>3. \A t, u \in T : u \in Before(T, feed, t) => rank[u] # rank[t]
  <2> SUFFICES ASSUME NEW t \in T, NEW u \in T, u \in Before(T, feed, t)
               PROVE  rank[u] # rank[t]
    OBVIOUS
  <2>1. Before(T, feed, u) \in SUBSET Before(T, feed, t)
    BY DEF Before
  <2>2. u \notin Before(T, feed, u)
    BY DEF Before
  <2> QED
    BY <1>2, <2>1, <2>2, FS_Subset
<1>4. \A t, u \in T : t # u => u \in Before(T, feed, t) \/ t \in Before(T, feed, u)
  BY DEF Before
<1>5. rank \in Injection(T, 0 .. n - 1)
  <2>1. rank \in [T -> 0 .. n - 1]
    BY <1>2
  <2>2. \A t, u \in T : rank[t] = rank[u] => t = u
    BY <1>3, <1>4
  <2> HIDE DEF rank, n
  <2> QED
    BY <2>1, <2>2 DEF Injection, IsInjective
<1>6. IsFiniteSet(0 .. n - 1) /\ Cardinality(0 .. n - 1) = n
  BY <1>1, FS_Interval
<1>7. rank \in Surjection(T, 0 .. n - 1)
  BY <1>5, <1>6, FS_Injection
<1>8. \E t \in T : rank[t] = i
  <2> HIDE DEF rank, n
  <2> QED
    BY <1>7 DEF Surjection, n
<1> QED
  BY <1>8

\* The cheapest of some prices.
LEMMA LeastExists ==
  ASSUME NEW T, IsFiniteSet(T), NEW feed, \A t \in T : t \in Int /\ feed[t] \in Int,
         NEW c \in Int
  PROVE  /\ Min({c} \cup {feed[t] : t \in T}) \in {c} \cup {feed[t] : t \in T}
         /\ Min({c} \cup {feed[t] : t \in T}) \in Int
<1> DEFINE S == {c} \cup {feed[t] : t \in T}
<1>1. \E x \in S : \A y \in S : x <= y
  <2>1. CASE T = {}
    BY <2>1
  <2>2. CASE T # {}
    <3>1. Cardinality(T) \in Nat /\ Cardinality(T) # 0
      BY <2>2, FS_CardinalityType, FS_EmptySet
    <3>2. PICK t \in T : Cardinality(Before(T, feed, t)) = 0
      BY <3>1, EveryRank
    <3>3. Before(T, feed, t) \in SUBSET T
      BY DEF Before
    <3>4. Before(T, feed, t) = {}
      BY <3>2, <3>3, FS_Subset, FS_EmptySet
    <3>5. \A u \in T : feed[t] <= feed[u]
      BY <3>4 DEF Before
    <3>6. CASE c <= feed[t]
      BY <3>5, <3>6
    <3>7. CASE feed[t] <= c
      BY <3>5, <3>7
    <3> QED
      BY <3>6, <3>7
  <2> QED
    BY <2>1, <2>2
<1>2. Min(S) \in S
  BY <1>1 DEF Min
<1>3. S \subseteq Int
  OBVIOUS
<1> QED
  BY <1>2, <1>3

LEMMA OfTwo ==
  ASSUME NEW a \in Int, NEW b \in Int
  PROVE  /\ Min({a, b}) = IF a <= b THEN a ELSE b
         /\ Max({a, b}) = IF a <= b THEN b ELSE a
BY DEF Min, Max

LEMMA OfThree ==
  ASSUME NEW a \in Int, NEW b \in Int, NEW c \in Int
  PROVE  /\ Max({a, b, c}) \in Int
         /\ Max({a, b, c}) >= a /\ Max({a, b, c}) >= b /\ Max({a, b, c}) >= c
<1>1. \E x \in {a, b, c} : \A y \in {a, b, c} : x >= y
  <2>1. CASE a >= b /\ a >= c
    BY <2>1
  <2>2. CASE b >= a /\ b >= c
    BY <2>2
  <2>3. CASE c >= a /\ c >= b
    BY <2>3
  <2> QED
    BY <2>1, <2>2, <2>3
<1>2. Max({a, b, c}) \in {a, b, c} /\ \A y \in {a, b, c} : Max({a, b, c}) >= y
  BY <1>1 DEF Max
<1> QED
  BY <1>2

\* A rounded quotient is at most a half below and above.
LEMMA RoundedNear ==
  ASSUME NEW n \in Int, NEW d \in Nat \ {0}, NEW q \in RoundedPrices(n, d)
  PROVE  q \in Int /\ 2 * (d * q) >= 2 * n - d /\ 2 * (d * q) <= 2 * n + d
<1>1. q \in Int /\ 2 * (n - q * d) \in -d .. d
  BY DEF RoundedPrices
<1>2. q * d = d * q /\ d * q \in Int
  BY <1>1
<1> QED
  BY <1>1, <1>2

LEMMA BasesAreInt ==
  ASSUME NEW feed \in Feeds, NEW horizon \in PlannedHorizons, hour \in 0 .. DayUnits - 1
  PROVE  PercentileBase(feed, horizon) \subseteq Int
<1> DEFINE near == {t \in DOMAIN feed : t \in hour .. hour + DayUnits}
           n == Cardinality(near)
           sorted(i) == feed[CHOOSE t \in near : Cardinality(Before(near, feed, t)) = i]
           scale == 1000 * DayUnits
           factor == Max({DayUnits, 10 * Min({horizon, DayUnits})})
           index == Percentile * factor * (n - 1)
           lower == index \div scale
           part == index % scale
<1>1. /\ DayUnits \in Nat \ {0} /\ hour \in Nat /\ horizon \in Nat /\ Ceiling \in Int
      /\ Percentile \in 0 .. 100
      /\ \A t \in DOMAIN feed : t \in Nat /\ feed[t] \in Int
  BY ThresholdAssumption
<1>2. IsFiniteSet(near) /\ n \in Nat /\ \A t \in near : t \in Int /\ feed[t] \in Int
  <2>1. near \in SUBSET (hour .. hour + DayUnits) /\ IsFiniteSet(hour .. hour + DayUnits)
    BY <1>1, FS_Interval
  <2>2. IsFiniteSet(near)
    BY <2>1, FS_Subset
  <2> QED
    BY <1>1, <2>2, FS_CardinalityType
<1>3. \A i \in 0 .. n - 1 : sorted(i) \in Int
  <2> SUFFICES ASSUME NEW i \in 0 .. n - 1 PROVE sorted(i) \in Int
    OBVIOUS
  <2>1. \E t \in near : Cardinality(Before(near, feed, t)) = i
    <3> HIDE DEF near
    <3> QED
      BY <1>2, EveryRank
  <2>2. (CHOOSE t \in near : Cardinality(Before(near, feed, t)) = i) \in near
    <3> HIDE DEF near
    <3> QED
      BY <2>1
  <2> QED
    <3> HIDE DEF near
    <3> QED
      BY <1>2, <2>2
<1>4. factor \in Nat
  <2>1. Min({horizon, DayUnits}) \in Nat
    BY <1>1, OfTwo
  <2>2. PICK tenfold \in Nat : tenfold = 10 * Min({horizon, DayUnits})
    BY <2>1
  <2>3. DayUnits \in Int /\ tenfold \in Int /\ DayUnits >= 0 /\ tenfold >= 0
    BY <1>1
  <2>4. Max({DayUnits, tenfold}) = IF DayUnits <= tenfold THEN tenfold ELSE DayUnits
    BY <2>3, OfTwo
  <2> QED
    BY <2>2, <2>3, <2>4
<1>5. CASE n = 0
  BY <1>1, <1>5 DEF PercentileBase
<1>6. CASE n # 0
  <2>1. index \in Nat
    <3>1. Percentile * factor \in Nat /\ n - 1 \in Nat
      BY <1>1, <1>2, <1>4, <1>6
    <3> HIDE DEF factor, n
    <3> QED
      BY <3>1
  <2>2. scale \in Nat \ {0}
    BY <1>1
  <2>3. lower \in Nat /\ part \in Nat
    <3> HIDE DEF index, scale
    <3> QED
      BY <2>1, <2>2
  <2>4. PercentileBase(feed, horizon) =
          IF lower + 1 >= n THEN {sorted(n - 1)}
          ELSE RoundedPrices(sorted(lower) * (scale - part) + sorted(lower + 1) * part, scale)
    BY <1>6 DEF PercentileBase, Before
  <2>5. CASE lower + 1 >= n
    <3>1. sorted(n - 1) \in Int
      <4> HIDE DEF sorted, n
      <4> QED
        BY <1>2, <1>3, <1>6
    <3> HIDE DEF sorted, lower, n
    <3> QED
      BY <2>4, <2>5, <3>1
  <2>6. CASE lower + 1 < n
    <3>1. sorted(lower) \in Int /\ sorted(lower + 1) \in Int
      <4> HIDE DEF sorted, lower, n
      <4> QED
        BY <1>2, <1>3, <2>3, <2>6
    <3>2. sorted(lower) * (scale - part) + sorted(lower + 1) * part \in Int
      <4> HIDE DEF sorted, lower, part, scale
      <4> QED
        BY <2>2, <2>3, <3>1
    <3> DEFINE numerator == sorted(lower) * (scale - part) + sorted(lower + 1) * part
    <3>3. PercentileBase(feed, horizon) = RoundedPrices(numerator, scale)
      <4> HIDE DEF sorted, lower, part, scale, n
      <4> QED
        BY <1>2, <2>3, <2>4, <2>6
    <3> HIDE DEF numerator, scale
    <3> QED
      BY <2>2, <3>2, <3>3, RoundedNear DEF numerator
  <2> QED
    <3> HIDE DEF lower, n
    <3> QED
      BY <1>2, <2>3, <2>5, <2>6
<1> QED
  BY <1>5, <1>6

-----------------------------------------------------------------------------
(* The ramp                                                                  *)

\* A longer shortfall has a window no shorter.
LEMMA WindowsGrow ==
  ASSUME NEW short \in Nat, NEW longer \in Nat, short <= longer
  PROVE  /\ UrgencyWindow(short) \in Nat \ {0} /\ UrgencyWindow(longer) \in Nat \ {0}
         /\ UrgencyWindow(short) <= UrgencyWindow(longer)
<1>1. /\ ShortestWindow \in Nat \ {0} /\ LongestWindow \in Nat /\ Margin \in Nat
      /\ ShortestWindow <= LongestWindow
  BY ThresholdAssumption
<1>2. \A x \in Nat :
        /\ Min({LongestWindow, x + Margin}) \in Nat
        /\ Min({LongestWindow, x + Margin}) =
             IF LongestWindow <= x + Margin THEN LongestWindow ELSE x + Margin
  BY <1>1, OfTwo
<1>3. \A m \in Nat : Max({ShortestWindow, m}) = IF ShortestWindow <= m THEN m ELSE ShortestWindow
  BY <1>1, OfTwo
<1> QED
  BY <1>1, <1>2, <1>3 DEF UrgencyWindow

\* Over its window, the ramp rises with the window and stays below the ceiling.
LEMMA RampRises ==
  ASSUME NEW base \in Int, base < Ceiling, NEW left \in Nat,
         NEW v \in Nat \ {0}, NEW w \in Nat \ {0}, v <= w
  PROVE  /\ Ramp(base, left, v) \in Int /\ Ramp(base, left, w) \in Int
         /\ v * Ramp(base, left, w) >= w * Ramp(base, left, v)
         /\ Ramp(base, left, v) <= v * Ceiling
<1> DEFINE rise == Ceiling - base
           Over(x) == IF x <= left THEN 0 ELSE x - left
<1>1. Ceiling \in Int /\ rise \in Nat /\ rise > 0
  BY ThresholdAssumption
<1>2. Over(v) \in Nat /\ Over(w) \in Nat /\ Over(v) <= v
  OBVIOUS
<1>0. ASSUME NEW x \in Nat \ {0}
      PROVE  Ramp(base, left, x) = base * x + rise * Over(x)
  <2>1. PICK over \in Int : over = x - left
    OBVIOUS
  <2>2. Max({over, 0}) = Over(x)
    BY <2>1, OfTwo
  <2>3. Ramp(base, left, x) = base * x + rise * Max({over, 0})
    BY <1>1, <2>1 DEF Ramp
  <2> QED
    BY <2>2, <2>3
<1>3. Ramp(base, left, v) = base * v + rise * Over(v)
  BY <1>0
<1>4. Ramp(base, left, w) = base * w + rise * Over(w)
  BY <1>0
<1>5. v * Over(w) >= w * Over(v)
  <2>1. CASE v <= left
    <3>1. Over(v) = 0
      BY <2>1
    <3> HIDE DEF Over
    <3> QED
      BY <1>2, <3>1
  <2>2. CASE v > left
    <3>1. Over(v) = v - left /\ Over(w) = w - left
      BY <2>2
    <3>2. v * (w - left) = v * w - v * left /\ w * (v - left) = v * w - w * left
      OBVIOUS
    <3>3. v * left <= w * left
      OBVIOUS
    <3> HIDE DEF Over
    <3> QED
      BY <3>1, <3>2, <3>3
  <2> QED
    BY <2>1, <2>2
<1> HIDE DEF Over, rise
<1>6. v * Ramp(base, left, w) = base * v * w + rise * (v * Over(w))
  BY <1>1, <1>2, <1>4
<1>7. w * Ramp(base, left, v) = base * v * w + rise * (w * Over(v))
  BY <1>1, <1>2, <1>3
<1>8. rise * (v * Over(w)) >= rise * (w * Over(v))
  <2>1. v * Over(w) \in Nat /\ w * Over(v) \in Nat
    BY <1>2
  <2> QED
    BY <1>1, <1>5, <2>1
<1>9. Ramp(base, left, v) <= v * Ceiling
  <2>1. rise * Over(v) <= rise * v
    BY <1>1, <1>2
  <2>2. base * v + rise * v = v * Ceiling
    BY <1>1 DEF rise
  <2> QED
    BY <1>1, <1>2, <1>3, <2>1, <2>2
<1>10. base * v * w \in Int /\ rise * (v * Over(w)) \in Int /\ rise * (w * Over(v)) \in Int
  BY <1>1, <1>2
<1>11. Ramp(base, left, v) \in Int /\ Ramp(base, left, w) \in Int
  BY <1>1, <1>2, <1>3, <1>4
<1> QED
  BY <1>6, <1>7, <1>8, <1>9, <1>10, <1>11

\* It rises as the window nears.
LEMMA RampNears ==
  ASSUME NEW base \in Int, base < Ceiling, NEW w \in Nat \ {0},
         NEW left \in Nat, NEW nearer \in Nat, nearer <= left
  PROVE  Ramp(base, left, w) <= Ramp(base, nearer, w)
<1> DEFINE rise == Ceiling - base
<1>1. rise \in Nat /\ Ceiling \in Int /\ ~(Ceiling <= base)
  BY ThresholdAssumption
<1>2. PICK far \in Int, near \in Int : far = w - left /\ near = w - nearer /\ far <= near
  OBVIOUS
<1>3. PICK over \in Nat, nearOver \in Nat :
        over = Max({far, 0}) /\ nearOver = Max({near, 0}) /\ over <= nearOver
  <2>1. Max({far, 0}) = IF far <= 0 THEN 0 ELSE far
    BY OfTwo
  <2>2. Max({near, 0}) = IF near <= 0 THEN 0 ELSE near
    BY OfTwo
  <2> QED
    BY <1>2, <2>1, <2>2
<1>4. /\ Ramp(base, left, w) = base * w + rise * over
      /\ Ramp(base, nearer, w) = base * w + rise * nearOver
  BY <1>1, <1>2, <1>3 DEF Ramp
<1> HIDE DEF rise
<1>5. rise * over <= rise * nearOver
  BY <1>1, <1>3
<1>6. rise * over \in Int /\ rise * nearOver \in Int /\ base * w \in Int
  BY <1>1, <1>3
<1> QED
  BY <1>4, <1>5, <1>6

LEMMA RampIsInt ==
  ASSUME NEW base \in Int, NEW left \in Int, NEW w \in Nat
  PROVE  Ramp(base, left, w) \in Int
<1>1. Ceiling \in Int
  BY ThresholdAssumption
<1>2. Max({w - left, 0}) \in Int
  BY OfTwo
<1> QED
  BY <1>1, <1>2 DEF Ramp

LEMMA TargetIsAhead == 
  ASSUME hour \in 0 .. DayUnits - 1
  PROVE  TargetAt \in Int
<1>1. /\ HourUnits \in Nat \ {0} /\ WindowAt \in Nat /\ DayUnits \in Nat
  BY ThresholdAssumption
<1>2. WindowAt \div HourUnits \in Int
  BY <1>1
<1>3. TargetHour \in Int
  BY <1>1, <1>2 DEF TargetHour
<1> QED
  BY <1>1, <1>3 DEF TargetAt

\* What urgency pays is a price, no less than the ramp rounded, up to the ceiling.
LEMMA UrgentIsRamp ==
  ASSUME NEW feed \in Feeds, NEW base \in Int, NEW short \in Nat,
         hour \in 0 .. DayUnits - 1, NEW r \in UrgentPrices(feed, base, short)
  PROVE  /\ r \in Int
         /\ \E q \in RoundedPrices(Ramp(base, TargetAt - hour, UrgencyWindow(short)),
                                   UrgencyWindow(short)) :
              q \in Int /\ (r >= q \/ r >= Ceiling)
<1> DEFINE w == UrgencyWindow(short)
           ahead == {u \in DOMAIN feed : u >= hour /\ u < TargetAt}
<1>1. w \in Nat \ {0}
  BY WindowsGrow
<1>2. TargetAt \in Int /\ hour \in Nat /\ Ceiling \in Int
  BY TargetIsAhead, ThresholdAssumption
<1>3. PICK q \in RoundedPrices(Ramp(base, TargetAt - hour, w), w) :
        r = Max({Min({q, Ceiling}), CheapestAhead(feed), base})
  BY DEF UrgentPrices, UrgentIn
<1>4. q \in Int
  <2>1. Ramp(base, TargetAt - hour, w) \in Int
    <3> HIDE DEF w
    <3> QED
      BY <1>1, <1>2, RampIsInt
  <2> HIDE DEF w
  <2> QED
    BY <1>1, <1>3, <2>1, RoundedNear
<1>5. CheapestAhead(feed) \in Int
  <2>1. \A t \in ahead : t \in Int /\ feed[t] \in Int
    BY ThresholdAssumption
  <2>2. IsFiniteSet(ahead)
    <3>1. ahead \in SUBSET (hour .. TargetAt)
      BY <1>2, <2>1
    <3>2. IsFiniteSet(hour .. TargetAt)
      BY <1>2, FS_Interval
    <3> HIDE DEF ahead
    <3> QED
      BY <3>1, <3>2, FS_Subset
  <2>3. CheapestAhead(feed) = Min({Ceiling} \cup {feed[t] : t \in ahead})
    BY DEF CheapestAhead
  <2> HIDE DEF ahead
  <2>4. Min({Ceiling} \cup {feed[t] : t \in ahead}) \in Int
    BY <1>2, <2>1, <2>2, LeastExists, Zenon
  <2> QED
    BY <2>3, <2>4
<1>6. Min({q, Ceiling}) \in Int /\ (Min({q, Ceiling}) >= q \/ Min({q, Ceiling}) >= Ceiling)
  BY <1>2, <1>4, OfTwo
<1>7. r \in Int /\ r >= Min({q, Ceiling})
  BY <1>3, <1>5, <1>6, OfThree
<1>8. r >= q \/ r >= Ceiling
  BY <1>2, <1>4, <1>6, <1>7
<1> QED
  BY <1>3, <1>4, <1>7, <1>8

-----------------------------------------------------------------------------
(* The invariant                                                             *)

ThresholdTypes ==
  /\ hour \in 0 .. DayUnits - 1 /\ pressed \in {NoneYet} \cup Nat
  /\ base_cheap_price \in Int /\ planner_threshold_used \in Int
  /\ effective_cheap_price \in Int
  /\ raws \in {<<>>} \cup (Int \X Int)

\* nothing was smoothed before the first raw threshold
SmoothedFromFirst == raws = <<>> => last_raw = NoneYet

\* a promise is of a slot that is still to come
PromiseIsAhead ==
  \A p \in promise :
    \E base \in Int, short \in Nat, slot \in hour .. WindowAt - 1 :
      base < Ceiling /\ p = PlannedRamp(base, short, slot)

ThresholdInv == ThresholdTypes /\ SmoothedFromFirst /\ PromiseIsAhead /\ ShownAsComputed

LEMMA RawsAreInt ==
  ASSUME ThresholdTypes, NEW feed \in Feeds, NEW base \in Int, NEW short \in Nat,
         NEW urges \in BOOLEAN
  PROVE  RawThresholds(urges, feed, base, short) \subseteq Int
BY UrgentIsRamp DEF RawThresholds, ThresholdTypes

\* Between what is shown and the latest raw threshold, however it rounds.
LEMMA SmoothedBetween ==
  ASSUME NEW raw \in Int, NEW shown \in Int, NEW s \in RoundedPrices(3 * raw + 7 * shown, 10)
  PROVE  s \in Int /\ (s \in raw .. shown \/ s \in shown .. raw)
<1>1. 3 * raw + 7 * shown \in Int
  OBVIOUS
<1>2. s \in Int /\ 2 * (10 * s) >= 2 * (3 * raw + 7 * shown) - 10
      /\ 2 * (10 * s) <= 2 * (3 * raw + 7 * shown) + 10
  BY <1>1, RoundedNear
<1> QED
  BY <1>2

LEMMA UrgenciesType ==
  ASSUME NEW short, NEW urgency \in Urgencies(short)
  PROVE  urgency.early \in BOOLEAN /\ urgency.late \in BOOLEAN /\ (urgency.early => BeforeWindow)
<1>1. PICK sunny \in BOOLEAN, reaches \in BOOLEAN, reached \in BOOLEAN :
        urgency = [early |-> Urges(short > 0 /\ ~sunny, short, reached),
                   late  |-> Urges(~reaches, short, reached)]
  BY DEF Urgencies
<1>2. /\ urgency.early = Urges(short > 0 /\ ~sunny, short, reached)
      /\ urgency.late = Urges(~reaches, short, reached)
  BY <1>1, Zenon
<1> QED
  BY <1>2 DEF Urges

LEMMA PassShows ==
  ASSUME ThresholdInv, NEW feed \in Feeds, NEW horizon \in PlannedHorizons,
         NEW short \in Shortfalls, NEW urgency \in Urgencies(short),
         Pass(feed, horizon, short, urgency)
  PROVE  /\ effective_cheap_price' \in Int
         /\ raws' \in Int \X Int
         /\ effective_cheap_price' \in raws'[1] .. raws'[2]
<1>1. short \in Nat /\ urgency.late \in BOOLEAN
  BY ThresholdAssumption, UrgenciesType
<1>2. hour \in 0 .. DayUnits - 1
  BY DEF ThresholdInv, ThresholdTypes
<1>3. PICK base \in PercentileBase(feed, horizon) :
        \E raw \in RawThresholds(urgency.late, feed, base, short) :
          /\ \E kept \in Smoothed(raw) : effective_cheap_price' = kept[1] /\ last_raw' = kept[2]
          /\ raws' = IF raws = <<>> THEN <<raw, raw>>
                     ELSE <<Min({raws[1], raw}), Max({raws[2], raw})>>
  BY DEF Pass
<1>4. PICK raw \in RawThresholds(urgency.late, feed, base, short) :
        /\ \E kept \in Smoothed(raw) : effective_cheap_price' = kept[1] /\ last_raw' = kept[2]
        /\ raws' = IF raws = <<>> THEN <<raw, raw>>
                   ELSE <<Min({raws[1], raw}), Max({raws[2], raw})>>
  BY <1>3
<1>5. raw \in Int
  BY <1>1, <1>2, <1>4, BasesAreInt, RawsAreInt DEF ThresholdInv
<1>6. \/ effective_cheap_price' = raw
      \/ effective_cheap_price' = effective_cheap_price /\ last_raw # NoneYet
      \/ /\ last_raw # NoneYet
         /\ effective_cheap_price' \in RoundedPrices(3 * raw + 7 * effective_cheap_price, 10)
  BY <1>4 DEF Smoothed
<1>7. effective_cheap_price \in Int
  BY DEF ThresholdInv, ThresholdTypes
<1>8. /\ effective_cheap_price' \in Int
      /\ \/ effective_cheap_price' = raw
         \/ /\ last_raw # NoneYet
            /\ \/ effective_cheap_price' \in raw .. effective_cheap_price
               \/ effective_cheap_price' \in effective_cheap_price .. raw
  <2>1. CASE effective_cheap_price' \in RoundedPrices(3 * raw + 7 * effective_cheap_price, 10)
    <3>1. PICK s \in RoundedPrices(3 * raw + 7 * effective_cheap_price, 10) :
            s = effective_cheap_price'
      BY <2>1
    <3>2. s \in Int /\ (s \in raw .. effective_cheap_price \/ s \in effective_cheap_price .. raw)
      BY <1>5, <1>7, SmoothedBetween
    <3> QED
      BY <1>6, <3>1, <3>2
  <2>2. CASE effective_cheap_price' = raw
    BY <1>5, <2>2
  <2>3. CASE effective_cheap_price' = effective_cheap_price /\ last_raw # NoneYet
    BY <1>5, <1>7, <2>3
  <2> QED
    BY <1>6, <2>1, <2>2, <2>3
<1>9. CASE raws = <<>>
  <2>1. last_raw = NoneYet
    BY <1>9 DEF ThresholdInv, SmoothedFromFirst
  <2>2. raws' = <<raw, raw>> /\ effective_cheap_price' = raw
    BY <1>4, <1>8, <1>9, <2>1
  <2> QED
    BY <1>5, <2>2
<1>10. CASE raws # <<>>
  <2>1. /\ raws[1] \in Int /\ raws[2] \in Int
        /\ effective_cheap_price >= raws[1] /\ effective_cheap_price <= raws[2]
    BY <1>7, <1>10 DEF ThresholdInv, ThresholdTypes, ShownAsComputed
  <2>2. PICK low \in Int, high \in Int : low = Min({raws[1], raw}) /\ high = Max({raws[2], raw})
    BY <1>5, <2>1, OfTwo
  <2>3. low <= raw /\ low <= raws[1] /\ high >= raw /\ high >= raws[2]
    <3>1. /\ low = IF raws[1] <= raw THEN raws[1] ELSE raw
          /\ high = IF raws[2] <= raw THEN raw ELSE raws[2]
      BY <1>5, <2>1, <2>2, OfTwo
    <3> QED
      BY <1>5, <2>1, <3>1
  <2>4. raws' = <<low, high>>
    BY <1>4, <1>10, <2>2
  <2>5. effective_cheap_price' \in low .. high
    BY <1>5, <1>7, <1>8, <2>1, <2>3
  <2> QED
    BY <1>8, <2>4, <2>5
<1> QED
  BY <1>9, <1>10

\* What a pass leaves of the rest.
LEMMA PassPlans ==
  ASSUME ThresholdInv, NEW feed \in Feeds, NEW horizon \in PlannedHorizons,
         NEW short \in Shortfalls, NEW urgency \in Urgencies(short),
         Pass(feed, horizon, short, urgency)
  PROVE  /\ hour' = hour /\ base_cheap_price' \in Int /\ planner_threshold_used' \in Int
         /\ pressed' \in {NoneYet} \cup Nat
         /\ PromiseIsAhead'
         /\ pressed' # NoneYet =>
              /\ pressed' = short /\ hour < WindowAt
              /\ planner_threshold_used' \in UrgentPrices(feed, base_cheap_price', short)
<1>1. short \in Nat /\ urgency.early \in BOOLEAN /\ (urgency.early => BeforeWindow)
  BY ThresholdAssumption, UrgenciesType
<1>2. hour \in 0 .. DayUnits - 1
  BY DEF ThresholdInv, ThresholdTypes
<1>3. PICK base \in PercentileBase(feed, horizon) :
        /\ base_cheap_price' = base /\ pressed' = IF urgency.early THEN short ELSE NoneYet
        /\ planner_threshold_used' \in RawThresholds(urgency.early, feed, base, short)
        /\ \/ UNCHANGED promise
           \/ Ceiling > base /\ \E slot \in hour .. WindowAt - 1 :
                promise' = {PlannedRamp(base, short, slot)}
        /\ UNCHANGED hour
  BY DEF Pass
<1>4. base \in Int
  BY <1>2, BasesAreInt
<1>5. planner_threshold_used' \in Int
  BY <1>1, <1>3, <1>4, RawsAreInt DEF ThresholdInv
<1>6. PromiseIsAhead'
  <2>1. CASE UNCHANGED promise
    BY <1>3, <2>1 DEF ThresholdInv, PromiseIsAhead
  <2>2. CASE Ceiling > base /\ \E slot \in hour .. WindowAt - 1 :
               promise' = {PlannedRamp(base, short, slot)}
    <3>1. base < Ceiling
      BY <1>4, <2>2, ThresholdAssumption
    <3>2. PICK slot \in hour' .. WindowAt - 1 : promise' = {PlannedRamp(base, short, slot)}
      BY <1>3, <2>2
    <3> QED
      BY <1>1, <1>4, <3>1, <3>2 DEF PromiseIsAhead
  <2> QED
    BY <1>3, <2>1, <2>2
<1>7. pressed' # NoneYet =>
        /\ pressed' = short /\ hour < WindowAt
        /\ planner_threshold_used' \in UrgentPrices(feed, base_cheap_price', short)
  BY <1>1, <1>3 DEF RawThresholds, BeforeWindow
<1> QED
  BY <1>1, <1>3, <1>4, <1>5, <1>6, <1>7

LEMMA TimeMoves ==
  ASSUME ThresholdInv, TimePasses
  PROVE  ThresholdInv'
<1>1. DayUnits \in Nat \ {0} /\ WindowAt \in Nat
  BY ThresholdAssumption
<1>2. hour \in 0 .. DayUnits - 1
  BY DEF ThresholdInv, ThresholdTypes
<1>3. hour' \in 0 .. DayUnits - 1
  BY <1>1, <1>2 DEF TimePasses
<1>4. ThresholdTypes'
  BY <1>3 DEF ThresholdInv, ThresholdTypes, TimePasses
<1>5. SmoothedFromFirst' /\ ShownAsComputed'
  BY DEF ThresholdInv, SmoothedFromFirst, ShownAsComputed, TimePasses
<1>6. PromiseIsAhead'
  <2> SUFFICES ASSUME NEW p \in promise'
               PROVE  \E base \in Int, short \in Nat, slot \in hour' .. WindowAt - 1 :
                        base < Ceiling /\ p = PlannedRamp(base, short, slot)
    BY DEF PromiseIsAhead
  <2>1. p \in promise /\ p.slot >= hour'
    BY DEF TimePasses
  <2>2. PICK base \in Int, short \in Nat, slot \in hour .. WindowAt - 1 :
          base < Ceiling /\ p = PlannedRamp(base, short, slot)
    BY <2>1 DEF ThresholdInv, PromiseIsAhead
  <2>3. p.slot = slot
    BY <2>2 DEF PlannedRamp
  <2>4. slot \in hour' .. WindowAt - 1
    BY <1>1, <1>2, <1>3, <2>1, <2>2, <2>3
  <2> QED
    BY <2>2, <2>4
<1> QED
  BY <1>4, <1>5, <1>6 DEF ThresholdInv

LEMMA ThresholdStarts == ThresholdInit => ThresholdInv
BY DEF ThresholdInit, ThresholdInv, ThresholdTypes, SmoothedFromFirst, PromiseIsAhead,
       ShownAsComputed, NoneYet

LEMMA ThresholdStep ==
  ASSUME ThresholdInv, [ThresholdNext]_thresholdVars
  PROVE  ThresholdInv'
<1>1. CASE \E feed \in Feeds, horizon \in PlannedHorizons, short \in Shortfalls :
             \E urgency \in Urgencies(short) : Pass(feed, horizon, short, urgency)
  <2>1. PICK feed \in Feeds, horizon \in PlannedHorizons, short \in Shortfalls :
          \E urgency \in Urgencies(short) : Pass(feed, horizon, short, urgency)
    BY <1>1
  <2>2. PICK urgency \in Urgencies(short) : Pass(feed, horizon, short, urgency)
    BY <2>1
  <2>3. /\ effective_cheap_price' \in Int /\ raws' \in Int \X Int
        /\ effective_cheap_price' \in raws'[1] .. raws'[2]
    BY <2>2, PassShows
  <2>4. /\ hour' = hour /\ base_cheap_price' \in Int /\ planner_threshold_used' \in Int
        /\ pressed' \in {NoneYet} \cup Nat /\ PromiseIsAhead'
    BY <2>2, PassPlans
  <2>5. ThresholdTypes'
    BY <2>3, <2>4 DEF ThresholdInv, ThresholdTypes
  <2>6. raws' # <<>>
    BY <2>3
  <2> QED
    BY <2>3, <2>4, <2>5, <2>6 DEF ThresholdInv, SmoothedFromFirst, ShownAsComputed
<1>2. CASE TimePasses
  BY <1>2, TimeMoves
<1>3. CASE CalculatorRestarts
  <2>1. ThresholdTypes' /\ SmoothedFromFirst' /\ ShownAsComputed'
    BY <1>3 DEF CalculatorRestarts, ThresholdInv, ThresholdTypes, SmoothedFromFirst,
                ShownAsComputed
  <2>2. PromiseIsAhead'
    BY <1>3 DEF CalculatorRestarts, ThresholdInv, PromiseIsAhead
  <2> QED
    BY <2>1, <2>2 DEF ThresholdInv
<1>4. CASE UNCHANGED thresholdVars
  <2>1. ThresholdTypes' /\ SmoothedFromFirst' /\ ShownAsComputed'
    BY <1>4 DEF thresholdVars, ThresholdInv, ThresholdTypes, SmoothedFromFirst, ShownAsComputed
  <2>2. PromiseIsAhead'
    BY <1>4 DEF thresholdVars, ThresholdInv, PromiseIsAhead
  <2> QED
    BY <2>1, <2>2 DEF ThresholdInv
<1> QED
  BY <1>1, <1>2, <1>3, <1>4 DEF ThresholdNext

LEMMA ThresholdInvariance == ThresholdSpec => []ThresholdInv
BY ThresholdStarts, ThresholdStep, PTL DEF ThresholdSpec

\* The target hour is no later than the window; before it, it is the target.
LEMMA TargetIsNoLater ==
  /\ TargetHour \in Int /\ TargetHour <= WindowAt
  /\ hour < TargetHour => TargetAt = TargetHour
<1>1. HourUnits \in Nat \ {0} /\ WindowAt \in Nat
  BY ThresholdAssumption
<1>2. PICK q \in Int : q = WindowAt \div HourUnits
  BY <1>1
<1>3. q * HourUnits <= WindowAt
  BY <1>1, <1>2
<1>4. TargetHour = q * HourUnits
  BY <1>2 DEF TargetHour
<1>5. TargetHour \in Int /\ TargetHour <= WindowAt
  BY <1>1, <1>3, <1>4
<1> QED
  BY <1>5 DEF TargetAt

\* A pass at the slot of a promise keeps it.
LEMMA PassHonours ==
  ASSUME ThresholdInv, hour < TargetHour,
         NEW feed \in Feeds, NEW base \in Int, base < Ceiling,
         NEW promised \in Nat, NEW short \in Nat, promised <= short,
         NEW used \in UrgentPrices(feed, base, short)
  PROVE  LET p == PlannedRamp(base, promised, hour)
         IN 2 * p.window * used >= 2 * p.ramp - p.window
<1> DEFINE v == UrgencyWindow(promised)
           w == UrgencyWindow(short)
           left == WindowAt - hour
           nearer == TargetHour - hour
           ramp == Ramp(base, left, v)
           risen == Ramp(base, nearer, v)
           paid == Ramp(base, nearer, w)
<1>1. hour \in 0 .. DayUnits - 1 /\ hour \in Nat /\ WindowAt \in Nat /\ Ceiling \in Int
  BY ThresholdAssumption DEF ThresholdInv, ThresholdTypes
<1>2. left \in Nat /\ nearer \in Nat /\ nearer <= left
  BY <1>1, TargetIsNoLater
<1>3. v \in Nat \ {0} /\ w \in Nat \ {0} /\ v <= w
  BY WindowsGrow
<1>4. TargetAt - hour = nearer
  BY TargetIsNoLater
<1>5. used \in Int /\ \E q \in RoundedPrices(paid, w) : q \in Int /\ (used >= q \/ used >= Ceiling)
  BY <1>1, <1>4, UrgentIsRamp
<1> HIDE DEF v, w, left, nearer
<1>6. ramp \in Int /\ paid \in Int /\ v * paid >= w * ramp /\ ramp <= v * Ceiling
  <2>1. /\ risen \in Int /\ paid \in Int
        /\ v * paid >= w * risen /\ risen <= v * Ceiling
    BY <1>2, <1>3, RampRises
  <2>2. ramp \in Int
    BY <1>2, <1>3, RampIsInt
  <2>3. ramp <= risen
    BY <1>2, <1>3, RampNears
  <2> HIDE DEF ramp, risen, paid
  <2>4. w * ramp <= w * risen
    BY <1>3, <2>1, <2>2, <2>3
  <2>5. w * ramp \in Int /\ w * risen \in Int /\ v * paid \in Int /\ v * Ceiling \in Int
    BY <1>1, <1>3, <2>1, <2>2
  <2> QED
    BY <2>1, <2>2, <2>3, <2>4, <2>5
<1> HIDE DEF ramp, paid
<1>7. PICK q \in RoundedPrices(paid, w) : q \in Int /\ (used >= q \/ used >= Ceiling)
  BY <1>5
<1>8. 2 * (v * used) >= 2 * ramp - v
  <2>1. CASE used >= Ceiling
    <3>1. v * used >= v * Ceiling
      BY <1>1, <1>3, <1>5, <2>1
    <3>2. v * used \in Int /\ v * Ceiling \in Int
      BY <1>1, <1>3, <1>5
    <3> QED
      BY <1>3, <1>6, <3>1, <3>2
  <2>2. CASE used >= q
    <3>1. 2 * (w * q) >= 2 * paid - w
      BY <1>3, <1>6, <1>7, RoundedNear
    <3>2. w * used >= w * q
      BY <1>3, <1>5, <1>7, <2>2
    <3>3. PICK x \in Int : x = 2 * (w * used) - (2 * paid - w)
      BY <1>3, <1>5, <1>6
    <3>4. x >= 0
      BY <1>3, <1>5, <1>6, <1>7, <3>1, <3>2, <3>3
    <3>5. v * x >= 0
      BY <1>3, <3>4
    <3>6. v * x = w * (2 * (v * used)) - 2 * (v * paid) + w * v
      BY <1>3, <1>5, <1>6, <3>3
    <3>7. w * (2 * (v * used) - 2 * ramp + v)
            = w * (2 * (v * used)) - 2 * (w * ramp) + w * v
      BY <1>3, <1>5, <1>6
    <3>8. w * (2 * (v * used) - 2 * ramp + v) >= 0
      BY <1>3, <1>5, <1>6, <3>5, <3>6, <3>7
    <3>9. PICK y \in Int : y = 2 * (v * used) - 2 * ramp + v
      BY <1>3, <1>5, <1>6
    <3>10. y >= 0
      BY <1>3, <3>8, <3>9
    <3> QED
      BY <1>3, <1>5, <1>6, <3>9, <3>10
  <2> QED
    BY <1>7, <2>1, <2>2
<1>9. PlannedRamp(base, promised, hour).ramp = ramp /\ PlannedRamp(base, promised, hour).window = v
  BY DEF PlannedRamp, ramp, v, left
<1>10. 2 * v * used = 2 * (v * used)
  BY <1>3, <1>5
<1> QED
  BY <1>8, <1>9, <1>10

LEMMA RampIsHonouredNext ==
  ASSUME ThresholdInv, RampIsHonoured, [ThresholdNext]_thresholdVars
  PROVE  RampIsHonoured'
<1>1. ThresholdInv'
  BY ThresholdStep
<1>2. \A p \in promise' : p.short \in Nat
  BY <1>1 DEF ThresholdInv, PromiseIsAhead, PlannedRamp
<1>3. CASE pressed' = NoneYet
  BY <1>2, <1>3 DEF RampIsHonoured, NoneYet
<1>4. CASE \E feed \in Feeds, horizon \in PlannedHorizons, short \in Shortfalls :
             \E urgency \in Urgencies(short) : Pass(feed, horizon, short, urgency)
  <2>1. PICK feed \in Feeds, horizon \in PlannedHorizons, short \in Shortfalls :
          \E urgency \in Urgencies(short) : Pass(feed, horizon, short, urgency)
    BY <1>4
  <2>2. PICK urgency \in Urgencies(short) : Pass(feed, horizon, short, urgency)
    BY <2>1
  <2>3. /\ hour' = hour /\ base_cheap_price' \in Int
        /\ pressed' # NoneYet =>
              /\ pressed' = short /\ hour < WindowAt
              /\ planner_threshold_used' \in UrgentPrices(feed, base_cheap_price', short)
    BY <2>2, PassPlans
  <2> SUFFICES ASSUME pressed' # NoneYet, NEW p \in promise', p.slot = hour',
                      hour' < TargetHour, base_cheap_price' = p.base, pressed' >= p.short
               PROVE  2 * p.window * planner_threshold_used' >= 2 * p.ramp - p.window
    BY <1>3 DEF RampIsHonoured
  <2>4. PICK base \in Int, promised \in Nat, slot \in hour' .. WindowAt - 1 :
          base < Ceiling /\ p = PlannedRamp(base, promised, slot)
    BY <1>1 DEF ThresholdInv, PromiseIsAhead
  <2>5. p.slot = slot /\ p.base = base /\ p.short = promised
    BY <2>4 DEF PlannedRamp
  <2>6. p = PlannedRamp(base, promised, hour) /\ base_cheap_price' = base /\ promised <= short
    BY <2>3, <2>4, <2>5
  <2>7. PICK used \in UrgentPrices(feed, base, short) : used = planner_threshold_used'
    BY <2>3, <2>6
  <2>8. short \in Nat
    BY ThresholdAssumption
  <2> QED
    BY <2>3, <2>4, <2>6, <2>7, <2>8, PassHonours
<1>5. CASE TimePasses \/ CalculatorRestarts
  BY <1>3, <1>5 DEF TimePasses, CalculatorRestarts
<1>6. CASE UNCHANGED thresholdVars
  BY <1>6 DEF thresholdVars, RampIsHonoured
<1> QED
  BY <1>4, <1>5, <1>6 DEF ThresholdNext

-----------------------------------------------------------------------------
(* The threshold that is shown lies between the raw thresholds there have     *)
(* been, whatever is smoothed or skipped and however it rounds.               *)
THEOREM ShownAsComputedCorrect == ThresholdSpec => []ShownAsComputed
<1>1. ThresholdInv => ShownAsComputed
  BY DEF ThresholdInv
<1> QED
  BY <1>1, ThresholdInvariance, PTL

(* What the plan took the threshold of a slot to be is granted by the pass at  *)
(* that slot, as long as the live ramp aims at today's window; and what is     *)
(* shown is as computed.                                                       *)
THEOREM ThresholdsHoldCorrect == ThresholdSpec => []ThresholdsHold
<1>1. ThresholdInit => RampIsHonoured
  BY DEF ThresholdInit, RampIsHonoured
<1>2. ThresholdInv /\ RampIsHonoured /\ [ThresholdNext]_thresholdVars => RampIsHonoured'
  BY RampIsHonouredNext
<1>3. ThresholdInv /\ RampIsHonoured => ThresholdsHold
  BY DEF ThresholdInv, ThresholdsHold
<1> QED
  BY <1>1, <1>2, <1>3, ThresholdInvariance, PTL DEF ThresholdSpec

-----------------------------------------------------------------------------
(* The watch on synthetic slots (PriceInputs).                               *)

Healths == [samples : Seq(BOOLEAN), above : 0..Consecutive, below : 0..Consecutive,
            degraded : BOOLEAN, evaluations : Nat, seen : BOOLEAN, warned : BOOLEAN]

\* the newest n of the samples are good, or all of them if there are fewer
GoodSince(samples, n) ==
  \A i \in DOMAIN samples : Len(samples) - i < n => ~samples[i]

\* evaluations in a row that were covered outvote what the window still holds of
\* an outage, and from then on count as recovery
HealthInv ==
  /\ health \in Healths /\ covered \in 0..ClearsWithin
  /\ Len(health.samples) <= MaxSamples
  /\ GoodSince(health.samples, covered)
  /\ covered > MaxSamples \div 2 => health.below >= covered - MaxSamples \div 2
  /\ HealthRecovers

LEMMA SuffixIsGood ==
  ASSUME NEW s \in Seq(BOOLEAN), NEW n \in Int, GoodSince(s, n), NEW m \in 1..(Len(s) + 1)
  PROVE  /\ SubSeq(s, m, Len(s)) \in Seq(BOOLEAN)
         /\ Len(SubSeq(s, m, Len(s))) = Len(s) - m + 1
         /\ GoodSince(SubSeq(s, m, Len(s)), n)
<1>1. PICK l \in Nat : l = Len(s)
  OBVIOUS
<1> DEFINE t == SubSeq(s, m, l)
<1>2. /\ t \in Seq(BOOLEAN) /\ Len(t) = l - m + 1
      /\ \A i \in 1..(l - m + 1) : t[i] = s[m + i - 1]
  BY <1>1, SubSeqProperties
<1> HIDE DEF t
<1>3. DOMAIN t = 1..(l - m + 1) /\ DOMAIN s = 1..l
  BY <1>1, <1>2
<1>4. ASSUME NEW i \in DOMAIN t, Len(t) - i < n PROVE ~t[i]
  <2>1. m + i - 1 \in DOMAIN s /\ Len(s) - (m + i - 1) < n
    BY <1>1, <1>2, <1>3, <1>4
  <2>2. t[i] = s[m + i - 1]
    BY <1>2, <1>3
  <2> QED
    BY <2>1, <2>2 DEF GoodSince
<1> QED
  BY <1>1, <1>2, <1>4 DEF GoodSince, t

LEMMA AppendIsGood ==
  ASSUME NEW s \in Seq(BOOLEAN), NEW n \in Nat, GoodSince(s, n), NEW bad \in BOOLEAN
  PROVE  /\ Append(s, bad) \in Seq(BOOLEAN) /\ Len(Append(s, bad)) = Len(s) + 1
         /\ GoodSince(Append(s, bad), IF bad THEN 0 ELSE n + 1)
<1>1. PICK l \in Nat : l = Len(s)
  OBVIOUS
<1> DEFINE t == Append(s, bad)
<1>2. /\ t \in Seq(BOOLEAN) /\ Len(t) = l + 1
      /\ \A i \in 1..l : t[i] = s[i]
      /\ t[l + 1] = bad
  BY <1>1, AppendProperties
<1> HIDE DEF t
<1>3. DOMAIN t = 1..(l + 1) /\ DOMAIN s = 1..l
  BY <1>1, <1>2
<1>4. ASSUME NEW i \in DOMAIN t, Len(t) - i < (IF bad THEN 0 ELSE n + 1) PROVE ~t[i]
  <2>1. CASE i = l + 1
    <3>1. ~bad
      BY <1>2, <1>4, <2>1
    <3> QED
      BY <1>2, <2>1, <3>1
  <2>2. CASE i # l + 1
    <3>1. i \in 1..l /\ t[i] = s[i]
      BY <1>2, <1>3, <2>2
    <3>2. Len(s) - i < n
      BY <1>1, <1>2, <1>3, <1>4, <3>1
    <3> QED
      BY <1>3, <3>1, <3>2 DEF GoodSince
  <2> QED
    BY <2>1, <2>2
<1> QED
  BY <1>1, <1>2, <1>4 DEF GoodSince, t

\* good samples that are more than half of the window keep the rate low
LEMMA GoodOutvotes ==
  ASSUME NEW s \in Seq(BOOLEAN), NEW n \in Nat, GoodSince(s, n),
         Len(s) \in 1..MaxSamples, n > MaxSamples \div 2
  PROVE  ~RateHigh(s)
<1>1. PICK l \in Nat : l = Len(s)
  OBVIOUS
<1> DEFINE bad == {i \in DOMAIN s : s[i]}
<1>2. bad \subseteq 1..(l - n)
  <2> SUFFICES ASSUME NEW i \in bad PROVE i \in 1..(l - n)
    OBVIOUS
  <2>1. i \in 1..l /\ s[i] /\ i \in DOMAIN s
    BY <1>1
  <2>2. ~(l - i < n)
    BY <1>1, <2>1 DEF GoodSince
  <2> QED
    BY <1>1, <2>1, <2>2
<1> HIDE DEF bad
<1> DEFINE z == l - n
<1>3. z \in Int /\ z = l - n
  BY <1>1
<1> HIDE DEF z
<1>4. IsFiniteSet(1..z) /\ Cardinality(1..z) = IF 1 > z THEN 0 ELSE z
  <2>1. IsFiniteSet(1..z) /\ Cardinality(1..z) = IF 1 > z THEN 0 ELSE z - 1 + 1
    <3>1. 1 \in Int
      OBVIOUS
    <3> QED
      BY <1>3, <3>1, FS_Interval, Zenon
  <2> QED
    BY <1>3, <2>1
<1>5. bad \subseteq 1..z
  BY <1>2, <1>3
<1>6. IsFiniteSet(bad) /\ Cardinality(bad) <= Cardinality(1..z)
  BY <1>4, <1>5, FS_Subset
<1>7. PICK k \in Nat : k = Cardinality(bad)
  BY <1>6, FS_CardinalityType
<1>8. k <= IF 1 > z THEN 0 ELSE z
  BY <1>4, <1>6, <1>7
<1>9. MaxSamples \in Nat /\ l >= 1 /\ l <= MaxSamples
  BY <1>1, InputsAssumption
<1>10. PICK half \in Nat : half = MaxSamples \div 2 /\ MaxSamples <= 2 * half + 1
  BY <1>9
<1>11. ~(2 * k >= l)
  BY <1>3, <1>8, <1>9, <1>10
<1> QED
  BY <1>1, <1>7, <1>11 DEF RateHigh, Synthetic, bad

\* one sample more
LEMMA SampleIsTaken ==
  ASSUME HealthInv, NEW bad \in BOOLEAN, NEW gone \in 0..Len(health.samples),
         health' = Record(health, bad, gone),
         covered' = IF bad THEN 0 ELSE AtMost(covered + 1, ClearsWithin)
  PROVE  HealthInv'
<1> DEFINE h == health
           since == IF bad THEN 0 ELSE covered + 1
           kept == SubSeq(h.samples, gone + 1, Len(h.samples))
           taken == Append(kept, bad)
           samples == Newest(taken)
           high == Len(samples) >= MinSamples /\ RateHigh(samples)
           above == IF high THEN AtMost(h.above + 1, Consecutive) ELSE 0
           below == IF high THEN 0 ELSE AtMost(h.below + 1, Consecutive)
           next == [h EXCEPT !.samples = samples, !.above = above, !.below = below,
                             !.evaluations = AtMost(@ + 1, StartupChecks),
                             !.seen = @ \/ ~bad,
                             !.degraded = IF @ THEN below < Consecutive
                                          ELSE above >= Consecutive]
<1>1. health' = next
  BY DEF Record
<1>2. /\ MaxSamples \in Nat \ {0} /\ Consecutive \in Nat \ {0} /\ StartupChecks \in Nat
      /\ MaxSamples \div 2 \in Nat /\ ClearsWithin = MaxSamples \div 2 + Consecutive
  BY InputsAssumption DEF ClearsWithin
<1>3. /\ h \in Healths /\ covered \in 0..ClearsWithin /\ covered \in Nat
      /\ Len(h.samples) <= MaxSamples /\ GoodSince(h.samples, covered)
      /\ covered > MaxSamples \div 2 => h.below >= covered - MaxSamples \div 2
      /\ covered >= ClearsWithin => ~h.degraded
  BY <1>2 DEF HealthInv, HealthRecovers
<1>4. /\ h.samples \in Seq(BOOLEAN) /\ h.above \in 0..Consecutive
      /\ h.below \in 0..Consecutive /\ h.degraded \in BOOLEAN /\ h.evaluations \in Nat
      /\ h.seen \in BOOLEAN /\ h.warned \in BOOLEAN
  BY <1>3 DEF Healths
<1>5. PICK l \in Nat : l = Len(h.samples)
  BY <1>4
<1>6. /\ kept \in Seq(BOOLEAN) /\ Len(kept) = l - gone /\ GoodSince(kept, covered)
  <2>1. gone + 1 \in 1..(Len(h.samples) + 1)
    BY <1>5
  <2>2. /\ kept \in Seq(BOOLEAN) /\ Len(kept) = Len(h.samples) - (gone + 1) + 1
        /\ GoodSince(kept, covered)
    BY <1>3, <1>4, <2>1, SuffixIsGood
  <2> QED
    BY <1>5, <2>2
<1> HIDE DEF kept
<1>7. /\ taken \in Seq(BOOLEAN) /\ Len(taken) = l - gone + 1 /\ GoodSince(taken, since)
  BY <1>3, <1>5, <1>6, AppendIsGood
<1>8. PICK n \in Nat : n = Len(taken) /\ n >= 1 /\ n <= MaxSamples + 1
  <2>1. gone \in Nat /\ gone <= l /\ l <= MaxSamples /\ MaxSamples \in Nat
    BY <1>2, <1>3, <1>5
  <2> HIDE DEF taken
  <2> QED
    BY <1>7, <2>1
<1> HIDE DEF taken
<1>9. /\ samples \in Seq(BOOLEAN) /\ Len(samples) \in 1..MaxSamples
      /\ GoodSince(samples, since)
  <2>1. CASE n <= MaxSamples
    BY <1>2, <1>7, <1>8, <2>1 DEF Newest
  <2>2. CASE n > MaxSamples
    <3>1. n - MaxSamples + 1 \in 1..(n + 1) /\ since \in Int
      BY <1>2, <1>3, <1>8, <2>2
    <3>2. samples = SubSeq(taken, n - MaxSamples + 1, n)
      BY <1>8, <2>2 DEF Newest
    <3>3. /\ samples \in Seq(BOOLEAN) /\ Len(samples) = n - (n - MaxSamples + 1) + 1
          /\ GoodSince(samples, since)
      BY <1>7, <1>8, <3>1, <3>2, SuffixIsGood
    <3> QED
      BY <1>2, <1>8, <3>3
  <2> QED
    BY <1>2, <1>8, <2>1, <2>2
<1> HIDE DEF samples
<1>10. since > MaxSamples \div 2 => ~high
  BY <1>2, <1>3, <1>9, GoodOutvotes
<1>11. above \in 0..Consecutive /\ below \in 0..Consecutive
  BY <1>2, <1>4 DEF AtMost
<1>12. /\ covered' \in 0..ClearsWithin /\ covered' <= since
       /\ covered' = IF bad THEN 0 ELSE AtMost(covered + 1, ClearsWithin)
  BY <1>2, <1>3 DEF AtMost
<1> HIDE DEF high
<1>13. ASSUME covered' > MaxSamples \div 2
       PROVE  below >= covered' - MaxSamples \div 2 /\ above = 0
  <2>1. since > MaxSamples \div 2 /\ since \in Nat
    BY <1>2, <1>3, <1>12, <1>13
  <2>2. ~high
    BY <1>10, <2>1
  <2>3. ~bad
    BY <1>2, <1>12, <1>13
  <2>4. below = AtMost(h.below + 1, Consecutive) /\ above = 0
    BY <2>2
  <2>5. covered > MaxSamples \div 2 \/ covered + 1 <= MaxSamples \div 2 + 1
    BY <1>2, <1>3
  <2>6. h.below + 1 >= covered + 1 - MaxSamples \div 2
    BY <1>2, <1>3, <1>4, <2>5
  <2> QED
    BY <1>2, <1>3, <1>4, <1>12, <2>3, <2>4, <2>6 DEF AtMost
<1> HIDE DEF above, below
<1>14. /\ next \in Healths /\ next.samples = samples /\ next.below = below
       /\ next.degraded = IF h.degraded THEN below < Consecutive ELSE above >= Consecutive
  <2>1. PICK e \in Nat : e = AtMost(h.evaluations + 1, StartupChecks)
    BY <1>2, <1>4 DEF AtMost
  <2> DEFINE d == IF h.degraded THEN below < Consecutive ELSE above >= Consecutive
             f == h.seen \/ ~bad
  <2>2. d \in BOOLEAN
    <3>1. PICK b \in Int, a \in Int, k \in Int : b = below /\ a = above /\ k = Consecutive
      BY <1>2, <1>11
    <3>2. (b < k) \in BOOLEAN /\ (a >= k) \in BOOLEAN
      OBVIOUS
    <3>3. d = IF h.degraded THEN b < k ELSE a >= k
      BY <3>1
    <3> HIDE DEF d
    <3> QED
      BY <3>2, <3>3, Zenon
  <2>3. f \in BOOLEAN
    OBVIOUS
  <2>4. next = [h EXCEPT !.samples = samples, !.above = above, !.below = below,
                         !.evaluations = e, !.seen = f, !.degraded = d]
    BY <2>1
  <2> HIDE DEF next, h, f, d
  <2>5. next = [samples |-> samples, above |-> above, below |-> below, degraded |-> d,
                evaluations |-> e, seen |-> f, warned |-> h.warned]
    BY <1>3, <2>4 DEF Healths
  <2>6. next \in Healths
    BY <1>4, <1>9, <1>11, <2>2, <2>3, <2>5 DEF Healths
  <2> QED
    BY <2>5, <2>6 DEF d
<1>15. covered' >= ClearsWithin => ~next.degraded
  <2> SUFFICES ASSUME covered' >= ClearsWithin
               PROVE  below >= Consecutive /\ ~(above >= Consecutive)
    BY <1>2, <1>11, <1>14
  <2>1. covered' > MaxSamples \div 2
    BY <1>2, <1>12
  <2> QED
    BY <1>2, <1>12, <1>13, <2>1
<1>16. GoodSince(samples, covered')
  BY <1>2, <1>3, <1>9, <1>12 DEF GoodSince
<1> HIDE DEF next
<1> QED
  BY <1>1, <1>9, <1>12, <1>13, <1>14, <1>15, <1>16 DEF HealthInv, HealthRecovers, GoodSince

LEMMA HealthInvHolds == Spec => []HealthInv
<1>1. Init => HealthInv
  <2> SUFFICES ASSUME Init PROVE HealthInv
    OBVIOUS
  <2>1. /\ MaxSamples \in Nat \ {0} /\ Consecutive \in Nat \ {0}
        /\ MaxSamples \div 2 \in Nat /\ ClearsWithin = MaxSamples \div 2 + Consecutive
    BY InputsAssumption DEF ClearsWithin
  <2>2. health = NoHealth /\ covered = 0
    BY DEF Init
  <2>3. /\ NoHealth \in Healths /\ NoHealth.samples = <<>> /\ ~NoHealth.degraded
        /\ Len(<<>>) = 0
    BY <2>1 DEF NoHealth, Healths
  <2> QED
    BY <2>1, <2>2, <2>3 DEF HealthInv, GoodSince, HealthRecovers
<1>2. HealthInv /\ [Next]_vars => HealthInv'
  <2> SUFFICES ASSUME HealthInv, [Next]_vars PROVE HealthInv'
    OBVIOUS
  <2>1. ASSUME UNCHANGED <<health, covered>> PROVE HealthInv'
    BY <2>1 DEF HealthInv, GoodSince, HealthRecovers, ClearsWithin
  <2>2. CASE Tick \/ ReadGeneral \/ ReadFeedIn \/ RefreshTeslaTariff \/ UNCHANGED vars
    BY <2>1, <2>2 DEF Tick, ReadGeneral, ReadFeedIn, RefreshTeslaTariff, vars
  <2>3. CASE Evaluate
    <3> DEFINE bad == BuildSlots = <<>> \/ Head(BuildSlots).from = "synthetic"
    <3>1. bad \in BOOLEAN
      OBVIOUS
    <3>2. \E gone \in 0..Len(health.samples) : health' = Record(health, bad, gone)
      BY <2>3 DEF Evaluate
    <3>3. covered' = IF bad THEN 0 ELSE AtMost(covered + 1, ClearsWithin)
      BY <2>3 DEF Evaluate
    <3> HIDE DEF bad
    <3> QED
      BY <3>1, <3>2, <3>3, SampleIsTaken
  <2>4. CASE CheckEntityHealth
    <3>1. health' = [health EXCEPT !.warned = TRUE] /\ covered' = covered
      BY <2>4 DEF CheckEntityHealth
    <3>2. /\ health' \in Healths /\ health'.samples = health.samples
          /\ health'.below = health.below /\ health'.degraded = health.degraded
      BY <3>1 DEF HealthInv, Healths
    <3> QED
      BY <3>1, <3>2 DEF HealthInv, GoodSince, HealthRecovers, ClearsWithin
  <2> QED
    BY <2>2, <2>3, <2>4 DEF Next
<1> QED
  BY <1>1, <1>2, PTL DEF Spec

\* A feed that is back is not reported as degraded for longer than the window
\* can hold a majority of bad samples and Consecutive good evaluations take,
\* however the window is pruned: SyntheticSlotHealth.record.
THEOREM HealthRecoversCorrect == Spec => []HealthRecovers
<1>1. HealthInv => HealthRecovers
  BY DEF HealthInv
<1> QED
  BY <1>1, HealthInvHolds, PTL
=============================================================================
