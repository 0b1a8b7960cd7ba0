---------------------------- MODULE AnomalyProofs ----------------------------
(***************************************************************************)
(* What detect_anomalies reports, and what it leaves alone: noise for any  *)
(* windows, whichever readings are missing; a halved rate for the windows  *)
(* the code has.                                                           *)
(***************************************************************************)
EXTENDS AnomalyDetector, FiniteSetTheorems, TLAPS

-----------------------------------------------------------------------------
(* Sums *)

Units(ages) == UNION {{age} \X (1..history[age]) : age \in ages}

\* Hours of the horizon can be counted.
LEMMA AgesAreFinite ==
    ASSUME NEW n \in Nat, NEW S \in SUBSET (0..n)
    PROVE  IsFiniteSet(S) /\ Cardinality(S) \in Nat
<1>1. IsFiniteSet(0..n)
    BY FS_Interval
<1>2. IsFiniteSet(S)
    BY <1>1, FS_Subset
<1> QED
    BY <1>2, FS_CardinalityType

LEMMA FirstNumbers ==
    ASSUME NEW n \in Nat
    PROVE  IsFiniteSet(1..n) /\ Cardinality(1..n) = n
<1>1. /\ IsFiniteSet(1..n)
      /\ Cardinality(1..n) = IF 1 > n THEN 0 ELSE n - 1 + 1
    BY FS_Interval
<1> QED
    BY <1>1

\* Values between lo and hi have a sum between lo and hi times their number.
LEMMA SumIsBetween ==
    ASSUME NEW S, IsFiniteSet(S), NEW lo \in Nat, NEW hi \in Nat,
           \A age \in S : history[age] \in lo..hi
    PROVE  /\ Sum(S) \in Nat /\ IsFiniteSet(Units(S))
           /\ Cardinality(S) \in Nat
           /\ lo * Cardinality(S) <= Sum(S)
           /\ Sum(S) <= hi * Cardinality(S)
<1>1. /\ S \X (1..lo) \subseteq Units(S)
      /\ Units(S) \subseteq S \X (1..hi)
    BY DEF Units
<1>2. /\ IsFiniteSet(1..lo) /\ Cardinality(1..lo) = lo
      /\ IsFiniteSet(1..hi) /\ Cardinality(1..hi) = hi
    BY FirstNumbers
<1>3. /\ IsFiniteSet(S \X (1..lo)) /\ IsFiniteSet(S \X (1..hi))
      /\ Cardinality(S \X (1..lo)) = Cardinality(S) * lo
      /\ Cardinality(S \X (1..hi)) = Cardinality(S) * hi
    BY <1>2, FS_Product
<1>4. IsFiniteSet(Units(S)) /\ Cardinality(Units(S)) <= Cardinality(S) * hi
    BY <1>1, <1>3, FS_Subset
<1>5. Cardinality(S) * lo <= Cardinality(Units(S))
    BY <1>1, <1>3, <1>4, FS_Subset
<1>6. Sum(S) = Cardinality(Units(S))
    BY DEF Sum, Units
<1>7. PICK n \in Nat : n = Cardinality(S)
    BY FS_CardinalityType
<1>8. lo * n = n * lo /\ hi * n = n * hi
    BY <1>7
<1>9. Cardinality(Units(S)) \in Nat
    BY <1>4, FS_CardinalityType
<1> QED
    BY <1>4, <1>5, <1>6, <1>7, <1>8, <1>9

\* Values that are all the same.
LEMMA SumOfOneValue ==
    ASSUME NEW S, IsFiniteSet(S), NEW v \in Nat,
           \A age \in S : history[age] = v
    PROVE  Sum(S) = v * Cardinality(S) /\ IsFiniteSet(Units(S))
<1> PICK n \in Nat : n = Cardinality(S)
    BY FS_CardinalityType
<1> PICK sum : sum = Sum(S)
    OBVIOUS
<1>1. \A age \in S : history[age] \in v..v
    OBVIOUS
<1>2. sum \in Nat /\ v * n <= sum /\ sum <= v * n /\ IsFiniteSet(Units(S))
    BY <1>1, SumIsBetween
<1>3. sum = v * n
    BY <1>2
<1> QED
    BY <1>2, <1>3

\* The sum over two parts is the sum of theirs.
LEMMA SumAdds ==
    ASSUME NEW S, NEW T, IsFiniteSet(Units(S)), IsFiniteSet(Units(T)),
           S \cap T = {}
    PROVE  Sum(S \cup T) = Sum(S) + Sum(T)
<1>1. /\ Units(S \cup T) = Units(S) \cup Units(T)
      /\ Units(S) \cap Units(T) = {}
    BY DEF Units
<1>2. Cardinality(Units(S) \cap Units(T)) = 0
    BY <1>1, FS_EmptySet
<1>3. Cardinality(Units(S)) \in Nat /\ Cardinality(Units(T)) \in Nat
    BY FS_CardinalityType
<1>4. Cardinality(Units(S \cup T))
          = Cardinality(Units(S)) + Cardinality(Units(T))
              - Cardinality(Units(S) \cap Units(T))
    BY <1>1, FS_Union
<1> QED
    BY <1>2, <1>3, <1>4 DEF Sum, Units

-----------------------------------------------------------------------------
(* The history *)

Readings == Nat \cup {Silent, Absent}

HistoryOK == level \in Readings /\ history \in [0..Horizon -> Readings]

LEMMA HistoryAlways == Spec => []HistoryOK
<1>0. Horizon \in Nat
    BY DetectorAssumption DEF Horizon
<1>1. Init => HistoryOK
    BY DetectorAssumption
    DEF Init, HistoryOK, Readings, Steady, Seeded, Silent
<1>2. HistoryOK /\ [Next]_vars => HistoryOK'
    <2> SUFFICES ASSUME HistoryOK, [Next]_vars PROVE HistoryOK'
        OBVIOUS
    <2>1. CASE Hour
        <3>1. \A age \in 0..Horizon : age # 0 => age - 1 \in 0..Horizon
            BY <1>0
        <3>2. history' \in [0..Horizon -> Readings]
            BY <2>1, <3>1 DEF Hour, HistoryOK
        <3> QED
            BY <2>1, <3>2 DEF Hour, HistoryOK
    <2>2. ASSUME NEW to \in Values \cup {Silent, Absent}, Change(to)
          PROVE  HistoryOK'
        BY <2>2, DetectorAssumption DEF Change, HistoryOK, Readings
    <2>3. CASE UNCHANGED vars
        BY <2>3 DEF vars, HistoryOK
    <2> QED
        BY <2>1, <2>2, <2>3 DEF Next
<1> QED
    BY <1>1, <1>2, PTL DEF Spec

\* The readings of both windows can be counted.
LEMMA WindowsAreFinite ==
    ASSUME HistoryOK, NEW late \in BOOLEAN
    PROVE  /\ Points(Current(late)) \subseteq 0..Horizon
           /\ Points(Baseline(late)) \subseteq 0..Horizon
           /\ IsFiniteSet(Points(Current(late)))
           /\ IsFiniteSet(Points(Baseline(late)))
<1>1. /\ Points(Current(late)) \subseteq 0..Horizon
      /\ Points(Baseline(late)) \subseteq 0..Horizon
    BY DEF HistoryOK, Points, Current, Baseline, Ages
<1>2. Horizon \in Nat
    BY DetectorAssumption DEF Horizon
<1>3. IsFiniteSet(Points(Current(late)))
    BY <1>1, <1>2, AgesAreFinite
<1>4. IsFiniteSet(Points(Baseline(late)))
    BY <1>1, <1>2, AgesAreFinite
<1> QED
    BY <1>1, <1>3, <1>4

-----------------------------------------------------------------------------
(* Noise *)

LEMMA Times ==
    ASSUME NEW a \in Nat, NEW b \in Nat, NEW c \in Nat, a <= b
    PROVE  a * c <= b * c
OBVIOUS

LEMMA NoisySum ==
    ASSUME NEW S, IsFiniteSet(S), \A age \in S : history[age] \in 95..105
    PROVE  /\ Sum(S) \in Nat /\ Cardinality(S) \in Nat
           /\ 95 * Cardinality(S) <= Sum(S)
           /\ Sum(S) <= 105 * Cardinality(S)
<1>1. 95 \in Nat /\ 105 \in Nat
    OBVIOUS
<1> QED
    BY <1>1, SumIsBetween

\* A sum of n values within five percent of 100.
Near(sum, n) == 95 * n <= sum /\ sum <= 105 * n

LEMMA NearTimes ==
    ASSUME NEW sum \in Nat, NEW n \in Nat, NEW c \in Nat, Near(sum, n)
    PROVE  Near(sum * c, n * c)
<1>1. (95 * n) * c <= sum * c /\ sum * c <= (105 * n) * c
    BY Times DEF Near
<1>2. (95 * n) * c = 95 * (n * c) /\ (105 * n) * c = 105 * (n * c)
    OBVIOUS
<1> QED
    BY <1>1, <1>2 DEF Near

\* Two such sums, brought to a common number of values.
LEMMA SidesAreNear ==
    ASSUME NEW sc \in Nat, NEW sb \in Nat, NEW nc \in Nat \ {0},
           NEW nb \in Nat \ {0}, Near(sc, nc), Near(sb, nb)
    PROVE  \E x \in Nat, y \in Nat, z \in Nat \ {0} :
               x = sc * nb /\ y = sb * nc /\ Near(x, z) /\ Near(y, z)
<1>1. Near(sc * nb, nc * nb) /\ Near(sb * nc, nb * nc)
    BY NearTimes
<1>2. nb * nc = nc * nb /\ nc * nb \in Nat \ {0}
    OBVIOUS
<1>3. sc * nb \in Nat /\ sb * nc \in Nat
    OBVIOUS
<1> QED
    BY <1>1, <1>2, <1>3

LEMMA NoiseDeviatesFromNothing ==
    ASSUME HistoryOK, NEW late \in BOOLEAN, Comparable(late),
           \A age \in 0..Horizon :
               history[age] \in (95..105) \cup {Silent, Absent}
    PROVE  Deviations(late) = {}
<1> PICK cur, base : /\ cur = Points(Current(late))
                     /\ base = Points(Baseline(late))
    OBVIOUS
<1>0. /\ cur \subseteq 0..Horizon /\ IsFiniteSet(cur)
      /\ base \subseteq 0..Horizon /\ IsFiniteSet(base)
    BY WindowsAreFinite
<1>1. /\ \A age \in cur : history[age] \in 95..105
      /\ \A age \in base : history[age] \in 95..105
    BY <1>0 DEF Points
<1>2. /\ Sum(cur) \in Nat /\ Cardinality(cur) \in Nat
      /\ 95 * Cardinality(cur) <= Sum(cur)
      /\ Sum(cur) <= 105 * Cardinality(cur)
    BY <1>0, <1>1, NoisySum
<1>3. /\ Sum(base) \in Nat /\ Cardinality(base) \in Nat
      /\ 95 * Cardinality(base) <= Sum(base)
      /\ Sum(base) <= 105 * Cardinality(base)
    BY <1>0, <1>1, NoisySum
<1>4. Cardinality(cur) > 0
    <2>1. cur # {}
        BY DEF Comparable
    <2>2. Cardinality(cur) # 0
        BY <1>0, <2>1, FS_EmptySet
    <2> QED
        BY <1>2, <2>2
<1>5. Cardinality(base) > 0
    BY <1>3 DEF Comparable
<1> PICK sc \in Nat, nc \in Nat \ {0} :
        sc = Sum(cur) /\ nc = Cardinality(cur)
    BY <1>2, <1>4
<1> PICK sb \in Nat, nb \in Nat \ {0} :
        sb = Sum(base) /\ nb = Cardinality(base)
    BY <1>3, <1>5
<1>a. Near(sc, nc) /\ Near(sb, nb)
    BY <1>2, <1>3 DEF Near
<1>b. \E x \in Nat, y \in Nat, z \in Nat \ {0} :
          x = sc * nb /\ y = sb * nc /\ Near(x, z) /\ Near(y, z)
    BY ONLY <1>a, sc \in Nat, sb \in Nat, nc \in Nat \ {0}, nb \in Nat \ {0},
       SidesAreNear
<1> PICK x \in Nat, y \in Nat, z \in Nat \ {0} :
        x = sc * nb /\ y = sb * nc /\ Near(x, z) /\ Near(y, z)
    BY <1>b
<1>6. CurrentSide(late) = 100 * x
    <2>1. (100 * sc) * nb = 100 * x
        OBVIOUS
    <2> QED
        BY <2>1 DEF CurrentSide
<1>7. \A percent \in Nat : BaselineSide(late, percent) = percent * y
    <2>1. \A percent \in Nat : (percent * sb) * nc = percent * y
        OBVIOUS
    <2> QED
        BY <2>1 DEF BaselineSide
<1>8. /\ ~Below(60, late) /\ ~Below(80, late) /\ Below(115, late)
      /\ Below(130, late) /\ ~Above(130, late) /\ Above(70, late)
    <2>1. /\ BaselineSide(late, 60) = 60 * y /\ BaselineSide(late, 80) = 80 * y
          /\ BaselineSide(late, 115) = 115 * y
          /\ BaselineSide(late, 130) = 130 * y
          /\ BaselineSide(late, 70) = 70 * y
        BY <1>7
    <2> QED
        BY <1>6, <2>1 DEF Below, Above, Near
<1>9. ~Hot(110, late) /\ ~Hotter(125, late)
    BY <1>2, <1>4 DEF Hot, Hotter
<1> QED
    BY <1>8, <1>9
    DEF Deviations, Debit, MotorOverload, MotorOverheat, PressureHigh,
        PressureLow

\* Readings within five percent of the nominal value raise no alarm but that of
\* the gap, for any length of the windows, any number of points required and
\* any readings missing.
THEOREM NoiseStaysQuiet == Spec => []NoiseIsQuiet
<1>1. HistoryOK => NoiseIsQuiet
    BY NoiseDeviatesFromNothing DEF NoiseIsQuiet, _detect_for_equipment
<1> QED
    BY <1>1, HistoryAlways, PTL

-----------------------------------------------------------------------------
(* A halved rate *)

\* anomaly_detector.py:31-33.
TheCodesWindows ==
    /\ CURRENT_WINDOW_HOURS = 6 /\ BASELINE_WINDOW_HOURS = 24
    /\ MIN_BASELINE_POINTS = 8

\* The hours of a stretch, from the age `from` on and before the age `to`.
Span(from, to) == from..(to - 1)

LEMMA Stretch ==
    ASSUME NEW from \in Nat, NEW to \in Nat, from <= to
    PROVE  /\ IsFiniteSet(Span(from, to))
           /\ Cardinality(Span(from, to)) = to - from
<1>1. to - 1 \in Int /\ from \in Int
    OBVIOUS
<1>2. /\ IsFiniteSet(from..(to - 1))
      /\ Cardinality(from..(to - 1))
            = IF from > to - 1 THEN 0 ELSE (to - 1) - from + 1
    BY <1>1, FS_Interval
<1> QED
    BY <1>2 DEF Span

\* The sum over a stretch with one reading.
LEMMA LevelStretch ==
    ASSUME NEW from \in Nat, NEW to \in Nat, from <= to, NEW rate \in Nat,
           \A age \in Span(from, to) : history[age] = rate
    PROVE  /\ Sum(Span(from, to)) = rate * (to - from)
           /\ IsFiniteSet(Units(Span(from, to)))
<1>1. /\ IsFiniteSet(Span(from, to))
      /\ Cardinality(Span(from, to)) = to - from
    BY Stretch
<1>2. /\ Sum(Span(from, to)) = rate * Cardinality(Span(from, to))
      /\ IsFiniteSet(Units(Span(from, to)))
    BY <1>1, SumOfOneValue
<1> QED
    BY <1>1, <1>2

\* A reading of the fallen rate, in hours of which all are before the fall, all
\* after it, or some of each.
FallenIn(S, hours) ==
    \A age \in S : history[age] = IF age < hours THEN 50 ELSE 100

LEMMA FallenStretch ==
    ASSUME NEW hours \in Nat, NEW from \in Nat, NEW to \in Nat, from <= to,
           FallenIn(Span(from, to), hours)
    PROVE  /\ hours <= from => Sum(Span(from, to)) = 100 * (to - from)
           /\ hours >= to => Sum(Span(from, to)) = 50 * (to - from)
           /\ from <= hours /\ hours <= to
                => Sum(Span(from, to))
                      = 50 * (hours - from) + 100 * (to - hours)
<1>1. ASSUME hours <= from
      PROVE  Sum(Span(from, to)) = 100 * (to - from)
    <2>1. \A age \in Span(from, to) : history[age] = 100
        BY <1>1 DEF Span, FallenIn
    <2> QED
        BY <2>1, LevelStretch
<1>2. ASSUME hours >= to
      PROVE  Sum(Span(from, to)) = 50 * (to - from)
    <2>1. \A age \in Span(from, to) : history[age] = 50
        BY <1>2 DEF Span, FallenIn
    <2> QED
        BY <2>1, LevelStretch
<1>3. ASSUME from <= hours, hours <= to
      PROVE  Sum(Span(from, to)) = 50 * (hours - from) + 100 * (to - hours)
    <2>1. /\ \A age \in Span(from, hours) : history[age] = 50
          /\ \A age \in Span(hours, to) : history[age] = 100
        BY <1>3 DEF Span, FallenIn
    <2>2. /\ Sum(Span(from, hours)) = 50 * (hours - from)
          /\ IsFiniteSet(Units(Span(from, hours)))
        BY <1>3, <2>1, LevelStretch
    <2>3. /\ Sum(Span(hours, to)) = 100 * (to - hours)
          /\ IsFiniteSet(Units(Span(hours, to)))
        BY <1>3, <2>1, LevelStretch
    <2>4. /\ Span(from, hours) \cap Span(hours, to) = {}
          /\ Span(from, to) = Span(from, hours) \cup Span(hours, to)
        BY <1>3 DEF Span
    <2>5. Sum(Span(from, to)) = Sum(Span(from, hours)) + Sum(Span(hours, to))
        BY <2>2, <2>3, <2>4, SumAdds
    <2> QED
        BY <2>2, <2>3, <2>5
<1> QED
    BY <1>1, <1>2, <1>3

\* The windows of a fall: k hours, and the day before them.
LEMMA FallenWindows ==
    ASSUME NEW k \in Nat, 6 <= k, k <= 7, NEW m \in Nat, m = k + 24,
           NEW hours \in Nat, 3 <= hours, hours <= 23,
           FallenIn(Span(0, m), hours)
    PROVE  /\ Cardinality(Span(0, k)) = k
           /\ Cardinality(Span(k, m)) = 24
           /\ Sum(Span(k, m)) > 0
           /\ (100 * Sum(Span(0, k))) * 24 < (80 * Sum(Span(k, m))) * k
<1>0. 0 \in Nat /\ 0 <= k /\ k <= m
    OBVIOUS
<1>1. Cardinality(Span(0, k)) = k /\ Cardinality(Span(k, m)) = 24
    <2>1. Cardinality(Span(0, k)) = k - 0
        BY <1>0, Stretch
    <2>2. Cardinality(Span(k, m)) = m - k
        BY <1>0, Stretch
    <2> QED
        BY <2>1, <2>2
<1>2. FallenIn(Span(0, k), hours) /\ FallenIn(Span(k, m), hours)
    BY DEF FallenIn, Span
<1>3. /\ hours >= k => Sum(Span(0, k)) = 50 * (k - 0)
      /\ 0 <= hours /\ hours <= k
           => Sum(Span(0, k)) = 50 * (hours - 0) + 100 * (k - hours)
    BY <1>0, <1>2, FallenStretch
<1>4. /\ hours <= k => Sum(Span(k, m)) = 100 * (m - k)
      /\ k <= hours /\ hours <= m
           => Sum(Span(k, m)) = 50 * (hours - k) + 100 * (m - hours)
    BY <1>0, <1>2, FallenStretch
<1> PICK sc, sb : sc = Sum(Span(0, k)) /\ sb = Sum(Span(k, m))
    OBVIOUS
<1>5. sb > 0 /\ (100 * sc) * 24 < (80 * sb) * k
    <2>1. CASE k = 6
        <3>1. \/ sc = 300 /\ sb = 50 * (hours - 6) + 100 * (30 - hours)
              \/ hours <= 6 /\ sc = 50 * hours + 100 * (6 - hours) /\ sb = 2400
            BY <1>3, <1>4, <2>1
        <3>2. (80 * sb) * k = 480 * sb
            BY <2>1, <3>1
        <3> QED
            BY <3>1, <3>2
    <2>2. CASE k = 7
        <3>1. \/ sc = 350 /\ sb = 50 * (hours - 7) + 100 * (31 - hours)
              \/ hours <= 7 /\ sc = 50 * hours + 100 * (7 - hours) /\ sb = 2400
            BY <1>3, <1>4, <2>2
        <3>2. (80 * sb) * k = 560 * sb
            BY <2>2, <3>1
        <3> QED
            BY <3>1, <3>2
    <2> QED
        BY <2>1, <2>2
<1> QED
    BY <1>1, <1>5

LEMMA FallIsSeen ==
    ASSUME HistoryOK, TheCodesWindows, NEW late \in BOOLEAN,
           NEW hours \in 3..23, Step(hours, 100, 50)
    PROVE  Comparable(late) /\ Below(80, late)
<1>1. Horizon = 30 /\ DOMAIN history = 0..30
    BY DEF TheCodesWindows, Horizon, HistoryOK
<1>2. \A age \in 0..30 : history[age] = IF age < hours THEN 50 ELSE 100
    BY <1>1 DEF Step
<1>3. PICK k \in Nat, m \in Nat : /\ 6 <= k /\ k <= 7 /\ m = k + 24
                                 /\ Ages(late) = Span(0, m)
                                 /\ Current(late) = Span(0, k)
    <2>1. CASE late
        <3>1. Ages(late) = 0..29 /\ Current(late) = 0..5
            BY <1>1, <2>1 DEF Ages, Current, Within, TheCodesWindows
        <3> QED
            BY <3>1 DEF Span
    <2>2. CASE ~late
        <3>1. Ages(late) = 0..30 /\ Current(late) = 0..6
            BY <1>1, <2>2 DEF Ages, Current, Within, TheCodesWindows
        <3> QED
            BY <3>1 DEF Span
    <2> QED
        BY <2>1, <2>2
<1>4. Baseline(late) = Span(k, m)
    BY <1>3 DEF Baseline, Span
<1>5. \A ages \in SUBSET (0..30) : Points(ages) = ages
    <2>1. \A age \in 0..30 : history[age] \notin {Silent, Absent}
        BY <1>2 DEF Silent, Absent
    <2> QED
        BY <2>1 DEF Points
<1>6. /\ Points(Current(late)) = Span(0, k)
      /\ Points(Baseline(late)) = Span(k, m)
    <2>1. Span(0, k) \in SUBSET (0..30) /\ Span(k, m) \in SUBSET (0..30)
        BY <1>3 DEF Span
    <2> QED
        BY <1>3, <1>4, <1>5, <2>1
<1>7. hours \in Nat /\ 3 <= hours /\ hours <= 23
    OBVIOUS
<1>8. /\ Cardinality(Span(0, k)) = k
      /\ Cardinality(Span(k, m)) = 24
      /\ Sum(Span(k, m)) > 0
      /\ (100 * Sum(Span(0, k))) * 24 < (80 * Sum(Span(k, m))) * k
    <2>1. Span(0, m) \subseteq 0..30
        BY <1>3 DEF Span
    <2>2. FallenIn(Span(0, m), hours)
        BY <1>2, <2>1 DEF FallenIn
    <2> QED
        BY <1>3, <1>7, <2>2, FallenWindows
<1>9. Span(0, k) # {}
    <2>1. 0 <= k - 1
        BY <1>3
    <2>2. 0 \in Span(0, k)
        BY <1>3, <2>1 DEF Span
    <2> QED
        BY <2>2
<1>10. Comparable(late)
    BY <1>6, <1>8, <1>9 DEF Comparable, TheCodesWindows
<1>11. Below(80, late)
    BY <1>6, <1>8 DEF Below, CurrentSide, BaselineSide
<1> QED
    BY <1>10, <1>11

\* A rate that falls by half is reported from its third hourly reading until it
\* is almost a day old, by the windows of the code, on the hour and after it.
THEOREM HalvingIsReported ==
    ASSUME TheCodesWindows
    PROVE  Spec => []HalvedRateIsReported
<1>1. ASSUME HistoryOK, NEW hours \in 3..23, Step(hours, 100, 50),
             NEW late \in BOOLEAN
      PROVE  Reports("debit_drop", late)
    <2>1. PICK severity \in {"warning", "critical"} : severity \in Debit(late)
        BY <1>1, FallIsSeen DEF Debit
    <2>2. Anomaly("debit_drop", severity) \in _detect_for_equipment(late)
        BY <1>1, <2>1, FallIsSeen DEF Deviations, _detect_for_equipment
    <2> QED
        BY <2>2 DEF Reports, Anomaly
<1>2. HistoryOK => HalvedRateIsReported
    BY <1>1 DEF HalvedRateIsReported
<1> QED
    BY <1>2, HistoryAlways, PTL
=============================================================================
