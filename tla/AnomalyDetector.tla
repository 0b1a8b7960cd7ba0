-------------------------- MODULE AnomalyDetector --------------------------
(***************************************************************************)
(* detect_anomalies (app/services/anomaly_detector.py): the mean of the    *)
(* last hours of a parameter against the mean of the day before them, and  *)
(* the telemetry the seed leaves for it (seed.py).                         *)
(*                                                                         *)
(* One parameter of one equipment, read once an hour, with all the rules   *)
(* applied to it; which equipment each rule is meant for is left out.      *)
(* Values are percents of the nominal one (degrees for motor_overheat),    *)
(* and means are exact.                                                    *)
(***************************************************************************)
EXTENDS Integers, FiniteSets

CONSTANTS
    CURRENT_WINDOW_HOURS, BASELINE_WINDOW_HOURS,
    MIN_BASELINE_POINTS, DATA_GAP_HOURS,
    Values,         \* what the parameter may read
    MaxChanges      \* bound: changes of the equipment's condition

ASSUME DetectorAssumption ==
    /\ {CURRENT_WINDOW_HOURS, BASELINE_WINDOW_HOURS, MIN_BASELINE_POINTS,
        DATA_GAP_HOURS, MaxChanges} \subseteq Nat
    /\ Values \subseteq Nat

VARIABLES
    level,          \* what the equipment sends
    history,        \* what it sent, by age in hours
    changes

vars == <<level, history, changes>>

Silent == -1            \* no reading
Absent == -2            \* a reading without the parameter

Horizon == CURRENT_WINDOW_HOURS + BASELINE_WINDOW_HOURS

-----------------------------------------------------------------------------
(* The windows, on the hour or a little later (late) *)

Within(age, hours, late) == age + (IF late THEN 1 ELSE 0) <= hours

Ages(late) == {age \in DOMAIN history : Within(age, Horizon, late)}
Current(late) ==
    {age \in Ages(late) : Within(age, CURRENT_WINDOW_HOURS, late)}

\* Mutated: the baseline of the last day, the current window included.
BaselineToNow(late) ==
    {age \in Ages(late) : Within(age, BASELINE_WINDOW_HOURS, late)}

Baseline(late) == Ages(late) \ Current(late)

\* Mutated: a reading without the parameter counts as zero.
SentPoints(ages) == {age \in ages : history[age] # Silent}

\* The ages at which the parameter has a value.
Points(ages) == {age \in ages : history[age] \notin {Silent, Absent}}

\* The sum of the values: each stands for as many pairs as it has percents.
Sum(ages) ==
    Cardinality(UNION {{age} \X (1..history[age]) : age \in ages})

\* Enough of a baseline, and one to divide by.
Comparable(late) ==
    LET current == Points(Current(late))
        baseline == Points(Baseline(late))
    IN /\ current # {}
       /\ Cardinality(baseline) >= MIN_BASELINE_POINTS
       /\ Sum(baseline) > 0

\* The two sides of 100 * cur / base compared with a percentage.
CurrentSide(late) ==
    100 * Sum(Points(Current(late))) * Cardinality(Points(Baseline(late)))
BaselineSide(late, percent) ==
    percent * Sum(Points(Baseline(late))) * Cardinality(Points(Current(late)))

Below(percent, late) == CurrentSide(late) < BaselineSide(late, percent)
Above(percent, late) == CurrentSide(late) > BaselineSide(late, percent)

Hot(degrees, late) ==
    Sum(Points(Current(late))) >= degrees * Cardinality(Points(Current(late)))
Hotter(degrees, late) ==
    Sum(Points(Current(late))) > degrees * Cardinality(Points(Current(late)))

-----------------------------------------------------------------------------
(* The rules *)

Anomaly(code, severity) == [code |-> code, severity |-> severity]

Debit(late) ==
    {severity \in {"warning", "critical"} :
        \/ severity = "critical" /\ Below(60, late)
        \/ severity = "warning" /\ Below(80, late) /\ ~Below(60, late)}

MotorOverload(late) ==
    {severity \in {"warning", "critical"} :
        \/ severity = "critical" /\ Above(130, late)
        \/ severity = "warning" /\ ~Below(115, late) /\ ~Above(130, late)}

MotorOverheat(late) ==
    {severity \in {"warning", "critical"} :
        \/ severity = "critical" /\ Hotter(125, late)
        \/ severity = "warning" /\ Hot(110, late) /\ ~Hotter(125, late)}

PressureHigh(late) == IF Below(130, late) THEN {} ELSE {"warning"}
PressureLow(late) == IF Above(70, late) THEN {} ELSE {"warning"}

Deviations(late) ==
    {Anomaly("debit_drop", severity) : severity \in Debit(late)}
        \cup {Anomaly("motor_overload", s) : s \in MotorOverload(late)}
        \cup {Anomaly("motor_overheat", s) : s \in MotorOverheat(late)}
        \cup {Anomaly("pressure_high", s) : s \in PressureHigh(late)}
        \cup {Anomaly("pressure_low", s) : s \in PressureLow(late)}

\* Mutated: the age of the first reading of the horizon.
OldestIsOld(late) ==
    \E age \in SentPoints(Ages(late)) : ~Within(age, DATA_GAP_HOURS, late)

\* Nothing at all, or nothing since DATA_GAP_HOURS.
DataGap(late) ==
    \A age \in SentPoints(Ages(late)) : ~Within(age, DATA_GAP_HOURS, late)

_detect_for_equipment(late) ==
    (IF DataGap(late) THEN {Anomaly("data_gap", "critical")} ELSE {})
        \cup (IF Comparable(late) THEN Deviations(late) ELSE {})

-----------------------------------------------------------------------------
(* The telemetry, hour by hour *)

Steady(sent) == [age \in 0..Horizon |-> sent]

\* seed_telemetry_history: a factor on everything of the last 24 hours.
Seeded(factor) ==
    [age \in 0..Horizon |-> IF age <= 24 THEN factor ELSE 100]

\* New equipment, equipment in order, and the targets of the seed.
Init ==
    /\ changes = 0
    /\ \/ level = Silent /\ history = Steady(Silent)
       \/ level = 100 /\ history = Steady(100)
       \/ \E factor \in Values \cap {30, 50, 150} :
             level = factor /\ history = Seeded(factor)

Hour ==
    /\ history' = [age \in 0..Horizon |-> IF age = 0 THEN level
                                                     ELSE history[age - 1]]
    /\ UNCHANGED <<level, changes>>

Change(to) ==
    /\ changes < MaxChanges
    /\ level' = to /\ to # level
    /\ changes' = changes + 1
    /\ UNCHANGED history

Next == Hour \/ \E to \in Values \cup {Silent, Absent} : Change(to)

Spec == Init /\ [][Next]_vars /\ WF_vars(Hour)

-----------------------------------------------------------------------------
(* Properties *)

\* Every rule reports once, with one severity.
TypeOK ==
    /\ level \in Values \cup {Silent, Absent}
    /\ history \in [0..Horizon -> Values \cup {Silent, Absent}]
    /\ changes \in 0..MaxChanges
    /\ \A late \in BOOLEAN :
          \A a, b \in _detect_for_equipment(late) : a.code = b.code => a = b

Reports(code, late) ==
    \E a \in _detect_for_equipment(late) : a.code = code

\* The last hours readings are at one value, those before at another.
Step(hours, from, to) ==
    \A age \in 0..Horizon : history[age] = IF age < hours THEN to ELSE from

\* A rate that falls by half is reported from its third hourly reading until
\* it is almost a day old, when most of the baseline has fallen too: neither
\* a current window only partly fallen nor a baseline only partly normal
\* hides it.
HalvedRateIsReported ==
    \A hours \in 3..23 :
        Step(hours, 100, 50) => \A late \in BOOLEAN : Reports("debit_drop", late)

\* Readings within five percent of the nominal value never raise an alarm but
\* that of the gap, whichever of them are missing or lack the parameter.
NoiseIsQuiet ==
    (\A age \in 0..Horizon : history[age] \in (95..105) \cup {Silent, Absent})
    => \A late \in BOOLEAN :
          _detect_for_equipment(late) \subseteq {Anomaly("data_gap", "critical")}

Quiet == \A late \in BOOLEAN : _detect_for_equipment(late) = {}

\* Equipment that stays in order after whatever happened to it is sooner or
\* later reported in order: no alarm survives its cause.
AlarmsClear == <>[](level = 100) => <>[]Quiet

\* seed.py:568-569: the anomalies of the last 24 hours are put there for the
\* detector to find them on the first start, which is after the seed.
SeededIsFound ==
    /\ history \in {Seeded(30), Seeded(50)} => Reports("debit_drop", TRUE)
    /\ history = Seeded(150) => Reports("motor_overload", TRUE)
=============================================================================
