----------------------------- MODULE RuleProofs -----------------------------
(***************************************************************************)
(* The verdict of auto_check_act for every checklist, every set of         *)
(* required and of numeric steps, and every number of response rows for    *)
(* which the double sums are known (FewRows).                              *)
(***************************************************************************)
EXTENDS RuleEngine, FiniteSetTheorems, TLAPS

-----------------------------------------------------------------------------
(* Rows *)

RowsOf(a, steps) ==
    {row \in steps \X (1..MaxListed) : row[2] <= a.listed[row[1]]}

\* The rows of an act are as many as there are.
LEMMA RowsAreFinite ==
    ASSUME NEW a, NEW S \in SUBSET Steps
    PROVE  /\ IsFiniteSet(RowsOf(a, S))
           /\ Rows(a, S) = Cardinality(RowsOf(a, S))
           /\ Rows(a, S) \in Nat
<1>1. IsFiniteSet(S) /\ IsFiniteSet(1..MaxListed)
    BY FewRows, FS_Subset, FS_Interval
<1>2. IsFiniteSet(S \X (1..MaxListed))
    BY <1>1, FS_Product
<1>3. RowsOf(a, S) \in SUBSET (S \X (1..MaxListed))
    BY DEF RowsOf
<1>4. IsFiniteSet(RowsOf(a, S))
    BY <1>2, <1>3, FS_Subset
<1>5. Rows(a, S) = Cardinality(RowsOf(a, S))
    BY DEF Rows, RowsOf
<1> QED
    BY <1>4, <1>5, FS_CardinalityType

\* More steps with at least as many rows each have at least as many rows.
LEMMA RowsGrow ==
    ASSUME NEW a \in Act, NEW b \in Act,
           NEW S \in SUBSET Steps, NEW T \in SUBSET Steps, S \subseteq T,
           \A s \in S : a.listed[s] <= b.listed[s]
    PROVE  Rows(a, S) <= Rows(b, T)
<1>1. \A s \in Steps : a.listed[s] \in Nat /\ b.listed[s] \in Nat
    BY FewRows DEF Act
<1>2. RowsOf(a, S) \subseteq RowsOf(b, T)
    BY <1>1, FewRows DEF RowsOf
<1> QED
    BY <1>2, RowsAreFinite, FS_Subset

\* The rows of disjoint sets of steps add up.
LEMMA RowsAdd ==
    ASSUME NEW a, NEW S \in SUBSET Steps, NEW T \in SUBSET Steps, S \cap T = {}
    PROVE  Rows(a, S \cup T) = Rows(a, S) + Rows(a, T)
<1>1. /\ RowsOf(a, S \cup T) = RowsOf(a, S) \cup RowsOf(a, T)
      /\ RowsOf(a, S) \cap RowsOf(a, T) = {}
    BY DEF RowsOf
<1>2. /\ Rows(a, S) = Cardinality(RowsOf(a, S))
      /\ Rows(a, T) = Cardinality(RowsOf(a, T))
      /\ Rows(a, S \cup T) = Cardinality(RowsOf(a, S \cup T))
      /\ Rows(a, S) \in Nat /\ Rows(a, T) \in Nat
      /\ IsFiniteSet(RowsOf(a, S)) /\ IsFiniteSet(RowsOf(a, T))
    BY RowsAreFinite
<1>3. Rows(a, S \cup T)
          = Rows(a, S) + Rows(a, T)
              - Cardinality(RowsOf(a, S) \cap RowsOf(a, T))
    BY <1>1, <1>2, FS_Union
<1>4. Cardinality(RowsOf(a, S) \cap RowsOf(a, T)) = 0
    BY <1>1, FS_EmptySet
<1> QED
    BY <1>2, <1>3, <1>4

-----------------------------------------------------------------------------
(* Weights of rules *)

Rules == {"photo_before", "photo_after", "geo", "cv_run", "telemetry_changed"}

LEMMA RulesOfAct ==
    ASSUME NEW a
    PROVE  Held(a) \subseteq Applied(a) /\ Applied(a) \subseteq Rules
BY DEF Held, Applied, Rules

LEMMA WeightIsPositive == \A r \in Rules : Weight[r] \in Nat \ {0}
BY DEF Rules, Weight

\* A rule weighs in one of two disjoint sets, and only in a set that has it.
LEMMA WeightOfOne ==
    ASSUME NEW S, NEW T, S \subseteq T, NEW r \in Rules
    PROVE  /\ WeightIn(S, r) \in Nat /\ WeightIn(T, r) \in Nat
           /\ WeightIn(T \ S, r) \in Nat
           /\ WeightIn(T, r) = WeightIn(S, r) + WeightIn(T \ S, r)
           /\ WeightIn(T \ S, r) = 0 => (r \in S <=> r \in T)
<1>1. Weight[r] \in Nat \ {0}
    BY WeightIsPositive
<1>2. CASE r \in S
    BY <1>1, <1>2 DEF WeightIn
<1>3. CASE r \in T \ S
    BY <1>1, <1>3 DEF WeightIn
<1>4. CASE r \notin T
    BY <1>4 DEF WeightIn
<1> QED
    BY <1>2, <1>3, <1>4

\* A set that weighs nothing has no rule in it.
LEMMA NothingWeighsNothing ==
    ASSUME NEW D, \A r \in Rules : WeightIn(D, r) \in Nat, RuleWeight(D) = 0
    PROVE  \A r \in Rules : WeightIn(D, r) = 0
<1>1. /\ WeightIn(D, "photo_before") \in Nat
      /\ WeightIn(D, "photo_after") \in Nat
      /\ WeightIn(D, "geo") \in Nat /\ WeightIn(D, "cv_run") \in Nat
      /\ WeightIn(D, "telemetry_changed") \in Nat
    BY DEF Rules
<1>2. /\ WeightIn(D, "photo_before") = 0 /\ WeightIn(D, "photo_after") = 0
      /\ WeightIn(D, "geo") = 0 /\ WeightIn(D, "cv_run") = 0
      /\ WeightIn(D, "telemetry_changed") = 0
    BY <1>1 DEF RuleWeight
<1> QED
    BY <1>2 DEF Rules

\* The weight of a set is that of a part and that of the rest, which is nothing
\* only if the part is all.
LEMMA WeightSplits ==
    ASSUME NEW S, NEW T \in SUBSET Rules, S \subseteq T
    PROVE  /\ RuleWeight(S) \in Nat /\ RuleWeight(T) \in Nat
           /\ RuleWeight(T \ S) \in Nat
           /\ RuleWeight(T) = RuleWeight(S) + RuleWeight(T \ S)
           /\ RuleWeight(T \ S) = 0 => S = T
<1>1. \A r \in Rules :
          /\ WeightIn(S, r) \in Nat /\ WeightIn(T, r) \in Nat
          /\ WeightIn(T \ S, r) \in Nat
          /\ WeightIn(T, r) = WeightIn(S, r) + WeightIn(T \ S, r)
          /\ WeightIn(T \ S, r) = 0 => (r \in S <=> r \in T)
    BY WeightOfOne
<1>2. /\ RuleWeight(S) \in Nat /\ RuleWeight(T) \in Nat
      /\ RuleWeight(T \ S) \in Nat
      /\ RuleWeight(T) = RuleWeight(S) + RuleWeight(T \ S)
    BY <1>1 DEF Rules, RuleWeight
<1>3. ASSUME RuleWeight(T \ S) = 0
      PROVE  S = T
    <2>1. \A r \in Rules : WeightIn(T \ S, r) = 0
        BY <1>1, <1>3, NothingWeighsNothing
    <2> QED
        BY <1>1, <2>1
<1> QED
    BY <1>2, <1>3

LEMMA WeightGrows ==
    ASSUME NEW S, NEW T \in SUBSET Rules, S \subseteq T
    PROVE  /\ RuleWeight(S) \in Nat /\ RuleWeight(T) \in Nat
           /\ RuleWeight(S) <= RuleWeight(T)
           /\ RuleWeight(S) = RuleWeight(T) => S = T
<1> PICK s, t, rest : /\ s = RuleWeight(S) /\ t = RuleWeight(T)
                      /\ rest = RuleWeight(T \ S)
    OBVIOUS
<1>1. /\ s \in Nat /\ t \in Nat /\ rest \in Nat /\ t = s + rest
      /\ rest = 0 => S = T
    BY WeightSplits
<1>2. s <= t /\ (s = t => rest = 0)
    BY <1>1
<1> QED
    BY <1>1, <1>2

-----------------------------------------------------------------------------
(* What passed, and what it is divided by *)

OkSteps(a) == {s \in Required \cap Listed(a) : Ok(a.answer[s])}

BadSteps(a) == ((Required \cap Listed(a)) \ Missing(a)) \ OkSteps(a)

\* Rows of required steps that were answered, and did not pass.
BadRows(a) == Rows(a, BadSteps(a))

\* The total has what passed and, besides, only what counts against the act.
Lost(a) ==
    10 * BadRows(a) + 5 * MissingRows(a) + RuleWeight(Applied(a) \ Held(a))

LEMMA RowsOfAct ==
    ASSUME NEW a \in Act
    PROVE  /\ OkRows(a) \in Nat /\ BadRows(a) \in Nat /\ MissingRows(a) \in Nat
           /\ RequiredRows(a) = OkRows(a) + BadRows(a)
<1>1. /\ OkSteps(a) \in SUBSET Steps /\ BadSteps(a) \in SUBSET Steps
      /\ Required \cap Missing(a) \in SUBSET Steps
      /\ OkSteps(a) \cap BadSteps(a) = {}
    BY FewRows DEF OkSteps, BadSteps
<1>2. \A s \in Missing(a) : ~Ok(a.answer[s])
    BY DEF Missing, Ok, NoResponse
<1>3. (Required \cap Listed(a)) \ Missing(a) = OkSteps(a) \cup BadSteps(a)
    BY <1>2 DEF OkSteps, BadSteps
<1>4. OkRows(a) = Rows(a, OkSteps(a))
    BY DEF OkRows, OkSteps
<1>5. RequiredRows(a) = Rows(a, OkSteps(a)) + Rows(a, BadSteps(a))
    BY <1>1, <1>3, RowsAdd DEF RequiredRows
<1> QED
    BY <1>1, <1>4, <1>5, RowsAreFinite DEF BadRows, MissingRows

LEMMA Weights ==
    ASSUME NEW a \in Act
    PROVE  /\ PassedWeight(a) \in Nat
           /\ Lost(a) \in Nat
           /\ TotalWeight(a) = PassedWeight(a) + Lost(a)
           /\ TotalWeight(a) >= 30
<1>1. /\ RuleWeight(Held(a)) \in Nat /\ RuleWeight(Applied(a)) \in Nat
      /\ RuleWeight(Applied(a) \ Held(a)) \in Nat
      /\ RuleWeight(Applied(a))
            = RuleWeight(Held(a)) + RuleWeight(Applied(a) \ Held(a))
    BY RulesOfAct, WeightSplits
<1>2. RuleWeight(Applied(a)) >= 30
    <2> PICK A : A = Applied(a)
        OBVIOUS
    <2>1. "photo_before" \in A /\ "photo_after" \in A
        BY DEF Applied
    <2>2. WeightIn(A, "photo_before") = 15 /\ WeightIn(A, "photo_after") = 15
        BY <2>1 DEF WeightIn, Weight
    <2>3. /\ WeightIn(A, "geo") \in Nat /\ WeightIn(A, "cv_run") \in Nat
          /\ WeightIn(A, "telemetry_changed") \in Nat
        BY WeightOfOne DEF Rules
    <2> QED
        BY <2>2, <2>3 DEF RuleWeight
<1> QED
    BY <1>1, <1>2, RowsOfAct DEF PassedWeight, TotalWeight, Lost

-----------------------------------------------------------------------------
(* The score *)

Scale == 0..10000

LEMMA QuotientIsBounded ==
    ASSUME NEW n \in Nat, NEW d \in Nat \ {0}, n < 10001 * d
    PROVE  n \div d \in Scale
BY DEF Scale

LEMMA ScoreIsAFraction ==
    ASSUME NEW a \in Act
    PROVE  Rounded(PassedWeight(a), TotalWeight(a)) \in Scale
<1>1. PICK part \in Nat, whole \in Nat \ {0} :
          part = PassedWeight(a) /\ whole = TotalWeight(a) /\ part <= whole
    BY Weights
<1>2. PICK n \in Nat, d \in Nat \ {0} :
          n = 20000 * part + whole /\ d = 2 * whole /\ n < 10001 * d
    BY <1>1
<1>3. n \div d \in Scale
    BY <1>2, QuotientIsBounded
<1>4. Rounded(PassedWeight(a), TotalWeight(a)) = n \div d
    BY <1>1, <1>2 DEF Rounded
<1> QED
    BY <1>3, <1>4

-----------------------------------------------------------------------------
(* Short checklists *)

\* An act outside the radius, with everything else in its favour, has 10 n + 35
\* of 10 n + 60: too little for n <= 6.
LEMMA OutsideFails ==
    ASSUME NEW a \in Act, RequiredRows(a) <= 6, a.telemetry = "empty",
           a.geo = "outside"
    PROVE  ~Passes(a)
<1>1. Applied(a) \in {{"photo_before", "photo_after", "geo"},
                      {"photo_before", "photo_after", "geo", "cv_run"}}
          /\ ("cv_run" \in Applied(a) <=> "cv_run" \in Held(a))
          /\ "geo" \notin Held(a) /\ "telemetry_changed" \notin Held(a)
    BY DEF Applied, Held
<1>2. /\ RuleWeight(Applied(a)) = IF "cv_run" \in Held(a) THEN 60 ELSE 55
      /\ RuleWeight(Held(a)) <= IF "cv_run" \in Held(a) THEN 35 ELSE 30
      /\ RuleWeight(Held(a)) \in Nat
    BY <1>1 DEF RuleWeight, WeightIn, Weight
<1>3. 5 * PassedWeight(a) < 4 * TotalWeight(a)
    BY <1>2, RowsOfAct DEF PassedWeight, TotalWeight
<1> QED
    BY <1>3, Weights DEF Passes

-----------------------------------------------------------------------------
(* Corrections *)

\* A correction neither loses what passed nor adds to what counts against the
\* act.
LEMMA BetterWeighsMore ==
    ASSUME NEW a \in Act, NEW b \in Act, Better(a, b), failed_rules(a) = {}
    PROVE  /\ failed_rules(b) = {}
           /\ OkRows(a) <= OkRows(b) /\ BadRows(b) <= BadRows(a)
           /\ MissingRows(a) = 0 /\ MissingRows(b) = 0
           /\ Listed(b) # {}
<1>1. \A s \in Steps : /\ a.listed[s] \in Nat /\ b.listed[s] \in Nat
                       /\ a.listed[s] <= b.listed[s]
    BY FewRows DEF Act, Better
<1>2. Required \cap Missing(a) = {} /\ Required \cap Listed(a) # {}
    BY DEF failed_rules
<1>3. \A s \in Missing(b) : ~Ok(b.answer[s])
    BY DEF Missing, Ok, NoResponse
<1>4. Required \cap Missing(b) = {}
    BY <1>2, <1>3 DEF Better, Missing, Listed
<1>5. Required \cap Listed(b) # {}
    BY <1>1, <1>2, FewRows DEF Listed
<1>6. failed_rules(b) = {}
    BY <1>4, <1>5 DEF failed_rules
<1>7. OkRows(a) <= OkRows(b)
    <2>1. OkSteps(a) \subseteq OkSteps(b) /\ OkSteps(b) \in SUBSET Steps
        BY <1>1, FewRows DEF OkSteps, Listed, Better
    <2> QED
        BY <1>1, <2>1, RowsGrow DEF OkRows, OkSteps
<1>8. BadRows(b) <= BadRows(a)
    <2>1. /\ BadSteps(b) \in SUBSET Steps
          /\ \A s \in BadSteps(b) : /\ s \in BadSteps(a)
                                    /\ b.listed[s] = a.listed[s]
        BY <1>2, FewRows DEF BadSteps, OkSteps, Listed, Missing, Better
    <2>2. BadSteps(a) \in SUBSET Steps
        BY FewRows DEF BadSteps
    <2>3. \A s \in BadSteps(b) : b.listed[s] <= a.listed[s]
        BY <1>1, <2>1
    <2> QED
        BY <2>1, <2>2, <2>3, RowsGrow DEF BadRows
<1>9. MissingRows(a) = 0 /\ MissingRows(b) = 0
    <2>1. RowsOf(a, {}) = {} /\ RowsOf(b, {}) = {}
        BY DEF RowsOf
    <2> QED
        BY <1>2, <1>4, <2>1, RowsAreFinite, FS_EmptySet DEF MissingRows
<1> QED
    BY <1>5, <1>6, <1>7, <1>8, <1>9

\* If it changes neither sum, it changes nothing that the double sums of
\* FallsShort depend on.
LEMMA SameWeightsFallShort ==
    ASSUME NEW a \in Act, NEW b \in Act,
           Held(a) = Held(b), Applied(a) = Applied(b),
           RequiredRows(a) = RequiredRows(b), OkRows(a) = OkRows(b),
           FallsShort(b)
    PROVE  FallsShort(a)
<1>1. /\ "photo_before" \in Held(a) <=> a.before
      /\ "photo_after" \in Held(a) <=> a.after
      /\ "photo_before" \in Held(b) <=> b.before
      /\ "photo_after" \in Held(b) <=> b.after
    BY DEF Held, Applied
<1>2. \A c \in {a, b} :
          /\ "geo" \in Held(c) <=> c.geo = "inside"
          /\ "geo" \in Applied(c) <=> c.geo # "skipped"
          /\ "cv_run" \in Applied(c) <=> c.cv # "none"
          /\ "telemetry_changed" \in Held(c) <=> c.telemetry = "changed"
          /\ "telemetry_changed" \in Applied(c) <=> c.telemetry # "empty"
    BY DEF Held, Applied
<1>3. /\ a.before \in BOOLEAN /\ a.after \in BOOLEAN
      /\ b.before \in BOOLEAN /\ b.after \in BOOLEAN
      /\ a.cv \in {"none", "ran"} /\ b.cv \in {"none", "ran"}
    BY DEF Act
<1>4. a.before # a.after
    BY <1>1, <1>3 DEF FallsShort
<1>5. \/ a.geo = "inside" /\ a.cv = "none" /\ a.telemetry = "empty"
      \/ a.geo = "skipped" /\ a.cv = "ran" /\ a.telemetry = "changed"
    BY <1>2, <1>3 DEF FallsShort
<1> QED
    BY <1>4, <1>5 DEF FallsShort

\* The quotients that fall short are exactly four fifths: 60 of 75.
LEMMA ShortfallIsExact ==
    ASSUME NEW a \in Act, FallsShort(a), MissingRows(a) = 0
    PROVE  5 * PassedWeight(a) = 4 * TotalWeight(a)
<1>1. /\ a.before \in BOOLEAN /\ a.after \in BOOLEAN
      /\ "photo_before" \in Held(a) <=> a.before
      /\ "photo_after" \in Held(a) <=> a.after
      /\ "photo_before" \in Applied(a) /\ "photo_after" \in Applied(a)
    BY DEF Act, Held, Applied
<1>2. WeightIn(Held(a), "photo_before") + WeightIn(Held(a), "photo_after") = 15
    BY <1>1 DEF FallsShort, WeightIn, Weight
<1>3. WeightIn(Applied(a), "photo_before") = 15
          /\ WeightIn(Applied(a), "photo_after") = 15
    BY <1>1 DEF WeightIn, Weight
<1>4. CASE a.geo = "inside" /\ a.cv = "none" /\ a.telemetry = "empty"
    <2>1. /\ "geo" \in Held(a) /\ "geo" \in Applied(a)
          /\ "cv_run" \notin Applied(a) /\ "cv_run" \notin Held(a)
          /\ "telemetry_changed" \notin Applied(a)
          /\ "telemetry_changed" \notin Held(a)
        BY <1>4 DEF Held, Applied
    <2>2. RuleWeight(Held(a)) = 40 /\ RuleWeight(Applied(a)) = 55
        BY <1>2, <1>3, <2>1 DEF RuleWeight, WeightIn, Weight
    <2> QED
        BY <2>2 DEF FallsShort, PassedWeight, TotalWeight
<1>5. CASE a.geo = "skipped" /\ a.cv = "ran" /\ a.telemetry = "changed"
    <2>1. /\ "geo" \notin Held(a) /\ "geo" \notin Applied(a)
          /\ "cv_run" \in Applied(a) /\ "cv_run" \in Held(a)
          /\ "telemetry_changed" \in Applied(a)
          /\ "telemetry_changed" \in Held(a)
        BY <1>5 DEF Held, Applied
    <2>2. RuleWeight(Held(a)) = 40 /\ RuleWeight(Applied(a)) = 55
        BY <1>2, <1>3, <2>1 DEF RuleWeight, WeightIn, Weight
    <2> QED
        BY <2>2 DEF FallsShort, PassedWeight, TotalWeight
<1> QED
    BY <1>4, <1>5 DEF FallsShort

\* Four fifths of more with no more lost: it is met again, and met exactly
\* only when nothing changed.
LEMMA MarginGrows ==
    ASSUME NEW okA \in Nat, NEW okB \in Nat, NEW badA \in Nat, NEW badB \in Nat,
           NEW heldA \in Nat, NEW heldB \in Nat,
           NEW lostA \in Nat, NEW lostB \in Nat,
           okA <= okB, badB <= badA, heldA <= heldB, lostB <= lostA,
           10 * okA + heldA >= 40 * badA + 4 * lostA
    PROVE  /\ 10 * okB + heldB >= 40 * badB + 4 * lostB
           /\ 10 * okB + heldB = 40 * badB + 4 * lostB
                 => /\ okA = okB /\ badA = badB
                    /\ heldA = heldB /\ lostA = lostB
OBVIOUS

\* The threshold, with what both sums share taken out.
LEMMA Margin ==
    ASSUME NEW a \in Act, MissingRows(a) = 0
    PROVE  /\ 5 * PassedWeight(a) >= 4 * TotalWeight(a)
                <=> 10 * OkRows(a) + RuleWeight(Held(a))
                       >= 40 * BadRows(a)
                            + 4 * RuleWeight(Applied(a) \ Held(a))
           /\ 5 * PassedWeight(a) = 4 * TotalWeight(a)
                <=> 10 * OkRows(a) + RuleWeight(Held(a))
                       = 40 * BadRows(a)
                            + 4 * RuleWeight(Applied(a) \ Held(a))
<1> PICK ok, bad, held, lost :
        /\ ok = OkRows(a) /\ bad = BadRows(a) /\ held = RuleWeight(Held(a))
        /\ lost = RuleWeight(Applied(a) \ Held(a))
    OBVIOUS
<1>1. ok \in Nat /\ bad \in Nat /\ held \in Nat /\ lost \in Nat
    BY RowsOfAct, RulesOfAct, WeightSplits
<1>2. PICK part, whole : part = PassedWeight(a) /\ whole = TotalWeight(a)
    OBVIOUS
<1>3. part = 10 * ok + held /\ whole = part + 10 * bad + lost
    BY <1>1, <1>2, Weights DEF PassedWeight, Lost
<1>4. /\ 5 * part >= 4 * whole <=> 10 * ok + held >= 40 * bad + 4 * lost
      /\ 5 * part = 4 * whole <=> 10 * ok + held = 40 * bad + 4 * lost
    BY <1>1, <1>3
<1> QED
    BY <1>2, <1>4

LEMMA BetterPasses ==
    ASSUME NEW a \in Act, NEW b \in Act, Better(a, b), Passes(a)
    PROVE  Passes(b) /\ Listed(b) # {}
<1>1. failed_rules(a) = {}
    BY DEF Passes
<1>2. /\ failed_rules(b) = {} /\ Listed(b) # {}
      /\ OkRows(a) <= OkRows(b) /\ BadRows(b) <= BadRows(a)
      /\ MissingRows(a) = 0 /\ MissingRows(b) = 0
    BY <1>1, BetterWeighsMore
<1> PICK heldA, heldB, lostA, lostB :
        /\ heldA = Held(a) /\ heldB = Held(b)
        /\ lostA = Applied(a) \ Held(a) /\ lostB = Applied(b) \ Held(b)
    OBVIOUS
<1>3. /\ RuleWeight(heldA) \in Nat /\ RuleWeight(heldB) \in Nat
      /\ RuleWeight(heldA) <= RuleWeight(heldB)
      /\ RuleWeight(heldA) = RuleWeight(heldB) => heldA = heldB
    <2>1. heldA \subseteq heldB /\ heldB \in SUBSET Rules
        BY RulesOfAct DEF Better
    <2> QED
        BY <2>1, WeightGrows
<1>4. /\ RuleWeight(lostA) \in Nat /\ RuleWeight(lostB) \in Nat
      /\ RuleWeight(lostB) <= RuleWeight(lostA)
      /\ RuleWeight(lostB) = RuleWeight(lostA) => lostB = lostA
    <2>1. lostB \subseteq lostA /\ lostA \in SUBSET Rules
        BY RulesOfAct DEF Better
    <2> QED
        BY <2>1, WeightGrows
<1>5. /\ OkRows(a) \in Nat /\ OkRows(b) \in Nat
      /\ BadRows(a) \in Nat /\ BadRows(b) \in Nat
    BY RowsOfAct
<1>6. 10 * OkRows(a) + RuleWeight(heldA)
          >= 40 * BadRows(a) + 4 * RuleWeight(lostA)
    BY <1>2, Margin DEF Passes
<1>7. /\ 10 * OkRows(b) + RuleWeight(heldB)
            >= 40 * BadRows(b) + 4 * RuleWeight(lostB)
      /\ 10 * OkRows(b) + RuleWeight(heldB)
            = 40 * BadRows(b) + 4 * RuleWeight(lostB)
           => /\ OkRows(a) = OkRows(b) /\ BadRows(a) = BadRows(b)
              /\ RuleWeight(heldA) = RuleWeight(heldB)
              /\ RuleWeight(lostA) = RuleWeight(lostB)
    BY <1>2, <1>3, <1>4, <1>5, <1>6, MarginGrows
<1>8. 5 * PassedWeight(b) >= 4 * TotalWeight(b)
    BY <1>2, <1>7, Margin
<1>9. ASSUME FallsShort(b)
      PROVE  FALSE
    <2>1. 10 * OkRows(b) + RuleWeight(heldB)
              = 40 * BadRows(b) + 4 * RuleWeight(lostB)
        BY <1>2, <1>9, ShortfallIsExact, Margin
    <2>2. OkRows(a) = OkRows(b) /\ RequiredRows(a) = RequiredRows(b)
        BY <1>7, <2>1, RowsOfAct
    <2>3. heldA = heldB /\ lostA = lostB
        BY <1>3, <1>4, <1>7, <2>1
    <2>4. Held(a) = Held(b) /\ Applied(a) = Applied(b)
        BY <2>3, RulesOfAct
    <2> QED
        BY <1>9, <2>2, <2>4, SameWeightsFallShort DEF Passes
<1> QED
    BY <1>2, <1>8, <1>9 DEF Passes

-----------------------------------------------------------------------------
(* Every state *)

\* What is checked is an act, and what is stored is the verdict on it.
ActIsChecked == act \in Act /\ result = auto_check_act(act)

LEMMA AnswersAreActs ==
    ASSUME NEW a \in Act, NEW s \in Steps, NEW n \in 0..MaxListed,
           NEW response \in Responses(s) \cup {NoResponse}
    PROVE  [a EXCEPT !.listed[s] = n, !.answer[s] = response] \in Act
<1> DEFINE Given == (UNION {Responses(t) : t \in Steps}) \cup {NoResponse}
<1>1. response \in Given
    OBVIOUS
<1>2. a.listed \in [Steps -> 0..MaxListed] /\ a.answer \in [Steps -> Given]
    BY DEF Act
<1>3. /\ [a.listed EXCEPT ![s] = n] \in [Steps -> 0..MaxListed]
      /\ [a.answer EXCEPT ![s] = response] \in [Steps -> Given]
    BY <1>1, <1>2
<1>4. [a EXCEPT !.listed[s] = n, !.answer[s] = response]
         = [a EXCEPT !.listed = [a.listed EXCEPT ![s] = n],
                     !.answer = [a.answer EXCEPT ![s] = response]]
    BY DEF Act
<1> QED
    BY <1>3, <1>4 DEF Act

LEMMA StepChecks ==
    ASSUME ActIsChecked, [Next]_vars
    PROVE  ActIsChecked'
<1> USE DEF ActIsChecked
<1>1. ASSUME NEW s \in Steps, NEW n \in 1..MaxListed,
             NEW response \in Responses(s) \cup {NoResponse},
             Answer(s, n, response)
      PROVE  ActIsChecked'
    <2>1. n \in 0..MaxListed
        BY FewRows
    <2> QED
        BY <1>1, <2>1, AnswersAreActs DEF Answer, Check
<1>2. ASSUME NEW s \in Steps, Answer(s, 0, NoResponse)
      PROVE  ActIsChecked'
    <2>1. 0 \in 0..MaxListed
        BY FewRows
    <2> QED
        BY <1>2, <2>1, AnswersAreActs DEF Answer, Check
<1>3. ASSUME NEW geo \in {"skipped", "inside", "outside"},
             Check([act EXCEPT !.geo = geo])
      PROVE  ActIsChecked'
    BY <1>3 DEF Check, Act
<1>4. ASSUME NEW before \in BOOLEAN, NEW after \in BOOLEAN,
             Check([act EXCEPT !.before = before, !.after = after])
      PROVE  ActIsChecked'
    BY <1>4 DEF Check, Act
<1>5. ASSUME NEW cv \in {"none", "ran"}, Check([act EXCEPT !.cv = cv])
      PROVE  ActIsChecked'
    BY <1>5 DEF Check, Act
<1>6. ASSUME NEW telemetry \in {"empty", "changed", "same"},
             Check([act EXCEPT !.telemetry = telemetry])
      PROVE  ActIsChecked'
    BY <1>6 DEF Check, Act
<1>7. CASE UNCHANGED vars
    BY <1>7 DEF vars, auto_check_act
<1> QED
    BY <1>1, <1>2, <1>3, <1>4, <1>5, <1>6, <1>7 DEF Next

LEMMA AlwaysChecked == Spec => []ActIsChecked
<1>1. ASSUME Init
      PROVE  ActIsChecked
    <2>1. Blank \in Act
        BY FewRows DEF Blank, Act
    <2> QED
        BY <1>1, <2>1 DEF Init, ActIsChecked
<1> QED
    BY <1>1, StepChecks, PTL DEF Spec

\* The score the check stores is a fraction of one, whatever it divides:
\* auto_check_act never counts as passed what is not in the total.
THEOREM RuleTypeCorrect == Spec => []TypeOK
<1>1. ASSUME ActIsChecked
      PROVE  TypeOK
    <2>1. act \in Act /\ result = auto_check_act(act)
        BY <1>1 DEF ActIsChecked
    <2>2. result.passed \in BOOLEAN
        BY <2>1 DEF auto_check_act, Passes
    <2>3. result.score \in Scale
        <3>1. Rounded(PassedWeight(act), TotalWeight(act)) \in Scale
            BY <2>1, ScoreIsAFraction
        <3>2. 0 \in Scale
            BY DEF Scale
        <3> QED
            BY <2>1, <3>1, <3>2 DEF auto_check_act
    <2> QED
        BY <2>1, <2>2, <2>3 DEF TypeOK, Scale
<1> QED
    BY <1>1, AlwaysChecked, PTL

\* An act made outside the radius is not confirmed by auto_check_act unless
\* more than six rows of required steps outweigh the geo rule, however many
\* optional steps its checklist has.
THEOREM ShortChecklistsNeedTheRadius == Spec => []GeoDecidesShortChecklists
<1>1. ASSUME ActIsChecked
      PROVE  GeoDecidesShortChecklists
    <2>1. ASSUME RequiredRows(act) <= 6, act.telemetry = "empty",
                 act.geo = "outside"
          PROVE  ~result.passed
        <3>1. ~Passes(act)
            BY <1>1, <2>1, OutsideFails DEF ActIsChecked
        <3> QED
            BY <1>1, <3>1 DEF ActIsChecked, auto_check_act
    <2> QED
        BY <2>1 DEF GeoDecidesShortChecklists
<1> QED
    BY <1>1, AlwaysChecked, PTL

\* A correction of an act never costs it the automatic confirmation, in the
\* exact sums and in the double ones: the quotients that fall short are not
\* reached from a passed act by doing better.
THEOREM CorrectionsNeverHurt == Spec => CorrectionNeverHurts
<1>1. ASSUME ActIsChecked, ActIsChecked', [Next]_vars
      PROVE  [result.passed /\ Better(act, act') => result'.passed]_vars
    <2>1. ASSUME result.passed, Better(act, act')
          PROVE  result'.passed
        <3>1. act \in Act /\ act' \in Act
            BY <1>1 DEF ActIsChecked
        <3>2. Passes(act)
            BY <1>1, <2>1 DEF ActIsChecked, auto_check_act
        <3>3. PICK b : b = act'
            OBVIOUS
        <3>4. Passes(b) /\ Listed(b) # {}
            BY <2>1, <3>1, <3>2, <3>3, BetterPasses
        <3>5. result' = auto_check_act(b)
            BY <1>1, <3>3 DEF ActIsChecked
        <3> QED
            BY <3>4, <3>5 DEF auto_check_act
    <2> QED
        BY <2>1
<1> QED
    BY <1>1, AlwaysChecked, StepChecks, PTL DEF Spec, CorrectionNeverHurts
=============================================================================
