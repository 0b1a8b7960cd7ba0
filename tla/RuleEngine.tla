----------------------------- MODULE RuleEngine -----------------------------
(***************************************************************************)
(* auto_check_act (app/services/rules.py): the verdict on a submitted act. *)
(* An act is checked, corrected in one respect, and checked again.         *)
(*                                                                         *)
(* Weights are in hundredths and the stored score in ten-thousandths.  The *)
(* code adds the weights as doubles; FallsShort names the combinations     *)
(* where the double quotient is just below 0.8 although the exact one is   *)
(* 0.8 (CPython 3.11, the version both images are built on).               *)
(***************************************************************************)
EXTENDS Integers, FiniteSets

CONSTANTS
    Steps,          \* steps of the checklist template of the work type
    Required,       \* those with is_required
    Normed,         \* numeric ones with a nominal and a tolerance
    MaxListed       \* bound: response rows of one step in an act

\* FallsShort is complete for up to nine response rows of required steps.
ASSUME FewRows ==
    /\ Required \subseteq Steps /\ Normed \subseteq Steps
    /\ IsFiniteSet(Steps)
    /\ MaxListed \in Nat
    /\ Cardinality(Required) * MaxListed <= 9

VARIABLES
    act,            \* what the check reads of the act
    result          \* what it returned last

vars == <<act, result>>

-----------------------------------------------------------------------------

\* A response: the contractor's own verdict and, for a step with a norm and a
\* value, whether the value is within the tolerance.
Responses(s) ==
    [passed : {"null", "true", "false"},
     range : IF s \in Normed THEN {"none", "in", "out"} ELSE {"none"}]

NoResponse == [passed |-> "null", range |-> "missing"]

\* ok in the code, after bool(): the contractor's verdict, overruled by the
\* norm, which also stands in for a verdict not given.
Ok(response) ==
    \/ response.range = "none" /\ response.passed = "true"
    \/ response.range = "in" /\ response.passed # "false"

\* The act as the check sees it.  listed counts the rows of a step in the
\* joined query; answer is the row the second query found for it, and no row
\* when another submit replaced the responses between the two.  geo is
\* "skipped" when a coordinate of the object or of the act is NULL or zero.
Act == [listed : [Steps -> 0..MaxListed],
        answer : [Steps -> (UNION {Responses(s) : s \in Steps})
                              \cup {NoResponse}],
        geo : {"skipped", "inside", "outside"},
        before : BOOLEAN, after : BOOLEAN,
        cv : {"none", "ran"},
        telemetry : {"empty", "changed", "same"}]

Listed(a) == {s \in Steps : a.listed[s] > 0}
Missing(a) == {s \in Listed(a) : a.answer[s] = NoResponse}

\* The rows of the joined query that belong to the steps.
Rows(a, steps) ==
    Cardinality({row \in steps \X (1..MaxListed) : row[2] <= a.listed[row[1]]})

\* Rows of required steps, and those of them that count as passed.
RequiredRows(a) == Rows(a, (Required \cap Listed(a)) \ Missing(a))
OkRows(a) == Rows(a, {s \in Required \cap Listed(a) : Ok(a.answer[s])})
MissingRows(a) == Rows(a, Required \cap Missing(a))

\* The other rules, applied only when there is something to apply them to.
\* Mutated: a lighter geo rule.
WeightLightGeo == [geo |-> 15, photo_before |-> 15, photo_after |-> 15,
                   cv_run |-> 5, telemetry_changed |-> 20]

Weight == [geo |-> 25, photo_before |-> 15, photo_after |-> 15,
           cv_run |-> 5, telemetry_changed |-> 20]

Applied(a) ==
    {"photo_before", "photo_after"}
        \cup (IF a.geo = "skipped" THEN {} ELSE {"geo"})
        \cup (IF a.cv = "none" THEN {} ELSE {"cv_run"})
        \cup (IF a.telemetry = "empty" THEN {} ELSE {"telemetry_changed"})

Held(a) ==
    {r \in Applied(a) : \/ r = "photo_before" /\ a.before
                        \/ r = "photo_after" /\ a.after
                        \/ r = "geo" /\ a.geo = "inside"
                        \/ r = "cv_run"
                        \/ r = "telemetry_changed" /\ a.telemetry = "changed"}

WeightIn(rules, rule) == IF rule \in rules THEN Weight[rule] ELSE 0

RuleWeight(rules) ==
    WeightIn(rules, "photo_before") + WeightIn(rules, "photo_after")
        + WeightIn(rules, "geo") + WeightIn(rules, "cv_run")
        + WeightIn(rules, "telemetry_changed")

\* Mutated: the CV run never enters the total, only the sum of what passed.
TotalWithoutCv(a) ==
    10 * RequiredRows(a) + 5 * MissingRows(a)
        + RuleWeight(Applied(a) \ {"cv_run"})

TotalWeight(a) ==
    10 * RequiredRows(a) + 5 * MissingRows(a) + RuleWeight(Applied(a))

\* Mutated: the CV run enters the total, never the sum of what passed.
PassedWithoutCv(a) == 10 * OkRows(a) + RuleWeight(Held(a) \ {"cv_run"})

PassedWeight(a) == 10 * OkRows(a) + RuleWeight(Held(a))

FallsShort(a) ==
    /\ RequiredRows(a) = 2 /\ OkRows(a) = 2
    /\ a.before # a.after
    /\ \/ a.geo = "inside" /\ a.cv = "none" /\ a.telemetry = "empty"
       \/ a.geo = "skipped" /\ a.cv = "ran" /\ a.telemetry = "changed"

\* round(score, 4)
Rounded(part, whole) == (20000 * part + whole) \div (2 * whole)

failed_rules(a) ==
    {"step_missing" : s \in Required \cap Missing(a)}
        \cup {"no_required_steps" : x \in IF Required \cap Listed(a) = {}
                                            THEN {1} ELSE {}}

\* score >= 0.8 and not failed
Passes(a) ==
    /\ 5 * PassedWeight(a) >= 4 * TotalWeight(a)
    /\ ~FallsShort(a)
    /\ failed_rules(a) = {}

auto_check_act(a) ==
    IF Listed(a) = {}
      THEN [passed |-> FALSE, score |-> 0, failed_rules |-> {"checklist_empty"}]
      ELSE [passed |-> Passes(a),
            score |-> Rounded(PassedWeight(a), TotalWeight(a)),
            failed_rules |-> failed_rules(a)]

-----------------------------------------------------------------------------
(* An act with nothing in it, then one change at a time, each followed by  *)
(* a check.                                                                *)

Blank == [listed |-> [s \in Steps |-> 0],
          answer |-> [s \in Steps |-> NoResponse],
          geo |-> "skipped", before |-> FALSE, after |-> FALSE,
          cv |-> "none", telemetry |-> "empty"]

Init == act = Blank /\ result = auto_check_act(Blank)

Check(a) == act' = a /\ result' = auto_check_act(a)

\* The step answered in n rows, one of which the second query picks.
Answer(s, n, response) ==
    Check([act EXCEPT !.listed[s] = n, !.answer[s] = response])

Next ==
    \/ \E s \in Steps, n \in 1..MaxListed :
           \E response \in Responses(s) \cup {NoResponse} :
              Answer(s, n, response)
    \/ \E s \in Steps : Answer(s, 0, NoResponse)
    \/ \E geo \in {"skipped", "inside", "outside"} :
           Check([act EXCEPT !.geo = geo])
    \/ \E before, after \in BOOLEAN :
           Check([act EXCEPT !.before = before, !.after = after])
    \/ \E cv \in {"none", "ran"} : Check([act EXCEPT !.cv = cv])
    \/ \E telemetry \in {"empty", "changed", "same"} :
           Check([act EXCEPT !.telemetry = telemetry])

Spec == Init /\ [][Next]_vars

-----------------------------------------------------------------------------
(* Properties of the verdict *)

\* The stored score is a fraction of one: auto_check_act divides by a total
\* that holds whatever it counted as passed.
TypeOK ==
    /\ act \in Act
    /\ result.passed \in BOOLEAN /\ result.score \in 0..10000

\* b differs from a only where it does better: responses that count, more of
\* them, rules held that were not, no rule newly failed.
Better(a, b) ==
    /\ \A s \in Steps :
          \/ b.listed[s] = a.listed[s] /\ b.answer[s] = a.answer[s]
          \/ b.listed[s] >= a.listed[s] /\ Ok(b.answer[s])
    /\ Held(a) \subseteq Held(b)
    /\ Applied(b) \ Held(b) \subseteq Applied(a) \ Held(a)

\* Correcting an act never costs it the automatic confirmation: every weight
\* that enters the total when a rule is met also enters what passed, and no
\* rounding of the quotient undoes it.
CorrectionNeverHurts ==
    [][result.passed /\ Better(act, act') => result'.passed]_vars

\* The geo rule decides alone on short checklists, as submit_act runs it (no
\* telemetry): an act made outside the radius is not confirmed automatically
\* unless more than six rows of required steps outweigh it.
GeoDecidesShortChecklists ==
    /\ RequiredRows(act) <= 6
    /\ act.telemetry = "empty"
    /\ act.geo = "outside"
    => ~result.passed

(* What the repository says of it *)

\* rules.py:4: all required items of the checklist are filled in and passed.
\* The check joins the template's steps with the responses of the act, so an
\* unanswered step is not seen, and a failed one costs a tenth.
RequiredItemsHold ==
    result.passed => \A s \in Required : act.listed[s] > 0 /\ Ok(act.answer[s])

\* rules.py:165-166: the CV run is a signal, not the deciding factor; without
\* it the act is not failed (:159-160).
CvIsNotDecisive ==
    [][act' = [act EXCEPT !.cv = "none"] /\ result.passed
          => result'.passed]_vars

\* README.md:345-346: score >= 0.8 means AUTO_CONFIRMED, when no rule failed.
ScoreDecides ==
    result.score >= 8000 /\ result.failed_rules = {} => result.passed
=============================================================================
