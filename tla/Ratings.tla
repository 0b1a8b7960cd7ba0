------------------------------ MODULE Ratings ------------------------------
(***************************************************************************)
(* recalc_contractor_ratings (app/mocks/generators/seed.py): the rating of *)
(* a contractor, computed from three queries over the orders and acts that *)
(* the requests of ActLifecycle keep changing in between.                  *)
(*                                                                         *)
(* One contractor; a score is a percentage that follows from the verdict,  *)
(* a rating is in hundredths, rounded to the nearest.                      *)
(***************************************************************************)
EXTENDS ActLifecycle, Integers, FiniteSets

CONSTANTS
    Contractor,         \* the contractor that is rated
    auto_check_score,   \* of an act, by its verdict, in percent
    MaxRecalcs          \* bound: recalculations

ASSUME RatingAssumption ==
    /\ Contractor \in Contractors
    /\ auto_check_score \in [Verdict -> 0..100]
    /\ MaxRecalcs \in Nat
    /\ IsFiniteSet(Orders) /\ IsFiniteSet(Acts)

VARIABLES
    recalc,             \* the recalculation being served
    rating_score,       \* contractors.rating_score
    ratings,            \* contractor_ratings, the last row
    recalcs

ratingVars == <<recalc, rating_score, ratings, recalcs>>

OrdersOf == {o \in Orders : orders[o].contractor = Contractor}

\* Mutated: acts that a person confirmed are forgotten.
AutoAccepted == {"auto_confirmed", "verified"}

Accepted == {"auto_confirmed", "confirmed", "verified"}

ActsIn(statuses) ==
    {a \in Acts : acts[a].order \in OrdersOf /\ acts[a].status \in statuses}

\* accepted and moved are history: the acts accepted when it began, and
\* whether an order came to the contractor or left since.
Recalc == [at : {"idle", "orders", "completed"},
           total : 0..Cardinality(Orders),
           completed : SUBSET Acts,
           verdicts : [Acts -> Verdict \cup {None}],
           accepted : SUBSET Acts, moved : BOOLEAN]

NoRecalc == [at |-> "idle", total |-> 0, completed |-> {},
             verdicts |-> [a \in Acts |-> None],
             accepted |-> {}, moved |-> FALSE]

NoRating == [orders_total |-> 0, orders_completed |-> 0,
             orders_rejected |-> 0, total_score |-> 0]

RatingInit ==
    /\ Init
    /\ recalc = NoRecalc
    /\ rating_score = 0
    /\ ratings = NoRating
    /\ recalcs = 0

-----------------------------------------------------------------------------

\* Numerator and denominator of 0.4 completeness + 0.3 timeliness + 0.3 quality
\* in hundredths of a percent; scored acts have the scores sum, and half a mark
\* when there are none.
Weighted(total, completed, rejected, scored, sum) ==
    4000 * completed * scored + 3000 * (total - rejected) * scored
        + 30 * sum * total

\* Mutated: the weights add up to 1.1.
TotalOverweight(total, completed, rejected, scored, sum) ==
    (2 * Weighted(total, completed, rejected, scored, sum)
        + 2000 * total * scored + total * scored)
        \div (2 * total * scored)

Total(total, completed, rejected, scored, sum) ==
    (2 * Weighted(total, completed, rejected, scored, sum) + total * scored)
        \div (2 * total * scored)

\* The accepted acts with a score, which follows from the verdict.
Scored(verdict) == {a \in recalc.completed : recalc.verdicts[a] = verdict}

total_score ==
    LET passed == Cardinality(Scored("pass"))
        failed == Cardinality(Scored("fail"))
        sum == passed * auto_check_score["pass"]
                   + failed * auto_check_score["fail"]
        rejected == Cardinality(ActsIn({"rejected"}))
        completed == Cardinality(recalc.completed)
    IN IF passed + failed = 0
         THEN Total(recalc.total, completed, rejected, 1, 50)
         ELSE Total(recalc.total, completed, rejected, passed + failed, sum)

\* Mutated: the orders are counted in an outer join with their acts.
RecalcOrdersJoined ==
    /\ recalc.at = "idle" /\ recalcs < MaxRecalcs
    /\ recalcs' = recalcs + 1
    /\ recalc' = [NoRecalc EXCEPT
                    !.at = "orders",
                    !.total =
                      Cardinality({o \in OrdersOf :
                                     \A a \in Acts : acts[a].order # o})
                        + Cardinality(ActsIn(ActStatus)),
                    !.accepted = ActsIn({"auto_confirmed", "confirmed",
                                         "verified"})]
    /\ UNCHANGED <<vars, rating_score, ratings>>

\* The first query; without orders the score is zero and no row is added.
RecalcOrders ==
    /\ recalc.at = "idle" /\ recalcs < MaxRecalcs
    /\ recalcs' = recalcs + 1
    /\ IF OrdersOf = {}
         THEN rating_score' = 0 /\ UNCHANGED recalc
         ELSE /\ recalc' = [NoRecalc EXCEPT
                              !.at = "orders",
                              !.total = Cardinality(OrdersOf),
                              !.accepted = ActsIn({"auto_confirmed", "confirmed",
                                                   "verified"})]
              /\ UNCHANGED rating_score
    /\ UNCHANGED <<vars, ratings>>

\* The rows of the second query stay as they were loaded.
RecalcCompleted ==
    /\ recalc.at = "orders"
    /\ recalc' = [recalc EXCEPT
                    !.at = "completed",
                    !.completed = ActsIn(Accepted),
                    !.verdicts = [a \in Acts |->
                                    IF a \in ActsIn(Accepted)
                                      THEN acts[a].auto_check_passed ELSE None]]
    /\ UNCHANGED <<vars, rating_score, ratings, recalcs>>

\* The third query, the formula and the commit.
RecalcCommit ==
    /\ recalc.at = "completed"
    /\ rating_score' = total_score
    /\ ratings' = [orders_total |-> recalc.total,
                   orders_completed |-> Cardinality(recalc.completed),
                   orders_rejected |-> Cardinality(ActsIn({"rejected"})),
                   total_score |-> total_score]
    /\ recalc' = NoRecalc
    /\ UNCHANGED <<vars, recalcs>>

RecalcDies ==
    /\ recalc.at # "idle"
    /\ recalc' = NoRecalc
    /\ UNCHANGED <<vars, rating_score, ratings, recalcs>>

\* Any step of the requests that use the orders and acts.
Request ==
    /\ Next
    /\ recalc' = [recalc EXCEPT
                    !.moved = @ \/ (recalc.at # "idle" /\ OrdersOf' # OrdersOf)]
    /\ UNCHANGED <<rating_score, ratings, recalcs>>

RatingNext ==
    \/ RecalcOrders \/ RecalcCompleted \/ RecalcCommit \/ RecalcDies
    \/ Request

RatingSpec == RatingInit /\ [][RatingNext]_<<vars, ratingVars>>

-----------------------------------------------------------------------------
(* Properties *)

\* A rating counts no more orders than there are, and as completed and rejected
\* together no more acts than there are, although it counts the two at
\* different moments.
RatingTypeOK ==
    /\ recalc \in Recalc
    /\ rating_score \in Int
    /\ ratings \in [orders_total : 0..Cardinality(Orders),
                    orders_completed : 0..Cardinality(Acts),
                    orders_rejected : 0..Cardinality(Acts), total_score : Int]
    /\ ratings.orders_completed + ratings.orders_rejected <= Cardinality(Acts)
    /\ recalcs \in 0..MaxRecalcs

\* The three queries see different moments, but while no order changes hands and
\* no two requests in flight are for the same order, a rating counts every act
\* that was accepted when the recalculation began, and only acts that still are
\* accepted when it is stored.
CountsAccepted ==
    [][RecalcCommit /\ ~recalc.moved =>
         /\ recalc.accepted \subseteq recalc.completed
         /\ \A a \in recalc.completed :
               acts[a].status \in {"auto_confirmed", "confirmed", "verified"}
      ]_<<vars, ratingVars>>

Single == \A a, b \in Acts : acts[a].order = acts[b].order
                               => a = b \/ acts[a].order = None

\* While no order changes hands and no order has had a second act, the rating
\* is between 0 and 100, however requests interleave between the queries.
ScaleHoldsWithoutRework ==
    [][RecalcCommit /\ ~recalc.moved /\ Single => rating_score' \in 0..10000
      ]_<<vars, ratingVars>>

\* seed.py:472: the rating is on the scale 0..100.
RatingOnScale == rating_score \in 0..10000
=============================================================================
