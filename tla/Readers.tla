------------------------------ MODULE Readers ------------------------------
(***************************************************************************)
(* The two answers that are put together from several queries:             *)
(* get_act_detail (app/api/v1/acts.py) and the summary of the dashboard    *)
(* (app/api/v1/dashboard.py), with the requests of ActLifecycle between    *)
(* the queries.  At READ COMMITTED each query sees what is committed when  *)
(* it starts; the act is read once and kept by the session.                *)
(*                                                                         *)
(* They share nothing with a recalculation of the ratings but the tables   *)
(* both only read, so the bound counts them together.                      *)
(***************************************************************************)
EXTENDS Ratings, ActProperties

VARIABLE reading        \* the answer being put together

readerVars == <<vars, ratingVars, reading>>

\* created is history: an act was inserted since the acts were counted.
Reading == [at : {"idle", "act", "responses", "total", "auto", "pending"},
            act : Acts \cup {None},
            status : ActStatus \cup {None},
            judged : SUBSET Batches,
            rows : SUBSET Batches,
            total_acts : 0..Cardinality(Acts),
            auto_confirmed : SUBSET Acts,
            pending_review : SUBSET Acts,
            created : BOOLEAN]

NotReading == [at |-> "idle", act |-> None, status |-> None, judged |-> {},
               rows |-> {}, total_acts |-> 0, auto_confirmed |-> {},
               pending_review |-> {}, created |-> FALSE]

ReaderInit == RatingInit /\ reading = NotReading

Begin ==
    /\ reading.at = "idle"
    /\ recalcs < MaxRecalcs
    /\ recalcs' = recalcs + 1
    /\ UNCHANGED <<vars, recalc, rating_score, ratings>>

-----------------------------------------------------------------------------
(* GET /acts/{id} *)

DetailAct(a) ==
    /\ Begin
    /\ acts[a].status # Absent
    /\ reading' = [NotReading EXCEPT !.at = "act", !.act = a,
                                     !.status = acts[a].status,
                                     !.judged = acts[a].judged]

DetailResponses ==
    /\ reading.at = "act"
    /\ reading' = [reading EXCEPT !.at = "responses",
                                  !.rows = acts[reading.act].rows]
    /\ UNCHANGED <<vars, ratingVars>>

\* The photos, then the order, and the answer.
DetailOrder ==
    /\ reading.at = "responses"
    /\ reading' = NotReading
    /\ UNCHANGED <<vars, ratingVars>>

-----------------------------------------------------------------------------
(* GET /dashboard/summary *)

Known == {a \in Acts : acts[a].status # Absent}

SummaryTotal ==
    /\ Begin
    /\ reading' = [NotReading EXCEPT !.at = "total",
                                     !.total_acts = Cardinality(Known)]

With(statuses) == {a \in Acts : acts[a].status \in statuses}

SummaryAuto ==
    /\ reading.at = "total"
    /\ reading' = [reading EXCEPT !.at = "auto",
                                  !.auto_confirmed = With({"auto_confirmed"})]
    /\ UNCHANGED <<vars, ratingVars>>

\* Mutated: acts that wait for a person, whatever the check said.
SummaryPendingUnconfirmed ==
    /\ reading.at = "auto"
    /\ reading' = [reading EXCEPT
                     !.at = "pending",
                     !.pending_review = With({"submitted", "auto_confirmed",
                                              "delayed_verification"})]
    /\ UNCHANGED <<vars, ratingVars>>

SummaryPending ==
    /\ reading.at = "auto"
    /\ reading' = [reading EXCEPT
                     !.at = "pending",
                     !.pending_review = With({"submitted",
                                              "delayed_verification"})]
    /\ UNCHANGED <<vars, ratingVars>>

\* The rejected acts, and the answer.
SummaryRejected ==
    /\ reading.at = "pending"
    /\ reading' = NotReading
    /\ UNCHANGED <<vars, ratingVars>>

-----------------------------------------------------------------------------

\* Any step of the requests and of the recalculation.
Meanwhile ==
    /\ RatingNext
    /\ reading' = [reading EXCEPT
                     !.created = @ \/ (reading.at \in {"total", "auto", "pending"}
                                         /\ Known' # Known)]

ReaderNext ==
    \/ \E a \in Acts : DetailAct(a)
    \/ DetailResponses \/ DetailOrder
    \/ SummaryTotal \/ SummaryAuto \/ SummaryPending \/ SummaryRejected
    \/ Meanwhile

ReaderSpec == ReaderInit /\ [][ReaderNext]_readerVars

-----------------------------------------------------------------------------
(* Properties *)

\* The three moments of a rating and of an answer leave them within the tables.
ReaderTypeOK == RatingTypeOK /\ reading \in Reading

\* A detail that shows a verdict shows the responses the verdict was reached
\* on, and one that shows an accepted act shows an accepted order.  The act is
\* read before the responses and the order, and a check or a review may commit
\* in between; what the act says once it is decided stays true, as long as no
\* two requests in flight are for the same order.
DetailTellsVerdict ==
    [][DetailOrder =>
         /\ reading.status \in Outcome => reading.rows = reading.judged
         /\ reading.status = "confirmed"
              => orders[acts[reading.act].order].status = "confirmed"
      ]_readerVars

\* The counts of a summary come from different moments, but while no two
\* requests in flight are for the same order no act is in two of them, and they
\* add up to no more than the total, which is counted first, unless acts were
\* added meanwhile.  So auto_confirmation_rate is at most 1.
SummaryAddsUp ==
    [][SummaryRejected =>
         LET auto == reading.auto_confirmed
             pending == reading.pending_review
             rejected == With({"rejected"})
         IN  /\ auto \cap pending = {}
             /\ (auto \cup pending) \cap rejected = {}
             /\ ~reading.created
                  => Cardinality(auto) + Cardinality(pending)
                         + Cardinality(rejected) <= reading.total_acts
      ]_readerVars
=============================================================================
