--------------------------- MODULE ActProperties ---------------------------
(***************************************************************************)
(* What the work-order and act tables of ActLifecycle are relied upon for. *)
(* The first group holds however requests interleave and die.  The second  *)
(* needs requests in flight at the same time to be for different orders.   *)
(* The third is what the repository's comments and documents say and the   *)
(* handlers do not keep.                                                   *)
(***************************************************************************)
EXTENDS ActLifecycle, FiniteSets

ASSUME ActAssumption == IsFiniteSet(Acts)

-----------------------------------------------------------------------------
(* Any interleaving *)

\* The request that will take the act out of SUBMITTED.
HasHandler(a) ==
    \E s \in Slots : /\ slots[s].act = a
                     /\ slots[s].at \in {"submit_stored", "submit_judged"}

\* SUBMITTED, and no request goes on with it.
Stuck == {a \in Acts : acts[a].status = "submitted" /\ ~HasHandler(a)}

\* submit_act commits SUBMITTED before it runs the check and commits the
\* verdict after it.  An act found SUBMITTED is being checked, unless the
\* request that was to check it died between the two commits: each death leaves
\* at most one act behind, and nothing but a death does, whatever overlaps.
SubmittedIsBeingChecked == Cardinality(Stuck) <= deaths

\* An act that counts as accepted says who accepted it and what the automatic
\* check had said: a review that loaded AUTO_CONFIRMED may commit after other
\* sessions rewrote the act, but none of them ever erases either column.
ConfirmedIsAccountedFor ==
    \A a \in Acts :
        acts[a].status = "confirmed"
            => /\ acts[a].confirmed_by # None
               /\ acts[a].auto_check_passed # None

\* Statuses of an order that tell the outcome of an automatic check.
Outcome == {"auto_confirmed", "delayed_verification", "confirmed"}

\* An order shows an outcome only if some act of it has a recorded verdict, as
\* long as managers do not write outcomes by hand.  submit_act writes the
\* verdict of one act and the status of the order, review_act copies a decision
\* to the order: neither leaves the order ahead of all its acts, whatever they
\* overwrite.
OutcomeHasVerdict ==
    \A o \in Orders :
        orders[o].status \in Outcome
            => \E a \in Acts : /\ acts[a].order = o
                               /\ acts[a].auto_check_passed # None

\* README.md:342-346: a submitted act ends up confirmed or sent to review.  Any
\* interleaving gets there as long as no request dies.
SubmittedIsAlwaysDecided ==
    \A a \in Acts :
        acts[a].status = "submitted" ~> acts[a].status # "submitted"

\* The safety properties above follow from the type of the variables and from
\* what an accepted request may rely on until it ends.

SubmitStage == {"submit_loaded", "submit_cleared", "submit_flushed",
                "submit_stored", "submit_judged"}
ReviewStage == {"review_act", "review_order"}

\* It has the rows it works on, and they have been inserted.
SessionRefers(r) ==
    /\ r.at # "idle" => r.order \in Orders
    /\ r.at \in SubmitStage \cup ReviewStage
           => /\ r.act \in Acts /\ acts[r.act].status # Absent
              /\ acts[r.act].order = r.order
    /\ r.at \notin {"idle", "patch"} => r.target \in WorkOrderStatus

\* What it will write, and what it will leave alone because it had loaded it,
\* is consistent with the row as it is now, whoever wrote it since.
SessionWrites(r) ==
    /\ r.status # "rejected"
    /\ r.at \in SubmitStage /\ r.passed # None
           => acts[r.act].auto_check_passed # None
    /\ r.at \in SubmitStage => r.status \in {"submitted", Keep}
    /\ r.at \in SubmitStage => r.act_status \in {"submitted", Keep}
    /\ r.at \in ReviewStage /\ r.target = "confirmed"
           => acts[r.act].auto_check_passed # None
    /\ r.at \in ReviewStage
           => /\ r.target \in {"confirmed", "rejected"}
              /\ r.act_status \in {r.target, Keep}
    /\ r.at \in ReviewStage /\ r.reviewer = Keep
           => acts[r.act].confirmed_by # None

ActIsAccountedFor(a) ==
    /\ IF acts[a].status = Absent THEN acts[a] = NoAct
                                  ELSE acts[a].order \in Orders
    /\ acts[a].status \in Outcome
           => acts[a].auto_check_passed # None
    /\ acts[a].status = "confirmed" => acts[a].confirmed_by # None

\* The inductive invariant: an accepted request never meets a row that
\* contradicts what it decided on, although it decided on an older one.
SessionsStayValid ==
    /\ TypeOK
    /\ \A s \in Slots : SessionRefers(slots[s]) /\ SessionWrites(slots[s])
    /\ \A a \in Acts : ActIsAccountedFor(a)

-----------------------------------------------------------------------------
(* Requests apart from each other *)

\* No two requests in flight are for the same order.  Nothing in the handlers
\* sees to it: it is what the properties of this group need, and one request at
\* a time is a case of it.
Apart ==
    \A s, t \in Slots :
        s # t /\ slots[s].at # "idle" /\ slots[t].at # "idle"
            => slots[s].order # slots[t].order

\* Every change of an act's status is in ACT_TRANSITIONS, also when it happens
\* in two commits or after a request that died half-way.
ActFollowsTable ==
    [][\A a \in Acts :
          acts[a].status \notin {Absent, acts'[a].status}
              => <<acts[a].status, acts'[a].status>> \in ACT_TRANSITIONS]_vars

\* The audit trail explains the table: the status the last entry of an order
\* reports is the status of the order.
AuditTellsStatus == \A o \in Orders : audited[o] = orders[o].status

\* No act is accepted that its automatic check had failed, and an accepted act
\* and its order agree for good: review_act moves both in one commit and both
\* are terminal.
ConfirmedIsEarned ==
    \A a \in Acts :
        acts[a].status = "confirmed"
            => /\ acts[a].auto_check_passed = "pass"
               /\ orders[acts[a].order].status = "confirmed"

\* The verdict stored with a checked act was reached on the responses stored
\* with it.
VerdictIsAboutResponses ==
    \A a \in Acts :
        acts[a].status \in Outcome
            => acts[a].judged = acts[a].rows

\* The orders implement OrderBoard.
Board == INSTANCE OrderBoard
             WITH board <- [o \in Orders |-> orders[o].status]

OrderBoardSpec == Board!Spec

\* While managers write no status by hand that acts are meant to produce, an
\* order shows a stage of acceptance only if an act of it is at that stage.
OrderBackedByAct ==
    \A o \in Orders :
        orders[o].status \in {"submitted", "auto_confirmed", "confirmed",
                              "delayed_verification", "rejected"}
            => \E a \in Acts : /\ acts[a].order = o
                               /\ acts[a].status = orders[o].status

-----------------------------------------------------------------------------
(* Stated by the repository, not kept by the handlers *)

\* models/order.py:43-44: the table is there so that no status is skipped.
\* Two sessions that loaded the same status both pass the check; the later
\* commit moves the order from wherever the earlier one took it.
OrderFollowsTable ==
    [][\A o \in Orders :
          Exists(o) => can_transition(orders[o].status, orders'[o].status)]_vars

\* models/act.py:141: after an act is signed its responses are immutable.
\* SUBMITTED -> SUBMITTED is a permitted no-op, so a second submit of a signed
\* act replaces its responses.
SignedResponsesAreImmutable ==
    [][\A a \in Acts :
          acts[a].status \notin {Absent, "draft"}
              => acts'[a].rows = acts[a].rows]_vars

\* README.md:350-351: disputed acts are sent to manual review with
\* POST /acts/{id}/review.  One of the two decisions passes its checks.
DelayedActCanBeReviewed ==
    \A a \in Acts :
        /\ acts[a].status = "delayed_verification"
        /\ orders[acts[a].order].status = "delayed_verification"
        => \E decision \in {"confirmed", "rejected"} :
               /\ can_act_transition(acts[a].status, decision)
               /\ can_transition(orders[acts[a].order].status, decision)

\* models/order.py:3-5 has a submitted order end up confirmed or rejected, and
\* README.md:316 has the review reject.  No entry of WORK_ORDER_TRANSITIONS leads
\* to REJECTED, so the decision "reject" is refused for every order and act.
ReviewCanReject ==
    \A a \in Acts :
        /\ acts[a].status \in {"auto_confirmed", "delayed_verification"}
        /\ orders[acts[a].order].status = acts[a].status
        => /\ can_act_transition(acts[a].status, "rejected")
           /\ can_transition(orders[acts[a].order].status, "rejected")
=============================================================================
