----------------------------- MODULE ActProofs -----------------------------
(***************************************************************************)
(* What holds of ActLifecycle for every number of orders, acts, users and  *)
(* concurrent requests, and every bound on the requests that die; and, at  *)
(* the end, what holds besides as long as no two requests in flight are    *)
(* for the same order.                                                     *)
(***************************************************************************)
EXTENDS ActProperties, FiniteSetTheorems, TLAPS

-----------------------------------------------------------------------------
(* The tables and the column operators *)

\* No status but REJECTED may become REJECTED.
LEMMA NoWayToRejected ==
    ASSUME NEW from, can_transition(from, "rejected")
    PROVE  from = "rejected"
BY DEF can_transition, WORK_ORDER_TRANSITIONS

\* An act is confirmed only from AUTO_CONFIRMED, or again.
LEMMA OnlyAutoConfirmedIsConfirmed ==
    ASSUME NEW from, can_act_transition(from, "confirmed")
    PROVE  from \in {"auto_confirmed", "confirmed"}
BY DEF can_act_transition, ACT_TRANSITIONS

\* The two nulls are not values of a column.
LEMMA KeepIsNoStatus ==
    /\ Keep \notin WorkOrderStatus \cup ActStatus \cup Reviewers
                    \cup Verdict \cup {Absent}
    /\ None \notin Reviewers \cup Verdict \cup Orders \cup Acts
    /\ Keep # "submitted" /\ Keep # "rejected" /\ Keep # "confirmed"
BY DistinctNulls DEF WorkOrderStatus, ActStatus, Verdict

\* A session keeps idle values in the types of a session.
LEMMA IdleIsASession == Idle \in Session /\ SessionRefers(Idle)
                                         /\ SessionWrites(Idle)
<1>1. Idle \in Session
    BY DEF Idle, Session, Stage
<1>2. SessionRefers(Idle)
    BY DEF Idle, SessionRefers, SubmitStage, ReviewStage
<1>3. SessionWrites(Idle)
    BY KeepIsNoStatus DEF Idle, SessionWrites, SubmitStage, ReviewStage
<1> QED
    BY <1>1, <1>2, <1>3

-----------------------------------------------------------------------------
\* The seed leaves orders that are assigned or in progress, each audited with
\* the status it has, and no act.
LEMMA InitTables ==
    ASSUME Init
    PROVE  /\ acts = [a \in Acts |-> NoAct]
           /\ orders \in [Orders -> OrderRow]
           /\ audited \in [Orders -> WorkOrderStatus \cup {Absent}]
           /\ \A o \in Orders :
                 /\ orders[o].status \in {"assigned", "in_progress", Absent}
                 /\ audited[o] = orders[o].status
<1> PICK kind \in [Orders -> SeedStatus \cup {Absent}],
         who \in [Orders -> Contractors] :
             /\ orders = [o \in Orders |->
                            [status |-> kind[o],
                             contractor |-> IF kind[o] = Absent THEN None
                                                                ELSE who[o]]]
             /\ audited = kind
    BY DEF Init
<1>1. SeedStatus = {"assigned", "in_progress"}
      /\ SeedStatus \subseteq WorkOrderStatus
    BY DEF SeedStatus, WorkOrderStatus
<1>2. orders \in [Orders -> OrderRow]
    BY <1>1 DEF OrderRow
<1> QED
    BY <1>1, <1>2 DEF Init

\* The seeded database satisfies the invariant.
LEMMA InitValid == Init => SessionsStayValid
<1> SUFFICES ASSUME Init PROVE SessionsStayValid
    OBVIOUS
<1>1. NoAct \in ActRow
    BY DEF NoAct, ActRow
<1>2. \A a \in Acts : ActIsAccountedFor(a)
    BY InitTables DEF NoAct, ActIsAccountedFor, Absent, Outcome
<1>3. slots \in [Slots -> Session] /\ deaths \in 0..MaxDeaths
    BY IdleIsASession, Bounds DEF Init
<1>4. \A s \in Slots : SessionRefers(slots[s]) /\ SessionWrites(slots[s])
    BY IdleIsASession DEF Init
<1> QED
    BY <1>1, <1>2, <1>3, <1>4, InitTables DEF SessionsStayValid, TypeOK

-----------------------------------------------------------------------------
(* Steps.  A request that moves on replaces its own session; the others    *)
(* stay valid when no act loses a value they rely on.                      *)

\* What a commit may do to the acts without invalidating another session.
ActsKeep ==
    \A a \in Acts :
        /\ acts[a].status # Absent
               => acts'[a].status # Absent /\ acts'[a].order = acts[a].order
        /\ acts[a].auto_check_passed # None
               => acts'[a].auto_check_passed # None
        /\ acts[a].confirmed_by # None => acts'[a].confirmed_by # None

\* One request moves on, and the tables stay consistent.
LEMMA RequestStep ==
    ASSUME SessionsStayValid,
           NEW s \in Slots, NEW r \in Session,
           slots' = [slots EXCEPT ![s] = r],
           SessionRefers(r)', SessionWrites(r)',
           orders' \in [Orders -> OrderRow],
           acts' \in [Acts -> ActRow],
           audited' \in [Orders -> WorkOrderStatus \cup {Absent}],
           deaths' \in 0..MaxDeaths,
           ActsKeep,
           \A a \in Acts : ActIsAccountedFor(a)'
    PROVE  SessionsStayValid'
<1>1. TypeOK'
    BY DEF SessionsStayValid, TypeOK
<1>2. ASSUME NEW t \in Slots
      PROVE  (SessionRefers(slots[t]) /\ SessionWrites(slots[t]))'
    <2>1. CASE t = s
        <3>1. slots'[t] = r
            BY <2>1 DEF SessionsStayValid, TypeOK
        <3> QED
            BY <3>1 DEF SessionRefers, SessionWrites
    <2>2. CASE t # s
        <3>1. slots'[t] = slots[t]
            BY <2>2 DEF SessionsStayValid, TypeOK
        <3>2. SessionRefers(slots[t]) /\ SessionWrites(slots[t])
            BY DEF SessionsStayValid
        <3>3. SessionRefers(slots[t])'
            BY <3>1, <3>2 DEF SessionRefers, ActsKeep
        <3>4. SessionWrites(slots[t])'
            <4>1. slots[t].at \in SubmitStage \cup ReviewStage
                      => slots[t].act \in Acts
                BY <3>2 DEF SessionRefers
            <4> QED
                BY <3>1, <3>2, <4>1 DEF SessionWrites, ActsKeep
        <3> QED
            BY <3>3, <3>4
    <2> QED
        BY <2>1, <2>2
<1> QED
    BY <1>1, <1>2 DEF SessionsStayValid

\* A request moves on without writing to a table.
LEMMA QuietStep ==
    ASSUME SessionsStayValid,
           NEW s \in Slots, NEW r \in Session,
           slots' = [slots EXCEPT ![s] = r],
           SessionRefers(r), SessionWrites(r),
           UNCHANGED <<orders, acts, audited>>,
           deaths' \in 0..MaxDeaths
    PROVE  SessionsStayValid'
<1>1. SessionRefers(r)' /\ SessionWrites(r)'
    BY DEF SessionRefers, SessionWrites
<1>2. /\ orders' \in [Orders -> OrderRow]
      /\ acts' \in [Acts -> ActRow]
      /\ audited' \in [Orders -> WorkOrderStatus \cup {Absent}]
    BY DEF SessionsStayValid, TypeOK
<1>3. ActsKeep
    BY DEF ActsKeep
<1>4. \A a \in Acts : ActIsAccountedFor(a)'
    BY DEF SessionsStayValid, ActIsAccountedFor
<1> QED
    BY <1>1, <1>2, <1>3, <1>4, RequestStep

-----------------------------------------------------------------------------
(* Requests that leave the tables as they are *)

\* Sessions and rows have their types.
LEMMA Types ==
    ASSUME SessionsStayValid
    PROVE  /\ \A s \in Slots : /\ slots[s] \in Session
                               /\ SessionRefers(slots[s])
                               /\ SessionWrites(slots[s])
           /\ \A o \in Orders : orders[o] \in OrderRow
           /\ \A a \in Acts : acts[a] \in ActRow /\ ActIsAccountedFor(a)
           /\ deaths \in 0..MaxDeaths
BY DEF SessionsStayValid, TypeOK

\* The end of a request: committed, refused or dead.
LEMMA BackToIdle ==
    ASSUME SessionsStayValid,
           NEW s \in Slots,
           slots' = [slots EXCEPT ![s] = Idle],
           UNCHANGED <<orders, acts, audited>>,
           deaths' \in 0..MaxDeaths
    PROVE  SessionsStayValid'
<1> PICK r : r = Idle
    OBVIOUS
<1>1. r \in Session /\ SessionRefers(r) /\ SessionWrites(r)
    BY IdleIsASession
<1> QED
    BY <1>1, QuietStep

\* An accepted PATCH /orders/{id} keeps a status the table permits.
LEMMA PatchLoadValid ==
    ASSUME SessionsStayValid,
           NEW s \in Slots, NEW o \in Orders,
           NEW c \in Contractors \cup {None, Keep},
           NEW target \in PatchTargets \cup {Keep},
           PatchLoad(s, o, c, target)
    PROVE  SessionsStayValid'
<1> PICK r : r = [Idle EXCEPT !.at = "patch",
                              !.order = o,
                              !.target = target,
                              !.status = Dirty(orders[o].status, target),
                              !.contractor = Dirty(orders[o].contractor, c)]
    OBVIOUS
<1>1. target \in WorkOrderStatus \cup {Keep}
    BY Bounds
<1>2. /\ Dirty(orders[o].status, target) \in WorkOrderStatus \cup {Keep}
      /\ Dirty(orders[o].contractor, c) \in Contractors \cup {None, Keep}
    BY <1>1 DEF Dirty
<1>3. Dirty(orders[o].status, target) # "rejected"
    BY NoWayToRejected, KeepIsNoStatus DEF PatchLoad, Dirty
<1>4. r \in Session
    BY <1>1, <1>2 DEF Session, Stage, Idle
<1>5. SessionRefers(r) /\ SessionWrites(r)
    BY <1>3 DEF SessionRefers, SessionWrites, SubmitStage, ReviewStage, Idle
<1>6. deaths' \in 0..MaxDeaths
    BY Types DEF PatchLoad
<1> QED
    BY <1>4, <1>5, <1>6, QuietStep DEF PatchLoad

\* An accepted POST /orders/{id}/start keeps IN_PROGRESS, or nothing.
LEMMA StartLoadValid ==
    ASSUME SessionsStayValid,
           NEW s \in Slots, NEW o \in Orders,
           NEW c \in Contractors \cup {None},
           StartLoad(s, o, c)
    PROVE  SessionsStayValid'
<1> PICK r : r = [Idle EXCEPT !.at = "start",
                              !.order = o,
                              !.target = "in_progress",
                              !.status = Dirty(orders[o].status,
                                               "in_progress")]
    OBVIOUS
<1>1. /\ Dirty(orders[o].status, "in_progress") \in WorkOrderStatus \cup {Keep}
      /\ Dirty(orders[o].status, "in_progress") # "rejected"
    BY KeepIsNoStatus DEF Dirty, WorkOrderStatus
<1>2. r \in Session
    BY <1>1 DEF Session, Stage, Idle, WorkOrderStatus
<1>3. SessionRefers(r) /\ SessionWrites(r)
    BY <1>1
    DEF SessionRefers, SessionWrites, SubmitStage, ReviewStage, Idle,
        WorkOrderStatus
<1>4. deaths' \in 0..MaxDeaths
    BY Types DEF StartLoad
<1> QED
    BY <1>2, <1>3, <1>4, QuietStep DEF StartLoad

\* An accepted submit keeps the verdict of the act it loaded.
LEMMA SubmitLoadValid ==
    ASSUME SessionsStayValid,
           NEW s \in Slots, NEW a \in Acts, NEW batch \in SUBSET Batches,
           SubmitLoad(s, a, batch)
    PROVE  SessionsStayValid'
<1> PICK r : r = [Idle EXCEPT !.at = "submit_loaded",
                              !.act = a,
                              !.order = acts[a].order,
                              !.target = "submitted",
                              !.act_status = Dirty(acts[a].status,
                                                   "submitted"),
                              !.passed = acts[a].auto_check_passed,
                              !.batch = batch]
    OBVIOUS
<1>1. acts[a] \in ActRow /\ acts[a].status # Absent /\ acts[a].order \in Orders
    BY Types DEF ActIsAccountedFor, SubmitLoad
<1>2. Dirty(acts[a].status, "submitted") \in {"submitted", Keep}
    BY DEF Dirty
<1>3. r \in Session
    BY <1>1, <1>2 DEF Session, Stage, Idle, WorkOrderStatus, ActRow, ActStatus
<1>4. SessionRefers(r)
    BY <1>1 DEF SessionRefers, SubmitStage, ReviewStage, Idle, WorkOrderStatus
<1>5. SessionWrites(r)
    BY <1>2, KeepIsNoStatus
    DEF SessionWrites, SubmitStage, ReviewStage, Idle
<1>6. deaths' \in 0..MaxDeaths
    BY Types DEF SubmitLoad
<1> QED
    BY <1>3, <1>4, <1>5, <1>6, QuietStep DEF SubmitLoad

\* An accepted review decides on an act whose check has been recorded.
LEMMA ReviewLoadActValid ==
    ASSUME SessionsStayValid,
           NEW s \in Slots, NEW a \in Acts, NEW u \in Reviewers,
           NEW decision \in {"confirmed", "rejected"},
           ReviewLoadAct(s, a, u, decision)
    PROVE  SessionsStayValid'
<1> PICK r : r = [Idle EXCEPT !.at = "review_act",
                              !.act = a,
                              !.order = acts[a].order,
                              !.target = decision,
                              !.act_status = Dirty(acts[a].status, decision),
                              !.reviewer = Dirty(acts[a].confirmed_by, u)]
    OBVIOUS
<1>1. /\ acts[a] \in ActRow /\ acts[a].status # Absent
      /\ acts[a].order \in Orders /\ ActIsAccountedFor(a)
    BY Types DEF ActIsAccountedFor, ReviewLoadAct
<1>2. Dirty(acts[a].status, decision) \in {decision, Keep}
    BY DEF Dirty
<1>3. Dirty(acts[a].confirmed_by, u) \in Reviewers \cup {Keep}
    BY DEF Dirty
<1>4. r \in Session
    BY <1>1, <1>2, <1>3
    DEF Session, Stage, Idle, WorkOrderStatus, ActRow, ActStatus
<1>5. SessionRefers(r)
    BY <1>1 DEF SessionRefers, SubmitStage, ReviewStage, Idle, WorkOrderStatus
<1>6. decision = "confirmed" => acts[a].auto_check_passed # None
    BY <1>1, OnlyAutoConfirmedIsConfirmed DEF ReviewLoadAct, ActIsAccountedFor, Outcome
<1>7. Dirty(acts[a].confirmed_by, u) = Keep => acts[a].confirmed_by # None
    BY KeepIsNoStatus DEF Dirty
<1>8. SessionWrites(r)
    BY <1>2, <1>6, <1>7, KeepIsNoStatus
    DEF SessionWrites, SubmitStage, ReviewStage, Idle
<1>9. deaths' \in 0..MaxDeaths
    BY Types DEF ReviewLoadAct
<1> QED
    BY <1>4, <1>5, <1>8, <1>9, QuietStep DEF ReviewLoadAct

\* Deleting the responses it sees changes only the session.
LEMMA SubmitClearValid ==
    ASSUME SessionsStayValid, NEW s \in Slots, SubmitClear(s)
    PROVE  SessionsStayValid'
<1> PICK r : r = [slots[s] EXCEPT !.at = "submit_cleared",
                                  !.rows = acts[slots[s].act].rows]
    OBVIOUS
<1>1. /\ slots[s] \in Session /\ slots[s].at = "submit_loaded"
      /\ SessionRefers(slots[s]) /\ SessionWrites(slots[s])
    BY Types DEF SubmitClear
<1>2. slots[s].act \in Acts /\ acts[slots[s].act] \in ActRow
    BY <1>1, Types DEF SessionRefers, SubmitStage
<1>3. r \in Session
    BY <1>1, <1>2 DEF Session, Stage, ActRow
<1>4. SessionRefers(r) /\ SessionWrites(r)
    BY <1>1 DEF Session, SessionRefers, SessionWrites, SubmitStage, ReviewStage
<1>5. slots' = [slots EXCEPT ![s] = r]
    BY <1>1 DEF SubmitClear, SessionsStayValid, TypeOK
<1>6. deaths' \in 0..MaxDeaths
    BY Types DEF SubmitClear
<1> QED
    BY <1>3, <1>4, <1>5, <1>6, QuietStep DEF SubmitClear

\* Flushing the act checks the order and changes only the session.
LEMMA SubmitFlushValid ==
    ASSUME SessionsStayValid, NEW s \in Slots, SubmitFlush(s)
    PROVE  SessionsStayValid'
<1>1. PICK locks \in BOOLEAN :
          slots' = [slots EXCEPT
                       ![s].at = "submit_flushed",
                       ![s].status = Dirty(orders[slots[s].order].status,
                                           "submitted"),
                       ![s].locks = locks]
    BY DEF SubmitFlush
<1> PICK r : r = [slots[s] EXCEPT
                     !.at = "submit_flushed",
                     !.status = Dirty(orders[slots[s].order].status,
                                      "submitted"),
                     !.locks = locks]
    OBVIOUS
<1>2. /\ slots[s] \in Session /\ slots[s].at = "submit_cleared"
      /\ SessionRefers(slots[s]) /\ SessionWrites(slots[s])
    BY Types DEF SubmitFlush
<1>3. Dirty(orders[slots[s].order].status, "submitted")
          \in {"submitted", Keep}
    BY DEF Dirty
<1>4. r \in Session
    BY <1>2, <1>3 DEF Session, Stage, WorkOrderStatus
<1>5. SessionRefers(r) /\ SessionWrites(r)
    BY <1>2, <1>3, KeepIsNoStatus
    DEF Session, SessionRefers, SessionWrites, SubmitStage, ReviewStage
<1>6. slots' = [slots EXCEPT ![s] = r]
    BY <1>1, <1>2 DEF SessionsStayValid, TypeOK
<1>7. deaths' \in 0..MaxDeaths
    BY Types DEF SubmitFlush
<1> QED
    BY <1>4, <1>5, <1>6, <1>7, QuietStep DEF SubmitFlush

\* Running the check changes only the session.
LEMMA SubmitJudgeValid ==
    ASSUME SessionsStayValid, NEW s \in Slots, SubmitJudge(s)
    PROVE  SessionsStayValid'
<1> PICK r : r = [slots[s] EXCEPT !.at = "submit_judged",
                                  !.rows = acts[slots[s].act].rows]
    OBVIOUS
<1>1. /\ slots[s] \in Session /\ slots[s].at = "submit_stored"
      /\ SessionRefers(slots[s]) /\ SessionWrites(slots[s])
    BY Types DEF SubmitJudge
<1>2. slots[s].act \in Acts /\ acts[slots[s].act] \in ActRow
    BY <1>1, Types DEF SessionRefers, SubmitStage
<1>3. r \in Session
    BY <1>1, <1>2 DEF Session, Stage, ActRow
<1>4. SessionRefers(r) /\ SessionWrites(r)
    BY <1>1 DEF Session, SessionRefers, SessionWrites, SubmitStage, ReviewStage
<1>5. slots' = [slots EXCEPT ![s] = r]
    BY <1>1 DEF SubmitJudge, SessionsStayValid, TypeOK
<1>6. deaths' \in 0..MaxDeaths
    BY Types DEF SubmitJudge
<1> QED
    BY <1>3, <1>4, <1>5, <1>6, QuietStep DEF SubmitJudge

\* The order of a reviewed act is checked before it is written.
LEMMA ReviewLoadOrderValid ==
    ASSUME SessionsStayValid, NEW s \in Slots, ReviewLoadOrder(s)
    PROVE  SessionsStayValid'
<1> PICK r : r = [slots[s] EXCEPT
                     !.at = "review_order",
                     !.status = Dirty(orders[slots[s].order].status,
                                      slots[s].target)]
    OBVIOUS
<1>1. /\ slots[s] \in Session /\ slots[s].at = "review_act"
      /\ SessionRefers(slots[s]) /\ SessionWrites(slots[s])
      /\ can_transition(orders[slots[s].order].status, slots[s].target)
    BY Types DEF ReviewLoadOrder
<1>2. Dirty(orders[slots[s].order].status, slots[s].target)
          \in WorkOrderStatus \cup {Keep}
    BY <1>1 DEF Dirty, Session
<1>3. Dirty(orders[slots[s].order].status, slots[s].target) # "rejected"
    BY <1>1, NoWayToRejected, KeepIsNoStatus DEF Dirty
<1>4. r \in Session
    BY <1>1, <1>2 DEF Session, Stage
<1>5. SessionRefers(r) /\ SessionWrites(r)
    BY <1>1, <1>3
    DEF Session, SessionRefers, SessionWrites, SubmitStage, ReviewStage
<1>6. slots' = [slots EXCEPT ![s] = r]
    BY <1>1 DEF ReviewLoadOrder, SessionsStayValid, TypeOK
<1>7. deaths' \in 0..MaxDeaths
    BY Types DEF ReviewLoadOrder
<1> QED
    BY <1>4, <1>5, <1>6, <1>7, QuietStep DEF ReviewLoadOrder

\* A refused request leaves no trace.
LEMMA RefuseValid ==
    ASSUME SessionsStayValid, NEW s \in Slots, Refuse(s)
    PROVE  SessionsStayValid'
BY BackToIdle, Types DEF Refuse

\* A dead request leaves no trace but what it had committed.
LEMMA DieValid ==
    ASSUME SessionsStayValid, NEW s \in Slots, Die(s)
    PROVE  SessionsStayValid'
<1>1. deaths' \in 0..MaxDeaths
    BY Types, Bounds DEF Die
<1> QED
    BY <1>1, BackToIdle DEF Die

-----------------------------------------------------------------------------
(* Commits *)

\* A commit ends the request; the tables change.
LEMMA CommitStep ==
    ASSUME SessionsStayValid,
           NEW s \in Slots,
           slots' = [slots EXCEPT ![s] = Idle],
           orders' \in [Orders -> OrderRow],
           acts' \in [Acts -> ActRow],
           audited' \in [Orders -> WorkOrderStatus \cup {Absent}],
           UNCHANGED deaths,
           ActsKeep,
           \A a \in Acts : ActIsAccountedFor(a)'
    PROVE  SessionsStayValid'
<1> PICK r : r = Idle
    OBVIOUS
<1>1. r \in Session
    BY IdleIsASession
<1>2. SessionRefers(r)'
    BY DEF SessionRefers, Idle, SubmitStage, ReviewStage
<1>3. SessionWrites(r)'
    BY KeepIsNoStatus DEF SessionWrites, Idle, SubmitStage, ReviewStage
<1>4. deaths' \in 0..MaxDeaths
    BY Types
<1> QED
    BY <1>1, <1>2, <1>3, <1>4, RequestStep

\* A row is inserted in one transaction; no session is involved.
LEMMA InsertStep ==
    ASSUME SessionsStayValid,
           UNCHANGED <<slots, deaths>>,
           orders' \in [Orders -> OrderRow],
           acts' \in [Acts -> ActRow],
           audited' \in [Orders -> WorkOrderStatus \cup {Absent}],
           ActsKeep,
           \A a \in Acts : ActIsAccountedFor(a)'
    PROVE  SessionsStayValid'
<1>1. TypeOK'
    BY DEF SessionsStayValid, TypeOK
<1>2. ASSUME NEW s \in Slots
      PROVE  (SessionRefers(slots[s]) /\ SessionWrites(slots[s]))'
    <2>1. slots'[s] = slots[s] /\ slots[s] \in Session
          /\ SessionRefers(slots[s]) /\ SessionWrites(slots[s])
        BY Types
    <2>2. SessionRefers(slots[s])'
        BY <2>1 DEF SessionRefers, ActsKeep
    <2>3. slots[s].at \in SubmitStage \cup ReviewStage => slots[s].act \in Acts
        BY <2>1 DEF SessionRefers
    <2>4. SessionWrites(slots[s])'
        BY <2>1, <2>3 DEF SessionWrites, ActsKeep
    <2> QED
        BY <2>2, <2>4
<1> QED
    BY <1>1, <1>2 DEF SessionsStayValid

\* A commit that leaves the acts as they are.
LEMMA SameActs ==
    ASSUME SessionsStayValid, UNCHANGED acts
    PROVE  /\ acts' \in [Acts -> ActRow]
           /\ ActsKeep
           /\ \A a \in Acts : ActIsAccountedFor(a)'
BY DEF SessionsStayValid, TypeOK, ActsKeep, ActIsAccountedFor

\* POST /orders inserts a draft or an assigned order.
LEMMA CreateOrderValid ==
    ASSUME SessionsStayValid,
           NEW o \in Orders, NEW c \in Contractors \cup {None},
           CreateOrder(o, c)
    PROVE  SessionsStayValid'
<1>1. orders' \in [Orders -> OrderRow]
    BY DEF CreateOrder, SessionsStayValid, TypeOK, OrderRow, WorkOrderStatus
<1>2. audited' \in [Orders -> WorkOrderStatus \cup {Absent}]
    BY DEF CreateOrder, SessionsStayValid, TypeOK, WorkOrderStatus
<1> QED
    BY <1>1, <1>2, SameActs, InsertStep DEF CreateOrder

\* The commit of a PATCH writes the columns it changed.
LEMMA PatchCommitValid ==
    ASSUME SessionsStayValid, NEW s \in Slots, PatchCommit(s)
    PROVE  SessionsStayValid'
<1>1. /\ slots[s] \in Session /\ slots[s].order \in Orders
      /\ orders[slots[s].order] \in OrderRow
    BY Types DEF PatchCommit, SessionRefers
<1>2. orders' \in [Orders -> OrderRow]
    <2> DEFINE o == slots[s].order
               status == Written(orders[o].status, slots[s].status)
               contractor == Written(orders[o].contractor, slots[s].contractor)
    <2>1. /\ status \in WorkOrderStatus \cup {Absent}
          /\ contractor \in Contractors \cup {None}
        BY <1>1 DEF Written, Session, OrderRow
    <2>2. orders' = [orders EXCEPT ![o].status = status,
                                   ![o].contractor = contractor]
        BY <1>1 DEF PatchCommit, SessionsStayValid, TypeOK, OrderRow
    <2> HIDE DEF status, contractor
    <2> QED
        BY <1>1, <2>1, <2>2 DEF SessionsStayValid, TypeOK, OrderRow
<1>3. audited' \in [Orders -> WorkOrderStatus \cup {Absent}]
    BY <1>1 DEF PatchCommit, SessionsStayValid, TypeOK, Written, Session
<1> QED
    BY <1>2, <1>3, SameActs, CommitStep DEF PatchCommit

\* The commit of a start writes the status.
LEMMA StartCommitValid ==
    ASSUME SessionsStayValid, NEW s \in Slots, StartCommit(s)
    PROVE  SessionsStayValid'
<1>1. /\ slots[s] \in Session /\ slots[s].order \in Orders
      /\ slots[s].target \in WorkOrderStatus
      /\ orders[slots[s].order] \in OrderRow
    BY Types DEF StartCommit, SessionRefers
<1>2. orders' \in [Orders -> OrderRow]
    BY <1>1
    DEF StartCommit, SessionsStayValid, TypeOK, OrderRow, Written, Session
<1>3. audited' \in [Orders -> WorkOrderStatus \cup {Absent}]
    BY <1>1 DEF StartCommit, SessionsStayValid, TypeOK
<1> QED
    BY <1>2, <1>3, SameActs, CommitStep DEF StartCommit

\* POST /acts inserts a draft of an existing order.
LEMMA CreateDraftActValid ==
    ASSUME SessionsStayValid,
           NEW a \in Acts, NEW o \in Orders, NEW rows \in SUBSET Batches,
           CreateDraftAct(a, o, rows)
    PROVE  SessionsStayValid'
<1> PICK row : row = [NoAct EXCEPT !.status = "draft",
                                   !.order = o,
                                   !.rows = rows]
    OBVIOUS
<1>1. row \in ActRow
    BY DEF ActRow, NoAct, ActStatus
<1>2. acts' = [acts EXCEPT ![a] = row] /\ acts[a].status = Absent
    BY DEF CreateDraftAct
<1>3. acts' \in [Acts -> ActRow]
    BY <1>1, <1>2 DEF SessionsStayValid, TypeOK
<1>4. ActsKeep
    <2>1. acts[a].auto_check_passed = None /\ acts[a].confirmed_by = None
        BY <1>2, Types DEF ActIsAccountedFor, NoAct
    <2> QED
        BY <1>1, <1>2, <2>1 DEF ActsKeep, SessionsStayValid, TypeOK, NoAct, Absent
<1>5. ASSUME NEW b \in Acts
      PROVE  ActIsAccountedFor(b)'
    <2>1. CASE b = a
        BY <1>2, <2>1
        DEF ActIsAccountedFor, NoAct, Absent, Outcome, SessionsStayValid, TypeOK
    <2>2. CASE b # a
        BY <1>2, <2>2, Types DEF ActIsAccountedFor, SessionsStayValid, TypeOK
    <2> QED
        BY <2>1, <2>2
<1>6. /\ orders' \in [Orders -> OrderRow]
      /\ audited' \in [Orders -> WorkOrderStatus \cup {Absent}]
    BY DEF CreateDraftAct, SessionsStayValid, TypeOK
<1> QED
    BY <1>3, <1>4, <1>5, <1>6, InsertStep DEF CreateDraftAct

\* The first commit of a submit never leaves an act unaccounted for.
LEMMA SubmitStoreValid ==
    ASSUME SessionsStayValid, NEW s \in Slots, SubmitStore(s)
    PROVE  SessionsStayValid'
<1> PICK q : q = slots[s]
    OBVIOUS
<1>1. /\ q \in Session /\ q.at = "submit_flushed" /\ q.order \in Orders
      /\ q.act \in Acts /\ acts[q.act].status # Absent
      /\ q.target \in WorkOrderStatus /\ q.batch \in SUBSET Batches
      /\ q.rows \in SUBSET Batches
      /\ q.act_status \in {"submitted", Keep}
      /\ acts[q.act] \in ActRow /\ ActIsAccountedFor(q.act)
      /\ orders[q.order] \in OrderRow
      /\ SessionRefers(q) /\ SessionWrites(q)
    BY Types DEF SubmitStore, SessionRefers, SessionWrites, SubmitStage, Session
<1> PICK row : row = [acts[q.act] EXCEPT
                         !.status = Written(@, q.act_status),
                         !.rows = (@ \ q.rows) \cup q.batch]
    OBVIOUS
<1>2. /\ row \in ActRow
      /\ row.status \in {"submitted", acts[q.act].status}
      /\ row.order = acts[q.act].order
      /\ row.auto_check_passed = acts[q.act].auto_check_passed
      /\ row.confirmed_by = acts[q.act].confirmed_by
    BY <1>1, ZenonT(30) DEF ActRow, Written, ActStatus
<1>3. acts' = [acts EXCEPT ![q.act] = row]
    BY <1>1 DEF SubmitStore, SessionsStayValid, TypeOK, ActRow
<1>4. acts' \in [Acts -> ActRow]
    BY <1>2, <1>3 DEF SessionsStayValid, TypeOK
<1>5. ActsKeep
    BY <1>1, <1>2, <1>3 DEF ActsKeep, SessionsStayValid, TypeOK, Absent
<1>6. ASSUME NEW b \in Acts
      PROVE  ActIsAccountedFor(b)'
    <2>1. CASE b = q.act
        <3>1. acts'[b] = row
            BY <1>3, <2>1 DEF SessionsStayValid, TypeOK
        <3> QED
            BY <1>1, <1>2, <2>1, <3>1 DEF ActIsAccountedFor, Absent, Outcome
    <2>2. CASE b # q.act
        BY <1>3, <2>2, Types DEF ActIsAccountedFor, SessionsStayValid, TypeOK
    <2> QED
        BY <2>1, <2>2
<1>7. orders' \in [Orders -> OrderRow]
    BY <1>1
    DEF SubmitStore, SessionsStayValid, TypeOK, OrderRow, Written, Session
<1>8. audited' \in [Orders -> WorkOrderStatus \cup {Absent}]
    BY <1>1 DEF SubmitStore, SessionsStayValid, TypeOK
<1> PICK r : r = [q EXCEPT !.at = "submit_stored",
                           !.rows = {},
                           !.batch = {},
                           !.locks = FALSE]
    OBVIOUS
<1>9. slots' = [slots EXCEPT ![s] = r]
    BY <1>1 DEF SubmitStore, SessionsStayValid, TypeOK
<1>10. r \in Session
    <2>1. PICK off \in BOOLEAN : off = FALSE
        OBVIOUS
    <2>2. r = [q EXCEPT !.at = "submit_stored",
                        !.rows = {},
                        !.batch = {},
                        !.locks = off]
        BY <2>1
    <2> QED
        BY <1>1, <2>2 DEF Session, Stage
<1>11. SessionRefers(r)'
    BY <1>1, <1>5 DEF ActsKeep, Session, SessionRefers, SubmitStage, ReviewStage
<1>12. SessionWrites(r)'
    BY <1>1, <1>5 DEF ActsKeep, Session, SessionWrites, SubmitStage, ReviewStage
<1>13. deaths' \in 0..MaxDeaths
    BY Types DEF SubmitStore
<1> QED
    BY <1>4, <1>5, <1>6, <1>7, <1>8, <1>9, <1>10, <1>11, <1>12, <1>13,
       RequestStep

\* The second commit of a submit writes a status and its verdict.
LEMMA SubmitDecideValid ==
    ASSUME SessionsStayValid,
           NEW s \in Slots, NEW verdict \in Verdict, SubmitDecide(s, verdict)
    PROVE  SessionsStayValid'
<1> PICK q : q = slots[s]
    OBVIOUS
<1> PICK status : status = IF verdict = "pass" THEN "auto_confirmed"
                                               ELSE "delayed_verification"
    OBVIOUS
<1>1. /\ q \in Session /\ q.at = "submit_judged" /\ q.order \in Orders
      /\ q.act \in Acts /\ acts[q.act].status # Absent
      /\ q.passed # None => acts[q.act].auto_check_passed # None
      /\ acts[q.act] \in ActRow /\ ActIsAccountedFor(q.act)
    BY Types DEF SubmitDecide, SessionRefers, SessionWrites, SubmitStage
<1>2. /\ status \in {"auto_confirmed", "delayed_verification"}
      /\ status \in ActStatus /\ status \in WorkOrderStatus
    BY DEF ActStatus, WorkOrderStatus
<1> PICK passed : passed = Written(acts[q.act].auto_check_passed,
                                   Dirty(q.passed, verdict))
    OBVIOUS
<1>3. passed \in Verdict
    <2>1. acts[q.act].auto_check_passed \in Verdict \cup {None}
        BY <1>1 DEF ActRow
    <2> QED
        BY <1>1, <2>1, KeepIsNoStatus DEF Written, Dirty
<1> PICK row : row = [acts[q.act] EXCEPT !.status = status,
                                         !.auto_check_passed = passed,
                                         !.judged = q.rows]
    OBVIOUS
<1>4. /\ row \in ActRow
      /\ row.status = status
      /\ row.order = acts[q.act].order
      /\ row.auto_check_passed = passed
      /\ row.confirmed_by = acts[q.act].confirmed_by
    <2>1. /\ acts[q.act] \in ActRow /\ q.rows \in SUBSET Batches
          /\ status \in ActStatus
        BY <1>1, <1>2 DEF Session
    <2> QED
        BY <2>1, <1>3 DEF ActRow
<1>5. acts' = [acts EXCEPT ![q.act] = row]
    BY <1>1 DEF SubmitDecide, SessionsStayValid, TypeOK, ActRow
<1>6. acts' \in [Acts -> ActRow]
    BY <1>4, <1>5 DEF SessionsStayValid, TypeOK
<1>7. ActsKeep
    BY <1>1, <1>2, <1>3, <1>4, <1>5, KeepIsNoStatus
    DEF ActsKeep, SessionsStayValid, TypeOK, Absent
<1>8. ASSUME NEW b \in Acts
      PROVE  ActIsAccountedFor(b)'
    <2>1. CASE b = q.act
        <3>1. acts'[b] = row
            BY <1>5, <2>1 DEF SessionsStayValid, TypeOK
        <3> QED
            BY <1>1, <1>2, <1>3, <1>4, <2>1, <3>1, KeepIsNoStatus
            DEF ActIsAccountedFor, Absent, Outcome
    <2>2. CASE b # q.act
        BY <1>5, <2>2, Types DEF ActIsAccountedFor, SessionsStayValid, TypeOK
    <2> QED
        BY <2>1, <2>2
<1>9. orders' \in [Orders -> OrderRow]
    BY <1>1, <1>2 DEF SubmitDecide, SessionsStayValid, TypeOK, OrderRow
<1>10. audited' \in [Orders -> WorkOrderStatus \cup {Absent}]
    BY <1>1, <1>2 DEF SubmitDecide, SessionsStayValid, TypeOK
<1> QED
    BY <1>6, <1>7, <1>8, <1>9, <1>10, CommitStep DEF SubmitDecide

\* The commit of a review confirms only what has a verdict and names who did.
LEMMA ReviewCommitValid ==
    ASSUME SessionsStayValid, NEW s \in Slots, ReviewCommit(s)
    PROVE  SessionsStayValid'
<1> PICK q : q = slots[s]
    OBVIOUS
<1>1. /\ q \in Session /\ q.at = "review_order" /\ q.order \in Orders
      /\ q.act \in Acts /\ acts[q.act].status # Absent
      /\ q.target \in {"confirmed", "rejected"}
      /\ q.act_status \in {q.target, Keep}
      /\ q.target = "confirmed" => acts[q.act].auto_check_passed # None
      /\ q.reviewer = Keep => acts[q.act].confirmed_by # None
      /\ acts[q.act] \in ActRow /\ ActIsAccountedFor(q.act)
      /\ orders[q.order] \in OrderRow
    BY Types DEF ReviewCommit, SessionRefers, SessionWrites, ReviewStage
<1> PICK row : row = [acts[q.act] EXCEPT
                         !.status = Written(@, q.act_status),
                         !.confirmed_by = Written(@, q.reviewer)]
    OBVIOUS
<1>2. /\ row \in ActRow
      /\ row.status \in {q.target, acts[q.act].status}
      /\ row.order = acts[q.act].order
      /\ row.auto_check_passed = acts[q.act].auto_check_passed
      /\ row.confirmed_by # None
    <2>1. /\ Written(acts[q.act].status, q.act_status)
                 \in {q.target, acts[q.act].status}
          /\ Written(acts[q.act].status, q.act_status)
                 \in ActStatus \cup {Absent}
        BY <1>1 DEF Written, ActRow, ActStatus
    <2>2. /\ Written(acts[q.act].confirmed_by, q.reviewer)
                 \in Reviewers \cup {None}
          /\ Written(acts[q.act].confirmed_by, q.reviewer) # None
        <3>1. /\ acts[q.act].confirmed_by \in Reviewers \cup {None}
              /\ q.reviewer \in Reviewers \cup {Keep}
            BY <1>1 DEF ActRow, Session
        <3> QED
            BY <1>1, <3>1, KeepIsNoStatus DEF Written
    <2>3. acts[q.act] \in ActRow
        BY <1>1
    <2> QED
        BY <2>1, <2>2, <2>3 DEF ActRow
<1>3. acts' = [acts EXCEPT ![q.act] = row]
    BY <1>1 DEF ReviewCommit, SessionsStayValid, TypeOK, ActRow
<1>4. acts' \in [Acts -> ActRow]
    BY <1>2, <1>3 DEF SessionsStayValid, TypeOK
<1>5. ActsKeep
    BY <1>1, <1>2, <1>3 DEF ActsKeep, SessionsStayValid, TypeOK, Absent
<1>6. ASSUME NEW b \in Acts
      PROVE  ActIsAccountedFor(b)'
    <2>1. CASE b = q.act
        <3>1. acts'[b] = row
            BY <1>3, <2>1 DEF SessionsStayValid, TypeOK
        <3> QED
            BY <1>1, <1>2, <2>1, <3>1 DEF ActIsAccountedFor, Absent, Outcome
    <2>2. CASE b # q.act
        BY <1>3, <2>2, Types DEF ActIsAccountedFor, SessionsStayValid, TypeOK
    <2> QED
        BY <2>1, <2>2
<1>7. orders' \in [Orders -> OrderRow]
    BY <1>1
    DEF ReviewCommit, SessionsStayValid, TypeOK, OrderRow, Written, Session
<1>8. audited' \in [Orders -> WorkOrderStatus \cup {Absent}]
    BY <1>1 DEF ReviewCommit, SessionsStayValid, TypeOK, WorkOrderStatus
<1> QED
    BY <1>4, <1>5, <1>6, <1>7, <1>8, CommitStep DEF ReviewCommit

-----------------------------------------------------------------------------
(* The invariant and what follows from it *)

\* Every step preserves the invariant, one action at a time.
LEMMA StepValid == SessionsStayValid /\ [Next]_vars => SessionsStayValid'
<1> SUFFICES ASSUME SessionsStayValid, [Next]_vars
             PROVE  SessionsStayValid'
    OBVIOUS
<1>1. CASE Insert
    <2>1. ASSUME NEW o \in Orders, NEW c \in Contractors \cup {None},
                 CreateOrder(o, c)
          PROVE  SessionsStayValid'
        BY <2>1, CreateOrderValid
    <2>2. ASSUME NEW a \in Acts, NEW o \in Orders,
                 NEW rows \in Calls,
                 CreateDraftAct(a, o, rows)
          PROVE  SessionsStayValid'
        <3>1. rows \in SUBSET Batches
            BY DEF Calls
        <3> QED
            BY <2>2, <3>1, CreateDraftActValid
    <2> QED
        BY <1>1, <2>1, <2>2 DEF Insert
<1>2. ASSUME NEW s \in Slots, NEW o \in Orders, OrderRequest(s, o)
      PROVE  SessionsStayValid'
    BY <1>2, PatchLoadValid, StartLoadValid DEF OrderRequest
<1>3. ASSUME NEW s \in Slots, NEW a \in Acts, ActRequest(s, a)
      PROVE  SessionsStayValid'
    BY <1>3, SubmitLoadValid, ReviewLoadActValid DEF ActRequest, Calls
<1>4. ASSUME NEW s \in Slots, Serve(s)
      PROVE  SessionsStayValid'
    BY <1>4, PatchCommitValid, StartCommitValid, SubmitClearValid,
       SubmitFlushValid, SubmitStoreValid, SubmitJudgeValid,
       SubmitDecideValid, ReviewLoadOrderValid, ReviewCommitValid, RefuseValid
    DEF Serve
<1>5. ASSUME NEW s \in Slots, Die(s)
      PROVE  SessionsStayValid'
    BY <1>5, DieValid
<1>6. CASE UNCHANGED vars
    BY <1>6, SameActs, InsertStep DEF vars, SessionsStayValid, TypeOK
<1> QED
    BY <1>1, <1>2, <1>3, <1>4, <1>5, <1>6 DEF Next

\* Whatever an accepted request decided on an older row still stands when it
\* writes: the invariant holds in every state.
THEOREM SessionsAlwaysValid == Spec => []SessionsStayValid
<1> QED
    BY InitValid, StepValid, PTL DEF Spec

\* The tables and the sessions keep their types.
THEOREM TypeCorrect == Spec => []TypeOK
<1>1. SessionsStayValid => TypeOK
    BY DEF SessionsStayValid
<1> QED
    BY <1>1, SessionsAlwaysValid, PTL

\* An accepted act names its reviewer and has a verdict, however the requests
\* on it interleave.
THEOREM ConfirmedAccounted == Spec => []ConfirmedIsAccountedFor
<1>1. SessionsStayValid => ConfirmedIsAccountedFor
    BY DEF SessionsStayValid, ActIsAccountedFor, ConfirmedIsAccountedFor,
           Outcome
<1> QED
    BY <1>1, SessionsAlwaysValid, PTL

\* A step that is not a death leaves a submitted act to the request that
\* checks it.
LEMMA StepKeepsHandler ==
    ASSUME SessionsStayValid, [Next]_vars, ~\E s \in Slots : Die(s),
           NEW a \in Acts, acts[a].status = "submitted" => HasHandler(a),
           acts'[a].status = "submitted"
    PROVE  HasHandler(a)'
<1>1. acts \in [Acts -> ActRow] /\ slots \in [Slots -> Session]
    BY DEF SessionsStayValid, TypeOK
<1>3. ASSUME NEW s \in Slots, acts' = acts,
             \A t \in Slots \ {s} : slots'[t] = slots[t],
             slots[s].at \notin {"submit_stored", "submit_judged"}
      PROVE  HasHandler(a)'
    BY <1>1, <1>3 DEF HasHandler
<1>4. CASE Insert
    <2>1. ASSUME NEW o \in Orders, NEW c \in Contractors \cup {None},
                 CreateOrder(o, c)
          PROVE  HasHandler(a)'
        BY <2>1 DEF CreateOrder, HasHandler
    <2>2. ASSUME NEW b \in Acts, NEW o \in Orders,
                 NEW rows \in Calls,
                 CreateDraftAct(b, o, rows)
          PROVE  HasHandler(a)'
        <3>1. acts[a].status = "submitted"
            <4>1. CASE a = b
                BY <1>1, <2>2, <4>1 DEF CreateDraftAct, NoAct
            <4>2. CASE a # b
                BY <1>1, <2>2, <4>2 DEF CreateDraftAct
            <4> QED
                BY <4>1, <4>2
        <3> QED
            BY <2>2, <3>1
            DEF CreateDraftAct, HasHandler
    <2> QED
        BY <1>4, <2>1, <2>2 DEF Insert
<1>5. ASSUME NEW s \in Slots, NEW o \in Orders, OrderRequest(s, o)
      PROVE  HasHandler(a)'
    BY <1>1, <1>3, <1>5 DEF OrderRequest, PatchLoad, StartLoad
<1>6. ASSUME NEW s \in Slots, NEW b \in Acts, ActRequest(s, b)
      PROVE  HasHandler(a)'
    BY <1>1, <1>3, <1>6 DEF ActRequest, SubmitLoad, ReviewLoadAct
<1>7. ASSUME NEW s \in Slots, Serve(s)
      PROVE  HasHandler(a)'
    <2>1. CASE PatchCommit(s) \/ StartCommit(s) \/ SubmitClear(s)
                 \/ SubmitFlush(s) \/ ReviewLoadOrder(s) \/ Refuse(s)
        BY <1>1, <1>3, <2>1
        DEF PatchCommit, StartCommit, SubmitClear, SubmitFlush,
            ReviewLoadOrder, Refuse
    <2>2. CASE SubmitStore(s)
        <3>1. /\ slots'[s].at = "submit_stored" /\ slots'[s].act = slots[s].act
              /\ \A t \in Slots \ {s} : slots'[t] = slots[t]
            BY <1>1, <2>2 DEF SubmitStore, Session
        <3>2. CASE slots[s].act = a
            BY <3>1, <3>2 DEF HasHandler
        <3>3. CASE slots[s].act # a
            <4>1. acts'[a] = acts[a]
                BY <1>1, <2>2, <3>3 DEF SubmitStore
            <4>2. slots[s].at = "submit_flushed"
                BY <2>2 DEF SubmitStore
            <4> QED
                BY <3>1, <4>1, <4>2 DEF HasHandler
        <3> QED
            BY <3>2, <3>3
    <2>3. CASE SubmitJudge(s)
        <3>1. /\ slots'[s].at = "submit_judged" /\ slots'[s].act = slots[s].act
              /\ \A t \in Slots \ {s} : slots'[t] = slots[t]
            BY <1>1, <2>3 DEF SubmitJudge, Session
        <3>2. acts' = acts
            BY <2>3 DEF SubmitJudge
        <3> QED
            BY <3>1, <3>2 DEF HasHandler
    <2>4. ASSUME NEW verdict \in Verdict, SubmitDecide(s, verdict)
          PROVE  HasHandler(a)'
        <3>1. slots[s].act # a
            BY <1>1, <2>4 DEF SubmitDecide, ActRow
        <3>2. acts'[a] = acts[a]
            BY <1>1, <2>4, <3>1 DEF SubmitDecide
        <3>3. \A t \in Slots \ {s} : slots'[t] = slots[t]
            BY <1>1, <2>4 DEF SubmitDecide
        <3> QED
            BY <3>1, <3>2, <3>3 DEF HasHandler
    <2>5. CASE ReviewCommit(s)
        <3>1. /\ slots[s].target \in {"confirmed", "rejected"}
              /\ slots[s].act_status \in {slots[s].target, Keep}
            BY <2>5, Types DEF ReviewCommit, SessionWrites, ReviewStage
        <3>2. acts[a].status = "submitted"
            BY <1>1, <2>5, <3>1, KeepIsNoStatus
            DEF ReviewCommit, Written, ActRow
        <3>3. /\ \A t \in Slots \ {s} : slots'[t] = slots[t]
              /\ slots[s].at = "review_order"
            BY <1>1, <2>5 DEF ReviewCommit
        <3> QED
            BY <3>2, <3>3 DEF HasHandler
    <2> QED
        BY <1>7, <2>1, <2>2, <2>3, <2>4, <2>5 DEF Serve
<1>8. CASE UNCHANGED vars
    BY <1>8 DEF vars, HasHandler
<1> QED
    BY <1>4, <1>5, <1>6, <1>7, <1>8 DEF Next

\* Deaths are counted by nothing but a death.
LEMMA StepKeepsDeaths ==
    ASSUME [Next]_vars, ~\E s \in Slots : Die(s)
    PROVE  deaths' = deaths
<1>1. CASE Insert
    BY <1>1 DEF Insert, CreateOrder, CreateDraftAct
<1>2. ASSUME NEW s \in Slots, NEW o \in Orders, OrderRequest(s, o)
      PROVE  deaths' = deaths
    BY <1>2 DEF OrderRequest, PatchLoad, StartLoad
<1>3. ASSUME NEW s \in Slots, NEW a \in Acts, ActRequest(s, a)
      PROVE  deaths' = deaths
    BY <1>3 DEF ActRequest, SubmitLoad, ReviewLoadAct
<1>4. ASSUME NEW s \in Slots, Serve(s)
      PROVE  deaths' = deaths
    BY <1>4 DEF Serve, PatchCommit, StartCommit, SubmitClear, SubmitFlush,
                SubmitStore, SubmitJudge, SubmitDecide, ReviewLoadOrder,
                ReviewCommit, Refuse
<1>5. CASE UNCHANGED vars
    BY <1>5 DEF vars
<1> QED
    BY <1>1, <1>2, <1>3, <1>4, <1>5 DEF Next

\* A set with one element more at most has at most one element more.
LEMMA OneMore ==
    ASSUME NEW S, IsFiniteSet(S), NEW x, NEW T, T \subseteq S \cup {x}
    PROVE  Cardinality(T) <= Cardinality(S) + 1 /\ Cardinality(T) \in Nat
<1>1. Cardinality(S) \in Nat
    BY FS_CardinalityType
<1>2. /\ IsFiniteSet(S \cup {x})
      /\ Cardinality(S \cup {x}) =
            IF x \in S THEN Cardinality(S) ELSE Cardinality(S) + 1
    BY FS_AddElement
<1>3. IsFiniteSet(T) /\ Cardinality(T) <= Cardinality(S \cup {x})
    BY <1>2, FS_Subset
<1>4. Cardinality(T) \in Nat
    BY <1>3, FS_CardinalityType
<1> QED
    BY <1>1, <1>2, <1>3, <1>4

\* The acts that are stuck: a death adds one at most, another step none.
LEMMA StepCountsStuck ==
    ASSUME SessionsStayValid, SubmittedIsBeingChecked, [Next]_vars
    PROVE  SubmittedIsBeingChecked'
<1> USE DEF SubmittedIsBeingChecked
<1>1. deaths \in Nat /\ slots \in [Slots -> Session]
    BY Bounds DEF SessionsStayValid, TypeOK
<1>2. IsFiniteSet(Stuck) /\ Cardinality(Stuck) \in Nat
    BY ActAssumption, FS_Subset, FS_CardinalityType DEF Stuck
<1>3. ASSUME ~\E s \in Slots : Die(s)
      PROVE  SubmittedIsBeingChecked'
    <2>1. Stuck' \subseteq Stuck
        BY <1>3, StepKeepsHandler DEF Stuck
    <2>2. IsFiniteSet(Stuck') /\ Cardinality(Stuck') <= Cardinality(Stuck)
        BY <1>2, <2>1, FS_Subset
    <2>3. Cardinality(Stuck') \in Nat
        BY <2>2, FS_CardinalityType
    <2>4. deaths' = deaths
        BY <1>3, StepKeepsDeaths
    <2> QED
        BY <1>1, <1>2, <2>2, <2>3, <2>4
<1>4. ASSUME NEW s \in Slots, Die(s)
      PROVE  SubmittedIsBeingChecked'
    <2>1. Stuck' \subseteq Stuck \cup {slots[s].act}
        <3>1. acts' = acts /\ \A t \in Slots \ {s} : slots'[t] = slots[t]
            BY <1>1, <1>4 DEF Die
        <3> QED
            BY <3>1 DEF Stuck, HasHandler
    <2>2. /\ Cardinality(Stuck') <= Cardinality(Stuck) + 1
          /\ Cardinality(Stuck') \in Nat
        BY <1>2, <2>1, OneMore
    <2>3. deaths' = deaths + 1
        BY <1>4 DEF Die
    <2> QED
        BY <1>1, <1>2, <2>2, <2>3
<1> QED
    BY <1>3, <1>4

\* The acts that are SUBMITTED without a request that checks them are no more
\* than the requests that died: nothing else leaves an act without its verdict.
THEOREM SubmittedChecked == Spec => []SubmittedIsBeingChecked
<1>1. Init => SubmittedIsBeingChecked
    <2> SUFFICES ASSUME Init PROVE SubmittedIsBeingChecked
        OBVIOUS
    <2>1. Stuck = {}
        BY InitTables DEF Stuck, NoAct, Absent
    <2> QED
        BY <2>1, FS_EmptySet DEF SubmittedIsBeingChecked, Init
<1> QED
    BY <1>1, StepCountsStuck, SessionsAlwaysValid, PTL DEF Spec

-----------------------------------------------------------------------------
(* Outcomes *)

\* A session holds no outcome for its order but the decision of a review.
OutcomesAreHeld(r) ==
    /\ r.at \in {"patch", "start"} => r.status \notin Outcome
    /\ r.at \in ReviewStage /\ r.status # Keep => r.status = r.target

\* What makes OutcomeHasVerdict inductive.
OutcomeInv ==
    /\ OutcomeHasVerdict
    /\ \A s \in Slots : OutcomesAreHeld(slots[s])

\* A verdict once recorded is never erased, nor does its act change hands.
LEMMA StepKeepsVerdicts ==
    ASSUME SessionsStayValid, [Next]_vars,
           NEW a \in Acts, acts[a].auto_check_passed # None,
           acts[a].order \in Orders
    PROVE  /\ acts'[a].auto_check_passed # None
           /\ acts'[a].order = acts[a].order
<1>1. acts \in [Acts -> ActRow]
    BY DEF SessionsStayValid, TypeOK
<1>2. CASE Insert
    <2>1. ASSUME NEW b \in Acts, NEW o \in Orders, NEW rows \in Calls,
                 CreateDraftAct(b, o, rows)
          PROVE  acts'[a] = acts[a]
        <3>1. acts[b] = NoAct
            BY <2>1, Types DEF CreateDraftAct, ActIsAccountedFor
        <3>2. a # b
            BY <3>1 DEF NoAct
        <3> QED
            BY <1>1, <2>1, <3>2 DEF CreateDraftAct
    <2> QED
        BY <1>2, <2>1 DEF Insert, CreateOrder
<1>3. ASSUME NEW s \in Slots, NEW o \in Orders, OrderRequest(s, o)
      PROVE  acts' = acts
    BY <1>3 DEF OrderRequest, PatchLoad, StartLoad
<1>4. ASSUME NEW s \in Slots, NEW b \in Acts, ActRequest(s, b)
      PROVE  acts' = acts
    BY <1>4 DEF ActRequest, SubmitLoad, ReviewLoadAct
<1>5. ASSUME NEW s \in Slots, Serve(s)
      PROVE  /\ acts'[a].auto_check_passed # None
             /\ acts'[a].order = acts[a].order
    <2>1. CASE SubmitStore(s)
        BY <1>1, <2>1 DEF SubmitStore, ActRow
    <2>2. ASSUME NEW verdict \in Verdict, SubmitDecide(s, verdict)
          PROVE  /\ acts'[a].auto_check_passed # None
                 /\ acts'[a].order = acts[a].order
        <3>1. Written(acts[a].auto_check_passed,
                      Dirty(slots[s].passed, verdict)) # None
            BY KeepIsNoStatus DEF Written, Dirty
        <3> QED
            BY <1>1, <2>2, <3>1 DEF SubmitDecide, ActRow
    <2>3. CASE ReviewCommit(s)
        BY <1>1, <2>3 DEF ReviewCommit, ActRow
    <2>4. CASE PatchCommit(s) \/ StartCommit(s) \/ SubmitClear(s)
                 \/ SubmitFlush(s) \/ SubmitJudge(s) \/ ReviewLoadOrder(s)
                 \/ Refuse(s)
        BY <2>4 DEF PatchCommit, StartCommit, SubmitClear, SubmitFlush,
                    SubmitJudge, ReviewLoadOrder, Refuse
    <2> QED
        BY <1>5, <2>1, <2>2, <2>3, <2>4 DEF Serve
<1>6. ASSUME NEW s \in Slots, Die(s)
      PROVE  acts' = acts
    BY <1>6 DEF Die
<1>7. CASE UNCHANGED vars
    BY <1>7 DEF vars
<1> QED
    BY <1>2, <1>3, <1>4, <1>5, <1>6, <1>7 DEF Next

\* An order whose status stays keeps the act that backs it.
LEMMA SameOutcome ==
    ASSUME SessionsStayValid, [Next]_vars, OutcomeHasVerdict,
           NEW o \in Orders,
           orders'[o].status = orders[o].status,
           orders'[o].status \in Outcome
    PROVE  \E a \in Acts : /\ acts'[a].order = o
                           /\ acts'[a].auto_check_passed # None
<1>1. PICK a \in Acts : acts[a].order = o /\ acts[a].auto_check_passed # None
    BY DEF OutcomeHasVerdict
<1> QED
    BY <1>1, StepKeepsVerdicts

\* A session that is loaded or moves on holds no outcome of its own making.
LEMMA StepHoldsOutcomes ==
    ASSUME PatchTargets \cap Outcome = {},
           SessionsStayValid, OutcomeInv, [Next]_vars,
           NEW t \in Slots
    PROVE  OutcomesAreHeld(slots'[t])
<1>1. slots \in [Slots -> Session] /\ orders \in [Orders -> OrderRow]
    BY DEF SessionsStayValid, TypeOK
<1>2. OutcomesAreHeld(slots[t]) /\ OutcomesAreHeld(Idle)
    BY DEF OutcomeInv, OutcomesAreHeld, Idle, ReviewStage
<1>3. Keep \notin Outcome /\ "in_progress" \notin Outcome
    BY KeepIsNoStatus DEF Outcome, WorkOrderStatus
<1>4. CASE Insert
    BY <1>2, <1>4 DEF Insert, CreateOrder, CreateDraftAct
<1>5. ASSUME NEW s \in Slots, NEW o \in Orders, OrderRequest(s, o)
      PROVE  OutcomesAreHeld(slots'[t])
    <2>1. ASSUME NEW c \in Contractors \cup {None, Keep},
                 NEW target \in PatchTargets \cup {Keep},
                 PatchLoad(s, o, c, target)
          PROVE  OutcomesAreHeld(slots'[t])
        <3>1. Dirty(orders[o].status, target) \notin Outcome
            BY <1>3 DEF Dirty
        <3> QED
            BY <1>1, <1>2, <2>1, <3>1
            DEF PatchLoad, OutcomesAreHeld, Idle, ReviewStage
    <2>2. ASSUME NEW c \in Contractors \cup {None}, StartLoad(s, o, c)
          PROVE  OutcomesAreHeld(slots'[t])
        <3>1. Dirty(orders[o].status, "in_progress") \notin Outcome
            BY <1>3 DEF Dirty
        <3> QED
            BY <1>1, <1>2, <2>2, <3>1
            DEF StartLoad, OutcomesAreHeld, Idle, ReviewStage
    <2> QED
        BY <1>5, <2>1, <2>2 DEF OrderRequest
<1>6. ASSUME NEW s \in Slots, NEW a \in Acts, ActRequest(s, a)
      PROVE  OutcomesAreHeld(slots'[t])
    <2>1. ASSUME NEW batch \in Calls, SubmitLoad(s, a, batch)
          PROVE  OutcomesAreHeld(slots'[t])
        BY <1>1, <1>2, <2>1
        DEF SubmitLoad, OutcomesAreHeld, Idle, ReviewStage
    <2>2. ASSUME NEW u \in Reviewers, NEW decision \in {"confirmed", "rejected"},
                 ReviewLoadAct(s, a, u, decision)
          PROVE  OutcomesAreHeld(slots'[t])
        BY <1>1, <1>2, <2>2
        DEF ReviewLoadAct, OutcomesAreHeld, Idle, ReviewStage
    <2> QED
        BY <1>6, <2>1, <2>2 DEF ActRequest
<1>7. ASSUME NEW s \in Slots, Serve(s)
      PROVE  OutcomesAreHeld(slots'[t])
    <2>1. CASE PatchCommit(s) \/ StartCommit(s) \/ ReviewCommit(s) \/ Refuse(s)
        BY <1>1, <1>2, <2>1
        DEF PatchCommit, StartCommit, ReviewCommit, Refuse
    <2>2. ASSUME NEW verdict \in Verdict, SubmitDecide(s, verdict)
          PROVE  OutcomesAreHeld(slots'[t])
        BY <1>1, <1>2, <2>2 DEF SubmitDecide
    <2>3. CASE SubmitClear(s) \/ SubmitFlush(s) \/ SubmitStore(s)
                 \/ SubmitJudge(s)
        BY <1>1, <1>2, <2>3
        DEF SubmitClear, SubmitFlush, SubmitStore, SubmitJudge,
            OutcomesAreHeld, Session, ReviewStage
    <2>4. CASE ReviewLoadOrder(s)
        BY <1>1, <1>2, <2>4
        DEF ReviewLoadOrder, OutcomesAreHeld, Session, ReviewStage, Dirty
    <2> QED
        BY <1>7, <2>1, <2>2, <2>3, <2>4 DEF Serve
<1>8. ASSUME NEW s \in Slots, Die(s)
      PROVE  OutcomesAreHeld(slots'[t])
    BY <1>1, <1>2, <1>8 DEF Die
<1>9. CASE UNCHANGED vars
    BY <1>2, <1>9 DEF vars
<1> QED
    BY <1>4, <1>5, <1>6, <1>7, <1>8, <1>9 DEF Next

\* A step that gives an order an outcome has recorded a verdict of an act of it.
LEMMA StepBacksOutcomes ==
    ASSUME SessionsStayValid, OutcomeInv, [Next]_vars,
           NEW o \in Orders, orders'[o].status \in Outcome
    PROVE  \E a \in Acts : /\ acts'[a].order = o
                           /\ acts'[a].auto_check_passed # None
<1> DEFINE Backed == \E a \in Acts : /\ acts'[a].order = o
                                     /\ acts'[a].auto_check_passed # None
<1>1. orders \in [Orders -> OrderRow] /\ acts \in [Acts -> ActRow]
    BY DEF SessionsStayValid, TypeOK
<1>2. OutcomeHasVerdict
    BY DEF OutcomeInv
<1>3. ASSUME orders'[o].status = orders[o].status
      PROVE  Backed
    BY <1>2, <1>3, SameOutcome
<1>4. CASE Insert
    <2>1. ASSUME NEW p \in Orders, NEW c \in Contractors \cup {None},
                 CreateOrder(p, c)
          PROVE  Backed
        <3>1. CASE p = o
            <4>1. orders'[o].status \in {"draft", "assigned"}
                BY <1>1, <2>1, <3>1 DEF CreateOrder
            <4> QED
                BY <4>1 DEF Outcome
        <3>2. CASE p # o
            BY <1>1, <1>3, <2>1, <3>2 DEF CreateOrder
        <3> QED
            BY <3>1, <3>2
    <2>2. ASSUME NEW a \in Acts, NEW p \in Orders, NEW rows \in Calls,
                 CreateDraftAct(a, p, rows)
          PROVE  Backed
        BY <1>3, <2>2 DEF CreateDraftAct
    <2> QED
        BY <1>4, <2>1, <2>2 DEF Insert
<1>5. ASSUME NEW s \in Slots, NEW p \in Orders, OrderRequest(s, p)
      PROVE  Backed
    BY <1>3, <1>5 DEF OrderRequest, PatchLoad, StartLoad
<1>6. ASSUME NEW s \in Slots, NEW a \in Acts, ActRequest(s, a)
      PROVE  Backed
    BY <1>3, <1>6 DEF ActRequest, SubmitLoad, ReviewLoadAct
<1>7. ASSUME NEW s \in Slots, Serve(s)
      PROVE  Backed
    <2>1. /\ SessionRefers(slots[s]) /\ SessionWrites(slots[s])
          /\ OutcomesAreHeld(slots[s])
        BY Types DEF OutcomeInv
    <2>2. CASE PatchCommit(s)
        BY <1>1, <1>3, <2>1, <2>2
        DEF PatchCommit, OutcomesAreHeld, Written, OrderRow
    <2>3. CASE StartCommit(s)
        BY <1>1, <1>3, <2>1, <2>3
        DEF StartCommit, OutcomesAreHeld, Written, OrderRow
    <2>4. CASE SubmitStore(s)
        <3>1. slots[s].status \in {"submitted", Keep}
            BY <2>1, <2>4 DEF SubmitStore, SessionWrites, SubmitStage
        <3> QED
            BY <1>1, <1>3, <2>4, <3>1
            DEF SubmitStore, Written, OrderRow, Outcome
    <2>5. ASSUME NEW verdict \in Verdict, SubmitDecide(s, verdict)
          PROVE  Backed
        <3>1. /\ slots[s].act \in Acts
              /\ acts[slots[s].act].order = slots[s].order
              /\ slots[s].passed # None
                     => acts[slots[s].act].auto_check_passed # None
            BY <2>1, <2>5
            DEF SubmitDecide, SessionRefers, SessionWrites, SubmitStage
        <3>2. CASE o = slots[s].order
            <4>1. Written(acts[slots[s].act].auto_check_passed,
                          Dirty(slots[s].passed, verdict)) # None
                BY <3>1, KeepIsNoStatus DEF Written, Dirty
            <4>2. /\ acts'[slots[s].act].auto_check_passed # None
                  /\ acts'[slots[s].act].order = o
                BY <1>1, <2>5, <3>1, <3>2, <4>1 DEF SubmitDecide, ActRow
            <4> QED
                BY <3>1, <4>2
        <3>3. CASE o # slots[s].order
            BY <1>1, <1>3, <2>5, <3>3 DEF SubmitDecide
        <3> QED
            BY <3>2, <3>3
    <2>6. CASE ReviewCommit(s)
        <3>1. /\ slots[s].act \in Acts
              /\ acts[slots[s].act].order = slots[s].order
              /\ slots[s].target \in {"confirmed", "rejected"}
              /\ slots[s].target = "confirmed"
                     => acts[slots[s].act].auto_check_passed # None
              /\ slots[s].status \in {slots[s].target, Keep}
            BY <2>1, <2>6
            DEF ReviewCommit, SessionRefers, SessionWrites, OutcomesAreHeld,
                ReviewStage
        <3>2. CASE o = slots[s].order /\ slots[s].status = "confirmed"
            <4>1. slots[s].target = "confirmed"
                BY <3>1, <3>2, KeepIsNoStatus
            <4> QED
                BY <3>1, <3>2, <4>1, StepKeepsVerdicts
        <3>3. CASE o # slots[s].order \/ slots[s].status # "confirmed"
            BY <1>1, <1>3, <2>6, <3>1, <3>3
            DEF ReviewCommit, Written, OrderRow, Outcome
        <3> QED
            BY <3>2, <3>3
    <2>7. CASE SubmitClear(s) \/ SubmitFlush(s) \/ SubmitJudge(s)
                 \/ ReviewLoadOrder(s) \/ Refuse(s)
        BY <1>3, <2>7 DEF SubmitClear, SubmitFlush, SubmitJudge,
                          ReviewLoadOrder, Refuse
    <2> QED
        BY <1>7, <2>2, <2>3, <2>4, <2>5, <2>6, <2>7 DEF Serve
<1>8. ASSUME NEW s \in Slots, Die(s)
      PROVE  Backed
    BY <1>3, <1>8 DEF Die
<1>9. CASE UNCHANGED vars
    BY <1>3, <1>9 DEF vars
<1> QED
    BY <1>4, <1>5, <1>6, <1>7, <1>8, <1>9 DEF Next

\* The seed gives no order an outcome.
LEMMA InitBacksOutcomes == Init => OutcomeInv
<1>1. Init => \A s \in Slots : OutcomesAreHeld(slots[s])
    BY DEF Init, OutcomesAreHeld, Idle, ReviewStage
<1>2. Init => OutcomeHasVerdict
    BY InitTables DEF OutcomeHasVerdict, Outcome, Absent
<1> QED
    BY <1>1, <1>2 DEF OutcomeInv

\* As long as managers write no outcome by hand, an order shows one only if an
\* act of it has been checked, in every interleaving.
THEOREM OutcomesAreBacked ==
    ASSUME PatchTargets \cap Outcome = {}
    PROVE  Spec => []OutcomeHasVerdict
<1>1. SessionsStayValid /\ OutcomeInv /\ [Next]_vars => OutcomeInv'
    <2> SUFFICES ASSUME SessionsStayValid, OutcomeInv, [Next]_vars
                 PROVE  OutcomeInv'
        OBVIOUS
    <2>1. OutcomeHasVerdict'
        BY StepBacksOutcomes DEF OutcomeHasVerdict
    <2>2. \A t \in Slots : OutcomesAreHeld(slots'[t])
        BY StepHoldsOutcomes
    <2> QED
        BY <2>1, <2>2 DEF OutcomeInv, OutcomesAreHeld
<1>2. OutcomeInv => OutcomeHasVerdict
    BY DEF OutcomeInv
<1> QED
    BY <1>1, <1>2, InitBacksOutcomes, SessionsAlwaysValid, PTL DEF Spec

-----------------------------------------------------------------------------
(***************************************************************************)
(* Requests for different orders interleave as they like, in any number of *)
(* slots, and die; no two in flight are for the same order.  Two requests  *)
(* for one order break each of these properties: the row a session decided *)
(* on may have changed when it commits.                                    *)
(***************************************************************************)

-----------------------------------------------------------------------------
(* The inductive invariant *)

\* What a request decided on is what the tables still say.
SessionIsCurrent(r) ==
    /\ r.at = "patch" /\ r.status # Keep
           => /\ <<orders[r.order].status, r.status>> \in WORK_ORDER_TRANSITIONS
              /\ r.status \in PatchTargets
    /\ r.at \in SubmitStage
           => r.target = "submitted" /\ r.passed = acts[r.act].auto_check_passed
    /\ r.at = "start" => r.target = "in_progress"
    /\ r.at \in {"start", "submit_flushed", "review_order"}
           => /\ can_transition(orders[r.order].status, r.target)
              /\ r.status = Dirty(orders[r.order].status, r.target)
    /\ r.at \in {"submit_loaded", "submit_cleared", "submit_flushed"}
                    \cup ReviewStage
           => /\ can_act_transition(acts[r.act].status, r.target)
              /\ r.act_status = Dirty(acts[r.act].status, r.target)
    /\ r.at \in {"submit_stored", "submit_judged"}
           => /\ acts[r.act].status = "submitted"
              /\ orders[r.order].status = "submitted"
    /\ r.at = "submit_judged" => r.rows = acts[r.act].rows

SessionsAreCurrent == \A s \in Slots : SessionIsCurrent(slots[s])

\* What the tables must say of an act for ConfirmedIsEarned and
\* VerdictIsAboutResponses to survive its next request.
ActIsEarned(a) ==
    /\ acts[a].status \in {"auto_confirmed", "confirmed"}
           => acts[a].auto_check_passed = "pass"
    /\ acts[a].status = "confirmed"
           => orders[acts[a].order].status = "confirmed"
    /\ acts[a].status \in Outcome
           => acts[a].judged = acts[a].rows

ApartInv ==
    /\ SessionsAreCurrent
    /\ AuditTellsStatus
    /\ \A a \in Acts : ActIsEarned(a)

\* A session that decided on nothing.
LEMMA IdleIsCurrent == \A r : r.at = "idle" => SessionIsCurrent(r)'
BY DEF SessionIsCurrent, SubmitStage, ReviewStage

\* While the tables stay as they are, a request disturbs no other.
LEMMA OneSession ==
    ASSUME SessionsStayValid, SessionsAreCurrent,
           NEW s \in Slots, NEW r,
           UNCHANGED <<orders, acts>>,
           slots' = [slots EXCEPT ![s] = r],
           SessionIsCurrent(r)'
    PROVE  SessionsAreCurrent'
<1>1. slots \in [Slots -> Session]
    BY DEF SessionsStayValid, TypeOK
<1>2. ASSUME NEW t \in Slots
      PROVE  SessionIsCurrent(slots[t])'
    <2>1. CASE t = s
        <3>1. slots'[t] = r
            BY <1>1, <2>1
        <3> QED
            BY <3>1 DEF SessionIsCurrent
    <2>2. CASE t # s
        <3>1. slots'[t] = slots[t] /\ SessionIsCurrent(slots[t])
            BY <1>1, <2>2 DEF SessionsAreCurrent
        <3> QED
            BY <3>1 DEF SessionIsCurrent
    <2> QED
        BY <2>1, <2>2
<1> QED
    BY <1>2 DEF SessionsAreCurrent

\* A commit changes the row of its order and of its act.  The requests that are
\* for other orders have other acts too, and decided on none of the two rows.
LEMMA CommitKeepsCurrent ==
    ASSUME Apart, SessionsStayValid, SessionsAreCurrent,
           NEW s \in Slots, NEW r, NEW q, q = slots[s], q.at # "idle",
           \A o \in Orders \ {q.order} : orders'[o] = orders[o],
           \A a \in Acts : acts[a].order # q.order => acts'[a] = acts[a],
           slots' = [slots EXCEPT ![s] = r],
           SessionIsCurrent(r)'
    PROVE  SessionsAreCurrent'
<1>1. slots \in [Slots -> Session]
    BY DEF SessionsStayValid, TypeOK
<1>2. ASSUME NEW t \in Slots
      PROVE  SessionIsCurrent(slots[t])'
    <2> PICK u : u = slots[t]
        OBVIOUS
    <2>1. CASE t = s
        <3>1. slots'[t] = r
            BY <1>1, <2>1
        <3> QED
            BY <3>1 DEF SessionIsCurrent
    <2>2. CASE t # s /\ u.at = "idle"
        <3>1. slots'[t] = u
            BY <1>1, <2>2
        <3> QED
            BY <2>2, <3>1, IdleIsCurrent DEF SessionIsCurrent
    <2>3. CASE t # s /\ u.at # "idle"
        <3>1. /\ slots'[t] = u /\ SessionIsCurrent(u) /\ SessionRefers(u)
              /\ u.order # q.order
            BY <1>1, <2>3 DEF SessionsAreCurrent, SessionsStayValid, Apart
        <3>2. orders'[u.order] = orders[u.order]
            BY <2>3, <3>1 DEF SessionRefers
        <3>3. u.at \in SubmitStage \cup ReviewStage
                  => acts'[u.act] = acts[u.act]
            BY <3>1 DEF SessionRefers
        <3> QED
            BY <3>1, <3>2, <3>3
            DEF SessionIsCurrent, SubmitStage, ReviewStage
    <2> QED
        BY <2>1, <2>2, <2>3
<1> QED
    BY <1>2 DEF SessionsAreCurrent

-----------------------------------------------------------------------------
(* Requests that leave the tables as they are *)

\* PATCH decides on a status the table permits.
LEMMA PatchLoadCurrent ==
    ASSUME SessionsStayValid, SessionsAreCurrent,
           NEW s \in Slots, NEW o \in Orders,
           NEW c \in Contractors \cup {None, Keep},
           NEW target \in PatchTargets \cup {Keep},
           PatchLoad(s, o, c, target)
    PROVE  SessionsAreCurrent'
<1> PICK r : r = [Idle EXCEPT !.at = "patch",
                              !.order = o,
                              !.target = target,
                              !.status = Dirty(orders[o].status, target),
                              !.contractor = Dirty(orders[o].contractor, c)]
    OBVIOUS
<1>1. ASSUME Dirty(orders[o].status, target) # Keep
      PROVE  /\ <<orders[o].status, Dirty(orders[o].status, target)>>
                    \in WORK_ORDER_TRANSITIONS
             /\ Dirty(orders[o].status, target) \in PatchTargets
    BY <1>1 DEF PatchLoad, Dirty, can_transition
<1>2. SessionIsCurrent(r)'
    BY <1>1 DEF SessionIsCurrent, PatchLoad, Idle, SubmitStage, ReviewStage
<1> QED
    BY <1>2, OneSession DEF PatchLoad

\* A start decides on IN_PROGRESS.
LEMMA StartLoadCurrent ==
    ASSUME SessionsStayValid, SessionsAreCurrent,
           NEW s \in Slots, NEW o \in Orders,
           NEW c \in Contractors \cup {None},
           StartLoad(s, o, c)
    PROVE  SessionsAreCurrent'
<1> PICK r : r = [Idle EXCEPT !.at = "start",
                              !.order = o,
                              !.target = "in_progress",
                              !.status = Dirty(orders[o].status,
                                               "in_progress")]
    OBVIOUS
<1>1. SessionIsCurrent(r)'
    BY DEF SessionIsCurrent, StartLoad, Idle, SubmitStage, ReviewStage
<1> QED
    BY <1>1, OneSession DEF StartLoad

\* A submit decides on the act it loaded.
LEMMA SubmitLoadCurrent ==
    ASSUME SessionsStayValid, SessionsAreCurrent,
           NEW s \in Slots, NEW a \in Acts, NEW batch \in Calls,
           SubmitLoad(s, a, batch)
    PROVE  SessionsAreCurrent'
<1> PICK r : r = [Idle EXCEPT !.at = "submit_loaded",
                              !.act = a,
                              !.order = acts[a].order,
                              !.target = "submitted",
                              !.act_status = Dirty(acts[a].status,
                                                   "submitted"),
                              !.passed = acts[a].auto_check_passed,
                              !.batch = batch]
    OBVIOUS
<1>1. SessionIsCurrent(r)'
    BY DEF SessionIsCurrent, SubmitLoad, Idle, SubmitStage, ReviewStage
<1> QED
    BY <1>1, OneSession DEF SubmitLoad

\* A review decides on the act it loaded.
LEMMA ReviewLoadActCurrent ==
    ASSUME SessionsStayValid, SessionsAreCurrent,
           NEW s \in Slots, NEW a \in Acts, NEW u \in Reviewers,
           NEW decision \in {"confirmed", "rejected"},
           ReviewLoadAct(s, a, u, decision)
    PROVE  SessionsAreCurrent'
<1> PICK r : r = [Idle EXCEPT !.at = "review_act",
                              !.act = a,
                              !.order = acts[a].order,
                              !.target = decision,
                              !.act_status = Dirty(acts[a].status, decision),
                              !.reviewer = Dirty(acts[a].confirmed_by, u)]
    OBVIOUS
<1>1. SessionIsCurrent(r)'
    BY DEF SessionIsCurrent, ReviewLoadAct, Idle, SubmitStage, ReviewStage
<1> QED
    BY <1>1, OneSession DEF ReviewLoadAct

\* Reading the old responses, the order, or the responses to check, a request
\* adds what it read to what it decided on.
LEMMA ReadingStepsCurrent ==
    ASSUME SessionsStayValid, SessionsAreCurrent,
           NEW s \in Slots,
           SubmitClear(s) \/ SubmitFlush(s) \/ SubmitJudge(s)
               \/ ReviewLoadOrder(s)
    PROVE  SessionsAreCurrent'
<1> PICK q : q = slots[s]
    OBVIOUS
<1>1. q \in Session /\ SessionIsCurrent(q)
    BY Types DEF SessionsAreCurrent
<1>2. UNCHANGED <<orders, acts>>
    BY DEF SubmitClear, SubmitFlush, SubmitJudge, ReviewLoadOrder
<1> PICK r : r = slots'[s]
    OBVIOUS
<1>3. slots' = [slots EXCEPT ![s] = r]
    BY DEF SubmitClear, SubmitFlush, SubmitJudge, ReviewLoadOrder,
           SessionsStayValid, TypeOK
<1> SUFFICES SessionIsCurrent(r)'
    BY <1>2, <1>3, OneSession
<1>4. CASE SubmitClear(s)
    <2>1. q.at = "submit_loaded"
              /\ r = [q EXCEPT !.at = "submit_cleared",
                               !.rows = acts[q.act].rows]
        BY <1>4 DEF SubmitClear, SessionsStayValid, TypeOK
    <2> QED
        BY <1>1, <1>2, <2>1
        DEF SessionIsCurrent, Session, SubmitStage, ReviewStage
<1>5. CASE SubmitFlush(s)
    <2>1. PICK locks \in BOOLEAN :
              r = [q EXCEPT !.at = "submit_flushed",
                            !.status = Dirty(orders[q.order].status,
                                             "submitted"),
                            !.locks = locks]
        BY <1>5 DEF SubmitFlush, SessionsStayValid, TypeOK
    <2>2. q.at = "submit_cleared"
              /\ can_transition(orders[q.order].status, "submitted")
        BY <1>5 DEF SubmitFlush
    <2> QED
        BY <1>1, <1>2, <2>1, <2>2
        DEF SessionIsCurrent, Session, SubmitStage, ReviewStage
<1>6. CASE SubmitJudge(s)
    <2>1. q.at = "submit_stored"
              /\ r = [q EXCEPT !.at = "submit_judged",
                               !.rows = acts[q.act].rows]
        BY <1>6 DEF SubmitJudge, SessionsStayValid, TypeOK
    <2> QED
        BY <1>1, <1>2, <2>1
        DEF SessionIsCurrent, Session, SubmitStage, ReviewStage
<1>7. CASE ReviewLoadOrder(s)
    <2>1. /\ q.at = "review_act"
          /\ can_transition(orders[q.order].status, q.target)
          /\ r = [q EXCEPT !.at = "review_order",
                           !.status = Dirty(orders[q.order].status,
                                            q.target)]
        BY <1>7 DEF ReviewLoadOrder, SessionsStayValid, TypeOK
    <2> QED
        BY <1>1, <1>2, <2>1
        DEF SessionIsCurrent, Session, SubmitStage, ReviewStage
<1> QED
    BY <1>4, <1>5, <1>6, <1>7
-----------------------------------------------------------------------------
(* Commits.  Whatever a commit writes is one of two moves: an order alone  *)
(* moves along its table, or an act and its order move together, each      *)
(* along its own table.                                                    *)

\* Order o takes the given status, and its audit entry says so.
OrderMoves(o, status) ==
    /\ can_transition(orders[o].status, status)
    /\ \A p \in Orders :
          /\ orders'[p].status = IF p = o THEN status ELSE orders[p].status
          /\ audited'[p] = IF p = o THEN status ELSE audited[p]

\* Statuses that the act handlers give to an act and to its order.
Produced == {"submitted", "auto_confirmed", "confirmed",
             "delayed_verification", "rejected"}

\* What the check or the review that takes an act to a status leaves in it.  A
\* checked act is not checked again.
RowTells(a, status) ==
    /\ status \in {"auto_confirmed", "delayed_verification"}
           => /\ acts'[a].judged = acts'[a].rows
              /\ status = "auto_confirmed"
                     => acts'[a].auto_check_passed = "pass"
    /\ status = "confirmed"
           => /\ acts'[a].rows = acts[a].rows
              /\ acts'[a].judged = acts[a].judged
              /\ acts'[a].auto_check_passed = acts[a].auto_check_passed
    /\ acts[a].status \in Outcome
           => acts'[a].rows = acts[a].rows /\ acts'[a].judged = acts[a].judged

\* Act a and its order both take the given status.
BothMove(a, status) ==
    /\ status \in Produced
    /\ OrderMoves(acts[a].order, status)
    /\ can_act_transition(acts[a].status, status)
    /\ \A b \in Acts \ {a} : acts'[b] = acts[b]
    /\ acts'[a].status = status
    /\ acts'[a].order = acts[a].order
    /\ RowTells(a, status)

\* A column takes the value the session wants, whichever it had loaded.
LEMMA WrittenDirty ==
    ASSUME NEW loaded, NEW new, new # Keep
    PROVE  Written(loaded, Dirty(loaded, new)) = new
BY DEF Written, Dirty

\* The commit of a PATCH moves its order, or leaves the status as it is.
LEMMA PatchMoves ==
    ASSUME SessionsStayValid, SessionsAreCurrent, AuditTellsStatus,
           NEW s \in Slots, PatchCommit(s)
    PROVE  \E o \in Orders :
               \E status \in PatchTargets \cup {orders[o].status} :
                   OrderMoves(o, status)
<1> PICK q : q = slots[s]
    OBVIOUS
<1>1. /\ q \in Session /\ q.at = "patch" /\ SessionIsCurrent(q)
      /\ q.order \in Orders
    BY Types DEF SessionsAreCurrent, PatchCommit, SessionRefers
<1> PICK status : status = Written(orders[q.order].status, q.status)
    OBVIOUS
<1>2. /\ status \in PatchTargets \cup {orders[q.order].status}
      /\ can_transition(orders[q.order].status, status)
    BY <1>1 DEF SessionIsCurrent, Written, can_transition
<1>3. audited[q.order] = orders[q.order].status
    BY <1>1 DEF AuditTellsStatus
<1>4. \A p \in Orders :
          /\ orders'[p].status = IF p = q.order THEN status
                                                ELSE orders[p].status
          /\ audited'[p] = IF p = q.order THEN status ELSE audited[p]
    BY <1>1, <1>3 DEF PatchCommit, SessionsStayValid, TypeOK, OrderRow
<1> QED
    BY <1>1, <1>2, <1>4 DEF OrderMoves

\* The commit of a start moves its order to IN_PROGRESS.
LEMMA StartMoves ==
    ASSUME SessionsStayValid, SessionsAreCurrent,
           NEW s \in Slots, StartCommit(s)
    PROVE  \E o \in Orders : OrderMoves(o, "in_progress")
<1> PICK q : q = slots[s]
    OBVIOUS
<1>1. /\ q \in Session /\ q.at = "start" /\ SessionIsCurrent(q)
      /\ q.order \in Orders /\ q.target = "in_progress"
    BY Types
    DEF SessionsAreCurrent, StartCommit, SessionRefers, SessionIsCurrent
<1>2. /\ can_transition(orders[q.order].status, "in_progress")
      /\ Written(orders[q.order].status, q.status) = "in_progress"
    BY <1>1, WrittenDirty, KeepIsNoStatus DEF SessionIsCurrent, WorkOrderStatus
<1>3. \A p \in Orders :
          /\ orders'[p].status = IF p = q.order THEN "in_progress"
                                                ELSE orders[p].status
          /\ audited'[p] = IF p = q.order THEN "in_progress" ELSE audited[p]
    BY <1>1, <1>2 DEF StartCommit, SessionsStayValid, TypeOK, OrderRow
<1> QED
    BY <1>1, <1>2, <1>3 DEF OrderMoves

\* The first commit of a submit moves the act and its order to SUBMITTED.
LEMMA StoreMoves ==
    ASSUME SessionsStayValid, SessionsAreCurrent,
           NEW s \in Slots, SubmitStore(s)
    PROVE  slots[s].act \in Acts /\ BothMove(slots[s].act, "submitted")
<1> PICK q : q = slots[s]
    OBVIOUS
<1>1. /\ q \in Session /\ q.at = "submit_flushed" /\ SessionIsCurrent(q)
      /\ q.order \in Orders /\ q.act \in Acts
      /\ acts[q.act].order = q.order /\ q.target = "submitted"
    BY Types
    DEF SessionsAreCurrent, SubmitStore, SessionRefers, SessionIsCurrent,
        SubmitStage
<1>2. /\ can_transition(orders[q.order].status, "submitted")
      /\ can_act_transition(acts[q.act].status, "submitted")
      /\ Written(orders[q.order].status, q.status) = "submitted"
      /\ Written(acts[q.act].status, q.act_status) = "submitted"
    BY <1>1, WrittenDirty, KeepIsNoStatus DEF SessionIsCurrent
<1>3. OrderMoves(q.order, "submitted")
    BY <1>1, <1>2
    DEF OrderMoves, SubmitStore, SessionsStayValid, TypeOK, OrderRow
<1>4. /\ \A b \in Acts \ {q.act} : acts'[b] = acts[b]
      /\ acts'[q.act].status = "submitted"
      /\ acts'[q.act].order = acts[q.act].order
    BY <1>1, <1>2 DEF SubmitStore, SessionsStayValid, TypeOK, ActRow
<1>5. acts[q.act].status \notin Outcome
    BY <1>2 DEF can_act_transition, ACT_TRANSITIONS, Outcome
<1> QED
    BY <1>1, <1>2, <1>3, <1>4, <1>5 DEF BothMove, Produced, RowTells

\* The second commit moves them from SUBMITTED to what the check said, and the
\* verdict stored is about the responses stored.
LEMMA DecideMoves ==
    ASSUME SessionsStayValid, SessionsAreCurrent,
           NEW s \in Slots, NEW verdict \in Verdict, SubmitDecide(s, verdict)
    PROVE  \E status \in Produced :
               slots[s].act \in Acts /\ BothMove(slots[s].act, status)
<1> PICK q : q = slots[s]
    OBVIOUS
<1> PICK status : status = IF verdict = "pass" THEN "auto_confirmed"
                                               ELSE "delayed_verification"
    OBVIOUS
<1>1. /\ q \in Session /\ q.at = "submit_judged" /\ SessionIsCurrent(q)
      /\ q.order \in Orders /\ q.act \in Acts
      /\ acts[q.act].order = q.order
      /\ acts[q.act].status = "submitted"
      /\ orders[q.order].status = "submitted"
      /\ q.rows = acts[q.act].rows
      /\ q.passed = acts[q.act].auto_check_passed
    BY Types
    DEF SessionsAreCurrent, SubmitDecide, SessionRefers, SessionIsCurrent,
        SubmitStage
<1>2. /\ can_transition("submitted", status)
      /\ can_act_transition("submitted", status)
      /\ status \in {"auto_confirmed", "delayed_verification"}
    BY DEF can_transition, can_act_transition, WORK_ORDER_TRANSITIONS,
           ACT_TRANSITIONS
<1>3. Written(acts[q.act].auto_check_passed, Dirty(q.passed, verdict)) = verdict
    BY <1>1, WrittenDirty, KeepIsNoStatus
<1>4. OrderMoves(q.order, status)
    BY <1>1, <1>2
    DEF OrderMoves, SubmitDecide, SessionsStayValid, TypeOK, OrderRow
<1>5. /\ \A b \in Acts \ {q.act} : acts'[b] = acts[b]
      /\ acts'[q.act].status = status
      /\ acts'[q.act].order = acts[q.act].order
      /\ acts'[q.act].rows = acts[q.act].rows
      /\ acts'[q.act].judged = q.rows
      /\ acts'[q.act].auto_check_passed = verdict
    BY <1>1, <1>3 DEF SubmitDecide, SessionsStayValid, TypeOK, ActRow
<1> QED
    BY <1>1, <1>2, <1>4, <1>5 DEF BothMove, Produced, RowTells, Outcome

\* The commit of a review moves both to the decision and leaves the responses
\* and the verdict alone.
LEMMA ReviewMoves ==
    ASSUME SessionsStayValid, SessionsAreCurrent,
           NEW s \in Slots, ReviewCommit(s)
    PROVE  \E status \in Produced :
               slots[s].act \in Acts /\ BothMove(slots[s].act, status)
<1> PICK q : q = slots[s]
    OBVIOUS
<1>1. /\ q \in Session /\ q.at = "review_order" /\ SessionIsCurrent(q)
      /\ q.order \in Orders /\ q.act \in Acts
      /\ acts[q.act].order = q.order
      /\ q.target \in {"confirmed", "rejected"}
    BY Types
    DEF SessionsAreCurrent, ReviewCommit, SessionRefers, SessionWrites,
        ReviewStage
<1>2. /\ can_transition(orders[q.order].status, q.target)
      /\ can_act_transition(acts[q.act].status, q.target)
      /\ Written(orders[q.order].status, q.status) = q.target
      /\ Written(acts[q.act].status, q.act_status) = q.target
    BY <1>1, WrittenDirty, KeepIsNoStatus DEF SessionIsCurrent, ReviewStage
<1>3. OrderMoves(q.order, q.target)
    BY <1>1, <1>2
    DEF OrderMoves, ReviewCommit, SessionsStayValid, TypeOK, OrderRow
<1>4. /\ \A b \in Acts \ {q.act} : acts'[b] = acts[b]
      /\ acts'[q.act].status = q.target
      /\ acts'[q.act].order = acts[q.act].order
      /\ acts'[q.act].rows = acts[q.act].rows
      /\ acts'[q.act].judged = acts[q.act].judged
      /\ acts'[q.act].auto_check_passed = acts[q.act].auto_check_passed
    BY <1>1, <1>2 DEF ReviewCommit, SessionsStayValid, TypeOK, ActRow
<1> QED
    BY <1>1, <1>2, <1>3, <1>4 DEF BothMove, Produced, RowTells
-----------------------------------------------------------------------------
(* Every step is an insertion, a move, or leaves the tables alone          *)

\* The order moves by hand, or to IN_PROGRESS, or is written as it is.
OrderStep ==
    /\ UNCHANGED acts
    /\ \E o \in Orders :
          \E status \in PatchTargets \cup {"in_progress", orders[o].status} :
              OrderMoves(o, status)

ActStep == \E a \in Acts, status \in Produced : BothMove(a, status)

LEMMA StepIsAMove ==
    ASSUME SessionsStayValid, SessionsAreCurrent, AuditTellsStatus, [Next]_vars
    PROVE  Insert \/ OrderStep \/ ActStep \/ UNCHANGED <<orders, acts, audited>>
<1>1. CASE Insert
    BY <1>1
<1>2. ASSUME NEW s \in Slots, NEW o \in Orders, OrderRequest(s, o)
      PROVE  UNCHANGED <<orders, acts, audited>>
    BY <1>2 DEF OrderRequest, PatchLoad, StartLoad
<1>3. ASSUME NEW s \in Slots, NEW a \in Acts, ActRequest(s, a)
      PROVE  UNCHANGED <<orders, acts, audited>>
    BY <1>3 DEF ActRequest, SubmitLoad, ReviewLoadAct
<1>4. ASSUME NEW s \in Slots, Serve(s)
      PROVE  OrderStep \/ ActStep \/ UNCHANGED <<orders, acts, audited>>
    <2>1. CASE PatchCommit(s)
        BY <2>1, PatchMoves DEF OrderStep, PatchCommit
    <2>2. CASE StartCommit(s)
        BY <2>2, StartMoves DEF OrderStep, StartCommit
    <2>3. CASE SubmitStore(s)
        BY <2>3, StoreMoves DEF ActStep, Produced
    <2>4. ASSUME NEW verdict \in Verdict, SubmitDecide(s, verdict)
          PROVE  ActStep
        BY <2>4, DecideMoves DEF ActStep
    <2>5. CASE ReviewCommit(s)
        BY <2>5, ReviewMoves DEF ActStep
    <2>6. CASE SubmitClear(s) \/ SubmitFlush(s) \/ SubmitJudge(s)
                 \/ ReviewLoadOrder(s) \/ Refuse(s)
        BY <2>6 DEF SubmitClear, SubmitFlush, SubmitJudge, ReviewLoadOrder,
                    Refuse
    <2> QED
        BY <1>4, <2>1, <2>2, <2>3, <2>4, <2>5, <2>6 DEF Serve
<1>5. ASSUME NEW s \in Slots, Die(s)
      PROVE  UNCHANGED <<orders, acts, audited>>
    BY <1>5 DEF Die
<1>6. CASE UNCHANGED vars
    BY <1>6 DEF vars
<1> QED
    BY <1>1, <1>2, <1>3, <1>4, <1>5, <1>6 DEF Next

-----------------------------------------------------------------------------
(* The invariant is inductive *)

\* An insertion does not touch what the request in flight decided on: it has
\* an order that exists and an act that has been inserted.
LEMMA InsertKeepsCurrent ==
    ASSUME SessionsStayValid, SessionsAreCurrent, Insert
    PROVE  SessionsAreCurrent'
<1> SUFFICES ASSUME NEW s \in Slots
             PROVE  SessionIsCurrent(slots[s])'
    BY DEF SessionsAreCurrent
<1> PICK q : q = slots[s]
    OBVIOUS
<1>1. /\ q \in Session /\ SessionIsCurrent(q) /\ SessionRefers(q)
      /\ slots'[s] = q
    BY Types DEF SessionsAreCurrent, Insert, CreateOrder, CreateDraftAct
<1>2. ASSUME NEW o \in Orders, NEW c \in Contractors \cup {None},
             CreateOrder(o, c)
      PROVE  SessionIsCurrent(q)'
    <2>1. acts' = acts /\ \A p \in Orders \ {o} : orders'[p] = orders[p]
        BY <1>2 DEF CreateOrder, SessionsStayValid, TypeOK
    <2>2. /\ \A status \in WorkOrderStatus :
                 ~can_transition(orders[o].status, status)
          /\ orders[o].status # "submitted"
        BY <1>2 DEF CreateOrder, Exists, Absent, can_transition,
                    WORK_ORDER_TRANSITIONS, WorkOrderStatus
    <2>3. q.at \in {"start", "submit_flushed", "review_order",
                    "submit_stored", "submit_judged"}
              => q.order \in Orders \ {o}
        BY <1>1, <2>2 DEF SessionIsCurrent, SessionRefers
    <2>4. q.at = "patch" /\ q.status # Keep => q.order \in Orders \ {o}
        BY <1>1, <2>2
        DEF SessionIsCurrent, SessionRefers, Session, can_transition
    <2> QED
        BY <1>1, <2>1, <2>3, <2>4 DEF SessionIsCurrent
<1>3. ASSUME NEW a \in Acts, NEW o \in Orders, NEW rows \in Calls,
             CreateDraftAct(a, o, rows)
      PROVE  SessionIsCurrent(q)'
    <2>1. orders' = orders /\ \A b \in Acts \ {a} : acts'[b] = acts[b]
        BY <1>3 DEF CreateDraftAct, SessionsStayValid, TypeOK
    <2>2. q.at \in SubmitStage \cup ReviewStage => q.act \in Acts \ {a}
        BY <1>1, <1>3 DEF SessionRefers, CreateDraftAct
    <2> QED
        BY <1>1, <2>1, <2>2 DEF SessionIsCurrent, SubmitStage, ReviewStage
<1> QED
    BY <1>1, <1>2, <1>3 DEF Insert

\* The first commit of a submit leaves a session that goes on: both rows are
\* SUBMITTED, and the verdict it had loaded is still stored.
LEMMA StoreKeepsCurrent ==
    ASSUME Apart, SessionsStayValid, SessionsAreCurrent,
           NEW s \in Slots, SubmitStore(s)
    PROVE  SessionsAreCurrent'
<1> PICK q : q = slots[s]
    OBVIOUS
<1> PICK r : r = [q EXCEPT !.at = "submit_stored", !.rows = {},
                           !.batch = {}, !.locks = FALSE]
    OBVIOUS
<1>1. /\ q \in Session /\ q.at = "submit_flushed" /\ SessionIsCurrent(q)
      /\ q.order \in Orders /\ q.act \in Acts
      /\ acts[q.act].order = q.order
    BY Types
    DEF SessionsAreCurrent, SubmitStore, SessionRefers, SubmitStage
<1>2. slots' = [slots EXCEPT ![s] = r]
    BY DEF SubmitStore, SessionsStayValid, TypeOK
<1>3. /\ acts'[q.act].status = "submitted"
      /\ orders'[q.order].status = "submitted"
    BY <1>1, StoreMoves DEF BothMove, OrderMoves
<1>4. acts'[q.act].auto_check_passed = acts[q.act].auto_check_passed
    BY <1>1 DEF SubmitStore, SessionsStayValid, TypeOK, ActRow
<1>5. /\ r.at = "submit_stored" /\ r.act = q.act /\ r.order = q.order
      /\ r.target = q.target /\ r.passed = q.passed
    BY <1>1 DEF Session
<1>6. SessionIsCurrent(r)'
    BY <1>1, <1>3, <1>4, <1>5
    DEF SessionIsCurrent, SubmitStage, ReviewStage
<1>7. /\ \A o \in Orders \ {q.order} : orders'[o] = orders[o]
      /\ \A a \in Acts : acts[a].order # q.order => acts'[a] = acts[a]
    BY <1>1 DEF SubmitStore, SessionsStayValid, TypeOK
<1> QED
    BY <1>1, <1>2, <1>6, <1>7, CommitKeepsCurrent

\* The last step of a request: it commits, or it rolls back.
LEMMA EndKeepsCurrent ==
    ASSUME Apart, SessionsStayValid, SessionsAreCurrent,
           NEW s \in Slots,
           \/ PatchCommit(s) \/ StartCommit(s) \/ ReviewCommit(s)
           \/ \E verdict \in Verdict : SubmitDecide(s, verdict)
    PROVE  SessionsAreCurrent'
<1> PICK q : q = slots[s]
    OBVIOUS
<1> PICK r : r = Idle
    OBVIOUS
<1>1. q \in Session /\ SessionRefers(q) /\ q.at # "idle"
    BY Types DEF PatchCommit, StartCommit, ReviewCommit, SubmitDecide
<1>2. slots' = [slots EXCEPT ![s] = r]
    BY DEF PatchCommit, StartCommit, ReviewCommit, SubmitDecide
<1>3. SessionIsCurrent(r)'
    <2>1. r.at = "idle"
        BY DEF Idle
    <2> QED
        BY <2>1, IdleIsCurrent
<1>4. \A o \in Orders \ {q.order} : orders'[o] = orders[o]
    BY DEF PatchCommit, StartCommit, ReviewCommit, SubmitDecide,
           SessionsStayValid, TypeOK
<1>5. \A a \in Acts : acts[a].order # q.order => acts'[a] = acts[a]
    BY <1>1
    DEF PatchCommit, StartCommit, ReviewCommit, SubmitDecide, SessionRefers,
        SubmitStage, ReviewStage, SessionsStayValid, TypeOK
<1> QED
    BY <1>1, <1>2, <1>3, <1>4, <1>5, CommitKeepsCurrent

\* A refused request and a dead one leave the tables to the others.
LEMMA RollbackKeepsCurrent ==
    ASSUME SessionsStayValid, SessionsAreCurrent,
           NEW s \in Slots, Refuse(s) \/ Die(s)
    PROVE  SessionsAreCurrent'
<1> PICK r : r = Idle
    OBVIOUS
<1>1. r.at = "idle"
    BY DEF Idle
<1>2. SessionIsCurrent(r)'
    BY <1>1, IdleIsCurrent
<1>3. UNCHANGED <<orders, acts>> /\ slots' = [slots EXCEPT ![s] = r]
    BY DEF Refuse, Die
<1> QED
    BY <1>2, <1>3, OneSession

\* Apart from the others, a request always works on what it read.
LEMMA StepKeepsCurrent ==
    ASSUME Apart, SessionsStayValid, SessionsAreCurrent, [Next]_vars
    PROVE  SessionsAreCurrent'
<1>1. CASE Insert
    BY <1>1, InsertKeepsCurrent
<1>2. ASSUME NEW s \in Slots, NEW o \in Orders, OrderRequest(s, o)
      PROVE  SessionsAreCurrent'
    BY <1>2, PatchLoadCurrent, StartLoadCurrent DEF OrderRequest
<1>3. ASSUME NEW s \in Slots, NEW a \in Acts, ActRequest(s, a)
      PROVE  SessionsAreCurrent'
    BY <1>3, SubmitLoadCurrent, ReviewLoadActCurrent DEF ActRequest
<1>4. ASSUME NEW s \in Slots, Serve(s)
      PROVE  SessionsAreCurrent'
    <2>1. CASE \/ PatchCommit(s) \/ StartCommit(s) \/ ReviewCommit(s)
               \/ \E verdict \in Verdict : SubmitDecide(s, verdict)
        BY <2>1, EndKeepsCurrent
    <2>2. CASE Refuse(s)
        BY <2>2, RollbackKeepsCurrent
    <2>3. CASE SubmitStore(s)
        BY <2>3, StoreKeepsCurrent
    <2>4. CASE SubmitClear(s) \/ SubmitFlush(s) \/ SubmitJudge(s)
                 \/ ReviewLoadOrder(s)
        BY <2>4, ReadingStepsCurrent
    <2> QED
        BY <1>4, <2>1, <2>2, <2>3, <2>4 DEF Serve
<1>5. ASSUME NEW s \in Slots, Die(s)
      PROVE  SessionsAreCurrent'
    BY <1>5, RollbackKeepsCurrent
<1>6. CASE UNCHANGED vars
    BY <1>6 DEF vars, SessionsAreCurrent, SessionIsCurrent
<1> QED
    BY <1>1, <1>2, <1>3, <1>4, <1>5, <1>6 DEF Next
\* CONFIRMED is the last status of an order and of an act.
LEMMA ConfirmedIsLast ==
    /\ \A status : can_transition("confirmed", status) => status = "confirmed"
    /\ \A status :
          can_act_transition("confirmed", status) => status = "confirmed"
BY DEF can_transition, WORK_ORDER_TRANSITIONS, can_act_transition,
       ACT_TRANSITIONS

\* An act that has no row yet is not moved.
LEMMA MovedActExists ==
    ASSUME SessionsStayValid,
           NEW a \in Acts, NEW status \in Produced, BothMove(a, status)
    PROVE  /\ acts[a].status # Absent
           /\ acts[a].order \in Orders
<1>1. acts[a].status # Absent
    BY DEF BothMove, Produced, can_act_transition, ACT_TRANSITIONS, Absent
<1> QED
    BY <1>1, Types DEF ActIsAccountedFor

\* Every status an order takes is audited in the transaction that writes it.
LEMMA StepAudits ==
    ASSUME SessionsStayValid, SessionsAreCurrent, AuditTellsStatus, [Next]_vars
    PROVE  AuditTellsStatus'
<1>1. CASE Insert
    <2>1. ASSUME NEW o \in Orders, NEW c \in Contractors \cup {None},
                 CreateOrder(o, c)
          PROVE  AuditTellsStatus'
        BY <2>1 DEF CreateOrder, AuditTellsStatus, SessionsStayValid, TypeOK
    <2>2. ASSUME NEW a \in Acts, NEW o \in Orders, NEW rows \in Calls,
                 CreateDraftAct(a, o, rows)
          PROVE  AuditTellsStatus'
        BY <2>2 DEF CreateDraftAct, AuditTellsStatus
    <2> QED
        BY <1>1, <2>1, <2>2 DEF Insert
<1>2. CASE OrderStep \/ ActStep
    BY <1>2 DEF OrderStep, ActStep, BothMove, OrderMoves, AuditTellsStatus
<1>3. CASE UNCHANGED <<orders, acts, audited>>
    BY <1>3 DEF AuditTellsStatus
<1> QED
    BY <1>1, <1>2, <1>3, StepIsAMove

\* What an act has been accepted on stays true of it and of its order.
LEMMA StepKeepsEarned ==
    ASSUME SessionsStayValid, ApartInv, [Next]_vars, NEW a \in Acts
    PROVE  ActIsEarned(a)'
<1>1. /\ orders \in [Orders -> OrderRow] /\ acts \in [Acts -> ActRow]
      /\ ActIsEarned(a) /\ ActIsAccountedFor(a)
    BY Types DEF ApartInv, SessionsStayValid, TypeOK
<1>2. acts[a].status = "confirmed"
          => acts[a].order \in Orders
             /\ orders[acts[a].order].status = "confirmed"
    BY <1>1 DEF ActIsAccountedFor, ActIsEarned, Absent
<1>3. CASE Insert
    <2>1. ASSUME NEW o \in Orders, NEW c \in Contractors \cup {None},
                 CreateOrder(o, c)
          PROVE  ActIsEarned(a)'
        <3>1. acts[a].status = "confirmed" => acts[a].order # o
            BY <1>2, <2>1 DEF CreateOrder, Exists, Absent
        <3> QED
            BY <1>1, <1>2, <2>1, <3>1 DEF CreateOrder, ActIsEarned
    <2>2. ASSUME NEW b \in Acts, NEW o \in Orders, NEW rows \in Calls,
                 CreateDraftAct(b, o, rows)
          PROVE  ActIsEarned(a)'
        <3>1. CASE a = b
            BY <1>1, <2>2, <3>1 DEF CreateDraftAct, ActIsEarned, Outcome
        <3>2. CASE a # b
            BY <1>1, <2>2, <3>2 DEF CreateDraftAct, ActIsEarned
        <3> QED
            BY <3>1, <3>2
    <2> QED
        BY <1>3, <2>1, <2>2 DEF Insert
<1>4. CASE OrderStep
    <2>1. acts' = acts
        BY <1>4 DEF OrderStep
    <2>2. acts[a].status = "confirmed"
              => orders'[acts[a].order].status = "confirmed"
        BY <1>2, <1>4, ConfirmedIsLast DEF OrderStep, OrderMoves
    <2> QED
        BY <1>1, <2>1, <2>2 DEF ActIsEarned
<1>5. CASE ActStep
    <2> PICK b \in Acts, status \in Produced : BothMove(b, status)
        BY <1>5 DEF ActStep
    <2>1. CASE a = b
        <3>1. acts[a].order \in Orders
            BY <2>1, MovedActExists
        <3>2. /\ can_act_transition(acts[a].status, status)
              /\ acts'[a].status = status
              /\ acts'[a].order = acts[a].order
              /\ orders'[acts[a].order].status = status
              /\ RowTells(a, status)
            BY <2>1, <3>1 DEF BothMove, OrderMoves
        <3>3. CASE status = "confirmed"
            <4>1. acts[a].status \in {"auto_confirmed", "confirmed"}
                BY <3>2, <3>3, OnlyAutoConfirmedIsConfirmed
            <4> QED
                BY <1>1, <3>2, <3>3, <4>1
                DEF ActIsEarned, RowTells, Outcome
        <3>4. CASE status # "confirmed"
            BY <1>1, <3>2, <3>4 DEF ActIsEarned, RowTells, Outcome, Produced
        <3> QED
            BY <3>3, <3>4
    <2>2. CASE a # b
        <3>1. acts'[a] = acts[a]
            BY <2>2 DEF BothMove
        <3>2. acts[a].status = "confirmed"
                  => orders'[acts[a].order].status = "confirmed"
            BY <1>2, ConfirmedIsLast DEF BothMove, OrderMoves
        <3> QED
            BY <1>1, <3>1, <3>2 DEF ActIsEarned
    <2> QED
        BY <2>1, <2>2
<1>6. CASE UNCHANGED <<orders, acts, audited>>
    BY <1>1, <1>6 DEF ActIsEarned
<1> QED
    BY <1>3, <1>4, <1>5, <1>6, StepIsAMove DEF ApartInv

\* The seed accepts no act, and each of its orders is audited as it is.
LEMMA InitIsEarned == Init => ApartInv
<1>1. Init => SessionsAreCurrent
    BY DEF Init, SessionsAreCurrent, SessionIsCurrent, Idle, SubmitStage,
           ReviewStage
<1>2. Init => AuditTellsStatus
    BY InitTables DEF AuditTellsStatus
<1>3. Init => \A a \in Acts : ActIsEarned(a)
    BY InitTables DEF NoAct, ActIsEarned, Absent, Outcome
<1> QED
    BY <1>1, <1>2, <1>3 DEF ApartInv

\* Requests for different orders keep the two tables, the audit trail and their
\* own sessions consistent.
LEMMA ApartAlways == Spec /\ []Apart => []ApartInv
<1>1. Apart /\ SessionsStayValid /\ ApartInv /\ [Next]_vars => ApartInv'
    <2> SUFFICES ASSUME Apart, SessionsStayValid, ApartInv, [Next]_vars
                 PROVE  ApartInv'
        OBVIOUS
    <2>1. SessionsAreCurrent'
        BY StepKeepsCurrent DEF ApartInv
    <2>2. AuditTellsStatus'
        BY StepAudits DEF ApartInv
    <2>3. \A a \in Acts : ActIsEarned(a)'
        BY StepKeepsEarned
    <2> QED
        BY <2>1, <2>2, <2>3 DEF ApartInv
<1> QED
    BY <1>1, InitIsEarned, SessionsAlwaysValid, PTL DEF Spec

-----------------------------------------------------------------------------
(* The theorems *)

\* The audit trail explains the table: the last entry of every order reports
\* the status the order has.
THEOREM AuditIsExact == Spec /\ []Apart => []AuditTellsStatus
<1>1. ApartInv => AuditTellsStatus
    BY DEF ApartInv
<1> QED
    BY <1>1, ApartAlways, PTL

\* An accepted act had passed its automatic check, and its order is accepted
\* with it.
THEOREM AcceptanceIsEarned == Spec /\ []Apart => []ConfirmedIsEarned
<1>1. ApartInv => ConfirmedIsEarned
    BY DEF ApartInv, ConfirmedIsEarned, ActIsEarned
<1> QED
    BY <1>1, ApartAlways, PTL

\* The verdict stored with a checked act was reached on the responses stored
\* with it.
THEOREM VerdictMatchesResponses == Spec /\ []Apart => []VerdictIsAboutResponses
<1>1. ApartInv => VerdictIsAboutResponses
    BY DEF ApartInv, VerdictIsAboutResponses, ActIsEarned
<1> QED
    BY <1>1, ApartAlways, PTL

\* Every change of an act's status is in ACT_TRANSITIONS.
THEOREM ActsFollowTheirTable == Spec /\ []Apart => ActFollowsTable
<1>1. ASSUME SessionsStayValid, ApartInv, [Next]_vars,
             NEW a \in Acts, acts[a].status \notin {Absent, acts'[a].status}
      PROVE  <<acts[a].status, acts'[a].status>> \in ACT_TRANSITIONS
    <2>1. acts \in [Acts -> ActRow]
        BY <1>1 DEF SessionsStayValid, TypeOK
    <2>2. ~Insert
        <3>1. \A o \in Orders, c \in Contractors \cup {None} :
                  ~CreateOrder(o, c)
            BY <1>1 DEF CreateOrder
        <3>2. \A b \in Acts, o \in Orders, rows \in Calls :
                  ~CreateDraftAct(b, o, rows)
            BY <1>1, <2>1 DEF CreateDraftAct
        <3> QED
            BY <3>1, <3>2 DEF Insert
    <2>3. CASE OrderStep \/ UNCHANGED <<orders, acts, audited>>
        BY <1>1, <2>3 DEF OrderStep
    <2>4. CASE ActStep
        BY <1>1, <2>4 DEF ActStep, BothMove, can_act_transition
    <2> QED
        BY <1>1, <2>2, <2>3, <2>4, StepIsAMove DEF ApartInv
<1>2. SessionsStayValid /\ ApartInv /\ [Next]_vars
          => [\A a \in Acts :
                 acts[a].status \notin {Absent, acts'[a].status}
                     => <<acts[a].status, acts'[a].status>>
                            \in ACT_TRANSITIONS]_vars
    BY <1>1
<1> QED
    BY <1>2, ApartAlways, SessionsAlwaysValid, PTL
    DEF Spec, ActFollowsTable

\* The orders implement OrderBoard: a step of the handlers creates one order,
\* moves one order along one entry of the table, or does not show.
THEOREM OrdersImplementBoard == Spec /\ []Apart => OrderBoardSpec
<1> DEFINE shown == [o \in Orders |-> orders[o].status]
<1>1. Init => Board!Init
    <2>1. Init => shown \in [Orders -> SeedStatus \cup {Absent}]
        BY InitTables DEF SeedStatus
    <2> QED
        BY <2>1 DEF Board!Init, Board!SeedStatus, Board!Absent, SeedStatus,
                    Absent
<1>2. ASSUME SessionsStayValid, [Next]_vars,
             NEW o \in Orders, NEW status \in WorkOrderStatus,
             OrderMoves(o, status)
      PROVE  [Board!Next]_shown
    <2>1. orders \in [Orders -> OrderRow]
        BY <1>2 DEF SessionsStayValid, TypeOK
    <2>2. shown' = [shown EXCEPT ![o] = status]
        BY <1>2 DEF OrderMoves
    <2>3. CASE orders[o].status = status
        BY <2>2, <2>3
    <2>4. CASE orders[o].status # status
        <3>1. <<shown[o], status>> \in WORK_ORDER_TRANSITIONS
            BY <1>2, <2>4 DEF OrderMoves, can_transition
        <3>2. Board!Move(o)
            BY <2>2, <3>1, ZenonT(30)
            DEF Board!Move, Board!WorkOrderStatus, WorkOrderStatus,
                Board!WORK_ORDER_TRANSITIONS, WORK_ORDER_TRANSITIONS
        <3> QED
            BY <3>2 DEF Board!Next
    <2> QED
        BY <2>3, <2>4
<1>3. ASSUME SessionsStayValid, ApartInv, [Next]_vars
      PROVE  [Board!Next]_shown
    <2>1. orders \in [Orders -> OrderRow] /\ acts \in [Acts -> ActRow]
        BY <1>3 DEF SessionsStayValid, TypeOK
    <2>2. ASSUME NEW o \in Orders, NEW c \in Contractors \cup {None},
                 CreateOrder(o, c)
          PROVE  [Board!Next]_shown
        <3> PICK status \in {"draft", "assigned"} :
                orders' = [orders EXCEPT ![o] = [status |-> status,
                                                 contractor |-> c]]
            BY <2>2 DEF CreateOrder
        <3>1. shown' = [shown EXCEPT ![o] = status]
            BY <2>1
        <3>2. Board!Create(o)
            BY <2>2, <3>1
            DEF Board!Create, Board!Absent, CreateOrder, Exists, Absent
        <3> QED
            BY <3>2 DEF Board!Next
    <2>3. CASE Insert
        <3>1. ASSUME NEW a \in Acts, NEW o \in Orders, NEW rows \in Calls,
                     CreateDraftAct(a, o, rows)
              PROVE  UNCHANGED shown
            BY <3>1 DEF CreateDraftAct
        <3> QED
            BY <2>2, <2>3, <3>1 DEF Insert
    <2>4. CASE OrderStep
        <3> PICK o \in Orders :
                \E status \in PatchTargets \cup {"in_progress",
                                                 orders[o].status} :
                    OrderMoves(o, status)
            BY <2>4 DEF OrderStep
        <3> PICK status \in PatchTargets \cup {"in_progress",
                                               orders[o].status} :
                OrderMoves(o, status)
            OBVIOUS
        <3>1. CASE status = orders[o].status
            BY <3>1 DEF OrderMoves
        <3>2. CASE status # orders[o].status
            <4>1. status \in WorkOrderStatus
                BY <3>2, Bounds DEF WorkOrderStatus
            <4> QED
                BY <1>2, <1>3, <4>1
        <3> QED
            BY <3>1, <3>2
    <2>5. CASE ActStep
        <3> PICK a \in Acts, status \in Produced : BothMove(a, status)
            BY <2>5 DEF ActStep
        <3>1. acts[a].order \in Orders /\ OrderMoves(acts[a].order, status)
            BY <1>3, MovedActExists DEF BothMove
        <3>2. status \in WorkOrderStatus
            BY DEF Produced, WorkOrderStatus
        <3> QED
            BY <1>2, <1>3, <3>1, <3>2
    <2>6. CASE UNCHANGED <<orders, acts, audited>>
        BY <2>6
    <2> QED
        BY <1>3, <2>3, <2>4, <2>5, <2>6, StepIsAMove DEF ApartInv
<1> QED
    BY <1>1, <1>3, ApartAlways, SessionsAlwaysValid, PTL
    DEF Spec, OrderBoardSpec, Board!Spec

\* What a step does to the order and to the act that backs it: they stay, or
\* they move together.
LEMMA StepBacksOrders ==
    ASSUME PatchTargets \cap Produced = {},
           SessionsStayValid, ApartInv, OrderBackedByAct, [Next]_vars,
           NEW o \in Orders, orders'[o].status \in Produced
    PROVE  \E a \in Acts : /\ acts'[a].order = o
                           /\ acts'[a].status = orders'[o].status
<1> DEFINE Backed == \E a \in Acts : /\ acts'[a].order = o
                                     /\ acts'[a].status = orders'[o].status
<1>1. orders \in [Orders -> OrderRow] /\ acts \in [Acts -> ActRow]
    BY DEF SessionsStayValid, TypeOK
<1>2. ASSUME orders'[o].status = orders[o].status
      PROVE  \E a \in Acts : /\ acts[a].order = o
                             /\ acts[a].status = orders'[o].status
                             /\ acts[a].status # Absent
    BY <1>2 DEF OrderBackedByAct, Produced, Absent
<1>3. CASE Insert
    <2>1. ASSUME NEW p \in Orders, NEW c \in Contractors \cup {None},
                 CreateOrder(p, c)
          PROVE  Backed
        <3>1. CASE p = o
            <4>1. orders'[o].status \in {"draft", "assigned"}
                BY <1>1, <2>1, <3>1 DEF CreateOrder
            <4> QED
                BY <4>1 DEF Produced
        <3>2. CASE p # o
            BY <1>1, <1>2, <2>1, <3>2 DEF CreateOrder
        <3> QED
            BY <3>1, <3>2
    <2>2. ASSUME NEW b \in Acts, NEW p \in Orders, NEW rows \in Calls,
                 CreateDraftAct(b, p, rows)
          PROVE  Backed
        BY <1>1, <1>2, <2>2 DEF CreateDraftAct
    <2> QED
        BY <1>3, <2>1, <2>2 DEF Insert
<1>4. CASE OrderStep
    <2> PICK p \in Orders :
            \E status \in PatchTargets \cup {"in_progress", orders[p].status} :
                OrderMoves(p, status)
        BY <1>4 DEF OrderStep
    <2>1. orders'[o].status = orders[o].status
        BY DEF OrderMoves, Produced
    <2> QED
        BY <1>2, <1>4, <2>1 DEF OrderStep
<1>5. CASE ActStep
    <2> PICK b \in Acts, status \in Produced : BothMove(b, status)
        BY <1>5 DEF ActStep
    <2>1. acts[b].order \in Orders
        BY MovedActExists
    <2>2. CASE acts[b].order = o
        BY <2>1, <2>2 DEF BothMove, OrderMoves
    <2>3. CASE acts[b].order # o
        <3>1. orders'[o].status = orders[o].status
            BY <2>3 DEF BothMove, OrderMoves
        <3> QED
            BY <1>2, <2>3, <3>1 DEF BothMove
    <2> QED
        BY <2>2, <2>3
<1>6. CASE UNCHANGED <<orders, acts, audited>>
    BY <1>2, <1>6
<1> QED
    BY <1>3, <1>4, <1>5, <1>6, StepIsAMove DEF ApartInv

\* The seed leaves no order at such a status.
LEMMA InitBacksOrders == Init => OrderBackedByAct
BY InitTables DEF OrderBackedByAct, Absent

\* While managers write no status by hand that acts are meant to produce, an
\* order that shows one has an act at that very status.
THEOREM OrdersAreBacked ==
    ASSUME PatchTargets \cap Produced = {}
    PROVE  Spec /\ []Apart => []OrderBackedByAct
<1>1. SessionsStayValid /\ ApartInv /\ OrderBackedByAct /\ [Next]_vars
          => OrderBackedByAct'
    BY StepBacksOrders DEF OrderBackedByAct, Produced
<1> QED
    BY <1>1, InitBacksOrders, ApartAlways, SessionsAlwaysValid, PTL DEF Spec
=============================================================================
