---------------------------- MODULE ActLifecycle ----------------------------
(***************************************************************************)
(* Work orders, acts and the request handlers that write them              *)
(* (app/api/v1/orders.py, app/api/v1/acts.py).                             *)
(*                                                                         *)
(* The backend is one asyncio process.  A request owns an AsyncSession: it *)
(* reads rows, keeps what it read, and at commit writes only the columns   *)
(* whose new value differs from the one it read (UPDATE ... WHERE id = ?,  *)
(* no row version, READ COMMITTED).  A slot is a request being served; the *)
(* actions of a handler are its code between two awaits on the database.   *)
(* With one slot requests are served one at a time.                        *)
(***************************************************************************)
EXTENDS AskkStatus, Naturals

CONSTANTS
    Orders,         \* work orders that may ever exist
    Acts,           \* acts that may ever exist
    Contractors,    \* contractor organisations
    Reviewers,      \* users who may review an act
    Batches,        \* sets of checklist responses sent by one call
    Slots,          \* requests that can be served concurrently
    PatchTargets,   \* statuses managers write with PATCH /orders/{id}
    MaxDeaths,      \* bound: requests that die between two awaits
    None,           \* SQL NULL
    Keep            \* a column the session did not change

ASSUME DistinctNulls ==
    /\ None # Keep
    /\ {None, Keep} \cap (Contractors \cup Reviewers \cup Batches
                            \cup Orders \cup Acts) = {}
    /\ {None, Keep} \cap (WorkOrderStatus \cup ActStatus
                            \cup {"pass", "fail", Absent}) = {}

ASSUME Bounds == MaxDeaths \in Nat /\ PatchTargets \subseteq WorkOrderStatus

VARIABLES
    orders,     \* the work_orders table
    acts,       \* the acts table with the checklist_responses of each act
    audited,    \* status of the order according to its last audit entry
    slots,      \* the requests being served
    deaths      \* requests that died so far

vars == <<orders, acts, audited, slots, deaths>>

-----------------------------------------------------------------------------
(* Rows and sessions *)

OrderRow == [status : WorkOrderStatus \cup {Absent},
             contractor : Contractors \cup {None}]

Verdict == {"pass", "fail"}

ActRow == [status : ActStatus \cup {Absent},
           order : Orders \cup {None},
           rows : SUBSET Batches,            \* checklist_responses
           auto_check_passed : Verdict \cup {None},
           judged : SUBSET Batches,          \* rows in auto_check_details
           confirmed_by : Reviewers \cup {None}]

\* Where a request stands: what it has done so far.
Stage == {"idle", "patch", "start", "submit_loaded", "submit_cleared",
          "submit_flushed", "submit_stored", "submit_judged",
          "review_act", "review_order"}

Session == [at : Stage,
            order : Orders \cup {None},
            act : Acts \cup {None},
            target : WorkOrderStatus \cup {Keep},      \* asked by the request
            status : WorkOrderStatus \cup {Keep},      \* work_orders.status
            contractor : Contractors \cup {None, Keep},
            act_status : ActStatus \cup {Keep},        \* acts.status
            reviewer : Reviewers \cup {Keep},
            batch : SUBSET Batches,                    \* responses to insert
            rows : SUBSET Batches,                     \* responses it saw
            passed : Verdict \cup {None},              \* acts.auto_check_passed
            locks : BOOLEAN]                           \* holds the act row

Idle == [at |-> "idle", order |-> None, act |-> None, target |-> Keep,
         status |-> Keep, contractor |-> Keep, act_status |-> Keep,
         reviewer |-> Keep, batch |-> {}, rows |-> {}, passed |-> None,
         locks |-> FALSE]

NoAct == [status |-> Absent, order |-> None, rows |-> {},
          auto_check_passed |-> None, judged |-> {}, confirmed_by |-> None]

\* The net change of a column: nothing, when the new value is the loaded one.
Dirty(loaded, new) == IF new = loaded THEN Keep ELSE new

\* The column after the UPDATE of a session that holds this change.
Written(stored, change) == IF change = Keep THEN stored ELSE change

\* An UPDATE that is flushed but not committed blocks the others' updates.
Locked(a, s) == \E t \in Slots \ {s} : slots[t].locks /\ slots[t].act = a

Exists(o) == orders[o].status # Absent

\* A batch no row, verdict or request refers to.
Fresh(n) ==
    /\ \A a \in Acts : n \notin acts[a].rows \cup acts[a].judged
    /\ \A s \in Slots : n \notin slots[s].batch /\ n \notin slots[s].rows

\* The types of the two tables (models/order.py, models/act.py), of the audit
\* trail and of the sessions.
TypeOK ==
    /\ orders \in [Orders -> OrderRow]
    /\ acts \in [Acts -> ActRow]
    /\ audited \in [Orders -> WorkOrderStatus \cup {Absent}]
    /\ slots \in [Slots -> Session]
    /\ deaths \in 0..MaxDeaths

-----------------------------------------------------------------------------
(* The database after the seed, or without it: some orders, no act.  The   *)
(* audit trail is empty; audited starts at the stored status.              *)

Init ==
    /\ \E kind \in [Orders -> SeedStatus \cup {Absent}],
          who \in [Orders -> Contractors] :
          /\ orders = [o \in Orders |->
                         [status |-> kind[o],
                          contractor |-> IF kind[o] = Absent THEN None
                                                             ELSE who[o]]]
          /\ audited = kind
    /\ acts = [a \in Acts |-> NoAct]
    /\ slots = [s \in Slots |-> Idle]
    /\ deaths = 0

-----------------------------------------------------------------------------
(* POST /orders *)

CreateOrder(o, c) ==
    /\ ~Exists(o)
    /\ LET status == IF c = None THEN "draft" ELSE "assigned"
       IN  /\ orders' = [orders EXCEPT ![o] = [status |-> status,
                                               contractor |-> c]]
           /\ audited' = [audited EXCEPT ![o] = status]
    /\ UNCHANGED <<acts, slots, deaths>>

(* PATCH /orders/{id}: a status and a contractor, each optional. *)

PatchLoad(s, o, c, target) ==
    /\ slots[s].at = "idle"
    /\ Exists(o)
    /\ target # Keep => can_transition(orders[o].status, target)
    /\ slots' = [slots EXCEPT ![s] =
                    [Idle EXCEPT !.at = "patch",
                                 !.order = o,
                                 !.target = target,
                                 !.status = Dirty(orders[o].status, target),
                                 !.contractor = Dirty(orders[o].contractor, c)]]
    /\ UNCHANGED <<orders, acts, audited, deaths>>

\* The audit entry names a status only when the request changed it.
PatchCommit(s) ==
    LET r == slots[s]
    IN  /\ r.at = "patch"
        /\ orders' = [orders EXCEPT
                        ![r.order].status = Written(@, r.status),
                        ![r.order].contractor = Written(@, r.contractor)]
        /\ audited' = [audited EXCEPT ![r.order] = Written(@, r.status)]
        /\ slots' = [slots EXCEPT ![s] = Idle]
        /\ UNCHANGED <<acts, deaths>>

(* POST /orders/{id}/start, by a contractor c or by staff (None). *)

StartLoad(s, o, c) ==
    /\ slots[s].at = "idle"
    /\ Exists(o)
    /\ c # None => orders[o].contractor = c
    /\ can_transition(orders[o].status, "in_progress")
    /\ slots' = [slots EXCEPT ![s] =
                    [Idle EXCEPT !.at = "start",
                                 !.order = o,
                                 !.target = "in_progress",
                                 !.status = Dirty(orders[o].status,
                                                  "in_progress")]]
    /\ UNCHANGED <<orders, acts, audited, deaths>>

\* Mutated: the start is not audited.
StartCommitSilent(s) ==
    LET r == slots[s]
    IN  /\ r.at = "start"
        /\ orders' = [orders EXCEPT ![r.order].status = Written(@, r.status)]
        /\ slots' = [slots EXCEPT ![s] = Idle]
        /\ UNCHANGED <<acts, audited, deaths>>

StartCommit(s) ==
    LET r == slots[s]
    IN  /\ r.at = "start"
        /\ orders' = [orders EXCEPT ![r.order].status = Written(@, r.status)]
        /\ audited' = [audited EXCEPT ![r.order] = r.target]
        /\ slots' = [slots EXCEPT ![s] = Idle]
        /\ UNCHANGED <<acts, deaths>>

-----------------------------------------------------------------------------
(* POST /acts: the order may have any status. *)

CreateDraftAct(a, o, rows) ==
    /\ acts[a].status = Absent
    /\ Exists(o)
    /\ \A n \in rows : Fresh(n)
    /\ acts' = [acts EXCEPT ![a] = [NoAct EXCEPT !.status = "draft",
                                                 !.order = o,
                                                 !.rows = rows]]
    /\ UNCHANGED <<orders, audited, slots, deaths>>

(* POST /acts/{id}/submit *)

\* The act is read and its status checked.  The list of responses may be empty.
SubmitLoad(s, a, batch) ==
    /\ slots[s].at = "idle"
    /\ acts[a].status # Absent
    /\ can_act_transition(acts[a].status, "submitted")
    /\ \A n \in batch : Fresh(n)
    /\ slots' = [slots EXCEPT ![s] =
                    [Idle EXCEPT !.at = "submit_loaded",
                                 !.act = a,
                                 !.order = acts[a].order,
                                 !.target = "submitted",
                                 !.act_status = Dirty(acts[a].status,
                                                      "submitted"),
                                 !.passed = acts[a].auto_check_passed,
                                 !.batch = batch]]
    /\ UNCHANGED <<orders, acts, audited, deaths>>

\* Mutated: the deletion is committed on its own.
SubmitClearCommitted(s) ==
    /\ slots[s].at = "submit_loaded"
    /\ acts' = [acts EXCEPT ![slots[s].act].rows = {}]
    /\ slots' = [slots EXCEPT ![s].at = "submit_cleared"]
    /\ UNCHANGED <<orders, audited, deaths>>

\* DELETE of the responses the statement sees.
SubmitClear(s) ==
    /\ slots[s].at = "submit_loaded"
    /\ slots' = [slots EXCEPT ![s].at = "submit_cleared",
                              ![s].rows = acts[slots[s].act].rows]
    /\ UNCHANGED <<orders, acts, audited, deaths>>

\* Reading the order first flushes the act (autoflush): the act row stays
\* locked until the commit, unless no column of it changed.  The columns of a
\* draft always change (telemetry_after_json is NULL in it).
SubmitFlush(s) ==
    LET r == slots[s]
    IN  /\ r.at = "submit_cleared"
        /\ can_transition(orders[r.order].status, "submitted")
        /\ \E locks \in BOOLEAN :
              /\ r.act_status # Keep => locks
              /\ locks => ~Locked(r.act, s)
              /\ slots' = [slots EXCEPT
                              ![s].at = "submit_flushed",
                              ![s].status = Dirty(orders[r.order].status,
                                                  "submitted"),
                              ![s].locks = locks]
        /\ UNCHANGED <<orders, acts, audited, deaths>>

\* Mutated: a repeated submit is answered after its first commit.
SubmitStoreReturns(s) ==
    LET r == slots[s]
    IN  /\ r.at = "submit_flushed"
        /\ acts' = [acts EXCEPT
                      ![r.act].status = Written(@, r.act_status),
                      ![r.act].rows = (@ \ r.rows) \cup r.batch]
        /\ orders' = [orders EXCEPT ![r.order].status = Written(@, r.status)]
        /\ audited' = [audited EXCEPT ![r.order] = r.target]
        /\ slots' = [slots EXCEPT ![s] = Idle]
        /\ UNCHANGED deaths

\* First commit: the responses replaced, both statuses SUBMITTED.
SubmitStore(s) ==
    LET r == slots[s]
    IN  /\ r.at = "submit_flushed"
        /\ acts' = [acts EXCEPT
                      ![r.act].status = Written(@, r.act_status),
                      ![r.act].rows = (@ \ r.rows) \cup r.batch]
        /\ orders' = [orders EXCEPT ![r.order].status = Written(@, r.status)]
        /\ audited' = [audited EXCEPT ![r.order] = r.target]
        /\ slots' = [slots EXCEPT ![s].at = "submit_stored",
                                  ![s].rows = {},
                                  ![s].batch = {},
                                  ![s].locks = FALSE]
        /\ UNCHANGED deaths

\* Mutated: the check uses act.responses, a relationship loaded with "noload".
SubmitJudgeNoload(s) ==
    /\ slots[s].at = "submit_stored"
    /\ slots' = [slots EXCEPT ![s].at = "submit_judged"]
    /\ UNCHANGED <<orders, acts, audited, deaths>>

\* auto_check_act reads the responses; the verdict follows from them, from
\* the photos and from the CV service, up to 30 s per photo later.
SubmitJudge(s) ==
    /\ slots[s].at = "submit_stored"
    /\ slots' = [slots EXCEPT ![s].at = "submit_judged",
                              ![s].rows = acts[slots[s].act].rows]
    /\ UNCHANGED <<orders, acts, audited, deaths>>

\* Mutated: only the order is written.
SubmitDecideOrderOnly(s, verdict) ==
    LET r == slots[s]
        status == IF verdict = "pass" THEN "auto_confirmed"
                                      ELSE "delayed_verification"
    IN  /\ r.at = "submit_judged"
        /\ orders' = [orders EXCEPT ![r.order].status = status]
        /\ audited' = [audited EXCEPT ![r.order] = status]
        /\ slots' = [slots EXCEPT ![s] = Idle]
        /\ UNCHANGED <<acts, deaths>>

\* Second commit.  An empty checklist fails.  Both statuses are checked against
\* the session's own SUBMITTED, so both checks succeed and both columns are
\* written.
SubmitDecide(s, verdict) ==
    LET r == slots[s]
        status == IF verdict = "pass" THEN "auto_confirmed"
                                      ELSE "delayed_verification"
    IN  /\ r.at = "submit_judged"
        /\ r.rows = {} => verdict = "fail"
        /\ ~Locked(r.act, s)
        /\ acts' = [acts EXCEPT
                      ![r.act].status = status,
                      ![r.act].auto_check_passed =
                          Written(@, Dirty(r.passed, verdict)),
                      ![r.act].judged = r.rows]
        /\ orders' = [orders EXCEPT ![r.order].status = status]
        /\ audited' = [audited EXCEPT ![r.order] = status]
        /\ slots' = [slots EXCEPT ![s] = Idle]
        /\ UNCHANGED deaths

-----------------------------------------------------------------------------
(* POST /acts/{id}/review.  A decision is the status it asks for, which is *)
(* the same word for the act and for the order.                            *)

ReviewLoadAct(s, a, u, decision) ==
    /\ slots[s].at = "idle"
    /\ acts[a].status # Absent
    /\ can_act_transition(acts[a].status, decision)
    /\ slots' = [slots EXCEPT ![s] =
                    [Idle EXCEPT !.at = "review_act",
                                 !.act = a,
                                 !.order = acts[a].order,
                                 !.target = decision,
                                 !.act_status = Dirty(acts[a].status, decision),
                                 !.reviewer = Dirty(acts[a].confirmed_by, u)]]
    /\ UNCHANGED <<orders, acts, audited, deaths>>

ReviewLoadOrder(s) ==
    LET r == slots[s]
    IN  /\ r.at = "review_act"
        /\ can_transition(orders[r.order].status, r.target)
        /\ slots' = [slots EXCEPT
                        ![s].at = "review_order",
                        ![s].status = Dirty(orders[r.order].status, r.target)]
        /\ UNCHANGED <<orders, acts, audited, deaths>>

ReviewCommit(s) ==
    LET r == slots[s]
    IN  /\ r.at = "review_order"
        /\ ~Locked(r.act, s)
        /\ acts' = [acts EXCEPT
                      ![r.act].status = Written(@, r.act_status),
                      ![r.act].confirmed_by = Written(@, r.reviewer)]
        /\ orders' = [orders EXCEPT ![r.order].status = Written(@, r.status)]
        /\ audited' = [audited EXCEPT ![r.order] = r.target]
        /\ slots' = [slots EXCEPT ![s] = Idle]
        /\ UNCHANGED deaths

-----------------------------------------------------------------------------
(* A refused request and a dead one both roll back. *)

\* The order's status does not permit what the request asks: 500 from
\* submit_act, 400 from review_act.
Refuse(s) ==
    LET r == slots[s]
    IN  /\ r.at \in {"submit_cleared", "review_act"}
        /\ ~can_transition(orders[r.order].status, r.target)
        /\ r.act_status # Keep /\ r.at = "submit_cleared" => ~Locked(r.act, s)
        /\ slots' = [slots EXCEPT ![s] = Idle]
        /\ UNCHANGED <<orders, acts, audited, deaths>>

\* An exception (a CV answer that is not JSON, a lost connection, the victim
\* of a database deadlock) or the end of the process.
Die(s) ==
    /\ slots[s].at # "idle"
    /\ deaths < MaxDeaths
    /\ deaths' = deaths + 1
    /\ slots' = [slots EXCEPT ![s] = Idle]
    /\ UNCHANGED <<orders, acts, audited>>

-----------------------------------------------------------------------------

\* The responses in the body of a request, possibly none.
Calls == {{}} \cup {{n} : n \in Batches}

OrderRequest(s, o) ==
    \/ \E c \in Contractors \cup {None, Keep}, t \in PatchTargets \cup {Keep} :
           PatchLoad(s, o, c, t)
    \/ \E c \in Contractors \cup {None} : StartLoad(s, o, c)

ActRequest(s, a) ==
    \/ \E batch \in Calls : SubmitLoad(s, a, batch)
    \/ \E u \in Reviewers, decision \in {"confirmed", "rejected"} :
           ReviewLoadAct(s, a, u, decision)

\* What a request does once it has been accepted.
Serve(s) ==
    \/ PatchCommit(s) \/ StartCommit(s)
    \/ SubmitClear(s) \/ SubmitFlush(s) \/ SubmitStore(s) \/ SubmitJudge(s)
    \/ \E verdict \in Verdict : SubmitDecide(s, verdict)
    \/ ReviewLoadOrder(s) \/ ReviewCommit(s)
    \/ Refuse(s)

Insert ==
    \/ \E o \in Orders, c \in Contractors \cup {None} : CreateOrder(o, c)
    \/ \E a \in Acts, o \in Orders, rows \in Calls :
           CreateDraftAct(a, o, rows)

Next ==
    \/ Insert
    \/ \E s \in Slots : \/ \E o \in Orders : OrderRequest(s, o)
                        \/ \E a \in Acts : ActRequest(s, a)
                        \/ Serve(s)
                        \/ Die(s)

Spec == Init /\ [][Next]_vars

\* The event loop resumes a request whose awaited answer has come, and every
\* await has an answer: the database replies and cv_client bounds its calls.
FairSpec == Spec /\ \A s \in Slots : WF_vars(Serve(s))
=============================================================================
