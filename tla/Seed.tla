-------------------------------- MODULE Seed --------------------------------
(***************************************************************************)
(* run_all_seeds (app/mocks/generators/seed.py), called with POST          *)
(* /auth/seed: seven steps, each with a transaction of its own, that look  *)
(* for what is already there and add the rest.  Calls may overlap, die     *)
(* between two steps and be repeated.                                      *)
(***************************************************************************)
EXTENDS AskkStatus, Naturals, FiniteSets

CONSTANTS
    Calls,              \* calls served concurrently
    LastDay             \* bound: the UTC days are 0..LastDay

ASSUME SeedAssumption == IsFiniteSet(Calls) /\ LastDay \in Nat

VARIABLES
    filled,             \* tables with the rows of the seed
    telemetry,          \* copies of telemetry_readings
    others,             \* whether somebody has made an order
    work_orders,        \* orders of the seed in each status, by day of number
    day,
    calls

vars == <<filled, telemetry, others, work_orders, day, calls>>

Days == 0..LastDay

\* The steps that look for their rows by a unique column.
Keyed == {"contractors", "work_types", "objects", "users"}

After ==
    [begin |-> "contractors", contractors |-> "work_types",
     work_types |-> "objects", objects |-> "users", users |-> "telemetry",
     telemetry |-> "orders", orders |-> "ratings", ratings |-> "done"]

Steps == DOMAIN After

\* absent: what it looked for is not there.  listed: the users it got include
\* those of the contractors.  day: of the numbers it gives out.
Call == [at : Steps \cup {"done"}, looked : BOOLEAN, absent : BOOLEAN,
         listed : BOOLEAN, day : Days]

AtStep(step) == [at |-> step, looked |-> FALSE, absent |-> FALSE,
                 listed |-> FALSE, day |-> 0]

NoOrders == [status \in SeedStatus |-> 0]

\* The orders of one call, numbered from 1 within its day.
Board == [assigned |-> 5, in_progress |-> 3 + 14]

SeededOn(d) == work_orders[d] # NoOrders
SeededAlready == \E d \in Days : SeededOn(d)

Init ==
    /\ filled = {} /\ telemetry = 0 /\ others = FALSE
    /\ work_orders = [d \in Days |-> NoOrders]
    /\ day = 0
    /\ calls = [c \in Calls |-> AtStep("begin")]

-----------------------------------------------------------------------------

\* Mutated: no orders without the users of the contractors.
MissesIfListed(c, step) ==
    CASE step \in Keyed -> step \notin filled
      [] step = "telemetry" -> telemetry = 0
      [] step = "orders" -> calls[c].listed /\ ~SeededAlready /\ ~others
      [] OTHER -> FALSE

\* Mutated: telemetry is added without a look.
MissesTelemetry(c, step) ==
    CASE step \in Keyed -> step \notin filled
      [] step = "telemetry" -> TRUE
      [] step = "orders" -> ~SeededAlready /\ ~others
      [] OTHER -> FALSE

\* Whether a step finds nothing of its own.  recalc_contractor_ratings looks
\* at nothing and always adds a row (Ratings).
Misses(c, step) ==
    CASE step \in Keyed -> step \notin filled
      [] step = "telemetry" -> telemetry = 0
      [] step = "orders" -> ~SeededAlready /\ ~others
      [] OTHER -> FALSE

\* The numbers are drawn up as soon as the count of the orders is there.
Look(c) ==
    /\ calls[c].at \in Steps \ {"begin"} /\ ~calls[c].looked
    /\ calls' = [calls EXCEPT ![c].looked = TRUE,
                              ![c].absent = Misses(c, calls[c].at),
                              ![c].day = day]
    /\ UNCHANGED <<filled, telemetry, others, work_orders, day>>

\* Mutated: the unique columns are not relied on.
NoConflict(c) == FALSE

\* The rows of the step have been committed by another call since; the numbers
\* of another day's orders are other numbers.
Conflict(c) ==
    /\ calls[c].absent
    /\ \/ calls[c].at \in filled
       \/ calls[c].at = "orders" /\ SeededOn(calls[c].day)

\* make_act, called for the 14 orders of the past, returns without a user of
\* the contractor.  With one it comes to the photos of the first act and to
\* hashlib, which the module does not import: NameError, and nothing of the
\* step is committed.
Raises(c) == calls[c].at = "orders" /\ calls[c].absent /\ calls[c].listed

\* The commit of a step; seed_users lists only the users it adds.
Store(c) ==
    LET step == calls[c].at
        adds == calls[c].absent
    IN /\ calls[c].looked /\ ~Conflict(c) /\ ~Raises(c)
       /\ filled' = IF adds /\ step \in Keyed THEN filled \cup {step} ELSE filled
       /\ telemetry' = telemetry + (IF adds /\ step = "telemetry" THEN 1 ELSE 0)
       /\ work_orders' =
             IF adds /\ step = "orders"
             THEN [work_orders EXCEPT
                     ![calls[c].day] = [status \in SeedStatus |->
                                          @[status] + Board[status]]]
             ELSE work_orders
       /\ calls' = [calls EXCEPT
                      ![c] = [AtStep(After[step]) EXCEPT
                                !.listed = IF step = "users" THEN adds
                                                     ELSE calls[c].listed]]
       /\ UNCHANGED <<others, day>>

\* POST /auth/seed, again after an answer, an error or a restart.
Ask(c) ==
    /\ calls[c].at \in {"begin", "done"}
    /\ calls' = [calls EXCEPT ![c] = AtStep("contractors")]
    /\ UNCHANGED <<filled, telemetry, others, work_orders, day>>

\* A conflict, the error of make_act, another one or the end of the process.
Die(c) ==
    /\ calls[c].at \notin {"begin", "done"}
    /\ calls' = [calls EXCEPT ![c] = AtStep("begin")]
    /\ UNCHANGED <<filled, telemetry, others, work_orders, day>>

\* POST /orders, which needs an object, a kind of work and somebody to ask.
CreateOrder ==
    /\ Keyed \subseteq filled
    /\ others' = TRUE
    /\ UNCHANGED <<filled, telemetry, work_orders, day, calls>>

Midnight ==
    /\ day < LastDay
    /\ day' = day + 1
    /\ UNCHANGED <<filled, telemetry, others, work_orders, calls>>

Next ==
    \/ \E c \in Calls : Look(c) \/ Store(c) \/ Ask(c) \/ Die(c)
    \/ CreateOrder
    \/ Midnight

Spec == Init /\ [][Next]_vars

-----------------------------------------------------------------------------
(* Properties *)

\* Nothing keeps overlapping calls from adding telemetry twice; however often
\* calls are repeated, there are no more copies than calls that overlapped.
TypeOK ==
    /\ filled \subseteq Keyed
    /\ telemetry \in 0..Cardinality(Calls)
    /\ others \in BOOLEAN
    /\ work_orders \in [Days -> [SeedStatus -> Nat]]
    /\ day \in Days
    /\ calls \in [Calls -> Call]

\* A call that has been answered leaves the contractors, work types, objects
\* and users, telemetry, and orders - all those of one call, unless somebody
\* else has made one - whatever died before it.  It says nothing of acts: Raises
\* keeps the seed from leaving any, whatever seed.py:652-657 announces.
AnsweredIsComplete ==
    (\E c \in Calls : calls[c].at = "done") =>
        /\ filled = Keyed
        /\ telemetry > 0
        /\ others \/ \E d \in Days : work_orders[d] = Board

\* Of calls that overlap and all find no orders, one at most leaves them under
\* the numbers of a day.
SeededOnce ==
    [][\A d \in Days : SeededOn(d) => UNCHANGED work_orders[d]]_vars
=============================================================================
