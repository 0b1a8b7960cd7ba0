---------------------------- MODULE Connections ----------------------------
(***************************************************************************)
(* What requests wait for: a connection of the pool (app/db/session.py,    *)
(* core/config.py) and the rows another transaction has updated.           *)
(*                                                                         *)
(* A session takes a connection with its first statement, gives it back    *)
(* when it commits or closes, and takes one again with the next statement; *)
(* an UPDATE locks its row until then.  A handler is the sequence of those *)
(* steps (its script), so that a conditional UPDATE is two scripts.  Within*)
(* a flush the unit of work updates work_orders before acts (the foreign   *)
(* key).  Every request reads its user first, in the same transaction.     *)
(***************************************************************************)
EXTENDS Naturals, Sequences, FiniteSets

CONSTANTS
    Requests,           \* requests that can be served concurrently
    Orders, Acts, Users,
    OrderOf,            \* acts.work_order_id
    db_pool_size,
    db_max_overflow,
    None

Rows == Orders \cup Acts \cup Users

ASSUME ConnectionsAssumption ==
    /\ OrderOf \in [Acts -> Orders]
    /\ None \notin Rows \cup Requests
    /\ Orders \cap Acts = {} /\ Users \cap (Orders \cup Acts) = {}
    /\ db_pool_size \in Nat \ {0}
    /\ db_max_overflow \in Nat

VARIABLES
    script,     \* what a request has yet to do; empty for no request
    connected,  \* the requests that hold a connection
    owner       \* the request whose open transaction has updated a row

vars == <<script, connected, owner>>

Step == [do : {"lock"}, row : Rows]
            \cup [do : {"open", "commit", "cv", "close"}, row : {None}]

Open == [do |-> "open", row |-> None]
Lock(row) == [do |-> "lock", row |-> row]
Commit == [do |-> "commit", row |-> None]
Cv == [do |-> "cv", row |-> None]
Close == [do |-> "close", row |-> None]

\* The script of the UPDATE of a row that may turn out to change nothing.
MayLock(row) == {<<>>, <<Lock(row)>>}

-----------------------------------------------------------------------------
(* The handlers *)

\* Handlers that only read keep their connection until they answer.
ReadScripts == {<<Open, Close>>}

\* create_order, create_draft_act, upload_photo: rows nobody else has seen;
\* session.refresh reads them back after the commit.
InsertScripts == {<<Open, Commit, Open, Close>>}

\* authenticate commits last_login_at, login its audit entry; a failed login
\* has only the entry to commit.
LoginScripts ==
    {<<Open, Commit, Close>>}
        \cup {<<Open, Lock(u), Commit, Open, Commit, Close>> : u \in Users}

UpdateOrderScripts(o) ==
    {<<Open>> \o update \o <<Commit, Open, Close>> : update \in MayLock(o)}

StartScripts(o) == {<<Open, Lock(o), Commit, Open, Close>>}

\* Mutated: the check has a session of its own.
SubmitScriptsNested(a) ==
    {<<Open>> \o act \o order
         \o <<Open, Cv, Lock(OrderOf[a]), Lock(a), Commit, Open, Close>> :
         act \in MayLock(a), order \in MayLock(OrderOf[a])}

\* The second transaction of a submit is the check, with the CV service in it,
\* and its flush.
CheckSteps(a) ==
    <<Commit, Open, Cv, Lock(OrderOf[a]), Lock(a), Commit, Open, Close>>

\* In the first one reading the order flushes the act: its row is locked before
\* the order's.
SubmitScripts(a) ==
    {<<Open>> \o act \o order \o CheckSteps(a) :
         act \in MayLock(a), order \in MayLock(OrderOf[a])}

\* Mutated: the act is flushed before the order's status is checked.
ReviewScriptsActFirst(a) ==
    {<<Open, Lock(a)>> \o order \o <<Commit, Open, Close>> :
         order \in MayLock(OrderOf[a])}

\* One flush: the order, if its status changes, then the act.
ReviewScripts(a) ==
    {<<Open>> \o order \o <<Lock(a), Commit, Open, Close>> :
         order \in MayLock(OrderOf[a])}

Scripts ==
    ReadScripts \cup InsertScripts \cup LoginScripts
        \cup (UNION {UpdateOrderScripts(o) \cup StartScripts(o) : o \in Orders})
        \cup (UNION {SubmitScripts(a) \cup ReviewScripts(a) : a \in Acts})

-----------------------------------------------------------------------------

MaxConnections == db_pool_size + db_max_overflow

Upcoming(r) == Head(script[r])

At(r, what) == script[r] # <<>> /\ Upcoming(r).do = what

WaitsForConnection(r) ==
    At(r, "open") /\ Cardinality(connected) >= MaxConnections

WaitsForRow(r) == At(r, "lock") /\ owner[Upcoming(r).row] \notin {None, r}

Advance(r) == script' = [script EXCEPT ![r] = Tail(@)]

\* The end of a transaction: its rows are free and its connection is back.
Release(r) ==
    /\ connected' = connected \ {r}
    /\ owner' = [row \in Rows |-> IF owner[row] = r THEN None ELSE owner[row]]

Init ==
    /\ script = [r \in Requests |-> <<>>]
    /\ connected = {}
    /\ owner = [row \in Rows |-> None]

Accept(r) ==
    /\ script[r] = <<>>
    /\ \E s \in Scripts : script' = [script EXCEPT ![r] = s]
    /\ UNCHANGED <<connected, owner>>

CheckOut(r) ==
    /\ At(r, "open")
    /\ Cardinality(connected) < MaxConnections
    /\ connected' = connected \cup {r}
    /\ Advance(r)
    /\ UNCHANGED owner

\* No connection came back in pool_timeout seconds: 500.  What was committed
\* before stays.
PoolTimeout(r) ==
    /\ WaitsForConnection(r)
    /\ script' = [script EXCEPT ![r] = <<>>]
    /\ Release(r)

Update(r) ==
    /\ At(r, "lock")
    /\ owner[Upcoming(r).row] \in {None, r}
    /\ owner' = [owner EXCEPT ![Upcoming(r).row] = r]
    /\ Advance(r)
    /\ UNCHANGED connected

CommitTransaction(r) ==
    /\ At(r, "commit")
    /\ Release(r)
    /\ Advance(r)

\* Mutated: no cv_timeout_s, the answer may never come.
CvWaits(r) == At(r, "cv") /\ UNCHANGED vars

\* The photos are sent one by one, each for cv_timeout_s at most; without any
\* there is nothing to wait for.
CvAnswered(r) ==
    /\ At(r, "cv")
    /\ Advance(r)
    /\ UNCHANGED <<connected, owner>>

Answer(r) ==
    /\ At(r, "close")
    /\ Release(r)
    /\ Advance(r)

\* A guard that refuses the request (4xx) or an exception (500): rollback.
Refuse(r) ==
    /\ \E what \in {"lock", "commit", "cv"} : At(r, what)
    /\ ~WaitsForRow(r)
    /\ script' = [script EXCEPT ![r] = <<>>]
    /\ Release(r)

\* A set of requests of which each waits for others of the set only.
Stuck(R) ==
    /\ R # {}
    /\ \A r \in R : \/ WaitsForConnection(r) /\ connected \subseteq R
                    \/ WaitsForRow(r) /\ owner[Upcoming(r).row] \in R

\* PostgreSQL sees the transactions that wait for each other's rows, nothing of
\* the pool.
RowCycle(R) == Stuck(R) /\ \A r \in R : WaitsForRow(r)

\* It aborts one of them (deadlock_detected): 500.
Victim(r) ==
    /\ \E R \in SUBSET Requests : r \in R /\ RowCycle(R)
    /\ script' = [script EXCEPT ![r] = <<>>]
    /\ Release(r)

GoOn(r) == CommitTransaction(r) \/ CvAnswered(r) \/ Answer(r) \/ Victim(r)

Next == \E r \in Requests :
    \/ Accept(r)
    \/ CheckOut(r) \/ PoolTimeout(r)
    \/ Update(r)
    \/ GoOn(r)
    \/ Refuse(r)

\* A request that can go on does; one that waits for a connection gets it or is
\* timed out; those that wait for a row are queued, so that each gets its turn.
Fairness ==
    \A r \in Requests : /\ WF_vars(GoOn(r))
                        /\ WF_vars(CheckOut(r) \/ PoolTimeout(r))
                        /\ SF_vars(Update(r))

Spec == Init /\ [][Next]_vars /\ Fairness

-----------------------------------------------------------------------------
(* Properties *)

TypeOK ==
    /\ script \in [Requests -> Seq(Step)]
    /\ connected \subseteq Requests
    /\ Cardinality(connected) <= MaxConnections
    /\ owner \in [Rows -> Requests \cup {None}]

\* A request that has updated a row or is about to has a connection: nothing is
\* held while waiting for the pool, which therefore never closes a cycle of
\* waiting requests.  Every deadlock is one of rows, which PostgreSQL resolves.
DeadlocksAreSeen ==
    \A R \in SUBSET Requests :
        Stuck(R) => \E C \in SUBSET R : RowCycle(C)

\* In its first transaction, before the commit that publishes SUBMITTED.
Submitting(r) ==
    \E i \in 1..Len(script[r]) :
        script[r][i].do = "cv" /\ \E j \in 1..i : script[r][j].do = "commit"

\* submit_act is the only handler that locks an act before its order: whatever
\* else runs, no deadlock forms without one in its first transaction that has
\* the act and waits for the order.
DeadlocksNeedASubmit ==
    \A R \in SUBSET Requests :
        RowCycle(R) => \E r \in R : /\ Submitting(r)
                                    /\ Upcoming(r).row \in Orders
                                    /\ \E a \in Acts : owner[a] = r

\* Every request is answered, also when all connections are taken by submits
\* that wait for the CV service and two of them wait for each other's rows.
RequestsEnd == \A r \in Requests : script[r] # <<>> ~> script[r] = <<>>
=============================================================================
