# Verification of АСКК

АСКК controls the quality of contractors' work on oil-field equipment. A manager
creates a work order and assigns a contractor; the contractor works on site,
fills in a checklist, takes photos and submits an act; a rule engine confirms the
act or sends it to manual verification; a reviewer closes it.

This directory holds TLA+ modules translated from the source, the TLC
configurations that check them and proofs checked by TLAPS.

## The system

### Runtime

The backend is one asyncio process (FastAPI, uvicorn) on PostgreSQL. Every
request owns an `AsyncSession` (`backend/app/db/session.py`): rows it reads stay
in the session, `expire_on_commit=False` keeps them there after a commit, and an
exception rolls back what was not committed. An UPDATE writes the columns whose
value differs from the loaded one, addressed by primary key only: there is no
version column and no `SELECT FOR UPDATE`, and PostgreSQL runs at READ
COMMITTED. The CV service is a second process that answers one image at a time.

### Components

| Component | State | Operations | What makes it correct |
|---|---|---|---|
| Status tables (`models/order.py`, `models/act.py`) | none; two transition tables | `can_transition`, `can_act_transition` | no status is skipped, terminal statuses stay |
| Work order endpoints (`api/v1/orders.py`) | `work_orders`, `audit_log` | create, patch, start | a status changes only along its table; the audit trail tells it |
| Act endpoints (`api/v1/acts.py`) | `acts`, `checklist_responses`, `work_orders`, `audit_log` | create, submit (two commits), review | a submitted act is decided; an accepted one has a verdict and a reviewer; act and order agree |
| Rule engine (`services/rules.py`) | none; reads responses, photos, object | `auto_check_act` | the verdict follows the score and the failed rules; corrections never hurt |
| Photo storage (`api/v1/acts.py`) | files, `photos` | upload, download | a row has its file |
| CV client and check (`services/cv_client.py`, `rules.py`) | none | infer each photo | an unavailable service does not fail an act |
| CV service (`cv-service/`) | the loaded model | warm-up, `/readyz`, `/infer` | ready means it can infer |
| Anomaly detector (`services/anomaly_detector.py`) | none; reads `telemetry_readings` | detect over two windows | a drop that lasts is reported |
| Rate limiter (`core/rate_limit.py`) | calls per key | check | at most 5 logins a minute |
| Authentication (`services/auth.py`, `api/v1/auth.py`, `api/deps.py`) | `users`; tokens are stateless | login, refresh, the check before every request, roles | a user that is not active any more gets no token and is served no request; every attempt is audited |
| Seed and ratings (`mocks/generators/seed.py`) | all tables | seven steps, each with its commit; rating per contractor | running it again completes it; ratings within 0..100 |
| Audit (`services/audit.py`) | `audit_log` | add an entry to the caller's transaction | an entry is committed with its change |
| Connection pool and transactions (`db/session.py`, `core/config.py`) | connections, row locks of PostgreSQL | check out, lock, commit | no request waits for ever |
| Read-only endpoints (`api/v1/dashboard.py`, `acts.py`) | none | the detail of an act, the summary, lists | an answer made of several queries does not contradict itself |
| Web client (`frontend/index.html`) | `_fieldState`, the screen | open an order, take it to work, find or make the draft, send it | one draft per order; what is sent is what is shown |
| SCADA interface, scripts | none on the server | | |

Requests interact only through the tables. `submit_act` calls `auto_check_act`
between its two commits; that call reads the responses, the object and the
photos and waits for the CV service up to 30 s for each photo. Reviews, patches
and other submits of the same act or order run meanwhile.

### What is hard here

* A status is checked on a row the session loaded earlier and written back later.
* `submit_act` commits SUBMITTED, runs the check, and commits the outcome: a
  request that dies between leaves an act nobody will decide.
* A repeated submit is accepted while the first is being checked.
* An order may have several acts; each moves the order.
* The score is a quotient of sums of doubles.
* The CV check asks another service for every photo, while files and service come
  and go.
* The seed commits seven times and may be called twice, or again after a crash.
* The anomaly detector compares two windows that slide over the anomaly itself.
* The login limiter promises a moment at which a refused client will be served.
* A submit holds row locks in one transaction and a connection of the pool for
  the whole CV check in the next; `submit_act` and `review_act` lock the same two
  rows in opposite orders.
* The page's asynchronous functions share one state object and end in any order;
  their answers may be lost after the server has done the work.
* A failed login raises an exception, and exceptions roll back.
* An answer put together from several queries sees several moments.

`PROJECT.json` lists the hazards one by one with their lines.

## The modules

| Module | Models | Source |
|---|---|---|
| `AskkStatus` | the two enumerations and their transition tables, the statuses the seed leaves | `models/order.py`, `models/act.py`, `seed.py` |
| `OrderBoard` | abstract: what a reader of `work_orders` may see | `models/order.py` |
| `ActLifecycle` | orders, acts and the six handlers that write them | `api/v1/orders.py`, `api/v1/acts.py`, `db/session.py` |
| `ActProperties` | their properties, and `OrderBoard` instantiated | |
| `ActProofs` | their TLAPS proofs, for requests that interleave freely and then for requests that do not meet on an order | |
| `RuleEngine`, `RuleProofs` | `auto_check_act`, and an act corrected and checked again; its proofs | `services/rules.py` |
| `RateLimiter` | the sliding window of logins | `core/rate_limit.py` |
| `Login`, `LoginProofs` | extends `RateLimiter`: logins, refreshes, and requests let in with a token; the proofs of both | `api/v1/auth.py`, `services/auth.py`, `api/deps.py` |
| `Connections`, `ConnectionsProofs` | what requests wait for: connections and rows, and the proofs | `db/session.py`, the handlers |
| `Field` | extends `ActLifecycle`: the contractor's page | `frontend/index.html` |
| `CvService` | the CV process, its answers and what the client and the proxy make of them | `cv-service/app/`, `cv_client.py`, `api/v1/cv.py` |
| `PhotoCheck`, `PhotoProofs` | extends `CvService`: uploads, files and rows of one act, and the CV check over them; the proofs | `api/v1/acts.py`, `services/rules.py` |
| `AnomalyDetector`, `AnomalyProofs` | the two windows and the rules over one parameter, with the telemetry of the seed; the proofs | `services/anomaly_detector.py`, `seed.py` |
| `Ratings` | extends `ActLifecycle`: the queries of a recalculation among its requests, and the formula | `seed.py` |
| `Readers` | extends `Ratings`: the detail of an act and the summary, query by query | `acts.py`, `dashboard.py` |
| `ClientProofs` | the proofs of `Field`, and those of `Ratings` and `Readers` | |
| `Seed`, `SeedProofs` | the steps of `run_all_seeds`, overlapping, dying and repeated | `seed.py` |
| `MC...` | sets and symmetry for TLC | |

`PhotoCheck` and `RuleEngine` meet in `ActLifecycle` as the nondeterministic verdict
of `SubmitDecide`; `ActLifecycle` starts from the orders `Seed` leaves
(`SeedStatus`); `Ratings` and `Readers` read the tables that `ActLifecycle`
writes, and `Field` sends the requests that it serves. `Connections` is the other
side of the same handlers: what they wait for, and nothing of what they write.

### ActLifecycle

`orders` and `acts` are the tables, reduced to the columns some guard or property
reads; the responses of an act are kept with it, one *batch* per request that sent
them, because a submit replaces them together. `audited` is the status the last
audit entry of an order reports. `slots` are the requests being served: a slot
keeps what its session read and the columns it will write, `Keep` for those it
leaves alone. With two slots every interleaving at a database await is explored,
with `Apart` those of requests for different orders, with one slot none.

| Action | Code between awaits |
|---|---|
| `CreateOrder`, `CreateDraftAct` | `create_order`, `create_draft_act`: one transaction, no row read that another request changes |
| `PatchLoad`, `PatchCommit` | `update_order` up to the flush; flush, audit and commit |
| `StartLoad`, `StartCommit` | `start_order` likewise |
| `SubmitLoad` | `submit_act` 192-198: the act is read and its status checked |
| `SubmitClear` | 201-203: the DELETE of the responses its statement sees |
| `SubmitFlush` | 206-224: reading the order flushes the act, which locks its row until the commit |
| `SubmitStore` | 226-239: first commit |
| `SubmitJudge` | 244: `auto_check_act` reads the responses |
| `SubmitDecide` | 245-273: second commit; an empty checklist fails, any other may pass or fail |
| `ReviewLoadAct`, `ReviewLoadOrder`, `ReviewCommit` | `review_act` 445, 449, 452-489 |
| `Refuse` | the order's status forbids the transition: 500 from a submit, 400 from a review; rollback |
| `Die` | any exception, or the end of the process, between two awaits; rollback of what was not committed |

The verdict of `SubmitDecide` is nondeterministic here and determined in
`RuleEngine`. Roles and the ownership of an act restrict who may call, which no
property depends on, and are left out. The initial states are those of a database
with or without the seed: orders assigned or in progress, absent rows, and no act,
because the seed never commits one (see `Seed`).

### RuleEngine

An act is what `auto_check_act` reads of it. `listed` counts the rows of a step in
the joined query and `answer` is the row the second query found, so that the
two queries may disagree, as they do when another submit commits between them.
`Rows` counts rows as a set of pairs of a step and a number. Weights are in
hundredths and exact. `FallsShort` names the combinations in which
the quotient of the double sums is below 0.8 although the exact one equals it;
they were enumerated with CPython for up to nine rows of required steps, which is
what the assumption `FewRows` bounds.

### RateLimiter and Login

`buckets` is the list of call times of each key; `Allow` and `Refuse` are the two ends
of `check`, which drops old calls first in both cases. Time is an integer of ticks,
`Second` of which make a second, because `retry_after` is a whole number of
seconds and the clock is not. `allowed` (every call let in) and `retryAt` (what a
refused client was told) are history.

A login takes one slot of `attempts` from the limiter to its answer: `Authenticate`
reads the user, `RecordLogin` commits `last_login_at`, `LoginCommit` the audit
entry, after which the tokens are issued; `LoginFailed` commits the entry of a
failure before the exception reaches `get_session`. The entries (`login_failed`,
`login`) are counted by `ip_address`, the key of the limiter, and `logged_in` are
the users the entries of `login` name. `tokens` are those that some
client holds, whoever it is, and `Expire` takes one away at any moment, because
their clock is not the limiter's. `Call` is `get_current_user` in front of any other
handler, which runs on (`serving`) without another look.

### Connections

A handler is reduced to its *script*: `open` (the first statement of a transaction
takes a connection), `lock` (an UPDATE), `commit` (gives both back), `cv` (the call
of the service) and `close`. A conditional UPDATE is two scripts (`MayLock`). The
order of the locks follows from the code and from two facts about SQLAlchemy:
reading an order with a changed act in the session flushes the act (`submit_act`,
first transaction), and one flush writes `work_orders` before `acts`, because
`acts` refers to it (all others). `Stuck(R)` is a set of requests each of which waits
for members of the set only; `RowCycle` is the part of it PostgreSQL can see, and
`Victim` what it does about it. A request that waits for the pool ends with
`PoolTimeout`.

### Field

The page's state (`screen`, `order`, `draft`, `result`, `button`, `gps`) is `_fieldState`
and what is drawn of it. A tap starts a call of `openOrder` (`opens`), which goes on
in `openChecklist`; `Send` starts a call of `submitAct` (`sends`). Between two answers
they are at one `at`, and any other function may run. The requests that write are
those of `ActLifecycle` in its slots, and `Answers` hands their end to the call that
waits; queries are answered in the same step. `OpenLost` and `SendLost` are answers
that never come: the function ends, the request goes on. `mine` are the acts of
the user for an order, oldest first, which the query of `openChecklist` sorts.
`hurried` is history: an order was tapped while something was under way.

### CvService and PhotoCheck

A detector is down, cold (the warm-up failed and the start went on) or warm. An
image is whole, truncated (good header, missing data) or garbage. `infer` is the
set of codes the service may answer, `ClientInfer` the outcomes of
`CVClient.infer`, which may always be "unavailable".

An upload writes the file (`Write`), then commits the row (`Store`), and may die
around either (`UploadDies`); a draft may come with keys whose rows have neither
hash nor file (`Name`). A check loads the rows, reads one file at a time
(`Read`), and either goes on (`Answered`), gives up at the first photo that is
rejected or not answered (`Abandon`), or returns its summary (`Finish`).

### AnomalyDetector

One reading an hour, kept by its age; `late` asks for detection a little after the
hour, so that both inclusions at the borders of the windows are covered. Means
are exact and compared by cross-multiplication. `Sum` counts the pairs of an hour and
a percent its value reaches, because the fold of the library is out of the
prover's reach. `Seeded` takes the generated values
at their mean: the generator draws each from its whole range.

### Ratings

`recalc` is a recalculation between its queries: `RecalcOrders` counts the orders,
`RecalcCompleted` loads the accepted acts, `RecalcCommit` counts the rejected ones
and stores the result. `Request` is any step of `ActLifecycle`. A score is a
function of the verdict of the act, so the scores are summed by verdict;
arithmetic is exact, in hundredths.

### Readers

`reading` is an answer between its queries: `DetailAct`, `DetailResponses` and
`DetailOrder` of `get_act_detail`, `SummaryTotal` to `SummaryRejected` of `summary`. The
session keeps the act it read first. A read and a recalculation share nothing but
tables that both only read, so one bound counts both. Photos and the counts that
no property relates (orders, acts of the last month) are read with their
neighbours.

### Seed

A call looks for the rows of a step (`Look`) and commits what it did not find
(`Store`); rows that another call committed in between make it fail (`Conflict`),
but for telemetry, which has no unique column. The number of an order holds the UTC
day (`seed.py:680`), so `work_orders` is kept by day, calls conflict only within
one, and `Midnight` may come between any two steps; whether there are orders at
all (`SeededAlready`) is asked of every day.

`listed` remembers whether `seed_users` returned the users of the contractors, which
it does when it has just added them. For those `make_act` writes acts, and comes to
`hashlib.sha256` (`seed.py:881`) in a module that does not import `hashlib`: the step
raises NameError and is rolled back (`Raises`; `Die` is what follows). So the first
call of the seed is answered 500; the next one finds the users, gets none listed,
`make_act` returns at once, and its 22 orders are committed as they were created.
No reachable state has an act of the seed.

## The runs

| Run | Result | Shows |
|---|---|---|
| `ActConcurrent` | holds | two requests interleave on one order and two acts, one may die: sessions stay valid, no more acts are stuck in SUBMITTED than requests died, and accepted acts and outcomes have their verdict |
| `ActApart` | holds | two interleaved requests, never two for the same order (`CONSTRAINT Apart`), on two orders and two acts, while managers write the statuses acts produce (`ByHand`) and one request may die: tables, audit trail and verdicts are consistent; the orders implement `OrderBoard` |
| `ActLive` | holds | two interleaved requests that do not die decide every submitted act |
| `ActReviewDelayed` | violated | an act that failed its check cannot be reviewed |
| `RuleVerdict` | holds | a score is a fraction of one; a correction never costs the confirmation; the geo rule decides checklists of up to six required rows |
| `LoginCalls` | holds | no window holds more calls than allowed; a client that comes back when told is served unless another call of its address got in first; every attempt is in the audit trail; a deactivated user gets no token and is served no request |
| `PoolAndLocks` | holds | requests that wait for each other form a cycle of rows, which PostgreSQL sees, and only with a submit in it; every request ends |
| `FieldWork` | holds | one draft per order, and act and order shown together, unless the user taps before the last call is over |
| `PhotoUploads` | holds | the row of an upload has its file; the counts of a check are those of the answers; every check ends |
| `AnomalyWindows` | holds | a halved rate is reported for as long as it is new, noise is not, and alarms clear |
| `RatingQueries` | holds | a rating counts what was and still is accepted, and stays on its scale when no order is done twice; a detail shows a verdict with the responses it is about; the figures of the summary add up; while managers write no outcome by hand, orders are backed by their acts. Requests come one at a time between the queries |
| `SeedCalls` | holds | a call that was answered leaves the rows with a unique column, telemetry and all the orders of a call; the orders of a day are those of one call; telemetry is copied only by calls that overlap. Nothing is said of acts, of which there are none |

Bounds. Two slots are enough for a lost update, a repeated submit and a review
that overtakes a submit; a third request adds no new pair of conflicting
statements. Two acts of one order, and two orders where requests are kept apart,
let the acts disagree about the order and the orders about nothing. `ActConcurrent`
has one batch of responses, so one act at a time has any; `ActApart` and
`RatingQueries` have two, and two acts that pass. One death is enough to
separate the two commits. Batches are interchangeable, so are acts, slots and
contractors and orders (symmetry sets; none is used in the runs with a liveness
property). The proofs lift the bounds for every safety property of every run that
is expected to hold.

The limiter is checked with two calls in two seconds of three ticks over eleven
ticks, which leaves room for a full window, its expiry and a second one; one
address and two attempts at a time, because addresses share nothing. Three
requests, one act and two connections let two requests wait for each other's rows
while the third waits for the pool, and let the pool run dry under two submits;
every script locks at most an act and the order of that act, so a cycle has the
order in it and one act of its, whatever other acts there are. The page has two orders and two taps, so one opening can overlap or follow
another; one answer lost, request of somebody else or request that dies
(`MaxTrouble`). An act that is sent carries no responses there (`Batches = {}`): its
check fails, the reworked order is opened again, and what the responses are does
not matter to the page. The detector has its real windows and two changes of the equipment: one that starts an
anomaly and one that ends it or turns it into a gap. Two photos let one be
answered or lost and the other end the check. `RuleVerdict` has two required steps
and two rows of each, as concurrent submits leave them: with four rows the geo rule
still decides. `RatingQueries` has one slot, because two that are kept apart take
longer than five minutes to check; its theorems cover them. Two acts on two orders are the least
with which a rating sees a rework, and one on each order. Three calls of the seed
are one more than can conflict, and one midnight (`LastDay`) puts two of them on
different days.

Fairness. `FairSpec` asks only that an accepted request goes on: the event loop
resumes a task whose await is answered, the database answers, and `cv_client`
bounds its calls by a timeout. No client is forced to send a request. Deaths are
excluded there, because a request that dies does leave its act SUBMITTED:
`SubmittedIsBeingChecked` allows one such act for each death and no other.

`PhotoUploads` asks the same of a check: reading a file ends, and so does a call of
the service, by the timeout of the client. Nothing is asked of the service.
`AnomalyWindows` asks only that hours pass.

`PoolAndLocks` asks that a request that can go on does (the event loop and the
database answer, the CV client has a timeout), that one that waits for a
connection gets it or is timed out (`pool_timeout` of SQLAlchemy), and, strongly,
that one that waits for a row gets its turn: PostgreSQL queues the waiters of a
row. A cycle ends because it aborts one of its transactions.

### Statements that do not hold

The violated property of `ActReviewDelayed` is a statement of the repository, quoted in
`PROJECT.json`. The modules state twelve more, under
"What the repository says of it" (in `ActProperties` under "Stated by the
repository") or beside what does hold. They are in no run; each is refuted as soon as it is added to
the named configuration:

| Property | Add it to | Said at | The code |
|---|---|---|---|
| `SignedResponsesAreImmutable` | `ActApart` | `models/act.py:141` | a second submit of a SUBMITTED act replaces its responses (`acts.py:201`) |
| `OrderFollowsTable` | `ActConcurrent` | `models/order.py:43-44` | two sessions that loaded the same order both pass the check of the table and the later commit skips states (`orders.py:128`) |
| `ReviewCanReject` | `ActConcurrent` | `models/order.py:3-5`, `README.md:316` | no entry of the order table leads to REJECTED, so the decision "reject" of a review is always answered 400 (`acts.py:462-466`) |
| `RequiredItemsHold` | `RuleVerdict` | `rules.py:4` | a required step without a response is not seen, one answered "not passed" only lowers the score (`rules.py:52`) |
| `DraftOnlyIfNone` | `FieldWork` | `frontend/index.html:2465` | a second tap while the first is answered finds no draft either (`index.html:2466`) |
| `CvIsNotDecisive` | `RuleVerdict` | `rules.py:165` | the weight of the CV run lifts a quotient below 0.8 to it |
| `ScoreDecides` | `RuleVerdict` | `README.md:345` | the double quotient of an act that scores 0.8 may be 0.7999999999999999 (`rules.py:190`) |
| `UnavailableSkipsTheStep` | `PhotoUploads` | `rules.py:200` | a check that can read no file makes no request and counts as run (`rules.py:246`) |
| `ReadyIsWarm` | `PhotoUploads` | `cv-service/app/main.py:117` | `/readyz` answers 200 after a failed warm-up |
| `BrokenImageIs400` | `PhotoUploads` | `detectors/yolo.py:5` | only `Image.open` is guarded, which reads the header (`yolo.py:62`) |
| `SeededIsFound` | `AnomalyWindows`, with `Values = {30, 50, 100, 150}` and `MaxChanges = 0` | `seed.py:569` | the anomaly fills most of its own baseline (`seed.py:613`) |
| `RatingOnScale` | `RatingQueries` | `seed.py:472` | an order that is its contractor's only one and was accepted twice gives a rating of 140 (`seed.py:523`) |

Three more fail without a property of their own. The docstring of
`seed_work_orders_and_acts` (`seed.py:652-657`) and `README.md:307` announce acts in
several statuses: `Seed` has no step that writes one, because of `Raises`. The first
call of the seed is meant to be answered: with a database that is empty `Raises`
holds when it comes to the orders. And a set of orders is seeded once only within
a day: `\A d, e \in Days : SeededOn(d) /\ SeededOn(e) => d = e` fails in `SeedCalls` by
two calls that looked on the two sides of a midnight.

## The proofs

`ActProofs` proves for all sets of orders, acts, users, batches and slots, and for
every number of deaths:

| Theorem | States |
|---|---|
| `SessionsAlwaysValid` | `[]SessionsStayValid`, the inductive invariant |
| `TypeCorrect` | `[]TypeOK`, a conjunct of `SessionsStayValid` |
| `ConfirmedAccounted` | an accepted act names its reviewer and has a verdict |
| `OutcomesAreBacked` | an order shows an outcome only with a checked act, if managers write none by hand |
| `SubmittedChecked` | no more acts are SUBMITTED and not being decided than requests died |

The properties of the tables are not inductive: a session writes later what it
decided on an older row. `SessionsStayValid` adds what an accepted request may
rely on until it ends, whoever commits meanwhile: its rows exist and keep their
order; if it will leave `confirmed_by` or `auto_check_passed` alone because they
already had the value it would write, they are still not NULL; a review that asks
for CONFIRMED found a verdict. `ActsKeep` is what a commit owes to the other
sessions, and `RequestStep` puts the two together: a request that moves on
replaces its own session, and the others stay valid because the acts keep what
they rely on. Each handler then has one lemma. The assumptions are those of
`ActLifecycle`: the two nulls are no values of a column, there is a reviewer, and
the bounds have their types; the count of stuck acts needs finitely many acts
(`ActAssumption`).

Its second part proves what holds as long as no two requests in flight are for the
same order: each theorem has the form `Spec /\ []Apart => ...`, for any number of
slots. One request at a time is a case of it.

| Theorem | States, if `[]Apart` |
|---|---|
| `AuditIsExact` | `[]AuditTellsStatus` |
| `AcceptanceIsEarned` | `[]ConfirmedIsEarned` |
| `VerdictMatchesResponses` | `[]VerdictIsAboutResponses` |
| `ActsFollowTheirTable` | `ActFollowsTable` |
| `OrdersImplementBoard` | `OrderBoardSpec`: the orders implement `OrderBoard` |
| `OrdersAreBacked` | `[]OrderBackedByAct`, if managers write no status that acts produce |

`Apart` is what these properties need and the code does not enforce: with two
requests for one order each of them is violated, because the row a request decided
on may have changed when it commits. `ApartInv` says what a request may rely on: the
transition it has decided on is still in the table from the status the row has
(`SessionIsCurrent`), and what a checked or accepted act owes to its verdict and its
order (`ActIsEarned`). A request that only loads disturbs no other (`OneSession`); one
that commits changes an order, and its acts, that no other request is about
(`CommitKeepsCurrent`). For the refinement each commit is mapped to the step of the board
on its order; the status it writes is in the table because the session is
current, and a commit that writes no status is a stutter. `OrdersAreBacked` is then
inductive: an order and the act that backs it stay, or move together.

`LoginProofs` proves for every limit, every window and every number of keys, users
and concurrent logins:

| Theorem | States |
|---|---|
| `LimiterTypeCorrect`, `LoginTypeCorrect` | `[]TypeOK`: no bucket is longer than the limit; `[]LoginTypeOK` |
| `LimiterKeepsTheWindow`, `LoginsKeepTheWindow` | `[]WindowIsRespected`, of `Spec` and of `LoginSpec` |
| `LimiterKeepsItsPromise`, `LoginsKeepTheirPromise` | `BackInTimeIsServed`, of `Spec` and of `LoginSpec` |
| `LoginUsesTheLimiter` | `LoginSpec => Spec` |
| `EveryAttemptIsAudited` | `[]AttemptsAreAudited` |
| `DeactivationIsKept` | `DeactivatedGetsNothing` |

`WindowIsRespected` speaks of `allowed`, which the code does not have. The invariant
ties the two: the bucket of a key is the tail of its `allowed`, and every call dropped
from it is older than a window, so the calls of any window are in one bucket at the
time of the last of them. For the promise it adds that a client that waits
found the bucket full, and that what it was told lies after the oldest call's
expiry. The limit is positive and the parameters are natural numbers; nothing
else is assumed of the limiter. Every step of the logins is one of the limiter or
none, so its theorems hold behind them. The audit is a count: a login that begins
adds one to the calls let in and one to those in flight, and one that ends moves
from there to the entries or to those that died; this needs that the slots are
finitely many. Deactivation rests on an invariant about tokens (who holds one is
named in an entry, `TokensAreEarned`).

`PhotoProofs` proves for any finite set of photos:

| Theorem | States |
|---|---|
| `RowsHaveTheirFiles` | `[]RowHasItsFile` |
| `PhotoTypeCorrect` | `[]TypeOK` |
| `CountsAreAnswers` | `[]CheckedWereAnswered` |

The first follows from the order of the two writes of an upload (`UploadInOrder`: no
row names a file before the file is whole). The counts from a
partition (`Counted`): the photos a check has found are to be read, being asked
about, answered, or have failed, and they add up to the total.

`SeedProofs` proves for any finite set of calls and any number of days:

| Theorem | States |
|---|---|
| `SeedTypeCorrect` | `[]TypeOK`: no more copies of the telemetry than calls |
| `SeedsOnce` | `SeededOnce` |
| `AnswersAreComplete` | `[]AnsweredIsComplete` |

The orders change in one transaction only, which writes all those of a call on a day
that has none, or fails (`OneBoard`, `OrdersStayWhole`). Every step a call has behind
it is in place, whichever call put it there (`StepsInPlace`), and what is committed
only grows. A copy of the telemetry is announced by a call that found none
(`Adders`); once there is one no call is added to these, so the copies and the
announced ones are never more than the calls (`CopiesBounded`).

`RuleProofs` proves for every checklist, whichever steps are required or have a norm:

| Theorem | States |
|---|---|
| `RuleTypeCorrect` | `[]TypeOK`: the stored score is a fraction of one |
| `ShortChecklistsNeedTheRadius` | `[]GeoDecidesShortChecklists` |
| `CorrectionsNeverHurt` | `CorrectionNeverHurts` |

The argument separates what passed from what is *lost* (`Lost`: rows that were
answered and did not pass, rules that were applied and not held), which together
are the total. A correction adds to the first and takes from the second
(`BetterWeighsMore`, `WeightGrows`), so the exact threshold is met again
(`MarginGrows`). The double quotients of `FallsShort` meet it exactly, 60 of 75; then
nothing that counts has changed, and the act fell short before the correction too
(`SameWeightsFallShort`). No induction is needed because rows are counted as a set
and the five rules are summed one by one. That `FallsShort` is complete is
not proved but enumerated, which is why `FewRows` is assumed.

`ClientProofs` proves of the page, for any number of orders, acts, taps, calls and lost answers:

| Theorem | States |
|---|---|
| `PageUsesTheApi` | `FieldSpec => Spec` of `ActLifecycle` |
| `PageTypeCorrect` | `[]FieldTypeOK` |
| `PageMakesOneDraft` | `[]OneDraft` |
| `PageShowsTogether` | `[]ShownTogether` |

`FieldInv` has a part that holds however the user taps (what is shown and sent are
rows that exist) and one that holds until he hurries: a call of `openOrder` under way
is alone (`OpensAlone`), and the newest act of an order it is about to make a draft
for is no draft. It uses of the server only that no act disappears, changes
its order or becomes a draft again, whoever else writes (`ActsStay`).

Its second part proves of answers and ratings, for any finite sets of orders and
acts:

| Theorem | States |
|---|---|
| `ReadersOnlyRead` | `ReaderSpec => Spec` of `ActLifecycle`, with any number of slots |
| `ReaderTypeCorrect` | `[]ReaderTypeOK` |
| `DetailsAreConsistent` | `DetailTellsVerdict`, if `[]Apart` |
| `SummariesAddUp` | `SummaryAddsUp`, if `[]Apart` |
| `RatingsCountAccepted` | `CountsAccepted`, if `[]Apart` |
| `RatingsStayOnScale` | `ScaleHoldsWithoutRework` |

Requests run between the queries. Two theorems hold however these overlap, because
no act is ever rejected (`NothingRejected`: the order table refuses every such
review), so that what a rating subtracts is zero. The other three need `Apart`:
with two submits of one act a detail does show other responses, and an accepted act
may be overwritten between two counts. While requests are apart some sets of
statuses are never left: an accepted act stays accepted, a decided one keeps its
responses and its verdict, one that was submitted stays so (`ActsSettle`).
So what a first query has seen holds still at the last. For the
scale, acts of orders without a second act map one to one to their orders, which
bounds the accepted and the rejected together by the total.

`ConnectionsProofs` proves for any number of requests, orders, acts and users, and
any size of the pool (at least one connection):

| Theorem | States |
|---|---|
| `TypesHold` | `[]TypeOK`: no more connections are lent than the pool may open |
| `DeadlocksSeen` | `[]DeadlocksAreSeen` |
| `SubmitIsNeeded` | `[]DeadlocksNeedASubmit` |

The scripts are first shown to be *proper* (`ScriptsAreProper`): statements are made
with a connection, and one is asked for when none is held. Then `Inv` is inductive:
what is left of a script is proper, a request is connected exactly while it has
statements to make, and the owner of a row is connected. So nobody waits for the
pool with a row, and in a set of requests that wait for each other those that wait
for rows are a cycle of their own (`RowsCloseCycles`). For the order of the locks
`PlannedInv` adds that a request owns and locks rows of one target (an act and its
order, or one row), and that once it owns the act, each order it has yet to lock is
locked in a later transaction, or the check is still to come (`Excused`). In a cycle
each request owns one row of its target and waits for the other, so two steps
along it meet one that owns the act and waits for the order
(`CycleRequests`); that one is a submit in its first transaction.

`AnomalyProofs` proves of every history the detector may see:

| Theorem | States |
|---|---|
| `NoiseStaysQuiet` | `[]NoiseIsQuiet`, for windows of any length and any number of points required |
| `HalvingIsReported` | `[]HalvedRateIsReported`, for the windows of the code (`TheCodesWindows`) |

A sum of values that lie between two bounds lies between the bounds times their
number (`SumIsBetween`), and the sum over two disjoint sets of hours is the sum of
theirs (`SumAdds`); both are facts about cardinalities because `Sum` counts pairs. Two
sums of noise, brought to a common number of values, differ by no more than a tenth
of the nominal value, which none of the thresholds allows for. A halved rate leaves
at most one of the two windows with both rates in it, and the inequality is linear
in the hour of the fall.

Only model-checked: liveness (`SubmittedIsAlwaysDecided`, `RequestsEnd`, `CheckEnds`,
`AlarmsClear`), which is out of the prover's reach, and the run that is expected to be
violated.

## What is left, in the order planned

1. The ratings of several contractors in one recalculation, and two recalculations
   at once.
2. The photos of the page, and its manager's view.

Left out for good: endpoints that answer from one query (what they may see is what
a query of `Readers` may), logging, the rest of the configuration, rendering, roles,
the YOLO inference, the scripts, which are clients run by hand, and the SCADA
interface, which has no implementation. `scripts/demo.py` runs into two of the
behaviours above: it submits an act of an order that nobody started, which the
order's table refuses, and reviews an act that failed its check
(`DelayedActCanBeReviewed`).
