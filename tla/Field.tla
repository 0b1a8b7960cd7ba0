------------------------------- MODULE Field -------------------------------
(***************************************************************************)
(* The contractor's page (frontend/index.html, "field" view) on top of the *)
(* requests of ActLifecycle: open an order, take it to work, find or make  *)
(* the draft, send it.                                                     *)
(*                                                                         *)
(* The page is one event loop.  Its asynchronous functions run between the *)
(* answers they await and share _fieldState; nothing stops the user from   *)
(* tapping a second order while the first is being opened, or from leaving *)
(* a checklist that is being sent.  An answer may be lost: the function    *)
(* ends with an error, the server goes on.  Reads are answered at once.    *)
(***************************************************************************)
EXTENDS ActLifecycle, Sequences, FiniteSets

CONSTANTS
    Me,             \* the contractor whose user has the page open
    Taps,           \* calls of openOrder that can be under way at once
    Sends,          \* calls of submitAct that can be under way at once
    MaxTaps,        \* bound: orders tapped
    MaxTrouble      \* bound: answers lost, requests that die, requests of
                    \* everybody else

ASSUME FieldAssumption ==
    /\ Me \in Contractors
    /\ None \notin Slots
    /\ MaxTaps \in Nat /\ MaxTrouble \in Nat

VARIABLES
    screen,         \* what the page shows
    order,          \* _fieldState.order
    draft,          \* _fieldState.draft
    result,         \* the act of _fieldState.lastResult
    button,         \* the submit button shown is enabled
    gps,            \* a position has been asked for
    opens,          \* the calls of openOrder and openChecklist
    sends,          \* the calls of submitAct
    mine,           \* the acts the user has created for an order, in order
    hurried,        \* history: an order was tapped while the page, or the
                    \* server on its behalf, had something else under way
    taps, trouble

page == <<screen, order, draft, result, button, gps>>
counts == <<taps, trouble>>
fieldVars == <<vars, page, opens, sends, mine, hurried, counts>>

\* late: the page has given up, the request to create a draft is still on its
\* way.
OpenStage == {"idle", "get", "start", "starting", "started", "list", "create",
              "created", "late"}

OpenCall == [at : OpenStage, order : Orders \cup {None},
             act : Acts \cup {None}, slot : Slots \cup {None}]
SendCall == [at : {"idle", "sent", "answered"}, act : Acts \cup {None},
             slot : Slots \cup {None}]

NoOpen == [at |-> "idle", order |-> None, act |-> None, slot |-> None]
NoSend == [at |-> "idle", act |-> None, slot |-> None]

\* Statuses that openOrder shows a checklist for.
Openable == {"in_progress", "rejected", "delayed_verification"}

Outstanding ==
    \/ gps
    \/ \E k \in Taps : opens[k].at # "idle"
    \/ \E j \in Sends : sends[j].at # "idle"

Troubled == trouble < MaxTrouble /\ trouble' = trouble + 1

FieldTypeOK ==
    /\ screen \in {"list", "checklist", "result"}
    /\ order \in Orders \cup {None}
    /\ draft \in Acts \cup {None}
    /\ result \in Acts \cup {None}
    /\ button \in BOOLEAN /\ gps \in BOOLEAN /\ hurried \in BOOLEAN
    /\ opens \in [Taps -> OpenCall]
    /\ sends \in [Sends -> SendCall]
    /\ mine \in [Orders -> Seq(Acts)]

FieldInit ==
    /\ Init
    /\ screen = "list" /\ order = None /\ draft = None /\ result = None
    /\ button = FALSE /\ gps = FALSE /\ hurried = FALSE
    /\ opens = [k \in Taps |-> NoOpen]
    /\ sends = [j \in Sends |-> NoSend]
    /\ mine = [o \in Orders |-> <<>>]
    /\ taps = 0 /\ trouble = 0

-----------------------------------------------------------------------------
(* openOrder *)

OpenAt(k, stage) == opens' = [opens EXCEPT ![k].at = stage]
OpenEnds(k) == opens' = [opens EXCEPT ![k] = NoOpen]

Tap(k, o) ==
    /\ screen = "list"
    /\ opens[k].at = "idle"
    /\ Exists(o)
    /\ taps < MaxTaps
    /\ taps' = taps + 1
    /\ hurried' = (hurried \/ Outstanding)
    /\ opens' = [opens EXCEPT ![k] = [NoOpen EXCEPT !.at = "get", !.order = o]]
    /\ UNCHANGED <<vars, page, sends, mine, trouble>>

\* GET /orders/{id}: 403 for the order of somebody else.  The answer goes to
\* _fieldState, whoever else has put an order there.
GetAnswered(k) ==
    LET o == opens[k].order
        status == orders[o].status
    IN  /\ opens[k].at = "get"
        /\ IF orders[o].contractor # Me
             THEN OpenEnds(k) /\ UNCHANGED order
             ELSE /\ order' = o
                  /\ \/ status = "assigned" /\ OpenAt(k, "start")
                     \/ status \in Openable /\ OpenAt(k, "list")
                     \* Another status, or the user does not take it to work.
                     \/ status \notin Openable /\ OpenEnds(k)
        /\ UNCHANGED <<vars, screen, draft, result, button, gps, sends, mine,
                       hurried, counts>>

\* POST /orders/{id}/start
StartSent(k, s) ==
    /\ opens[k].at = "start"
    /\ StartLoad(s, opens[k].order, Me)
    /\ opens' = [opens EXCEPT ![k].at = "starting", ![k].slot = s]
    /\ UNCHANGED <<page, sends, mine, hurried, counts>>

StartRefused(k) ==
    LET o == opens[k].order
    IN  /\ opens[k].at = "start"
        /\ \/ orders[o].contractor # Me
           \/ ~can_transition(orders[o].status, "in_progress")
        /\ OpenEnds(k)
        /\ UNCHANGED <<vars, page, sends, mine, hurried, counts>>

\* The answer is the row as it was read again after the commit.
StartAnswered(k) ==
    LET o == opens[k].order
    IN  /\ opens[k].at = "started"
        /\ order' = o
        /\ IF orders[o].status \in Openable THEN OpenAt(k, "list")
                                            ELSE OpenEnds(k)
        /\ UNCHANGED <<vars, screen, draft, result, button, gps, sends, mine,
                       hurried, counts>>

-----------------------------------------------------------------------------
(* openChecklist *)

\* Mutated: a draft that the page already has is kept.
ShowCached(a) ==
    /\ draft' = IF draft = None THEN a ELSE draft
    /\ screen' = "checklist"
    /\ button' = TRUE
    /\ UNCHANGED <<order, result, gps>>

\* fieldGo("checklist"); the position is forgotten, not the request for it.
Show(a) ==
    /\ draft' = a
    /\ screen' = "checklist"
    /\ button' = TRUE
    /\ UNCHANGED <<order, result, gps>>

\* Mutated: the draft is looked for under another status.
NothingFound(o, a) == FALSE

\* GET /acts?work_order_id&limit=1: the newest act of the user.
Found(o, a) == mine[o] # <<>> /\ a = mine[o][Len(mine[o])]

\* It is reused if it is a draft.
ActsListed(k) ==
    LET o == opens[k].order
        found == {a \in Acts : Found(o, a) /\ acts[a].status = "draft"}
    IN  /\ opens[k].at = "list"
        /\ \/ \E a \in found : Show(a) /\ OpenEnds(k)
           \/ found = {} /\ OpenAt(k, "create") /\ UNCHANGED page
        /\ UNCHANGED <<vars, sends, mine, hurried, counts>>

\* POST /acts, also when nobody waits for it any more.
DraftCreated(k, a) ==
    /\ opens[k].at \in {"create", "late"}
    /\ CreateDraftAct(a, opens[k].order, {})
    /\ mine' = [mine EXCEPT ![opens[k].order] = Append(@, a)]
    /\ opens' = [opens EXCEPT
                   ![k] = IF opens[k].at = "late" THEN NoOpen
                          ELSE [@ EXCEPT !.at = "created", !.act = a]]
    /\ UNCHANGED <<page, sends, hurried, counts>>

DraftAnswered(k) ==
    /\ opens[k].at = "created"
    /\ Show(opens[k].act)
    /\ OpenEnds(k)
    /\ UNCHANGED <<vars, sends, mine, hurried, counts>>

\* fetch rejects: a toast at most, and the user is where he was.
OpenLost(k) ==
    /\ opens[k].at \notin {"idle", "late"}
    /\ Troubled
    /\ IF opens[k].at = "create" THEN OpenAt(k, "late") ELSE OpenEnds(k)
    /\ UNCHANGED <<vars, page, sends, mine, hurried, taps>>

-----------------------------------------------------------------------------
(* The checklist *)

AskGps ==
    /\ screen = "checklist" /\ ~gps
    /\ gps' = TRUE
    /\ UNCHANGED <<vars, screen, order, draft, result, button, opens, sends,
                   mine, hurried, counts>>

\* A fix draws the checklist anew, whatever is shown, with a new button.
GpsAnswered ==
    /\ gps
    /\ gps' = FALSE
    /\ \/ screen' = "checklist" /\ button' = TRUE
       \/ UNCHANGED <<screen, button>>       \* no fix
    /\ UNCHANGED <<vars, order, draft, result, opens, sends, mine, hurried,
                   counts>>

\* fieldGo("list"): the list is drawn when its answers have come, over whatever is
\* shown by then; until that the old screen can be used.
Back ==
    /\ screen # "list"
    /\ screen' = "list"
    /\ UNCHANGED <<vars, order, draft, result, button, gps, opens, sends,
                   mine, hurried, counts>>

\* submitAct: POST /acts/{id}/submit.  A refusal at once changes nothing.
Send(j, s, batch) ==
    /\ screen = "checklist" /\ button
    /\ sends[j].at = "idle"
    /\ SubmitLoad(s, draft, batch)
    /\ sends' = [sends EXCEPT ![j] = [at |-> "sent", act |-> draft, slot |-> s]]
    /\ button' = FALSE
    /\ UNCHANGED <<screen, order, draft, result, gps, opens, mine, hurried,
                   counts>>

SendAnswered(j) ==
    /\ sends[j].at = "answered"
    /\ result' = sends[j].act
    /\ screen' = "result"
    /\ sends' = [sends EXCEPT ![j] = NoSend]
    /\ UNCHANGED <<vars, order, draft, button, gps, opens, mine, hurried,
                   counts>>

\* The button is enabled again: the same act can be sent a second time while
\* the first request is still served.
SendLost(j) ==
    /\ sends[j].at # "idle"
    /\ Troubled
    /\ sends' = [sends EXCEPT ![j] = NoSend]
    /\ button' = TRUE
    /\ UNCHANGED <<vars, screen, order, draft, result, gps, opens, mine,
                   hurried, taps>>

-----------------------------------------------------------------------------
(* The server *)

Finishes(s) == slots[s].at # "idle" /\ slots'[s].at = "idle"

\* A request of the page that ends is answered, with an error if it rolled
\* back: the order is not opened, the button of the checklist is enabled.
Answers(s, ok) ==
    /\ opens' = [k \in Taps |->
                   IF opens[k].slot # s \/ ~Finishes(s) THEN opens[k]
                   ELSE IF ok THEN [opens[k] EXCEPT !.at = "started",
                                                    !.slot = None]
                   ELSE NoOpen]
    /\ sends' = [j \in Sends |->
                   IF sends[j].slot # s \/ ~Finishes(s) THEN sends[j]
                   ELSE IF ok THEN [sends[j] EXCEPT !.at = "answered",
                                                    !.slot = None]
                   ELSE NoSend]
    /\ button' = (button \/ \E j \in Sends : sends[j].slot = s
                                               /\ Finishes(s) /\ ~ok)
    /\ UNCHANGED <<screen, order, draft, result, gps, mine, hurried, taps>>

\* Refuse ends a request where no other step of Serve does.
Served(s) ==
    /\ Serve(s)
    /\ Answers(s, slots[s].at \notin {"submit_cleared", "review_act"})
    /\ UNCHANGED trouble

Died(s) == Die(s) /\ Answers(s, FALSE) /\ Troubled

Others ==
    /\ Troubled
    /\ \/ Insert
       \/ \E s \in Slots : \/ \E o \in Orders : OrderRequest(s, o)
                           \/ \E a \in Acts : ActRequest(s, a)
    /\ UNCHANGED <<page, opens, sends, mine, hurried, taps>>

Open(k) ==
    \/ GetAnswered(k)
    \/ \E s \in Slots : StartSent(k, s)
    \/ StartRefused(k) \/ StartAnswered(k)
    \/ ActsListed(k)
    \/ \E a \in Acts : DraftCreated(k, a)
    \/ DraftAnswered(k)

FieldNext ==
    \/ \E k \in Taps : \/ \E o \in Orders : Tap(k, o)
                       \/ Open(k)
                       \/ OpenLost(k)
    \/ AskGps \/ GpsAnswered \/ Back
    \/ \E j \in Sends : \/ \E s \in Slots, batch \in Calls : Send(j, s, batch)
                        \/ SendAnswered(j)
                        \/ SendLost(j)
    \/ \E s \in Slots : Served(s) \/ Died(s)
    \/ Others

FieldSpec == FieldInit /\ [][FieldNext]_fieldVars

-----------------------------------------------------------------------------
(* Properties *)

\* index.html:2465 says that a draft is made if there is none yet.  Not so: two
\* openings that overlap both find none.
DraftOnlyIfNone ==
    \A o \in Orders :
        Cardinality({i \in 1..Len(mine[o]) :
                       acts[mine[o][i]].status = "draft"}) <= 1

\* The page looks for its draft before it makes one.  Answers that are lost,
\* orders opened again and acts that are sent twice never leave two drafts of an
\* order behind, unless the user taps before the last call is over.
OneDraft == ~hurried => DraftOnlyIfNone

\* The checklist that can be sent, and the result that is shown, belong to the
\* order named above them: _fieldState is written by functions that end in any
\* order, but only a user who taps while something is under way sees them mixed.
ShownTogether ==
    ~hurried => /\ screen = "checklist" => acts[draft].order = order
                /\ screen = "result" => acts[result].order = order
=============================================================================
