---------------------------- MODULE ClientProofs ----------------------------
(***************************************************************************)
(* Those that deal with the acts in several steps, between which other     *)
(* requests are served: the page of the contractor, whose every tap is a   *)
(* series of requests, and the answers and ratings that are put together   *)
(* from several queries.                                                   *)
(*                                                                         *)
(* The page, for every number of orders, acts, requests and calls under    *)
(* way, however many answers are lost: it does nothing the API does not    *)
(* offer, and until the user hurries it neither makes a second draft of an *)
(* order nor shows an act under another order's name.                      *)
(*                                                                         *)
(* The answers and ratings, for every number of orders and acts.  The      *)
(* queries see different moments; what makes their results fit is that     *)
(* some statuses of an act are never left.  The types and the scale of a   *)
(* rating hold however requests interleave between the queries; what a     *)
(* rating or an answer says of the verdicts needs requests in flight at    *)
(* the same time to be for different orders, which the code leaves to its  *)
(* users.                                                                  *)
(***************************************************************************)
EXTENDS Field, Readers, ActProofs, FiniteSetTheorems

-----------------------------------------------------------------------------
(* The page: the inductive invariant *)

\* An act that has been inserted for an order.
IsActOf(a, o) == a \in Acts /\ acts[a].status # Absent /\ acts[a].order = o

IsAct(a) == a \in Acts /\ acts[a].status # Absent

\* A call of openOrder knows its order, and waits for a request only while it
\* takes the order to work; the act it has created is one of the order.
OpenIsSound(p) ==
    /\ p.at # "idle" => p.order \in Orders
    /\ p.slot # None => p.at = "starting"
    /\ p.at = "created" => IsActOf(p.act, p.order)

SendIsSound(q) ==
    /\ q.at # "idle" => IsAct(q.act)
    /\ q.slot # None => q.at = "sent"

\* What holds however the user taps.
PageIsSound ==
    /\ FieldTypeOK
    /\ \A k \in Taps : OpenIsSound(opens[k])
    /\ \A j \in Sends : SendIsSound(sends[j])
    /\ draft # None => IsAct(draft)
    /\ result # None => IsAct(result)
    /\ screen = "checklist" \/ gps => draft # None
    /\ screen = "result" => result # None
    /\ \A o \in Orders :
          \A i \in 1..Len(mine[o]) : IsActOf(mine[o][i], o)

\* The newest act of an order is no draft, if there is one.
NoDraft(o) == mine[o] # <<>> => acts[mine[o][Len(mine[o])]].status # "draft"

\* A call of openOrder that is under way is alone: nothing else waits for an
\* answer, the list is shown, and _fieldState.order is the order being opened as
\* soon as its answer has come.
OpensAlone(k) ==
    /\ \A l \in Taps : opens[l].at # "idle" => l = k
    /\ \A j \in Sends : sends[j].at = "idle"
    /\ screen = "list" /\ ~gps
    /\ opens[k].at \notin {"get", "late"} => order = opens[k].order
    /\ opens[k].at \in {"create", "late"} => NoDraft(opens[k].order)

\* What holds until the user hurries.  The second part is about a screen that is
\* shown, may come back with a position, or is on its way with an answer.
PageIsCalm ==
    /\ \A k \in Taps : opens[k].at # "idle" => OpensAlone(k)
    /\ screen = "checklist" \/ gps => acts[draft].order = order
    /\ \A j \in Sends : sends[j].at # "idle" => acts[sends[j].act].order = order
    /\ screen = "result" => acts[result].order = order
    /\ \A o \in Orders :
          \A i \in 1..(Len(mine[o]) - 1) : acts[mine[o][i]].status # "draft"

FieldInv == PageIsSound /\ (~hurried => PageIsCalm)

-----------------------------------------------------------------------------
(* The page and the server *)

\* What a step of the server leaves of the acts: none disappears or changes its
\* order, and none becomes a draft again.
ActsStay ==
    \A a \in Acts :
        acts[a].status # Absent
            => /\ acts'[a].status # Absent
               /\ acts'[a].order = acts[a].order
               /\ acts[a].status # "draft" => acts'[a].status # "draft"

\* No session writes DRAFT over another status.
LEMMA NobodyAsksForDraft ==
    ASSUME SessionsStayValid, NEW s \in Slots,
           slots[s].at \in SubmitStage \cup ReviewStage,
           NEW status, status # "draft", status # Absent
    PROVE  /\ Written(status, slots[s].act_status) # "draft"
           /\ Written(status, slots[s].act_status) # Absent
<1>1. slots[s].act_status \in {"submitted", "confirmed", "rejected", Keep}
    BY Types DEF SessionWrites
<1> QED
    BY <1>1 DEF Written, Absent

\* The same of a status that is there at all.
LEMMA NobodyAsksForAbsent ==
    ASSUME SessionsStayValid, NEW s \in Slots,
           slots[s].at \in SubmitStage \cup ReviewStage,
           NEW status, status # Absent
    PROVE  Written(status, slots[s].act_status) # Absent
<1>1. slots[s].act_status \in {"submitted", "confirmed", "rejected", Keep}
    BY Types DEF SessionWrites
<1> QED
    BY <1>1 DEF Written, Absent

\* Every step of ActLifecycle leaves the acts so.
LEMMA StepLetsActsStay ==
    ASSUME SessionsStayValid, [Next]_vars
    PROVE  ActsStay
<1> SUFFICES ASSUME NEW a \in Acts, acts[a].status # Absent
             PROVE  /\ acts'[a].status # Absent
                    /\ acts'[a].order = acts[a].order
                    /\ acts[a].status # "draft" => acts'[a].status # "draft"
    BY DEF ActsStay
<1> DEFINE Stays == /\ acts'[a].status # Absent
                    /\ acts'[a].order = acts[a].order
                    /\ acts[a].status # "draft" => acts'[a].status # "draft"
<1>1. acts \in [Acts -> ActRow]
    BY DEF SessionsStayValid, TypeOK
<1>2. CASE Insert
    BY <1>1, <1>2 DEF Insert, CreateOrder, CreateDraftAct
<1>3. ASSUME NEW s \in Slots, NEW o \in Orders, OrderRequest(s, o)
      PROVE  acts' = acts
    BY <1>3 DEF OrderRequest, PatchLoad, StartLoad
<1>4. ASSUME NEW s \in Slots, NEW b \in Acts, ActRequest(s, b)
      PROVE  acts' = acts
    BY <1>4 DEF ActRequest, SubmitLoad, ReviewLoadAct
<1>5. ASSUME NEW s \in Slots, Serve(s)
      PROVE  Stays
    <2>1. CASE SubmitStore(s)
        <3>1. slots[s].at \in SubmitStage
            BY <2>1 DEF SubmitStore, SubmitStage
        <3>2. /\ Written(acts[a].status, slots[s].act_status) # Absent
              /\ acts[a].status # "draft"
                   => Written(acts[a].status, slots[s].act_status) # "draft"
            BY <3>1, NobodyAsksForDraft, NobodyAsksForAbsent
        <3> QED
            BY <1>1, <2>1, <3>2 DEF SubmitStore, ActRow
    <2>2. ASSUME NEW verdict \in Verdict, SubmitDecide(s, verdict)
          PROVE  Stays
        BY <1>1, <2>2 DEF SubmitDecide, ActRow, Absent
    <2>3. CASE ReviewCommit(s)
        <3>1. slots[s].at \in ReviewStage
            BY <2>3 DEF ReviewCommit, ReviewStage
        <3>2. /\ Written(acts[a].status, slots[s].act_status) # Absent
              /\ acts[a].status # "draft"
                   => Written(acts[a].status, slots[s].act_status) # "draft"
            BY <3>1, NobodyAsksForDraft, NobodyAsksForAbsent
        <3> QED
            BY <1>1, <2>3, <3>2 DEF ReviewCommit, ActRow
    <2>4. CASE PatchCommit(s) \/ StartCommit(s) \/ SubmitClear(s)
                 \/ SubmitFlush(s) \/ SubmitJudge(s) \/ ReviewLoadOrder(s)
                 \/ Refuse(s)
        BY <2>4 DEF PatchCommit, StartCommit, SubmitClear, SubmitFlush,
                    SubmitJudge, ReviewLoadOrder, Refuse
    <2> QED
        BY <1>5, <2>1, <2>2, <2>3, <2>4 DEF Serve
<1>6. ASSUME NEW s \in Slots, Die(s)
      PROVE  acts' = acts
    BY <1>6 DEF Die
<1>7. CASE UNCHANGED vars
    BY <1>7 DEF vars
<1> QED
    BY <1>2, <1>3, <1>4, <1>5, <1>6, <1>7 DEF Next

\* The page uses the API and nothing else: each of its steps is a step of
\* ActLifecycle, or none at all there.
LEMMA FieldStepIsAStep ==
    ASSUME PageIsSound, [FieldNext]_fieldVars
    PROVE  [Next]_vars
<1>1. ASSUME NEW k \in Taps,
             \/ \E o \in Orders : Tap(k, o)
             \/ GetAnswered(k) \/ StartRefused(k) \/ StartAnswered(k)
             \/ ActsListed(k) \/ DraftAnswered(k) \/ OpenLost(k)
      PROVE  UNCHANGED vars
    BY <1>1 DEF Tap, GetAnswered, StartRefused, StartAnswered, ActsListed,
                DraftAnswered, OpenLost
<1>2. CASE AskGps \/ GpsAnswered \/ Back
    BY <1>2 DEF AskGps, GpsAnswered, Back
<1>3. ASSUME NEW j \in Sends, SendAnswered(j) \/ SendLost(j)
      PROVE  UNCHANGED vars
    BY <1>3 DEF SendAnswered, SendLost
<1>4. ASSUME NEW k \in Taps, NEW s \in Slots, StartSent(k, s)
      PROVE  Next
    <2>1. opens[k].order \in Orders /\ StartLoad(s, opens[k].order, Me)
        BY <1>4 DEF StartSent, PageIsSound, OpenIsSound
    <2> QED
        BY <2>1, FieldAssumption DEF Next, OrderRequest
<1>5. ASSUME NEW k \in Taps, NEW a \in Acts, DraftCreated(k, a)
      PROVE  Next
    <2>1. opens[k].order \in Orders /\ CreateDraftAct(a, opens[k].order, {})
        BY <1>5 DEF DraftCreated, PageIsSound, OpenIsSound
    <2>2. {} \in Calls
        BY DEF Calls
    <2> QED
        BY <2>1, <2>2 DEF Next, Insert
<1>6. ASSUME NEW j \in Sends, NEW s \in Slots, NEW batch \in Calls,
             Send(j, s, batch)
      PROVE  Next
    <2>1. draft \in Acts /\ SubmitLoad(s, draft, batch)
        BY <1>6 DEF Send, PageIsSound, IsAct
    <2> QED
        BY <2>1 DEF Next, ActRequest
<1>7. ASSUME NEW s \in Slots, Served(s) \/ Died(s)
      PROVE  Next
    BY <1>7 DEF Served, Died, Next
<1>8. CASE Others
    BY <1>8 DEF Others, Next
<1>9. CASE UNCHANGED fieldVars
    BY <1>9 DEF fieldVars
<1> QED
    BY <1>1, <1>2, <1>3, <1>4, <1>5, <1>6, <1>7, <1>8, <1>9
       DEF FieldNext, Open

-----------------------------------------------------------------------------
(* What stays *)

\* The acts the page knows stay what they are.
LEMMA KnownActsStay ==
    ASSUME ActsStay, NEW a
    PROVE  /\ IsAct(a) => IsAct(a)' /\ acts'[a].order = acts[a].order
           /\ \A o : IsActOf(a, o) => IsActOf(a, o)'
           /\ IsAct(a) /\ acts[a].status # "draft"
                => acts'[a].status # "draft"
BY DEF ActsStay, IsAct, IsActOf

\* The indices of the acts made for an order.
LEMMA MineIsASequence ==
    ASSUME PageIsSound, NEW o \in Orders
    PROVE  /\ mine[o] \in Seq(Acts)
           /\ Len(mine[o]) \in Nat
           /\ mine[o] # <<>> => Len(mine[o]) \in 1..Len(mine[o])
           /\ \A i \in 1..(Len(mine[o]) - 1) : i \in 1..Len(mine[o])
BY DEF PageIsSound, FieldTypeOK

\* Where the page makes no act, no act becomes a draft again.
LEMMA MineStays ==
    ASSUME PageIsSound, ActsStay, UNCHANGED mine, NEW o \in Orders
    PROVE  /\ \A i \in 1..Len(mine[o]) : IsActOf(mine[o][i], o)'
           /\ NoDraft(o) => NoDraft(o)'
           /\ \A i \in 1..Len(mine[o]) :
                 acts[mine[o][i]].status # "draft"
                     => acts'[mine[o][i]].status # "draft"
<1>1. ASSUME NEW i \in 1..Len(mine[o])
      PROVE  /\ IsActOf(mine[o][i], o)'
             /\ acts[mine[o][i]].status # "draft"
                     => acts'[mine[o][i]].status # "draft"
    <2>1. IsActOf(mine[o][i], o)
        BY DEF PageIsSound
    <2> QED
        BY <2>1 DEF ActsStay, IsActOf
<1> QED
    BY <1>1, MineIsASequence DEF NoDraft

\* Nobody's call goes further, but for the answer to a request.
Settles ==
    /\ \A k \in Taps :
          \/ opens'[k] \in {opens[k], NoOpen}
          \/ /\ opens[k].at = "starting"
             /\ opens'[k] = [opens[k] EXCEPT !.at = "started", !.slot = None]
    /\ \A j \in Sends :
          \/ sends'[j] \in {sends[j], NoSend}
          \/ /\ sends[j].at = "sent"
             /\ sends'[j] = [sends[j] EXCEPT !.at = "answered", !.slot = None]

\* A call that is under way after such a step was under way before.
LEMMA SettledOpen ==
    ASSUME PageIsSound, Settles, NEW k \in Taps, opens'[k].at # "idle"
    PROVE  /\ opens[k].at # "idle" /\ opens'[k].order = opens[k].order
           /\ \/ opens'[k].at = opens[k].at
              \/ opens[k].at = "starting" /\ opens'[k].at = "started"
<1>1. opens[k] \in OpenCall
    BY DEF PageIsSound, FieldTypeOK
<1>2. opens'[k] # NoOpen
    BY DEF NoOpen
<1> QED
    BY <1>1, <1>2 DEF Settles, OpenCall

\* The same of a submit.
LEMMA SettledSend ==
    ASSUME PageIsSound, Settles, NEW j \in Sends, sends'[j].at # "idle"
    PROVE  sends[j].at # "idle" /\ sends'[j].act = sends[j].act
<1>1. sends[j] \in SendCall
    BY DEF PageIsSound, FieldTypeOK
<1>2. sends'[j] # NoSend
    BY DEF NoSend
<1> QED
    BY <1>1, <1>2 DEF Settles, SendCall

\* A step that only settles calls keeps what is known of them.
LEMMA SettledCalls ==
    ASSUME PageIsSound, ActsStay, Settles
    PROVE  /\ \A k \in Taps : OpenIsSound(opens[k])'
           /\ \A j \in Sends : SendIsSound(sends[j])'
<1>1. ASSUME NEW k \in Taps
      PROVE  OpenIsSound(opens[k])'
    <2>1. OpenIsSound(opens[k]) /\ opens[k] \in OpenCall
        BY DEF PageIsSound, FieldTypeOK
    <2>2. CASE opens'[k] = opens[k]
        BY <2>1, <2>2, KnownActsStay DEF OpenIsSound
    <2>3. CASE opens'[k] = NoOpen
        BY <2>3 DEF OpenIsSound, NoOpen
    <2>4. CASE /\ opens[k].at = "starting"
               /\ opens'[k] = [opens[k] EXCEPT !.at = "started",
                                               !.slot = None]
        BY <2>1, <2>4 DEF OpenIsSound, OpenCall
    <2> QED
        BY <2>2, <2>3, <2>4 DEF Settles
<1>2. ASSUME NEW j \in Sends
      PROVE  SendIsSound(sends[j])'
    <2>1. SendIsSound(sends[j]) /\ sends[j] \in SendCall
        BY DEF PageIsSound, FieldTypeOK
    <2>2. CASE sends'[j] = sends[j]
        BY <2>1, <2>2, KnownActsStay DEF SendIsSound
    <2>3. CASE sends'[j] = NoSend
        BY <2>3 DEF SendIsSound, NoSend
    <2>4. CASE /\ sends[j].at = "sent"
               /\ sends'[j] = [sends[j] EXCEPT !.at = "answered",
                                               !.slot = None]
        BY <2>1, <2>4, KnownActsStay DEF SendIsSound, SendCall
    <2> QED
        BY <2>2, <2>3, <2>4 DEF Settles
<1> QED
    BY <1>1, <1>2

\* The server answers, requests of others are served, the page looks on.
LEMMA SettledPage ==
    ASSUME FieldInv, ActsStay, FieldTypeOK', Settles,
           UNCHANGED <<screen, order, draft, result, gps, mine, hurried>>
    PROVE  FieldInv'
<1>1. PageIsSound
    BY DEF FieldInv
<1>2. PageIsSound'
    <2>1. \A o \in Orders : \A i \in 1..Len(mine[o]) : IsActOf(mine[o][i], o)'
        BY <1>1, MineStays
    <2>2. (draft # None => IsAct(draft)') /\ (result # None => IsAct(result)')
        BY <1>1, KnownActsStay DEF PageIsSound
    <2> QED
        BY <1>1, <2>1, <2>2, SettledCalls DEF PageIsSound
<1>3. ASSUME PageIsCalm
      PROVE  PageIsCalm'
    <2>1. ASSUME NEW k \in Taps, opens'[k].at # "idle"
          PROVE  OpensAlone(k)'
        <3>1. /\ opens[k].at # "idle" /\ opens'[k].order = opens[k].order
              /\ \/ opens'[k].at = opens[k].at
                 \/ opens[k].at = "starting" /\ opens'[k].at = "started"
            BY <1>1, <2>1, SettledOpen
        <3>2. OpensAlone(k) /\ opens[k].order \in Orders
            BY <1>1, <1>3, <3>1 DEF PageIsCalm, PageIsSound, OpenIsSound
        <3>3. \A l \in Taps : opens'[l].at # "idle" => l = k
            BY <1>1, <3>2, SettledOpen DEF OpensAlone
        <3>4. \A j \in Sends : sends'[j].at = "idle"
            BY <1>1, <3>2, SettledSend DEF OpensAlone
        <3>5. \A o \in Orders : NoDraft(o) => NoDraft(o)'
            BY <1>1, MineStays
        <3> QED
            BY <3>1, <3>2, <3>3, <3>4, <3>5 DEF OpensAlone
    <2>2. screen = "checklist" \/ gps => acts'[draft].order = order
        BY <1>1, <1>3, KnownActsStay DEF PageIsCalm, PageIsSound
    <2>3. screen = "result" => acts'[result].order = order
        BY <1>1, <1>3, KnownActsStay DEF PageIsCalm, PageIsSound
    <2>4. ASSUME NEW j \in Sends, sends'[j].at # "idle"
          PROVE  acts'[sends'[j].act].order = order
        <3>1. sends[j].at # "idle" /\ sends'[j].act = sends[j].act
            BY <1>1, <2>4, SettledSend
        <3> QED
            BY <1>1, <1>3, <3>1, KnownActsStay
               DEF PageIsCalm, PageIsSound, SendIsSound
    <2>5. \A o \in Orders :
             \A i \in 1..(Len(mine[o]) - 1) :
                acts'[mine[o][i]].status # "draft"
        BY <1>1, <1>3, MineStays, MineIsASequence DEF PageIsCalm
    <2> QED
        BY <2>1, <2>2, <2>3, <2>4, <2>5 DEF PageIsCalm
<1> QED
    BY <1>2, <1>3 DEF FieldInv

-----------------------------------------------------------------------------
(* The calls of openOrder *)

\* A call goes on, or ends, where the page shows nothing new.
LEMMA OpenGoesOn ==
    ASSUME FieldInv, ActsStay, FieldTypeOK',
           NEW k \in Taps, opens[k].at # "idle",
           NEW p \in OpenCall, opens' = [opens EXCEPT ![k] = p],
           OpenIsSound(p)',
           p.at # "idle" => p.order = opens[k].order,
           ~hurried /\ p.at \notin {"idle", "get", "late"} => order' = p.order,
           ~hurried /\ p.at \in {"create", "late"} => NoDraft(p.order),
           UNCHANGED <<screen, draft, result, gps, sends, mine, hurried>>
    PROVE  FieldInv'
<1>1. PageIsSound /\ opens \in [Taps -> OpenCall]
    BY DEF FieldInv, PageIsSound, FieldTypeOK
<1>2. PageIsSound'
    <2>1. \A o \in Orders : \A i \in 1..Len(mine[o]) : IsActOf(mine[o][i], o)'
        BY <1>1, MineStays
    <2>2. (draft # None => IsAct(draft)') /\ (result # None => IsAct(result)')
        BY <1>1, KnownActsStay DEF PageIsSound
    <2>3. ASSUME NEW l \in Taps
          PROVE  OpenIsSound(opens[l])'
        <3>1. CASE l = k
            BY <1>1, <3>1 DEF OpenIsSound
        <3>2. CASE l # k
            BY <1>1, <3>2, KnownActsStay DEF OpenIsSound, PageIsSound
        <3> QED
            BY <3>1, <3>2
    <2>4. \A j \in Sends : SendIsSound(sends[j])'
        BY <1>1, KnownActsStay DEF SendIsSound, PageIsSound
    <2> QED
        BY <1>1, <2>1, <2>2, <2>3, <2>4 DEF PageIsSound
<1>3. ASSUME ~hurried
      PROVE  PageIsCalm'
    <2>1. PageIsCalm /\ OpensAlone(k) /\ opens[k].order \in Orders
        BY <1>1, <1>3 DEF FieldInv, PageIsCalm, PageIsSound, OpenIsSound
    <2>2. ASSUME NEW l \in Taps, opens'[l].at # "idle"
          PROVE  OpensAlone(l)'
        <3>1. l = k /\ opens'[l] = p
            BY <1>1, <2>1, <2>2 DEF OpensAlone
        <3>2. \A m \in Taps : opens'[m].at # "idle" => m = k
            BY <1>1, <2>1 DEF OpensAlone
        <3>3. \A o \in Orders : NoDraft(o) => NoDraft(o)'
            BY <1>1, MineStays
        <3> QED
            BY <1>3, <2>1, <2>2, <3>1, <3>2, <3>3 DEF OpensAlone
    <2>3. \A o \in Orders :
             \A i \in 1..(Len(mine[o]) - 1) :
                acts'[mine[o][i]].status # "draft"
        BY <1>1, <2>1, MineStays, MineIsASequence DEF PageIsCalm
    <2> QED
        BY <2>1, <2>2, <2>3 DEF PageIsCalm, OpensAlone
<1> QED
    BY <1>2, <1>3 DEF FieldInv

\* A call ends with a checklist of an act of its order.
LEMMA OpenShows ==
    ASSUME FieldInv, ActsStay,
           NEW k \in Taps, opens[k].at \notin {"idle", "get", "late"},
           NEW a, IsActOf(a, opens[k].order),
           Show(a), OpenEnds(k), UNCHANGED <<sends, mine, hurried>>
    PROVE  FieldInv'
<1>1. PageIsSound /\ opens \in [Taps -> OpenCall]
    BY DEF FieldInv, PageIsSound, FieldTypeOK
<1>2. a \in Acts /\ NoOpen \in OpenCall /\ IsAct(a)
    BY DEF IsActOf, IsAct, NoOpen, OpenCall, OpenStage
<1>3. PageIsSound'
    <2>1. \A o \in Orders : \A i \in 1..Len(mine[o]) : IsActOf(mine[o][i], o)'
        BY <1>1, MineStays DEF Show
    <2>2. IsAct(draft)' /\ (result # None => IsAct(result)')
        BY <1>1, <1>2, KnownActsStay DEF PageIsSound, Show, IsAct
    <2>3. ASSUME NEW l \in Taps
          PROVE  OpenIsSound(opens[l])'
        <3>1. CASE l = k
            BY <1>1, <3>1 DEF OpenEnds, OpenIsSound, NoOpen
        <3>2. CASE l # k
            BY <1>1, <3>2, KnownActsStay
               DEF OpenEnds, OpenIsSound, PageIsSound
        <3> QED
            BY <3>1, <3>2
    <2>4. \A j \in Sends : SendIsSound(sends[j])'
        BY <1>1, KnownActsStay DEF SendIsSound, PageIsSound
    <2>5. FieldTypeOK'
        BY <1>1, <1>2 DEF PageIsSound, FieldTypeOK, Show, OpenEnds
    <2>6. draft' # None
        BY <1>2, DistinctNulls DEF Show
    <2> QED
        BY <1>1, <2>1, <2>2, <2>3, <2>4, <2>5, <2>6 DEF PageIsSound, Show
<1>4. ASSUME ~hurried
      PROVE  PageIsCalm'
    <2>1. PageIsCalm /\ OpensAlone(k)
        BY <1>4 DEF FieldInv, PageIsCalm
    <2>2. \A l \in Taps : opens'[l].at = "idle"
        BY <1>1, <2>1 DEF OpensAlone, OpenEnds, NoOpen
    <2>3. acts'[a].order = order
        BY <1>2, <2>1, KnownActsStay DEF OpensAlone, IsActOf
    <2>4. \A o \in Orders :
             \A i \in 1..(Len(mine[o]) - 1) :
                acts'[mine[o][i]].status # "draft"
        BY <1>1, <2>1, MineStays, MineIsASequence DEF PageIsCalm
    <2> QED
        BY <2>1, <2>2, <2>3, <2>4 DEF PageIsCalm, OpensAlone, Show
<1> QED
    BY <1>3, <1>4 DEF FieldInv

\* An order is tapped: what else is under way is what makes it hurried.
LEMMA TapKeeps ==
    ASSUME FieldInv, ActsStay, NEW k \in Taps, NEW o \in Orders, Tap(k, o)
    PROVE  FieldInv'
<1> PICK p : p = [NoOpen EXCEPT !.at = "get", !.order = o]
    OBVIOUS
<1>1. PageIsSound /\ opens \in [Taps -> OpenCall]
    BY DEF FieldInv, PageIsSound, FieldTypeOK
<1>2. /\ p \in OpenCall /\ p.at = "get" /\ p.order = o /\ p.slot = None
      /\ opens' = [opens EXCEPT ![k] = p]
    BY DEF Tap, NoOpen, OpenCall, OpenStage
<1>3. UNCHANGED <<acts, screen, order, draft, result, button, gps, sends, mine>>
    BY DEF Tap, vars, page
<1>4. PageIsSound'
    <2>1. \A b \in Orders : \A i \in 1..Len(mine[b]) : IsActOf(mine[b][i], b)'
        BY <1>1, <1>3, MineStays
    <2>2. (draft # None => IsAct(draft)') /\ (result # None => IsAct(result)')
        BY <1>1, <1>3, KnownActsStay DEF PageIsSound
    <2>3. ASSUME NEW l \in Taps
          PROVE  OpenIsSound(opens[l])'
        <3>1. CASE l = k
            BY <1>1, <1>2, <3>1 DEF OpenIsSound
        <3>2. CASE l # k
            BY <1>1, <1>2, <3>2, KnownActsStay DEF OpenIsSound, PageIsSound
        <3> QED
            BY <3>1, <3>2
    <2>4. \A j \in Sends : SendIsSound(sends[j])'
        BY <1>1, <1>3, KnownActsStay DEF SendIsSound, PageIsSound
    <2>5. FieldTypeOK'
        <3>1. hurried' \in BOOLEAN
            BY <1>1 DEF Tap, Outstanding, PageIsSound, FieldTypeOK
        <3> QED
            BY <1>1, <1>2, <1>3, <3>1 DEF PageIsSound, FieldTypeOK
    <2> QED
        BY <1>1, <1>3, <2>1, <2>2, <2>3, <2>4, <2>5 DEF PageIsSound
<1>5. ASSUME ~hurried'
      PROVE  PageIsCalm'
    <2>1. ~hurried /\ ~Outstanding
        BY <1>5 DEF Tap
    <2>2. PageIsCalm
        BY <2>1 DEF FieldInv
    <2>3. /\ \A l \in Taps : opens[l].at = "idle"
          /\ \A j \in Sends : sends[j].at = "idle"
          /\ ~gps /\ screen = "list"
        BY <2>1 DEF Outstanding, Tap
    <2>4. \A l \in Taps : opens'[l].at # "idle" => l = k /\ opens'[l] = p
        BY <1>1, <1>2, <2>3
    <2> QED
        BY <1>2, <1>3, <2>2, <2>3, <2>4 DEF PageIsCalm, OpensAlone
<1> QED
    BY <1>4, <1>5 DEF FieldInv

\* The draft that a call makes is the newest act of its order, and the page had
\* found no other.
LEMMA DraftCreatedKeeps ==
    ASSUME FieldInv, SessionsStayValid, ActsStay,
           NEW k \in Taps, NEW a \in Acts, DraftCreated(k, a)
    PROVE  FieldInv'
<1> PICK w : w = opens[k].order
    OBVIOUS
<1> PICK p : p = IF opens[k].at = "late" THEN NoOpen
                 ELSE [opens[k] EXCEPT !.at = "created", !.act = a]
    OBVIOUS
<1>1. /\ PageIsSound /\ opens \in [Taps -> OpenCall]
      /\ mine \in [Orders -> Seq(Acts)]
    BY DEF FieldInv, PageIsSound, FieldTypeOK
<1>2. /\ opens[k].at \in {"create", "late"} /\ OpenIsSound(opens[k])
      /\ w \in Orders
    BY <1>1 DEF DraftCreated, PageIsSound, OpenIsSound
<1>3. /\ opens' = [opens EXCEPT ![k] = p]
      /\ mine' = [mine EXCEPT ![w] = Append(mine[w], a)]
      /\ UNCHANGED <<page, sends, hurried, counts>>
    BY DEF DraftCreated
<1>4. UNCHANGED <<screen, order, draft, result, button, gps>>
    BY <1>3 DEF page
<1>5. acts[a].status = Absent /\ IsActOf(a, w)'
    BY <1>2 DEF DraftCreated, CreateDraftAct, SessionsStayValid, TypeOK,
                IsActOf, Absent
<1>6. p \in OpenCall /\ OpenIsSound(p)'
    <2>1. CASE opens[k].at = "late"
        BY <2>1 DEF NoOpen, OpenCall, OpenStage, OpenIsSound
    <2>2. CASE opens[k].at = "create"
        BY <1>1, <1>2, <1>5, <2>2 DEF OpenCall, OpenStage, OpenIsSound
    <2> QED
        BY <1>2, <2>1, <2>2
<1>7. PageIsSound'
    <2>1. ASSUME NEW o \in Orders, NEW i \in 1..Len(mine'[o])
          PROVE  IsActOf(mine[o][i], o)'
        <3>1. CASE o = w /\ i = Len(mine[w]) + 1
            <4>1. mine'[o][i] = a
                BY <1>1, <1>2, <1>3, <3>1
            <4> QED
                BY <1>5, <3>1, <4>1 DEF IsActOf
        <3>2. CASE ~(o = w /\ i = Len(mine[w]) + 1)
            <4>1. i \in 1..Len(mine[o]) /\ mine'[o][i] = mine[o][i]
                BY <1>1, <1>2, <1>3, <3>2
            <4>2. IsActOf(mine[o][i], o)
                BY <1>1, <4>1 DEF PageIsSound
            <4>3. PICK b : b = mine[o][i]
                OBVIOUS
            <4>4. IsActOf(b, o)'
                BY <4>2, <4>3, KnownActsStay
            <4> QED
                BY <4>1, <4>3, <4>4 DEF IsActOf
        <3> QED
            BY <3>1, <3>2
    <2>2. (draft # None => IsAct(draft)') /\ (result # None => IsAct(result)')
        BY <1>1, <1>4, KnownActsStay DEF PageIsSound
    <2>3. ASSUME NEW l \in Taps
          PROVE  OpenIsSound(opens[l])'
        <3>1. CASE l = k
            BY <1>1, <1>3, <1>6, <3>1 DEF OpenIsSound
        <3>2. CASE l # k
            BY <1>1, <1>3, <3>2, KnownActsStay DEF OpenIsSound, PageIsSound
        <3> QED
            BY <3>1, <3>2
    <2>4. \A j \in Sends : SendIsSound(sends[j])'
        BY <1>1, <1>3, KnownActsStay DEF SendIsSound, PageIsSound
    <2>5. FieldTypeOK'
        <3>1. mine' \in [Orders -> Seq(Acts)] /\ opens' \in [Taps -> OpenCall]
            BY <1>1, <1>2, <1>3, <1>6
        <3> QED
            BY <1>1, <1>3, <1>4, <3>1 DEF PageIsSound, FieldTypeOK
    <2> QED
        BY <1>1, <1>4, <2>1, <2>2, <2>3, <2>4, <2>5 DEF PageIsSound
<1>8. ASSUME ~hurried
      PROVE  PageIsCalm'
    <2>1. PageIsCalm /\ OpensAlone(k) /\ NoDraft(w)
        BY <1>2, <1>8 DEF FieldInv, PageIsCalm, OpensAlone
    <2>2. ASSUME NEW l \in Taps, opens'[l].at # "idle"
          PROVE  OpensAlone(l)'
        <3>1. l = k /\ opens'[l] = p
            BY <1>1, <1>3, <2>1, <2>2 DEF OpensAlone
        <3>2. p.at = "created" /\ p.order = w /\ opens[k].at = "create"
            BY <1>1, <1>2, <2>2, <3>1 DEF NoOpen, OpenCall
        <3>3. \A m \in Taps : opens'[m].at # "idle" => m = k
            BY <1>1, <1>3, <2>1 DEF OpensAlone
        <3> QED
            BY <1>3, <1>4, <2>1, <3>1, <3>2, <3>3 DEF OpensAlone
    <2>3. ASSUME NEW o \in Orders, NEW i \in 1..(Len(mine'[o]) - 1)
          PROVE  acts'[mine'[o][i]].status # "draft"
        <3>1. i \in 1..Len(mine[o]) /\ mine'[o][i] = mine[o][i]
            BY <1>1, <1>2, <1>3
        <3>2. acts[mine[o][i]].status # "draft"
            <4>1. CASE i \in 1..(Len(mine[o]) - 1)
                BY <2>1, <4>1 DEF PageIsCalm
            <4>2. CASE i \notin 1..(Len(mine[o]) - 1)
                <5>1. o = w /\ i = Len(mine[w]) /\ mine[w] # <<>>
                    BY <1>1, <1>2, <1>3, <3>1, <4>2
                <5> QED
                    BY <2>1, <5>1 DEF NoDraft
            <4> QED
                BY <4>1, <4>2
        <3>3. IsActOf(mine[o][i], o)
            BY <1>1, <3>1 DEF PageIsSound
        <3> QED
            BY <3>1, <3>2, <3>3 DEF ActsStay, IsActOf
    <2> QED
        BY <1>3, <1>4, <2>1, <2>2, <2>3 DEF PageIsCalm, OpensAlone
<1> QED
    BY <1>3, <1>7, <1>8 DEF FieldInv


-----------------------------------------------------------------------------
(* The screens *)

\* What is not a list stays or gives way to the list, and a checklist comes back
\* only as it was.
LEMMA ScreenTurns ==
    ASSUME FieldInv,
           UNCHANGED <<acts, order, draft, result, opens, sends, mine, hurried>>,
           FieldTypeOK',
           screen # "list" \/ gps,
           screen' = "checklist" \/ gps' => screen = "checklist" \/ gps,
           screen' = "result" => screen = "result"
    PROVE  FieldInv'
<1>1. PageIsSound'
    BY DEF FieldInv, PageIsSound, OpenIsSound, SendIsSound, IsAct, IsActOf
<1>2. ASSUME ~hurried
      PROVE  PageIsCalm'
    <2>1. PageIsCalm
        BY <1>2 DEF FieldInv
    <2>2. \A k \in Taps : opens[k].at = "idle"
        BY <2>1 DEF PageIsCalm, OpensAlone
    <2> QED
        BY <2>1, <2>2 DEF PageIsCalm
<1> QED
    BY <1>1, <1>2 DEF FieldInv

\* Asking for a position, getting it, and going back to the list.
LEMMA ScreensKeep ==
    ASSUME FieldInv, AskGps \/ GpsAnswered \/ Back
    PROVE  FieldInv'
<1>1. UNCHANGED <<acts, order, draft, result, opens, sends, mine, hurried>>
    BY DEF AskGps, GpsAnswered, Back, vars
<1>2. FieldTypeOK
    BY DEF FieldInv, PageIsSound
<1>3. FieldTypeOK'
    BY <1>1, <1>2 DEF FieldTypeOK, AskGps, GpsAnswered, Back
<1>4. /\ screen # "list" \/ gps
      /\ screen' = "checklist" \/ gps' => screen = "checklist" \/ gps
      /\ screen' = "result" => screen = "result"
    BY <1>2 DEF AskGps, GpsAnswered, Back, FieldTypeOK
<1> QED
    BY <1>1, <1>3, <1>4, ScreenTurns

\* What is sent is what the checklist shows.
LEMMA SendKeeps ==
    ASSUME FieldInv,
           NEW j \in Sends, NEW s \in Slots, NEW batch \in Calls,
           Send(j, s, batch)
    PROVE  FieldInv'
<1> PICK q : q = [at |-> "sent", act |-> draft, slot |-> s]
    OBVIOUS
<1>1. PageIsSound /\ FieldTypeOK /\ sends \in [Sends -> SendCall]
    BY DEF FieldInv, PageIsSound, FieldTypeOK
<1>2. /\ UNCHANGED <<acts, screen, order, draft, result, gps, opens, mine,
                     hurried>>
      /\ sends' = [sends EXCEPT ![j] = q]
      /\ button' = FALSE /\ screen = "checklist"
    BY DEF Send, SubmitLoad
<1>3. draft # None /\ IsAct(draft)
    BY <1>1, <1>2 DEF PageIsSound
<1>4. q \in SendCall /\ q.at = "sent" /\ q.act = draft
    BY <1>3 DEF SendCall, IsAct
<1>5. PageIsSound'
    <2>1. FieldTypeOK'
        BY <1>1, <1>2, <1>4 DEF FieldTypeOK
    <2>2. ASSUME NEW i \in Sends
          PROVE  SendIsSound(sends[i])'
        <3>1. CASE i = j
            BY <1>1, <1>2, <1>3, <1>4, <3>1 DEF SendIsSound, IsAct
        <3>2. CASE i # j
            BY <1>1, <1>2, <3>2 DEF SendIsSound, IsAct, PageIsSound
        <3> QED
            BY <3>1, <3>2
    <2> QED
        BY <1>1, <1>2, <2>1, <2>2 DEF PageIsSound, OpenIsSound, IsAct, IsActOf
<1>6. ASSUME ~hurried
      PROVE  PageIsCalm'
    <2>1. PageIsCalm
        BY <1>6 DEF FieldInv
    <2>2. \A k \in Taps : opens[k].at = "idle"
        BY <1>2, <2>1 DEF PageIsCalm, OpensAlone
    <2>3. ASSUME NEW i \in Sends, sends'[i].at # "idle"
          PROVE  acts[sends'[i].act].order = order
        <3>1. sends'[i] = q \/ sends'[i] = sends[i]
            BY <1>1, <1>2
        <3> QED
            BY <1>2, <1>4, <2>1, <2>3, <3>1 DEF PageIsCalm
    <2> QED
        BY <1>2, <2>1, <2>2, <2>3 DEF PageIsCalm
<1> QED
    BY <1>2, <1>5, <1>6 DEF FieldInv

\* The result shown is the act that was sent.
LEMMA SendAnsweredKeeps ==
    ASSUME FieldInv, NEW j \in Sends, SendAnswered(j)
    PROVE  FieldInv'
<1> PICK a : a = sends[j].act
    OBVIOUS
<1>1. PageIsSound /\ FieldTypeOK /\ sends \in [Sends -> SendCall]
    BY DEF FieldInv, PageIsSound, FieldTypeOK
<1>2. /\ UNCHANGED <<acts, order, draft, button, gps, opens, mine, hurried>>
      /\ sends' = [sends EXCEPT ![j] = NoSend]
      /\ screen' = "result" /\ result' = a /\ sends[j].at = "answered"
    BY DEF SendAnswered, vars
<1>3. IsAct(a) /\ a # None
    <2>1. IsAct(a)
        BY <1>1, <1>2 DEF PageIsSound, SendIsSound
    <2> QED
        BY <2>1, DistinctNulls DEF IsAct
<1>4. PageIsSound'
    <2>1. NoSend \in SendCall
        BY DEF NoSend, SendCall
    <2>2. FieldTypeOK'
        BY <1>1, <1>2, <1>3, <2>1 DEF FieldTypeOK, IsAct
    <2>3. \A i \in Sends : SendIsSound(sends[i])'
        <3>1. \A i \in Sends : sends'[i] = sends[i] \/ sends'[i] = NoSend
            BY <1>1, <1>2
        <3> QED
            BY <1>1, <1>2, <3>1 DEF SendIsSound, IsAct, PageIsSound, NoSend
    <2> QED
        BY <1>1, <1>2, <1>3, <2>2, <2>3
           DEF PageIsSound, OpenIsSound, IsAct, IsActOf
<1>5. ASSUME ~hurried
      PROVE  PageIsCalm'
    <2>1. PageIsCalm
        BY <1>5 DEF FieldInv
    <2>2. \A k \in Taps : opens[k].at = "idle"
        BY <1>2, <2>1 DEF PageIsCalm, OpensAlone
    <2>3. acts[a].order = order
        BY <1>2, <2>1 DEF PageIsCalm
    <2>4. \A i \in Sends : sends'[i].at # "idle" => sends'[i] = sends[i]
        BY <1>1, <1>2 DEF NoSend
    <2> QED
        BY <1>2, <2>1, <2>2, <2>3, <2>4 DEF PageIsCalm
<1> QED
    BY <1>2, <1>4, <1>5 DEF FieldInv

-----------------------------------------------------------------------------
(* The steps *)

\* The answer with the order comes, the user takes it to work or not.
LEMMA GetAnsweredKeeps ==
    ASSUME FieldInv, ActsStay, NEW k \in Taps,
           GetAnswered(k) \/ StartAnswered(k)
    PROVE  FieldInv'
<1>1. /\ FieldTypeOK /\ opens[k] \in OpenCall /\ OpenIsSound(opens[k])
      /\ opens[k].at \in {"get", "started"} /\ opens[k].slot = None
    BY DEF FieldInv, PageIsSound, FieldTypeOK, OpenIsSound, GetAnswered,
           StartAnswered
<1>2. UNCHANGED <<screen, draft, result, button, gps, sends, mine, hurried>>
    BY DEF GetAnswered, StartAnswered
<1>3. PICK p :
          /\ opens' = [opens EXCEPT ![k] = p]
          /\ \/ p = NoOpen /\ order' \in {order, opens[k].order}
             \/ /\ \E stage \in {"start", "list"} :
                      p = [opens[k] EXCEPT !.at = stage]
                /\ order' = opens[k].order
    <2>1. \A stage : OpenAt(k, stage) =>
             opens' = [opens EXCEPT ![k] = [opens[k] EXCEPT !.at = stage]]
        BY <1>1 DEF OpenAt, FieldTypeOK, OpenCall
    <2> QED
        BY <2>1 DEF GetAnswered, StartAnswered, OpenEnds
<1>4. /\ p \in OpenCall /\ OpenIsSound(p)'
      /\ p.at # "idle" => p.order = opens[k].order
      /\ p.at \notin {"idle", "get", "late"} => order' = p.order
      /\ p.at \notin {"create", "late"}
    BY <1>1, <1>3 DEF NoOpen, OpenCall, OpenStage, OpenIsSound
<1>5. order' \in Orders \cup {None}
    BY <1>1, <1>3 DEF FieldTypeOK, OpenCall
<1>6. FieldTypeOK'
    BY <1>1, <1>2, <1>3, <1>4, <1>5 DEF FieldTypeOK
<1> QED
    BY <1>1, <1>2, <1>3, <1>4, <1>6, OpenGoesOn

\* POST /orders/{id}/start is sent.
LEMMA StartSentKeeps ==
    ASSUME FieldInv, ActsStay, NEW k \in Taps, NEW s \in Slots, StartSent(k, s)
    PROVE  FieldInv'
<1> PICK p : p = [opens[k] EXCEPT !.at = "starting", !.slot = s]
    OBVIOUS
<1>1. /\ FieldTypeOK /\ opens[k] \in OpenCall /\ OpenIsSound(opens[k])
      /\ opens[k].at = "start"
    BY DEF FieldInv, PageIsSound, FieldTypeOK, StartSent
<1>2. /\ opens' = [opens EXCEPT ![k] = p]
      /\ UNCHANGED <<screen, order, draft, result, button, gps, sends, mine,
                     hurried>>
    BY <1>1 DEF StartSent, page, FieldTypeOK
<1>3. /\ p \in OpenCall /\ OpenIsSound(p)' /\ p.at = "starting"
      /\ p.order = opens[k].order
    BY <1>1 DEF OpenCall, OpenStage, OpenIsSound
<1>4. FieldTypeOK'
    BY <1>1, <1>2, <1>3 DEF FieldTypeOK
<1>5. ~hurried => order = opens[k].order
    BY <1>1 DEF FieldInv, PageIsCalm, OpensAlone
<1> QED
    BY <1>1, <1>2, <1>3, <1>4, <1>5, OpenGoesOn

\* The newest act of the user is shown if it is a draft; if not, one is made.
LEMMA ActsListedKeeps ==
    ASSUME FieldInv, ActsStay, NEW k \in Taps, ActsListed(k)
    PROVE  FieldInv'
<1> PICK w : w = opens[k].order
    OBVIOUS
<1>1. /\ PageIsSound /\ FieldTypeOK
      /\ opens[k] \in OpenCall /\ OpenIsSound(opens[k])
      /\ opens[k].at = "list" /\ w \in Orders
    BY DEF FieldInv, PageIsSound, FieldTypeOK, ActsListed, OpenIsSound
<1>2. CASE \E a \in Acts : Found(w, a) /\ Show(a) /\ OpenEnds(k)
    <2>1. PICK a \in Acts : Found(w, a) /\ Show(a) /\ OpenEnds(k)
        BY <1>2
    <2>2. IsActOf(a, w)
        BY <1>1, <2>1, MineIsASequence DEF Found, PageIsSound
    <2>3. UNCHANGED <<sends, mine, hurried>>
        BY DEF ActsListed
    <2> QED
        BY <1>1, <2>1, <2>2, <2>3, OpenShows
<1>3. CASE /\ {a \in Acts : Found(w, a) /\ acts[a].status = "draft"} = {}
           /\ OpenAt(k, "create") /\ UNCHANGED page
    <2> PICK p : p = [opens[k] EXCEPT !.at = "create"]
        OBVIOUS
    <2>1. NoDraft(w)
        <3>1. mine[w] # <<>> => mine[w][Len(mine[w])] \in Acts
            BY <1>1, MineIsASequence DEF PageIsSound, IsActOf
        <3> QED
            BY <1>3, <3>1 DEF NoDraft, Found
    <2>2. /\ opens' = [opens EXCEPT ![k] = p]
          /\ UNCHANGED <<screen, order, draft, result, button, gps, sends,
                         mine, hurried>>
        BY <1>1, <1>3 DEF ActsListed, OpenAt, page, FieldTypeOK
    <2>3. /\ p \in OpenCall /\ OpenIsSound(p)' /\ p.at = "create"
          /\ p.order = w
        BY <1>1 DEF OpenCall, OpenStage, OpenIsSound
    <2>4. FieldTypeOK'
        BY <1>1, <2>2, <2>3 DEF FieldTypeOK
    <2>5. ~hurried => order = w
        BY <1>1 DEF FieldInv, PageIsCalm, OpensAlone
    <2> QED
        BY <1>1, <2>1, <2>2, <2>3, <2>4, <2>5, OpenGoesOn
<1> QED
    BY <1>2, <1>3 DEF ActsListed

\* The new draft is shown.
LEMMA DraftAnsweredKeeps ==
    ASSUME FieldInv, ActsStay, NEW k \in Taps, DraftAnswered(k)
    PROVE  FieldInv'
<1> PICK a : a = opens[k].act
    OBVIOUS
<1>1. /\ opens[k].at = "created" /\ Show(a) /\ OpenEnds(k)
      /\ UNCHANGED <<sends, mine, hurried>>
    BY DEF DraftAnswered
<1>2. IsActOf(a, opens[k].order)
    BY <1>1 DEF FieldInv, PageIsSound, OpenIsSound
<1> QED
    BY <1>1, <1>2, OpenShows

\* The answer to the creation of a draft is lost: the request is under way still.
LEMMA CreateLostKeeps ==
    ASSUME FieldInv, ActsStay, NEW k \in Taps, OpenLost(k),
           opens[k].at = "create"
    PROVE  FieldInv'
<1> PICK p : p = [opens[k] EXCEPT !.at = "late"]
    OBVIOUS
<1>1. /\ FieldTypeOK /\ opens[k] \in OpenCall /\ OpenIsSound(opens[k])
    BY DEF FieldInv, PageIsSound, FieldTypeOK
<1>2. /\ opens' = [opens EXCEPT ![k] = p]
      /\ UNCHANGED <<screen, order, draft, result, button, gps, sends, mine,
                     hurried>>
    BY <1>1 DEF OpenLost, OpenAt, page, FieldTypeOK
<1>3. /\ p \in OpenCall /\ OpenIsSound(p)' /\ p.at = "late"
      /\ p.order = opens[k].order
    BY <1>1 DEF OpenCall, OpenStage, OpenIsSound
<1>4. FieldTypeOK'
    BY <1>1, <1>2, <1>3 DEF FieldTypeOK
<1>5. ~hurried => NoDraft(p.order)
    BY <1>3 DEF FieldInv, PageIsCalm, OpensAlone
<1> QED
    BY <1>2, <1>3, <1>4, <1>5, OpenGoesOn

\* Steps that only settle calls: refusals, lost answers, the server's own.
LEMMA SettlingKeeps ==
    ASSUME FieldInv, ActsStay,
           \/ \E k \in Taps :
                 \/ StartRefused(k)
                 \/ OpenLost(k) /\ opens[k].at # "create"
           \/ \E j \in Sends : SendLost(j)
           \/ \E s \in Slots : Served(s) \/ Died(s)
           \/ Others
           \/ UNCHANGED fieldVars
    PROVE  FieldInv'
<1>1. /\ FieldTypeOK /\ opens \in [Taps -> OpenCall]
      /\ sends \in [Sends -> SendCall]
      /\ \A k \in Taps : OpenIsSound(opens[k])
      /\ \A j \in Sends : SendIsSound(sends[j])
    BY DEF FieldInv, PageIsSound, FieldTypeOK
<1>2. NoOpen \in OpenCall /\ NoSend \in SendCall
    BY DEF NoOpen, OpenCall, OpenStage, NoSend, SendCall
<1>3. ASSUME NEW k \in Taps,
             \/ StartRefused(k)
             \/ OpenLost(k) /\ opens[k].at # "create"
      PROVE  FieldInv'
    <2>1. /\ opens' = [opens EXCEPT ![k] = NoOpen]
          /\ UNCHANGED <<screen, order, draft, result, button, gps, sends,
                         mine, hurried>>
        BY <1>3 DEF StartRefused, OpenLost, OpenEnds, page
    <2>2. FieldTypeOK'
        BY <1>1, <1>2, <2>1 DEF FieldTypeOK
    <2>3. Settles
        BY <1>1, <2>1 DEF Settles
    <2> QED
        BY <2>1, <2>2, <2>3, SettledPage
<1>4. ASSUME NEW j \in Sends, SendLost(j)
      PROVE  FieldInv'
    <2>1. /\ sends' = [sends EXCEPT ![j] = NoSend] /\ button' = TRUE
          /\ UNCHANGED <<screen, order, draft, result, gps, opens, mine,
                         hurried>>
        BY <1>4 DEF SendLost
    <2>2. FieldTypeOK'
        BY <1>1, <1>2, <2>1 DEF FieldTypeOK
    <2>3. Settles
        BY <1>1, <2>1 DEF Settles
    <2> QED
        BY <2>1, <2>2, <2>3, SettledPage
<1>5. ASSUME NEW s \in Slots, NEW ok \in BOOLEAN, Answers(s, ok)
      PROVE  FieldInv'
    <2>1. UNCHANGED <<screen, order, draft, result, gps, mine, hurried>>
        BY <1>5 DEF Answers
    <2>2. ASSUME NEW k \in Taps
          PROVE  /\ opens'[k] \in OpenCall
                 /\ \/ opens'[k] \in {opens[k], NoOpen}
                    \/ /\ opens[k].at = "starting"
                       /\ opens'[k] = [opens[k] EXCEPT !.at = "started",
                                                       !.slot = None]
        <3>1. opens[k].slot = s => opens[k].at = "starting"
            BY <1>1, FieldAssumption DEF OpenIsSound
        <3>2. [opens[k] EXCEPT !.at = "started", !.slot = None] \in OpenCall
            BY <1>1 DEF OpenCall, OpenStage
        <3> QED
            BY <1>1, <1>2, <1>5, <3>1, <3>2 DEF Answers
    <2>3. ASSUME NEW j \in Sends
          PROVE  /\ sends'[j] \in SendCall
                 /\ \/ sends'[j] \in {sends[j], NoSend}
                    \/ /\ sends[j].at = "sent"
                       /\ sends'[j] = [sends[j] EXCEPT !.at = "answered",
                                                       !.slot = None]
        <3>1. sends[j].slot = s => sends[j].at = "sent"
            BY <1>1, FieldAssumption DEF SendIsSound
        <3>2. [sends[j] EXCEPT !.at = "answered", !.slot = None] \in SendCall
            BY <1>1 DEF SendCall
        <3> QED
            BY <1>1, <1>2, <1>5, <3>1, <3>2 DEF Answers
    <2>4. button' \in BOOLEAN
        BY <1>1, <1>5 DEF Answers, FieldTypeOK
    <2>5. opens' \in [Taps -> OpenCall] /\ sends' \in [Sends -> SendCall]
        BY <1>5, <2>2, <2>3 DEF Answers
    <2>6. FieldTypeOK'
        BY <1>1, <2>1, <2>4, <2>5 DEF FieldTypeOK
    <2>7. Settles
        BY <2>2, <2>3 DEF Settles
    <2> QED
        BY <2>1, <2>6, <2>7, SettledPage
<1>6. CASE Others \/ UNCHANGED fieldVars
    <2>1. UNCHANGED <<page, opens, sends, mine, hurried>>
        BY <1>6 DEF Others, fieldVars
    <2>2. UNCHANGED <<screen, order, draft, result, button, gps>>
        BY <2>1 DEF page
    <2>3. FieldTypeOK'
        BY <1>1, <2>1, <2>2 DEF FieldTypeOK
    <2>4. Settles
        BY <2>1 DEF Settles
    <2> QED
        BY <2>1, <2>2, <2>3, <2>4, SettledPage
<1>7. ASSUME NEW s \in Slots, Served(s) \/ Died(s)
      PROVE  FieldInv'
    <2>1. (slots[s].at \notin {"submit_cleared", "review_act"}) \in BOOLEAN
        OBVIOUS
    <2>2. \E ok \in BOOLEAN : Answers(s, ok)
        BY <1>7, <2>1 DEF Served, Died
    <2> QED
        BY <2>2, <1>5
<1> QED
    BY <1>3, <1>4, <1>6, <1>7

\* Every step of the page, its user, the server and everybody else.
LEMMA FieldStepKeeps ==
    ASSUME FieldInv, SessionsStayValid, [FieldNext]_fieldVars
    PROVE  FieldInv'
<1>1. ActsStay
    BY FieldStepIsAStep, StepLetsActsStay DEF FieldInv
<1>2. ASSUME NEW k \in Taps, Open(k)
      PROVE  FieldInv'
    BY <1>1, <1>2, GetAnsweredKeeps, StartSentKeeps, SettlingKeeps,
       ActsListedKeeps, DraftCreatedKeeps, DraftAnsweredKeeps DEF Open
<1>3. ASSUME NEW k \in Taps, OpenLost(k)
      PROVE  FieldInv'
    BY <1>1, <1>3, CreateLostKeeps, SettlingKeeps
<1>4. ASSUME NEW j \in Sends, SendAnswered(j) \/ SendLost(j)
      PROVE  FieldInv'
    BY <1>1, <1>4, SendAnsweredKeeps, SettlingKeeps
<1>5. CASE (\E s \in Slots : Served(s) \/ Died(s)) \/ Others
              \/ UNCHANGED fieldVars
    BY <1>1, <1>5, SettlingKeeps
<1> QED
    BY <1>1, <1>2, <1>3, <1>4, <1>5, TapKeeps, ScreensKeep, SendKeeps
       DEF FieldNext

\* The page starts on the list, with nothing under way.
LEMMA FieldStartsSound == FieldInit => FieldInv
<1> SUFFICES ASSUME FieldInit
             PROVE  FieldInv
    OBVIOUS
<1>1. FieldTypeOK
    <2>1. NoOpen \in OpenCall /\ NoSend \in SendCall
        BY DEF NoOpen, NoSend, OpenCall, OpenStage, SendCall
    <2>2. [o \in Orders |-> <<>>] \in [Orders -> Seq(Acts)]
        OBVIOUS
    <2> QED
        BY <2>1, <2>2 DEF FieldInit, FieldTypeOK
<1>2. /\ \A k \in Taps : opens[k] = NoOpen
      /\ \A j \in Sends : sends[j] = NoSend
      /\ \A o \in Orders : mine[o] = <<>> /\ Len(mine[o]) = 0
    BY DEF FieldInit
<1>3. PageIsSound
    BY <1>1, <1>2
       DEF FieldInit, PageIsSound, OpenIsSound, SendIsSound, NoOpen, NoSend
<1>4. PageIsCalm
    BY <1>2 DEF FieldInit, PageIsCalm, NoOpen, NoSend
<1> QED
    BY <1>3, <1>4 DEF FieldInv

\* Orders and acts see no more of the page than requests of the API: what is
\* proved of ActLifecycle holds with the page in front of it.
THEOREM PageUsesTheApi == FieldSpec => Spec
<1>1. FieldInit => Init /\ FieldInv /\ SessionsStayValid
    BY FieldStartsSound, InitValid DEF FieldInit
<1>2. FieldInv /\ SessionsStayValid /\ [FieldNext]_fieldVars
          => FieldInv' /\ SessionsStayValid' /\ [Next]_vars
    BY FieldStepIsAStep, FieldStepKeeps, StepValid DEF FieldInv
<1> QED
    BY <1>1, <1>2, PTL DEF FieldSpec, Spec

\* The invariant of the page holds with that of the requests.
LEMMA FieldAlwaysSound == FieldSpec => []FieldInv
<1>1. FieldInv /\ SessionsStayValid /\ [FieldNext]_fieldVars => FieldInv'
    BY FieldStepKeeps
<1> QED
    BY <1>1, FieldStartsSound, PageUsesTheApi, SessionsAlwaysValid, PTL
       DEF FieldSpec

\* The variables of the page keep their types; what it sends and shows are acts
\* that exist.
THEOREM PageTypeCorrect == FieldSpec => []FieldTypeOK
<1>1. FieldInv => FieldTypeOK
    BY DEF FieldInv, PageIsSound
<1> QED
    BY <1>1, FieldAlwaysSound, PTL

\* Until the user taps while a call is under way, an order has one draft at most,
\* whatever answers are lost, sent twice or late.
THEOREM PageMakesOneDraft == FieldSpec => []OneDraft
<1>1. FieldInv => OneDraft
    <2> SUFFICES ASSUME FieldInv, ~hurried, NEW o \in Orders
                 PROVE  Cardinality({i \in 1..Len(mine[o]) :
                           acts[mine[o][i]].status = "draft"}) <= 1
        BY DEF OneDraft, DraftOnlyIfNone
    <2> DEFINE drafts == {i \in 1..Len(mine[o]) :
                             acts[mine[o][i]].status = "draft"}
    <2>1. PageIsSound /\ PageIsCalm /\ Len(mine[o]) \in Nat
        BY MineIsASequence DEF FieldInv
    <2>2. drafts \subseteq {Len(mine[o])}
        BY <2>1 DEF PageIsCalm
    <2>3. /\ IsFiniteSet({Len(mine[o])})
          /\ Cardinality({Len(mine[o])}) = 1
        BY FS_Singleton
    <2>4. Cardinality(drafts) <= Cardinality({Len(mine[o])})
        BY <2>2, <2>3, FS_Subset
    <2> QED
        BY <2>3, <2>4
<1> QED
    BY <1>1, FieldAlwaysSound, PTL

\* Until then the checklist and the result belong to the order named above them,
\* in whatever order the functions of the page end.
THEOREM PageShowsTogether == FieldSpec => []ShownTogether
<1>1. FieldInv => ShownTogether
    BY DEF FieldInv, PageIsCalm, ShownTogether
<1> QED
    BY <1>1, FieldAlwaysSound, PTL

-----------------------------------------------------------------------------
(* Answers and ratings: statuses that are never left *)

\* Only a rejected order may become REJECTED, and nothing rejects the first: the
\* decision "reject" ends at the order.
NothingRejected ==
    /\ \A o \in Orders : orders[o].status # "rejected"
    /\ \A a \in Acts : acts[a].status # "rejected"
    /\ \A s \in Slots :
          slots[s].at = "review_order" => slots[s].target # "rejected"

\* The acts the summary counts: submitted, not rejected.
Live == {"submitted", "auto_confirmed", "confirmed", "delayed_verification",
         "verified"}

\* What a request leaves of an act another query has seen.
ActsSettle ==
    \A a \in Acts :
        /\ acts[a].status \in Accepted => acts'[a].status \in Accepted
        /\ acts[a].status = "confirmed" => acts'[a].status = "confirmed"
        /\ acts[a].status \in Live => acts'[a].status \in Live
        /\ acts[a].status \in Outcome
             => /\ acts'[a].status \in Outcome
                /\ acts'[a].rows = acts[a].rows
                /\ acts'[a].judged = acts[a].judged

-----------------------------------------------------------------------------
(* The inductive invariants *)

\* While no order changes hands, the acts a recalculation has loaded are acts of
\* the orders it has counted.
RecalcCounts ==
    /\ recalc.at # "idle" => recalc.total > 0
    /\ recalc.at # "idle" /\ ~recalc.moved
         => recalc.total = Cardinality(OrdersOf)
    /\ recalc.at = "completed" /\ ~recalc.moved
         => \A a \in recalc.completed : /\ acts[a].status # Absent
                                        /\ acts[a].order \in OrdersOf

\* They are accepted, and none that was accepted is missing.
RecalcIsSound ==
    /\ recalc.at # "idle" /\ ~recalc.moved
         => recalc.accepted \subseteq ActsIn(Accepted)
    /\ recalc.at = "completed"
         => \A a \in recalc.completed : acts[a].status \in Accepted
    /\ recalc.at = "completed" /\ ~recalc.moved
         => recalc.accepted \subseteq recalc.completed

\* The act of a detail has been inserted.
ReadingRefers ==
    reading.at \in {"act", "responses"}
        => reading.act \in Acts /\ acts[reading.act].status # Absent

\* What an answer has read so far is still true of the act, or was when it was
\* decided.
ReadingIsSound ==
    /\ reading.at \in {"act", "responses"} /\ reading.status = "confirmed"
         => acts[reading.act].status = "confirmed"
    /\ reading.at = "act" /\ reading.status \in Outcome
         => /\ acts[reading.act].status \in Outcome
            /\ acts[reading.act].judged = reading.judged
    /\ reading.at = "responses" /\ reading.status \in Outcome
         => reading.rows = reading.judged
    /\ reading.at \in {"auto", "pending"}
         => reading.auto_confirmed \subseteq With(Accepted)
    /\ reading.at = "pending"
         => /\ reading.pending_review \subseteq With(Live)
            /\ reading.auto_confirmed \cap reading.pending_review = {}
    /\ reading.at \in {"total", "auto", "pending"} /\ ~reading.created
         => reading.total_acts = Cardinality(Known)

\* However requests interleave, and while they are apart.
ReaderInv == NothingRejected /\ ReaderTypeOK /\ RecalcCounts /\ ReadingRefers

ApartReaderInv == RecalcIsSound /\ ReadingIsSound

-----------------------------------------------------------------------------
(* The readers and the recalculation only read what the requests write *)

LEMMA ReadersTakeRequests == [ReaderNext]_readerVars => [Next]_vars
BY DEF ReaderNext, readerVars, DetailAct, DetailResponses, DetailOrder,
       SummaryTotal, SummaryAuto, SummaryPending, SummaryRejected, Begin,
       Meanwhile, RatingNext, RecalcOrders, RecalcCompleted, RecalcCommit,
       RecalcDies, Request

\* Whatever is proved of the requests alone holds with the readers between them.
THEOREM ReadersOnlyRead == ReaderSpec => Spec
<1>1. ReaderInit => Init
    BY DEF ReaderInit, RatingInit
<1> QED
    BY <1>1, ReadersTakeRequests, PTL DEF ReaderSpec, Spec

-----------------------------------------------------------------------------
(* Statuses that are never left: proofs *)

\* Every write of a status: one of the table of orders, one of the act handlers.
LEMMA StepRejectsNothing ==
    ASSUME SessionsStayValid, NothingRejected, [Next]_vars
    PROVE  NothingRejected'
<1>1. /\ orders \in [Orders -> OrderRow] /\ acts \in [Acts -> ActRow]
      /\ slots \in [Slots -> Session]
    BY DEF SessionsStayValid, TypeOK
<1>2. ASSUME NEW s \in Slots
      PROVE  /\ slots[s].status # "rejected"
             /\ slots[s].at \in SubmitStage
                    => slots[s].act_status \in {"submitted", Keep}
             /\ slots[s].at = "review_order"
                    => slots[s].act_status \in {"confirmed", Keep}
    BY DEF SessionsStayValid, SessionWrites, ReviewStage, NothingRejected
<1>3. Idle.at = "idle"
    BY DEF Idle
<1>4. CASE Insert
    <2>1. ASSUME NEW o \in Orders, NEW c \in Contractors \cup {None},
                 CreateOrder(o, c)
          PROVE  NothingRejected'
        <3>1. PICK status \in {"draft", "assigned"} :
                  orders' = [orders EXCEPT ![o] = [status |-> status,
                                                   contractor |-> c]]
            BY <2>1 DEF CreateOrder
        <3>2. UNCHANGED <<acts, slots>>
            BY <2>1 DEF CreateOrder
        <3> QED
            BY <1>1, <3>1, <3>2 DEF NothingRejected
    <2>2. ASSUME NEW a \in Acts, NEW o \in Orders, NEW rows \in Calls,
                 CreateDraftAct(a, o, rows)
          PROVE  NothingRejected'
        <3>1. acts' = [acts EXCEPT ![a] = [NoAct EXCEPT !.status = "draft",
                                                        !.order = o,
                                                        !.rows = rows]]
            BY <2>2 DEF CreateDraftAct
        <3>2. \A b \in Acts : acts'[b] = acts[b] \/ acts'[b].status = "draft"
            BY <1>1, <3>1 DEF NoAct
        <3>3. UNCHANGED <<orders, slots>>
            BY <2>2 DEF CreateDraftAct
        <3> QED
            BY <3>2, <3>3 DEF NothingRejected
    <2> QED
        BY <1>4, <2>1, <2>2 DEF Insert
<1>5. ASSUME NEW s \in Slots, NEW o \in Orders, OrderRequest(s, o)
      PROVE  NothingRejected'
    <2>1. /\ UNCHANGED <<orders, acts>>
          /\ \A t \in Slots : slots'[t] = slots[t]
                                \/ slots'[t].at \in {"patch", "start"}
        BY <1>1, <1>5 DEF OrderRequest, PatchLoad, StartLoad, Idle
    <2> QED
        BY <2>1 DEF NothingRejected
<1>6. ASSUME NEW s \in Slots, NEW a \in Acts, ActRequest(s, a)
      PROVE  NothingRejected'
    <2>1. /\ UNCHANGED <<orders, acts>>
          /\ \A t \in Slots : slots'[t] = slots[t]
                                \/ slots'[t].at \in {"submit_loaded", "review_act"}
        BY <1>1, <1>6 DEF ActRequest, SubmitLoad, ReviewLoadAct, Idle
    <2> QED
        BY <2>1 DEF NothingRejected
<1>7. ASSUME NEW s \in Slots, Serve(s)
      PROVE  NothingRejected'
    <2>1. CASE PatchCommit(s) \/ StartCommit(s)
        BY <1>1, <1>2, <1>3, <2>1
        DEF PatchCommit, StartCommit, NothingRejected, Written, OrderRow
    <2>2. CASE SubmitClear(s) \/ SubmitFlush(s) \/ SubmitJudge(s) \/ Refuse(s)
        <3>1. /\ UNCHANGED <<orders, acts>>
              /\ \A t \in Slots :
                    \/ slots'[t] = slots[t]
                    \/ slots'[t].at \in {"idle", "submit_cleared",
                                        "submit_flushed", "submit_judged"}
            BY <1>1, <1>3, <2>2
            DEF SubmitClear, SubmitFlush, SubmitJudge, Refuse, Session
        <3> QED
            BY <3>1 DEF NothingRejected
    <2>3. CASE SubmitStore(s)
        <3>1. slots[s].at \in SubmitStage
            BY <2>3 DEF SubmitStore, SubmitStage
        <3>2. \A t \in Slots : slots'[t] = slots[t]
                                 \/ slots'[t].at = "submit_stored"
            BY <1>1, <2>3 DEF SubmitStore, Session
        <3>3. \A o \in Orders : orders'[o].status # "rejected"
            BY <1>1, <1>2, <2>3
            DEF SubmitStore, NothingRejected, Written, OrderRow
        <3>4. \A a \in Acts : acts'[a].status # "rejected"
            BY <1>1, <1>2, <2>3, <3>1
            DEF SubmitStore, NothingRejected, Written, ActRow
        <3> QED
            BY <3>2, <3>3, <3>4 DEF NothingRejected
    <2>4. ASSUME NEW verdict \in Verdict, SubmitDecide(s, verdict)
          PROVE  NothingRejected'
        <3>1. PICK status \in {"auto_confirmed", "delayed_verification"} :
                  status = IF verdict = "pass" THEN "auto_confirmed"
                                               ELSE "delayed_verification"
            OBVIOUS
        <3>2. \A t \in Slots : slots'[t] = slots[t] \/ slots'[t].at = "idle"
            BY <1>1, <1>3, <2>4 DEF SubmitDecide
        <3>3. \A o \in Orders : orders'[o].status \in {orders[o].status, status}
            BY <1>1, <2>4, <3>1 DEF SubmitDecide, OrderRow
        <3>4. \A a \in Acts : acts'[a].status \in {acts[a].status, status}
            BY <1>1, <2>4, <3>1 DEF SubmitDecide, ActRow
        <3> QED
            BY <3>2, <3>3, <3>4 DEF NothingRejected
    <2>5. CASE ReviewLoadOrder(s)
        <3>1. /\ UNCHANGED <<orders, acts>>
              /\ slots'[s].target = slots[s].target
              /\ \A t \in Slots \ {s} : slots'[t] = slots[t]
              /\ slots[s].order \in Orders
              /\ can_transition(orders[slots[s].order].status, slots[s].target)
            BY <1>1, <2>5, Types DEF ReviewLoadOrder, Session, SessionRefers
        <3>2. slots[s].target # "rejected"
            BY <3>1, NoWayToRejected DEF NothingRejected
        <3> QED
            BY <3>1, <3>2 DEF NothingRejected
    <2>6. CASE ReviewCommit(s)
        <3>1. slots[s].at = "review_order"
            BY <2>6 DEF ReviewCommit
        <3>2. \A t \in Slots : slots'[t] = slots[t] \/ slots'[t].at = "idle"
            BY <1>1, <1>3, <2>6 DEF ReviewCommit
        <3>3. \A o \in Orders : orders'[o].status # "rejected"
            BY <1>1, <1>2, <2>6
            DEF ReviewCommit, NothingRejected, Written, OrderRow
        <3>4. \A a \in Acts : acts'[a].status # "rejected"
            BY <1>1, <1>2, <2>6, <3>1
            DEF ReviewCommit, NothingRejected, Written, ActRow
        <3> QED
            BY <3>2, <3>3, <3>4 DEF NothingRejected
    <2> QED
        BY <1>7, <2>1, <2>2, <2>3, <2>4, <2>5, <2>6 DEF Serve
<1>8. ASSUME NEW s \in Slots, Die(s)
      PROVE  NothingRejected'
    BY <1>1, <1>3, <1>8 DEF Die, NothingRejected
<1>9. CASE UNCHANGED vars
    BY <1>9 DEF vars, NothingRejected
<1> QED
    BY <1>4, <1>5, <1>6, <1>7, <1>8, <1>9 DEF Next

\* What a request leaves of the acts that another query has seen.
LEMMA StepSettles ==
    ASSUME SessionsStayValid, ApartInv, NothingRejected, [Next]_vars
    PROVE  ActsSettle
<1> SUFFICES ASSUME NEW a \in Acts, acts'[a] # acts[a], acts[a].status # Absent
             PROVE  /\ acts[a].status \in Accepted => acts'[a].status \in Accepted
                    /\ acts[a].status = "confirmed"
                           => acts'[a].status = "confirmed"
                    /\ acts[a].status \in Live => acts'[a].status \in Live
                    /\ acts[a].status \in Outcome
                           => /\ acts'[a].status \in Outcome
                              /\ acts'[a].rows = acts[a].rows
                              /\ acts'[a].judged = acts[a].judged
    BY DEF ActsSettle, Accepted, Live, Outcome, Absent
<1>1. acts \in [Acts -> ActRow]
    BY DEF SessionsStayValid, TypeOK
<1>2. ~Insert
    <2>1. \A o \in Orders, c \in Contractors \cup {None} : ~CreateOrder(o, c)
        BY DEF CreateOrder
    <2>2. \A b \in Acts, o \in Orders, rows \in Calls : ~CreateDraftAct(b, o, rows)
        BY <1>1 DEF CreateDraftAct
    <2> QED
        BY <2>1, <2>2 DEF Insert
<1>3. ActStep
    BY <1>2, StepIsAMove DEF ApartInv, OrderStep
<1> PICK status \in Produced : BothMove(a, status)
    BY <1>3 DEF ActStep, BothMove
<1>4. acts[a].order \in Orders
    BY MovedActExists
<1>5. /\ can_act_transition(acts[a].status, status)
      /\ can_transition(orders[acts[a].order].status, status)
      /\ acts'[a].status = status
      /\ acts[a].status \in Outcome
             => /\ acts'[a].rows = acts[a].rows
                /\ acts'[a].judged = acts[a].judged
    BY DEF BothMove, OrderMoves, RowTells
<1>6. status # "rejected"
    BY <1>4, <1>5, NoWayToRejected DEF NothingRejected
<1> QED
    BY <1>5, <1>6
    DEF Produced, can_act_transition, ACT_TRANSITIONS, Accepted, Live, Outcome,
        Absent

-----------------------------------------------------------------------------
(* Answers *)

\* A part is counted, and is no larger than the whole.
LEMMA PartIsCounted ==
    ASSUME NEW S, IsFiniteSet(S), NEW T \in SUBSET S
    PROVE  /\ IsFiniteSet(T)
           /\ Cardinality(T) \in 0..Cardinality(S)
BY FS_Subset, FS_CardinalityType

\* Every query of an answer.
Answering ==
    \/ \E a \in Acts : DetailAct(a)
    \/ DetailResponses \/ DetailOrder
    \/ SummaryTotal \/ SummaryAuto \/ SummaryPending \/ SummaryRejected

LEMMA AnsweringKeepsTables == Answering => UNCHANGED vars
BY DEF Answering, DetailAct, DetailResponses, DetailOrder, SummaryTotal,
       SummaryAuto, SummaryPending, SummaryRejected, Begin

\* Every answer has its type at every query.
LEMMA AnswersAreTyped ==
    ASSUME SessionsStayValid, reading \in Reading, ReadingRefers, Answering
    PROVE  (reading \in Reading)' /\ ReadingRefers'
<1>1. acts \in [Acts -> ActRow] /\ acts' = acts
    BY AnsweringKeepsTables DEF SessionsStayValid, TypeOK, vars
<1>2. Cardinality(Acts) \in Nat /\ Cardinality(Known) \in 0..Cardinality(Acts)
    BY RatingAssumption, FS_CardinalityType, PartIsCounted DEF Known
<1>3. NotReading \in Reading /\ NotReading.at = "idle"
    BY <1>2 DEF NotReading, Reading
<1> PICK r : r = reading
    OBVIOUS
<1>4. ASSUME NEW a \in Acts, DetailAct(a)
      PROVE  (reading \in Reading)' /\ ReadingRefers'
    <2>1. /\ reading' = [NotReading EXCEPT !.at = "act", !.act = a,
                                           !.status = acts[a].status,
                                           !.judged = acts[a].judged]
          /\ acts[a].status # Absent
        BY <1>4 DEF DetailAct
    <2>2. acts[a].status \in ActStatus /\ acts[a].judged \in SUBSET Batches
        BY <1>1, <2>1 DEF ActRow
    <2>3. reading' \in Reading /\ reading'.act = a
        BY <1>3, <2>1, <2>2 DEF Reading
    <2> QED
        BY <1>1, <2>1, <2>3 DEF ReadingRefers
<1>5. CASE DetailResponses
    <2>1. r.at = "act" /\ r.act \in Acts /\ acts[r.act].status # Absent
        BY <1>5 DEF DetailResponses, ReadingRefers
    <2>2. acts[r.act].rows \in SUBSET Batches
        BY <1>1, <2>1 DEF ActRow
    <2>3. reading' = [r EXCEPT !.at = "responses", !.rows = acts[r.act].rows]
        BY <1>5 DEF DetailResponses
    <2>4. reading' \in Reading /\ reading'.act = r.act
        BY <2>2, <2>3 DEF Reading
    <2> QED
        BY <1>1, <2>1, <2>4 DEF ReadingRefers
<1>6. CASE DetailOrder \/ SummaryRejected
    <2>1. reading' = NotReading
        BY <1>6 DEF DetailOrder, SummaryRejected
    <2> QED
        BY <1>3, <2>1 DEF ReadingRefers
<1>7. CASE SummaryTotal
    <2>1. reading' = [NotReading EXCEPT !.at = "total",
                                        !.total_acts = Cardinality(Known)]
        BY <1>7 DEF SummaryTotal
    <2>2. reading' \in Reading /\ reading'.at = "total"
        BY <1>2, <1>3, <2>1 DEF Reading
    <2> QED
        BY <2>2 DEF ReadingRefers
<1>8. CASE SummaryAuto \/ SummaryPending
    <2>1. PICK part \in SUBSET Acts :
              \/ reading' = [r EXCEPT !.at = "auto", !.auto_confirmed = part]
              \/ reading' = [r EXCEPT !.at = "pending", !.pending_review = part]
        BY <1>8 DEF SummaryAuto, SummaryPending, With
    <2>2. reading' \in Reading /\ reading'.at \in {"auto", "pending"}
        BY <2>1 DEF Reading
    <2> QED
        BY <2>2 DEF ReadingRefers
<1> QED
    BY <1>4, <1>5, <1>6, <1>7, <1>8 DEF Answering

\* The queries of GET /acts/{id} see one version of what a check decided, and
\* those of the summary count disjoint sets of acts.
LEMMA AnswersStaySound ==
    ASSUME SessionsStayValid, ApartInv, reading \in Reading, ReadingRefers,
           ReadingIsSound, Answering
    PROVE  ReadingIsSound'
<1>1. acts' = acts
    BY AnsweringKeepsTables DEF vars
<1>2. Known' = Known /\ \A S : With(S)' = With(S)
    BY <1>1 DEF Known, With
<1>3. NotReading.at = "idle"
    BY DEF NotReading
<1>4. \A a \in Acts : ActIsEarned(a)
    BY DEF ApartInv
<1> PICK r : r = reading
    OBVIOUS
<1>5. ASSUME NEW a \in Acts, DetailAct(a)
      PROVE  ReadingIsSound'
    <2>1. /\ reading'.at = "act" /\ reading'.act = a
          /\ reading'.status = acts[a].status
          /\ reading'.judged = acts[a].judged
        BY <1>5 DEF DetailAct, NotReading
    <2> QED
        BY <1>1, <2>1 DEF ReadingIsSound
<1>6. CASE DetailResponses
    <2>1. r.at = "act"
              /\ reading' = [r EXCEPT !.at = "responses",
                                      !.rows = acts[r.act].rows]
        BY <1>6 DEF DetailResponses
    <2>2. /\ r.act \in Acts
          /\ r.status = "confirmed" => acts[r.act].status = "confirmed"
          /\ r.status \in Outcome => /\ acts[r.act].status \in Outcome
                                     /\ acts[r.act].judged = r.judged
        BY <2>1 DEF ReadingIsSound, ReadingRefers
    <2>3. /\ reading'.at = "responses" /\ reading'.act = r.act
          /\ reading'.status = r.status /\ reading'.judged = r.judged
          /\ reading'.rows = acts[r.act].rows
        BY <2>1 DEF Reading
    <2>4. r.status \in Outcome => acts[r.act].rows = r.judged
        BY <1>4, <2>2 DEF ActIsEarned
    <2> QED
        BY <1>1, <2>2, <2>3, <2>4 DEF ReadingIsSound
<1>7. CASE DetailOrder \/ SummaryRejected
    BY <1>3, <1>7 DEF DetailOrder, SummaryRejected, ReadingIsSound
<1>8. CASE SummaryTotal
    <2>1. reading'.at = "total" /\ reading'.total_acts = Cardinality(Known)
        BY <1>8 DEF SummaryTotal, NotReading
    <2> QED
        BY <1>2, <2>1 DEF ReadingIsSound
<1>9. CASE SummaryAuto
    <2>1. r.at = "total"
              /\ reading' = [r EXCEPT
                               !.at = "auto",
                               !.auto_confirmed = With({"auto_confirmed"})]
        BY <1>9 DEF SummaryAuto
    <2>2. /\ reading'.at = "auto" /\ reading'.created = r.created
          /\ reading'.total_acts = r.total_acts
          /\ reading'.auto_confirmed = With({"auto_confirmed"})
        BY <2>1 DEF Reading
    <2>3. With({"auto_confirmed"}) \subseteq With(Accepted)
        BY DEF With, Accepted
    <2>4. ~r.created => r.total_acts = Cardinality(Known)
        BY <2>1 DEF ReadingIsSound
    <2> QED
        BY <1>1, <1>2, <2>2, <2>3, <2>4 DEF ReadingIsSound, With
<1>10. CASE SummaryPending
    <2>1. r.at = "auto"
              /\ reading' = [r EXCEPT
                               !.at = "pending",
                               !.pending_review =
                                   With({"submitted", "delayed_verification"})]
        BY <1>10 DEF SummaryPending
    <2>2. /\ reading'.at = "pending" /\ reading'.created = r.created
          /\ reading'.total_acts = r.total_acts
          /\ reading'.auto_confirmed = r.auto_confirmed
          /\ reading'.pending_review
                = With({"submitted", "delayed_verification"})
        BY <2>1 DEF Reading
    <2>3. /\ r.auto_confirmed \subseteq With(Accepted)
          /\ ~r.created => r.total_acts = Cardinality(Known)
        BY <2>1 DEF ReadingIsSound
    <2>4. /\ With({"submitted", "delayed_verification"}) \subseteq With(Live)
          /\ r.auto_confirmed \cap With({"submitted", "delayed_verification"})
                = {}
        BY <2>3 DEF With, Live, Accepted
    <2> QED
        BY <1>1, <1>2, <2>2, <2>3, <2>4 DEF ReadingIsSound, With
<1> QED
    BY <1>5, <1>6, <1>7, <1>8, <1>9, <1>10 DEF Answering

\* A request between two queries leaves the answer as it was put together.
LEMMA MeanwhileKeepsAnswer ==
    ASSUME reading \in Reading, Meanwhile
    PROVE  \E created \in BOOLEAN :
               /\ created = (reading.created
                                \/ (reading.at \in {"total", "auto", "pending"}
                                      /\ Known' # Known))
               /\ reading' = [reading EXCEPT !.created = created]
               /\ reading' \in Reading
BY DEF Meanwhile, Reading

\* It leaves what has been read true enough.
LEMMA MeanwhileStaysSound ==
    ASSUME ActsSettle, reading \in Reading, ReadingRefers, ReadingIsSound,
           Meanwhile
    PROVE  ReadingIsSound'
<1> PICK r : r = reading
    OBVIOUS
<1>1. PICK created \in BOOLEAN :
          /\ created = (r.created \/ (r.at \in {"total", "auto", "pending"}
                                        /\ Known' # Known))
          /\ reading' = [r EXCEPT !.created = created]
    BY MeanwhileKeepsAnswer
<1>2. /\ reading'.at = r.at /\ reading'.act = r.act
      /\ reading'.status = r.status /\ reading'.judged = r.judged
      /\ reading'.rows = r.rows /\ reading'.total_acts = r.total_acts
      /\ reading'.auto_confirmed = r.auto_confirmed
      /\ reading'.pending_review = r.pending_review
      /\ reading'.created = created
    BY <1>1 DEF Reading
<1>3. With(Accepted) \subseteq With(Accepted)' /\ With(Live) \subseteq With(Live)'
    BY DEF With, ActsSettle
<1>4. r.at \in {"act", "responses"} /\ r.status = "confirmed"
          => acts'[r.act].status = "confirmed"
    BY DEF ReadingIsSound, ReadingRefers, ActsSettle
<1>5. r.at = "act" /\ r.status \in Outcome
          => /\ acts'[r.act].status \in Outcome
             /\ acts'[r.act].judged = r.judged
    BY DEF ReadingIsSound, ReadingRefers, ActsSettle
<1>6. r.at = "responses" /\ r.status \in Outcome => r.rows = r.judged
    BY DEF ReadingIsSound
<1>7. r.at \in {"auto", "pending"}
          => r.auto_confirmed \subseteq With(Accepted)'
    BY <1>3 DEF ReadingIsSound
<1>8. r.at = "pending"
          => /\ r.pending_review \subseteq With(Live)'
             /\ r.auto_confirmed \cap r.pending_review = {}
    BY <1>3 DEF ReadingIsSound
<1>9. r.at \in {"total", "auto", "pending"} /\ ~created
          => r.total_acts = Cardinality(Known')
    BY <1>1 DEF ReadingIsSound
<1> QED
    BY <1>2, <1>4, <1>5, <1>6, <1>7, <1>8, <1>9 DEF ReadingIsSound

-----------------------------------------------------------------------------
(* The score *)

\* seed.py:472, in hundredths.
Scale == 0..10000

LEMMA ProductGrows ==
    ASSUME NEW a \in Nat, NEW b \in Nat, NEW c \in Nat, a <= b
    PROVE  a * c \in Nat /\ b * c \in Nat /\ a * c <= b * c
OBVIOUS

\* A quotient is a number, and below m when the dividend is below m divisors.
LEMMA Quotient ==
    ASSUME NEW n \in Int, NEW d \in Nat \ {0}
    PROVE  n \div d \in Int
OBVIOUS

LEMMA QuotientIsBounded ==
    ASSUME NEW n \in Nat, NEW d \in Nat \ {0}, n < 10001 * d
    PROVE  n \div d \in 0..10000
OBVIOUS

\* Whatever is counted, the rounded mean of three shares is a number.
LEMMA TotalIsANumber ==
    ASSUME NEW total \in Nat \ {0}, NEW completed \in Nat, NEW rejected \in Nat,
           NEW scored \in Nat \ {0}, NEW sum \in Nat
    PROVE  Total(total, completed, rejected, scored, sum) \in Int
<1>1. PICK d \in Nat \ {0} : d = 2 * total * scored
    OBVIOUS
<1>2. PICK n \in Int : n = 2 * Weighted(total, completed, rejected, scored, sum)
                              + total * scored
    BY DEF Weighted
<1> QED
    BY <1>1, <1>2, Quotient DEF Total

\* Shares of at most one, weighted 0.4, 0.3 and 0.3, stay on the scale.
LEMMA TotalIsOnScale ==
    ASSUME NEW total \in Nat \ {0}, NEW completed \in Nat, NEW rejected \in Nat,
           completed + rejected <= total,
           NEW scored \in Nat \ {0}, NEW sum \in Nat, sum <= 100 * scored
    PROVE  Total(total, completed, rejected, scored, sum) \in Scale
<1>1. PICK whole \in Nat \ {0} : whole = total * scored
    OBVIOUS
<1>2. PICK complete \in Nat : complete = completed * scored /\ complete <= whole
    BY <1>1, ProductGrows
<1>3. PICK timely \in Nat :
          timely = (total - rejected) * scored /\ timely <= whole
    <2>1. total - rejected \in Nat /\ total - rejected <= total
        OBVIOUS
    <2> QED
        BY <1>1, <2>1, ProductGrows
<1>4. PICK quality \in Nat : quality = sum * total /\ quality <= 100 * whole
    <2>1. sum * total \in Nat /\ sum * total <= (100 * scored) * total
        BY ProductGrows
    <2>2. (100 * scored) * total = 100 * whole
        BY <1>1
    <2> QED
        BY <2>1, <2>2
<1>5. Weighted(total, completed, rejected, scored, sum)
          = 4000 * complete + 3000 * timely + 30 * quality
    <2>1. /\ 4000 * completed * scored = 4000 * complete
          /\ 3000 * (total - rejected) * scored = 3000 * timely
          /\ 30 * sum * total = 30 * quality
        BY <1>2, <1>3, <1>4
    <2> QED
        BY <2>1 DEF Weighted
<1>6. PICK n \in Nat : /\ n = 2 * Weighted(total, completed, rejected, scored,
                                           sum) + total * scored
                       /\ n <= 20001 * whole
    BY <1>1, <1>2, <1>3, <1>4, <1>5
<1>7. PICK d \in Nat \ {0} : d = 2 * total * scored /\ d = 2 * whole
    BY <1>1
<1>8. n < 10001 * d
    BY <1>6, <1>7
<1>9. Total(total, completed, rejected, scored, sum) = n \div d
    BY <1>6, <1>7 DEF Total
<1>10. n \div d \in 0..10000
    BY <1>8, QuotientIsBounded, SMTT(30)
<1> QED
    BY <1>9, <1>10, SMTT(30) DEF Scale

\* A score is at most 100, so their sum is at most 100 for each.
LEMMA ScoresAddUp ==
    ASSUME NEW m \in Nat, NEW n \in Nat, NEW x \in 0..100, NEW y \in 0..100
    PROVE  m * x + n * y \in 0..(100 * (m + n))
<1>1. /\ x * m \in Nat /\ x * m <= 100 * m
      /\ y * n \in Nat /\ y * n <= 100 * n
    BY ProductGrows
<1>2. /\ m * x = x * m /\ n * y = y * n
      /\ 100 * (m + n) = 100 * m + 100 * n
    OBVIOUS
<1> QED
    BY <1>1, <1>2

\* The score of a recalculation that found an order is a weighted mean; without
\* scored acts the quality counts half.
LEMMA ScoreIsATotal ==
    ASSUME recalc \in Recalc, recalc.total > 0
    PROVE  /\ recalc.total \in Nat \ {0}
           /\ Cardinality(recalc.completed) \in Nat
           /\ Cardinality(ActsIn({"rejected"})) \in Nat
           /\ \E scored \in Nat \ {0}, sum \in Nat :
                 /\ sum <= 100 * scored
                 /\ total_score = Total(recalc.total,
                                        Cardinality(recalc.completed),
                                        Cardinality(ActsIn({"rejected"})),
                                        scored, sum)
<1>1. /\ Scored("pass") \in SUBSET Acts /\ Scored("fail") \in SUBSET Acts
      /\ ActsIn({"rejected"}) \in SUBSET Acts /\ recalc.completed \in SUBSET Acts
    BY DEF Scored, ActsIn, Recalc
<1>2. PICK passed, failed, completed, rejected :
          /\ passed = Cardinality(Scored("pass"))
          /\ failed = Cardinality(Scored("fail"))
          /\ completed = Cardinality(recalc.completed)
          /\ rejected = Cardinality(ActsIn({"rejected"}))
    OBVIOUS
<1>3. passed \in Nat /\ failed \in Nat /\ rejected \in Nat /\ completed \in Nat
    BY <1>1, <1>2, RatingAssumption, PartIsCounted, FS_CardinalityType
<1>4. PICK x \in 0..100, y \in 0..100 :
          x = auto_check_score["pass"] /\ y = auto_check_score["fail"]
    BY RatingAssumption DEF Verdict
<1>5. recalc.total \in Nat \ {0}
    BY RatingAssumption, FS_CardinalityType DEF Recalc
<1>6. total_score = IF passed + failed = 0
                      THEN Total(recalc.total, completed, rejected, 1, 50)
                      ELSE Total(recalc.total, completed, rejected,
                                 passed + failed, passed * x + failed * y)
    BY <1>2, <1>4 DEF total_score
<1>7. passed * x + failed * y \in 0..(100 * (passed + failed))
    BY <1>3, ScoresAddUp
<1>8. \E scored \in Nat \ {0}, sum \in Nat :
          /\ sum <= 100 * scored
          /\ total_score = Total(recalc.total, completed, rejected, scored, sum)
    <2>1. CASE passed + failed = 0
        <3>1. 50 <= 100 * 1
            OBVIOUS
        <3> QED
            BY <1>6, <2>1, <3>1
    <2>2. CASE passed + failed # 0
        <3>1. PICK scored \in Nat \ {0}, sum \in Nat :
                  /\ scored = passed + failed
                  /\ sum = passed * x + failed * y
                  /\ sum <= 100 * scored
            BY <1>3, <1>7, <2>2
        <3> QED
            BY <1>6, <2>2, <3>1
    <2> QED
        BY <2>1, <2>2
<1> QED
    BY <1>2, <1>3, <1>5, <1>8

LEMMA ScoreIsANumber ==
    ASSUME recalc \in Recalc, recalc.total > 0
    PROVE  total_score \in Int
BY ScoreIsATotal, TotalIsANumber

\* It is on the scale when the acts it counts are no more than the orders.
LEMMA ScoreIsOnScale ==
    ASSUME recalc \in Recalc, recalc.total > 0,
           Cardinality(recalc.completed) + Cardinality(ActsIn({"rejected"}))
               <= recalc.total
    PROVE  total_score \in Scale
<1>1. PICK total \in Nat \ {0}, completed \in Nat, rejected \in Nat :
          /\ total = recalc.total
          /\ completed = Cardinality(recalc.completed)
          /\ rejected = Cardinality(ActsIn({"rejected"}))
    BY ScoreIsATotal
<1>2. PICK scored \in Nat \ {0}, sum \in Nat :
          /\ sum <= 100 * scored
          /\ total_score = Total(total, completed, rejected, scored, sum)
    BY <1>1, ScoreIsATotal
<1>3. completed + rejected <= total
    BY <1>1
<1>4. sum <= 100 * scored
    BY <1>2
<1>5. Total(total, completed, rejected, scored, sum) \in Scale
    BY <1>3, <1>4, TotalIsOnScale
<1> QED
    BY <1>2, <1>5

-----------------------------------------------------------------------------
(* Recalculations *)

\* Nothing is rejected: a rating counts the completed acts alone, each once.
LEMMA CountedOnce ==
    ASSUME NothingRejected, recalc \in Recalc
    PROVE  /\ Cardinality(recalc.completed) \in 0..Cardinality(Acts)
           /\ Cardinality(ActsIn({"rejected"})) = 0
<1>1. ActsIn({"rejected"}) = {}
    BY DEF ActsIn, NothingRejected
<1>2. recalc.completed \in SUBSET Acts
    BY DEF Recalc
<1> QED
    BY <1>1, <1>2, RatingAssumption, PartIsCounted, FS_EmptySet

\* A request between two queries leaves the recalculation as it is, and notes
\* whether an order changed hands.
LEMMA RequestKeepsRecalc ==
    ASSUME recalc \in Recalc, Request
    PROVE  /\ recalc' \in Recalc
           /\ \A field \in {"at", "total", "completed", "accepted"} :
                 recalc'[field] = recalc[field]
           /\ recalc'.moved
                 = (recalc.moved \/ (recalc.at # "idle" /\ OrdersOf' # OrdersOf))
BY DEF Request, Recalc

LEMMA RequestKeepsCounts ==
    ASSUME ActsStay, RatingTypeOK, RecalcCounts, Request
    PROVE  RatingTypeOK' /\ RecalcCounts'
<1> PICK c : c = recalc
    OBVIOUS
<1>1. /\ c \in Recalc /\ recalc' \in Recalc
      /\ recalc'.at = c.at /\ recalc'.total = c.total
      /\ recalc'.completed = c.completed
      /\ recalc'.moved = (c.moved \/ (c.at # "idle" /\ OrdersOf' # OrdersOf))
    BY RequestKeepsRecalc DEF RatingTypeOK
<1>2. RatingTypeOK'
    BY <1>1 DEF RatingTypeOK, Request
<1>3. c.at # "idle" /\ ~recalc'.moved => ~c.moved /\ OrdersOf' = OrdersOf
    BY <1>1
<1>4. c.completed \in SUBSET Acts
    BY <1>1 DEF Recalc
<1>5. c.at = "completed" /\ ~recalc'.moved
          => \A a \in c.completed : /\ acts'[a].status # Absent
                                    /\ acts'[a].order \in OrdersOf'
    BY <1>3, <1>4 DEF RecalcCounts, ActsStay
<1>6. c.at # "idle" => c.total > 0
    BY DEF RecalcCounts
<1>7. c.at # "idle" /\ ~recalc'.moved => c.total = Cardinality(OrdersOf')
    BY <1>3 DEF RecalcCounts
<1>8. RecalcCounts'
    BY <1>1, <1>5, <1>6, <1>7 DEF RecalcCounts
<1> QED
    BY <1>2, <1>8

LEMMA RequestKeepsSound ==
    ASSUME ActsStay, ActsSettle, recalc \in Recalc, RecalcIsSound, Request
    PROVE  RecalcIsSound'
<1> PICK c : c = recalc
    OBVIOUS
<1>1. /\ recalc'.at = c.at /\ recalc'.completed = c.completed
      /\ recalc'.accepted = c.accepted
      /\ recalc'.moved = (c.moved \/ (c.at # "idle" /\ OrdersOf' # OrdersOf))
    BY RequestKeepsRecalc
<1>2. c.completed \in SUBSET Acts
    BY DEF Recalc
<1>3. c.at # "idle" /\ ~recalc'.moved => ~c.moved /\ OrdersOf' = OrdersOf
    BY <1>1
<1>4. OrdersOf' = OrdersOf => ActsIn(Accepted) \subseteq ActsIn(Accepted)'
    BY DEF ActsIn, ActsStay, ActsSettle, Accepted, Absent
<1>5. c.at # "idle" /\ ~recalc'.moved => c.accepted \subseteq ActsIn(Accepted)'
    BY <1>3, <1>4 DEF RecalcIsSound
<1>6. c.at = "completed" => \A a \in c.completed : acts'[a].status \in Accepted
    BY <1>2 DEF RecalcIsSound, ActsSettle
<1>7. c.at = "completed" /\ ~recalc'.moved => c.accepted \subseteq c.completed
    BY <1>3 DEF RecalcIsSound
<1> QED
    BY <1>1, <1>5, <1>6, <1>7 DEF RecalcIsSound

\* The queries of a recalculation.
LEMMA RecalcStaysSound ==
    ASSUME SessionsStayValid, NothingRejected, RatingTypeOK, RecalcCounts,
           RecalcOrders \/ RecalcCompleted \/ RecalcCommit \/ RecalcDies
    PROVE  /\ RatingTypeOK' /\ RecalcCounts'
           /\ RecalcIsSound => RecalcIsSound'
<1> PICK c : c = recalc
    OBVIOUS
<1>1. UNCHANGED <<orders, acts>>
    BY DEF RecalcOrders, RecalcCompleted, RecalcCommit, RecalcDies, vars
<1>2. /\ OrdersOf' = OrdersOf /\ ActsIn(Accepted)' = ActsIn(Accepted)
      /\ ActsIn(Accepted) \in SUBSET Acts
      /\ \A a \in ActsIn(Accepted) : /\ acts[a].status \in Accepted
                                     /\ acts[a].status # Absent
                                     /\ acts[a].order \in OrdersOf
    BY <1>1 DEF OrdersOf, ActsIn, Accepted, Absent
<1>3. /\ c \in Recalc
      /\ IsFiniteSet(OrdersOf)
      /\ Cardinality(OrdersOf) \in 0..Cardinality(Orders)
      /\ Cardinality(Orders) \in Nat /\ Cardinality(Acts) \in Nat
    BY RatingAssumption, PartIsCounted, FS_CardinalityType
    DEF OrdersOf, RatingTypeOK
<1>4. NoRecalc \in Recalc /\ NoRecalc.at = "idle"
    BY <1>3 DEF NoRecalc, Recalc
<1>5. CASE RecalcOrders
    <2>1. recalcs' \in 0..MaxRecalcs
        BY <1>5, RatingAssumption DEF RecalcOrders, RatingTypeOK
    <2>2. CASE OrdersOf = {}
        <3>1. recalc' = recalc /\ rating_score' = 0 /\ ratings' = ratings
            BY <1>5, <2>2 DEF RecalcOrders
        <3> QED
            BY <1>1, <1>2, <2>1, <3>1
            DEF RatingTypeOK, RecalcCounts, RecalcIsSound
    <2>3. CASE OrdersOf # {}
        <3>1. /\ recalc' = [NoRecalc EXCEPT !.at = "orders",
                                            !.total = Cardinality(OrdersOf),
                                            !.accepted = ActsIn(Accepted)]
              /\ rating_score' = rating_score /\ ratings' = ratings
            BY <1>5, <2>3 DEF RecalcOrders, Accepted
        <3>2. recalc' \in Recalc
            BY <1>2, <1>3, <1>4, <3>1 DEF Recalc
        <3>3. /\ recalc'.at = "orders" /\ recalc'.total = Cardinality(OrdersOf)
              /\ recalc'.accepted = ActsIn(Accepted)
            BY <3>1 DEF NoRecalc
        <3>4. Cardinality(OrdersOf) > 0
            BY <1>3, <2>3, FS_EmptySet
        <3>5. RatingTypeOK'
            BY <2>1, <3>1, <3>2 DEF RatingTypeOK
        <3>6. RecalcCounts' /\ RecalcIsSound'
            BY <1>2, <3>3, <3>4 DEF RecalcCounts, RecalcIsSound
        <3> QED
            BY <3>5, <3>6
    <2> QED
        BY <2>2, <2>3
<1>6. CASE RecalcCompleted
    <2>1. PICK verdicts \in [Acts -> Verdict \cup {None}] :
              verdicts = [a \in Acts |-> IF a \in ActsIn(Accepted)
                                           THEN acts[a].auto_check_passed
                                           ELSE None]
        BY DEF SessionsStayValid, TypeOK, ActRow
    <2>2. /\ c.at = "orders"
          /\ recalc' = [c EXCEPT !.at = "completed",
                                 !.completed = ActsIn(Accepted),
                                 !.verdicts = verdicts]
        BY <1>6, <2>1 DEF RecalcCompleted
    <2>3. recalc' \in Recalc
        BY <1>2, <1>3, <2>2 DEF Recalc
    <2>4. /\ recalc'.at = "completed" /\ recalc'.total = c.total
          /\ recalc'.completed = ActsIn(Accepted)
          /\ recalc'.accepted = c.accepted /\ recalc'.moved = c.moved
        BY <1>3, <2>2 DEF Recalc
    <2>5. RatingTypeOK'
        BY <1>6, <2>3 DEF RatingTypeOK, RecalcCompleted
    <2>6. c.total > 0 /\ (~c.moved => c.total = Cardinality(OrdersOf))
        BY <2>2 DEF RecalcCounts
    <2>7. RecalcCounts'
        BY <1>1, <1>2, <2>4, <2>6 DEF RecalcCounts
    <2>8. RecalcIsSound => RecalcIsSound'
        BY <1>1, <1>2, <2>2, <2>4 DEF RecalcIsSound
    <2> QED
        BY <2>5, <2>7, <2>8
<1>7. CASE RecalcCommit
    <2>1. c.at = "completed" /\ c.total > 0
        BY <1>7 DEF RecalcCommit, RecalcCounts
    <2>2. total_score \in Int
        BY <1>3, <2>1, ScoreIsANumber
    <2>3. /\ recalc' = NoRecalc /\ rating_score' = total_score
          /\ recalcs' = recalcs
          /\ ratings' = [orders_total |-> c.total,
                         orders_completed |-> Cardinality(c.completed),
                         orders_rejected |-> Cardinality(ActsIn({"rejected"})),
                         total_score |-> total_score]
        BY <1>7 DEF RecalcCommit
    <2>4. c.total \in 0..Cardinality(Orders)
        BY <1>3 DEF Recalc
    <2>5. RatingTypeOK'
        BY <1>3, <1>4, <2>2, <2>3, <2>4, CountedOnce DEF RatingTypeOK
    <2> QED
        BY <1>4, <2>3, <2>5 DEF RecalcCounts, RecalcIsSound
<1>8. CASE RecalcDies
    BY <1>4, <1>8 DEF RecalcDies, RatingTypeOK, RecalcCounts, RecalcIsSound
<1> QED
    BY <1>5, <1>6, <1>7, <1>8

\* An answer leaves the recalculation alone but for the bound.
LEMMA AnsweringKeepsRecalc ==
    ASSUME RatingTypeOK, RecalcCounts, Answering
    PROVE  /\ RatingTypeOK' /\ RecalcCounts'
           /\ RecalcIsSound => RecalcIsSound'
<1>1. UNCHANGED <<orders, acts>>
    BY AnsweringKeepsTables DEF vars
<1>2. UNCHANGED <<recalc, rating_score, ratings>>
    BY DEF Answering, DetailAct, DetailResponses, DetailOrder, SummaryTotal,
           SummaryAuto, SummaryPending, SummaryRejected, Begin, ratingVars
<1>3. recalcs' \in 0..MaxRecalcs
    <2>1. \/ recalcs' = recalcs
          \/ recalcs < MaxRecalcs /\ recalcs' = recalcs + 1
        BY DEF Answering, DetailAct, DetailResponses, DetailOrder,
               SummaryTotal, SummaryAuto, SummaryPending, SummaryRejected,
               Begin, ratingVars
    <2> QED
        BY <2>1, RatingAssumption DEF RatingTypeOK
<1>4. OrdersOf' = OrdersOf /\ ActsIn(Accepted)' = ActsIn(Accepted)
    BY <1>1 DEF OrdersOf, ActsIn
<1> QED
    BY <1>1, <1>2, <1>3, <1>4 DEF RatingTypeOK, RecalcCounts, RecalcIsSound

-----------------------------------------------------------------------------
(* The invariants *)

LEMMA ReaderInitSound == ReaderInit => ReaderInv /\ ApartReaderInv
<1> SUFFICES ASSUME ReaderInit PROVE ReaderInv /\ ApartReaderInv
    OBVIOUS
<1>1. Cardinality(Orders) \in Nat /\ Cardinality(Acts) \in Nat
    BY RatingAssumption, FS_CardinalityType
<1>2. NoRecalc \in Recalc /\ NotReading \in Reading /\ 0 \in 0..MaxRecalcs
    BY <1>1, RatingAssumption DEF NoRecalc, Recalc, NotReading, Reading
<1>3. ReaderTypeOK
    BY <1>1, <1>2
    DEF ReaderInit, RatingInit, ReaderTypeOK, RatingTypeOK, NoRating
<1>4. RecalcCounts /\ RecalcIsSound /\ ReadingRefers /\ ReadingIsSound
    BY DEF ReaderInit, RatingInit, NoRecalc, NotReading, RecalcCounts,
           RecalcIsSound, ReadingRefers, ReadingIsSound
<1>5. NothingRejected
    BY InitTables
    DEF ReaderInit, RatingInit, NothingRejected, NoAct, Absent, Init, Idle
<1> QED
    BY <1>3, <1>4, <1>5 DEF ReaderInv, ApartReaderInv

LEMMA ReaderStepSound ==
    ASSUME SessionsStayValid, ReaderInv, [ReaderNext]_readerVars
    PROVE  ReaderInv'
<1>1. NothingRejected' /\ ActsStay
    BY ReadersTakeRequests, StepRejectsNothing, StepLetsActsStay DEF ReaderInv
<1>2. CASE Answering
    BY <1>1, <1>2, AnsweringKeepsRecalc, AnswersAreTyped
    DEF ReaderInv, ReaderTypeOK
<1>3. CASE Meanwhile
    <2>1. RatingTypeOK' /\ RecalcCounts'
        BY <1>1, <1>3, RequestKeepsCounts, RecalcStaysSound
        DEF Meanwhile, RatingNext, ReaderInv, ReaderTypeOK
    <2>2. (reading \in Reading)' /\ reading'.at = reading.at
              /\ reading'.act = reading.act
        BY <1>3, MeanwhileKeepsAnswer DEF ReaderInv, ReaderTypeOK, Reading
    <2>3. ReadingRefers'
        BY <1>1, <2>2 DEF ReaderInv, ReadingRefers, ActsStay
    <2> QED
        BY <1>1, <2>1, <2>2, <2>3 DEF ReaderInv, ReaderTypeOK
<1>4. CASE UNCHANGED readerVars
    <2>1. UNCHANGED <<orders, acts, recalc, rating_score, ratings, recalcs,
                      reading>>
        BY <1>4 DEF readerVars, vars, ratingVars
    <2> QED
        BY <1>1, <2>1
        DEF ReaderInv, ReaderTypeOK, RatingTypeOK, RecalcCounts, OrdersOf,
            ReadingRefers
<1> QED
    BY <1>2, <1>3, <1>4 DEF ReaderNext, Answering

LEMMA ApartReaderStepSound ==
    ASSUME SessionsStayValid, ApartInv, ReaderInv, ApartReaderInv,
           [ReaderNext]_readerVars
    PROVE  ApartReaderInv'
<1>1. ActsStay /\ ActsSettle
    BY ReadersTakeRequests, StepLetsActsStay, StepSettles DEF ReaderInv
<1>2. CASE Answering
    BY <1>2, AnsweringKeepsRecalc, AnswersStaySound
    DEF ReaderInv, ReaderTypeOK, ApartReaderInv
<1>3. CASE Meanwhile
    <2>1. RecalcIsSound'
        BY <1>1, <1>3, RequestKeepsSound, RecalcStaysSound
        DEF Meanwhile, RatingNext, ReaderInv, ReaderTypeOK, RatingTypeOK,
            ApartReaderInv
    <2>2. ReadingIsSound'
        BY <1>1, <1>3, MeanwhileStaysSound
        DEF ReaderInv, ReaderTypeOK, ApartReaderInv
    <2> QED
        BY <2>1, <2>2 DEF ApartReaderInv
<1>4. CASE UNCHANGED readerVars
    <2>1. UNCHANGED <<orders, acts, recalc, reading>>
        BY <1>4 DEF readerVars, vars, ratingVars
    <2> QED
        BY <2>1
        DEF ApartReaderInv, RecalcIsSound, OrdersOf, ActsIn, ReadingIsSound,
            With, Known
<1> QED
    BY <1>2, <1>3, <1>4 DEF ReaderNext, Answering

LEMMA ReaderAlwaysSound == ReaderSpec => []ReaderInv
<1>1. ReaderSpec => []SessionsStayValid
    BY ReadersOnlyRead, SessionsAlwaysValid, PTL
<1>2. SessionsStayValid /\ ReaderInv /\ [ReaderNext]_readerVars => ReaderInv'
    BY ReaderStepSound
<1> QED
    BY <1>1, <1>2, ReaderInitSound, PTL DEF ReaderSpec

LEMMA ApartReaderAlwaysSound ==
    ReaderSpec /\ []Apart => [](ApartInv /\ ReaderInv /\ ApartReaderInv)
<1>1. ReaderSpec /\ []Apart => []SessionsStayValid /\ []ApartInv
    BY ReadersOnlyRead, SessionsAlwaysValid, ApartAlways, PTL
<1>2. SessionsStayValid /\ ApartInv /\ ReaderInv /\ ApartReaderInv
          /\ [ReaderNext]_readerVars => ApartReaderInv'
    BY ApartReaderStepSound
<1> QED
    BY <1>1, <1>2, ReaderInitSound, ReaderAlwaysSound, PTL DEF ReaderSpec

-----------------------------------------------------------------------------
(* The theorems: any interleaving *)

\* Every answer and every rating has its type, and no rating counts more acts
\* than there are.
THEOREM ReaderTypeCorrect == ReaderSpec => []ReaderTypeOK
<1>1. ReaderInv => ReaderTypeOK
    BY DEF ReaderInv
<1> QED
    BY <1>1, ReaderAlwaysSound, PTL

\* Acts of different orders are no more than the orders: the acts a rating
\* counts are all of one contractor and each has an order of its own.
LEMMA CommitIsOnScale ==
    ASSUME NothingRejected, recalc \in Recalc, RecalcCounts, RecalcCommit,
           ~recalc.moved, Single
    PROVE  rating_score' \in 0..10000
<1> PICK U : U = recalc.completed
    OBVIOUS
<1>1. /\ recalc.at = "completed" /\ recalc.total > 0
      /\ recalc.total = Cardinality(OrdersOf)
      /\ \A a \in U : acts[a].order \in OrdersOf
    BY DEF RecalcCounts, RecalcCommit
<1>2. U \subseteq Acts
    BY DEF Recalc
<1>3. None \notin Orders
    BY KeepIsNoStatus
<1> PICK f : f = [a \in U |-> acts[a].order]
    OBVIOUS
<1>4. f \in Injection(U, OrdersOf)
    BY <1>1, <1>2, <1>3 DEF Single, OrdersOf, Injection, IsInjective
<1>5. IsFiniteSet(OrdersOf) /\ Cardinality(U) <= Cardinality(OrdersOf)
    BY <1>4, RatingAssumption, PartIsCounted, FS_Injection DEF OrdersOf
<1>6. Cardinality(recalc.completed) + Cardinality(ActsIn({"rejected"}))
          <= recalc.total
    BY <1>1, <1>5, CountedOnce, RatingAssumption, FS_CardinalityType
<1>7. total_score \in Scale
    BY <1>1, <1>6, ScoreIsOnScale
<1> QED
    BY <1>7 DEF RecalcCommit, Scale

\* While no order changes hands and no order has had a second act, a rating is
\* between 0 and 100, however many orders and acts it is computed from and
\* however requests interleave between its queries.
THEOREM RatingsStayOnScale == ReaderSpec => ScaleHoldsWithoutRework
<1>1. ReaderInv
          => [RecalcCommit /\ ~recalc.moved /\ Single
                 => rating_score' \in 0..10000]_<<vars, ratingVars>>
    BY CommitIsOnScale DEF ReaderInv, ReaderTypeOK, RatingTypeOK
<1> QED
    BY <1>1, ReaderAlwaysSound, PTL DEF ScaleHoldsWithoutRework

-----------------------------------------------------------------------------
(* The theorems: requests apart from each other *)

\* GET /acts/{id} shows a verdict with the responses it was reached on and an
\* accepted act with its accepted order, whatever commits between its queries,
\* as long as no two requests in flight are for the same order.
THEOREM DetailsAreConsistent == ReaderSpec /\ []Apart => DetailTellsVerdict
<1>1. ASSUME ApartInv, ReadingRefers, ReadingIsSound, DetailOrder
      PROVE  /\ reading.status \in Outcome => reading.rows = reading.judged
             /\ reading.status = "confirmed"
                    => orders[acts[reading.act].order].status = "confirmed"
    BY <1>1
    DEF DetailOrder, ReadingRefers, ReadingIsSound, ApartInv, ActIsEarned
<1>2. ApartInv /\ ReaderInv /\ ApartReaderInv
          => [DetailOrder =>
                /\ reading.status \in Outcome => reading.rows = reading.judged
                /\ reading.status = "confirmed"
                       => orders[acts[reading.act].order].status = "confirmed"
             ]_readerVars
    BY <1>1 DEF ReaderInv, ApartReaderInv
<1> QED
    BY <1>2, ApartReaderAlwaysSound, PTL DEF DetailTellsVerdict

\* Parts of a finite set, no two of which meet, count together no more than it.
LEMMA PartsAddUp ==
    ASSUME NEW S, IsFiniteSet(S),
           NEW P \in SUBSET S, NEW Q \in SUBSET S, NEW R \in SUBSET S,
           P \cap Q = {}, (P \cup Q) \cap R = {}
    PROVE  Cardinality(P) + Cardinality(Q) + Cardinality(R) <= Cardinality(S)
<1>1. /\ IsFiniteSet(P) /\ IsFiniteSet(Q) /\ IsFiniteSet(R)
      /\ IsFiniteSet(P \cup Q)
      /\ Cardinality(P \cup Q \cup R) \in 0..Cardinality(S)
    <2>1. P \cup Q \in SUBSET S /\ P \cup Q \cup R \in SUBSET S
        OBVIOUS
    <2> QED
        BY <2>1, PartIsCounted
<1>2. Cardinality(P \cup Q)
          = Cardinality(P) + Cardinality(Q) - Cardinality({})
    BY <1>1, FS_Union
<1>3. Cardinality((P \cup Q) \cup R)
          = Cardinality(P \cup Q) + Cardinality(R) - Cardinality({})
    BY <1>1, FS_Union
<1>4. Cardinality({}) = 0
    BY FS_EmptySet
<1>5. /\ Cardinality(P) \in Nat /\ Cardinality(Q) \in Nat
      /\ Cardinality(R) \in Nat /\ Cardinality(S) \in Nat
      /\ Cardinality(P \cup Q) \in Nat
    BY <1>1, FS_CardinalityType
<1> QED
    BY <1>1, <1>2, <1>3, <1>4, <1>5

\* No act is in two counts of the summary, and they add up to no more than its
\* total unless acts were added meanwhile, as long as no two requests in flight
\* are for the same order.
THEOREM SummariesAddUp == ReaderSpec /\ []Apart => SummaryAddsUp
<1>1. ASSUME ReaderInv, ApartReaderInv, SummaryRejected,
             NEW auto, auto = reading.auto_confirmed,
             NEW pending, pending = reading.pending_review,
             NEW rejected, rejected = With({"rejected"})
      PROVE  /\ auto \cap pending = {}
             /\ (auto \cup pending) \cap rejected = {}
             /\ ~reading.created
                  => Cardinality(auto) + Cardinality(pending)
                         + Cardinality(rejected) <= reading.total_acts
    <2>1. /\ auto \subseteq With(Accepted) /\ pending \subseteq With(Live)
          /\ auto \cap pending = {}
          /\ ~reading.created => reading.total_acts = Cardinality(Known)
        BY <1>1 DEF SummaryRejected, ApartReaderInv, ReadingIsSound
    <2>2. rejected = {}
        BY <1>1 DEF With, ReaderInv, NothingRejected
    <2>3. auto \in SUBSET Known /\ pending \in SUBSET Known
        BY <2>1 DEF With, Known, Accepted, Live, Absent
    <2>4. IsFiniteSet(Known)
        BY RatingAssumption, PartIsCounted DEF Known
    <2>5. Cardinality(auto) + Cardinality(pending) + Cardinality(rejected)
              <= Cardinality(Known)
        BY <2>1, <2>2, <2>3, <2>4, PartsAddUp
    <2> QED
        BY <2>1, <2>2, <2>5
<1>2. ReaderInv /\ ApartReaderInv
          => [SummaryRejected =>
                LET auto == reading.auto_confirmed
                    pending == reading.pending_review
                    rejected == With({"rejected"})
                IN  /\ auto \cap pending = {}
                    /\ (auto \cup pending) \cap rejected = {}
                    /\ ~reading.created
                         => Cardinality(auto) + Cardinality(pending)
                                + Cardinality(rejected) <= reading.total_acts
             ]_readerVars
    BY <1>1
<1> QED
    BY <1>2, ApartReaderAlwaysSound, PTL DEF SummaryAddsUp

\* A step that commits a rating leaves a sound recalculation.
LEMMA CommitCounts ==
    ASSUME RecalcIsSound, RecalcCommit, ~recalc.moved
    PROVE  /\ recalc.accepted \subseteq recalc.completed
           /\ \A a \in recalc.completed :
                 acts[a].status \in {"auto_confirmed", "confirmed", "verified"}
BY DEF RecalcIsSound, RecalcCommit, Accepted

\* While no order changes hands and no two requests in flight are for the same
\* order, a rating counts every act that was accepted when the recalculation
\* began, and only acts accepted when it is stored.
THEOREM RatingsCountAccepted == ReaderSpec /\ []Apart => CountsAccepted
<1>1. ApartReaderInv
          => [RecalcCommit /\ ~recalc.moved =>
                /\ recalc.accepted \subseteq recalc.completed
                /\ \A a \in recalc.completed :
                      acts[a].status \in {"auto_confirmed", "confirmed",
                                          "verified"}
             ]_<<vars, ratingVars>>
    BY CommitCounts DEF ApartReaderInv
<1> QED
    BY <1>1, ApartReaderAlwaysSound, PTL DEF CountsAccepted
=============================================================================
