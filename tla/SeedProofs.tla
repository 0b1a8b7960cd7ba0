----------------------------- MODULE SeedProofs -----------------------------
(***************************************************************************)
(* Seed, for any number of overlapping calls and any day they are made on: *)
(* what it leaves is left once, and is there when a call is answered.      *)
(***************************************************************************)
EXTENDS Seed, FiniteSetTheorems, TLAPS

\* The records of the calls; only a step that has looked stores anything.
CallsTyped ==
    /\ day \in Days
    /\ work_orders \in [Days -> [SeedStatus -> Nat]]
    /\ calls \in [Calls -> Call]
    /\ \A c \in Calls : calls[c].looked => calls[c].at \in Steps

\* The names of the steps.
LEMMA StepNames ==
    Steps = {"begin", "contractors", "work_types", "objects", "users",
             "telemetry", "orders", "ratings"}
BY DEF Steps, After

\* A step goes on to another step or ends the call.
LEMMA AfterIsAStep ==
    \A step \in Steps : After[step] \in Steps \cup {"done"}
BY StepNames DEF After

\* The first day is a day.
LEMMA FirstDay == 0 \in Days
BY SeedAssumption DEF Days

\* A call that begins a step is typed.
LEMMA AtStepTyped ==
    \A step \in Steps \cup {"done"}, listed \in BOOLEAN :
        /\ [AtStep(step) EXCEPT !.listed = listed] \in Call
        /\ ~[AtStep(step) EXCEPT !.listed = listed].looked
        /\ AtStep(step) \in Call /\ ~AtStep(step).looked
BY FirstDay DEF AtStep, Call

\* The transaction of the orders writes those of one day.
LEMMA BoardIsWritten ==
    ASSUME work_orders \in [Days -> [SeedStatus -> Nat]], NEW d \in Days,
           work_orders[d] = NoOrders,
           work_orders' = [work_orders EXCEPT
                             ![d] = [status \in SeedStatus |->
                                       @[status] + Board[status]]]
    PROVE  /\ work_orders' = [work_orders EXCEPT ![d] = Board]
           /\ work_orders' \in [Days -> [SeedStatus -> Nat]]
<1>1. [status \in SeedStatus |-> work_orders[d][status] + Board[status]]
        = Board
  BY DEF NoOrders, Board, SeedStatus
<1>2. Board \in [SeedStatus -> Nat]
  BY DEF Board, SeedStatus
<1> QED
  BY <1>1, <1>2

\* The orders change only in that transaction, and only on a day that has none.
LEMMA OneBoard ==
    ASSUME CallsTyped, [Next]_vars
    PROVE  \/ UNCHANGED work_orders
           \/ \E d \in Days :
                 /\ ~SeededOn(d)
                 /\ work_orders' = [work_orders EXCEPT ![d] = Board]
                 /\ work_orders' \in [Days -> [SeedStatus -> Nat]]
<1>1. ASSUME NEW c \in Calls, Store(c),
             calls[c].absent, calls[c].at = "orders"
      PROVE  /\ calls[c].day \in Days
             /\ ~SeededOn(calls[c].day)
             /\ work_orders' = [work_orders EXCEPT ![calls[c].day] = Board]
             /\ work_orders' \in [Days -> [SeedStatus -> Nat]]
  <2>1. calls[c].day \in Days
    BY DEF CallsTyped, Call
  <2>2. ~SeededOn(calls[c].day)
    BY <1>1 DEF Store, Conflict
  <2>3. work_orders' = [work_orders EXCEPT
                          ![calls[c].day] = [status \in SeedStatus |->
                                               @[status] + Board[status]]]
    BY <1>1 DEF Store
  <2> QED
    BY <2>1, <2>2, <2>3, BoardIsWritten DEF CallsTyped, SeededOn
<1>2. ASSUME NEW c \in Calls, Store(c),
             ~(calls[c].absent /\ calls[c].at = "orders")
      PROVE  UNCHANGED work_orders
  BY <1>2 DEF Store
<1>3. ASSUME NEW c \in Calls, Look(c) \/ Ask(c) \/ Die(c)
      PROVE  UNCHANGED work_orders
  BY <1>3 DEF Look, Ask, Die
<1>4. CASE CreateOrder \/ Midnight \/ UNCHANGED vars
  BY <1>4 DEF CreateOrder, Midnight, vars
<1> QED
  BY <1>1, <1>2, <1>3, <1>4 DEF Next

\* The flags of a call stay flags through every step.
LEMMA CallsStayTyped ==
    ASSUME CallsTyped, [Next]_vars
    PROVE  CallsTyped'
<1>a. work_orders' \in [Days -> [SeedStatus -> Nat]]
  BY OneBoard DEF CallsTyped
<1>b. day' \in Days
  <2>1. CASE Midnight
    BY <2>1, SeedAssumption DEF Midnight, CallsTyped, Days
  <2>2. CASE UNCHANGED day
    BY <2>2 DEF CallsTyped
  <2> QED
    BY <2>1, <2>2 DEF Next, Look, Store, Ask, Die, CreateOrder, vars
<1> USE <1>a, <1>b DEF CallsTyped
<1>1. ASSUME NEW c \in Calls, Look(c) PROVE CallsTyped'
  <2>1. Misses(c, calls[c].at) \in BOOLEAN
    BY <1>1, StepNames DEF Misses, Look, Keyed, SeededAlready
  <2>2. calls[c] \in Call
    OBVIOUS
  <2>3. \A absent \in BOOLEAN :
           [calls[c] EXCEPT !.looked = TRUE, !.absent = absent, !.day = day]
             \in Call
    BY <2>2 DEF Call
  <2>4. calls' = [calls EXCEPT
                    ![c] = [calls[c] EXCEPT !.looked = TRUE,
                              !.absent = Misses(c, calls[c].at), !.day = day]]
    BY <1>1 DEF Look
  <2>5. calls[c].at \in Steps
    BY <1>1 DEF Look
  <2>6. calls' \in [Calls -> Call]
    BY <2>1, <2>3, <2>4
  <2>7. \A e \in Calls : calls'[e].looked => calls'[e].at \in Steps
    BY <2>2, <2>4, <2>5 DEF Call
  <2> QED
    BY <2>6, <2>7
<1>2. ASSUME NEW c \in Calls, Store(c) PROVE CallsTyped'
  <2>1. PICK listed \in BOOLEAN :
            calls' = [calls EXCEPT
                        ![c] = [AtStep(After[calls[c].at]) EXCEPT
                                  !.listed = listed]]
    <3>1. calls[c].absent \in BOOLEAN /\ calls[c].listed \in BOOLEAN
      BY DEF Call
    <3> QED
      BY <1>2, <3>1 DEF Store
  <2>2. After[calls[c].at] \in Steps \cup {"done"}
    BY <1>2, AfterIsAStep DEF Store
  <2>3. /\ [AtStep(After[calls[c].at]) EXCEPT !.listed = listed] \in Call
        /\ ~[AtStep(After[calls[c].at]) EXCEPT !.listed = listed].looked
    BY <2>2, AtStepTyped
  <2> QED
    BY <2>1, <2>3
<1>3. ASSUME NEW c \in Calls, Ask(c) \/ Die(c) PROVE CallsTyped'
  <2>1. PICK step \in Steps : calls' = [calls EXCEPT ![c] = AtStep(step)]
    BY <1>3, StepNames DEF Ask, Die
  <2> QED
    BY <2>1, AtStepTyped
<1>4. CASE CreateOrder \/ Midnight \/ UNCHANGED vars
  BY <1>4 DEF CreateOrder, Midnight, vars
<1> QED
  BY <1>1, <1>2, <1>3, <1>4 DEF Next

\* The calls of every state are typed.
LEMMA CallsAlwaysTyped == Spec => []CallsTyped
<1>1. Init => CallsTyped
  <2>1. NoOrders \in [SeedStatus -> Nat]
    BY DEF NoOrders
  <2> QED
    BY <2>1, StepNames, AtStepTyped, FirstDay DEF Init, CallsTyped
<1>2. CallsTyped /\ [Next]_vars => CallsTyped'
  BY CallsStayTyped
<1> QED
  BY <1>1, <1>2, PTL DEF Spec

\* Of calls that overlap, die and are repeated, one at most leaves its orders
\* under the numbers of a day, and no call ever adds to those of another.
THEOREM SeedsOnce == Spec => SeededOnce
<1>1. CallsTyped /\ [Next]_vars
        => [\A d \in Days : SeededOn(d) => UNCHANGED work_orders[d]]_vars
  BY OneBoard DEF CallsTyped
<1> QED
  BY <1>1, CallsAlwaysTyped, PTL DEF Spec, SeededOnce

-----------------------------------------------------------------------------
(* What an answered call leaves *)

\* The steps a call has behind it, by the step it is at.
Past ==
    [begin |-> {}, contractors |-> {},
     work_types |-> {"contractors"},
     objects |-> {"contractors", "work_types"},
     users |-> {"contractors", "work_types", "objects"},
     telemetry |-> Keyed,
     orders |-> Keyed \cup {"telemetry"},
     ratings |-> Keyed \cup {"telemetry", "orders"},
     done |-> Keyed \cup {"telemetry", "orders", "ratings"}]

\* What a step is there for has been committed, by whichever call.
InPlace(step) ==
    /\ step \in Keyed => step \in filled
    /\ step = "telemetry" => telemetry > 0
    /\ step = "orders" => others \/ \E d \in Days : work_orders[d] = Board

\* The orders under the numbers of a day are all of one call.
OrdersWhole == \A d \in Days : work_orders[d] \in {NoOrders, Board}

\* A call goes past a step only when it is in place; one that looked and will
\* add nothing has found it so.
StepsInPlace ==
    /\ filled \subseteq Keyed
    /\ telemetry \in Nat
    /\ OrdersWhole
    /\ \A c \in Calls : \A step :
          \/ step \in Past[calls[c].at]
          \/ calls[c].looked /\ ~calls[c].absent /\ step = calls[c].at
          => InPlace(step)

\* Behind the next step is what was behind this one, and this one.
LEMMA PastGrows ==
    \A step \in Steps : Past[After[step]] \subseteq Past[step] \cup {step}
BY StepNames DEF Past, After, Keyed

\* The orders of a call are some orders.
LEMMA BoardIsOrders == Board # NoOrders
<1>1. Board["assigned"] = 5 /\ NoOrders["assigned"] = 0
  BY DEF Board, NoOrders, SeedStatus
<1> QED
  BY <1>1

\* One transaction writes them all.
LEMMA OrdersStayWhole ==
    ASSUME CallsTyped, OrdersWhole, [Next]_vars
    PROVE  /\ OrdersWhole'
           /\ \A d \in Days : work_orders[d] = Board => work_orders'[d] = Board
BY OneBoard, BoardIsOrders DEF OrdersWhole, SeededOn, CallsTyped

\* What is committed only grows.
LEMMA StoreOnlyGrows ==
    ASSUME telemetry \in Nat, [Next]_vars
    PROVE  /\ filled \subseteq filled' /\ filled' \subseteq filled \cup Keyed
           /\ telemetry' \in Nat /\ telemetry' >= telemetry
           /\ others => others'
<1>1. ASSUME NEW c \in Calls, Store(c)
      PROVE  /\ filled \subseteq filled' /\ filled' \subseteq filled \cup Keyed
             /\ telemetry' \in Nat /\ telemetry' >= telemetry
             /\ others => others'
  <2>1. \/ filled' = filled
        \/ calls[c].at \in Keyed /\ filled' = filled \cup {calls[c].at}
    BY <1>1 DEF Store
  <2>2. telemetry' = telemetry \/ telemetry' = telemetry + 1
    BY <1>1 DEF Store
  <2> QED
    BY <1>1, <2>1, <2>2 DEF Store
<1>2. ASSUME NEW c \in Calls, Look(c) \/ Ask(c) \/ Die(c)
      PROVE  UNCHANGED <<filled, telemetry, others>>
  BY <1>2 DEF Look, Ask, Die
<1>3. CASE CreateOrder \/ Midnight
  BY <1>3 DEF CreateOrder, Midnight
<1>4. CASE UNCHANGED vars
  BY <1>4 DEF vars
<1> QED
  BY <1>1, <1>2, <1>3, <1>4 DEF Next

\* Nothing takes away what a step has left: no rollback reaches a commit.
LEMMA PlaceIsKept ==
    ASSUME CallsTyped, telemetry \in Nat, OrdersWhole, [Next]_vars,
           NEW step, InPlace(step)
    PROVE  InPlace(step)'
<1>1. filled \subseteq filled' /\ (others => others')
  BY StoreOnlyGrows
<1>2. telemetry > 0 => telemetry' > 0
  BY StoreOnlyGrows
<1>3. \A d \in Days : work_orders[d] = Board => work_orders'[d] = Board
  BY OrdersStayWhole
<1> QED
  BY <1>1, <1>2, <1>3 DEF InPlace

\* A step that is over is in place: its call found it there or added it.
LEMMA StoredIsInPlace ==
    ASSUME CallsTyped, StepsInPlace, NEW c \in Calls, Store(c),
           NEW step, step = calls[c].at
    PROVE  InPlace(step)'
<1>1. [Next]_vars /\ telemetry \in Nat /\ OrdersWhole
  BY DEF Next, StepsInPlace
<1>2. CASE ~calls[c].absent
  <2>1. InPlace(step)
    BY <1>2 DEF Store, StepsInPlace
  <2> QED
    BY <1>1, <2>1, PlaceIsKept
<1>3. CASE calls[c].absent
  <2>1. CASE step \in Keyed
    BY <1>3, <2>1 DEF Store, InPlace, Keyed
  <2>2. CASE step = "telemetry"
    BY <1>1, <1>3, <2>2 DEF Store, InPlace, Keyed
  <2>3. CASE step = "orders"
    <3>1. calls[c].day \in Days /\ work_orders[calls[c].day] = NoOrders
      BY <1>3, <2>3 DEF Store, Conflict, SeededOn, CallsTyped, Call
    <3>2. work_orders' = [work_orders EXCEPT
                            ![calls[c].day] = [status \in SeedStatus |->
                                                 @[status] + Board[status]]]
      BY <1>3, <2>3 DEF Store
    <3>3. work_orders'[calls[c].day] = Board
      BY <3>1, <3>2, BoardIsWritten DEF CallsTyped
    <3> QED
      BY <2>3, <3>1, <3>3 DEF InPlace, Keyed
  <2>4. CASE step \notin Keyed \cup {"telemetry", "orders"}
    BY <2>4 DEF InPlace
  <2> QED
    BY <2>1, <2>2, <2>3, <2>4
<1> QED
  BY <1>2, <1>3

\* Where a call stands: where it stood, at a beginning, or a step further.
LEMMA CallsMove ==
    ASSUME CallsTyped, [Next]_vars, NEW c \in Calls
    PROVE  \/ calls'[c] = calls[c]
           \/ Look(c)
           \/ Store(c)
           \/ \E step \in {"begin", "contractors"} :
                 calls'[c] = AtStep(step)
<1>1. ASSUME NEW d \in Calls, Look(d) \/ Store(d) \/ Ask(d) \/ Die(d)
      PROVE  \/ calls'[c] = calls[c]
             \/ Look(c)
             \/ Store(c)
             \/ \E step \in {"begin", "contractors"} :
                   calls'[c] = AtStep(step)
  <2>1. CASE c # d
    BY <1>1, <2>1 DEF Look, Store, Ask, Die, CallsTyped
  <2>2. CASE c = d
    BY <1>1, <2>2 DEF Ask, Die, CallsTyped
  <2> QED
    BY <2>1, <2>2
<1>2. CASE CreateOrder \/ Midnight \/ UNCHANGED vars
  BY <1>2 DEF CreateOrder, Midnight, vars
<1> QED
  BY <1>1, <1>2 DEF Next

\* Where there are orders of the seed, there are all those of a call.
LEMMA MissesNone ==
    ASSUME OrdersWhole, SeededAlready
    PROVE  \E d \in Days : work_orders[d] = Board
BY DEF OrdersWhole, SeededAlready, SeededOn

\* Every step of every call keeps what the calls rely on.
LEMMA StepsStayInPlace ==
    ASSUME CallsTyped, StepsInPlace, [Next]_vars
    PROVE  StepsInPlace'
<1>1. filled' \subseteq Keyed /\ telemetry' \in Nat /\ OrdersWhole'
  BY StoreOnlyGrows, OrdersStayWhole DEF StepsInPlace
<1>2. \A step : InPlace(step) => InPlace(step)'
  BY PlaceIsKept DEF StepsInPlace
<1>3. ASSUME NEW c \in Calls
      PROVE  \A step : \/ step \in Past[calls'[c].at]
                       \/ /\ calls'[c].looked /\ ~calls'[c].absent
                          /\ step = calls'[c].at
                    => InPlace(step)'
  <2>1. CASE calls'[c] = calls[c]
    BY <1>2, <2>1 DEF StepsInPlace
  <2>2. CASE Look(c)
    <3>1. Misses(c, calls[c].at) \in BOOLEAN
      BY <2>2, StepNames DEF Misses, Look, Keyed, SeededAlready
    <3>2. /\ calls'[c].at = calls[c].at
          /\ calls'[c].absent = Misses(c, calls[c].at)
      BY <2>2, <3>1 DEF Look, CallsTyped, Call
    <3>3. ~Misses(c, calls[c].at) => InPlace(calls[c].at)
      BY <2>2, StepNames, MissesNone
         DEF Look, Misses, InPlace, Keyed, StepsInPlace
    <3> QED
      BY <1>2, <3>2, <3>3 DEF StepsInPlace
  <2>3. CASE Store(c)
    <3>1. calls'[c].at = After[calls[c].at] /\ ~calls'[c].looked
      BY <2>3 DEF Store, CallsTyped, AtStep
    <3>2. Past[After[calls[c].at]] \subseteq
            Past[calls[c].at] \cup {calls[c].at}
      BY <2>3, PastGrows DEF Store, CallsTyped
    <3>3. \A step : step = calls[c].at => InPlace(step)'
      BY <2>3, StoredIsInPlace
    <3>4. \A step \in Past[calls[c].at] : InPlace(step)'
      BY <1>2 DEF StepsInPlace
    <3> QED
      BY <3>1, <3>2, <3>3, <3>4
  <2>4. CASE \E step \in {"begin", "contractors"} : calls'[c] = AtStep(step)
    BY <2>4 DEF AtStep, Past
  <2> QED
    BY <2>1, <2>2, <2>3, <2>4, CallsMove
<1> QED
  BY <1>1, <1>3 DEF StepsInPlace

\* A call of the seed that was answered leaves the rows looked for by a unique
\* column, telemetry, and all the orders of a call unless somebody else made
\* one, whichever calls overlapped with it and died before it.
THEOREM AnswersAreComplete == Spec => []AnsweredIsComplete
<1>1. Init => StepsInPlace
  BY DEF Init, StepsInPlace, OrdersWhole, AtStep, Past
<1>2. CallsTyped /\ StepsInPlace /\ [Next]_vars => StepsInPlace'
  BY StepsStayInPlace
<1>3. StepsInPlace => AnsweredIsComplete
  <2>1. SUFFICES ASSUME StepsInPlace, NEW c \in Calls, calls[c].at = "done"
                 PROVE  /\ filled = Keyed
                        /\ telemetry > 0
                        /\ others \/ \E d \in Days : work_orders[d] = Board
    BY DEF AnsweredIsComplete
  <2>2. \A step \in Keyed \cup {"telemetry", "orders"} : InPlace(step)
    BY <2>1 DEF StepsInPlace, Past
  <2>3. Keyed \subseteq filled
    BY <2>2 DEF InPlace
  <2>4. /\ telemetry > 0
        /\ others \/ \E d \in Days : work_orders[d] = Board
    BY <2>2 DEF InPlace, Keyed
  <2> QED
    BY <2>1, <2>3, <2>4 DEF StepsInPlace
<1> QED
  BY <1>1, <1>2, <1>3, CallsAlwaysTyped, PTL DEF Spec

-----------------------------------------------------------------------------
(* The copies of the telemetry *)

\* The calls that have found no telemetry and will add it.
Adders == {c \in Calls : /\ calls[c].at = "telemetry"
                         /\ calls[c].looked /\ calls[c].absent}

\* Each of them makes a copy more, and once there is one there are no new ones.
CopiesBounded ==
    /\ filled \subseteq Keyed /\ others \in BOOLEAN
    /\ telemetry \in Nat
    /\ telemetry + Cardinality(Adders) <= Cardinality(Calls)

\* The calls are finitely many, and so are some of them.
LEMMA SomeCalls ==
    ASSUME NEW S, S \subseteq Calls
    PROVE  /\ IsFiniteSet(S) /\ Cardinality(S) \in Nat
           /\ Cardinality(S) <= Cardinality(Calls)
           /\ \A T : T \subseteq S => Cardinality(T) <= Cardinality(S)
           /\ \A c \in S : Cardinality(S \ {c}) = Cardinality(S) - 1
BY SeedAssumption, FS_Subset, FS_CardinalityType, FS_RemoveElement

\* How a call comes to be one of them.
LEMMA OnlyALookAdds ==
    ASSUME CallsTyped, [Next]_vars, NEW c \in Calls, c \in Adders', c \notin Adders
    PROVE  Look(c) /\ Misses(c, "telemetry")
<1>1. calls'[c] # calls[c]
  BY DEF Adders
<1>2. ~Store(c)
  BY DEF Store, AtStep, Adders, CallsTyped
<1>3. ~\E step \in {"begin", "contractors"} : calls'[c] = AtStep(step)
  BY DEF AtStep, Adders
<1>4. Look(c)
  BY <1>1, <1>2, <1>3, CallsMove
<1>5. Misses(c, calls[c].at) \in BOOLEAN
  BY <1>4, StepNames DEF Misses, Look, Keyed, SeededAlready
<1>6. calls'[c].at = calls[c].at /\ calls'[c].absent = Misses(c, calls[c].at)
  BY <1>4, <1>5 DEF Look, CallsTyped, Call
<1> QED
  BY <1>4, <1>6 DEF Adders

\* One who adds is no longer about to.
LEMMA AddingIsOnce ==
    ASSUME CallsTyped, NEW c \in Calls, Store(c)
    PROVE  c \notin Adders'
BY DEF Store, Adders, AtStep, CallsTyped

\* No step makes a copy that was not announced.
LEMMA CopiesStayBounded ==
    ASSUME CallsTyped, CopiesBounded, [Next]_vars
    PROVE  CopiesBounded'
<1>1. filled' \subseteq Keyed /\ telemetry' \in Nat /\ others' \in BOOLEAN
  BY StoreOnlyGrows DEF CopiesBounded, Next, Look, Store, Ask, Die, CreateOrder,
                        Midnight, vars
<1>2. Adders \subseteq Calls /\ Adders' \subseteq Calls
  BY DEF Adders
<1>3. ASSUME NEW c \in Calls, Store(c), calls[c].absent, calls[c].at = "telemetry"
      PROVE  telemetry' + Cardinality(Adders') <= Cardinality(Calls)
  <2>1. c \in Adders /\ telemetry' = telemetry + 1
    BY <1>3 DEF Adders, Store
  <2>2. \A d \in Calls : ~Look(d)
    BY <2>1 DEF Look, CopiesBounded
  <2>3. Adders' \subseteq Adders \ {c}
    BY <1>2, <1>3, <2>2, AddingIsOnce, OnlyALookAdds
  <2>4. /\ Cardinality(Adders') <= Cardinality(Adders \ {c})
        /\ Cardinality(Adders \ {c}) = Cardinality(Adders) - 1
    BY <1>2, <2>1, <2>3, SomeCalls
  <2>5. /\ Cardinality(Adders) \in Nat /\ Cardinality(Calls) \in Nat
        /\ Cardinality(Adders') \in Nat
    BY <1>2, SomeCalls
  <2> QED
    BY <2>1, <2>4, <2>5 DEF CopiesBounded
<1>4. CASE telemetry' = telemetry
  <2>1. CASE Adders' \subseteq Adders
    <3>1. Cardinality(Adders') <= Cardinality(Adders)
      BY <1>2, <2>1, SomeCalls
    <3>2. /\ Cardinality(Adders) \in Nat /\ Cardinality(Calls) \in Nat
          /\ Cardinality(Adders') \in Nat
      BY <1>2, SomeCalls
    <3> QED
      BY <1>1, <1>4, <3>1, <3>2 DEF CopiesBounded
  <2>2. CASE ~(Adders' \subseteq Adders)
    <3>1. \E c \in Calls : Misses(c, "telemetry")
      BY <1>2, <2>2, OnlyALookAdds
    <3>2. telemetry = 0
      BY <3>1 DEF Misses, Keyed
    <3>3. /\ Cardinality(Adders') <= Cardinality(Calls)
          /\ Cardinality(Adders') \in Nat
      BY <1>2, SomeCalls
    <3> QED
      BY <1>1, <1>4, <3>2, <3>3 DEF CopiesBounded
  <2> QED
    BY <2>1, <2>2
<1>5. \/ telemetry' = telemetry
      \/ \E c \in Calls : /\ Store(c) /\ calls[c].absent
                          /\ calls[c].at = "telemetry"
  <2>1. ASSUME NEW c \in Calls, Store(c),
               ~(calls[c].absent /\ calls[c].at = "telemetry")
        PROVE  telemetry' = telemetry
    BY <2>1 DEF Store, CopiesBounded
  <2>2. ASSUME NEW c \in Calls, Look(c) \/ Ask(c) \/ Die(c)
        PROVE  telemetry' = telemetry
    BY <2>2 DEF Look, Ask, Die
  <2>3. CASE CreateOrder \/ Midnight \/ UNCHANGED vars
    BY <2>3 DEF CreateOrder, Midnight, vars
  <2> QED
    BY <2>1, <2>2, <2>3 DEF Next
<1> QED
  BY <1>1, <1>3, <1>4, <1>5 DEF CopiesBounded

\* However many calls overlap, die and are repeated, the rows keep their types
\* and there are no more copies of the telemetry than calls that overlapped.
THEOREM SeedTypeCorrect == Spec => []TypeOK
<1>1. Init => CopiesBounded
  <2>1. SUFFICES ASSUME Init PROVE CopiesBounded
    OBVIOUS
  <2>2. Adders = {}
    BY <2>1 DEF Init, Adders, AtStep
  <2>3. Cardinality(Adders) = 0 /\ Cardinality(Calls) \in Nat
    <3>1. Calls \subseteq Calls
      OBVIOUS
    <3> QED
      BY <2>2, <3>1, FS_EmptySet, SomeCalls
  <2>4. filled = {} /\ telemetry = 0 /\ others = FALSE
    BY <2>1 DEF Init
  <2>5. telemetry + Cardinality(Adders) <= Cardinality(Calls)
    <3>1. Cardinality(Calls) >= 0
      BY <2>3
    <3> QED
      BY <2>3, <2>4, <3>1
  <2> QED
    BY <2>4, <2>5 DEF CopiesBounded
<1>2. CallsTyped /\ CopiesBounded /\ [Next]_vars => CopiesBounded'
  BY CopiesStayBounded
<1>3. CallsTyped /\ CopiesBounded => TypeOK
  <2>1. Adders \subseteq Calls
    BY DEF Adders
  <2>2. Cardinality(Adders) \in Nat /\ Cardinality(Calls) \in Nat
    BY <2>1, SomeCalls
  <2> QED
    BY <2>2 DEF CallsTyped, CopiesBounded, TypeOK
<1> QED
  BY <1>1, <1>2, <1>3, CallsAlwaysTyped, PTL DEF Spec
=============================================================================
