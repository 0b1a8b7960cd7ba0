------------------------- MODULE ConnectionsProofs -------------------------
(***************************************************************************)
(* For any number of requests, rows and connections: a set of requests     *)
(* that wait for each other contains a cycle of rows.                      *)
(***************************************************************************)
EXTENDS Connections, TLAPS, FiniteSetTheorems, SequenceTheorems

\* What a step may be followed by.  A statement is made while a connection is
\* held, and a connection is asked for when none is.
Follows(x, y) ==
    \/ x = "commit" /\ y \in {"open", "close"}
    \/ /\ x \in {"open", "lock", "cv"}
       /\ y \in {"lock", "cv", "commit", "close"}

\* The scripts of the handlers, and what is left of them at any moment.
Proper(s) ==
    /\ s \in Seq(Step)
    /\ \A i \in 1..Len(s) :
          IF i = Len(s) THEN s[i].do = "close"
                        ELSE Follows(s[i].do, s[i + 1].do)

Starts(s) == s # <<>> /\ s[1].do = "open"

LEMMA StepsAreSteps ==
    ASSUME NEW row \in Rows
    PROVE  /\ Lock(row) \in Step /\ Lock(row).do = "lock"
           /\ Lock(row).row = row
  BY DEF Lock, Step

LEMMA PlainSteps ==
    /\ Open \in Step /\ Commit \in Step /\ Cv \in Step /\ Close \in Step
    /\ Open.do = "open" /\ Commit.do = "commit" /\ Cv.do = "cv"
    /\ Close.do = "close"
  BY DEF Open, Commit, Cv, Close, Step

\* The updates that a handler may or may not make.
LEMMA MaySteps ==
    ASSUME NEW row \in Rows, NEW m \in MayLock(row)
    PROVE  m = <<>> \/ m = <<Lock(row)>>
  BY DEF MayLock

\* A script with a step put before it.
LEMMA Preceded ==
    ASSUME NEW x \in Step, NEW s, Proper(s), s # <<>>,
           Follows(x.do, s[1].do)
    PROVE  /\ Proper(<<x>> \o s)
           /\ <<x>> \o s # <<>>
           /\ (<<x>> \o s)[1] = x
<1> DEFINE t == <<x>> \o s
<1>1. s \in Seq(Step) /\ Len(s) \in Nat /\ Len(s) > 0
  BY EmptySeq DEF Proper
<1>2. /\ t \in Seq(Step) /\ Len(t) = Len(s) + 1 /\ t[1] = x
      /\ \A i \in 2..Len(t) : t[i] = s[i - 1]
  BY <1>1
<1>3. ASSUME NEW i \in 1..Len(t)
      PROVE  IF i = Len(t) THEN t[i].do = "close"
                           ELSE Follows(t[i].do, t[i + 1].do)
  <2>1. CASE i = 1
    <3>1. i # Len(t) /\ t[i + 1] = s[1]
      BY <1>1, <1>2, <2>1
    <3> QED  BY <1>2, <2>1, <3>1
  <2>2. CASE i # 1
    <3>1. i - 1 \in 1..Len(s) /\ t[i] = s[i - 1]
      BY <1>1, <1>2, <2>2
    <3>2. CASE i = Len(t)
      BY <1>1, <1>2, <3>1, <3>2 DEF Proper
    <3>3. CASE i # Len(t)
      <4>1. i - 1 # Len(s) /\ t[i + 1] = s[(i - 1) + 1]
        BY <1>1, <1>2, <2>2, <3>3
      <4>2. Follows(s[i - 1].do, s[(i - 1) + 1].do)
        BY <3>1, <4>1 DEF Proper
      <4> QED  BY <3>1, <3>3, <4>1, <4>2
    <3> QED  BY <3>2, <3>3
  <2> QED  BY <2>1, <2>2
<1>4. t # <<>>
  BY <1>1, <1>2
<1> QED  BY <1>2, <1>3, <1>4 DEF Proper

\* What can be done with a connection.
Connected(s) == s # <<>> /\ s[1].do \in {"lock", "cv", "commit", "close"}

LEMMA MayPrecede ==
    ASSUME NEW row \in Rows, NEW m \in MayLock(row),
           NEW s, Proper(s), Connected(s)
    PROVE  Proper(m \o s) /\ Connected(m \o s)
<1>1. CASE m = <<>>
  <2>1. m \o s = s
    BY <1>1, ConcatEmptySeq DEF Proper
  <2> QED  BY <2>1
<1>2. CASE m = <<Lock(row)>>
  <2>1. Follows(Lock(row).do, s[1].do) /\ s # <<>>
    BY StepsAreSteps DEF Follows, Connected
  <2>2. /\ Proper(m \o s) /\ m \o s # <<>> /\ (m \o s)[1] = Lock(row)
    BY <1>2, <2>1, StepsAreSteps, Preceded
  <2> QED  BY <2>2, StepsAreSteps DEF Connected
<1> QED  BY <1>1, <1>2, MaySteps

LEMMA OpenPrecedes ==
    ASSUME NEW s, Proper(s), Connected(s)
    PROVE  Proper(<<Open>> \o s) /\ Starts(<<Open>> \o s)
<1>1. Follows(Open.do, s[1].do) /\ s # <<>>
  BY PlainSteps DEF Follows, Connected
<1> QED  BY <1>1, PlainSteps, Preceded DEF Starts

LEMMA Associated ==
    ASSUME NEW act \in Seq(Step), NEW s \in Seq(Step)
    PROVE  (<<Open>> \o act) \o s = <<Open>> \o (act \o s)
<1>1. <<Open>> \in Seq(Step)
  BY PlainSteps
<1> QED  BY <1>1, ConcatAssociative

LEMMA MayTyped ==
    ASSUME NEW row \in Rows, NEW m \in MayLock(row)
    PROVE  m \in Seq(Step)
<1>1. <<Lock(row)>> \in Seq(Step)
  BY StepsAreSteps
<1>2. <<>> \in Seq(Step)
  OBVIOUS
<1> QED  BY <1>1, <1>2, MaySteps

\* The update of an order, its start, a review: open, at most two updates, end.
LEMMA UpdateIsProper ==
    ASSUME NEW o \in Orders, NEW s \in UpdateOrderScripts(o) \cup StartScripts(o)
    PROVE  Proper(s) /\ Starts(s)
<1> DEFINE end == <<Commit, Open, Close>>
<1>0. o \in Rows
  BY DEF Rows
<1>1. Proper(end) /\ Connected(end)
  BY PlainSteps DEF Proper, Follows, Connected
<1>2. CASE s \in UpdateOrderScripts(o)
  <2>1. PICK m \in MayLock(o) : s = (<<Open>> \o m) \o end
    BY <1>2 DEF UpdateOrderScripts
  <2>2. s = <<Open>> \o (m \o end)
    BY <1>0, <1>1, <2>1, Associated, MayTyped DEF Proper
  <2> QED  BY <1>0, <1>1, <2>2, MayPrecede, OpenPrecedes
<1>3. CASE s \in StartScripts(o)
  <2>1. s = <<Open, Lock(o), Commit, Open, Close>>
    BY <1>3 DEF StartScripts
  <2> QED  BY <1>0, <2>1, StepsAreSteps, PlainSteps DEF Proper, Follows, Starts
<1> QED  BY <1>2, <1>3

LEMMA ReviewIsProper ==
    ASSUME NEW a \in Acts, NEW s \in ReviewScripts(a)
    PROVE  Proper(s) /\ Starts(s)
<1> DEFINE o == OrderOf[a]
           end == <<Lock(a), Commit, Open, Close>>
<1>0. a \in Rows /\ o \in Rows
  BY ConnectionsAssumption DEF Rows
<1>1. Proper(end) /\ Connected(end)
  BY <1>0, StepsAreSteps, PlainSteps DEF Proper, Follows, Connected
<1>2. PICK m \in MayLock(o) : s = (<<Open>> \o m) \o end
  BY DEF ReviewScripts
<1>3. s = <<Open>> \o (m \o end)
  BY <1>0, <1>1, <1>2, Associated, MayTyped DEF Proper
<1> QED  BY <1>0, <1>1, <1>3, MayPrecede, OpenPrecedes

LEMMA CheckIsProper ==
    ASSUME NEW a \in Acts
    PROVE  Proper(CheckSteps(a)) /\ Connected(CheckSteps(a))
<1> DEFINE o == OrderOf[a]
<1>1. a \in Rows /\ o \in Rows
  BY ConnectionsAssumption DEF Rows
<1>2. CheckSteps(a)
        = <<Commit, Open, Cv, Lock(o), Lock(a), Commit, Open, Close>>
  BY DEF CheckSteps
<1> QED
  BY <1>1, <1>2, StepsAreSteps, PlainSteps DEF Proper, Follows, Connected

LEMMA SubmitIsProper ==
    ASSUME NEW a \in Acts, NEW s \in SubmitScripts(a)
    PROVE  Proper(s) /\ Starts(s)
<1> DEFINE end == CheckSteps(a)
<1>0. a \in Rows /\ OrderOf[a] \in Rows
  BY ConnectionsAssumption DEF Rows
<1>1. Proper(end) /\ Connected(end)
  BY CheckIsProper
<1>2. PICK act \in MayLock(a), order \in MayLock(OrderOf[a]) :
         s = ((<<Open>> \o act) \o order) \o end
  BY SMTT(30) DEF SubmitScripts
<1> HIDE DEF end
<1>3. act \in Seq(Step) /\ order \in Seq(Step) /\ end \in Seq(Step)
  BY <1>0, <1>1, MayTyped DEF Proper
<1>4. s = <<Open>> \o (act \o (order \o end))
  <2>1. <<Open>> \o act \in Seq(Step) /\ order \o end \in Seq(Step)
    BY <1>3, PlainSteps
  <2>2. s = (<<Open>> \o act) \o (order \o end)
    BY <1>2, <1>3, <2>1, ConcatAssociative
  <2> QED  BY <1>3, <2>1, <2>2, Associated
<1>5. Proper(order \o end) /\ Connected(order \o end)
  BY <1>0, <1>1, MayPrecede
<1>6. Proper(act \o (order \o end)) /\ Connected(act \o (order \o end))
  BY <1>0, <1>5, MayPrecede
<1> QED  BY <1>4, <1>6, OpenPrecedes

LEMMA OtherIsProper ==
    ASSUME NEW s \in ReadScripts \cup InsertScripts \cup LoginScripts
    PROVE  Proper(s) /\ Starts(s)
<1>1. CASE s \in ReadScripts
  <2>1. s = <<Open, Close>>
    BY <1>1 DEF ReadScripts
  <2> QED  BY <2>1, PlainSteps DEF Proper, Follows, Starts
<1>2. CASE s \in InsertScripts
  <2>1. s = <<Open, Commit, Open, Close>>
    BY <1>2 DEF InsertScripts
  <2> QED  BY <2>1, PlainSteps DEF Proper, Follows, Starts
<1>3. CASE s \in LoginScripts
  <2>1. CASE s = <<Open, Commit, Close>>
    BY <2>1, PlainSteps DEF Proper, Follows, Starts
  <2>2. CASE s # <<Open, Commit, Close>>
    <3>1. PICK u \in Users :
             s = <<Open, Lock(u), Commit, Open, Commit, Close>>
      BY <1>3, <2>2 DEF LoginScripts
    <3>2. u \in Rows
      BY DEF Rows
    <3> QED  BY <3>1, <3>2, StepsAreSteps, PlainSteps DEF Proper, Follows, Starts
  <2> QED  BY <2>1, <2>2
<1> QED  BY <1>1, <1>2, <1>3

\* Every handler asks for a connection before its first statement.
LEMMA ScriptsAreProper ==
    ASSUME NEW s \in Scripts
    PROVE  Proper(s) /\ Starts(s)
  BY OtherIsProper, UpdateIsProper, ReviewIsProper, SubmitIsProper DEF Scripts

\* What is left of a script after its first step.
LEMMA TailIsProper ==
    ASSUME NEW s, Proper(s), s # <<>>
    PROVE  /\ Head(s) = s[1] /\ Head(s) \in Step
           /\ Proper(Tail(s))
           /\ Tail(s) = <<>> => s[1].do = "close"
           /\ Tail(s) # <<>> => Follows(s[1].do, Tail(s)[1].do)
<1> DEFINE t == Tail(s)
<1>1. s \in Seq(Step) /\ Len(s) \in Nat /\ Len(s) > 0
  BY EmptySeq DEF Proper
<1>2. /\ t \in Seq(Step) /\ Len(t) = Len(s) - 1
      /\ \A i \in 1..Len(t) : t[i] = s[i + 1]
  BY <1>1, HeadTailProperties
<1>3. Head(s) = s[1] /\ s[1] \in Step
  BY <1>1
<1> HIDE DEF t
<1>4. ASSUME NEW i \in 1..Len(t)
      PROVE  IF i = Len(t) THEN t[i].do = "close"
                           ELSE Follows(t[i].do, t[i + 1].do)
  <2>1. i + 1 \in 1..Len(s) /\ t[i] = s[i + 1]
    BY <1>1, <1>2
  <2>2. CASE i = Len(t)
    BY <1>1, <1>2, <2>1, <2>2 DEF Proper
  <2>3. CASE i # Len(t)
    <3>1. i + 1 # Len(s) /\ t[i + 1] = s[(i + 1) + 1]
      BY <1>1, <1>2, <2>1, <2>3
    <3>2. Follows(s[i + 1].do, s[(i + 1) + 1].do)
      BY <2>1, <3>1 DEF Proper
    <3> QED  BY <2>1, <2>3, <3>1, <3>2
  <2> QED  BY <2>2, <2>3
<1>5. Proper(t)
  BY <1>2, <1>4 DEF Proper
<1>6. t = <<>> => s[1].do = "close"
  <2> SUFFICES ASSUME t = <<>>  PROVE s[1].do = "close"
    OBVIOUS
  <2>1. Len(s) = 1
    BY <1>1, <1>2, EmptySeq
  <2> QED  BY <2>1 DEF Proper
<1>7. t # <<>> => Follows(s[1].do, t[1].do)
  <2> SUFFICES ASSUME t # <<>>  PROVE Follows(s[1].do, t[1].do)
    OBVIOUS
  <2>1. Len(t) \in Nat \ {0}
    BY <1>2, EmptySeq
  <2>2. 1 \in 1..Len(s) /\ Len(s) # 1 /\ t[1] = s[1 + 1]
    BY <1>1, <1>2, <2>1
  <2> QED  BY <2>2 DEF Proper
<1> QED  BY <1>3, <1>5, <1>6, <1>7 DEF t

-----------------------------------------------------------------------------
(* The invariant *)

\* A request is connected while it has statements to make.
Connection(r) ==
    /\ Proper(script[r])
    /\ At(r, "lock") \/ At(r, "cv") \/ At(r, "commit") => r \in connected
    /\ script[r] = <<>> \/ At(r, "open") => r \notin connected

\* A row is owned by a connected request only: it is free when its owner is not.
OwnersAreConnected ==
    \A row \in Rows : owner[row] # None => owner[row] \in connected

Types ==
    /\ script \in [Requests -> Seq(Step)]
    /\ connected \subseteq Requests /\ IsFiniteSet(connected)
    /\ Cardinality(connected) <= MaxConnections
    /\ owner \in [Rows -> Requests \cup {None}]

Inv ==
    /\ Types
    /\ \A r \in Requests : Connection(r)
    /\ OwnersAreConnected

LEMMA Positive == MaxConnections \in Nat /\ MaxConnections >= 1
  BY ConnectionsAssumption DEF MaxConnections

LEMMA InitInv == Init => Inv
<1> SUFFICES ASSUME Init  PROVE Inv
  OBVIOUS
<1>1. Types
  <2>1. <<>> \in Seq(Step)
    OBVIOUS
  <2> QED  BY <2>1, Positive, FS_EmptySet DEF Init, Types
<1>2. ASSUME NEW r \in Requests  PROVE Connection(r)
  <2>1. script[r] = <<>> /\ r \notin connected
    BY DEF Init
  <2>2. Proper(<<>>)
    BY DEF Proper
  <2> QED  BY <2>1, <2>2 DEF Connection, At
<1>3. OwnersAreConnected
  BY DEF Init, OwnersAreConnected
<1> QED  BY <1>1, <1>2, <1>3 DEF Inv

\* Requests other than the one that makes a step are as they were.
LEMMA OthersUnchanged ==
    ASSUME NEW r \in Requests, NEW s, script' = [script EXCEPT ![r] = s],
           connected' \in {connected, connected \cup {r}, connected \ {r}},
           NEW q \in Requests, q # r, Types, Connection(q)
    PROVE  Connection(q)'
<1>1. script'[q] = script[q]
  BY DEF Types
<1>2. q \in connected' <=> q \in connected
  OBVIOUS
<1> QED  BY <1>1, <1>2 DEF Connection, At, Upcoming

\* The end of a transaction.
LEMMA Released ==
    ASSUME NEW r \in Requests, Types, OwnersAreConnected, Release(r)
    PROVE  /\ connected' \subseteq Requests /\ IsFiniteSet(connected')
           /\ Cardinality(connected') <= MaxConnections
           /\ owner' \in [Rows -> Requests \cup {None}]
           /\ OwnersAreConnected'
           /\ connected' = connected \ {r}
<1>1. /\ connected' = connected \ {r}
      /\ owner' = [row \in Rows |-> IF owner[row] = r THEN None ELSE owner[row]]
  BY DEF Release
<1>2. /\ IsFiniteSet(connected') /\ Cardinality(connected) \in Nat
      /\ Cardinality(connected') <= Cardinality(connected)
  BY <1>1, FS_Subset, FS_CardinalityType DEF Types
<1>3. Cardinality(connected') \in Nat
  BY <1>2, FS_CardinalityType
<1>4. Cardinality(connected') <= MaxConnections
  BY <1>2, <1>3, Positive DEF Types
<1>5. owner' \in [Rows -> Requests \cup {None}]
  BY <1>1 DEF Types
<1>6. OwnersAreConnected'
  BY <1>1 DEF OwnersAreConnected
<1> QED  BY <1>1, <1>2, <1>4, <1>5, <1>6 DEF Types

\* A request that goes away, refused, timed out or aborted, leaves nothing.
LEMMA Abandoned ==
    ASSUME NEW r \in Requests, Inv, Release(r),
           script' = [script EXCEPT ![r] = <<>>]
    PROVE  Inv'
<1>1. script' \in [Requests -> Seq(Step)] /\ script'[r] = <<>>
  BY DEF Inv, Types
<1>2. Proper(<<>>)
  BY DEF Proper
<1>3. connected' = connected \ {r} /\ Types' /\ OwnersAreConnected'
  BY <1>1, Released DEF Inv, Types
<1>4. ASSUME NEW q \in Requests  PROVE Connection(q)'
  <2>1. CASE q = r
    BY <1>1, <1>2, <1>3, <2>1 DEF Connection, At
  <2>2. CASE q # r
    BY <1>3, <2>2, OthersUnchanged DEF Inv
  <2> QED  BY <2>1, <2>2
<1> QED  BY <1>3, <1>4 DEF Inv

\* What a request does next, after a step other than the last.
LEMMA Advanced ==
    ASSUME NEW r \in Requests, Inv, Advance(r), script[r] # <<>>
    PROVE  /\ script' = [script EXCEPT ![r] = Tail(script[r])]
           /\ script' \in [Requests -> Seq(Step)]
           /\ script'[r] = Tail(script[r])
           /\ Proper(script'[r])
           /\ script'[r] = <<>> => At(r, "close")
           /\ \A what : At(r, what) /\ script'[r] # <<>>
                          => Follows(what, Head(script'[r]).do)
<1>1. Proper(script[r]) /\ script \in [Requests -> Seq(Step)]
  BY DEF Inv, Types, Connection
<1>2. /\ script' = [script EXCEPT ![r] = Tail(script[r])]
      /\ script'[r] = Tail(script[r])
  BY <1>1 DEF Advance
<1>3. /\ Proper(Tail(script[r])) /\ Head(script[r]) = script[r][1]
      /\ Tail(script[r]) = <<>> => script[r][1].do = "close"
      /\ Tail(script[r]) # <<>> =>
           Follows(script[r][1].do, Tail(script[r])[1].do)
  BY <1>1, TailIsProper
<1>4. Tail(script[r]) # <<>> => Head(Tail(script[r])) = Tail(script[r])[1]
  BY <1>3, TailIsProper
<1>5. script' \in [Requests -> Seq(Step)]
  BY <1>1, <1>2, <1>3 DEF Proper
<1> QED  BY <1>2, <1>3, <1>4, <1>5 DEF At, Upcoming

LEMMA AcceptInv ==
    ASSUME NEW r \in Requests, Inv, Accept(r)
    PROVE  Inv'
<1>1. PICK s \in Scripts : script' = [script EXCEPT ![r] = s]
  BY DEF Accept
<1>2. Proper(s) /\ Starts(s)
  BY ScriptsAreProper
<1>3. /\ script' \in [Requests -> Seq(Step)] /\ script'[r] = s
      /\ connected' = connected /\ owner' = owner
  BY <1>1, <1>2 DEF Accept, Inv, Types, Proper
<1>4. r \notin connected
  BY DEF Accept, Inv, Connection
<1>5. Connection(r)'
  <2>1. s # <<>> /\ Head(s) = s[1] /\ s[1].do = "open"
    BY <1>2, TailIsProper DEF Starts
  <2> QED  BY <1>2, <1>3, <1>4, <2>1 DEF Connection, At, Upcoming
<1>6. ASSUME NEW q \in Requests  PROVE Connection(q)'
  <2>1. CASE q = r
    BY <1>5, <2>1
  <2>2. CASE q # r
    BY <1>1, <1>3, <2>2, OthersUnchanged DEF Inv
  <2> QED  BY <2>1, <2>2
<1> QED  BY <1>3, <1>6 DEF Inv, Types, OwnersAreConnected

LEMMA CheckOutInv ==
    ASSUME NEW r \in Requests, Inv, CheckOut(r)
    PROVE  Inv'
<1>1. /\ At(r, "open") /\ Cardinality(connected) < MaxConnections
      /\ connected' = connected \cup {r} /\ owner' = owner /\ Advance(r)
  BY DEF CheckOut
<1>2. script[r] # <<>>
  BY <1>1 DEF At
<1>3. /\ script' = [script EXCEPT ![r] = Tail(script[r])]
      /\ script' \in [Requests -> Seq(Step)] /\ Proper(script'[r])
      /\ script'[r] = <<>> => At(r, "close")
      /\ script'[r] # <<>> => Follows("open", Head(script'[r]).do)
  BY <1>1, <1>2, Advanced
<1>4. ~At(r, "close")
  BY <1>1 DEF At
<1>5. Connection(r)'
  <2>1. script'[r] # <<>> /\ Head(script'[r]).do # "open"
    BY <1>3, <1>4 DEF Follows
  <2> QED  BY <1>1, <1>3, <2>1 DEF Connection, At, Upcoming
<1>6. ASSUME NEW q \in Requests  PROVE Connection(q)'
  <2>1. CASE q = r
    BY <1>5, <2>1
  <2>2. CASE q # r
    BY <1>1, <1>3, <2>2, OthersUnchanged DEF Inv
  <2> QED  BY <2>1, <2>2
<1>7. /\ IsFiniteSet(connected') /\ connected' \subseteq Requests
      /\ Cardinality(connected') <= MaxConnections
  <2>1. /\ IsFiniteSet(connected') /\ Cardinality(connected) \in Nat
        /\ Cardinality(connected') \in {Cardinality(connected),
                                        Cardinality(connected) + 1}
    BY <1>1, FS_AddElement, FS_CardinalityType DEF Inv, Types
  <2> QED  BY <1>1, <2>1, Positive DEF Inv, Types
<1> QED  BY <1>1, <1>3, <1>6, <1>7 DEF Inv, Types, OwnersAreConnected

LEMMA UpdateInv ==
    ASSUME NEW r \in Requests, Inv, Update(r)
    PROVE  Inv'
<1> DEFINE row == Upcoming(r).row
<1>1. /\ At(r, "lock") /\ Advance(r) /\ connected' = connected
      /\ owner' = [owner EXCEPT ![row] = r]
  BY DEF Update
<1>2. script[r] # <<>> /\ r \in connected
  BY <1>1 DEF At, Inv, Connection
<1>3. /\ script' = [script EXCEPT ![r] = Tail(script[r])]
      /\ script' \in [Requests -> Seq(Step)] /\ Proper(script'[r])
      /\ script'[r] = <<>> => At(r, "close")
      /\ script'[r] # <<>> => Follows("lock", Head(script'[r]).do)
  BY <1>1, <1>2, Advanced
<1>4. ~At(r, "close")
  BY <1>1 DEF At
<1>5. Connection(r)'
  <2>1. script'[r] # <<>> /\ Head(script'[r]).do # "open"
    BY <1>3, <1>4 DEF Follows
  <2> QED  BY <1>1, <1>2, <1>3, <2>1 DEF Connection, At, Upcoming
<1>6. ASSUME NEW q \in Requests  PROVE Connection(q)'
  <2>1. CASE q = r
    BY <1>5, <2>1
  <2>2. CASE q # r
    BY <1>1, <1>3, <2>2, OthersUnchanged DEF Inv
  <2> QED  BY <2>1, <2>2
<1>7. owner' \in [Rows -> Requests \cup {None}] /\ OwnersAreConnected'
  BY <1>1, <1>2 DEF Inv, Types, OwnersAreConnected
<1> QED  BY <1>1, <1>3, <1>6, <1>7 DEF Inv, Types

\* The end of a transaction, after which the request goes on or is answered.
LEMMA ReleasedInv ==
    ASSUME NEW r \in Requests, Inv, Release(r), Advance(r),
           At(r, "commit") \/ At(r, "close")
    PROVE  Inv'
<1>1. script[r] # <<>>
  BY DEF At
<1>2. /\ script' = [script EXCEPT ![r] = Tail(script[r])]
      /\ script' \in [Requests -> Seq(Step)] /\ Proper(script'[r])
      /\ \A what : At(r, what) /\ script'[r] # <<>>
                     => Follows(what, Head(script'[r]).do)
  BY <1>1, Advanced
<1>3. script'[r] # <<>> => Head(script'[r]).do \in {"open", "close"}
  BY <1>2 DEF Follows
<1>4. connected' = connected \ {r} /\ Types' /\ OwnersAreConnected'
  BY <1>2, Released DEF Inv, Types
<1>5. Connection(r)'
  BY <1>2, <1>3, <1>4 DEF Connection, At, Upcoming
<1>6. ASSUME NEW q \in Requests  PROVE Connection(q)'
  <2>1. CASE q = r
    BY <1>5, <2>1
  <2>2. CASE q # r
    BY <1>2, <1>4, <2>2, OthersUnchanged DEF Inv
  <2> QED  BY <2>1, <2>2
<1> QED  BY <1>4, <1>6 DEF Inv

LEMMA CvAnsweredInv ==
    ASSUME NEW r \in Requests, Inv, CvAnswered(r)
    PROVE  Inv'
<1>1. /\ At(r, "cv") /\ Advance(r) /\ connected' = connected
      /\ owner' = owner
  BY DEF CvAnswered
<1>2. script[r] # <<>> /\ r \in connected
  BY <1>1 DEF At, Inv, Connection
<1>3. /\ script' = [script EXCEPT ![r] = Tail(script[r])]
      /\ script' \in [Requests -> Seq(Step)] /\ Proper(script'[r])
      /\ script'[r] = <<>> => At(r, "close")
      /\ script'[r] # <<>> => Follows("cv", Head(script'[r]).do)
  BY <1>1, <1>2, Advanced
<1>4. ~At(r, "close")
  BY <1>1 DEF At
<1>5. Connection(r)'
  <2>1. script'[r] # <<>> /\ Head(script'[r]).do # "open"
    BY <1>3, <1>4 DEF Follows
  <2> QED  BY <1>1, <1>2, <1>3, <2>1 DEF Connection, At, Upcoming
<1>6. ASSUME NEW q \in Requests  PROVE Connection(q)'
  <2>1. CASE q = r
    BY <1>5, <2>1
  <2>2. CASE q # r
    BY <1>1, <1>3, <2>2, OthersUnchanged DEF Inv
  <2> QED  BY <2>1, <2>2
<1> QED  BY <1>1, <1>3, <1>6 DEF Inv, Types, OwnersAreConnected

LEMMA StutterInv ==
    ASSUME Inv, UNCHANGED vars
    PROVE  Inv'
<1>1. script' = script /\ connected' = connected /\ owner' = owner
  BY DEF vars
<1>2. ASSUME NEW q \in Requests  PROVE Connection(q)'
  BY <1>1 DEF Inv, Connection, At, Upcoming
<1> QED  BY <1>1, <1>2 DEF Inv, Types, OwnersAreConnected

LEMMA NextInv ==
    ASSUME Inv, [Next]_vars
    PROVE  Inv'
<1>1. CASE UNCHANGED vars
  BY <1>1, StutterInv
<1>2. ASSUME NEW r \in Requests, Accept(r)  PROVE Inv'
  BY <1>2, AcceptInv
<1>3. ASSUME NEW r \in Requests, CheckOut(r)  PROVE Inv'
  BY <1>3, CheckOutInv
<1>4. ASSUME NEW r \in Requests, PoolTimeout(r)  PROVE Inv'
  BY <1>4, Abandoned DEF PoolTimeout
<1>5. ASSUME NEW r \in Requests, Update(r)  PROVE Inv'
  BY <1>5, UpdateInv
<1>6. ASSUME NEW r \in Requests, CommitTransaction(r)  PROVE Inv'
  BY <1>6, ReleasedInv DEF CommitTransaction
<1>7. ASSUME NEW r \in Requests, CvAnswered(r)  PROVE Inv'
  BY <1>7, CvAnsweredInv
<1>8. ASSUME NEW r \in Requests, Answer(r)  PROVE Inv'
  BY <1>8, ReleasedInv DEF Answer
<1>9. ASSUME NEW r \in Requests, Victim(r)  PROVE Inv'
  BY <1>9, Abandoned DEF Victim
<1>10. ASSUME NEW r \in Requests, Refuse(r)  PROVE Inv'
  BY <1>10, Abandoned DEF Refuse
<1> QED
  BY <1>1, <1>2, <1>3, <1>4, <1>5, <1>6, <1>7, <1>8, <1>9, <1>10
  DEF Next, GoOn

\* The number of connections in use never exceeds what the pool may open,
\* however requests begin, wait and fail.
THEOREM TypesHold == Spec => []TypeOK
<1>1. Inv => TypeOK
  BY DEF Inv, Types, TypeOK
<1> QED  BY <1>1, InitInv, NextInv, PTL DEF Spec

-----------------------------------------------------------------------------
(* Deadlocks *)

\* Among requests that wait for each other, those that wait for a row are a
\* cycle of their own: a row is owned by a connected request, which does not
\* wait for the pool, and if one waits for the pool, then a connected one waits
\* with it.
LEMMA RowsCloseCycles ==
    ASSUME Inv, NEW R \in SUBSET Requests, Stuck(R)
    PROVE  \E C \in SUBSET R : RowCycle(C)
<1> DEFINE C == {r \in R : WaitsForRow(r)}
<1>1. ASSUME NEW q \in R, q \in connected  PROVE q \in C
  <2>1. ~At(q, "open")
    BY <1>1 DEF Inv, Connection
  <2> QED  BY <1>1, <2>1 DEF Stuck, WaitsForConnection
<1>2. C # {}
  <2>1. PICK r \in R : TRUE
    BY DEF Stuck
  <2>2. CASE WaitsForRow(r)
    BY <2>2
  <2>3. CASE ~WaitsForRow(r)
    <3>1. connected \subseteq R /\ Cardinality(connected) >= MaxConnections
      BY <2>3 DEF Stuck, WaitsForConnection
    <3>2. connected # {}
      BY <3>1, Positive, FS_EmptySet
    <3> QED  BY <1>1, <3>1, <3>2
  <2> QED  BY <2>2, <2>3
<1>3. ASSUME NEW r \in C
      PROVE  WaitsForRow(r) /\ owner[Upcoming(r).row] \in C
  <2>1. WaitsForRow(r) /\ At(r, "lock")
    BY DEF WaitsForRow
  <2>2. ~WaitsForConnection(r)
    BY <2>1 DEF At, WaitsForConnection
  <2>3. owner[Upcoming(r).row] \in R /\ owner[Upcoming(r).row] # None
    BY <2>1, <2>2 DEF Stuck, WaitsForRow
  <2>4. Upcoming(r).row \in Rows
    <3>1. Proper(script[r]) /\ script[r] # <<>>
      BY <2>1 DEF At, Inv, Connection
    <3>2. Upcoming(r) \in Step
      BY <3>1, TailIsProper DEF Upcoming
    <3> QED  BY <2>1, <3>2 DEF At, Step
  <2>5. owner[Upcoming(r).row] \in connected
    BY <2>3, <2>4 DEF Inv, OwnersAreConnected
  <2> QED  BY <1>1, <2>1, <2>3, <2>5
<1> HIDE DEF C
<1>4. Stuck(C)
  BY <1>2, <1>3 DEF Stuck
<1>5. RowCycle(C)
  BY <1>3, <1>4 DEF RowCycle
<1>6. C \in SUBSET R
  BY DEF C
<1> QED  BY <1>5, <1>6

\* No set of requests waits for each other without a cycle of rows in it, which
\* PostgreSQL sees: the pool never deadlocks with the row locks, whatever its
\* size.
THEOREM DeadlocksSeen == Spec => []DeadlocksAreSeen
<1>1. Inv => DeadlocksAreSeen
  BY RowsCloseCycles DEF DeadlocksAreSeen
<1> QED  BY <1>1, InitInv, NextInv, PTL DEF Spec

-----------------------------------------------------------------------------
(* The order of the locks *)

IsLock(x, S) == x.do = "lock" /\ x.row \in S

\* What a handler updates: an act and its order, one row, or nothing.
Targets ==
    {{a, OrderOf[a]} : a \in Acts} \cup {{x} : x \in Orders \cup Users}
        \cup {{}}

LocksIn(s, M) == \A i \in 1..Len(s) : s[i].do = "lock" => s[i].row \in M

\* A check of the photos is still to come, in a later transaction.
ChecksLater(s) ==
    \E i \in 1..Len(s) :
        s[i].do = "cv" /\ \E j \in 1..i : s[j].do = "commit"

\* Every lock of an order is in a later transaction, or such a check follows.
Excused(s) ==
    \A k \in 1..Len(s) :
        IsLock(s[k], Orders) =>
            \E c \in 1..Len(s) :
                /\ s[c].do = "commit"
                /\ c < k \/ \E d \in c..Len(s) : s[d].do = "cv"

\* What comes after any lock of an act is excused.
ActsAreExcused(s) ==
    \A i \in 1..Len(s) : \A k \in (i + 1)..Len(s) :
        IsLock(s[i], Acts) /\ IsLock(s[k], Orders) =>
            \E c \in (i + 1)..Len(s) :
                /\ s[c].do = "commit"
                /\ c < k \/ \E d \in c..Len(s) : s[d].do = "cv"

LEMMA LocksAreLocks ==
    /\ \A row \in Rows : \A S : IsLock(Lock(row), S) <=> row \in S
    /\ \A S : ~IsLock(Open, S) /\ ~IsLock(Commit, S) /\ ~IsLock(Cv, S)
                 /\ ~IsLock(Close, S)
<1>1. ASSUME NEW row \in Rows, NEW S
      PROVE  IsLock(Lock(row), S) <=> row \in S
  BY StepsAreSteps DEF IsLock
<1>2. ASSUME NEW S
      PROVE  ~IsLock(Open, S) /\ ~IsLock(Commit, S) /\ ~IsLock(Cv, S)
                /\ ~IsLock(Close, S)
  BY PlainSteps DEF IsLock
<1> QED  BY <1>1, <1>2

LEMMA PrecededElements ==
    ASSUME NEW x \in Step, NEW s \in Seq(Step)
    PROVE  /\ <<x>> \o s \in Seq(Step)
           /\ Len(s) \in Nat /\ Len(<<x>> \o s) = Len(s) + 1
           /\ (<<x>> \o s)[1] = x
           /\ \A i \in 2..Len(s) + 1 : (<<x>> \o s)[i] = s[i - 1]
           /\ \A i \in 1..Len(s) : (<<x>> \o s)[i + 1] = s[i]
  OBVIOUS

LEMMA PrecededLocksIn ==
    ASSUME NEW x \in Step, NEW s \in Seq(Step), NEW M, LocksIn(s, M),
           x.do = "lock" => x.row \in M
    PROVE  LocksIn(<<x>> \o s, M)
<1> DEFINE t == <<x>> \o s
<1>1. /\ Len(s) \in Nat /\ Len(t) = Len(s) + 1 /\ t[1] = x
      /\ \A i \in 2..Len(s) + 1 : t[i] = s[i - 1]
  BY PrecededElements
<1> HIDE DEF t
<1>2. LocksIn(t, M)
  BY <1>1 DEF LocksIn
<1> QED  BY <1>2 DEF t

LEMMA PrecededChecksLater ==
    ASSUME NEW x \in Step, NEW s \in Seq(Step), ChecksLater(s)
    PROVE  ChecksLater(<<x>> \o s)
<1> DEFINE t == <<x>> \o s
<1>1. /\ Len(s) \in Nat /\ Len(t) = Len(s) + 1
      /\ \A i \in 1..Len(s) : t[i + 1] = s[i]
  BY PrecededElements
<1> HIDE DEF t
<1>0. PICK i \in 1..Len(s) :
         s[i].do = "cv" /\ \E j \in 1..i : s[j].do = "commit"
  BY DEF ChecksLater
<1>2. PICK j \in 1..i : s[i].do = "cv" /\ s[j].do = "commit"
  BY <1>0
<1>3. /\ t[i + 1].do = "cv" /\ t[j + 1].do = "commit"
      /\ i + 1 \in 1..Len(t) /\ j + 1 \in 1..(i + 1)
  BY <1>1, <1>2
<1>4. ChecksLater(t)
  BY <1>3 DEF ChecksLater
<1> QED  BY <1>4 DEF t

LEMMA PrecededExcused ==
    ASSUME NEW x \in Step, NEW s \in Seq(Step), Excused(s),
           IsLock(x, Orders) => ChecksLater(s)
    PROVE  Excused(<<x>> \o s)
<1> DEFINE t == <<x>> \o s
<1>1. /\ Len(s) \in Nat /\ Len(t) = Len(s) + 1 /\ t[1] = x
      /\ \A i \in 1..Len(s) : t[i + 1] = s[i]
  BY PrecededElements
<1> HIDE DEF t
<1>2. ASSUME NEW k \in 1..Len(t), IsLock(t[k], Orders)
      PROVE  \E c \in 1..Len(t) :
                /\ t[c].do = "commit"
                /\ c < k \/ \E d \in c..Len(t) : t[d].do = "cv"
  <2>1. CASE k = 1
    <3>0. PICK i \in 1..Len(s) :
             s[i].do = "cv" /\ \E j \in 1..i : s[j].do = "commit"
      BY <1>1, <1>2, <2>1 DEF ChecksLater
    <3>1. PICK j \in 1..i : s[i].do = "cv" /\ s[j].do = "commit"
      BY <3>0
    <3>2. /\ t[i + 1].do = "cv" /\ t[j + 1].do = "commit"
          /\ j + 1 \in 1..Len(t) /\ i + 1 \in (j + 1)..Len(t)
      BY <1>1, <3>1
    <3> QED  BY <3>2
  <2>2. CASE k # 1
    <3>1. k - 1 \in 1..Len(s) /\ t[(k - 1) + 1] = s[k - 1] /\ (k - 1) + 1 = k
      BY <1>1, <2>2
    <3>2. PICK c \in 1..Len(s) :
             /\ s[c].do = "commit"
             /\ c < k - 1 \/ \E d \in c..Len(s) : s[d].do = "cv"
      BY <1>2, <3>1 DEF Excused
    <3>3. t[c + 1].do = "commit" /\ c + 1 \in 1..Len(t)
      BY <1>1, <3>2
    <3>4. CASE c < k - 1
      <4>1. c + 1 < k
        BY <3>4
      <4> QED  BY <3>3, <4>1
    <3>5. CASE \E d \in c..Len(s) : s[d].do = "cv"
      <4>1. PICK d \in c..Len(s) : s[d].do = "cv"
        BY <3>5
      <4>2. t[d + 1].do = "cv" /\ d + 1 \in (c + 1)..Len(t)
        BY <1>1, <4>1
      <4> QED  BY <3>3, <4>2
    <3> QED  BY <3>2, <3>4, <3>5
  <2> QED  BY <2>1, <2>2
<1>3. Excused(t)
  BY <1>2 DEF Excused
<1> QED  BY <1>3 DEF t

LEMMA PrecededActsAreExcused ==
    ASSUME NEW x \in Step, NEW s \in Seq(Step), ActsAreExcused(s),
           IsLock(x, Acts) => Excused(s)
    PROVE  ActsAreExcused(<<x>> \o s)
<1> DEFINE t == <<x>> \o s
<1>1. /\ Len(s) \in Nat /\ Len(t) = Len(s) + 1 /\ t[1] = x
      /\ \A i \in 1..Len(s) : t[i + 1] = s[i]
  BY PrecededElements
<1> HIDE DEF t
<1>2. ASSUME NEW i \in 1..Len(t), NEW k \in (i + 1)..Len(t),
             IsLock(t[i], Acts), IsLock(t[k], Orders)
      PROVE  \E c \in (i + 1)..Len(t) :
                /\ t[c].do = "commit"
                /\ c < k \/ \E d \in c..Len(t) : t[d].do = "cv"
  <2>1. k - 1 \in 1..Len(s) /\ t[(k - 1) + 1] = s[k - 1] /\ (k - 1) + 1 = k
    BY <1>1
  <2>2. \E c \in i..Len(s) :
           /\ s[c].do = "commit"
           /\ c < k - 1 \/ \E d \in c..Len(s) : s[d].do = "cv"
    <3>1. CASE i = 1
      <4>1. Excused(s)
        BY <1>1, <1>2, <3>1
      <4> QED  BY <1>2, <2>1, <3>1, <4>1 DEF Excused
    <3>2. CASE i # 1
      <4>1. /\ i - 1 \in 1..Len(s) /\ t[(i - 1) + 1] = s[i - 1]
            /\ (i - 1) + 1 = i /\ k - 1 \in ((i - 1) + 1)..Len(s)
        BY <1>1, <3>2
      <4>2. IsLock(s[i - 1], Acts) /\ IsLock(s[k - 1], Orders)
        BY <1>2, <2>1, <4>1
      <4>3. \E c \in ((i - 1) + 1)..Len(s) :
               /\ s[c].do = "commit"
               /\ c < k - 1 \/ \E d \in c..Len(s) : s[d].do = "cv"
        BY <4>1, <4>2 DEF ActsAreExcused
      <4> QED  BY <4>1, <4>3
    <3> QED  BY <3>1, <3>2
  <2>3. PICK c \in i..Len(s) :
           /\ s[c].do = "commit"
           /\ c < k - 1 \/ \E d \in c..Len(s) : s[d].do = "cv"
    BY <2>2
  <2>4. t[c + 1].do = "commit" /\ c + 1 \in (i + 1)..Len(t)
    BY <1>1, <2>3
  <2>5. CASE c < k - 1
    <3>1. c + 1 < k
      BY <2>5
    <3> QED  BY <2>4, <3>1
  <2>6. CASE \E d \in c..Len(s) : s[d].do = "cv"
    <3>1. PICK d \in c..Len(s) : s[d].do = "cv"
      BY <2>6
    <3>2. t[d + 1].do = "cv" /\ d + 1 \in (c + 1)..Len(t)
      BY <1>1, <3>1
    <3> QED  BY <2>4, <3>2
  <2> QED  BY <2>3, <2>5, <2>6
<1>3. ActsAreExcused(t)
  BY <1>2 DEF ActsAreExcused
<1> QED  BY <1>3 DEF t

\* What a handler updates, and in which order.
Planned(s, M) == LocksIn(s, M) /\ ActsAreExcused(s)

LEMMA OpenPlanned ==
    ASSUME NEW s \in Seq(Step), NEW M, Planned(s, M)
    PROVE  Planned(<<Open>> \o s, M)
<1>1. Open \in Step /\ Open.do # "lock" /\ ~IsLock(Open, Acts)
  BY PlainSteps, LocksAreLocks
<1> QED
  BY <1>1, PrecededLocksIn, PrecededActsAreExcused DEF Planned

LEMMA MayPlanned ==
    ASSUME NEW row \in Rows, NEW m \in MayLock(row), NEW s \in Seq(Step),
           NEW M, row \in M, Planned(s, M), row \in Acts => Excused(s)
    PROVE  m \o s \in Seq(Step) /\ Planned(m \o s, M)
<1>1. CASE m = <<>>
  BY <1>1, ConcatEmptySeq
<1>2. CASE m = <<Lock(row)>>
  <2>1. /\ Lock(row) \in Step /\ Lock(row).row = row
        /\ IsLock(Lock(row), Acts) => Excused(s)
    BY StepsAreSteps, LocksAreLocks
  <2>2. Planned(<<Lock(row)>> \o s, M)
    BY <2>1, PrecededLocksIn, PrecededActsAreExcused DEF Planned
  <2>3. <<Lock(row)>> \o s \in Seq(Step)
    BY <2>1, PrecededElements
  <2> QED  BY <1>2, <2>2, <2>3
<1> QED  BY <1>1, <1>2, MaySteps

LEMMA MayExcused ==
    ASSUME NEW row \in Rows, NEW m \in MayLock(row), NEW s \in Seq(Step),
           Excused(s), ChecksLater(s)
    PROVE  Excused(m \o s)
<1>1. CASE m = <<>>
  BY <1>1, ConcatEmptySeq
<1>2. CASE m = <<Lock(row)>>
  BY <1>2, StepsAreSteps, PrecededExcused
<1> QED  BY <1>1, <1>2, MaySteps

LEMMA NoActsArePlanned ==
    ASSUME NEW s \in Seq(Step), NEW M, LocksIn(s, M),
           \A i \in 1..Len(s) : ~IsLock(s[i], Acts)
    PROVE  Planned(s, M)
<1>1. \A i \in 1..Len(s) : i \in Nat
  OBVIOUS
<1> QED  BY <1>1 DEF Planned, ActsAreExcused

LEMMA OrderScriptsArePlanned ==
    ASSUME NEW o \in Orders, NEW s \in UpdateOrderScripts(o) \cup StartScripts(o)
    PROVE  Planned(s, {o})
<1> DEFINE end == <<Commit, Open, Close>>
<1>0. o \in Rows /\ o \notin Acts
  BY ConnectionsAssumption DEF Rows
<1>1. Planned(end, {o}) /\ end \in Seq(Step)
  <2>1. end \in Seq(Step) /\ LocksIn(end, {o})
    BY PlainSteps DEF LocksIn
  <2>2. \A i \in 1..Len(end) : ~IsLock(end[i], Acts)
    BY PlainSteps, LocksAreLocks
  <2> QED  BY <2>1, <2>2, NoActsArePlanned
<1>2. CASE s \in UpdateOrderScripts(o)
  <2>1. PICK m \in MayLock(o) : s = (<<Open>> \o m) \o end
    BY <1>2 DEF UpdateOrderScripts
  <2>2. s = <<Open>> \o (m \o end)
    BY <1>0, <1>1, <2>1, Associated, MayTyped
  <2> HIDE DEF end
  <2>3. m \o end \in Seq(Step) /\ Planned(m \o end, {o})
    BY <1>0, <1>1, MayPlanned
  <2> QED  BY <2>2, <2>3, OpenPlanned
<1>3. CASE s \in StartScripts(o)
  <2>1. s = <<Open, Lock(o), Commit, Open, Close>>
    BY <1>3 DEF StartScripts
  <2>2. s \in Seq(Step) /\ LocksIn(s, {o})
    BY <1>0, <2>1, PlainSteps, StepsAreSteps DEF LocksIn
  <2>3. \A i \in 1..Len(s) : ~IsLock(s[i], Acts)
    BY <1>0, <2>1, LocksAreLocks
  <2> QED  BY <2>2, <2>3, NoActsArePlanned
<1> QED  BY <1>2, <1>3

LEMMA ReviewIsPlanned ==
    ASSUME NEW a \in Acts, NEW s \in ReviewScripts(a)
    PROVE  Planned(s, {a, OrderOf[a]})
<1> DEFINE o == OrderOf[a]
           end == <<Lock(a), Commit, Open, Close>>
<1>0. a \in Rows /\ a \notin Orders /\ o \in Rows /\ o \notin Acts
  BY ConnectionsAssumption DEF Rows
<1>1. Planned(end, {a, o}) /\ end \in Seq(Step)
  <2>1. end \in Seq(Step) /\ LocksIn(end, {a, o})
    BY <1>0, PlainSteps, StepsAreSteps DEF LocksIn
  <2>2. \A i \in 1..Len(end) : ~IsLock(end[i], Orders)
    BY <1>0, LocksAreLocks
  <2>3. ActsAreExcused(end)
    BY <2>1, <2>2 DEF ActsAreExcused
  <2> QED  BY <2>1, <2>3 DEF Planned
<1>2. PICK m \in MayLock(o) : s = (<<Open>> \o m) \o end
  BY DEF ReviewScripts
<1>3. s = <<Open>> \o (m \o end)
  BY <1>0, <1>1, <1>2, Associated, MayTyped
<1> HIDE DEF end
<1>4. m \o end \in Seq(Step) /\ Planned(m \o end, {a, o})
  BY <1>0, <1>1, MayPlanned
<1> QED  BY <1>3, <1>4, OpenPlanned

LEMMA CheckIsPlanned ==
    ASSUME NEW a \in Acts
    PROVE  /\ Planned(CheckSteps(a), {a, OrderOf[a]})
           /\ Excused(CheckSteps(a)) /\ ChecksLater(CheckSteps(a))
<1> DEFINE o == OrderOf[a]
           s == CheckSteps(a)
<1>0. a \in Rows /\ a \notin Orders /\ o \in Rows /\ o \notin Acts
  BY ConnectionsAssumption DEF Rows
<1>1. s = <<Commit, Open, Cv, Lock(o), Lock(a), Commit, Open, Close>>
  BY DEF CheckSteps
<1>2. /\ s \in Seq(Step) /\ Len(s) = 8
      /\ s[1] = Commit /\ s[2] = Open /\ s[3] = Cv /\ s[4] = Lock(o)
      /\ s[5] = Lock(a) /\ s[6] = Commit /\ s[7] = Open /\ s[8] = Close
  BY <1>0, <1>1, PlainSteps, StepsAreSteps
<1> HIDE DEF s
<1>3. LocksIn(s, {a, o})
  BY <1>0, <1>2, PlainSteps, StepsAreSteps DEF LocksIn
<1>4. ChecksLater(s)
  <2>1. 3 \in 1..Len(s) /\ 1 \in 1..3 /\ s[3].do = "cv" /\ s[1].do = "commit"
    BY <1>2, PlainSteps
  <2> QED  BY <2>1 DEF ChecksLater
<1>5. Excused(s)
  <2>1. ~IsLock(s[1], Orders)
    BY <1>2, LocksAreLocks
  <2>2. \A k \in 2..Len(s) : 1 < k
    OBVIOUS
  <2>3. 1 \in 1..Len(s) /\ s[1].do = "commit"
    BY <1>2, PlainSteps
  <2> QED  BY <1>2, <2>1, <2>2, <2>3 DEF Excused
<1>6. ActsAreExcused(s)
  <2>1. ASSUME NEW i \in 1..Len(s), IsLock(s[i], Acts)  PROVE i = 5
    BY <1>0, <1>2, <2>1, LocksAreLocks
  <2>2. ASSUME NEW k \in 6..Len(s)  PROVE ~IsLock(s[k], Orders)
    BY <1>2, LocksAreLocks
  <2> QED  BY <1>2, <2>1, <2>2 DEF ActsAreExcused
<1> QED  BY <1>3, <1>4, <1>5, <1>6 DEF Planned, s

LEMMA SubmitIsPlanned ==
    ASSUME NEW a \in Acts, NEW s \in SubmitScripts(a)
    PROVE  Planned(s, {a, OrderOf[a]})
<1> DEFINE end == CheckSteps(a)
           M == {a, OrderOf[a]}
<1>0. a \in Rows /\ OrderOf[a] \in Rows /\ OrderOf[a] \notin Acts
  BY ConnectionsAssumption DEF Rows
<1>1. /\ end \in Seq(Step) /\ Planned(end, M) /\ Excused(end)
      /\ ChecksLater(end)
  BY CheckIsPlanned, CheckIsProper DEF Proper
<1>2. PICK act \in MayLock(a), order \in MayLock(OrderOf[a]) :
         s = ((<<Open>> \o act) \o order) \o end
  BY SMTT(30) DEF SubmitScripts
<1> HIDE DEF end
<1>3. act \in Seq(Step) /\ order \in Seq(Step)
  BY <1>0, MayTyped
<1>4. /\ order \o end \in Seq(Step) /\ Planned(order \o end, M)
      /\ Excused(order \o end)
  BY <1>0, <1>1, MayPlanned, MayExcused
<1>5. /\ act \o (order \o end) \in Seq(Step)
      /\ Planned(act \o (order \o end), M)
  BY <1>0, <1>4, MayPlanned
<1>6. s = <<Open>> \o (act \o (order \o end))
  <2>1. <<Open>> \o act \in Seq(Step)
    BY <1>3, PlainSteps
  <2>2. s = (<<Open>> \o act) \o (order \o end)
    BY <1>1, <1>2, <1>3, <2>1, ConcatAssociative, SMTT(30)
  <2> QED  BY <1>3, <1>4, <2>2, Associated
<1> QED  BY <1>5, <1>6, OpenPlanned

LEMMA OtherIsPlanned ==
    ASSUME NEW s \in ReadScripts \cup InsertScripts \cup LoginScripts
    PROVE  \E M \in Targets : Planned(s, M)
<1>1. CASE \E u \in Users : s = <<Open, Lock(u), Commit, Open, Commit, Close>>
  <2>1. PICK u \in Users : s = <<Open, Lock(u), Commit, Open, Commit, Close>>
    BY <1>1
  <2>2. u \in Rows /\ u \notin Acts /\ {u} \in Targets
    BY ConnectionsAssumption DEF Rows, Targets
  <2>3. s \in Seq(Step) /\ LocksIn(s, {u})
    BY <2>1, <2>2, PlainSteps, StepsAreSteps DEF LocksIn
  <2>4. \A i \in 1..Len(s) : ~IsLock(s[i], Acts)
    BY <2>1, <2>2, LocksAreLocks
  <2>5. Planned(s, {u})
    BY <2>3, <2>4, NoActsArePlanned
  <2> QED  BY <2>2, <2>5
<1>2. CASE ~\E u \in Users : s = <<Open, Lock(u), Commit, Open, Commit, Close>>
  <2>1. \/ s = <<Open, Close>> \/ s = <<Open, Commit, Open, Close>>
        \/ s = <<Open, Commit, Close>>
    BY <1>2 DEF ReadScripts, InsertScripts, LoginScripts
  <2>2. s \in Seq(Step) /\ LocksIn(s, {})
    <3>1. CASE s = <<Open, Close>>
      BY <3>1, PlainSteps DEF LocksIn
    <3>2. CASE s = <<Open, Commit, Open, Close>>
      BY <3>2, PlainSteps DEF LocksIn
    <3>3. CASE s = <<Open, Commit, Close>>
      BY <3>3, PlainSteps DEF LocksIn
    <3> QED  BY <2>1, <3>1, <3>2, <3>3
  <2>3. \A i \in 1..Len(s) : ~IsLock(s[i], Acts)
    BY <2>1, LocksAreLocks
  <2>4. Planned(s, {})
    BY <2>2, <2>3, NoActsArePlanned
  <2> QED  BY <2>4 DEF Targets
<1> QED  BY <1>1, <1>2

LEMMA ScriptsArePlanned ==
    ASSUME NEW s \in Scripts
    PROVE  \E M \in Targets : Planned(s, M)
<1>1. CASE \E o \in Orders : s \in UpdateOrderScripts(o) \cup StartScripts(o)
  <2>1. PICK o \in Orders : s \in UpdateOrderScripts(o) \cup StartScripts(o)
    BY <1>1
  <2>2. {o} \in Targets
    BY DEF Targets
  <2> QED  BY <2>1, <2>2, OrderScriptsArePlanned
<1>2. CASE \E a \in Acts : s \in SubmitScripts(a) \cup ReviewScripts(a)
  <2>1. PICK a \in Acts : s \in SubmitScripts(a) \cup ReviewScripts(a)
    BY <1>2
  <2>2. {a, OrderOf[a]} \in Targets
    BY DEF Targets
  <2> QED  BY <2>1, <2>2, SubmitIsPlanned, ReviewIsPlanned
<1>3. CASE s \in ReadScripts \cup InsertScripts \cup LoginScripts
  BY <1>3, OtherIsPlanned
<1> QED  BY <1>1, <1>2, <1>3 DEF Scripts

LEMMA TailElements ==
    ASSUME NEW s \in Seq(Step), s # <<>>
    PROVE  /\ Len(s) \in Nat \ {0} /\ Len(Tail(s)) = Len(s) - 1
           /\ Tail(s) \in Seq(Step)
           /\ \A i \in 1..Len(Tail(s)) : Tail(s)[i] = s[i + 1]
           /\ Head(s) = s[1]
<1>1. Len(s) \in Nat \ {0}
  BY EmptySeq
<1>2. Head(s) = s[1]
  BY <1>1
<1> QED  BY <1>1, <1>2, HeadTailProperties

LEMMA TailPlanned ==
    ASSUME NEW s \in Seq(Step), s # <<>>, NEW M, Planned(s, M)
    PROVE  /\ Planned(Tail(s), M)
           /\ IsLock(s[1], Acts) => Excused(Tail(s))
<1> DEFINE t == Tail(s)
<1>1. /\ Len(s) \in Nat \ {0} /\ Len(t) = Len(s) - 1
      /\ \A i \in 1..Len(t) : t[i] = s[i + 1]
  BY TailElements
<1> HIDE DEF t
<1>2. LocksIn(t, M)
  BY <1>1 DEF Planned, LocksIn
<1>3. ActsAreExcused(t)
  <2>1. ASSUME NEW i \in 1..Len(t), NEW k \in (i + 1)..Len(t),
               IsLock(t[i], Acts), IsLock(t[k], Orders)
        PROVE  \E c \in (i + 1)..Len(t) :
                  /\ t[c].do = "commit"
                  /\ c < k \/ \E d \in c..Len(t) : t[d].do = "cv"
    <3>1. /\ i + 1 \in 1..Len(s) /\ k + 1 \in ((i + 1) + 1)..Len(s)
          /\ IsLock(s[i + 1], Acts) /\ IsLock(s[k + 1], Orders)
      BY <1>1, <2>1
    <3>2. PICK c \in ((i + 1) + 1)..Len(s) :
             /\ s[c].do = "commit"
             /\ c < k + 1 \/ \E d \in c..Len(s) : s[d].do = "cv"
      BY <3>1 DEF Planned, ActsAreExcused
    <3>3. /\ c - 1 \in (i + 1)..Len(t) /\ (c - 1) + 1 = c
          /\ t[c - 1].do = "commit"
      BY <1>1, <3>2
    <3>4. CASE c < k + 1
      <4>1. c - 1 < k
        BY <3>4
      <4> QED  BY <3>3, <4>1
    <3>5. CASE \E d \in c..Len(s) : s[d].do = "cv"
      <4>1. PICK d \in c..Len(s) : s[d].do = "cv"
        BY <3>5
      <4>2. d - 1 \in (c - 1)..Len(t) /\ (d - 1) + 1 = d /\ t[d - 1].do = "cv"
        BY <1>1, <3>2, <4>1
      <4> QED  BY <3>3, <4>2
    <3> QED  BY <3>2, <3>4, <3>5
  <2> QED  BY <2>1 DEF ActsAreExcused
<1>4. ASSUME IsLock(s[1], Acts)  PROVE Excused(t)
  <2>1. ASSUME NEW k \in 1..Len(t), IsLock(t[k], Orders)
        PROVE  \E c \in 1..Len(t) :
                  /\ t[c].do = "commit"
                  /\ c < k \/ \E d \in c..Len(t) : t[d].do = "cv"
    <3>1. 1 \in 1..Len(s) /\ k + 1 \in (1 + 1)..Len(s) /\ IsLock(s[k + 1], Orders)
      BY <1>1, <2>1
    <3>2. PICK c \in (1 + 1)..Len(s) :
             /\ s[c].do = "commit"
             /\ c < k + 1 \/ \E d \in c..Len(s) : s[d].do = "cv"
      BY <1>4, <3>1 DEF Planned, ActsAreExcused
    <3>3. /\ c - 1 \in 1..Len(t) /\ (c - 1) + 1 = c /\ t[c - 1].do = "commit"
      BY <1>1, <3>2
    <3>4. CASE c < k + 1
      <4>1. c - 1 < k
        BY <3>4
      <4> QED  BY <3>3, <4>1
    <3>5. CASE \E d \in c..Len(s) : s[d].do = "cv"
      <4>1. PICK d \in c..Len(s) : s[d].do = "cv"
        BY <3>5
      <4>2. d - 1 \in (c - 1)..Len(t) /\ (d - 1) + 1 = d /\ t[d - 1].do = "cv"
        BY <1>1, <3>2, <4>1
      <4> QED  BY <3>3, <4>2
    <3> QED  BY <3>2, <3>4, <3>5
  <2> QED  BY <2>1 DEF Excused
<1> QED  BY <1>2, <1>3, <1>4 DEF t, Planned

LEMMA TailExcused ==
    ASSUME NEW s \in Seq(Step), s # <<>>, Excused(s), s[1].do # "commit"
    PROVE  /\ Excused(Tail(s))
           /\ IsLock(s[1], Orders) => ChecksLater(s)
<1> DEFINE t == Tail(s)
<1>1. /\ Len(s) \in Nat \ {0} /\ Len(t) = Len(s) - 1
      /\ \A i \in 1..Len(t) : t[i] = s[i + 1]
  BY TailElements
<1> HIDE DEF t
<1>2. Excused(t)
  <2>1. ASSUME NEW k \in 1..Len(t), IsLock(t[k], Orders)
        PROVE  \E c \in 1..Len(t) :
                  /\ t[c].do = "commit"
                  /\ c < k \/ \E d \in c..Len(t) : t[d].do = "cv"
    <3>1. k + 1 \in 1..Len(s) /\ IsLock(s[k + 1], Orders)
      BY <1>1, <2>1
    <3>2. PICK c \in 1..Len(s) :
             /\ s[c].do = "commit"
             /\ c < k + 1 \/ \E d \in c..Len(s) : s[d].do = "cv"
      BY <3>1 DEF Excused
    <3>3. /\ c - 1 \in 1..Len(t) /\ (c - 1) + 1 = c /\ t[c - 1].do = "commit"
      <4>1. c # 1
        BY <3>2
      <4> QED  BY <1>1, <3>2, <4>1
    <3>4. CASE c < k + 1
      <4>1. c - 1 < k
        BY <3>4
      <4> QED  BY <3>3, <4>1
    <3>5. CASE \E d \in c..Len(s) : s[d].do = "cv"
      <4>1. PICK d \in c..Len(s) : s[d].do = "cv"
        BY <3>5
      <4>2. d - 1 \in (c - 1)..Len(t) /\ (d - 1) + 1 = d /\ t[d - 1].do = "cv"
        BY <1>1, <3>2, <3>3, <4>1
      <4> QED  BY <3>3, <4>2
    <3> QED  BY <3>2, <3>4, <3>5
  <2> QED  BY <2>1 DEF Excused
<1>3. ASSUME IsLock(s[1], Orders)  PROVE ChecksLater(s)
  <2>1. PICK c \in 1..Len(s) :
           /\ s[c].do = "commit"
           /\ c < 1 \/ \E d \in c..Len(s) : s[d].do = "cv"
    BY <1>1, <1>3 DEF Excused
  <2>2. PICK d \in c..Len(s) : s[d].do = "cv"
    BY <2>1
  <2>3. d \in 1..Len(s) /\ c \in 1..d
    BY <1>1, <2>1, <2>2
  <2> QED  BY <2>1, <2>2, <2>3 DEF ChecksLater
<1> QED  BY <1>2, <1>3 DEF t

\* A request owns rows of its target only, and once it owns the act, an order
\* is not locked before the check, unless the check is yet to come.
Plan(r) ==
    \E M \in Targets :
        /\ Planned(script[r], M)
        /\ \A row \in Rows : owner[row] = r => row \in M
        /\ (\E a \in Acts : owner[a] = r) => Excused(script[r])

PlannedInv == Inv /\ \A r \in Requests : Plan(r)

LEMMA PlanKept ==
    ASSUME NEW q \in Requests, Plan(q), script'[q] = script[q],
           \A row \in Rows : owner'[row] = q => owner[row] = q
    PROVE  Plan(q)'
<1>1. PICK M \in Targets :
         /\ Planned(script[q], M)
         /\ \A row \in Rows : owner[row] = q => row \in M
         /\ (\E a \in Acts : owner[a] = q) => Excused(script[q])
  BY DEF Plan
<1>2. (\E a \in Acts : owner'[a] = q) => Excused(script'[q])
  BY <1>1 DEF Rows
<1> QED  BY <1>1, <1>2 DEF Plan

LEMMA PlanOfFreeRequest ==
    ASSUME NEW r \in Requests, NEW M \in Targets, Planned(script'[r], M),
           \A row \in Rows : owner'[row] # r
    PROVE  Plan(r)'
<1>1. ~\E a \in Acts : owner'[a] = r
  BY DEF Rows
<1> QED  BY <1>1 DEF Plan

LEMMA PlanOfGone ==
    ASSUME NEW r \in Requests, script'[r] = <<>>,
           \A row \in Rows : owner'[row] # r
    PROVE  Plan(r)'
<1>1. Planned(<<>>, {}) /\ {} \in Targets
  BY DEF Planned, LocksIn, ActsAreExcused, Targets
<1> QED  BY <1>1, PlanOfFreeRequest

LEMMA PlanAdvanced ==
    ASSUME NEW r \in Requests, Inv, Plan(r), Advance(r), owner' = owner,
           At(r, "open") \/ At(r, "cv")
    PROVE  Plan(r)'
<1> DEFINE s == script[r]
<1>1. s \in Seq(Step) /\ s # <<>> /\ script'[r] = Tail(s)
  BY Advanced DEF At, Inv, Types
<1>2. s[1].do # "commit"
  BY <1>1, TailElements DEF At, Upcoming
<1>3. PICK M \in Targets :
         /\ Planned(s, M)
         /\ \A row \in Rows : owner[row] = r => row \in M
         /\ (\E a \in Acts : owner[a] = r) => Excused(s)
  BY DEF Plan
<1>4. Planned(Tail(s), M)
  BY <1>1, <1>3, TailPlanned
<1>5. (\E a \in Acts : owner[a] = r) => Excused(Tail(s))
  BY <1>1, <1>2, <1>3, TailExcused
<1> QED  BY <1>1, <1>3, <1>4, <1>5 DEF Plan

LEMMA PlanReleased ==
    ASSUME NEW r \in Requests, Inv, Plan(r), Advance(r), Release(r),
           script[r] # <<>>
    PROVE  Plan(r)'
<1> DEFINE s == script[r]
<1>1. s \in Seq(Step) /\ script'[r] = Tail(s)
  BY Advanced DEF Inv, Types
<1>2. PICK M \in Targets : Planned(s, M)
  BY DEF Plan
<1>3. Planned(Tail(s), M)
  BY <1>1, <1>2, TailPlanned
<1>4. \A row \in Rows : owner'[row] # r
  BY ConnectionsAssumption DEF Release
<1> QED  BY <1>1, <1>3, <1>4, PlanOfFreeRequest

LEMMA UpcomingLock ==
    ASSUME NEW r \in Requests, Inv, At(r, "lock")
    PROVE  /\ script[r] \in Seq(Step) /\ script[r] # <<>>
           /\ script[r][1] = Upcoming(r) /\ Upcoming(r).row \in Rows
           /\ script[r][1].do = "lock"
           /\ 1 \in 1..Len(script[r])
<1>1. script[r] \in Seq(Step) /\ script[r] # <<>> /\ Proper(script[r])
  BY DEF At, Inv, Types, Connection
<1>2. Upcoming(r) \in Step /\ Upcoming(r) = script[r][1]
  BY <1>1, TailIsProper DEF Upcoming
<1>3. Upcoming(r).do = "lock"
  BY DEF At
<1>4. Upcoming(r).row \in Rows
  BY <1>2, <1>3 DEF Step
<1>5. 1 \in 1..Len(script[r])
  BY <1>1, TailElements
<1> QED  BY <1>1, <1>2, <1>3, <1>4, <1>5

LEMMA PlanUpdated ==
    ASSUME NEW r \in Requests, Inv, Plan(r), Update(r)
    PROVE  Plan(r)'
<1> DEFINE s == script[r]
           locked == Upcoming(r).row
<1>1. /\ s \in Seq(Step) /\ s # <<>> /\ s[1].do = "lock" /\ s[1].row = locked
      /\ 1 \in 1..Len(s) /\ locked \in Rows
  BY UpcomingLock DEF Update
<1>2. script'[r] = Tail(s)
  BY <1>1, Advanced DEF Update
<1>3. PICK M \in Targets :
         /\ Planned(s, M)
         /\ \A row \in Rows : owner[row] = r => row \in M
         /\ (\E a \in Acts : owner[a] = r) => Excused(s)
  BY DEF Plan
<1>4. locked \in M
  BY <1>1, <1>3 DEF Planned, LocksIn
<1>5. \A row \in Rows : owner'[row] = r => row = locked \/ owner[row] = r
  BY DEF Update, Inv, Types
<1>6. Planned(Tail(s), M)
  BY <1>1, <1>3, TailPlanned
<1>7. ASSUME NEW a \in Acts, owner'[a] = r  PROVE Excused(Tail(s))
  <2>1. CASE a = locked
    BY <1>1, <1>3, <2>1, TailPlanned DEF IsLock
  <2>2. CASE a # locked
    BY <1>1, <1>3, <1>5, <1>7, <2>2, TailExcused DEF Rows
  <2> QED  BY <2>1, <2>2
<1>8. \A row \in Rows : owner'[row] = r => row \in M
  BY <1>3, <1>4, <1>5
<1> QED  BY <1>2, <1>3, <1>6, <1>7, <1>8 DEF Plan

LEMMA PlanAccepted ==
    ASSUME NEW r \in Requests, Inv, Accept(r)
    PROVE  Plan(r)'
<1>1. PICK s \in Scripts : script' = [script EXCEPT ![r] = s]
  BY DEF Accept
<1>2. PICK M \in Targets : Planned(s, M)
  BY ScriptsArePlanned
<1>3. r \notin connected /\ owner' = owner /\ r # None
  BY ConnectionsAssumption DEF Accept, Inv, Connection
<1>4. \A row \in Rows : owner'[row] # r
  BY <1>3 DEF Inv, OwnersAreConnected
<1>5. script'[r] = s
  BY <1>1 DEF Inv, Types
<1> QED  BY <1>2, <1>4, <1>5, PlanOfFreeRequest

LEMMA PlanAbandoned ==
    ASSUME NEW r \in Requests, Inv, Release(r),
           script' = [script EXCEPT ![r] = <<>>]
    PROVE  Plan(r)'
<1>1. script'[r] = <<>>
  BY DEF Inv, Types
<1>2. \A row \in Rows : owner'[row] # r
  BY ConnectionsAssumption DEF Release
<1> QED  BY <1>1, <1>2, PlanOfGone

\* No step gives another request a row.
LEMMA OtherPlans ==
    ASSUME NEW r \in Requests, NEW q \in Requests, q # r, Inv, Plan(q),
           NEW s, script' = [script EXCEPT ![r] = s],
           \A row \in Rows : owner'[row] \in {owner[row], r, None}
    PROVE  Plan(q)'
<1>1. script'[q] = script[q]
  BY DEF Inv, Types
<1>2. q # None
  BY ConnectionsAssumption
<1>3. \A row \in Rows : owner'[row] = q => owner[row] = q
  BY <1>2
<1> QED  BY <1>1, <1>3, PlanKept

LEMMA InitPlanned == Init => PlannedInv
<1> SUFFICES ASSUME Init  PROVE PlannedInv
  OBVIOUS
<1>1. ASSUME NEW r \in Requests  PROVE Plan(r)
  <2>1. Planned(<<>>, {}) /\ {} \in Targets
    BY DEF Planned, LocksIn, ActsAreExcused, Targets
  <2>2. script[r] = <<>> /\ \A row \in Rows : owner[row] # r
    BY ConnectionsAssumption DEF Init
  <2>3. ~\E a \in Acts : owner[a] = r
    BY <2>2 DEF Rows
  <2> QED  BY <2>1, <2>2, <2>3 DEF Plan
<1> QED  BY <1>1, InitInv DEF PlannedInv

\* A step of one request changes its own script and gives rows to it alone.
LEMMA StepOfOne ==
    ASSUME NEW r \in Requests, Inv,
           \/ Accept(r) \/ CheckOut(r) \/ PoolTimeout(r) \/ Update(r)
           \/ GoOn(r) \/ Refuse(r)
    PROVE  /\ \E s : script' = [script EXCEPT ![r] = s]
           /\ \A row \in Rows : owner'[row] \in {owner[row], r, None}
<1>1. Release(r) => \A row \in Rows : owner'[row] \in {owner[row], r, None}
  BY DEF Release
<1>2. Update(r) => \A row \in Rows : owner'[row] \in {owner[row], r, None}
  BY DEF Update, Inv, Types
<1>3. Accept(r) => \E s : script' = [script EXCEPT ![r] = s]
  BY DEF Accept
<1>4. Advance(r) => \E s : script' = [script EXCEPT ![r] = s]
  BY DEF Advance
<1>5. PoolTimeout(r) \/ Refuse(r) \/ Victim(r) =>
        \E s : script' = [script EXCEPT ![r] = s]
  BY DEF PoolTimeout, Refuse, Victim
<1> QED
  BY <1>1, <1>2, <1>3, <1>4, <1>5
  DEF Accept, CheckOut, PoolTimeout, Update, GoOn, CommitTransaction,
      CvAnswered, Answer, Victim, Refuse

LEMMA NextPlanned ==
    ASSUME PlannedInv, [Next]_vars
    PROVE  PlannedInv'
<1>1. Inv /\ Inv'
  BY NextInv DEF PlannedInv
<1>2. CASE UNCHANGED vars
  <2>1. ASSUME NEW q \in Requests  PROVE Plan(q)'
    BY <1>2, PlanKept DEF vars, PlannedInv
  <2> QED  BY <1>1, <2>1 DEF PlannedInv
<1>3. CASE Next
  <2>1. PICK r \in Requests :
           \/ Accept(r) \/ CheckOut(r) \/ PoolTimeout(r) \/ Update(r)
           \/ GoOn(r) \/ Refuse(r)
    BY <1>3 DEF Next
  <2>2. ASSUME NEW q \in Requests, q # r  PROVE Plan(q)'
    BY <1>1, <2>1, <2>2, StepOfOne, OtherPlans DEF PlannedInv
  <2>3. Plan(r)'
    <3>1. Plan(r)
      BY DEF PlannedInv
    <3>2. CASE Accept(r)
      BY <1>1, <3>2, PlanAccepted
    <3>3. CASE CheckOut(r)
      BY <1>1, <3>1, <3>3, PlanAdvanced DEF CheckOut
    <3>4. CASE Update(r)
      BY <1>1, <3>1, <3>4, PlanUpdated
    <3>5. CASE CvAnswered(r)
      BY <1>1, <3>1, <3>5, PlanAdvanced DEF CvAnswered
    <3>6. CASE CommitTransaction(r) \/ Answer(r)
      BY <1>1, <3>1, <3>6, PlanReleased DEF CommitTransaction, Answer, At
    <3>7. CASE PoolTimeout(r) \/ Refuse(r) \/ Victim(r)
      BY <1>1, <3>7, PlanAbandoned DEF PoolTimeout, Refuse, Victim
    <3> QED  BY <2>1, <3>2, <3>3, <3>4, <3>5, <3>6, <3>7 DEF GoOn
  <2>4. \A q \in Requests : Plan(q)'
    BY <2>2, <2>3
  <2> QED  BY <1>1, <2>4 DEF PlannedInv
<1> QED  BY <1>2, <1>3

\* Two rows of one target are an act and its order.
LEMMA TwoOfATarget ==
    ASSUME NEW M \in Targets, NEW x \in M, NEW y \in M, x # y
    PROVE  \/ x \in Acts /\ y \in Orders
           \/ x \in Orders /\ y \in Acts
<1>1. PICK a \in Acts : M = {a, OrderOf[a]}
  BY DEF Targets
<1>2. OrderOf[a] \in Orders
  BY ConnectionsAssumption
<1> QED  BY <1>1, <1>2

\* In a cycle every request owns a row and waits for another of its target.
LEMMA CycleRequests ==
    ASSUME PlannedInv, NEW R \in SUBSET Requests, RowCycle(R), NEW r \in R
    PROVE  \E q \in R :
              LET waited == Upcoming(r).row
                  next == Upcoming(q).row
              IN  /\ waited \in Rows /\ owner[waited] = q
                  /\ \/ waited \in Acts /\ next \in Orders
                     \/ waited \in Orders /\ next \in Acts
<1> DEFINE waited == Upcoming(r).row
           q == owner[waited]
           next == Upcoming(q).row
<1>1. \A p \in R : /\ p \in Requests /\ At(p, "lock") /\ WaitsForRow(p)
                   /\ owner[Upcoming(p).row] \in R
                   /\ owner[Upcoming(p).row] # p
  <2> SUFFICES ASSUME NEW p \in R
               PROVE  /\ p \in Requests /\ At(p, "lock") /\ WaitsForRow(p)
                      /\ owner[Upcoming(p).row] \in R
                      /\ owner[Upcoming(p).row] # p
    OBVIOUS
  <2>1. WaitsForRow(p) /\ Stuck(R)
    BY DEF RowCycle
  <2>2. ~WaitsForConnection(p)
    BY <2>1 DEF WaitsForRow, WaitsForConnection, At
  <2> QED  BY <2>1, <2>2 DEF Stuck, WaitsForRow
<1>2. q \in R /\ q \in Requests
  BY <1>1
<1>3. waited \in Rows /\ next \in Rows
  BY <1>1, <1>2, UpcomingLock DEF PlannedInv
<1>4. waited # next
  BY <1>1, <1>2
<1>5. PICK M \in Targets :
         /\ Planned(script[q], M)
         /\ \A row \in Rows : owner[row] = q => row \in M
  BY <1>2 DEF PlannedInv, Plan
<1>6. waited \in M
  BY <1>3, <1>5
<1>7. next \in M
  BY <1>1, <1>2, <1>5, UpcomingLock DEF PlannedInv, Planned, LocksIn
<1>8. \/ waited \in Acts /\ next \in Orders
      \/ waited \in Orders /\ next \in Acts
  BY <1>4, <1>5, <1>6, <1>7, TwoOfATarget
<1> QED  BY <1>2, <1>3, <1>8

\* One who owns an act and waits for an order has its check to come.
LEMMA OwnerOfActSubmits ==
    ASSUME PlannedInv, NEW q \in Requests, At(q, "lock"),
           Upcoming(q).row \in Orders, NEW a \in Acts, owner[a] = q
    PROVE  Submitting(q)
<1> DEFINE s == script[q]
<1>1. /\ s \in Seq(Step) /\ s # <<>> /\ s[1].do = "lock"
      /\ s[1] = Upcoming(q)
  BY UpcomingLock DEF PlannedInv
<1>2. Excused(s)
  BY DEF PlannedInv, Plan
<1>3. ChecksLater(s)
  BY <1>1, <1>2, TailExcused DEF IsLock
<1> QED  BY <1>3 DEF ChecksLater, Submitting

\* Whatever requests run together and whatever their number, a deadlock of rows
\* contains a submit_act in its first transaction that has updated the act and
\* waits for the order.
THEOREM SubmitIsNeeded == Spec => []DeadlocksNeedASubmit
<1>1. ASSUME PlannedInv, NEW R \in SUBSET Requests, RowCycle(R)
      PROVE  \E r \in R : /\ Submitting(r) /\ Upcoming(r).row \in Orders
                          /\ \E a \in Acts : owner[a] = r
  <2>1. PICK r \in R : TRUE
    BY <1>1 DEF RowCycle, Stuck
  <2>2. \E q \in R : /\ Upcoming(q).row \in Orders
                     /\ \E a \in Acts : owner[a] = q
    <3>1. PICK q \in R :
             /\ owner[Upcoming(r).row] = q
             /\ \/ Upcoming(r).row \in Acts /\ Upcoming(q).row \in Orders
                \/ Upcoming(r).row \in Orders /\ Upcoming(q).row \in Acts
      BY <1>1, CycleRequests
    <3>2. CASE Upcoming(q).row \in Orders
      <4>1. Upcoming(r).row \in Acts
        BY <3>1, <3>2, ConnectionsAssumption
      <4> QED  BY <3>1, <3>2, <4>1
    <3>3. CASE Upcoming(q).row \in Acts
      <4>1. PICK p \in R :
               /\ owner[Upcoming(q).row] = p
               /\ \/ Upcoming(q).row \in Acts /\ Upcoming(p).row \in Orders
                  \/ Upcoming(q).row \in Orders /\ Upcoming(p).row \in Acts
        BY <1>1, CycleRequests
      <4>2. Upcoming(p).row \in Orders
        BY <3>3, <4>1, ConnectionsAssumption
      <4> QED  BY <3>3, <4>1, <4>2
    <3> QED  BY <3>1, <3>2, <3>3
  <2>3. PICK q \in R : /\ Upcoming(q).row \in Orders
                       /\ \E a \in Acts : owner[a] = q
    BY <2>2
  <2>4. At(q, "lock") /\ q \in Requests
    BY <1>1 DEF RowCycle, WaitsForRow
  <2> QED  BY <1>1, <2>3, <2>4, OwnerOfActSubmits
<1>2. PlannedInv => DeadlocksNeedASubmit
  BY <1>1 DEF DeadlocksNeedASubmit
<1> QED  BY <1>2, InitPlanned, NextPlanned, PTL DEF Spec
=============================================================================
