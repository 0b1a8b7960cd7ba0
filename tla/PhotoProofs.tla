----------------------------- MODULE PhotoProofs -----------------------------
(***************************************************************************)
(* What PhotoCheck promises for every number of photos and of lost files,  *)
(* whenever uploads die and however the service comes and goes.            *)
(***************************************************************************)
EXTENDS PhotoCheck, FiniteSetTheorems, TLAPS

-----------------------------------------------------------------------------
(* The rows and their files *)

\* The types of the storage, the rows and the uploads.
StoreTypeOK ==
    /\ detector \in Detector
    /\ disk \in [Photos -> Images \cup {NoFile}]
    /\ row \in [Photos -> Images \cup {NoRow, Named}]
    /\ upload \in [Photos -> {"none", "named", "written", "done", "dead"}]

\* What an upload has left behind so far: no row that names a file before the
\* file is whole on the disk, and nothing to lose before there is a row.
UploadInOrder(p) ==
    /\ upload[p] = "none" => row[p] = NoRow
    /\ upload[p] = "written" => row[p] = NoRow /\ disk[p] \in Images
    /\ row[p] \notin {NoRow, Named} /\ p \notin lost => disk[p] = row[p]

StoreInv == StoreTypeOK /\ \A p \in Photos : UploadInOrder(p)

\* The three absences are told apart, from each other and from an image.
LEMMA NoFileIsNoImage ==
    NoFile \notin Images /\ NoRow \notin Images /\ Named \notin Images
        /\ NoRow # Named
BY DEF NoFile, NoRow, Named, Images

\* A step that changes one upload, its file or its row.
LEMMA UploadStep ==
    ASSUME StoreInv, StoreTypeOK', NEW p \in Photos,
           \A q \in Photos \ {p} : /\ upload'[q] = upload[q]
                                   /\ row'[q] = row[q] /\ disk'[q] = disk[q],
           lost \subseteq lost',
           UploadInOrder(p)'
    PROVE  StoreInv'
<1>1. ASSUME NEW q \in Photos
      PROVE  UploadInOrder(q)'
    <2>1. CASE q = p
        BY <2>1
    <2>2. CASE q # p
        BY <2>2 DEF StoreInv, UploadInOrder
    <2> QED
        BY <2>1, <2>2
<1> QED
    BY <1>1 DEF StoreInv

LEMMA StoreStep == StoreInv /\ [Next]_vars => StoreInv'
<1> SUFFICES ASSUME StoreInv, [Next]_vars PROVE StoreInv'
    OBVIOUS
<1>1. StoreTypeOK /\ \A p \in Photos : UploadInOrder(p)
    BY DEF StoreInv
<1>2. ASSUME UNCHANGED <<disk, row, upload, lost>>, detector' \in Detector
      PROVE  StoreInv'
    BY <1>1, <1>2 DEF StoreInv, StoreTypeOK, UploadInOrder
<1>3. CASE Service
    BY <1>2, <1>3 DEF Service, ServiceNext, Start, Stop, Detector
<1>4. ASSUME NEW p \in Photos, Name(p)
      PROVE  StoreInv'
    <2>1. StoreTypeOK'
        BY <1>1, <1>4 DEF Name, StoreTypeOK
    <2>2. UploadInOrder(p)'
        BY <1>1, <1>4 DEF Name, StoreTypeOK, UploadInOrder
    <2> QED
        BY <1>1, <1>4, <2>1, <2>2, UploadStep DEF Name, StoreTypeOK
<1>5. ASSUME NEW p \in Photos, NEW image \in Images, Write(p, image)
      PROVE  StoreInv'
    <2>1. StoreTypeOK'
        BY <1>1, <1>5 DEF Write, StoreTypeOK
    <2>2. UploadInOrder(p)'
        BY <1>1, <1>5 DEF Write, StoreTypeOK, UploadInOrder
    <2> QED
        BY <1>1, <1>5, <2>1, <2>2, UploadStep DEF Write, StoreTypeOK
<1>6. ASSUME NEW p \in Photos, Store(p)
      PROVE  StoreInv'
    <2>1. upload[p] = "written" /\ disk[p] \in Images
        BY <1>1, <1>6 DEF Store, UploadInOrder
    <2>2. StoreTypeOK'
        BY <1>1, <1>6, <2>1 DEF Store, StoreTypeOK
    <2>3. UploadInOrder(p)'
        BY <1>1, <1>6, <2>1 DEF Store, StoreTypeOK, UploadInOrder
    <2> QED
        BY <1>1, <1>6, <2>2, <2>3, UploadStep DEF Store, StoreTypeOK
<1>7. ASSUME NEW p \in Photos, UploadDies(p)
      PROVE  StoreInv'
    <2>1. row[p] = NoRow
        BY <1>1, <1>7 DEF UploadDies, UploadInOrder
    <2>2. StoreTypeOK'
        BY <1>1, <1>7 DEF UploadDies, StoreTypeOK, Images
    <2>3. UploadInOrder(p)'
        BY <1>1, <1>7, <2>1 DEF UploadDies, StoreTypeOK, UploadInOrder
    <2> QED
        BY <1>1, <1>7, <2>2, <2>3, UploadStep DEF UploadDies, StoreTypeOK
<1>8. ASSUME NEW p \in Photos, Lose(p)
      PROVE  StoreInv'
    <2>1. StoreTypeOK'
        BY <1>1, <1>8 DEF Lose, StoreTypeOK
    <2>2. UploadInOrder(p)'
        BY <1>1, <1>8 DEF Lose, StoreTypeOK, UploadInOrder
    <2> QED
        BY <1>1, <1>8, <2>1, <2>2, UploadStep DEF Lose, StoreTypeOK
<1>9. ASSUME CheckStart \/ CheckNext
      PROVE  UNCHANGED <<disk, row, upload, lost, detector>>
    BY <1>9 DEF CheckStart, CheckNext, Read, Answered, Abandon, Finish
<1>10. CASE UNCHANGED vars
    BY <1>1, <1>2, <1>10 DEF vars, StoreTypeOK
<1> QED
    BY <1>1, <1>2, <1>3, <1>4, <1>5, <1>6, <1>7, <1>8, <1>9, <1>10
    DEF Next, StoreTypeOK

LEMMA StoreAlways == Spec => []StoreInv
<1>1. Init => StoreInv
    BY DEF Init, ServiceInit, StoreInv, StoreTypeOK, UploadInOrder
<1> QED
    BY <1>1, StoreStep, PTL DEF Spec

\* Whenever an upload dies, a committed row that has a hash has the file the
\* hash was taken of, unless the file was taken away later.
THEOREM RowsHaveTheirFiles == Spec => []RowHasItsFile
<1>1. StoreInv => RowHasItsFile
    BY DEF StoreInv, UploadInOrder, RowHasItsFile
<1> QED
    BY <1>1, StoreAlways, PTL
-----------------------------------------------------------------------------
(* The count of a check *)

CheckTypeOK == check \in Check /\ (summary = None \/ summary \in Summary)

\* A photo that a check has found is in one place only, and each place counts.
Counted ==
    check.stage # "idle" =>
        /\ check.todo \cap check.sent = {}
        /\ (check.todo \cup check.sent) \cap check.answered = {}
        /\ check.stage = "reading" => check.sent = {}
        /\ check.total = check.failed
                           + Cardinality(check.todo \cup check.sent)
                           + Cardinality(check.answered)

CheckInv == CheckTypeOK /\ Counted /\ CheckedWereAnswered

\* Sets of photos can be counted.
LEMMA PhotosAreCounted ==
    ASSUME NEW S \in SUBSET Photos
    PROVE  IsFiniteSet(S) /\ Cardinality(S) \in 0..Cardinality(Photos)
<1>1. IsFiniteSet(S) /\ Cardinality(S) <= Cardinality(Photos)
    BY PhotoAssumption, FS_Subset
<1>2. Cardinality(S) \in Nat /\ Cardinality(Photos) \in Nat
    BY <1>1, PhotoAssumption, FS_CardinalityType
<1> QED
    BY <1>1, <1>2

\* Photos in two places count for both.
LEMMA ApartAddUp ==
    ASSUME NEW S \in SUBSET Photos, NEW T \in SUBSET Photos, S \cap T = {}
    PROVE  Cardinality(S \cup T) = Cardinality(S) + Cardinality(T)
<1>1. IsFiniteSet(S) /\ IsFiniteSet(T)
    BY PhotosAreCounted
<1>2. Cardinality(S) \in Nat /\ Cardinality(T) \in Nat
    BY <1>1, FS_CardinalityType
<1>3. Cardinality(S \cap T) = 0
    BY FS_EmptySet
<1>4. Cardinality(S \cup T)
          = Cardinality(S) + Cardinality(T) - Cardinality(S \cap T)
    BY <1>1, FS_Union
<1> QED
    BY <1>2, <1>3, <1>4

\* A check begins with every row still to be read.
LEMMA StartCounts ==
    ASSUME StoreTypeOK, CheckInv, CheckStart
    PROVE  CheckInv'
<1> DEFINE photos == {p \in Photos : row[p] # NoRow}
<1>1. /\ photos \in SUBSET Photos
      /\ check' = [Idle EXCEPT !.stage = "reading", !.todo = photos,
                               !.total = Cardinality(photos), !.reached = Up]
      /\ summary' = summary
    BY DEF CheckStart
<1>2. Cardinality(photos) \in 0..Cardinality(Photos)
    BY PhotosAreCounted
<1>3. Cardinality({}) = 0 /\ photos \cup {} = photos
    BY FS_EmptySet
<1> HIDE DEF photos
<1>4. Up \in BOOLEAN
    BY DEF Up
<1>5. /\ check'.stage = "reading" /\ check'.todo = photos
      /\ check'.sent = {} /\ check'.answered = {} /\ check'.failed = 0
      /\ check'.total = Cardinality(photos)
    BY <1>1 DEF Idle
<1>6. CheckTypeOK'
    <2> PICK up \in BOOLEAN : up = Up
        BY <1>4
    <2>1. check' = [Idle EXCEPT !.stage = "reading", !.todo = photos,
                                !.total = Cardinality(photos), !.reached = up]
        BY <1>1
    <2>2. Idle \in Check
        <3>1. Cardinality(Photos) \in Nat
            BY PhotoAssumption, FS_CardinalityType
        <3> QED
            BY <3>1 DEF Idle, Check
    <2>3. check' \in Check
        BY <1>1, <1>2, <2>1, <2>2 DEF Check
    <2> QED
        BY <1>1, <2>3 DEF CheckInv, CheckTypeOK
<1>7. Counted'
    BY <1>2, <1>3, <1>5 DEF Counted
<1>8. CheckedWereAnswered'
    BY <1>5 DEF CheckedWereAnswered
<1> QED
    BY <1>6, <1>7, <1>8 DEF CheckInv

\* A photo whose file is gone counts as failed; another is sent.
LEMMA ReadCounts ==
    ASSUME StoreTypeOK, CheckInv, NEW p \in Photos, Read(p)
    PROVE  CheckInv'
<1> DEFINE todo == check.todo
           rest == check.todo \ {p}
           answered == check.answered
<1>1. /\ check \in Check /\ check.stage = "reading" /\ p \in todo
      /\ check.sent = {} /\ todo \cap answered = {}
      /\ check.total = check.failed + Cardinality(todo \cup {})
                                    + Cardinality(answered)
      /\ summary' = summary
    BY DEF CheckInv, CheckTypeOK, Counted, Read
<1>2. /\ todo \in SUBSET Photos /\ answered \in SUBSET Photos
      /\ rest \in SUBSET Photos
      /\ check.failed \in Nat /\ check.total \in 0..Cardinality(Photos)
    BY <1>1 DEF Check
<1>3. /\ Cardinality(todo) = Cardinality(rest) + 1
      /\ Cardinality(rest) \in Nat /\ Cardinality(answered) \in Nat
      /\ Cardinality(Photos) \in Nat
    <2>1. IsFiniteSet(todo) /\ Cardinality(todo) \in Nat
        BY <1>2, PhotosAreCounted
    <2>2. Cardinality(rest) = Cardinality(todo) - 1
        BY <1>1, <2>1, FS_RemoveElement
    <2> QED
        BY <1>2, <2>1, <2>2, PhotosAreCounted, PhotoAssumption,
           FS_CardinalityType
<1>4. check.failed + 1 \in 0..Cardinality(Photos)
    <2>1. todo \cup {} = todo
        OBVIOUS
    <2> HIDE DEF todo, rest, answered
    <2> QED
        BY <1>1, <1>2, <1>3, <2>1
<1>5. CASE disk[p] = NoFile
    <2>1. check' = [check EXCEPT !.todo = rest, !.failed = @ + 1]
        BY <1>5 DEF Read
    <2>2. check' \in Check
        BY <1>1, <1>2, <1>4, <2>1 DEF Check
    <2>3. /\ check'.stage = "reading" /\ check'.todo = rest
          /\ check'.sent = {} /\ check'.answered = answered
          /\ check'.failed = check.failed + 1 /\ check'.total = check.total
        BY <1>1, <2>1 DEF Check
    <2>4. todo \cup {} = todo /\ rest \cup {} = rest /\ rest \cap answered = {}
        BY <1>1
    <2> HIDE DEF todo, rest, answered
    <2>5. check.total = check.failed + 1 + Cardinality(rest \cup {})
                                         + Cardinality(answered)
        BY <1>1, <1>2, <1>3, <2>4
    <2>6. Counted'
        BY <2>3, <2>4, <2>5 DEF Counted
    <2> QED
        BY <1>1, <2>2, <2>3, <2>6
        DEF CheckInv, CheckTypeOK, CheckedWereAnswered
<1>6. CASE disk[p] # NoFile
    <2>1. check' = [check EXCEPT !.todo = rest, !.sent = {p},
                                 !.stage = "asking", !.image = disk[p]]
        BY <1>6 DEF Read
    <2>2. disk[p] \in Images
        BY <1>6 DEF StoreTypeOK
    <2>3. check' \in Check
        BY <1>1, <1>2, <2>1, <2>2 DEF Check
    <2>4. /\ check'.stage = "asking" /\ check'.todo = rest
          /\ check'.sent = {p} /\ check'.answered = answered
          /\ check'.failed = check.failed /\ check'.total = check.total
        BY <1>1, <2>1 DEF Check
    <2>5. rest \cup {p} = todo \cup {} /\ rest \cap {p} = {}
        BY <1>1
    <2>6. Counted'
        BY <1>1, <2>4, <2>5 DEF Counted
    <2> QED
        BY <1>1, <2>3, <2>4, <2>6
        DEF CheckInv, CheckTypeOK, CheckedWereAnswered
<1> QED
    BY <1>5, <1>6

\* A photo that is answered moves from those sent to those answered.
LEMMA AnsweredCounts ==
    ASSUME CheckInv, Answered
    PROVE  CheckInv'
<1> DEFINE todo == check.todo
           sent == check.sent
           answered == check.answered
<1>1. /\ check \in Check /\ check.stage = "asking"
      /\ todo \cap sent = {} /\ (todo \cup sent) \cap answered = {}
      /\ check.total = check.failed + Cardinality(todo \cup sent)
                                    + Cardinality(answered)
      /\ check' = [check EXCEPT !.stage = "reading", !.image = None,
                                !.sent = {}, !.answered = answered \cup sent]
      /\ summary' = summary
    BY DEF CheckInv, CheckTypeOK, Counted, Answered
<1>2. /\ todo \in SUBSET Photos /\ sent \in SUBSET Photos
      /\ answered \in SUBSET Photos /\ check.failed \in Nat
    BY <1>1 DEF Check
<1>3. /\ Cardinality(todo \cup sent) = Cardinality(todo) + Cardinality(sent)
      /\ Cardinality(answered \cup sent)
             = Cardinality(answered) + Cardinality(sent)
      /\ Cardinality(todo) \in Nat /\ Cardinality(sent) \in Nat
      /\ Cardinality(answered) \in Nat
    <2>1. answered \cap sent = {}
        BY <1>1
    <2> QED
        BY <1>1, <1>2, <2>1, ApartAddUp, PhotosAreCounted, SMTT(30)
<1>4. check' \in Check
    BY <1>1, <1>2 DEF Check
<1>5. /\ check'.stage = "reading" /\ check'.todo = todo
      /\ check'.sent = {} /\ check'.answered = answered \cup sent
      /\ check'.failed = check.failed /\ check'.total = check.total
    BY <1>1 DEF Check
<1>6. /\ todo \cap {} = {} /\ todo \cup {} = todo
      /\ todo \cap (answered \cup sent) = {}
    BY <1>1
<1> HIDE DEF todo, sent, answered
<1>7. check.total = check.failed + Cardinality(todo \cup {})
                                 + Cardinality(answered \cup sent)
    BY <1>1, <1>2, <1>3, <1>6
<1>8. Counted'
    BY <1>5, <1>6, <1>7 DEF Counted
<1> QED
    BY <1>1, <1>4, <1>5, <1>8 DEF CheckInv, CheckTypeOK, CheckedWereAnswered

\* A check that ends with a summary has nothing left to read and nothing
\* under way: what it counts as checked was answered.
LEMMA FinishCounts ==
    ASSUME CheckInv, Finish
    PROVE  CheckInv'
<1>1. /\ check \in Check /\ check.stage = "reading"
      /\ check.todo = {} /\ check.sent = {}
      /\ check.total = check.failed + Cardinality({} \cup {})
                                    + Cardinality(check.answered)
      /\ check' = [check EXCEPT !.stage = "idle"]
      /\ summary' = [photos_checked |-> check.total - check.failed,
                     photos_failed |-> check.failed]
    BY DEF CheckInv, CheckTypeOK, Counted, Finish
<1>2. /\ check.failed \in Nat
      /\ Cardinality(check.answered) \in Nat
    BY <1>1, PhotosAreCounted DEF Check
<1>3. Cardinality({} \cup {}) = 0
    BY FS_EmptySet
<1>4. check.total - check.failed = Cardinality(check.answered)
    BY <1>1, <1>2, <1>3
<1>5. /\ check' \in Check /\ check'.stage = "idle"
      /\ check'.answered = check.answered
    BY <1>1 DEF Check
<1>6. /\ summary' \in Summary
      /\ summary'.photos_checked = Cardinality(check'.answered)
    BY <1>1, <1>2, <1>4, <1>5 DEF Summary
<1> QED
    BY <1>5, <1>6 DEF CheckInv, CheckTypeOK, Counted, CheckedWereAnswered

LEMMA CheckStep == StoreTypeOK /\ CheckInv /\ [Next]_vars => CheckInv'
<1> SUFFICES ASSUME StoreTypeOK, CheckInv, [Next]_vars PROVE CheckInv'
    OBVIOUS
<1>1. CASE Service
    <2>1. check \in Check /\ (check.reached \/ detector' # "down") \in BOOLEAN
        BY DEF CheckInv, CheckTypeOK
    <2> PICK reached \in BOOLEAN :
            check' = [check EXCEPT !.reached = reached]
        BY <1>1, <2>1 DEF Service
    <2>2. /\ check' \in Check /\ summary' = summary
          /\ check'.stage = check.stage /\ check'.todo = check.todo
          /\ check'.sent = check.sent /\ check'.answered = check.answered
          /\ check'.failed = check.failed /\ check'.total = check.total
        BY <1>1, <2>1 DEF Service, Check
    <2> QED
        BY <2>2 DEF CheckInv, CheckTypeOK, Counted, CheckedWereAnswered
<1>2. ASSUME UNCHANGED <<check, summary>>
      PROVE  CheckInv'
    BY <1>2 DEF CheckInv, CheckTypeOK, Counted, CheckedWereAnswered
<1>3. ASSUME NEW p \in Photos,
             \/ Name(p) \/ Store(p) \/ UploadDies(p) \/ Lose(p)
             \/ \E image \in Images : Write(p, image)
      PROVE  CheckInv'
    BY <1>2, <1>3 DEF Name, Write, Store, UploadDies, Lose
<1>4. CASE CheckStart
    BY <1>4, StartCounts
<1>5. ASSUME NEW p \in Photos, Read(p)
      PROVE  CheckInv'
    BY <1>5, ReadCounts
<1>6. CASE Answered
    BY <1>6, AnsweredCounts
<1>7. CASE Abandon
    <2>1. /\ check' \in Check /\ check'.stage = "idle" /\ summary' = None
        BY <1>7 DEF Abandon, CheckInv, CheckTypeOK, Check
    <2> QED
        BY <2>1 DEF CheckInv, CheckTypeOK, Counted, CheckedWereAnswered
<1>8. CASE Finish
    BY <1>8, FinishCounts
<1>9. CASE UNCHANGED vars
    BY <1>2, <1>9 DEF vars
<1> QED
    BY <1>1, <1>3, <1>4, <1>5, <1>6, <1>7, <1>8, <1>9 DEF Next, CheckNext

LEMMA CheckAlways == Spec => []CheckInv
<1>1. Init => CheckInv
    <2> SUFFICES ASSUME Init PROVE CheckInv
        OBVIOUS
    <2>1. Cardinality(Photos) \in Nat
        BY PhotoAssumption, FS_CardinalityType
    <2>2. check \in Check /\ check.stage = "idle" /\ summary = None
        BY <2>1 DEF Init, Idle, Check
    <2> QED
        BY <2>2 DEF CheckInv, CheckTypeOK, Counted, CheckedWereAnswered
<1>2. StoreInv => StoreTypeOK
    BY DEF StoreInv
<1> QED
    BY <1>1, <1>2, CheckStep, StoreAlways, PTL DEF Spec

\* While a check runs, every photo it found is to be read, being asked about,
\* answered or failed, and in one of these places only.
THEOREM PhotoTypeCorrect == Spec => []TypeOK
<1>1. StoreInv /\ CheckInv => TypeOK
    BY DEF StoreInv, StoreTypeOK, CheckInv, CheckTypeOK, Counted, TypeOK
<1> QED
    BY <1>1, StoreAlways, CheckAlways, PTL

\* What the verdict stores as photos_checked is the number of photos that the
\* service answered for, whatever failed or was lost in between.
THEOREM CountsAreAnswers == Spec => []CheckedWereAnswered
<1>1. CheckInv => CheckedWereAnswered
    BY DEF CheckInv
<1> QED
    BY <1>1, CheckAlways, PTL
=============================================================================
