----------------------------- MODULE PhotoCheck -----------------------------
(***************************************************************************)
(* The photos of one act: their upload (upload_photo in api/v1/acts.py),   *)
(* the rows and the files it leaves, and the CV check over them            *)
(* (_run_cv_check in services/rules.py), against a CvService that comes    *)
(* and goes.                                                               *)
(***************************************************************************)
EXTENDS CvService, FiniteSets

CONSTANTS
    Photos,         \* the photos anybody may upload to the act
    MaxLost,        \* bound: files that disappear
    None            \* the return value None

ASSUME PhotoAssumption == IsFiniteSet(Photos) /\ MaxLost \in Nat

VARIABLES
    disk,           \* photos_storage
    row,            \* photos: what the hash of a committed row is of
    upload,         \* where each upload is
    lost,           \* history: rows whose file was taken away
    check,          \* the request that runs _run_cv_check
    summary         \* what it returned

vars == <<detector, disk, row, upload, lost, check, summary>>

NoFile == "no_file"
NoRow == "no_row"

\* A row with a key and no hash.
Named == "named"

\* answered and reached are history: the photos the service answered 200 for,
\* and whether it was up at any moment of the check.
Check == [stage : {"idle", "reading", "asking"},
          todo : SUBSET Photos, sent : SUBSET Photos, image : Images \cup {None},
          total : 0..Cardinality(Photos), failed : 0..Cardinality(Photos),
          answered : SUBSET Photos, reached : BOOLEAN]

Summary == [photos_checked : Nat, photos_failed : Nat]

Idle == [stage |-> "idle", todo |-> {}, sent |-> {}, image |-> None,
         total |-> 0, failed |-> 0, answered |-> {}, reached |-> FALSE]

Init ==
    /\ ServiceInit
    /\ lost = {}
    /\ row = [p \in Photos |-> NoRow]
    /\ disk = [p \in Photos |-> NoFile]
    /\ upload = [p \in Photos |-> "none"]
    /\ check = Idle
    /\ summary = None

-----------------------------------------------------------------------------
(* create_draft_act and upload_photo *)

\* photo_keys: a row for a key the client sent with the draft, whose file has not
\* come this way.
Name(p) ==
    /\ upload[p] = "none"
    /\ upload' = [upload EXCEPT ![p] = "named"]
    /\ row' = [row EXCEPT ![p] = Named]
    /\ UNCHANGED <<detector, disk, lost, check, summary>>

Write(p, image) ==
    /\ upload[p] = "none"
    /\ upload' = [upload EXCEPT ![p] = "written"]
    /\ disk' = [disk EXCEPT ![p] = image]
    /\ UNCHANGED <<detector, row, lost, check, summary>>

\* Mutated: the row is committed before the file is written.
StoreFirst(p) ==
    /\ upload[p] \in {"none", "written"}
    /\ upload' = [upload EXCEPT ![p] = IF @ = "none" THEN "none" ELSE "done"]
    /\ row' = [row EXCEPT ![p] = IF disk[p] = NoFile THEN "whole" ELSE disk[p]]
    /\ UNCHANGED <<detector, disk, lost, check, summary>>

Store(p) ==
    /\ upload[p] = "written"
    /\ upload' = [upload EXCEPT ![p] = "done"]
    /\ row' = [row EXCEPT ![p] = disk[p]]
    /\ UNCHANGED <<detector, disk, lost, check, summary>>

\* The request ends in the middle of the file or before the commit.
UploadDies(p) ==
    /\ \/ upload[p] = "none" /\ disk' = [disk EXCEPT ![p] = "truncated"]
       \/ upload[p] = "written" /\ UNCHANGED disk
    /\ upload' = [upload EXCEPT ![p] = "dead"]
    /\ UNCHANGED <<detector, row, lost, check, summary>>

\* get_photo answers "Файл потерян".
Lose(p) ==
    /\ Cardinality(lost) < MaxLost
    /\ row[p] # NoRow /\ disk[p] # NoFile
    /\ disk' = [disk EXCEPT ![p] = NoFile]
    /\ lost' = lost \cup {p}
    /\ UNCHANGED <<detector, row, upload, check, summary>>

-----------------------------------------------------------------------------
(* _run_cv_check *)

Up == detector # "down"

CheckStart ==
    /\ check.stage = "idle"
    /\ LET photos == {p \in Photos : row[p] # NoRow}
       IN /\ photos # {}
          /\ check' = [Idle EXCEPT !.stage = "reading", !.todo = photos,
                                   !.total = Cardinality(photos),
                                   !.reached = Up]
    /\ UNCHANGED <<detector, disk, row, upload, lost, summary>>

\* Mutated: a photo that cannot be read is left out of the count.
ReadUncounted(p) ==
    /\ check.stage = "reading" /\ p \in check.todo
    /\ check' = IF disk[p] = NoFile
                  THEN [check EXCEPT !.todo = @ \ {p}]
                  ELSE [check EXCEPT !.todo = @ \ {p}, !.sent = {p},
                                     !.stage = "asking", !.image = disk[p]]
    /\ UNCHANGED <<detector, disk, row, upload, lost, summary>>

\* The photos come in no particular order.
Read(p) ==
    /\ check.stage = "reading" /\ p \in check.todo
    /\ check' = IF disk[p] = NoFile
                  THEN [check EXCEPT !.todo = @ \ {p}, !.failed = @ + 1]
                  ELSE [check EXCEPT !.todo = @ \ {p}, !.sent = {p},
                                     !.stage = "asking", !.image = disk[p]]
    /\ UNCHANGED <<detector, disk, row, upload, lost, summary>>

Answered ==
    /\ check.stage = "asking"
    /\ "answer" \in ClientInfer(check.image)
    /\ check' = [check EXCEPT !.stage = "reading", !.image = None, !.sent = {},
                              !.answered = @ \cup check.sent]
    /\ UNCHANGED <<detector, disk, row, upload, lost, summary>>

\* Mutated: the same photo again, until the service takes it.
AskAgain ==
    /\ check.stage = "asking"
    /\ ClientInfer(check.image) \cap {"bad_image", "unavailable"} # {}
    /\ check' = [check EXCEPT !.stage = "reading", !.image = None,
                              !.todo = @ \cup check.sent, !.sent = {}]
    /\ UNCHANGED <<detector, disk, row, upload, lost, summary>>

\* The first photo that is rejected or not answered ends the check.
Abandon ==
    /\ check.stage = "asking"
    /\ ClientInfer(check.image) \cap {"bad_image", "unavailable"} # {}
    /\ check' = [check EXCEPT !.stage = "idle"]
    /\ summary' = None
    /\ UNCHANGED <<detector, disk, row, upload, lost>>

\* Mutated: photos that could not be read count as checked.
FinishCountsAll ==
    /\ check.stage = "reading" /\ check.todo = {}
    /\ check' = [check EXCEPT !.stage = "idle"]
    /\ summary' = [photos_checked |-> check.total,
                   photos_failed |-> check.failed]
    /\ UNCHANGED <<detector, disk, row, upload, lost>>

Finish ==
    /\ check.stage = "reading" /\ check.todo = {}
    /\ check' = [check EXCEPT !.stage = "idle"]
    /\ summary' = [photos_checked |-> check.total - check.failed,
                   photos_failed |-> check.failed]
    /\ UNCHANGED <<detector, disk, row, upload, lost>>

Service ==
    /\ ServiceNext
    /\ check' = [check EXCEPT !.reached = @ \/ detector' # "down"]
    /\ UNCHANGED <<disk, row, upload, lost, summary>>

CheckNext == (\E p \in Photos : Read(p)) \/ Answered \/ Abandon \/ Finish

Next ==
    \/ Service
    \/ \E p \in Photos : \/ Name(p)
                         \/ \E image \in Images : Write(p, image)
                         \/ Store(p) \/ UploadDies(p) \/ Lose(p)
    \/ CheckStart
    \/ CheckNext

\* The request goes on: reading a file and waiting for an answer both end, the
\* latter by the timeout of the client.
Spec == Init /\ [][Next]_vars /\ WF_vars(CheckNext)

-----------------------------------------------------------------------------
(* Properties *)

\* While a check runs, every photo it found is still to be read, being asked
\* about, answered or failed.
TypeOK ==
    /\ detector \in Detector
    /\ disk \in [Photos -> Images \cup {NoFile}]
    /\ row \in [Photos -> Images \cup {NoRow, Named}]
    /\ upload \in [Photos -> {"none", "named", "written", "done", "dead"}]
    /\ check \in Check
    /\ summary = None \/ summary \in Summary
    /\ check.stage # "idle" =>
          check.total = check.failed + Cardinality(check.todo \cup check.sent)
                                     + Cardinality(check.answered)

\* Whenever a request dies, a committed row has the file its hash was taken of
\* (upload_photo writes the file first), unless the file was taken away later.
\* The rows of photo_keys have neither hash nor file.
RowHasItsFile ==
    \A p \in Photos :
        row[p] \notin {NoRow, Named} /\ p \notin lost => disk[p] = row[p]

\* What the verdict stores as photos_checked is the number of photos the
\* service answered for, however it failed in between.
CheckedWereAnswered ==
    check.stage = "idle" /\ summary # None =>
        summary.photos_checked = Cardinality(check.answered)

\* The check of a submitted act ends, however the service comes and goes.
CheckEnds == check.stage # "idle" ~> check.stage = "idle"

(* What the repository says of it *)

\* README.md:283-284, rules.py:200: without the service the check goes on
\* without the CV step, that is, _run_cv_check returns None.
UnavailableSkipsTheStep ==
    check.stage = "idle" /\ check.total > 0 /\ ~check.reached => summary = None
=============================================================================
