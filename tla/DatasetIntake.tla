---------------------------- MODULE DatasetIntake ----------------------------
(***************************************************************************)
(* How a dataset comes in: the POST handler that imports the file, renames *)
(* it into place and registers it, the worker's preflight that reads the   *)
(* file, and the browser page, which uploads one file after another and    *)
(* polls the dataset it shows until its verdict.                           *)
(*                                                                         *)
(* The handler mints the dataset's id, so a request is identified with its *)
(* dataset.  Registration is the transaction of JobControl; its answer may *)
(* be lost after its commit, when the client goes away or the connection   *)
(* to the database breaks.                                                 *)
(***************************************************************************)
EXTENDS Integers, FiniteSets, PageValues

CONSTANTS
  Datasets,      \* dataset identifiers the API mints
  UploadLimit,   \* upload_limit_bytes
  MaxSize,       \* bound: bytes of a file
  LostAnswers    \* bound: commits whose answer is lost

ASSUME IntakeAssumption ==
  /\ UploadLimit \in Nat \ {0}
  /\ MaxSize \in Nat
  /\ LostAnswers \in Nat
  /\ None \notin Datasets

VARIABLES
  request,   \* where the POST of a dataset is
  size,      \* bytes of the file the browser sends
  files,     \* what exists of datasets/<id>
  bytes,     \* bytes of the upload file, which becomes the source
  row,       \* datasets.status
  preflight, \* what the worker has done of the dataset's preflight
  lost,      \* commits whose answer was lost
  page       \* the page's state.dataset and its DatasetPoller

serverVars == <<request, files, bytes, row, lost>>
vars == <<serverVars, size, preflight, page>>

-----------------------------------------------------------------------------
(* Files.  "dir" is datasets/<id>, "tmp" is preflight/tmp below it.        *)

NoUploadFile == {"dir", "preflight", "tmp"}

RemoveWithContents(fs, dir, contents) == fs \ {dir}  \* mutant
\* os.Remove: a directory is removed only when it is empty.
RemoveEmpty(fs, dir, contents) == IF fs \cap contents = {} THEN fs \ {dir} ELSE fs

\* RemoveImportedDataset removes no output of a worker.
RemoveImported(fs) ==
  LET noSource == fs \ {"source"}
      noTmp == RemoveEmpty(noSource, "tmp", {"attempt"})
      noPreflight == RemoveEmpty(noTmp, "preflight", {"tmp"})
  IN RemoveEmpty(noPreflight, "dir", {"preflight", "source", "upload"})

CleanedInOrderOfDefers(fs) == RemoveImported(fs) \ {"upload"}  \* mutant
\* The deferred calls of ImportCSV: the upload file goes first.
Cleaned(fs) == RemoveImported(fs \ {"upload"})

-----------------------------------------------------------------------------
(* The page.  Requests of earlier generations may still be on their way.   *)

Verdicts == {"VALID", "INVALID"}
NeedsDatasetPolling(status) == status \notin Verdicts

Stop(p) ==
  [p EXCEPT !.generation = @ + 1, !.timer = None, !.watched = None,
            !.requestActive = FALSE]

Poll(p, generation) ==
  IF generation # p.generation \/ p.watched = None \/ p.requestActive THEN p
  ELSE [p EXCEPT !.requestActive = TRUE,
                 !.polls = @ \cup {[generation |-> generation, id |-> p.watched,
                                    answer |-> None]}]

Watch(p, d, status) ==
  IF NeedsDatasetPolling(status)
    THEN Poll([Stop(p) EXCEPT !.watched = d], Stop(p).generation)
    ELSE Stop(p)

\* uploadFile: the page forgets the dataset it showed and sends the file.  An
\* earlier upload is not aborted.
Upload(d) ==
  /\ request[d] = "none"
  /\ request' = [request EXCEPT ![d] = "sent"]
  /\ \E n \in 0..MaxSize : size' = [size EXCEPT ![d] = n]
  /\ page' = [Stop(page) EXCEPT !.epoch = @ + 1, !.dataset = None,
                                !.uploads = [@ EXCEPT ![d] = page.epoch + 1]]
  /\ UNCHANGED <<files, bytes, row, preflight, lost>>

UploadAnsweredLate(d) ==  \* mutant
  /\ request[d] = "created"
  /\ request' = [request EXCEPT ![d] = "answered"]
  /\ page' = Watch([page EXCEPT !.dataset = [id |-> d, status |-> "VALIDATING"]],
                   d, "VALIDATING")
  /\ UNCHANGED <<size, files, bytes, row, preflight, lost>>

\* The answer carries the record as it was registered.
UploadAnswered(d) ==
  /\ request[d] = "created"
  /\ request' = [request EXCEPT ![d] = "answered"]
  /\ page' = IF page.uploads[d] = page.epoch
               THEN Watch([page EXCEPT !.dataset = [id |-> d, status |-> "VALIDATING"]],
                          d, "VALIDATING")
               ELSE page
  /\ UNCHANGED <<size, files, bytes, row, preflight, lost>>

-----------------------------------------------------------------------------
(* The handler of POST /datasets.                                          *)

\* The form, its file name or its timezone is not accepted.
RefuseForm(d) ==
  /\ request[d] = "sent"
  /\ request' = [request EXCEPT ![d] = "refused"]
  /\ UNCHANGED <<size, files, bytes, row, preflight, lost, page>>

\* Directories, then the upload file.
PrepareImport(d) ==
  /\ request[d] = "sent"
  /\ request' = [request EXCEPT ![d] = "receiving"]
  /\ files' = [files EXCEPT ![d] = NoUploadFile \cup {"upload"}]
  /\ UNCHANGED <<size, bytes, row, preflight, lost, page>>

ReceivedUpToLimit(d) ==  \* mutant
  IF size[d] < UploadLimit THEN size[d] ELSE UploadLimit
\* The reader stops one byte after the limit.
Received(d) == IF size[d] < UploadLimit + 1 THEN size[d] ELSE UploadLimit + 1

\* Anything can be wrong with what was received, its end included; the upload
\* is then removed and the request refused.
RejectImport(d) ==
  /\ request[d] = "receiving"
  /\ request' = [request EXCEPT ![d] = "refused"]
  /\ files' = [files EXCEPT ![d] = Cleaned(@)]
  /\ UNCHANGED <<size, bytes, row, preflight, lost, page>>

CommitImport(d) ==
  /\ request[d] = "receiving"
  /\ Received(d) \in 1..UploadLimit
  /\ request' = [request EXCEPT ![d] = "register"]
  /\ files' = [files EXCEPT ![d] = (@ \ {"upload"}) \cup {"source"}]
  /\ bytes' = [bytes EXCEPT ![d] = Received(d)]
  /\ UNCHANGED <<size, row, preflight, lost, page>>

Registered(d) ==
  /\ row' = [row EXCEPT ![d] = "VALIDATING"]
  /\ preflight' = [preflight EXCEPT ![d] = "queued"]

RegisterForgetfully(d) ==  \* mutant
  /\ request[d] = "register"
  /\ Registered(d)
  /\ \E next \in {"created", "remove"} : request' = [request EXCEPT ![d] = next]
  /\ UNCHANGED <<size, files, bytes, lost, page>>

Register(d) ==
  /\ request[d] = "register"
  /\ Registered(d)
  /\ request' = [request EXCEPT ![d] = "created"]
  /\ UNCHANGED <<size, files, bytes, lost, page>>

\* A full queue, or an error before the commit.
RegisterFails(d) ==
  /\ request[d] = "register"
  /\ request' = [request EXCEPT ![d] = "remove"]
  /\ UNCHANGED <<size, files, bytes, row, preflight, lost, page>>

\* The commit took effect; the handler sees an error all the same.
RegisterAnswerLost(d) ==
  /\ request[d] = "register"
  /\ lost < LostAnswers
  /\ Registered(d)
  /\ lost' = lost + 1
  /\ request' = [request EXCEPT ![d] = "remove"]
  /\ UNCHANGED <<size, files, bytes, page>>

RemoveDatasetSource(d) ==
  /\ request[d] = "remove"
  /\ request' = [request EXCEPT ![d] = "refused"]
  /\ files' = [files EXCEPT ![d] = RemoveImported(@)]
  /\ UNCHANGED <<size, bytes, row, preflight, lost, page>>

\* The API process ends: requests end where they are, files stay.
ApiCrash ==
  /\ \E d \in Datasets : request[d] \in {"sent", "receiving", "register", "remove", "created"}
  /\ request' = [d \in Datasets |->
       IF request[d] \in {"sent", "receiving", "register", "remove", "created"}
         THEN "broken" ELSE request[d]]
  /\ UNCHANGED <<size, files, bytes, row, preflight, lost, page>>

-----------------------------------------------------------------------------
(* The preflight: the source is read twice, to verify its hash and to be   *)
(* preprocessed; the summary is written below preflight/tmp.               *)

VerifyDatasetHash(d) ==
  /\ preflight[d] = "queued"
  /\ "source" \in files[d]
  /\ preflight' = [preflight EXCEPT ![d] = "verified"]
  /\ UNCHANGED <<serverVars, size, page>>

WritePreflightSummary(d) ==
  /\ preflight[d] = "verified"
  /\ "source" \in files[d]
  /\ preflight' = [preflight EXCEPT ![d] = "written"]
  /\ files' = [files EXCEPT ![d] = @ \cup {"dir", "preflight", "tmp", "attempt"}]
  /\ UNCHANGED <<request, size, bytes, row, lost, page>>

CommitPreflight(d) ==
  /\ preflight[d] = "written"
  /\ preflight' = [preflight EXCEPT ![d] = "over"]
  /\ row' = [row EXCEPT ![d] = "VALID"]
  /\ UNCHANGED <<request, files, bytes, lost, size, page>>

\* A failure, a missing source or a lost lease.
FailPreflight(d) ==
  /\ preflight[d] \in {"queued", "verified", "written"}
  /\ preflight' = [preflight EXCEPT ![d] = "over"]
  /\ row' = [row EXCEPT ![d] = "INVALID"]
  /\ UNCHANGED <<request, files, bytes, lost, size, page>>

-----------------------------------------------------------------------------
(* Polling.                                                                *)

ServePoll ==
  \E q \in page.polls :
    /\ q.answer = None
    /\ page' = [page EXCEPT !.polls =
         (@ \ {q}) \cup {[q EXCEPT !.answer = row[q.id]]}]
    /\ UNCHANGED <<serverVars, size, preflight>>

\* onDataset of the page.
Shown(p, q) ==
  IF p.dataset # None /\ p.dataset.id = q.id
    THEN [p EXCEPT !.dataset.status = q.answer] ELSE p

\* The end of poll(): schedule() if it goes on.
Ended(p, goesOn) ==
  [p EXCEPT !.requestActive = FALSE,
            !.timer = IF goesOn THEN p.generation ELSE @,
            !.watched = IF goesOn THEN @ ELSE None]

PollArrives ==
  \E q \in page.polls :
    /\ q.answer # None
    /\ LET p == [page EXCEPT !.polls = @ \ {q}]
       IN page' = IF q.generation # p.generation \/ q.id # p.watched THEN p
                  ELSE Ended(Shown(p, q), NeedsDatasetPolling(q.answer))
    /\ UNCHANGED <<serverVars, size, preflight>>

PollFailureIsFinal ==  \* mutant
  \E q \in page.polls :
    /\ LET p == [page EXCEPT !.polls = @ \ {q}]
       IN page' = IF q.generation # p.generation THEN p ELSE Ended(p, FALSE)
    /\ UNCHANGED <<serverVars, size, preflight>>

\* An error is shown and polling goes on; an aborted request ends silently.
PollFails ==
  \E q \in page.polls :
    /\ LET p == [page EXCEPT !.polls = @ \ {q}]
       IN page' = IF q.generation # p.generation \/ q.id # p.watched THEN p
                  ELSE Ended(p, TRUE)
    /\ UNCHANGED <<serverVars, size, preflight>>

TimerFires ==
  /\ page.timer # None
  /\ page' = Poll([page EXCEPT !.timer = None], page.timer)
  /\ UNCHANGED <<serverVars, size, preflight>>

-----------------------------------------------------------------------------
Init ==
  /\ request = [d \in Datasets |-> "none"]
  /\ size = [d \in Datasets |-> 0]
  /\ files = [d \in Datasets |-> {}]
  /\ bytes = [d \in Datasets |-> 0]
  /\ row = [d \in Datasets |-> "ABSENT"]
  /\ preflight = [d \in Datasets |-> "none"]
  /\ lost = 0
  /\ page = [epoch |-> 0, dataset |-> None, uploads |-> [d \in Datasets |-> 0],
             watched |-> None, generation |-> 0, requestActive |-> FALSE,
             timer |-> None, polls |-> {}]

Handler(d) ==
  \/ RefuseForm(d) \/ PrepareImport(d) \/ RejectImport(d) \/ CommitImport(d)
  \/ Register(d) \/ RegisterFails(d) \/ RegisterAnswerLost(d)
  \/ RemoveDatasetSource(d)

Worker(d) ==
  \/ VerifyDatasetHash(d) \/ WritePreflightSummary(d)
  \/ CommitPreflight(d) \/ FailPreflight(d)

Next ==
  \/ \E d \in Datasets : Upload(d) \/ UploadAnswered(d) \/ Handler(d) \/ Worker(d)
  \/ ApiCrash
  \/ ServePoll \/ PollArrives \/ PollFails \/ TimerFires

Spec == Init /\ [][Next]_vars

\* Timers fire; of the polls the page sends again and again some are served
\* and answered.
Fairness == WF_vars(TimerFires) /\ SF_vars(ServePoll) /\ SF_vars(PollArrives)

FairSpec == Spec /\ Fairness
-----------------------------------------------------------------------------
(***************************************************************************)
(* Properties.                                                             *)
(***************************************************************************)

Places == {"none", "sent", "receiving", "register", "remove", "created",
           "answered", "refused", "broken"}
Names == {"dir", "preflight", "tmp", "attempt", "upload", "source"}

\* Types, and the tree: nothing exists below a directory that does not.
IntakeTypeOK ==
  /\ request \in [Datasets -> Places]
  /\ size \in [Datasets -> 0..MaxSize] /\ bytes \in [Datasets -> 0..UploadLimit]
  /\ files \in [Datasets -> SUBSET Names]
  /\ row \in [Datasets -> {"ABSENT", "VALIDATING"} \cup Verdicts]
  /\ preflight \in [Datasets -> {"none", "queued", "verified", "written", "over"}]
  /\ lost \in 0..LostAnswers
  /\ page.epoch \in Nat /\ page.generation \in Nat /\ page.requestActive \in BOOLEAN
  /\ page.dataset \in {None} \cup [id : Datasets, status : {"VALIDATING"} \cup Verdicts]
  /\ page.watched \in Datasets \cup {None} /\ page.timer \in Nat \cup {None}
  /\ page.polls \subseteq [generation : Nat, id : Datasets,
                           answer : {None, "VALIDATING"} \cup Verdicts]
  /\ \A d \in Datasets :
       /\ files[d] \cap {"preflight", "source", "upload"} # {} => "dir" \in files[d]
       /\ "tmp" \in files[d] => "preflight" \in files[d]
       /\ "attempt" \in files[d] => "tmp" \in files[d]

\* A source is the whole file that was sent, never the part of it that fits
\* the limit (io.LimitedReader one byte beyond the limit, then the size check).
StoredIsWhole ==
  \A d \in Datasets : "source" \in files[d] => bytes[d] = size[d]

\* An upload that was refused leaves nothing behind, whichever step refused it
\* (the deferred removals of ImportCSV, removeDatasetSource).
RefusedLeavesNothing ==
  lost = 0 => \A d \in Datasets : request[d] = "refused" => files[d] = {}

\* A registered dataset has its source, through crashes and failures of the
\* handler, as long as no commit's answer was lost.
RegisteredHasSource ==
  lost = 0 => \A d \in Datasets : row[d] # "ABSENT" => "source" \in files[d]

\* The page shows the dataset of its latest upload or none, whatever answers
\* of earlier uploads and polls are still on their way.
ShowsLatestUpload ==
  page.dataset # None => page.uploads[page.dataset.id] = page.epoch

\* The verdict on a dataset the page stays on is shown in the end.
VerdictIsShown ==
  \A d \in Datasets :
    (page.dataset # None /\ page.dataset.id = d /\ row[d] \in Verdicts)
      ~> (page.dataset = None \/ page.dataset.id # d \/ page.dataset.status = row[d])

\* stream.go: RemoveImportedDataset "removes only the files and empty
\* directories created before a dataset is registered".
RemovesOnlyUnregistered ==
  [][\A d \in Datasets :
       "source" \in files[d] /\ "source" \notin files'[d] => row[d] = "ABSENT"]_vars
=============================================================================
