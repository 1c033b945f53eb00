------------------------ MODULE DatasetIntake_proofs ------------------------
(***************************************************************************)
(* What is stored, registered and shown of the datasets belongs together,  *)
(* for any number of datasets, files of any size and any number of lost    *)
(* answers.                                                                *)
(***************************************************************************)
EXTENDS DatasetIntake, TLAPS

\* The files of a dataset after its import.
Imported == NoUploadFile \cup {"source"}

\* Types of the server's variables.
ServerTypes ==
  /\ request \in [Datasets -> Places]
  /\ size \in [Datasets -> 0..MaxSize] /\ bytes \in [Datasets -> 0..UploadLimit]
  /\ files \in [Datasets -> SUBSET Names]
  /\ row \in [Datasets -> {"ABSENT", "VALIDATING"} \cup Verdicts]
  /\ preflight \in [Datasets -> {"none", "queued", "verified", "written", "over"}]
  /\ lost \in 0..LostAnswers

\* How far a request has come says what exists of its dataset.
Progress(d) ==
  /\ request[d] \in {"none", "sent"} => files[d] = {}
  /\ request[d] = "receiving" => files[d] = NoUploadFile \cup {"upload"}
  /\ request[d] = "register" => files[d] = Imported
  /\ request[d] \in {"none", "sent", "receiving", "register"}
       => row[d] = "ABSENT" /\ preflight[d] = "none"
  /\ request[d] \in {"created", "answered"} => row[d] # "ABSENT"
  /\ row[d] = "ABSENT" <=> preflight[d] = "none"

\* Nothing exists below a directory that does not.
Tree(fs) ==
  /\ fs \cap {"preflight", "source", "upload"} # {} => "dir" \in fs
  /\ "tmp" \in fs => "preflight" \in fs
  /\ "attempt" \in fs => "tmp" \in fs

\* As long as no answer was lost, a request that failed has no row.
Honest(d) ==
  lost = 0 =>
    /\ request[d] \in {"remove", "refused"} => row[d] = "ABSENT"
    /\ request[d] = "remove" => files[d] = Imported
    /\ request[d] = "refused" => files[d] = {}
    /\ row[d] # "ABSENT" => "source" \in files[d]

ServerInv ==
  /\ ServerTypes
  /\ \A d \in Datasets : Progress(d) /\ Honest(d) /\ Tree(files[d])
  /\ StoredIsWhole

\* The file accepted is not longer than the limit, so it was read to its end.
LEMMA ReadToItsEnd ==
  ASSUME NEW d \in Datasets, ServerTypes, Received(d) \in 1..UploadLimit
  PROVE  Received(d) = size[d]
BY IntakeAssumption DEF ServerTypes, Received

\* The deferred calls remove all that the import created.
LEMMA CleanedLeavesNothing ==
  /\ Cleaned(NoUploadFile \cup {"upload"}) = {}
  /\ RemoveImported(Imported) = {}
BY DEF Cleaned, RemoveImported, RemoveEmpty, NoUploadFile, Imported

\* RemoveDatasetSource puts nothing new in place.
LEMMA RemovedIsSmaller ==
  ASSUME NEW fs \in SUBSET Names, Tree(fs)
  PROVE  RemoveImported(fs) \in SUBSET Names /\ "source" \notin RemoveImported(fs)
         /\ Tree(RemoveImported(fs))
BY DEF RemoveImported, RemoveEmpty, Tree, Names

LEMMA ServerInit == Init => ServerInv
BY IntakeAssumption DEF Init, ServerInv, ServerTypes, Progress, Honest, Tree, StoredIsWhole, Places

LEMMA ServerNext == ServerInv /\ [Next]_vars => ServerInv'
<1> SUFFICES ASSUME ServerInv, [Next]_vars PROVE ServerInv'
  OBVIOUS
<1> USE DEF ServerInv, ServerTypes, Progress, Honest, StoredIsWhole, Places
<1>1. ASSUME NEW d \in Datasets, Upload(d) PROVE ServerInv'
  BY <1>1 DEF Upload
<1>2. ASSUME NEW d \in Datasets, UploadAnswered(d) PROVE ServerInv'
  BY <1>2 DEF UploadAnswered
<1>3. ASSUME NEW d \in Datasets, RefuseForm(d) PROVE ServerInv'
  BY <1>3 DEF RefuseForm
<1>4. ASSUME NEW d \in Datasets, PrepareImport(d) PROVE ServerInv'
  BY <1>4 DEF PrepareImport, NoUploadFile, Names, Tree
<1>5. ASSUME NEW d \in Datasets, RejectImport(d) PROVE ServerInv'
  BY <1>5, CleanedLeavesNothing DEF RejectImport, Tree
<1>6. ASSUME NEW d \in Datasets, CommitImport(d) PROVE ServerInv'
  <2>1. Received(d) = size[d]
    BY <1>6, ReadToItsEnd DEF CommitImport
  <2>2. ((NoUploadFile \cup {"upload"}) \ {"upload"}) \cup {"source"} = Imported
    BY DEF NoUploadFile, Imported
  <2>3. Imported \in SUBSET Names /\ Tree(Imported)
    BY DEF NoUploadFile, Imported, Names, Tree
  <2>4. Received(d) \in 0..UploadLimit
    BY <1>6, IntakeAssumption DEF CommitImport
  <2>5. files[d] = NoUploadFile \cup {"upload"} /\ row[d] = "ABSENT" /\ preflight[d] = "none"
    BY <1>6 DEF CommitImport
  <2>6. files' = [files EXCEPT ![d] = Imported]
    BY <1>6, <2>2, <2>5 DEF CommitImport
  <2>7. /\ request' = [request EXCEPT ![d] = "register"] /\ bytes' = [bytes EXCEPT ![d] = size[d]]
        /\ UNCHANGED <<size, row, preflight, lost>>
    BY <1>6, <2>1 DEF CommitImport
  <2>8. ServerTypes'
    BY <2>1, <2>3, <2>4, <2>6, <2>7
  <2> QED
    BY <2>3, <2>5, <2>6, <2>7, <2>8
<1>7. ASSUME NEW d \in Datasets, Register(d) PROVE ServerInv'
  BY <1>7 DEF Register, Registered, Imported
<1>8. ASSUME NEW d \in Datasets, RegisterFails(d) PROVE ServerInv'
  BY <1>8 DEF RegisterFails
<1>9. ASSUME NEW d \in Datasets, RegisterAnswerLost(d) PROVE ServerInv'
  BY <1>9, IntakeAssumption DEF RegisterAnswerLost, Registered, Imported
<1>10. ASSUME NEW d \in Datasets, RemoveDatasetSource(d) PROVE ServerInv'
  <2> DEFINE rest == RemoveImported(files[d])
  <2>1. rest \in SUBSET Names /\ "source" \notin rest /\ Tree(rest)
    <3> HIDE DEF ServerTypes, Progress, Honest, StoredIsWhole, Places
    <3>1. files[d] \in SUBSET Names /\ Tree(files[d])
      BY DEF ServerTypes
    <3> QED
      BY <3>1, RemovedIsSmaller
  <2>2. lost = 0 => rest = {} /\ row[d] = "ABSENT"
    BY <1>10, CleanedLeavesNothing DEF RemoveDatasetSource
  <2>3. /\ request' = [request EXCEPT ![d] = "refused"] /\ files' = [files EXCEPT ![d] = rest]
        /\ UNCHANGED <<size, bytes, row, preflight, lost>>
    BY <1>10 DEF RemoveDatasetSource
  <2> HIDE DEF rest
  <2> QED
    BY <2>1, <2>2, <2>3
<1>11. ASSUME NEW d \in Datasets, Worker(d) PROVE ServerInv'
  <2>1. CASE VerifyDatasetHash(d)
    BY <2>1 DEF VerifyDatasetHash, serverVars
  <2>2. CASE WritePreflightSummary(d)
    BY <2>2 DEF WritePreflightSummary, Names, Tree
  <2>3. CASE CommitPreflight(d)
    BY <2>3 DEF CommitPreflight, Verdicts
  <2>4. CASE FailPreflight(d)
    BY <2>4 DEF FailPreflight, Verdicts
  <2> QED
    BY <1>11, <2>1, <2>2, <2>3, <2>4 DEF Worker
<1>12. CASE ApiCrash
  BY <1>12 DEF ApiCrash
<1>13. CASE ServePoll \/ PollArrives \/ PollFails \/ TimerFires
  BY <1>13 DEF ServePoll, PollArrives, PollFails, TimerFires, serverVars
<1>14. CASE UNCHANGED vars
  BY <1>14 DEF vars, serverVars
<1> QED
  BY <1>1, <1>2, <1>3, <1>4, <1>5, <1>6, <1>7, <1>8, <1>9, <1>10, <1>11, <1>12,
     <1>13, <1>14 DEF Next, Handler

\* A source is the whole file that was sent.
THEOREM WholeFiles == Spec => []StoredIsWhole
<1>1. ServerInv => StoredIsWhole
  BY DEF ServerInv
<1> QED
  BY <1>1, ServerInit, ServerNext, PTL DEF Spec

\* An upload that was refused leaves nothing behind.
THEOREM NothingLeft == Spec => []RefusedLeavesNothing
<1>1. ServerInv => RefusedLeavesNothing
  BY DEF ServerInv, Honest, RefusedLeavesNothing
<1> QED
  BY <1>1, ServerInit, ServerNext, PTL DEF Spec

\* A registered dataset has its source.
THEOREM SourcesExist == Spec => []RegisteredHasSource
<1>1. ServerInv => RegisteredHasSource
  BY DEF ServerInv, Honest, RegisteredHasSource
<1> QED
  BY <1>1, ServerInit, ServerNext, PTL DEF Spec

-----------------------------------------------------------------------------
(* The page.                                                               *)

Polls == [generation : Nat, id : Datasets, answer : {None, "VALIDATING"} \cup Verdicts]
Pages == [epoch : Nat,
          dataset : {None} \cup [id : Datasets, status : {"VALIDATING"} \cup Verdicts],
          uploads : [Datasets -> Nat], watched : Datasets \cup {None},
          generation : Nat, requestActive : BOOLEAN, timer : Nat \cup {None},
          polls : SUBSET Polls]

\* Only datasets that are registered are watched and polled.
Registry(p, rows) ==
  /\ p.watched # None => rows[p.watched] # "ABSENT"
  /\ \A q \in p.polls : rows[q.id] # "ABSENT"

Latest(p) == p.dataset # None => p.uploads[p.dataset.id] = p.epoch

PageInv == page \in Pages /\ Registry(page, row) /\ Latest(page)

\* poll() sends at most one request, for the watched dataset.
LEMMA PollKeeps ==
  ASSUME NEW p \in Pages, NEW rows, Registry(p, rows), Latest(p), NEW g
  PROVE  Poll(p, g) \in Pages /\ Registry(Poll(p, g), rows) /\ Latest(Poll(p, g))
<1>1. CASE g # p.generation \/ p.watched = None \/ p.requestActive
  BY <1>1 DEF Poll
<1>2. CASE ~(g # p.generation \/ p.watched = None \/ p.requestActive)
  <2> DEFINE q == [generation |-> g, id |-> p.watched, answer |-> None]
  <2>1. q \in Polls
    BY <1>2 DEF Polls, Pages
  <2>2. Poll(p, g) = [p EXCEPT !.requestActive = TRUE, !.polls = @ \cup {q}]
    BY <1>2 DEF Poll
  <2> HIDE DEF q
  <2>3. /\ Poll(p, g) \in Pages
        /\ Poll(p, g).polls = p.polls \cup {q} /\ Poll(p, g).watched = p.watched
        /\ Poll(p, g).dataset = p.dataset /\ Poll(p, g).uploads = p.uploads
        /\ Poll(p, g).epoch = p.epoch
    BY <2>1, <2>2 DEF Pages
  <2>4. rows[q.id] # "ABSENT"
    BY <1>2 DEF q, Registry
  <2> QED
    BY <2>3, <2>4 DEF Registry, Latest
<1> QED
  BY <1>1, <1>2

LEMMA StopKeeps ==
  ASSUME NEW p \in Pages, NEW rows, Registry(p, rows), Latest(p)
  PROVE  Stop(p) \in Pages /\ Registry(Stop(p), rows) /\ Latest(Stop(p))
<1>0. p.generation + 1 \in Nat
  BY DEF Pages
<1>1. Stop(p) \in Pages
  <2> DEFINE next == p.generation + 1
  <2>1. Stop(p) = [p EXCEPT !.generation = next, !.timer = None, !.watched = None,
                            !.requestActive = FALSE]
    BY DEF Stop
  <2>2. next \in Nat
    BY <1>0
  <2> HIDE DEF next
  <2> QED
    BY <2>1, <2>2 DEF Pages
<1>2. /\ Stop(p).watched = None /\ Stop(p).polls = p.polls /\ Stop(p).dataset = p.dataset
      /\ Stop(p).uploads = p.uploads /\ Stop(p).epoch = p.epoch
  BY DEF Stop, Pages
<1> QED
  BY <1>1, <1>2 DEF Registry, Latest

LEMMA WatchKeeps ==
  ASSUME NEW p \in Pages, NEW rows, Registry(p, rows), Latest(p),
         NEW d \in Datasets, rows[d] # "ABSENT", NEW status
  PROVE  Watch(p, d, status) \in Pages /\ Registry(Watch(p, d, status), rows)
         /\ Latest(Watch(p, d, status))
<1> DEFINE watching == [Stop(p) EXCEPT !.watched = d]
<1>1. watching \in Pages /\ Registry(watching, rows) /\ Latest(watching)
  BY StopKeeps DEF Pages, Registry, Latest
<1>2. Watch(p, d, status) \in {Stop(p), Poll(watching, Stop(p).generation)}
  BY DEF Watch
<1> HIDE DEF watching
<1> QED
  BY <1>1, <1>2, StopKeeps, PollKeeps

\* A poll that ends, shown or not, leaves what is registered and shown.
LEMMA EndedKeeps ==
  ASSUME NEW p \in Pages, NEW rows, Registry(p, rows), Latest(p), NEW goesOn \in BOOLEAN
  PROVE  Ended(p, goesOn) \in Pages /\ Registry(Ended(p, goesOn), rows)
         /\ Latest(Ended(p, goesOn))
BY DEF Ended, Pages, Registry, Latest

LEMMA ShownKeeps ==
  ASSUME NEW p \in Pages, NEW rows, Registry(p, rows), Latest(p),
         NEW q \in Polls, q.answer # None
  PROVE  Shown(p, q) \in Pages /\ Registry(Shown(p, q), rows) /\ Latest(Shown(p, q))
<1>1. CASE p.dataset # None /\ p.dataset.id = q.id
  <2>1. Shown(p, q) = [p EXCEPT !.dataset = [p.dataset EXCEPT !.status = q.answer]]
    BY <1>1 DEF Shown
  <2>2. p.dataset \in [id : Datasets, status : {"VALIDATING"} \cup Verdicts]
    BY <1>1 DEF Pages
  <2>3. [p.dataset EXCEPT !.status = q.answer] \in [id : Datasets, status : {"VALIDATING"} \cup Verdicts]
    BY <2>2 DEF Polls
  <2>4. [p.dataset EXCEPT !.status = q.answer].id = p.dataset.id
    BY <2>2
  <2> QED
    BY <1>1, <2>1, <2>3, <2>4 DEF Pages, Registry, Latest
<1>2. CASE ~(p.dataset # None /\ p.dataset.id = q.id)
  BY <1>2 DEF Shown
<1> QED
  BY <1>1, <1>2

LEMMA PageInit == Init => PageInv
BY DEF Init, PageInv, Pages, Registry, Latest

LEMMA PageNext == ServerInv /\ PageInv /\ [Next]_vars => PageInv'
<1> SUFFICES ASSUME ServerInv, PageInv, [Next]_vars PROVE PageInv'
  OBVIOUS
<1>a. row \in [Datasets -> {"ABSENT", "VALIDATING"} \cup Verdicts]
  BY DEF ServerInv, ServerTypes
<1>1. ASSUME NEW d \in Datasets, Upload(d) PROVE PageInv'
  <2> DEFINE uploads == [page.uploads EXCEPT ![d] = page.epoch + 1]
  <2>1. page' = [Stop(page) EXCEPT !.epoch = @ + 1, !.dataset = None, !.uploads = uploads]
    BY <1>1, StopKeeps DEF Upload, Stop, PageInv, Pages
  <2>2. uploads \in [Datasets -> Nat]
    BY DEF PageInv, Pages
  <2> HIDE DEF uploads
  <2>3. Stop(page) \in Pages /\ Registry(Stop(page), row)
    BY StopKeeps DEF PageInv
  <2>4. row' = row
    BY <1>1 DEF Upload
  <2>5. page' \in Pages
    <3> DEFINE stopped == Stop(page)
               next == page.epoch + 1
    <3>1. next \in Nat
      BY DEF PageInv, Pages
    <3>2. stopped.epoch = page.epoch
      BY DEF PageInv, Pages, Stop
    <3>3. stopped \in Pages
      BY <2>3
    <3>4. page' = [stopped EXCEPT !.epoch = stopped.epoch + 1, !.dataset = None, !.uploads = uploads]
      BY <2>1
    <3> HIDE DEF stopped
    <3>5. page' = [stopped EXCEPT !.epoch = next, !.dataset = None, !.uploads = uploads]
      BY <3>2, <3>4
    <3> HIDE DEF next
    <3> QED
      BY <3>1, <3>3, <3>5, <2>2 DEF Pages
  <2>6. /\ page'.dataset = None /\ page'.watched = Stop(page).watched
        /\ page'.polls = Stop(page).polls
    BY <2>1, <2>3 DEF Pages
  <2> QED
    BY <2>3, <2>4, <2>5, <2>6 DEF PageInv, Registry, Latest
<1>2. ASSUME NEW d \in Datasets, UploadAnswered(d) PROVE PageInv'
  <2> DEFINE shown == [page EXCEPT !.dataset = [id |-> d, status |-> "VALIDATING"]]
  <2>1. row' = row /\ row[d] # "ABSENT"
    BY <1>2 DEF UploadAnswered, ServerInv, Progress
  <2>2. CASE page.uploads[d] = page.epoch
    <3>1. shown \in Pages /\ Registry(shown, row) /\ Latest(shown)
      BY <2>2 DEF PageInv, Pages, Registry, Latest
    <3>2. page' = Watch(shown, d, "VALIDATING")
      BY <1>2, <2>2 DEF UploadAnswered
    <3> HIDE DEF shown
    <3> QED
      BY <2>1, <3>1, <3>2, WatchKeeps DEF PageInv
  <2> QED
    BY <1>2, <2>1, <2>2 DEF UploadAnswered, PageInv
<1>3. ASSUME page' = page, \A d \in Datasets : row[d] # "ABSENT" => row'[d] # "ABSENT"
      PROVE  PageInv'
  BY <1>3 DEF PageInv, Pages, Polls, Registry
<1>4. ASSUME NEW d \in Datasets, Handler(d) \/ Worker(d) PROVE PageInv'
  BY <1>4, <1>3, <1>a DEF Handler, RefuseForm, PrepareImport, RejectImport, CommitImport,
     Register, RegisterFails, RegisterAnswerLost, Registered, RemoveDatasetSource,
     Worker, VerifyDatasetHash, WritePreflightSummary, CommitPreflight, FailPreflight,
     serverVars
<1>5. CASE ApiCrash \/ UNCHANGED vars
  BY <1>5, <1>3 DEF ApiCrash, vars, serverVars
<1>6. CASE ServePoll
  <2>1. PICK q \in page.polls : /\ q.answer = None
          /\ page' = [page EXCEPT !.polls = (@ \ {q}) \cup {[q EXCEPT !.answer = row[q.id]]}]
          /\ UNCHANGED <<serverVars, size, preflight>>
    BY <1>6 DEF ServePoll
  <2>2. q \in Polls /\ row[q.id] # "ABSENT"
    BY DEF PageInv, Pages, Registry
  <2>3. [q EXCEPT !.answer = row[q.id]] \in Polls /\ [q EXCEPT !.answer = row[q.id]].id = q.id
    BY <2>2, <1>a DEF Polls
  <2> QED
    BY <2>1, <2>2, <2>3 DEF PageInv, Pages, Registry, Latest, serverVars
<1>7. ASSUME NEW q \in page.polls,
             LET p == [page EXCEPT !.polls = @ \ {q}]
             IN page' = p \/ page' = Ended(p, TRUE)
                \/ (q.answer # None /\ page' = Ended(Shown(p, q), NeedsDatasetPolling(q.answer))),
             row' = row
      PROVE  PageInv'
  <2> DEFINE p == [page EXCEPT !.polls = @ \ {q}]
  <2>1. p \in Pages /\ Registry(p, row) /\ Latest(p)
    BY DEF PageInv, Pages, Registry, Latest
  <2>2. q \in Polls
    BY DEF PageInv, Pages
  <2>3. page' = p \/ page' = Ended(p, TRUE)
        \/ (q.answer # None /\ page' = Ended(Shown(p, q), NeedsDatasetPolling(q.answer)))
    BY <1>7
  <2>4. NeedsDatasetPolling(q.answer) \in BOOLEAN
    BY DEF NeedsDatasetPolling
  <2> HIDE DEF p
  <2>5. CASE page' = p
    BY <2>1, <2>5, <1>7 DEF PageInv
  <2>6. CASE page' = Ended(p, TRUE)
    BY <2>1, <2>6, <1>7, EndedKeeps DEF PageInv
  <2>7. CASE q.answer # None /\ page' = Ended(Shown(p, q), NeedsDatasetPolling(q.answer))
    <3>1. Shown(p, q) \in Pages /\ Registry(Shown(p, q), row) /\ Latest(Shown(p, q))
      BY <2>1, <2>2, <2>7, ShownKeeps
    <3> QED
      BY <3>1, <2>4, <2>7, <1>7, EndedKeeps DEF PageInv
  <2> QED
    BY <2>3, <2>5, <2>6, <2>7
<1>8. CASE PollArrives
  BY <1>8, <1>7 DEF PollArrives, serverVars
<1>9. CASE PollFails
  BY <1>9, <1>7 DEF PollFails, serverVars
<1>10. CASE TimerFires
  <2> DEFINE p == [page EXCEPT !.timer = None]
  <2>1. p \in Pages /\ Registry(p, row) /\ Latest(p)
    BY DEF PageInv, Pages, Registry, Latest
  <2>2. page' = Poll(p, page.timer) /\ row' = row
    BY <1>10 DEF TimerFires, serverVars
  <2> HIDE DEF p
  <2> QED
    BY <2>1, <2>2, PollKeeps DEF PageInv
<1> QED
  BY <1>1, <1>2, <1>4, <1>5, <1>6, <1>8, <1>9, <1>10 DEF Next

\* Every variable keeps values of its type, and the files form a tree.
THEOREM IntakeTypes == Spec => []IntakeTypeOK
<1>1. ServerInv /\ PageInv => IntakeTypeOK
  BY DEF ServerInv, ServerTypes, Tree, PageInv, Pages, Polls, IntakeTypeOK
<1> QED
  BY <1>1, ServerInit, ServerNext, PageInit, PageNext, PTL DEF Spec

\* The page shows the dataset of its latest upload or none.
THEOREM LatestUploadShown == Spec => []ShowsLatestUpload
<1>1. PageInv => ShowsLatestUpload
  BY DEF PageInv, Latest, ShowsLatestUpload
<1> QED
  BY <1>1, ServerInit, ServerNext, PageInit, PageNext, PTL DEF Spec
=============================================================================
