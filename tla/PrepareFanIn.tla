---------------------------- MODULE PrepareFanIn ----------------------------
(***************************************************************************)
(* From an accepted job to its OCR commands: the prepare workers of all    *)
(* gateways lease the two prepare rows of a job, store the pages of each   *)
(* side, and whoever finds pages of both sides turns them into OCR work    *)
(* items and outbox rows.  Meanwhile the user cancels or deletes the job   *)
(* and the Processing service moves it on.  Leases are those of WorkItems; *)
(* every SQL statement or transaction outside it, every object-store call  *)
(* and every read whose result is used later is an action here.            *)
(***************************************************************************)
EXTENDS Naturals, FiniteSets, Sequences, Functions, JobStates

CONSTANTS
  Jobs,         \* jobs that may be accepted
  Workers,      \* gateway processes
  PageCount,    \* PageCount[s]: pages the renderer finds on side s
  Images,       \* sides that are PDFs: their pages are objects, not text
  MaxAttempts,  \* max_attempts of a prepare row
  MaxFaults,    \* bound on worker deaths and on leases outlived by their work
  Stages,       \* statuses the Processing service goes through (a bound)
  Requests,     \* what users ask for: "cancel", "delete" (a bound)
  NoTask

Sides == {1, 2}
Tasks == Jobs \X Sides

ASSUME MaxAttemptsAssumption == MaxAttempts \in Nat \ {0}
ASSUME MaxFaultsAssumption == MaxFaults \in Nat
ASSUME NoTaskAssumption == NoTask \notin Tasks
ASSUME WorkersAssumption == IsFiniteSet(Workers)
ASSUME PageCountAssumption == PageCount \in [Sides -> Nat \ {0}]
ASSUME ImagesAssumption == Images \subseteq Sides

ProcessingStages == {"processing", "ocr_ready", "comparing", "classifying",
                     "finalizing", "completed", "failed"}

ASSUME StagesAssumption == Stages \subseteq ProcessingStages
ASSUME RequestsAssumption == Requests \subseteq {"cancel", "delete"}

VARIABLES
  state, epoch, due, lapses, held, token, marked, down, faults,  \* see WorkItems
  job,        \* job[j]: the status, "none" before the job, "removed" after it
  blamed,     \* blamed[j]: failure_code is 'prepare_failed'
  originals,  \* originals[j]: the uploaded files are in the object store
  images,     \* images[j]: page images in the object store, as <<side, number>>
  pages,      \* pages[j][s]: document_pages rows of side s, numbered from 1
  ocr,        \* ocr[j]: OCR work items of j, numbered from 1
  commands,   \* commands[j]: the batches of OCR commands put into the outbox
  del,        \* del[j]: the delete request; "over" when answered or its process died
  pc,         \* pc[w]: the next step of w's PrepareWorker; "idle" and "pdf" are
              \* the two queries for a row
  done,       \* done[w]: pages stored in this attempt
  total,      \* total[w]: total_chunks computed in _maybe_enqueue_ocr
  refs,       \* refs[w]: the page rows it then read, per side
  failing     \* failing[w]: the task whose job _fail_job is called for

rowVars == <<state, epoch, due, lapses, held, token, marked, down, faults>>
jobVars == <<job, blamed>>
pageVars == <<originals, images, pages>>
ocrVars == <<ocr, commands>>
workerVars == <<pc, done, total, refs, failing>>
vars == <<rowVars, jobVars, pageVars, ocrVars, workerVars, del>>

Rows == INSTANCE WorkItems WITH Items <- Tasks, NoItem <- NoTask

NoPages == [s \in Sides |-> 0]
Larger(a, b) == IF a >= b THEN a ELSE b
JobOf(w) == held[w][1]
SideOf(w) == held[w][2]
InDb(j) == job[j] \in Status

Batch == [total : Nat, refs : [Sides -> Nat]]

\* Inside the inner try of _run, so that an exception leads to a retry.
Trying == {"load", "put", "insert", "check", "read", "enqueue", "complete", "log"}

TypeOK ==
  /\ Rows!TypeOK
  /\ job \in [Jobs -> Status \union {"none", "removed"}]
  /\ blamed \in [Jobs -> BOOLEAN]
  /\ originals \in [Jobs -> BOOLEAN]
  /\ images \in [Jobs -> SUBSET (Sides \X Nat)]
  /\ pages \in [Jobs -> [Sides -> Nat]]
  /\ ocr \in [Jobs -> Nat]
  /\ commands \in [Jobs -> Seq(Batch)]
  /\ del \in [Jobs -> {"none", "begun", "purged", "over"}]
  /\ pc \in [Workers -> Trying \union {"idle", "pdf", "retry", "fail"}]
  /\ done \in [Workers -> Nat]
  /\ total \in [Workers -> Nat]
  /\ refs \in [Workers -> [Sides -> Nat]]
  /\ failing \in [Workers -> Tasks \union {NoTask}]

Init ==
  /\ Rows!Init
  /\ job = [j \in Jobs |-> "none"]
  /\ blamed = [j \in Jobs |-> FALSE]
  /\ originals = [j \in Jobs |-> FALSE]
  /\ images = [j \in Jobs |-> {}]
  /\ pages = [j \in Jobs |-> NoPages]
  /\ ocr = [j \in Jobs |-> 0]
  /\ commands = [j \in Jobs |-> << >>]
  /\ del = [j \in Jobs |-> "none"]
  /\ pc = [w \in Workers |-> "idle"]
  /\ done = [w \in Workers |-> 0]
  /\ total = [w \in Workers |-> 0]
  /\ refs = [w \in Workers |-> NoPages]
  /\ failing = [w \in Workers |-> NoTask]

Goto(w, l) == pc' = [pc EXCEPT ![w] = l]

\* The attempt's local variables go out of scope.
Forget(w) ==
  /\ done' = [done EXCEPT ![w] = 0]
  /\ total' = [total EXCEPT ![w] = 0]
  /\ refs' = [refs EXCEPT ![w] = NoPages]

-----------------------------------------------------------------------------
\* The transaction of create_or_resume: job, originals and both prepare rows.
\* (Ingress has the request around it.)
Accept(j) ==
  /\ job[j] = "none"
  /\ job' = [job EXCEPT ![j] = "preparing"]
  /\ originals' = [originals EXCEPT ![j] = TRUE]
  /\ Rows!Create({j} \X Sides)
  /\ UNCHANGED <<blamed, images, pages, ocrVars, workerVars, del>>

\* The query of _run that asks for the row of t: the first one for prepare_word,
\* the second one for prepare_pdf.
Query(t) == IF t[2] \in Images THEN "pdf" ELSE "idle"

\* _run: lease_work_item finds a row of the stage it asks for ...
Lease(w, t) ==
  /\ pc[w] = Query(t)
  /\ Rows!Lease(w, t)
  /\ Goto(w, "load")
  /\ UNCHANGED <<jobVars, pageVars, ocrVars, done, total, refs, failing, del>>

\* ... or none: it asks for the other stage, after prepare_pdf with a sleep between.
NoneLeasable(w) ==
  /\ w \notin down /\ pc[w] \in {"idle", "pdf"}
  /\ \A t \in Tasks : Query(t) = pc[w] => ~Rows!Leasable(t)
  /\ Goto(w, IF pc[w] = "idle" THEN "pdf" ELSE "idle")
  /\ UNCHANGED <<rowVars, jobVars, pageVars, ocrVars, done, total, refs, failing, del>>

\* The next statement for a page: a page image is put before its row is
\* inserted (_store_image_pages), a text page is all in the row.
StoreFirst(w) == IF SideOf(w) \in Images THEN "put" ELSE "insert"

\* _process: fetch the original and render it.
Load(w) ==
  /\ pc[w] = "load" /\ originals[JobOf(w)]
  /\ Goto(w, StoreFirst(w))
  /\ UNCHANGED <<rowVars, jobVars, pageVars, ocrVars, done, total, refs, failing, del>>

\* Mutant of PutImage: the row comes first, the image is never put.
PutImageLater(w) ==
  /\ pc[w] = "put"
  /\ Goto(w, "insert")
  /\ UNCHANGED <<rowVars, jobVars, pageVars, ocrVars, done, total, refs, failing, del>>

PutImage(w) ==
  /\ pc[w] = "put"
  /\ images' = [images EXCEPT ![JobOf(w)] = @ \union {<<SideOf(w), done[w] + 1>>}]
  /\ Goto(w, "insert")
  /\ UNCHANGED <<rowVars, jobVars, originals, pages, ocrVars, done, total, refs,
                 failing, del>>

\* Mutants of RowsAfter and LastPage: the side's rows are replaced, not upserted;
\* the last page is forgotten.
RowsAfterReplace(w) == done[w] + 1
LastPageEarly(w) == done[w] + 2 >= PageCount[SideOf(w)]

RowsAfter(w) == Larger(pages[JobOf(w)][SideOf(w)], done[w] + 1)
LastPage(w) == done[w] + 1 >= PageCount[SideOf(w)]

\* _insert_page: an upsert that commits on its own.  Without the job's row the
\* foreign key refuses it (Raise).
InsertPage(w) ==
  /\ pc[w] = "insert" /\ InDb(JobOf(w))
  /\ pages' = [pages EXCEPT ![JobOf(w)][SideOf(w)] = RowsAfter(w)]
  /\ IF LastPage(w)
       THEN Goto(w, "check") /\ done' = [done EXCEPT ![w] = 0]
       ELSE Goto(w, StoreFirst(w)) /\ done' = [done EXCEPT ![w] = @ + 1]
  /\ UNCHANGED <<rowVars, jobVars, originals, images, ocrVars, total, refs,
                 failing, del>>

BothSides(j) == \A s \in Sides : pages[j][s] > 0

\* Mutants of NeedsOcr: existing OCR items are not counted; only the worker of
\* the second file looks.
NeedsOcrAgain(w) == BothSides(JobOf(w))
NeedsOcrSecond(w) == SideOf(w) = 2 /\ BothSides(JobOf(w)) /\ ocr[JobOf(w)] = 0

NeedsOcr(w) == BothSides(JobOf(w)) /\ ocr[JobOf(w)] = 0

\* _maybe_enqueue_ocr, up to the second query: pages of both sides, and no OCR
\* item yet.  total_chunks comes from the counts read here.
Check(w) ==
  /\ pc[w] = "check"
  /\ IF NeedsOcr(w)
       THEN /\ total' = [total EXCEPT ![w] = Larger(pages[JobOf(w)][1], pages[JobOf(w)][2])]
            /\ Goto(w, "read")
       ELSE /\ Goto(w, "complete")
            /\ UNCHANGED total
  /\ UNCHANGED <<rowVars, jobVars, pageVars, ocrVars, done, refs, failing, del>>

\* Its third query has a snapshot of its own (READ COMMITTED).
ReadPages(w) ==
  /\ pc[w] = "read"
  /\ refs' = [refs EXCEPT ![w] = pages[JobOf(w)]]
  /\ Goto(w, "enqueue")
  /\ UNCHANGED <<rowVars, jobVars, pageVars, ocrVars, done, total, failing, del>>

\* Its writes and commit: an existing work item is kept (ON CONFLICT DO NOTHING),
\* the outbox rows are inserted regardless, the job becomes queued.
EnqueueOcr(w) ==
  /\ pc[w] = "enqueue" /\ InDb(JobOf(w))
  /\ LET j == JobOf(w)
     IN /\ ocr' = [ocr EXCEPT ![j] = Larger(@, total[w])]
        /\ commands' = [commands EXCEPT ![j] =
                          Append(@, [total |-> total[w], refs |-> refs[w]])]
        /\ job' = [job EXCEPT ![j] = RequeuedStatus(@)]
  /\ Goto(w, "complete")
  /\ Forget(w)
  /\ UNCHANGED <<rowVars, blamed, pageVars, failing, del>>

\* complete_work_item, both statements.
Complete(w) ==
  /\ pc[w] = "complete"
  /\ Rows!Complete(w, held[w])
  /\ Goto(w, "log")
  /\ UNCHANGED <<jobVars, pageVars, ocrVars, done, total, refs, failing, del>>

LogAttempt(w) ==
  /\ pc[w] = "log"
  /\ Rows!LogAttempt(w)
  /\ Goto(w, "idle")
  /\ UNCHANGED <<jobVars, pageVars, ocrVars, done, total, refs, failing, del>>

\* Any call of the attempt raises.
Raise(w) ==
  /\ pc[w] \in Trying
  /\ Goto(w, "retry")
  /\ Forget(w)
  /\ UNCHANGED <<rowVars, jobVars, pageVars, ocrVars, failing, del>>

\* The except clause: retry_work_item, and _fail_job unless it answered True.
Retry(w) ==
  /\ pc[w] = "retry"
  /\ Rows!Retry(w, held[w])
  /\ IF Rows!RetryReturns(w, held[w])
       THEN Goto(w, "idle") /\ UNCHANGED failing
       ELSE Goto(w, "fail") /\ failing' = [failing EXCEPT ![w] = held[w]]
  /\ UNCHANGED <<jobVars, pageVars, ocrVars, done, total, refs, del>>

\* _fail_job sets failure_code whatever the status was.
FailJob(w) ==
  /\ pc[w] = "fail"
  /\ LET j == failing[w][1]
     IN IF InDb(j) THEN /\ job' = [job EXCEPT ![j] = FailedStatus(@)]
                        /\ blamed' = [blamed EXCEPT ![j] = TRUE]
                   ELSE UNCHANGED jobVars
  /\ Goto(w, "idle")
  /\ failing' = [failing EXCEPT ![w] = NoTask]
  /\ UNCHANGED <<rowVars, pageVars, ocrVars, done, total, refs, del>>

\* The process crashes, or a lease, retry or _fail_job statement raises outside
\* the inner try and the worker task ends unnoticed.
Die(w) ==
  /\ Rows!Die(w)
  /\ Goto(w, "idle")
  /\ Forget(w)
  /\ failing' = [failing EXCEPT ![w] = NoTask]
  /\ UNCHANGED <<jobVars, pageVars, ocrVars, del>>

\* The process is started again.
Restart(w) ==
  /\ Rows!Restart(w)
  /\ UNCHANGED <<jobVars, pageVars, ocrVars, workerVars, del>>

BackOff(t) ==
  /\ Rows!BackOff(t)
  /\ UNCHANGED <<jobVars, pageVars, ocrVars, workerVars, del>>

Lapse(t) ==
  /\ Rows!Lapse(t)
  /\ UNCHANGED <<jobVars, pageVars, ocrVars, workerVars, del>>

-----------------------------------------------------------------------------
\* POST /api/jobs/{id}/cancel
Cancel(j) ==
  /\ "cancel" \in Requests /\ InDb(j)
  /\ job' = [job EXCEPT ![j] = CancelledStatus(@)]
  /\ UNCHANGED <<rowVars, blamed, pageVars, ocrVars, workerVars, del>>

\* DELETE /api/jobs/{id}: begin_delete, delete_prefix (whose failure is logged
\* and ignored), finish_delete.
BeginDelete(j) ==
  /\ "delete" \in Requests /\ InDb(j) /\ del[j] \in {"none", "over"}
  /\ job' = [job EXCEPT ![j] = DeletedStatus(@)]
  /\ del' = [del EXCEPT ![j] = "begun"]
  /\ UNCHANGED <<rowVars, blamed, pageVars, ocrVars, workerVars>>

PurgeObjects(j) ==
  /\ del[j] = "begun"
  /\ \/ /\ originals' = [originals EXCEPT ![j] = FALSE]
        /\ images' = [images EXCEPT ![j] = {}]
     \/ UNCHANGED <<originals, images>>
  /\ del' = [del EXCEPT ![j] = "purged"]
  /\ UNCHANGED <<rowVars, jobVars, pages, ocrVars, workerVars>>

\* Rows that refer to the job go with it; commands already in the outbox stay.
FinishDelete(j) ==
  /\ del[j] = "purged"
  /\ job' = [job EXCEPT ![j] = "removed"]
  /\ pages' = [pages EXCEPT ![j] = NoPages]
  /\ ocr' = [ocr EXCEPT ![j] = 0]
  /\ Rows!Drop({j} \X Sides)
  /\ del' = [del EXCEPT ![j] = "over"]
  /\ UNCHANGED <<blamed, originals, images, commands, workerVars>>

\* The process serving the request dies between two of the steps above.
AbandonDelete(j) ==
  /\ del[j] \in {"begun", "purged"}
  /\ del' = [del EXCEPT ![j] = "over"]
  /\ UNCHANGED <<rowVars, jobVars, pageVars, ocrVars, workerVars>>

\* The Processing service moves a job with transition_job, from the status it
\* expects: along the stages once it has a command, or to cancelled.
Process(j, s) ==
  /\ InDb(j) /\ s # job[j] /\ CanTransition(job[j], s)
  /\ \/ s = "cancelled"
     \/ commands[j] # << >> /\ s \in Stages
  /\ job' = [job EXCEPT ![j] = s]
  /\ UNCHANGED <<rowVars, blamed, pageVars, ocrVars, workerVars, del>>

WorkerStep(w) ==
  \/ (\E t \in Tasks : Lease(w, t)) \/ NoneLeasable(w)
  \/ Load(w) \/ PutImage(w) \/ InsertPage(w) \/ Check(w) \/ ReadPages(w)
  \/ EnqueueOcr(w) \/ Complete(w) \/ LogAttempt(w) \/ Raise(w) \/ Retry(w)
  \/ FailJob(w)

Next ==
  \/ \E w \in Workers : WorkerStep(w) \/ Die(w) \/ Restart(w)
  \/ \E t \in Tasks : BackOff(t) \/ Lapse(t)
  \/ \E j \in Jobs :
       \/ Accept(j) \/ Cancel(j) \/ BeginDelete(j) \/ PurgeObjects(j)
       \/ FinishDelete(j) \/ AbandonDelete(j)
       \/ \E s \in Status : Process(j, s)

Spec == Init /\ [][Next]_vars
\* A running worker task is scheduled and clocks advance.  Nothing restarts a
\* worker task that has ended, so Restart is not fair.
Fairness ==
  /\ \A w \in Workers : WF_vars(WorkerStep(w))
  /\ \A t \in Tasks : WF_vars(BackOff(t)) /\ WF_vars(Lapse(t))

FairSpec == Spec /\ Fairness

-----------------------------------------------------------------------------
\* No late write revives or relabels a finished job: fan-in, _fail_job, cancel
\* and Processing leave it alone, only deletion takes it further.
FinishedStaysFinished ==
  [][\A j \in Jobs :
       job[j] \in {"completed", "failed", "cancelled"} /\ job'[j] # job[j]
         => job'[j] \in {"deleting", "removed"}]_vars

\* Every command of a batch names a page of one side at least, although counts
\* and pages come from different snapshots and two attempts may be storing.
NoEmptyCommand ==
  \A j \in Jobs : \A b \in Range(commands[j]) :
    \A k \in 1..b.total : \E s \in Sides : k <= b.refs[s]

\* A side whose prepare row succeeded is stored completely.
SucceededSideStored ==
  \A j \in Jobs, s \in Sides :
    InDb(j) /\ state[<<j, s>>] = "succeeded" => pages[j][s] = PageCount[s]

\* Workers that race past the "no OCR item yet" query each enqueue a batch;
\* retries and restarts add none.
BatchesBoundedByRacers ==
  \A j \in Jobs : Len(commands[j]) <= Cardinality(Workers)

\* Until the user deletes the job, every page image a command refers to is in
\* the object store.
RefsResolve ==
  \A j \in Jobs : del[j] = "none" =>
    \A b \in Range(commands[j]), s \in Images :
      \A k \in 1..b.refs[s] : <<s, k>> \in images[j]

\* The gateway fails a job only when one of its rows has run out of attempts, or
\* a lease lapsed under (or was left by) a worker, or the job is gone.
FailureHasCause ==
  \A j \in Jobs : blamed[j] =>
    \E s \in Sides : state[<<j, s>>] \in {"failed", "gone"} \/ lapses[<<j, s>>] > 0

\* Whatever raises, a job leaves "preparing", unless the worker that used up the
\* last attempt died before _fail_job.
PreparationEnds ==
  \A j \in Jobs :
    job[j] = "preparing" ~>
      \/ job[j] # "preparing"
      \/ faults > 0 /\ \E s \in Sides : state[<<j, s>>] = "failed"

-----------------------------------------------------------------------------
\* 'Отмена запрошена' (repository.py:101), "cancellation requested": such a job
\* may only be cancelled or deleted (states.py:26); it is not queued again.
CancelHonoured ==
  [][\A j \in Jobs : job[j] = "cancel_requested" => job'[j] # "queued"]_vars

\* "Разбить два файла на чанки и отправить в Kafka" (main.py:247), split two files
\* into chunks and send them to Kafka: once both files are stored, some batch of
\* commands covers every page of both.
EveryPageCommanded ==
  \A j \in Jobs : (\A s \in Sides : state[<<j, s>>] = "succeeded") =>
    \E b \in Range(commands[j]) : \A s \in Sides :
      b.refs[s] = PageCount[s] /\ b.total >= PageCount[s]
=============================================================================
