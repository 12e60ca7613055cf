# Comparator gateway: TLA+ models, model checking and proofs

This directory verifies the gateway of Comparator (`src/backend/app`), the
service that accepts two documents, prepares their pages, hands them to the
Processing service through Kafka and tells the frontend how the comparison
ends. The models are written from the Python and SQL of this repository. TLC
checks them on small instances; the TLA+ proof system (TLAPS) proves every
safety property the passing runs check for every value of the constants.

## 1. The system

### Components, their state and their operations

| Component | Code | State | Operations |
| --- | --- | --- | --- |
| Ingress | `main.py` (`compare`, `_store_upload`), `services/job_ingress.py` | `idempotency_requests`, `comparison_jobs`, uploaded objects | look a key up, upload through a staging key, create or resume, clean up |
| Job state machine | `workflow/states.py` and the SQL that rewrites `status` | `comparison_jobs.status` | transition, cancel, delete, fail, requeue |
| Work items | `workflow/repository.py` | `work_items`: status, attempt, lease token, epoch, expiry | create, lease or take over, complete, log the attempt, retry |
| Prepare worker | `workers/prepare_worker.py` | one task per process and what it holds; `document_pages`, page images | lease, load, store pages, fan in, complete, retry, fail the job |
| Outbox | `workflow/repository.py`, `services/outbox.py`, `main.py` (`lifespan`) | `outbox` rows, one publisher per process | enqueue, claim, send, mark published, mark error |
| WebSocket relay | `services/ws_relay.py` | per connection: two tasks, `send_lock`, `done` | forward upstream, forward the client, poll, finish |
| Accounts and sessions | `db.py`, `routers/auth.py`, `routers/admin.py`, `deps.py` | `users`, `sessions` | log in and out, look up and renew, change a password, patch a user |
| Object store | `services/object_store.py` | objects by key: an S3 bucket, or `.tmp`, data and `.meta` files below a directory | put, get, delete, delete by prefix |
| Document rendering | `services/files.py`, `workers/word_job.py`, `workers/prepare_worker.py` (`_prepare_word_subprocess`) | a thread, a subprocess and Word for each conversion, `_COM_SLOT` | convert, time out, kill, quit Word |
| Everything else | see section 7 | | |

### How they interact

`compare` stores both originals in the object store and commits the job, its two
prepare work items and the idempotency record in one transaction. Prepare
workers of every gateway process poll `work_items`. Whoever stores the last
page of a file looks whether both files have pages and, if so, inserts OCR work
items and outbox rows and sets the job to `queued`. The publishers send the
outbox to Kafka. The Processing service (another repository, same database)
moves the job on. The user may cancel or delete the job at any time. The relay
learns of the outcome through the Processing service's WebSocket, its REST API and
the shared database. A DOCX is rendered by Word, which a subprocess starts for a
thread the worker waits for. Only the database and the object store are shared
between processes; no statement is protected by more than its own transaction, and
no object by anything.

### What is hard

* Statements commit one by one: a handler or a worker may be overtaken, or die,
  between any two of them.
* Leases are not renewed, so the holder of a lapsed lease goes on working.
* Status is rewritten by `CASE` expressions that do not consult the transition
  table, against rows that were read much earlier.
* A send or a COMMIT can take effect and still be reported as failed.
* Attempts that overlap put the same keys, and with local files the same `.tmp`
  file; a deletion lists and removes files while others appear, and ignores what it
  cannot remove.
* A conversion is four things (attempt, thread, subprocess, Word) with two timeouts,
  and each of them may end before the one it started.
* Four tasks of the relay share a lock and an event, and are cancelled at their
  awaits, or forgotten when an exception overtakes the cancelling.
* How a job ended is written in three places (its status, its result, the Processing
  API) by two services that do not wait for each other.

`PROJECT.json` lists every such hazard with its line and the properties that
watch it. Where the code does go wrong and no text says that it does not, a hazard has a
note instead: the properties name it as an exception.

### What makes each component correct

* Ingress: one job per key; answers name committed jobs; nobody's cleanup takes
  another's files.
* Work items: one worker at most can settle a row; retries stay in budget; a
  failed row stays failed; every row settles.
* Preparation: commands name pages and images that exist; a succeeded row means
  a complete file; a finished job is left alone; the job leaves `preparing`.
* Outbox: at-least-once delivery, with duplicates only after faults.
* Relay: the client hears of an outcome that somebody has shown, once, and does hear
  of one.
* Object store: an object is there as a whole or not at all, and a call that returns
  has acted; with files, until two puts of one key overlap.
* Rendering: rows name whole images; a removed job leaves nothing behind; Word runs
  for somebody who waits for it. Each with its exceptions, which the properties name.
* Sessions: revocation is final, old sessions end with the password, an
  administrator remains.

## 2. Modules

```
JobStates   <--EXTENDS---  PrepareFanIn  ---INSTANCE-->  WorkItems  <--  WorkItemsProofs
                           PrepareFanIn  <--  PrepareFanInProofs  ---INSTANCE-->  WorkItemsProofs
AtLeastOnce <--INSTANCE--  Outbox        <--  OutboxProofs
AtomicStore <--INSTANCE--  ObjectStore  <--EXTENDS---  Rendering  <--  MCRendering
                           ObjectStore  <--  ObjectStoreProofs  <--  RenderingProofs
Ingress     <--  IngressProofs, MCIngress
Relay       <--  RelayProofs
Sessions    <--  SessionsProofs, MCSessions
```

**JobStates** has the transition table and, as operators from old to new status,
the four `UPDATE ... CASE` statements: `CancelledStatus` (`request_cancel`),
`DeletedStatus` (`begin_delete`), `RequeuedStatus` (fan-in) and `FailedStatus`
(`_fail_job`).

**WorkItems** models the `work_items` table and its lessees. `attempt` and
`lease_epoch` start at 0 and are only written together by `lease_work_item`, which
also draws a fresh token, so one number, `epoch`, stands for the three. `Fenced` is
the `WHERE` clause of complete and retry, `Leasable` that of lease. A completed
attempt is two actions, `Complete` and `LogAttempt`, since the two statements of
`complete_work_item` are not in a transaction. `due` says that the time a row waits for
is past: its back-off (`BackOff`, after a retry) or its lease (`Lapse`, the passing of
`lease_seconds`; under a live worker that costs a fault). A worker in `down` has ended,
with its process or because a statement outside the inner `try` raised, and leases
nothing; `Restart` is somebody starting the process again.

**PrepareFanIn** composes WorkItems (as `Rows`, with rows <<job, side>>) with pages,
images, OCR items, commands, the user's cancel and delete, and Processing. The
program counter `pc` of a worker stops at every statement and object-store call
of `_run`, `_process`, `_insert_page` and `_maybe_enqueue_ocr`; `total` and `refs` are
the results of its two page queries. Which exception is raised where does not
matter to the code, so `Raise` may happen at each of those points. An idle worker is at
one of two queries, "idle" for `prepare_word` and "pdf" for `prepare_pdf`, which it asks
only after the first found nothing (`NoneLeasable`). Pages are
counted, not represented: the rows of a side are always 1..n, because pages are
stored in order and upserted.

**Outbox** models rows, publishers and the broker. `stale` is a claim older than
the 30 seconds of the claim query. `SendRaises` may or may not have delivered.
**AtLeastOnce** is the promise: a committed message may be delivered once or
more, and is settled only once delivered. Outbox implements it under the mapping
of `Promise`.

**Ingress** models concurrent `POST /api/compare` requests of one user. A request's job
id is fresh, so the request names the job; `reply` is the job its answer names, or how
it ended ("crashed" if its process died or its cleanup raised). A transaction takes
effect at its COMMIT; `CommitUnheard` is the COMMIT that succeeds and is reported as
failed.

**Relay** models one WebSocket connection. An action is what a task does from one
await to the next; holding `lock` is being inside `client_ws.send_text`. The job's
life in the database (`db`, and `stored` for its result, which is read whatever the status)
and in the Processing API is the environment, and the two are independent; `said` is the
history of the outcomes either has shown. The upstream connection ends in five ways:
`ConnectFails`, `UpstreamEnds` (in order or not), `PassFails` (`forward_client` cannot
pass a message on), `ForwardRaises`, and with the relay (`Finish`). An exception of
`forward_upstream` leaves `forward_client` receiving (`watch`), until `WatchEnds` or
`ClientClosed`. Chunk counters are left out, so a status may be sent or skipped at each
poll. `ResultAnswer` and `StatusAnswer` are what `processing_client.py` makes of the
answers of the Processing API.

**ObjectStore** models both back ends for the objects of one side of one job, one action
per system call or request. What is put under a key never varies, so a file's content is
the set of blocks written. A handle (`fd`) follows its file through `replace` and
survives its unlinking, as on POSIX; `Held` is Windows' refusal to replace or unlink an
open file; a put closes its file (`Close`) before it replaces the object. Each caller
that deletes by prefix has its own list of what to visit (`left`, `listed`). `contended`
and `skipped` are history variables: keys for which two callers have written one `.tmp`
file, and callers whose deletion by prefix failed, as a whole or for a file.
**AtomicStore** is the promise to callers; `Promise` maps a key in `contended` to "any",
of which nothing is said.

**Rendering** extends ObjectStore with its callers for one file: `compare` uploading it,
attempts preparing it and `delete_job`. They may overlap, since leases lapse. A put of an
image and the page row after it are the steps of `_store_image_pages`; a DOCX goes
through `conv` (thread, child, Word) while the attempt is at "convert". `words` are the
Word processes that run. `create_or_resume` commits, raises without a job
(`CommitRaises`), or commits and raises (`CommitUnheard`); after the last two the cleanup
purges the prefix, in the last beside the attempts and the deletion of a job that exists.
`unheard`, `spoilt` and `dropped` are history variables: that last case; an attempt
overlapped the deletion; a conversion was given up, killed or orphaned. PrepareFanIn has
the leases and the fan-in around it, and takes a put as one step; Rendering has what
that step is made of.

**Sessions** models accounts, session rows and requests in flight; `step` stops
a request between any two statements. `since` (the password a session's user is
known to have had), `overtaken` and `missed` are history variables for
`OldSessionsEnd`.

Mutant operators next to a definition (`LeaseSameEpoch` beside `Lease`, and so on)
state a plausible bug of that code; substituting one for its original makes TLC
violate the property named for it in `PROJECT.json`.

## 3. Runs

| Run | Instance | States | Properties | Shows |
| --- | --- | --- | --- | --- |
| `work_items` | 2 rows, 2 workers, 2 attempts, 2 faults | 25424 | `LeaseExclusive`, `RetryBudget`, `FailedIsFinal`, `OnlyCompleterReopens`, `ItemsSettle` | the fence holds through lapses, takeovers and late answers |
| `outbox` | 3 messages, 2 publishers, claims of 2, 2 faults | 73306 | `PublishedIsInKafka`, `DuplicatesNeedFaults`, `ImplementsAtLeastOnce`, `Drains` | nothing is lost, duplicates are paid for |
| `prepare_fan_in` | 1 job, DOCX of 1 page and PDF of 2, 2 workers, 2 attempts, 1 fault | 243954 | `NoEmptyCommand`, `SucceededSideStored`, `BatchesBoundedByRacers`, `FailureHasCause`, `PreparationEnds` | what racing, retried workers enqueue |
| `prepare_stages` | the same without faults; all stages, cancel, delete | 744241 | `RefsResolve`, `FinishedStaysFinished` | late gateway writes against user and Processing |
| `ingress` | 4 requests, 3 with one key, 1 of them with other files, 1 fault | 273565 | `OneJobPerKey`, `AnswersNameJobs`, `JobsKeepOriginals`, `OrphansHaveCause` | retries and races |
| `relay` | 1 connection, 1 fault | 368011 | `OneLateEvent`, `OutcomeHasSource`, `OutcomeReachesClient`, `LeavingEndsRelay` | the race of two senders and its end |
| `rendering` | 1 file: S3 PDF of 2 pages, POSIX and Windows PDF of 1 page, POSIX DOCX of 2 pages; 2 attempts, 2 blocks, 1 fault | 469063 | `RowsNameObjects`, `LeftoversHaveCause`, `WordsHaveCause`, `ImplementsAtomicStore` | what a file leaves in the store and in processes |
| `sessions` | 2 administrators, 2 tokens, 2 requests, 1 password change each | 822357 | `OldSessionsEnd`, `RevokedStaysRevoked`, `LastAdminGoesLast` | interleaved account requests |

Every passing run but `prepare_stages` also checks its module's `TypeOK`.

Why the bounds are enough. Two workers, publishers or requests suffice for every race in
the code, which are all pairwise: one overtakes another. Two attempts give a first,
retried, and a last, failing one. A two-page file is the smallest for which "some pages"
and "all pages" differ, and the two kinds of file differ in whether a page is an object.
Three messages with claims of two make a publisher work through a batch while another
claims. The fault bound limits deaths, lapses under a live worker and failing calls,
which can happen at each step. In `ingress` the third keyed request observes what two
racing ones left, the fourth has no key. In `sessions` a password changes once, since
everything compares with the latest; two tokens give each administrator a session, or
one of them an old and a new one. In `rendering` two attempts are the two that share a
`.tmp` file; two blocks are the fewest that can be half there; two pages make one
attempt put a page while the other is at the next, and that is looked at in the bucket,
where files add no states; the races of files are about one page. `Lossy` names the
setups in which a COMMIT may go unheard: pages in a bucket and an original in files, so
that the cleanup, an attempt and the deletion of the job meet over both kinds of object.

Deadlock is not checked: every system here may come to rest (no work, no
requests, a relay that is over).

### Fairness

* `WorkItems`, `PrepareFanIn`: a running `_run` polls for ever and an attempt ends by
  itself (every wait in it has a timeout), so a worker's steps are weakly fair; clocks
  advance, so `BackOff` and `Lapse` are. Nothing restarts a worker task that has ended,
  so `Restart` is not fair. In `work_items` two faults may end both workers:
  `ItemsSettle` excepts the time when all are down. In `prepare_fan_in` one fault leaves
  one worker of two, and `PreparationEnds` needs it.
* `Outbox`: the publisher's steps and the ageing of a claim are weakly fair, and Kafka
  recovers; `Drains` is about processes that are started again.
* `Relay`: runnable tasks run and a present client reads, weak fairness; `asyncio.Lock`
  serves its waiters first come first served, hence strong fairness for the polling
  loop's turn.
* `Ingress`, `Sessions` and `Rendering` have safety properties only. That deletions and
  conversions end rests on each of their calls ending, and is not checked.

### Environment assumptions

The schema is kept by the Processing service's migrations. Used here:
`(user_id, idempotency_key)` is unique (the code relies on it for lost races);
`document_pages` and `work_items` refer to `comparison_jobs` with ON DELETE CASCADE
(as the statements of `finish_delete` need); statements run at READ COMMITTED;
tokens and ids from `uuid4` do not repeat. Processing moves a job only with
`transition_job` and only once it has a command, except to `cancelled`.

Relay assumes of the Processing service that it stores a result no later than it sets
`completed`, that its API takes a job from unknown through processing to completed or failed
and may forget it at any time, and that its WebSocket sends a result or an error only when
its API has it. It does not assume that API and database agree: `_fail_job` and
`request_cancel` ask nobody, and a result may be stored for a job that failed, was cancelled
or is being deleted.

## 4. Disagreements between code and documentation

Each is a run that TLC must find violated.

* `outbox_startup`: the log says "outbox will retry" when Kafka is down at startup,
  but then no publisher is created (`main.py:91-96`).
* `prepare_cancel`: fan-in turns `cancel_requested` into `queued`
  (`prepare_worker.py:344`, against `states.py:26` and the answer "Отмена запрошена").
* `prepare_pages`: fan-in runs once both sides have one page, and then never again
  (`prepare_worker.py:283`), so the rest of a longer file gets no OCR command, against
  the summary of `POST /api/compare`, "Разбить два файла на чанки и отправить в Kafka"
  (`main.py:247`). It takes two workers and no fault: one finds no DOCX row, then the job is
  accepted, and its second query finds the PDF row; it stores page 1 of 2; the
  other worker stores the DOCX and enqueues a batch for page 1; page 2 follows, and nobody
  enqueues it. (One worker cannot do this: it asks for `prepare_word` first and
  would have to lease the PDF row between its two queries, then finishes it alone.)
* `ingress_originals`: after a COMMIT that went unheard, the cleanup deletes the
  originals of a job that exists and that retries are answered with (`main.py:295`).

Behaviour that contradicts no text, and that the models show:

* The same statement of fan-in turns `deleting` into `queued`, and `_fail_job` turns it
  into `failed`, although `states.py:30` leads from it to `deleted` only; a deletion
  whose process died is undone by that, any other ends with the row gone.
* `_fail_job` and fan-in spare the status of a finished job but not the columns beside
  it: `_fail_job` writes `failure_code`, `last_message` and `failed_at` of a completed
  or cancelled job, fan-in its `last_message` (`blamed`; `FinishedStaysFinished` is
  about the status only).
* A worker whose lease was taken over fails the job the other worker is preparing
  (`FailureHasCause` counts a lapsed lease among the causes).
* A client may hear both of a result and of an error, since `_fail_job` fails a job
  whose result is stored, or whose result the API has (`OutcomeHasSource` says only that
  neither is made up).
* When the upstream connection has ended and the polling loop has raised, the client
  waits for ever; when it has ended together with its receiver, nobody notices that the
  client leaves (`OutcomeReachesClient`, `LeavingEndsRelay`).
* A key used again once its record exists is answered with the first job, whatever files
  came with it (`main.py:266`); only overlapping requests reach the comparison of
  `job_ingress.py:88`.
* Staging objects and originals of a refused upload stay, and so do the objects an
  attempt puts while its job is deleted (`OrphansHaveCause`, `LeftoversHaveCause`).
* Two attempts on local files may replace an image by a half-written one, which one of
  them then completes, unless it dies (`RowsNameObjects`).
* After a timeout of `subprocess.run` Word goes on running: `TimeoutExpired` has no
  `pid`, so the handler raises before it comes to `taskkill` (`Kill`).

## 5. Proofs

TLAPS checks every proof to its leaves, and every safety property of a passing run,
invariant, action property or refinement, is stated by a theorem. They hold for all sets
of rows, workers, messages, publishers, jobs, requests, keys, accounts, tokens, page
counts and all bounds, from the named assumptions on the constants only: bounds are
naturals, "none" values are not members of the sets they stand beside, each file has a
page, and the workers of PrepareFanIn are a finite set, since `BatchesBoundedByRacers`
counts them. PrepareFanIn makes the assumptions of WorkItems about its own constants.

* **WorkItemsProofs.** `LeaseExclusive`, `FailedIsFinal` and the others are not
  inductive: that a token passes the fence says nothing of who else's may. `IInv` adds
  that tokens never run ahead of their row, that two workers never share a current one,
  that waiting and failed rows are nobody's, and that the only worker that can still
  touch a succeeded row is the one between the two statements of `complete_work_item`.
  `TypeStep` and `IInvStep` go action by action; `Exclusive`, `Budgeted`, `FailedStays`,
  `ReopenedByCompleter` and `LossHasCause` follow.
* **OutboxProofs.** `IInv` says that a publisher about to mark a row holds one that
  Kafka has, and that rows in batches are not absent. From it `PublishedSent`, and with
  `RefinementStep` (each step maps to Commit, Deliver, Settle or a stutter)
  `Implements`: the outbox is an AtLeastOnce. `DuplicatesPaid` is an account kept for
  each row (`Budget`): its copies in Kafka, plus the publishers that may still send it
  (`MaySend`), plus one while it may be claimed (`Open`), are at most one more than the
  faults. A claim turns an open row into a sender and a send turns a sender into a copy,
  free of charge; whatever adds to the account is a fault. That a publisher has a batch
  only inside its loop (`AtWork`) is what makes a claim open no second account.
* **IngressProofs.** `Keyed` (records and keyed jobs mirror each other) is what makes a
  key unique; `Settled` (a committed request has at most its cleanup left, and only if
  its COMMIT went unheard) and `Uploaded` (where a request stands tells what it has
  stored) are what keeps a job's originals. `OneJob`, `Answered` and `Kept` follow.
  `OrphansCaused` needs `Staged` as well (a staging object is there only from its put to
  its delete): the cleanup of originals then leaves nothing of a request that ended in a
  conflict or a rollback, whatever befell the others.
* **PrepareFanInProofs.** `RowsImplemented` shows that every step of the preparation is
  a step of WorkItems on the prepare rows or leaves them alone, so that what
  WorkItemsProofs says of leases holds here too (`RowsExclusive`). Two kinds of lemma
  carry the rest. `Bystanders` says that only a worker's own steps touch what it
  remembers between two statements; `OnlyGrowth`, `OnlyInserts`, `OnlyBatches`,
  `OnlyCompletes` and `OnlyFailJob` say which steps can change a job's pages, commands,
  rows and blame, and that pages only grow until the job is removed for good. Each
  property then needs the invariant that what a worker remembers is *behind* the tables
  as they are now: `CountsBehind` (the count is at most the pages, then at most the
  pages read) for `NoneEmpty`; `Stored` (an image before its row, a row before the row
  after it, references behind the rows) for `References`; `AllStored` (no rows past the
  last page, a complete side behind every attempt past its inserts) for `SidesStored`;
  `FailuresExcused` for `FailuresCaused`, which rests on `LossHasCause` of
  WorkItemsProofs: a worker finds its row taken only after a lapsed lease or a deletion.
  `FinishedFinal` needs only types: each statement spares a finished status.
  `BatchesBounded` counts for each job its batches and its `Racers`, the workers past
  the query that found no OCR item: together they are no more than the workers
  (`RaceBounded`). A batch turns a racer into a command, and after it there are items,
  so the query lets nobody past (`BatchLeavesItems`), until the job is removed, which
  leaves no page to count (`RemovedIsBare`).
* **ObjectStoreProofs** has lemmas for whoever composes the store with its callers.
  `StoreInv` says where a call can be (`OnItsWay`), that an open handle is on the `.tmp`
  or, once that was renamed, the data file of a key two callers have written
  (`Handles`); that two writers of a key are known to overlap (`Alone`); that whoever
  writes alone finds in `.tmp` what it wrote (`Written`), so that what it renames is
  whole (`Objects`). `Aside` reduces the steps that write nothing to what they do to
  files. `StoreStepInv`, `FailureSteps` and `BeginStep` keep `StoreInv`;
  `StoreStepRefines` and its companions map each step to one of AtomicStore or none. The
  second half is about what calls leave: `FilesTouched` says which files a step of a
  call may change, `PutLeaves` and `DeleteLeaves` what is there once it has taken
  effect. `Halves` is the argument about overlapping puts: while nothing has failed, a
  file that is half there has a writer that has written all of its blocks so far.
  Whoever opened the file last truncated it, so it is that one that completes it, also
  after another has renamed it.
* **RenderingProofs.** `StoreSide` shows that every action of Rendering takes one step
  of the store, or begins a call, or leaves it alone. Hence `KeepsPromise`: both back
  ends implement AtomicStore under the gateway's use, for any number of attempts, pages
  and blocks. `PageStored` (the page an attempt is at is one of the file's) gives
  `TypeCorrect`, `Awaited` (an unfinished conversion that was not given up has its
  attempt waiting) gives `WordsCaused`. The properties of the files rest on who calls
  what: `CallsFit` says for `compare`, each attempt and the deletion which call they
  have under way at each of their steps, and how far the job has come by then
  (`JobOrder`). With it `FilesInv` is inductive: an accepted job has its original, which
  nobody else puts (`OriginalKept`), a row comes after its image took effect
  (`PagesKept`), staging is emptied step by step (`StagingLeft`), and a deletion that no
  attempt overlaps finds in the directories it has still to list, or has listed,
  whatever is there (`Swept`). `RowsNamed` adds `Halves`: a torn image has a handle on
  it, unless something failed. Both speak of jobs whose COMMIT was heard of: until then
  a cleanup has no job to harm, and `OtherSweeps` (in ObjectStoreProofs `ListsOfOthers`)
  says that a deletion by prefix touches nobody else's list. `LeftoversCaused` is
  `StagingLeft` and `Swept`, and holds after an unheard COMMIT too.
* **RelayProofs.** `LockHeldToSend` (who holds the lock has a message in hand) makes
  sends exclusive. For `OneEventAfterResult`, `AfterResult` says what is left once a
  result is out: `done` is set, and of the two senders at most one has a message to
  send. For `OutcomesSourced`, `OutcomeInv` says that an outcome told, in hand at either
  sender, or read by the polling loop as a status, has been shown by the database or the
  API at some time (`said`), which may contradict each other and move on while it is on
  its way (`Remembered`).
* **SessionsProofs.** `RequestInv` says what a request in flight knows: its session is
  in the table with the owner it was let in for, and a password it has seen is not newer
  than the one set. With the types it gives `RevocationsStand` and `LastAdministrator`.
  `OldSessionsRevoked` needs `CureInv`: every session opened with an old password, and
  every login that has verified one, has a *cure*, a request about to revoke the
  sessions of that user that will not spare this one, or it is one of those `missed`.
  Setting a password makes sessions old and brings their cure in the same step; a
  revocation ends what it is the cure of; a session it spares was made with the password
  just set, or another change has come since, with a cure of its own.

`TypeCorrect` is proved in each of these modules but ObjectStoreProofs, whose lemmas
RenderingProofs cites.

Only model-checked: all liveness (`ItemsSettle`, `Drains`, `PreparationEnds`,
`OutcomeReachesClient`, `LeavingEndsRelay`), which TLAPS cannot treat under fairness. The
disagreements of section 4 are counterexamples, found by TLC.

## 6. Plan

Done: WorkItems, Outbox, PrepareFanIn, Ingress, Relay, Sessions, ObjectStore and
Rendering, in this order, and the proofs of section 5, which now state every invariant,
action property and refinement of the passing runs.

Next:

1. The other half of `DuplicatesPaid`: without faults the account of a committed row
   never falls below one, so no row is lost.
2. Lemmas for the liveness properties that are safety: that a worker at a statement, a
   publisher in its loop and the relay's tasks always have a step to take.
3. Shorter proofs: common frames of PrepareFanInProofs and RenderingProofs.

## 7. Not modelled

* What is on a page: text ranges, pixels, `_resize_png`. Page counts are constants, and
  rendering the same original always gives the same pages.
* `work_attempts` rows, messages, previews, names, hashes: data no property tells apart.
* The event log: `append_job_event` runs once per job, in the transaction that creates
  it, so its number is always 1, and nobody in this repository reads events.
  `events_after`, `claim_inbox`, `complete_cancel` and the repository's `finish_delete`
  have no caller here.
* `compare_jobs.py`, `register_job`, `publish_raw_chunks`: the in-memory pipeline that
  the durable path replaced; no caller. The relay's questions to it are always answered
  None, which Relay uses.
* `exists` and `ping` of the object store, listing and download endpoints, result
  parsing (`ollama.py`, a pure function of the request body), configuration, schemas,
  logging: no state changes.
* Creating accounts: `create_user`, and `bootstrap_admin`, whose loser of a race between
  two starting processes fails before it serves anything. Sessions starts with the
  accounts there.
* The frontend (built assets in `src/dist`), scripts and compose files.
