------------------------------ MODULE Rendering ------------------------------
(***************************************************************************)
(* What a job keeps outside the database, from upload to deletion, for one *)
(* of its two files: compare uploads it, prepare workers turn it into      *)
(* pages (images of a PDF in the object store, texts of a DOCX by way of   *)
(* Word in a subprocess), and delete_job removes it all.                   *)
(*                                                                         *)
(* An attempt at the file's work item belongs to some gateway process; a   *)
(* later one overlaps it when the lease has lapsed.  A process runs one    *)
(* attempt at a time, so nobody ever waits for _COM_SLOT.  Leases and      *)
(* the fan-in are the subject of PrepareFanIn.                             *)
(***************************************************************************)
EXTENDS ObjectStore, FiniteSets

CONSTANTS
  MaxAttempts,
  MaxPages,
  Setups,   \* combinations of backend, format and number of pages to look at (a bound)
  Lossy     \* those of them where the answer to COMMIT may get lost (a bound)

Attempts == 1..MaxAttempts
Uploader == 0
Deletion == MaxAttempts + 1

ASSUME RenderingAssumption ==
  /\ MaxAttempts \in Nat \ {0} /\ MaxPages \in Nat \ {0}
  /\ Pages = 1..MaxPages
  /\ Callers = Attempts \union {Uploader, Deletion}
  /\ Setups \subseteq {"s3", "posix", "windows"} \X {"pdf", "docx"} \X Pages

VARIABLES
  format,   \* of the file: "pdf" or "docx"
  last,     \* its last page
  up,       \* _store_upload and the rest of compare
  job,      \* the comparison_jobs row: "none", "accepted", "deleting", "removed"
  unheard,  \* history: its COMMIT was applied and reported failed
  deleter,  \* delete_job, "idle" or "purge"
  at,       \* of each attempt: where _process is
  page,     \* of each attempt: the page it stores
  rows,     \* page numbers in document_pages
  settled,  \* the work item has succeeded
  conv,     \* of each attempt: its thread, its subprocess and the result
  words,    \* attempts whose Word.Application runs
  dropped,  \* history: conversions given up, or that could not quit Word
  spoilt    \* history: an attempt overlapped the deletion, or that failed

fileVars == <<format, last>>
jobVars == <<fileVars, up, job, unheard, deleter>>
convVars == <<conv, words, dropped>>
attemptVars == <<at, page, rows, settled>>
vars == <<storeVars, faults, jobVars, attemptVars, convVars, spoilt>>

TypeOK ==
  /\ StoreTypeOK
  /\ format \in {"pdf", "docx"} /\ last \in Pages
  /\ up \in {"new", "stage", "fetch", "copy", "unstage", "commit", "clean", "over"}
  /\ job \in {"none", "accepted", "deleting", "removed"}
  /\ unheard \in BOOLEAN
  /\ deleter \in {"idle", "purge"}
  /\ at \in [Attempts -> {"none", "load", "store", "row", "convert", "over", "dead"}]
  /\ page \in [Attempts -> 0..MaxPages]
  /\ rows \subseteq Pages
  /\ settled \in BOOLEAN
  /\ conv \in [Attempts -> {"none", "thread", "child", "word", "text", "failed"}]
  /\ words \subseteq Attempts
  /\ dropped \subseteq Attempts
  /\ spoilt \in BOOLEAN

Init ==
  /\ StoreInit
  /\ format \in {"pdf", "docx"} /\ last \in Pages
  /\ <<backend, format, last>> \in Setups
  /\ up = "new" /\ job = "none" /\ unheard = FALSE /\ deleter = "idle"
  /\ at = [a \in Attempts |-> "none"]
  /\ page = [a \in Attempts |-> 0]
  /\ rows = {} /\ settled = FALSE
  /\ conv = [a \in Attempts |-> "none"]
  /\ words = {} /\ dropped = {} /\ spoilt = FALSE

Active(a) == at[a] \notin {"none", "over", "dead"}
Converting(a) == conv[a] \in {"thread", "child", "word"}
Reply(c) == call[c].at

-----------------------------------------------------------------------------
(***************************************************************************)
(* compare                                                                 *)
(***************************************************************************)
uploadOnly == <<fileVars, deleter, attemptVars, convVars, spoilt>>

\* Each step follows the answer to the one before.
Then(was, next, op, k) ==
  /\ up = was /\ up' = next
  /\ was # "new" => Reply(Uploader) = "ok"
  /\ Begin(Uploader, op, k)
  /\ UNCHANGED uploadOnly

\* _store_upload
Upload ==
  /\ \/ Then("new", "stage", "put", Staging)
     \/ Then("stage", "fetch", "get", Staging)
     \/ Then("fetch", "copy", "put", Original)
     \/ Then("copy", "unstage", "delete", Staging)
  /\ UNCHANGED <<job, unheard, faults>>

\* The upload turns out to be empty, once it is stored; or a call raised.
UploadRefused ==
  /\ up \in {"stage", "fetch", "copy", "unstage", "clean"}
  /\ \/ up = "stage" /\ Reply(Uploader) = "ok"
     \/ up = "clean" /\ Reply(Uploader) = "ok"
     \/ Reply(Uploader) = "raised"
  /\ up' = "over"
  /\ UNCHANGED <<storeVars, faults, job, unheard, uploadOnly>>

\* create_or_resume commits the job ...
Commit ==
  /\ up = "unstage" /\ Reply(Uploader) = "ok"
  /\ up' = "over" /\ job' = "accepted"
  /\ UNCHANGED <<storeVars, faults, unheard, uploadOnly>>

\* ... or raises, and compare deletes what was uploaded, for a job that is not
\* there ...
CommitRaises ==
  /\ Then("unstage", "clean", "purge", Original)
  /\ UNCHANGED <<job, unheard, faults>>

\* ... or, when the answer to COMMIT is lost, for one that is.
CommitUnheard ==
  /\ <<backend, format, last>> \in Lossy
  /\ Then("unstage", "clean", "purge", Original)
  /\ Fault
  /\ job' = "accepted" /\ unheard' = TRUE

UploadDies ==
  /\ up \notin {"new", "over"} /\ up' = "over"
  /\ Drop(Uploader)
  /\ UNCHANGED <<job, unheard, uploadOnly>>

-----------------------------------------------------------------------------
(***************************************************************************)
(* PrepareWorker                                                           *)
(***************************************************************************)
Move(a, l) == at' = [at EXCEPT ![a] = l]

\* The item is leased, for the first time, after a failure, or from somebody
\* whose lease has lapsed; get_bytes(object_key).
Lease(a) ==
  /\ job \in {"accepted", "deleting"} /\ ~settled
  /\ at[a] = "none" /\ \A b \in 1..(a - 1) : at[b] # "none"
  /\ Move(a, "load") /\ Begin(a, "get", Original)
  /\ spoilt' = (spoilt \/ job = "deleting")
  /\ UNCHANGED <<faults, jobVars, page, rows, settled, convVars>>

\* _store_image_pages: put_bytes of the next image ...
StorePage(a, n) ==
  /\ Move(a, "store") /\ page' = [page EXCEPT ![a] = n]
  /\ Begin(a, "put", Page(n))

\* Mutants of FirstPage: the row goes in before the image; pages count from 0.
FirstPageRow(a) ==
  /\ format = "pdf" /\ at[a] = "load" /\ Reply(a) = "ok"
  /\ StorePage(a, 1) /\ rows' = rows \union {1}
  /\ UNCHANGED <<faults, jobVars, settled, convVars, spoilt>>

FirstPageZero(a) ==
  /\ format = "pdf" /\ at[a] = "load" /\ Reply(a) = "ok"
  /\ StorePage(a, 0)
  /\ UNCHANGED <<faults, jobVars, rows, settled, convVars, spoilt>>

\* The images are rendered from what was loaded.
FirstPage(a) ==
  /\ format = "pdf" /\ at[a] = "load" /\ Reply(a) = "ok"
  /\ StorePage(a, 1)
  /\ UNCHANGED <<faults, jobVars, rows, settled, convVars, spoilt>>

\* ... and _insert_page, which the foreign key refuses without a job.  After the
\* last page the item is completed, unless it has been leased again.
Insert(a) ==
  /\ \/ at[a] = "row"
     \/ at[a] = "store" /\ Reply(a) = "ok"
  /\ job \in {"accepted", "deleting"}
  /\ rows' = rows \union {page[a]}
  /\ IF page[a] < last
       THEN /\ IF format = "pdf" THEN StorePage(a, page[a] + 1)
                                 ELSE /\ page' = [page EXCEPT ![a] = @ + 1]
                                      /\ UNCHANGED <<storeVars, at>>
            /\ UNCHANGED settled
       ELSE /\ Move(a, "over")
            /\ settled' = (settled \/ \A b \in Attempts : b > a => at[b] = "none")
            /\ UNCHANGED <<storeVars, page>>
  /\ UNCHANGED <<faults, jobVars, convVars, spoilt>>

\* A call raised, or the database; the PDF cannot be rendered (in time).
Raise(a) ==
  /\ \/ at[a] \in {"load", "store"} /\ Reply(a) = "raised"
     \/ at[a] \in {"load", "store"} /\ Reply(a) = "ok" /\ format = "pdf"
     \/ at[a] = "row"
  /\ Move(a, "over")
  /\ UNCHANGED <<storeVars, faults, jobVars, page, rows, settled, convVars, spoilt>>

\* The process dies, and with it the attempt and its thread; not the subprocess.
Die(a) ==
  /\ \/ Active(a)
     \/ at[a] = "over" /\ Converting(a)
  /\ Move(a, "dead") /\ Drop(a)
  /\ conv' = [conv EXCEPT ![a] = IF @ = "thread" THEN "failed" ELSE @]
  /\ dropped' = dropped \union {a}
  /\ UNCHANGED <<jobVars, page, rows, settled, words, spoilt>>

-----------------------------------------------------------------------------
(***************************************************************************)
(* _prepare_word_subprocess, word_job and docx_to_page_texts               *)
(***************************************************************************)
Become(a, s) == conv' = [conv EXCEPT ![a] = s]
notConv == <<storeVars, jobVars, page, rows, settled, spoilt>>

\* wait_for(to_thread(_prepare_word_subprocess), word_timeout_seconds) ...
Convert(a) ==
  /\ format = "docx" /\ at[a] = "load" /\ Reply(a) = "ok"
  /\ Move(a, "convert") /\ Become(a, "thread")
  /\ UNCHANGED <<notConv, faults, words, dropped>>

\* ... whose thread runs word_job ...
StartChild(a) ==
  /\ conv[a] = "thread" /\ Become(a, "child")
  /\ UNCHANGED <<notConv, faults, at, words, dropped>>

\* ... which starts Word, if it can.
StartWord(a) ==
  /\ conv[a] = "child"
  /\ \/ Become(a, "word") /\ words' = words \union {a}
     \/ Become(a, "failed") /\ UNCHANGED words
  /\ UNCHANGED <<notConv, faults, at, dropped>>

\* Mutant of WordEnds: Quit is called only after a success.
WordEndsWell(a) ==
  /\ conv[a] = "word"
  /\ \E r \in {"text", "failed"} :
       Become(a, r) /\ words' = IF r = "text" THEN words \ {a} ELSE words
  /\ UNCHANGED <<notConv, faults, at, dropped>>

\* The pages are read, or not; finally Word is told to quit.  If Quit raises that
\* is logged.
WordEnds(a) ==
  /\ conv[a] = "word"
  /\ \E r \in {"text", "failed"} : Become(a, r)
  /\ \/ words' = words \ {a} /\ UNCHANGED <<faults, dropped>>
     \/ dropped' = dropped \union {a} /\ Fault /\ UNCHANGED words
  /\ UNCHANGED <<notConv, at>>

\* subprocess.run times out and kills word_job alone.  TimeoutExpired has no pid,
\* so taskkill does not run: Word is left as it is.
Kill(a) ==
  /\ conv[a] \in {"child", "word"} /\ at[a] # "dead"
  /\ Become(a, "failed")
  /\ dropped' = dropped \union {a}
  /\ UNCHANGED <<notConv, faults, at, words>>

\* The result reaches the attempt, while it waits.
Converted(a) ==
  /\ at[a] = "convert"
  /\ \/ conv[a] = "text" /\ Move(a, "row") /\ page' = [page EXCEPT ![a] = 1]
     \/ conv[a] = "failed" /\ Move(a, "over") /\ UNCHANGED page
  /\ UNCHANGED <<storeVars, faults, jobVars, rows, settled, spoilt, convVars>>

\* wait_for gives up and _COM_SLOT is free; the thread and all below it go on.
WaitTimesOut(a) ==
  /\ at[a] = "convert" /\ Move(a, "over")
  /\ dropped' = dropped \union {a}
  /\ UNCHANGED <<notConv, faults, conv, words>>

-----------------------------------------------------------------------------
(***************************************************************************)
(* delete_job                                                              *)
(***************************************************************************)
notDeletion == <<fileVars, up, unheard, at, page, settled, convVars>>

\* begin_delete, also of a job left in 'deleting'; delete_prefix("jobs/<job>") ...
BeginDelete ==
  /\ job \in {"accepted", "deleting"} /\ deleter = "idle"
  /\ job' = "deleting" /\ deleter' = "purge"
  /\ Begin(Deletion, "purge", Original)
  /\ spoilt' = (spoilt \/ \E a \in Attempts : Active(a))
  /\ UNCHANGED <<faults, rows, notDeletion>>

\* ... and finish_delete, whether that raised or not.
FinishDelete ==
  /\ deleter = "purge" /\ Reply(Deletion) \in {"ok", "raised"}
  /\ deleter' = "idle" /\ job' = "removed" /\ rows' = {}
  /\ UNCHANGED <<storeVars, faults, spoilt, notDeletion>>

DeletionDies ==
  /\ deleter = "purge" /\ Drop(Deletion)
  /\ deleter' = "idle"
  /\ UNCHANGED <<job, rows, spoilt, notDeletion>>

-----------------------------------------------------------------------------
outside == <<jobVars, attemptVars, convVars, spoilt>>
Store(c) == StoreStep(c) /\ UNCHANGED outside
StoreFails(c) == CallFails(c) /\ UNCHANGED outside

Next ==
  \/ \E c \in Callers : Store(c) \/ StoreFails(c)
  \/ Upload \/ UploadRefused \/ Commit \/ CommitRaises \/ CommitUnheard \/ UploadDies
  \/ \E a \in Attempts :
       \/ Lease(a) \/ FirstPage(a) \/ Insert(a) \/ Raise(a) \/ Die(a)
       \/ Convert(a) \/ StartChild(a) \/ StartWord(a) \/ WordEnds(a) \/ Kill(a)
       \/ Converted(a) \/ WaitTimesOut(a)
  \/ BeginDelete \/ FinishDelete \/ DeletionDies

Spec == Init /\ [][Next]_vars

-----------------------------------------------------------------------------
\* The original of an accepted job is whole, and so is the image a page row names:
\* attempts that overlap may replace it by a half, which one of them goes on to
\* complete unless it dies or its writes fail.  Not so when the COMMIT was applied
\* unheard: compare then deletes the files of a job that goes on.
RowsNameObjects ==
  job = "accepted" /\ ~unheard =>
    /\ Object(Original) = "whole"
    /\ format = "pdf" => \A n \in rows :
         \/ Object(Page(n)) = "whole"
         \/ /\ Object(Page(n)) = "torn"
            /\ \/ faults > 0
               \/ \E a \in Attempts : call[a].fd = <<Page(n), "data">>

\* Once the job is committed nothing is left in staging, and once it is removed
\* nothing of it is left, .tmp and .meta files included, whatever died or failed
\* before, and whatever else deletes its files: only an attempt that overlaps the
\* deletion, or the deletion failing itself, leaves objects behind.
LeftoversHaveCause ==
  /\ job # "none" => \A f \in Files : DirOf(f) = "staging" => file[f] = Absent
  /\ job = "removed" /\ ~spoilt /\ Deletion \notin skipped => \A f \in Files : file[f] = Absent

\* Word runs for an attempt that waits for it, and so holds its process's
\* _COM_SLOT, except when the conversion was given up, killed or orphaned, or
\* when Word would not quit.
WordsHaveCause == \A a \in words \ dropped : at[a] = "convert"
=============================================================================
