--------------------------- MODULE RenderingProofs ---------------------------
(***************************************************************************)
(* Theorems of Rendering, for any number of attempts, pages, blocks and    *)
(* faults: the types, that its object store keeps the promise of           *)
(* AtomicStore, what Word runs for, what page rows name, and what uploads  *)
(* and deletions leave behind.                                             *)
(***************************************************************************)
EXTENDS Rendering, ObjectStoreProofs

\* What _process asks of the page it is about to store.
PageStored ==
  \A a \in Attempts : at[a] \in {"store", "row"} => page[a] \in 1..last

\* A conversion that has not ended or been given up has somebody waiting for it,
\* and nobody else has Word.
Awaited ==
  \A a \in Attempts :
    /\ Converting(a) /\ a \notin dropped => at[a] = "convert"
    /\ a \in words /\ a \notin dropped => conv[a] = "word"

IInv == StoreInv /\ TypeOK /\ PageStored /\ Awaited

-----------------------------------------------------------------------------
\* Every action of Rendering takes one step of the store: a call begins, moves on,
\* fails or is lost with its process; or none.
LEMMA StoreSide ==
  ASSUME IInv, [Next]_vars
  PROVE  \/ \E c \in Callers : StoreStep(c) \/ CallFails(c) \/ Drop(c)
         \/ /\ UNCHANGED faults
            /\ \E c \in Callers, o \in {"put", "get", "delete"}, k \in Keys : Begin(c, o, k)
         \/ /\ UNCHANGED faults \/ Fault
            /\ \E c \in Callers : Begin(c, "purge", Original)
         \/ UNCHANGED storeVars /\ (UNCHANGED faults \/ Fault)
<1> DEFINE Goal ==
         \/ \E c \in Callers : StoreStep(c) \/ CallFails(c) \/ Drop(c)
         \/ /\ UNCHANGED faults
            /\ \E c \in Callers, o \in {"put", "get", "delete"}, k \in Keys : Begin(c, o, k)
         \/ /\ UNCHANGED faults \/ Fault
            /\ \E c \in Callers : Begin(c, "purge", Original)
         \/ UNCHANGED storeVars /\ (UNCHANGED faults \/ Fault)
<1>0. /\ Uploader \in Callers /\ Deletion \in Callers /\ Attempts \subseteq Callers
      /\ \A n \in 1..MaxPages : Page(n) \in Keys
      /\ Staging \in Keys /\ Original \in Keys
  BY RenderingAssumption, KeyNames
<1>1. CASE \E c \in Callers : Store(c) \/ StoreFails(c)
  BY <1>1 DEF Store, StoreFails
<1>2. CASE Upload
  BY <1>0, <1>2 DEF Upload, Then
<1>3. CASE CommitRaises \/ CommitUnheard
  BY <1>0, <1>3 DEF CommitRaises, CommitUnheard, Then
<1>4. CASE UploadRefused \/ Commit
  BY <1>4 DEF UploadRefused, Commit
<1>5. CASE UploadDies
  BY <1>0, <1>5 DEF UploadDies
<1>6. ASSUME NEW a \in Attempts,
             Lease(a) \/ FirstPage(a) \/ Insert(a) \/ Raise(a) \/ Die(a)
      PROVE  Goal
  <2>1. CASE Lease(a)
    BY <1>0, <2>1 DEF Lease
  <2>2. CASE FirstPage(a)
    BY <1>0, <2>2, RenderingAssumption DEF FirstPage, StorePage
  <2>3. CASE Insert(a)
    <3>1. page[a] < last => page[a] + 1 \in 1..MaxPages
      BY <2>3, RenderingAssumption DEF Insert, IInv, PageStored, TypeOK
    <3> QED
      BY <1>0, <2>3, <3>1 DEF Insert, StorePage
  <2>4. CASE Raise(a)
    BY <2>4 DEF Raise
  <2>5. CASE Die(a)
    BY <1>0, <2>5 DEF Die
  <2> QED
    BY <1>6, <2>1, <2>2, <2>3, <2>4, <2>5
<1>7. ASSUME NEW a \in Attempts,
             \/ Convert(a) \/ StartChild(a) \/ StartWord(a) \/ WordEnds(a) \/ Kill(a)
             \/ Converted(a) \/ WaitTimesOut(a)
      PROVE  Goal
  BY <1>7 DEF Convert, StartChild, StartWord, WordEnds, Kill, Converted, WaitTimesOut, notConv
<1>8. CASE BeginDelete \/ FinishDelete \/ DeletionDies
  BY <1>0, <1>8 DEF BeginDelete, FinishDelete, DeletionDies
<1>9. CASE UNCHANGED vars
  BY <1>9 DEF vars
<1> QED
  BY <1>1, <1>2, <1>3, <1>4, <1>5, <1>6, <1>7, <1>8, <1>9 DEF Next

\* So every action keeps what the store relies on.
LEMMA StoreInvStep == IInv /\ [Next]_vars => StoreInv'
<1> SUFFICES ASSUME IInv, [Next]_vars PROVE StoreInv'
  OBVIOUS
<1>0. StoreInv /\ Original \in Keys
  BY KeyNames DEF IInv
<1>1. CASE \E c \in Callers : StoreStep(c) \/ CallFails(c) \/ Drop(c)
  BY <1>0, <1>1, StoreStepInv, FailureSteps
<1>2. CASE /\ UNCHANGED faults
           /\ \E c \in Callers, o \in {"put", "get", "delete"}, k \in Keys : Begin(c, o, k)
  BY <1>0, <1>2, BeginStep DEF StoreInv, StoreTypeOK
<1>3. CASE (UNCHANGED faults \/ Fault) /\ \E c \in Callers : Begin(c, "purge", Original)
  <2>1. faults' \in 0..MaxFaults
    BY <1>0, <1>3, FaultType DEF StoreInv, StoreTypeOK
  <2> QED
    BY <1>0, <1>3, <2>1, BeginStep
<1>4. CASE UNCHANGED storeVars /\ (UNCHANGED faults \/ Fault)
  <2>1. faults' \in 0..MaxFaults
    BY <1>0, <1>4, FaultType DEF StoreInv, StoreTypeOK
  <2> QED
    BY <1>0, <1>4, <2>1, StoreUnchanged
<1> QED
  BY <1>1, <1>2, <1>3, <1>4, StoreSide

\* AtomicStore sees such a step as one of its own, or as none.
LEMMA RefinementStep == IInv /\ [Next]_vars => [Promise!Next]_(Promise!vars)
<1> SUFFICES ASSUME IInv, [Next]_vars PROVE [Promise!Next]_(Promise!vars)
  OBVIOUS
<1>0. StoreInv /\ Original \in Keys
  BY KeyNames DEF IInv
<1>1. CASE \E c \in Callers : StoreStep(c) \/ CallFails(c) \/ Drop(c)
  BY <1>0, <1>1, StoreStepRefines, FailsRefines, DropRefines
<1>2. CASE /\ UNCHANGED faults
           /\ \E c \in Callers, o \in {"put", "get", "delete"}, k \in Keys : Begin(c, o, k)
  <2>1. PICK c \in Callers, o \in {"put", "get", "delete"}, k \in Keys : Begin(c, o, k)
    BY <1>2
  <2> QED
    BY <1>0, <2>1, BeginRefines
<1>3. CASE (UNCHANGED faults \/ Fault) /\ \E c \in Callers : Begin(c, "purge", Original)
  BY <1>0, <1>3, BeginRefines
<1>4. CASE UNCHANGED storeVars /\ (UNCHANGED faults \/ Fault)
  BY <1>4, UnchangedRefines
<1> QED
  BY <1>1, <1>2, <1>3, <1>4, StoreSide

-----------------------------------------------------------------------------
\* The types and pages of what is outside the store.
Outside ==
  /\ format \in {"pdf", "docx"} /\ last \in Pages
  /\ up \in {"new", "stage", "fetch", "copy", "unstage", "commit", "clean", "over"}
  /\ job \in {"none", "accepted", "deleting", "removed"}
  /\ unheard \in BOOLEAN
  /\ deleter \in {"idle", "purge"}
  /\ at \in [Attempts -> {"none", "load", "store", "row", "convert", "over", "dead"}]
  /\ page \in [Attempts -> 0..MaxPages]
  /\ rows \subseteq Pages
  /\ settled \in BOOLEAN
  /\ conv \in [Attempts -> {"none", "thread", "child", "word", "text", "failed"}]
  /\ words \subseteq Attempts
  /\ dropped \subseteq Attempts
  /\ spoilt \in BOOLEAN

Own == Outside /\ PageStored /\ Awaited

\* Steps of the store leave the rest alone.
LEMMA OwnUnchanged == Own /\ UNCHANGED outside => Own'
BY DEF Own, Outside, PageStored, Awaited, Converting, outside, jobVars, fileVars, attemptVars, convVars

\* What compare does.
Uploads ==
  Upload \/ UploadRefused \/ Commit \/ CommitRaises \/ CommitUnheard \/ UploadDies

\* compare and delete_job do not touch attempts that are under way.
LEMMA RequestsKeepOwn ==
  ASSUME Own, \/ Uploads
              \/ BeginDelete \/ FinishDelete \/ DeletionDies
  PROVE  Own'
<1>1. \/ UNCHANGED <<attemptVars, convVars, fileVars>>
      \/ rows' = {} /\ UNCHANGED <<at, page, settled, convVars, fileVars>>
  BY DEF Uploads, Upload, Then, UploadRefused, Commit, CommitRaises, CommitUnheard, UploadDies,
         BeginDelete, FinishDelete, DeletionDies, uploadOnly, notDeletion, attemptVars
<1>2. /\ up' \in {"new", "stage", "fetch", "copy", "unstage", "commit", "clean", "over"}
      /\ job' \in {"none", "accepted", "deleting", "removed"}
      /\ deleter' \in {"idle", "purge"} /\ spoilt' \in BOOLEAN /\ unheard' \in BOOLEAN
  BY DEF Own, Outside, Uploads, Upload, Then, UploadRefused, Commit, CommitRaises, CommitUnheard,
         UploadDies, BeginDelete, FinishDelete, DeletionDies, uploadOnly, notDeletion, attemptVars
<1> QED
  BY <1>1, <1>2 DEF Own, Outside, PageStored, Awaited, Converting, attemptVars, convVars, fileVars

\* An attempt with a put under way is at a page of its own.
LEMMA AttemptsKeepOwn ==
  ASSUME Own, NEW a \in Attempts, Lease(a) \/ FirstPage(a) \/ Insert(a) \/ Raise(a) \/ Die(a)
  PROVE  Own'
<1> USE RenderingAssumption DEF Own, Outside, fileVars, jobVars, attemptVars, convVars
<1>1. CASE Lease(a)
  BY <1>1 DEF Lease, Move, PageStored, Awaited, Converting
<1>2. CASE FirstPage(a)
  BY <1>2 DEF FirstPage, StorePage, Move, PageStored, Awaited, Converting
<1>3. CASE Insert(a)
  <2>1. /\ page[a] \in 1..last /\ page[a] \in Pages /\ at[a] \in {"store", "row"}
        /\ UNCHANGED <<format, last, up, job, unheard, deleter, conv, words, dropped, spoilt>>
        /\ rows' = rows \union {page[a]}
    BY <1>3 DEF Insert, PageStored
  <2>2. CASE page[a] < last
    <3>1. /\ at' \in {at, [at EXCEPT ![a] = "store"]} /\ page' = [page EXCEPT ![a] = page[a] + 1]
          /\ settled' = settled
      <4>1. CASE format = "pdf"
        BY <1>3, <2>2, <4>1 DEF Insert, StorePage, Move
      <4>2. CASE format # "pdf"
        BY <1>3, <2>2, <4>2 DEF Insert
      <4> QED
        BY <4>1, <4>2
    <3>2. page[a] + 1 \in 1..last /\ page[a] + 1 \in 0..MaxPages
      BY <2>1, <2>2
    <3>3. Outside'
      <4>1. at' \in [Attempts -> {"none", "load", "store", "row", "convert", "over", "dead"}]
        BY <3>1
      <4>2. page' \in [Attempts -> 0..MaxPages]
        BY <3>1, <3>2
      <4>3. rows' \subseteq Pages
        BY <2>1
      <4> QED
        BY <2>1, <3>1, <4>1, <4>2, <4>3
    <3>4. PageStored'
      BY <2>1, <3>1, <3>2 DEF PageStored
    <3>5. Awaited'
      BY <2>1, <3>1 DEF Awaited, Converting
    <3> QED
      BY <3>3, <3>4, <3>5
  <2>3. CASE ~(page[a] < last)
    <3>1. at' = [at EXCEPT ![a] = "over"] /\ page' = page /\ settled' \in BOOLEAN
      BY <1>3, <2>3 DEF Insert, Move
    <3>2. Outside'
      <4>1. at' \in [Attempts -> {"none", "load", "store", "row", "convert", "over", "dead"}]
        BY <3>1
      <4>2. rows' \subseteq Pages
        BY <2>1
      <4> QED
        BY <2>1, <3>1, <4>1, <4>2
    <3>3. PageStored'
      BY <2>1, <3>1 DEF PageStored
    <3>4. Awaited'
      BY <2>1, <3>1 DEF Awaited, Converting
    <3> QED
      BY <3>2, <3>3, <3>4
  <2> QED
    BY <2>2, <2>3
<1>4. CASE Raise(a)
  BY <1>4 DEF Raise, Move, PageStored, Awaited, Converting
<1>5. CASE Die(a)
  BY <1>5 DEF Die, Move, PageStored, Awaited, Converting
<1> QED
  BY <1>1, <1>2, <1>3, <1>4, <1>5

\* Word is started, and told to quit, under an attempt that waits for it.
LEMMA ConversionsKeepOwn ==
  ASSUME Own, NEW a \in Attempts,
         \/ Convert(a) \/ StartChild(a) \/ StartWord(a) \/ WordEnds(a) \/ Kill(a)
         \/ Converted(a) \/ WaitTimesOut(a)
  PROVE  Own'
<1> USE RenderingAssumption
    DEF Own, Outside, fileVars, jobVars, attemptVars, convVars, notConv, Become, Move,
        PageStored, Awaited, Converting
<1>1. CASE Convert(a)
  BY <1>1 DEF Convert
<1>2. CASE StartChild(a)
  BY <1>2 DEF StartChild
<1>3. CASE StartWord(a)
  <2>1. conv[a] = "child" /\ UNCHANGED <<jobVars, page, rows, settled, spoilt, at, dropped>>
    BY <1>3 DEF StartWord
  <2>2. CASE conv' = [conv EXCEPT ![a] = "word"] /\ words' = words \union {a}
    BY <2>1, <2>2
  <2>3. CASE conv' = [conv EXCEPT ![a] = "failed"] /\ words' = words
    BY <2>1, <2>3
  <2> QED
    BY <1>3, <2>2, <2>3 DEF StartWord
<1>4. CASE WordEnds(a)
  BY <1>4 DEF WordEnds
<1>5. CASE Kill(a)
  BY <1>5 DEF Kill
<1>6. CASE Converted(a)
  <2>1. /\ at' \in {[at EXCEPT ![a] = "row"], [at EXCEPT ![a] = "over"]}
        /\ at[a] = "convert" /\ conv[a] \in {"text", "failed"}
        /\ page' = [page EXCEPT ![a] = 1] \/ (page' = page /\ at'[a] = "over")
        /\ UNCHANGED <<jobVars, rows, settled, spoilt, convVars>>
    BY <1>6 DEF Converted
  <2>2. Outside'
    <3>1. at' \in [Attempts -> {"none", "load", "store", "row", "convert", "over", "dead"}]
      BY <2>1
    <3>2. page' \in [Attempts -> 0..MaxPages]
      BY <2>1
    <3> QED
      BY <2>1, <3>1, <3>2
  <2>3. PageStored' /\ Awaited'
    BY <2>1
  <2> QED
    BY <2>2, <2>3
<1>7. CASE WaitTimesOut(a)
  BY <1>7 DEF WaitTimesOut
<1> QED
  BY <1>1, <1>2, <1>3, <1>4, <1>5, <1>6, <1>7

\* All steps together.
LEMMA OwnStep == Own /\ [Next]_vars => Own'
<1> SUFFICES ASSUME Own, [Next]_vars PROVE Own'
  OBVIOUS
<1>1. CASE (\E c \in Callers : Store(c) \/ StoreFails(c)) \/ UNCHANGED vars
  BY <1>1, OwnUnchanged DEF Store, StoreFails, outside, vars
<1>2. CASE \/ Uploads
           \/ BeginDelete \/ FinishDelete \/ DeletionDies
  BY <1>2, RequestsKeepOwn
<1>3. ASSUME NEW a \in Attempts,
             Lease(a) \/ FirstPage(a) \/ Insert(a) \/ Raise(a) \/ Die(a)
      PROVE  Own'
  BY <1>3, AttemptsKeepOwn
<1>4. ASSUME NEW a \in Attempts,
             \/ Convert(a) \/ StartChild(a) \/ StartWord(a) \/ WordEnds(a) \/ Kill(a)
             \/ Converted(a) \/ WaitTimesOut(a)
      PROVE  Own'
  BY <1>4, ConversionsKeepOwn
<1> QED
  BY <1>1, <1>2, <1>3, <1>4 DEF Next, Uploads

\* The invariant of the whole: what the store keeps, and what surrounds it.
THEOREM Invariance == Spec => []IInv
<1>1. Init => IInv
  <2> SUFFICES ASSUME Init PROVE IInv
    OBVIOUS
  <2>1. StoreInv
    BY StoreInitInv DEF Init
  <2>2. Outside
    <3>1. page \in [Attempts -> 0..MaxPages]
      BY RenderingAssumption DEF Init
    <3> QED
      BY <3>1 DEF Init, Outside
  <2>3. PageStored /\ Awaited
    BY DEF Init, PageStored, Awaited, Converting
  <2> QED
    BY <2>1, <2>2, <2>3 DEF IInv, TypeOK, StoreInv, Outside
<1>2. IInv /\ [Next]_vars => IInv'
  <2> SUFFICES ASSUME IInv, [Next]_vars PROVE IInv'
    OBVIOUS
  <2>1. Own
    BY DEF IInv, TypeOK, Own, Outside
  <2>2. Own' /\ StoreInv'
    BY <2>1, OwnStep, StoreInvStep
  <2> QED
    BY <2>2 DEF IInv, TypeOK, StoreInv, Own, Outside
<1> QED
  BY <1>1, <1>2, PTL DEF Spec

\* The files, handles and calls of the store and the variables of compare, of the
\* attempts and of delete_job keep their types.
THEOREM TypeCorrect == Spec => []TypeOK
<1>1. IInv => TypeOK
  BY DEF IInv
<1> QED
  BY <1>1, Invariance, PTL

\* LocalObjectStore and S3ObjectStore keep the promise of AtomicStore through
\* every use the gateway makes of them: until puts of one key overlap, no object
\* is ever seen half written, and no call that returns has failed to act.
THEOREM KeepsPromise == Spec => ImplementsAtomicStore
<1>1. Init => Promise!Init
  BY StoreInitRefines DEF Init
<1>2. IInv /\ [Next]_vars => [Promise!Next]_(Promise!vars)
  BY RefinementStep
<1> QED
  BY <1>1, <1>2, Invariance, PTL DEF Spec, ImplementsAtomicStore, Promise!Spec

\* Word runs for an attempt that waits for it and holds _COM_SLOT, but for
\* conversions given up, killed or orphaned, and a Word that would not quit.
THEOREM WordsCaused == Spec => []WordsHaveCause
<1>1. IInv => WordsHaveCause
  BY DEF IInv, Awaited, WordsHaveCause, Converting, TypeOK
<1> QED
  BY <1>1, Invariance, PTL


-----------------------------------------------------------------------------
(***************************************************************************)
(* What rows, jobs and deletions say about the files.                      *)
(***************************************************************************)
Asked(c, o, k) == call[c].op = o /\ call[c].key = k

\* What each of the callers has asked of the store last, and whether it waits.
UploadFits ==
  /\ up \in {"new", "over"} => ~Running(Uploader)
  /\ up = "stage" => Asked(Uploader, "put", Staging)
  /\ up = "fetch" => Asked(Uploader, "get", Staging)
  /\ up = "copy" => Asked(Uploader, "put", Original)
  /\ up = "unstage" => Asked(Uploader, "delete", Staging)
  /\ up = "clean" => call[Uploader].op = "purge"
  /\ up # "commit"

DeletionFits == IF deleter = "purge" THEN call[Deletion].op = "purge" ELSE ~Running(Deletion)

AttemptFits(a) ==
  /\ at[a] = "load" => Asked(a, "get", Original)
  /\ at[a] = "store" => Asked(a, "put", Page(page[a])) /\ format = "pdf"
  /\ at[a] \in {"row", "convert"} => format = "docx"
  /\ at[a] \notin {"load", "store"} => ~Running(a)
  /\ call[a].op # "purge"

\* One thing after the other: upload, job, attempts and pages, deletion; but when
\* the COMMIT was not heard, compare still deletes.
JobOrder ==
  /\ job # "none" => up = "over" \/ (up = "clean" /\ unheard)
  /\ unheard => up \in {"clean", "over"} /\ job # "none"
  /\ deleter = "purge" => job = "deleting"
  /\ job = "none" => rows = {} /\ \A a \in Attempts : at[a] = "none"

CallsFit == UploadFits /\ DeletionFits /\ (\A a \in Attempts : AttemptFits(a)) /\ JobOrder

\* The parties are different callers.
LEMMA Parties ==
  /\ Uploader \in Callers /\ Deletion \in Callers /\ Attempts \subseteq Callers
  /\ Uploader \notin Attempts /\ Deletion \notin Attempts /\ Uploader # Deletion
  /\ \A c \in Callers : c = Uploader \/ c = Deletion \/ c \in Attempts
BY RenderingAssumption DEF Uploader, Deletion, Attempts

\* So a caller that waits for a put, a delete or a deletion by prefix is known.
LEMMA WhoCalls ==
  ASSUME IInv, CallsFit, NEW c \in Callers, Running(c)
  PROVE  /\ call[c].op = "put" =>
              \/ c = Uploader /\ up = "stage" /\ call[c].key = Staging
              \/ c = Uploader /\ up = "copy" /\ call[c].key = Original
              \/ c \in Attempts /\ at[c] = "store" /\ call[c].key = Page(page[c])
         /\ call[c].op = "delete" => c = Uploader /\ up = "unstage" /\ call[c].key = Staging
         /\ call[c].op = "purge" =>
              \/ c = Uploader /\ up = "clean"
              \/ c = Deletion /\ deleter = "purge"
         /\ c = Uploader => job = "none" \/ (up = "clean" /\ unheard /\ call[c].op = "purge")
         /\ c \in Attempts => Active(c)
<1>1. CASE c = Uploader
  <2>1. up \in {"stage", "fetch", "copy", "unstage", "clean"}
    BY <1>1 DEF CallsFit, UploadFits, IInv, TypeOK
  <2> QED
    BY <1>1, <2>1, Parties DEF CallsFit, UploadFits, JobOrder, Asked
<1>2. CASE c = Deletion
  BY <1>2, Parties DEF CallsFit, DeletionFits
<1>3. CASE c \in Attempts
  BY <1>3, Parties DEF CallsFit, AttemptFits, Asked, Active
<1> QED
  BY <1>1, <1>2, <1>3, Parties

\* Steps of the store are of calls that somebody waits for ...
Works(c) == Store(c) \/ StoreFails(c)

LEMMA WorksFacts ==
  ASSUME IInv, NEW c \in Callers, Works(c)
  PROVE  /\ StoreInv /\ Takes(c) /\ Running(c) /\ UNCHANGED outside
         /\ Only(c) /\ \A d \in Callers : Running(d)' => Running(d)
<1>1. StoreInv /\ Takes(c) /\ UNCHANGED outside
  BY DEF IInv, Works, Store, StoreFails, Takes
<1>2. Running(c)
  BY DEF Works, Store, StoreFails, StoreStep, CallFails, MakeDir, Open, Write, TooLarge, Close,
         Replace, WriteMeta, Unlink, UnlinkMeta, Get, Request, ScanTree, List, RemoveFile, RemoveDir,
         PurgeEnds, StartListing, DeleteObjects, Running, Done, At
<1>3. Only(c)
  BY <1>1, StepOnly
<1> QED
  BY <1>1, <1>2, <1>3 DEF Only, Running

\* ... and ask for nothing else.
LEMMA WorksFit == ASSUME IInv, CallsFit, NEW c \in Callers, Works(c) PROVE CallsFit'
<1>1. /\ UNCHANGED <<format, last, up, job, unheard, deleter, at, page, rows>>
      /\ Only(c) /\ \A d \in Callers : Running(d)' => Running(d)
  BY WorksFacts DEF outside, jobVars, fileVars, attemptVars
<1>2. \A d \in Callers : \A o, k : Asked(d, o, k) /\ o # "purge" => Asked(d, o, k)'
  BY <1>1 DEF Only, Asked
<1>3. UploadFits' /\ DeletionFits'
  BY <1>1, <1>2, Parties DEF CallsFit, UploadFits, DeletionFits, Only
<1>4. \A a \in Attempts : AttemptFits(a)'
  <2> SUFFICES ASSUME NEW a \in Attempts PROVE AttemptFits(a)'
    OBVIOUS
  <2>1. AttemptFits(a) /\ a \in Callers
    BY Parties DEF CallsFit
  <2>2. Asked(a, "get", Original) => Asked(a, "get", Original)'
    BY <1>2, <2>1
  <2>3. Asked(a, "put", Page(page[a])) => Asked(a, "put", Page(page[a]))'
    BY <1>1, <2>1 DEF Only, Asked
  <2> QED
    BY <1>1, <2>1, <2>2, <2>3 DEF AttemptFits, Only
<1> QED
  BY <1>1, <1>3, <1>4 DEF CallsFit, JobOrder

\* A call that begins, and one that is lost with its process.
LEMMA BeginFrame ==
  ASSUME IInv, NEW c \in Callers, NEW o \in {"put", "get", "delete", "purge"}, NEW k \in Keys,
         Begin(c, o, k)
  PROVE  /\ \A d \in Callers \ {c} : call'[d] = call[d]
         /\ Asked(c, o, k)' /\ call'[c].at = "start" /\ ~Running(c)
         /\ UNCHANGED <<backend, file, dirs, left, listed, contended, skipped>>
<1>1. call \in [Callers -> Call]
  BY DEF IInv, StoreInv, StoreTypeOK
<1> QED
  BY <1>1, BeginFields DEF Begin, Asked

\* The other.
LEMMA DropFrame ==
  ASSUME IInv, NEW c \in Callers, Drop(c)
  PROVE  /\ \A d \in Callers \ {c} : call'[d] = call[d]
         /\ call'[c].op = call[c].op /\ call'[c].at = "idle" /\ ~Running(c)'
         /\ UNCHANGED <<backend, file, dirs, contended>>
         /\ call[c].op # "purge" => UNCHANGED <<left, listed, skipped>>
<1>1. call \in [Callers -> Call]
  BY DEF IInv, StoreInv, StoreTypeOK
<1> QED
  BY <1>1, FinishFields DEF Drop, Forget, Running, Done

\* What compare does leaves the attempts and the deletion alone; what it does of
\* the store is to begin calls and to lose them.
LEMMA UploadFrame ==
  ASSUME IInv, Uploads
  PROVE  /\ \A d \in Callers \ {Uploader} : call'[d] = call[d]
         /\ UNCHANGED <<backend, file, dirs, contended, format, last, deleter, at, page, rows, spoilt>>
         /\ left'[Deletion] = left[Deletion] /\ listed'[Deletion] = listed[Deletion]
         /\ Deletion \in skipped' <=> Deletion \in skipped
<1>0. Uploader \in Callers /\ Staging \in Keys /\ Original \in Keys
      /\ Deletion \in Callers \ {Uploader} /\ StoreInv
  BY Parties, KeyNames DEF IInv
<1>1. CASE Upload \/ CommitRaises \/ CommitUnheard
  <2>1. \E o \in {"put", "get", "delete", "purge"}, k \in Keys : Begin(Uploader, o, k)
    BY <1>0, <1>1 DEF Upload, CommitRaises, CommitUnheard, Then
  <2>2. UNCHANGED uploadOnly
    BY <1>1 DEF Upload, CommitRaises, CommitUnheard, Then
  <2> QED
    BY <1>0, <2>1, <2>2, BeginFrame DEF uploadOnly, fileVars, attemptVars
<1>2. CASE UploadRefused \/ Commit
  BY <1>2 DEF UploadRefused, Commit, uploadOnly, fileVars, attemptVars, storeVars
<1>3. CASE UploadDies
  BY <1>0, <1>3, DropFrame, ListsOfOthers DEF UploadDies, Takes, uploadOnly, fileVars, attemptVars
<1> QED
  BY <1>1, <1>2, <1>3 DEF Uploads

\* compare asks for one thing at a time.
LEMMA UploadFit ==
  ASSUME IInv, CallsFit, Uploads
  PROVE  CallsFit'
<1>0. Uploader \in Callers /\ Staging \in Keys /\ Original \in Keys
  BY Parties, KeyNames
<1>1. DeletionFits' /\ \A a \in Attempts : AttemptFits(a)'
  BY UploadFrame, Parties DEF CallsFit, DeletionFits, AttemptFits, Asked, Running
<1>2. /\ UploadFits' /\ (job' = "none" => job = "none")
      /\ job' # "none" => up' = "over" \/ (up' = "clean" /\ unheard')
      /\ unheard' => up' \in {"clean", "over"} /\ job' # "none"
      /\ deleter = "purge" => job' = "deleting"
  <2>1. ASSUME NEW w, NEW n \in {"stage", "fetch", "copy", "unstage", "clean"},
               NEW o \in {"put", "get", "delete", "purge"}, NEW k \in Keys, Then(w, n, o, k),
               w # "over", w # "clean"
        PROVE  up' = n /\ Asked(Uploader, o, k)' /\ job = "none" /\ ~unheard /\ deleter # "purge"
    BY <1>0, <2>1, BeginFrame DEF Then, CallsFit, JobOrder
  <2>2. CASE Upload
    <3>1. UNCHANGED <<job, unheard>>
      BY <2>2 DEF Upload
    <3>2. /\ \/ up' = "stage" /\ Asked(Uploader, "put", Staging)'
             \/ up' = "fetch" /\ Asked(Uploader, "get", Staging)'
             \/ up' = "copy" /\ Asked(Uploader, "put", Original)'
             \/ up' = "unstage" /\ Asked(Uploader, "delete", Staging)'
          /\ job = "none" /\ ~unheard /\ deleter # "purge"
      BY <1>0, <2>1, <2>2 DEF Upload
    <3> QED
      BY <3>1, <3>2 DEF UploadFits
  <2>3. CASE CommitRaises \/ CommitUnheard
    <3>1. Then("unstage", "clean", "purge", Original)
      BY <2>3 DEF CommitRaises, CommitUnheard
    <3>2. /\ up' = "clean" /\ Asked(Uploader, "purge", Original)'
          /\ job = "none" /\ ~unheard /\ deleter # "purge"
      BY <1>0, <2>1, <3>1
    <3> QED
      BY <2>3, <3>2 DEF CommitRaises, CommitUnheard, UploadFits, Asked
  <2>4. CASE UploadRefused \/ Commit
    BY <2>4 DEF UploadRefused, Commit, UploadFits, storeVars, Running, Done, Reply, CallsFit, JobOrder
  <2>5. CASE UploadDies
    BY <1>0, <2>5, DropFrame DEF UploadDies, UploadFits, CallsFit, JobOrder
  <2> QED
    BY <2>2, <2>3, <2>4, <2>5 DEF Uploads
<1>3. JobOrder'
  BY <1>2, UploadFrame DEF CallsFit, JobOrder
<1> QED
  BY <1>1, <1>2, <1>3 DEF CallsFit

\* What an attempt does.
Stores(a) == Lease(a) \/ FirstPage(a) \/ Insert(a) \/ Raise(a) \/ Die(a)
Converts(a) ==
  \/ Convert(a) \/ StartChild(a) \/ StartWord(a) \/ WordEnds(a) \/ Kill(a)
  \/ Converted(a) \/ WaitTimesOut(a)

\* An attempt leaves the files and the other callers alone.
LEMMA AttemptFrame ==
  ASSUME IInv, CallsFit, NEW a \in Attempts, Stores(a) \/ Converts(a)
  PROVE  /\ \A d \in Callers \ {a} : call'[d] = call[d]
         /\ UNCHANGED <<backend, file, dirs, contended, left, listed, skipped, format, last, up, job,
                        unheard, deleter>>
         /\ \A b \in Attempts \ {a} : at'[b] = at[b] /\ page'[b] = page[b]
         /\ AttemptFits(a)'
         /\ (job = "none" => rows' = rows /\ at'[a] = at[a])
<1>0. /\ a \in Callers /\ Original \in Keys /\ AttemptFits(a)
      /\ \A n \in 1..MaxPages : Page(n) \in Keys
      /\ at \in [Attempts -> {"none", "load", "store", "row", "convert", "over", "dead"}]
      /\ page \in [Attempts -> 0..MaxPages]
      /\ job = "none" => at[a] = "none"
  BY Parties, KeyNames, RenderingAssumption DEF CallsFit, JobOrder, IInv, TypeOK
<1>1. ASSUME NEW n \in 1..MaxPages, StorePage(a, n), format = "pdf"
      PROVE  /\ \A d \in Callers \ {a} : call'[d] = call[d]
             /\ UNCHANGED <<backend, file, dirs, contended, left, listed, skipped>>
             /\ \A b \in Attempts \ {a} : at'[b] = at[b] /\ page'[b] = page[b]
             /\ Asked(a, "put", Page(n))' /\ at'[a] = "store" /\ page'[a] = n
             /\ call'[a].op = "put"
  BY <1>0, <1>1, BeginFrame DEF StorePage, Move, Asked
<1>2. CASE Lease(a)
  <2>1. Begin(a, "get", Original)
    BY <1>2 DEF Lease
  <2> QED
    BY <1>0, <1>2, <2>1, BeginFrame DEF Lease, Move, AttemptFits, Asked, jobVars, fileVars
<1>3. CASE FirstPage(a)
  <2>1. 1 \in 1..MaxPages /\ StorePage(a, 1) /\ format = "pdf"
    BY <1>3, RenderingAssumption DEF FirstPage
  <2> QED
    BY <1>0, <1>1, <1>3, <2>1 DEF FirstPage, AttemptFits, Asked, jobVars, fileVars
<1>4. CASE Insert(a)
  <2>1. /\ at[a] = "row" \/ (at[a] = "store" /\ Reply(a) = "ok")
        /\ job # "none" /\ ~Running(a)
        /\ UNCHANGED <<format, last, up, job, unheard, deleter>>
    BY <1>0, <1>4 DEF Insert, AttemptFits, Running, Done, Reply, jobVars, fileVars
  <2>2. CASE page[a] < last /\ format = "pdf"
    <3>1. page[a] + 1 \in 1..MaxPages
      BY <1>4, <2>2, RenderingAssumption DEF Insert, IInv, PageStored, TypeOK
    <3>2. StorePage(a, page[a] + 1)
      BY <1>4, <2>2 DEF Insert
    <3> QED
      BY <1>1, <2>1, <2>2, <3>1, <3>2 DEF AttemptFits, Asked
  <2>3. CASE page[a] < last /\ format # "pdf"
    <3>1. at[a] = "row" /\ at' = at /\ UNCHANGED storeVars
          /\ page' = [page EXCEPT ![a] = @ + 1]
      BY <1>0, <1>4, <2>1, <2>3 DEF Insert, AttemptFits
    <3> QED
      BY <1>0, <2>1, <3>1 DEF AttemptFits, storeVars, Running
  <2>4. CASE ~(page[a] < last)
    <3>1. at' = [at EXCEPT ![a] = "over"] /\ UNCHANGED <<storeVars, page>>
      BY <1>4, <2>4 DEF Insert, Move
    <3> QED
      BY <1>0, <2>1, <3>1 DEF AttemptFits, storeVars, Running
  <2> QED
    BY <2>2, <2>3, <2>4
<1>5. CASE Raise(a)
  <2>1. ~Running(a) /\ at[a] # "none"
    BY <1>0, <1>5 DEF Raise, AttemptFits, Running, Done, Reply
  <2> QED
    BY <1>0, <1>5, <2>1 DEF Raise, Move, AttemptFits, storeVars, Running, jobVars, fileVars
<1>6. CASE Die(a)
  <2>1. Drop(a) /\ call[a].op # "purge"
    BY <1>0, <1>6 DEF Die, AttemptFits
  <2> QED
    BY <1>0, <1>6, <2>1, DropFrame DEF Die, Active, Move, AttemptFits, jobVars, fileVars
<1>7. CASE Converts(a)
  <2>1. /\ UNCHANGED <<storeVars, format, last, up, job, unheard, deleter, rows>>
        /\ \A b \in Attempts \ {a} : page'[b] = page[b]
    <3>1. CASE Converted(a)
      BY <1>0, <3>1 DEF Converted, jobVars, fileVars
    <3>2. CASE ~Converted(a)
      BY <1>7, <3>2 DEF Converts, Convert, StartChild, StartWord, WordEnds, Kill, WaitTimesOut,
                        notConv, jobVars, fileVars
    <3> QED
      BY <3>1, <3>2
  <2>2. CASE Convert(a)
    BY <1>0, <2>1, <2>2 DEF Convert, Move, AttemptFits, storeVars, Running, Done, Reply
  <2>3. CASE Converted(a)
    BY <1>0, <2>1, <2>3 DEF Converted, Move, AttemptFits, storeVars, Running
  <2>4. CASE WaitTimesOut(a)
    BY <1>0, <2>1, <2>4 DEF WaitTimesOut, Move, AttemptFits, storeVars, Running
  <2>5. CASE StartChild(a) \/ StartWord(a) \/ WordEnds(a) \/ Kill(a)
    <3>1. at' = at /\ page' = page
      BY <2>5 DEF StartChild, StartWord, WordEnds, Kill, notConv
    <3> QED
      BY <1>0, <2>1, <3>1 DEF AttemptFits, storeVars, Running, Asked
  <2> QED
    BY <1>7, <2>2, <2>3, <2>4, <2>5 DEF Converts
<1> QED
  BY <1>2, <1>3, <1>4, <1>5, <1>6, <1>7 DEF Stores

\* ... and so what they and the deletion have asked for.
LEMMA AttemptFit ==
  ASSUME IInv, CallsFit, NEW a \in Attempts, Stores(a) \/ Converts(a) PROVE CallsFit'
<1>1. UploadFits' /\ DeletionFits'
  BY AttemptFrame, Parties DEF CallsFit, UploadFits, DeletionFits, Asked, Running
<1>2. ASSUME NEW b \in Attempts PROVE AttemptFits(b)'
  <2>1. CASE b = a
    BY <2>1, AttemptFrame
  <2>2. CASE b # a
    BY <2>2, AttemptFrame, Parties DEF CallsFit, AttemptFits, Asked, Running
  <2> QED
    BY <2>1, <2>2
<1>3. JobOrder'
  BY AttemptFrame DEF CallsFit, JobOrder
<1> QED
  BY <1>1, <1>2, <1>3 DEF CallsFit

Deletes == BeginDelete \/ FinishDelete \/ DeletionDies

\* delete_job touches no file but by its deletion by prefix, and no other call.
LEMMA DeletionFrame ==
  ASSUME IInv, CallsFit, Deletes
  PROVE  /\ \A d \in Callers \ {Deletion} : call'[d] = call[d]
         /\ UNCHANGED <<backend, file, dirs, contended, format, last, up, unheard, at, page>>
         /\ DeletionFits' /\ job # "none" /\ job' \in {"deleting", "removed"}
         /\ deleter' = "purge" => job' = "deleting"
<1>0. Deletion \in Callers /\ Original \in Keys /\ Deletion \notin Attempts
  BY Parties, KeyNames
<1>1. CASE BeginDelete
  <2>1. Begin(Deletion, "purge", Original)
    BY <1>1 DEF BeginDelete
  <2> QED
    BY <1>0, <1>1, <2>1, BeginFrame
       DEF BeginDelete, notDeletion, fileVars, DeletionFits, Asked
<1>2. CASE FinishDelete
  BY <1>2 DEF FinishDelete, notDeletion, fileVars, DeletionFits, storeVars, Reply, Running, Done,
              CallsFit, JobOrder
<1>3. CASE DeletionDies
  BY <1>0, <1>3, DropFrame DEF DeletionDies, notDeletion, fileVars, DeletionFits, CallsFit, JobOrder
<1> QED
  BY <1>1, <1>2, <1>3 DEF Deletes

\* So that it knows who calls.
LEMMA DeletionFit == ASSUME IInv, CallsFit, Deletes PROVE CallsFit'
<1>1. UploadFits' /\ \A a \in Attempts : AttemptFits(a)'
  BY DeletionFrame, Parties DEF CallsFit, UploadFits, AttemptFits, Asked, Running
<1> QED
  BY <1>1, DeletionFrame DEF CallsFit, JobOrder

\* The steps there are.
LEMMA Steps ==
  ASSUME [Next]_vars
  PROVE  \/ \E c \in Callers : Works(c)
         \/ Uploads
         \/ \E a \in Attempts : Stores(a) \/ Converts(a)
         \/ Deletes
         \/ UNCHANGED vars
BY DEF Next, Works, Uploads, Stores, Converts, Deletes

\* All steps together.
LEMMA FitStep == IInv /\ CallsFit /\ [Next]_vars => CallsFit'
<1>1. IInv /\ CallsFit /\ UNCHANGED vars => CallsFit'
  BY DEF vars, storeVars, jobVars, fileVars, attemptVars, CallsFit, UploadFits, DeletionFits,
         AttemptFits, JobOrder, Asked, Running
<1> QED
  BY <1>1, Steps, WorksFit, UploadFit, AttemptFit, DeletionFit

-----------------------------------------------------------------------------
\* The original of an accepted job is there, unless its COMMIT was not heard ...
OriginalKept ==
  /\ Staging \notin contended /\ Original \notin contended
  /\ \/ job = "accepted" /\ ~unheard
     \/ up = "unstage"
     \/ up = "copy" /\ Effective(Uploader)
     => There(Original)

\* ... so is the image a row names, or soon will ...
PagesKept ==
  job = "accepted" /\ ~unheard /\ format = "pdf" =>
    /\ \A n \in rows : There(Page(n))
    /\ \A a \in Attempts : at[a] = "store" /\ Effective(a) => There(Page(page[a]))

\* ... and nothing stays in staging.
Bare(s) == file[<<Staging, s>>] = Absent
StagingLeft ==
  /\ (up \in {"fetch", "copy", "unstage"} \/ (up = "stage" /\ Effective(Uploader))) => Bare("tmp")
  /\ up = "unstage" /\ Effective(Uploader) => Bare("data")
  /\ up = "unstage" /\ Reply(Uploader) = "ok" => Bare("meta")
  /\ job # "none" => Bare("tmp") /\ Bare("data") /\ Bare("meta")

\* A deletion that nothing overlaps sweeps what it has not listed yet, lists it,
\* and removes it.
Emptied == \A f \in Files : file[f] = Absent
ToSweep(f) == DirOf(f) \in left[Deletion] \/ f \in listed[Deletion]
Swept ==
  /\ job \in {"deleting", "removed"} /\ ~spoilt => \A a \in Attempts : ~Active(a)
  /\ ~spoilt /\ Deletion \notin skipped =>
       /\ job = "removed" => Emptied
       /\ deleter = "purge" =>
            /\ Reply(Deletion) \in {"start", "part", "remove", "ok"}
            /\ Reply(Deletion) \in {"part", "remove"} =>
                 \A f \in Files : file[f] # Absent => ToSweep(f)
            /\ Reply(Deletion) = "ok" => Emptied

FilesInv ==
  /\ OriginalKept /\ PagesKept /\ StagingLeft /\ Swept
  /\ Halves /\ InDirs /\ ListedByOne

\* The originals, the uploads and the pages are different objects.
LEMMA KeysDiffer ==
  Staging # Original /\ \A n : Page(n) # Staging /\ Page(n) # Original
BY DEF Staging, Original, Page

\* While a step is of another call, an object stays that is not in staging, unless a
\* prefix is being deleted ...
LEMMA ThereStays ==
  ASSUME IInv, CallsFit, NEW c \in Callers, Works(c), NEW k \in Keys, k # Staging,
         call[c].op # "purge", There(k)
  PROVE  There(k)'
<1>0. StoreInv /\ Takes(c) /\ Running(c) /\ <<k, "data">> \in Files
  BY WorksFacts, FileKinds
<1>1. CASE call[c].op = "put" /\ call[c].key = k
  BY <1>0, <1>1, PutLeaves
<1>2. CASE ~(call[c].op = "put" /\ call[c].key = k)
  <2>1. ~(call[c].op = "delete" /\ call[c].key = k)
    BY <1>0, WhoCalls
  <2>2. file'[<<k, "data">>] = file[<<k, "data">>]
    BY <1>0, <1>2, <2>1, FilesTouched
  <2> QED
    BY <2>2 DEF There
<1> QED
  BY <1>1, <1>2

\* ... and staging stays bare that nobody puts to.
LEMMA BareStays ==
  ASSUME IInv, CallsFit, NEW c \in Callers, Works(c), NEW s \in Suffixes, Bare(s),
         up # "stage" \/ c # Uploader
  PROVE  Bare(s)'
<1> DEFINE f == <<Staging, s>>
<1>0. StoreInv /\ Takes(c) /\ Running(c) /\ f \in Files /\ Staging \in Keys /\ f[1] = Staging
  BY WorksFacts, FileNames, KeyNames
<1>1. ~(call[c].op = "put" /\ call[c].key = Staging)
  BY <1>0, WhoCalls, KeysDiffer
<1>2. CASE call[c].op = "delete" /\ call[c].key = Staging
  BY <1>0, <1>2, DeleteLeaves DEF Bare
<1>3. CASE ~(call[c].op = "delete" /\ call[c].key = Staging)
  BY <1>0, <1>1, <1>3, FilesTouched DEF Bare
<1> QED
  BY <1>2, <1>3

\* An accepted job's files are not being deleted, if its COMMIT was heard.
LEMMA NoPurge ==
  ASSUME IInv, CallsFit, NEW c \in Callers, Works(c),
         (job = "accepted" /\ ~unheard) \/ up \in {"unstage", "copy"}
  PROVE  call[c].op # "purge"
BY WorksFacts, WhoCalls DEF CallsFit, JobOrder

\* Keys become contended that two put to.
LEMMA ContendedStays ==
  ASSUME IInv, CallsFit, NEW c \in Callers, Works(c), NEW k \in Keys, k \notin contended,
         \A n : k # Page(n)
  PROVE  k \notin contended'
<1>1. Takes(c)
  BY WorksFacts
<1>2. CASE Open(c)
  <2> SUFFICES ASSUME k \in contended' PROVE FALSE
    OBVIOUS
  <2>1. PICK d \in Callers \ {c} : At(c, "put", "open") /\ At(d, "put", "write")
                                  /\ call[c].key = k /\ call[d].key = k
    BY <1>2 DEF Open, Finish
  <2>2. Running(c) /\ Running(d)
    BY <2>1 DEF At, Running, Done
  <2> QED
    BY <2>1, <2>2, WhoCalls DEF At
<1>3. CASE ~Open(c)
  BY <1>1, <1>3 DEF Takes, StoreStep, MakeDir, Write, TooLarge, Close, Replace, WriteMeta, Unlink,
     UnlinkMeta, Get, Request, ScanTree, List, RemoveFile, RemoveDir, PurgeEnds, StartListing,
     DeleteObjects, CallFails, Drop
<1> QED
  BY <1>2, <1>3

\* A step of the store keeps the original and the pages ...
LEMMA OriginalWorks ==
  ASSUME IInv, CallsFit, OriginalKept, NEW c \in Callers, Works(c) PROVE OriginalKept'
<1>0. /\ UNCHANGED <<up, job, unheard>> /\ Original \in Keys /\ Staging \in Keys /\ Uploader \in Callers
      /\ StoreInv /\ Takes(c) /\ Only(c)
  BY WorksFacts, KeyNames, Parties DEF outside, jobVars
<1>1. Staging \notin contended' /\ Original \notin contended'
  BY <1>0, ContendedStays, KeysDiffer DEF OriginalKept
<1>2. ASSUME \/ job = "accepted" /\ ~unheard
             \/ up = "unstage"
             \/ up = "copy" /\ Effective(Uploader)'
      PROVE  There(Original)'
  <2>1. call[c].op # "purge"
    BY <1>2, NoPurge
  <2>2. CASE There(Original)
    BY <1>0, <2>1, <2>2, ThereStays, KeysDiffer
  <2>3. CASE ~There(Original)
    <3>1. up = "copy" /\ Effective(Uploader)' /\ ~Effective(Uploader)
      BY <1>2, <2>3 DEF OriginalKept
    <3>2. c = Uploader
      BY <1>0, <3>1 DEF Only, Effective
    <3>3. Asked(Uploader, "put", Original)
      BY <3>1 DEF CallsFit, UploadFits
    <3> QED
      BY <1>0, <3>1, <3>2, <3>3, PutLeaves DEF Asked
  <2> QED
    BY <2>2, <2>3
<1> QED
  BY <1>0, <1>1, <1>2 DEF OriginalKept

\* ... of an accepted job ...
LEMMA PagesWorks ==
  ASSUME IInv, CallsFit, PagesKept, NEW c \in Callers, Works(c) PROVE PagesKept'
<1>0. /\ UNCHANGED <<job, unheard, format, rows, at, page>>
      /\ StoreInv /\ Takes(c) /\ Only(c) /\ rows \subseteq Pages
  BY WorksFacts DEF outside, jobVars, fileVars, attemptVars, IInv, TypeOK
<1> SUFFICES ASSUME job = "accepted", ~unheard, format = "pdf" PROVE PagesKept'
  BY <1>0 DEF PagesKept
<1>1. call[c].op # "purge"
  BY NoPurge
<1>2. ASSUME NEW n \in rows PROVE There(Page(n))'
  <2>1. Page(n) \in Keys /\ There(Page(n))
    BY <1>0, KeyNames DEF PagesKept
  <2> QED
    BY <1>1, <2>1, ThereStays, KeysDiffer
<1>3. ASSUME NEW a \in Attempts, at[a] = "store", Effective(a)' PROVE There(Page(page[a]))'
  <2>1. Page(page[a]) \in Keys /\ a \in Callers /\ Asked(a, "put", Page(page[a]))
    <3>1. page[a] \in Pages
      BY <1>3, RenderingAssumption DEF IInv, PageStored, TypeOK
    <3> QED
      BY <1>3, <3>1, KeyNames, Parties DEF CallsFit, AttemptFits
  <2>2. PICK k \in Keys : k = Page(page[a]) /\ k = Page(page[a])'
    BY <1>0, <2>1
  <2>3. CASE There(k)
    <3>1. There(k)'
      BY <1>1, <2>2, <2>3, ThereStays, KeysDiffer
    <3> QED
      BY <2>2, <3>1
  <2>4. CASE ~There(k)
    <3>1. ~Effective(a)
      BY <1>3, <2>2, <2>4 DEF PagesKept
    <3>2. c = a
      BY <1>0, <1>3, <2>1, <3>1 DEF Only, Effective
    <3>3. There(k)'
      BY <1>0, <1>3, <2>1, <2>2, <3>1, <3>2, PutLeaves DEF Asked
    <3> QED
      BY <2>2, <3>3
  <2> QED
    BY <2>3, <2>4
<1> QED
  BY <1>0, <1>2, <1>3 DEF PagesKept

\* ... and staging bare.
LEMMA StagingWorks ==
  ASSUME IInv, CallsFit, StagingLeft, InDirs, InDirs', NEW c \in Callers, Works(c)
  PROVE  StagingLeft'
<1>0. /\ UNCHANGED <<up, job, backend>> /\ Staging \in Keys /\ Uploader \in Callers
      /\ StoreInv /\ Takes(c) /\ Only(c)
      /\ job # "none" => up \in {"over", "clean"}
  BY WorksFacts, KeyNames, Parties
     DEF outside, jobVars, CallsFit, JobOrder, Works, Store, StoreFails, StoreStep, MakeDir, Open,
         Write, TooLarge, Close, Replace, WriteMeta, Unlink, UnlinkMeta, Get, Request, ScanTree, List,
         RemoveFile, RemoveDir, PurgeEnds, StartListing, DeleteObjects, CallFails
<1>1. ASSUME NEW s \in Suffixes, Bare(s), up # "stage" \/ c # Uploader PROVE Bare(s)'
  BY <1>1, BareStays
<1>2. ~Local => (Bare("tmp") /\ Bare("meta") /\ Bare("tmp")' /\ Bare("meta")')
  BY <1>0, FileKinds DEF InDirs, Bare, Local
<1>3. c # Uploader => (Effective(Uploader)' = Effective(Uploader) /\ Reply(Uploader)' = Reply(Uploader))
  BY <1>0 DEF Only, Effective, Reply
<1>4. CASE up = "stage"
  <2>1. Asked(Uploader, "put", Staging)
    BY <1>4 DEF CallsFit, UploadFits
  <2>2. Effective(Uploader)' => Bare("tmp")'
    <3>1. CASE c = Uploader
      BY <1>0, <1>2, <1>4, <2>1, <3>1, PutLeaves DEF Asked, Bare, StagingLeft
    <3>2. CASE c # Uploader
      BY <1>1, <1>3, <1>4, <3>2 DEF StagingLeft, Suffixes
    <3> QED
      BY <3>1, <3>2
  <2> QED
    BY <1>0, <1>4, <2>2 DEF StagingLeft
<1>5. CASE up = "unstage"
  <2>1. Asked(Uploader, "delete", Staging) /\ Bare("tmp")'
    BY <1>1, <1>5 DEF CallsFit, UploadFits, StagingLeft, Suffixes
  <2>2. Effective(Uploader)' => Bare("data")'
    <3>1. CASE Effective(Uploader)
      BY <1>1, <1>5, <3>1 DEF StagingLeft, Suffixes
    <3>2. CASE ~Effective(Uploader)
      BY <1>0, <1>3, <2>1, <3>2, DeleteLeaves DEF Asked, Bare, There
    <3> QED
      BY <3>1, <3>2
  <2>3. Reply(Uploader)' = "ok" => Bare("meta")'
    <3>1. CASE c = Uploader
      BY <1>0, <1>2, <2>1, <3>1, DeleteLeaves DEF Asked, Bare, Reply
    <3>2. CASE c # Uploader
      BY <1>1, <1>3, <1>5, <3>2 DEF StagingLeft, Suffixes
    <3> QED
      BY <3>1, <3>2
  <2> QED
    BY <1>0, <1>5, <2>1, <2>2, <2>3 DEF StagingLeft
<1>6. CASE up \notin {"stage", "unstage"}
  BY <1>0, <1>1, <1>6 DEF StagingLeft, Suffixes
<1> QED
  BY <1>4, <1>5, <1>6

\* What a deletion has yet to see are files in directories, or what S3 lists.
LEMMA JobFiles ==
  ASSUME IInv, StagingLeft, job # "none", NEW f \in Files, file[f] # Absent
  PROVE  DirOf(f) \in JobDirs
<1>1. f[1] \in Keys /\ f[2] \in Suffixes /\ f = <<f[1], f[2]>>
  BY FileNames
<1>2. f[1] # Staging
  BY <1>1 DEF StagingLeft, Bare, Suffixes
<1> QED
  BY <1>1, <1>2 DEF DirOf, Keys, Staging, Original, Page, JobDirs

\* Each step of a deletion that fails nowhere leaves no file behind it.
LEMMA SweepStep ==
  ASSUME IInv, CallsFit, StagingLeft, Swept, InDirs, ListedByOne, Works(Deletion),
         deleter = "purge", ~spoilt, Deletion \notin skipped'
  PROVE  /\ Reply(Deletion)' \in {"start", "part", "remove", "ok"}
         /\ Reply(Deletion)' \in {"part", "remove"} =>
              \A f \in Files : file'[f] # Absent => ToSweep(f)'
         /\ Reply(Deletion)' = "ok" => Emptied'
<1> DEFINE D == Deletion
<1>0. /\ call[D].op = "purge" /\ job = "deleting" /\ D \in Callers /\ Running(D) /\ StoreInv
      /\ call \in [Callers -> Call] /\ file \in [Files -> {Absent} \union SUBSET Whole]
      /\ left \in [Callers -> SUBSET JobDirs] /\ listed \in [Callers -> SUBSET Files]
  BY Parties, WorksFacts DEF CallsFit, DeletionFits, JobOrder, StoreInv, StoreTypeOK
<1>1. D \notin skipped
  BY DEF Works, Store, StoreFails, StoreStep, MakeDir, Open, Write, TooLarge, Close, Replace,
         WriteMeta, Unlink, UnlinkMeta, Get, Request, ScanTree, List, RemoveFile, RemoveDir,
         PurgeEnds, StartListing, DeleteObjects, CallFails, Forget
<1>2. Reply(D) \in {"part", "remove"} =>
        \A f \in Files : file[f] # Absent => DirOf(f) \in left[D] \/ f \in listed[D]
  BY <1>0, <1>1 DEF Swept, ToSweep
<1>3. CASE ScanTree(D)
  <2>1. Reply(D)' = "part" /\ file' = file /\ left'[D] = dirs \intersect JobDirs /\ Local
    BY <1>0, <1>3, GotoFields DEF ScanTree, Reply, Places
  <2>2. \A f \in Files : file[f] # Absent => DirOf(f) \in dirs \intersect JobDirs
    BY <1>0, <2>1, JobFiles DEF InDirs
  <2> QED
    BY <2>1, <2>2 DEF ToSweep
<1>4. CASE StartListing(D)
  <2>1. Reply(D)' = "part" /\ file' = file /\ left'[D] = JobDirs
    BY <1>0, <1>4, GotoFields DEF StartListing, Reply, Places
  <2> QED
    BY <1>0, <2>1, JobFiles DEF ToSweep
<1>5. CASE List(D)
  <2>1. PICK d \in left[D] : /\ left'[D] = left[D] \ {d} /\ listed'[D] = Entries(d)
                             /\ Reply(D)' = "remove" /\ Reply(D) = "part"
                             /\ file' = file /\ listed[D] = {}
    BY <1>0, <1>5 DEF List, Reply, At, Call
  <2> QED
    BY <1>2, <2>1 DEF Entries, ToSweep
<1>6. CASE RemoveFile(D)
  <2>1. PICK f \in listed[D] : /\ listed'[D] = listed[D] \ {f} /\ left' = left
                               /\ file' = [file EXCEPT ![f] = Absent] /\ call' = Moved(f, NoFile)
    BY <1>0, <1>6 DEF RemoveFile
  <2>2. Reply(D)' = Reply(D) /\ Reply(D) = "remove" /\ f \in Files
    BY <1>0, <1>6, <2>1, MovedFields DEF Reply, RemoveFile, At
  <2> QED
    BY <1>0, <1>2, <2>1, <2>2 DEF ToSweep
<1>7. CASE RemoveDir(D)
  <2>1. Reply(D)' = "part" /\ Reply(D) = "remove" /\ UNCHANGED <<file, left, listed>>
    BY <1>0, <1>7, GotoFields DEF RemoveDir, Reply, Places, At
  <2> QED
    BY <1>2, <2>1 DEF ToSweep
<1>8. CASE PurgeEnds(D)
  <2>1. Reply(D)' = "ok" /\ Reply(D) = "part" /\ file' = file /\ left[D] = {}
    BY <1>0, <1>8, GotoFields DEF PurgeEnds, Reply, Done, At
  <2>2. listed[D] = {}
    BY <1>0, <2>1 DEF ListedByOne, At, Reply
  <2> QED
    BY <1>2, <2>1, <2>2 DEF Emptied
<1>9. CASE DeleteObjects(D)
  <2>1. /\ file' = [f \in Files |-> IF f \in listed[D] THEN Absent ELSE file[f]]
        /\ Reply(D) = "remove" /\ left' = left
    BY <1>9 DEF DeleteObjects, Reply, At
  <2>2. Reply(D)' = "part"
    BY <1>0, <1>9, GotoFields DEF DeleteObjects, Reply, Places
  <2> QED
    BY <1>2, <2>1, <2>2 DEF ToSweep
<1>10. ~StoreFails(D)
  BY <1>0 DEF StoreFails, CallFails, Forget
<1>11. ~(\/ MakeDir(D) \/ Open(D) \/ Write(D) \/ TooLarge(D) \/ Close(D) \/ Replace(D)
         \/ WriteMeta(D) \/ Unlink(D) \/ UnlinkMeta(D) \/ Get(D) \/ Request(D))
  BY <1>0 DEF MakeDir, Open, Write, TooLarge, Close, Replace, WriteMeta, Unlink, UnlinkMeta, Get,
              Request, At
<1> QED
  BY <1>3, <1>4, <1>5, <1>6, <1>7, <1>8, <1>9, <1>10, <1>11 DEF Works, Store, StoreStep

\* Another deletion by prefix, of a compare that did not hear its COMMIT, only helps.
LEMMA OtherSweeps ==
  ASSUME IInv, CallsFit, NEW c \in Callers \ {Deletion}, Works(c), call[c].op = "purge"
  PROVE  /\ Reply(Deletion)' = Reply(Deletion)
         /\ Deletion \in skipped' <=> Deletion \in skipped
         /\ \A f \in Files : (ToSweep(f)' <=> ToSweep(f)) /\ file'[f] \in {file[f], Absent}
<1>0. StoreInv /\ Takes(c) /\ Only(c) /\ Deletion \in Callers \ {c}
  BY WorksFacts, Parties
<1>1. Reply(Deletion)' = Reply(Deletion)
  BY <1>0 DEF Only, Reply
<1>2. /\ left'[Deletion] = left[Deletion] /\ listed'[Deletion] = listed[Deletion]
      /\ Deletion \in skipped' <=> Deletion \in skipped
  BY <1>0, ListsOfOthers
<1>3. \A f \in Files : file'[f] \in {file[f], Absent}
  BY <1>0, FilesTouched
<1> QED
  BY <1>1, <1>2, <1>3 DEF ToSweep

\* A step of the store, of whichever call.
LEMMA SweptWorks ==
  ASSUME IInv, CallsFit, StagingLeft, Swept, InDirs, ListedByOne, NEW c \in Callers, Works(c)
  PROVE  Swept'
<1>0. UNCHANGED <<job, spoilt, deleter, at>> /\ Running(c)
  BY WorksFacts DEF outside, jobVars, attemptVars
<1>1. job \in {"deleting", "removed"} /\ ~spoilt => \A a \in Attempts : ~Active(a)'
  BY <1>0 DEF Swept, Active
<1>2. ASSUME job \in {"deleting", "removed"}, ~spoilt
      PROVE  \/ c = Deletion /\ deleter = "purge"
             \/ c # Deletion /\ call[c].op = "purge"
  <2>1. c \notin Attempts
    BY <1>0, <1>2, WhoCalls DEF Swept
  <2>2. CASE c = Uploader
    BY <1>0, <1>2, <2>2, WhoCalls, Parties
  <2>3. CASE c # Uploader
    <3>1. c = Deletion
      BY <2>1, <2>3, Parties
    <3> QED
      BY <1>0, <3>1 DEF CallsFit, DeletionFits
  <2> QED
    BY <2>2, <2>3
<1>3. ASSUME ~spoilt, Deletion \notin skipped', job \in {"deleting", "removed"}
      PROVE  /\ job = "removed" => Emptied'
             /\ deleter = "purge" =>
                 /\ Reply(Deletion)' \in {"start", "part", "remove", "ok"}
                 /\ Reply(Deletion)' \in {"part", "remove"} =>
                      \A f \in Files : file'[f] # Absent => ToSweep(f)'
                 /\ Reply(Deletion)' = "ok" => Emptied'
  <2>1. CASE c = Deletion /\ deleter = "purge"
    BY <1>3, <2>1, SweepStep DEF CallsFit, JobOrder
  <2>2. CASE c # Deletion /\ call[c].op = "purge"
    <3>1. /\ Reply(Deletion)' = Reply(Deletion) /\ Deletion \notin skipped
          /\ \A f \in Files : (ToSweep(f)' <=> ToSweep(f)) /\ file'[f] \in {file[f], Absent}
      BY <1>3, <2>2, OtherSweeps
    <3>2. Emptied => Emptied'
      BY <3>1 DEF Emptied
    <3> QED
      BY <1>3, <3>1, <3>2 DEF Swept
  <2> QED
    BY <1>2, <1>3, <2>1, <2>2
<1> QED
  <2>1. deleter = "purge" => job = "deleting"
    BY DEF CallsFit, JobOrder
  <2> QED
    BY <1>0, <1>1, <1>3, <2>1 DEF Swept

\* Whatever the step, of what the store says by itself.
LEMMA StoreSays ==
  ASSUME IInv, Staging \notin contended, Halves, InDirs, ListedByOne, [Next]_vars
  PROVE  Halves' /\ InDirs' /\ ListedByOne'
<1>0. StoreInv /\ Original \in Keys
  BY KeyNames DEF IInv
<1>1. CASE \E c \in Callers : StoreStep(c) \/ CallFails(c) \/ Drop(c)
  BY <1>0, <1>1, HalvesStep, InDirsStep, ListedStep DEF Takes
<1>2. ASSUME NEW c \in Callers, NEW o \in {"put", "get", "delete", "purge"}, NEW k \in Keys,
             Begin(c, o, k), UNCHANGED faults \/ Fault
      PROVE  Halves' /\ InDirs' /\ ListedByOne'
  <2>1. /\ \A d \in Callers \ {c} : call'[d] = call[d]
        /\ UNCHANGED <<backend, file, dirs, listed>> /\ ~Running(c)
        /\ faults' = 0 => faults = 0
    BY <1>0, <1>2, BeginFrame DEF Fault, StoreInv, StoreTypeOK
  <2>2. call[c].fd = NoFile /\ ~At(c, "purge", "remove")
    BY <1>0, <2>1 DEF StoreInv, Handles, Running, Done, At
  <2>3. Halves'
    BY <2>1, <2>2, FileNames DEF Halves, Writes
  <2> QED
    BY <2>1, <2>2, <2>3 DEF InDirs, ListedByOne, At, Local
<1>3. CASE UNCHANGED storeVars /\ (UNCHANGED faults \/ Fault)
  <2>1. faults' = 0 => faults = 0
    BY <1>0, <1>3 DEF Fault, StoreInv, StoreTypeOK
  <2> QED
    BY <1>3, <2>1 DEF storeVars, Halves, Writes, InDirs, ListedByOne, At, Local
<1> QED
  BY <1>0, <1>1, <1>2, <1>3, StoreSide

\* What compare does, and does once it is told that it is done.
LEMMA UploadKeeps ==
  ASSUME IInv, CallsFit, FilesInv, Uploads
  PROVE  OriginalKept' /\ PagesKept' /\ StagingLeft' /\ Swept'
<1>0. /\ \A d \in Callers \ {Uploader} : call'[d] = call[d]
      /\ UNCHANGED <<file, contended, format, deleter, at, page, rows, spoilt>>
      /\ left'[Deletion] = left[Deletion] /\ listed'[Deletion] = listed[Deletion]
      /\ Deletion \in skipped' <=> Deletion \in skipped
      /\ Uploader \in Callers /\ Deletion \in Callers \ {Uploader}
      /\ Staging \in Keys /\ Original \in Keys
  BY UploadFrame, Parties, KeyNames
<1>1. ASSUME NEW w, NEW n, NEW o \in {"put", "get", "delete", "purge"}, NEW k \in Keys,
             Then(w, n, o, k)
      PROVE  /\ up = w /\ up' = n /\ Reply(Uploader)' = "start"
             /\ ~Effective(Uploader)'
             /\ w # "new" => Effective(Uploader) /\ Reply(Uploader) = "ok"
  BY <1>0, <1>1, BeginFrame DEF Then, Reply, Effective
<1>2. up \notin {"over", "clean"} => job = "none" /\ ~unheard
  BY DEF CallsFit, JobOrder
<1>3. \/ /\ up' \in {"stage", "over", "clean"} /\ job' = job /\ unheard' = unheard
         /\ ~Effective(Uploader)' \/ up' = "over"
      \/ /\ up = "unstage" /\ up' = "clean" /\ job' = "accepted" /\ unheard' = TRUE
         /\ Effective(Uploader) /\ Reply(Uploader) = "ok"
      \/ /\ up = "stage" /\ up' = "fetch" /\ UNCHANGED <<job, unheard>> /\ Effective(Uploader)
         /\ Reply(Uploader)' = "start" /\ ~Effective(Uploader)'
      \/ /\ up = "fetch" /\ up' = "copy" /\ UNCHANGED <<job, unheard>>
         /\ Reply(Uploader)' = "start" /\ ~Effective(Uploader)'
      \/ /\ up = "copy" /\ up' = "unstage" /\ UNCHANGED <<job, unheard>> /\ Effective(Uploader)
         /\ Reply(Uploader)' = "start" /\ ~Effective(Uploader)'
      \/ /\ up = "unstage" /\ up' = "over" /\ job' = "accepted" /\ Effective(Uploader)
         /\ unheard' = unheard
         /\ Reply(Uploader) = "ok"
  <2>1. CASE Upload
    <3>0. UNCHANGED <<job, unheard>>
      BY <2>1 DEF Upload
    <3>1. CASE Then("new", "stage", "put", Staging)
      BY <1>0, <1>1, <3>0, <3>1
    <3>2. CASE Then("stage", "fetch", "get", Staging)
      <4>1. /\ up = "stage" /\ up' = "fetch" /\ Reply(Uploader)' = "start"
            /\ ~Effective(Uploader)' /\ ("stage" # "new" => Effective(Uploader))
        BY <1>0, <1>1, <3>2
      <4> QED
        BY <3>0, <4>1
    <3>3. CASE Then("fetch", "copy", "put", Original)
      <4>1. /\ up = "fetch" /\ up' = "copy" /\ Reply(Uploader)' = "start"
            /\ ~Effective(Uploader)' /\ ("fetch" # "new" => Effective(Uploader))
        BY <1>0, <1>1, <3>3
      <4> QED
        BY <3>0, <4>1
    <3>4. CASE Then("copy", "unstage", "delete", Staging)
      <4>1. /\ up = "copy" /\ up' = "unstage" /\ Reply(Uploader)' = "start"
            /\ ~Effective(Uploader)' /\ ("copy" # "new" => Effective(Uploader))
        BY <1>0, <1>1, <3>4
      <4> QED
        BY <3>0, <4>1
    <3> QED
      BY <2>1, <3>1, <3>2, <3>3, <3>4 DEF Upload
  <2>2. CASE CommitRaises \/ CommitUnheard
    <3>1. Then("unstage", "clean", "purge", Original)
      BY <2>2 DEF CommitRaises, CommitUnheard
    <3>2. /\ up = "unstage" /\ up' = "clean" /\ ~Effective(Uploader)'
          /\ ("unstage" # "new" => Effective(Uploader) /\ Reply(Uploader) = "ok")
      BY <1>0, <1>1, <3>1
    <3> QED
      BY <2>2, <3>2 DEF CommitRaises, CommitUnheard
  <2>3. CASE UploadRefused
    BY <2>3 DEF UploadRefused
  <2>4. CASE Commit
    BY <2>4 DEF Commit, Reply, Effective
  <2>5. CASE UploadDies
    BY <2>5 DEF UploadDies
  <2> QED
    BY <2>1, <2>2, <2>3, <2>4, <2>5 DEF Uploads
<1>4. OriginalKept'
  BY <1>0, <1>3 DEF FilesInv, OriginalKept, There
<1>5. PagesKept'
  <2>1. \A a \in Attempts : Effective(a)' = Effective(a)
    BY <1>0, Parties DEF Effective
  <2>2. up = "unstage" => rows = {} /\ \A a \in Attempts : at[a] = "none"
    BY <1>2 DEF CallsFit, JobOrder
  <2> QED
    BY <1>0, <1>3, <2>1, <2>2 DEF FilesInv, PagesKept, There
<1>6. StagingLeft'
  BY <1>0, <1>3 DEF FilesInv, StagingLeft, Bare, Effective, Reply
<1>7. Swept'
  <2>1. CASE UNCHANGED job
    <3>1. call'[Deletion] = call[Deletion]
      BY <1>0
    <3>2. \A f \in Files : ToSweep(f)' = ToSweep(f)
      BY <1>0 DEF ToSweep
    <3> QED
      BY <1>0, <2>1, <3>1, <3>2 DEF FilesInv, Swept, Emptied, Active, Reply
  <2>2. CASE job' = "accepted" /\ job = "none"
    <3>1. deleter' # "purge"
      BY <1>0, <2>2 DEF CallsFit, JobOrder
    <3> QED
      BY <2>2, <3>1 DEF Swept
  <2> QED
    BY <1>2, <1>3, <2>1, <2>2
<1> QED
  BY <1>4, <1>5, <1>6, <1>7

\* An attempt names in a row what it has put, and is active when a deletion begins
\* or leases the item after that.
LEMMA AttemptKeeps ==
  ASSUME IInv, CallsFit, FilesInv, NEW a \in Attempts, Stores(a) \/ Converts(a)
  PROVE  OriginalKept' /\ PagesKept' /\ StagingLeft' /\ Swept'
<1>0. /\ \A d \in Callers \ {a} : call'[d] = call[d]
      /\ UNCHANGED <<file, contended, left, listed, skipped, format, up, job, unheard, deleter>>
      /\ \A b \in Attempts \ {a} : at'[b] = at[b] /\ page'[b] = page[b]
      /\ a \in Callers /\ call'[Uploader] = call[Uploader] /\ call'[Deletion] = call[Deletion]
      /\ at \in [Attempts -> {"none", "load", "store", "row", "convert", "over", "dead"}]
      /\ page \in [Attempts -> 0..MaxPages] /\ AttemptFits(a)
  BY AttemptFrame, Parties DEF IInv, TypeOK, CallsFit
<1>1. OriginalKept' /\ StagingLeft'
  BY <1>0 DEF FilesInv, OriginalKept, StagingLeft, There, Bare, Effective, Reply
<1>2. /\ rows' = rows \/ /\ rows' = rows \union {page[a]}
                         /\ at[a] = "row" \/ (at[a] = "store" /\ Effective(a))
      /\ \/ at'[a] # "store" \/ ~Effective(a)'
         \/ at[a] = "store" /\ call'[a] = call[a] /\ page'[a] = page[a]
      /\ spoilt' = spoilt \/ (spoilt' = (spoilt \/ job = "deleting"))
      /\ \/ Active(a)' => Active(a)
         \/ spoilt' = (spoilt \/ job = "deleting") /\ job # "removed"
  <2>1. ASSUME NEW n \in 1..MaxPages, StorePage(a, n) PROVE ~Effective(a)' /\ at'[a] = "store"
    <3>1. Page(n) \in Keys
      BY KeyNames, RenderingAssumption
    <3> QED
      BY <1>0, <2>1, <3>1, BeginFrame DEF StorePage, Effective, Move
  <2>2. CASE Lease(a)
    BY <1>0, <2>2 DEF Lease, Move
  <2>3. CASE FirstPage(a)
    <3>1. 1 \in 1..MaxPages /\ StorePage(a, 1) /\ at[a] = "load"
      BY <2>3, RenderingAssumption DEF FirstPage
    <3> QED
      BY <2>1, <2>3, <3>1 DEF FirstPage, Active
  <2>4. CASE Insert(a)
    <3>1. /\ rows' = rows \union {page[a]} /\ spoilt' = spoilt /\ Active(a)
          /\ at[a] = "row" \/ (at[a] = "store" /\ Effective(a))
      BY <2>4 DEF Insert, Active, Effective, Reply
    <3>2. CASE page[a] < last /\ format = "pdf"
      <4>1. page[a] + 1 \in 1..MaxPages /\ StorePage(a, page[a] + 1)
        BY <2>4, <3>2, RenderingAssumption DEF Insert, IInv, PageStored, TypeOK
      <4> QED
        BY <2>1, <3>1, <4>1
    <3>3. CASE page[a] < last /\ format # "pdf"
      BY <1>0, <2>4, <3>1, <3>3 DEF Insert, AttemptFits
    <3>4. CASE ~(page[a] < last)
      BY <1>0, <2>4, <3>1, <3>4 DEF Insert, Move
    <3> QED
      BY <3>2, <3>3, <3>4
  <2>5. CASE Raise(a)
    BY <1>0, <2>5 DEF Raise, Move, Active
  <2>6. CASE Die(a)
    BY <1>0, <2>6 DEF Die, Move, Active
  <2>7. CASE Converts(a)
    <3>1. UNCHANGED <<call, rows, spoilt>>
      BY <2>7 DEF Converts, Convert, StartChild, StartWord, WordEnds, Kill, Converted,
                  WaitTimesOut, notConv, storeVars
    <3>2. \/ at'[a] = at[a] /\ page'[a] = page[a]
          \/ at[a] \in {"load", "convert"} /\ at'[a] # "store"
      BY <1>0, <2>7 DEF Converts, Convert, StartChild, StartWord, WordEnds, Kill, Converted,
                        WaitTimesOut, notConv, Move
    <3> QED
      BY <3>1, <3>2 DEF Active
  <2> QED
    BY <2>2, <2>3, <2>4, <2>5, <2>6, <2>7 DEF Stores
<1>3. PagesKept'
  <2> SUFFICES ASSUME job = "accepted", ~unheard, format = "pdf" PROVE PagesKept'
    BY <1>0 DEF PagesKept
  <2>1. \A n \in rows' : There(Page(n))'
    BY <1>0, <1>2 DEF FilesInv, PagesKept, AttemptFits, There
  <2>2. ASSUME NEW b \in Attempts, at'[b] = "store", Effective(b)' PROVE There(Page(page[b]))'
    <3>1. at[b] = "store" /\ call'[b] = call[b] /\ page'[b] = page[b]
      BY <1>0, <1>2, <2>2, Parties
    <3> QED
      BY <1>0, <2>2, <3>1 DEF FilesInv, PagesKept, There, Effective
  <2> QED
    BY <2>1, <2>2 DEF PagesKept
<1>4. Swept'
  <2>1. ~spoilt' => ~spoilt
    BY <1>2
  <2>2. ASSUME job \in {"deleting", "removed"}, ~spoilt', NEW b \in Attempts
        PROVE  ~Active(b)'
    <3>1. ~Active(b)
      BY <2>1, <2>2 DEF FilesInv, Swept
    <3>2. Active(b)' => Active(b)
      BY <1>0, <1>2, <2>2 DEF Active
    <3> QED
      BY <3>1, <3>2
  <2> QED
    BY <1>0, <2>1, <2>2 DEF FilesInv, Swept, Emptied, ToSweep, Reply
<1> QED
  BY <1>1, <1>3, <1>4

\* A deletion that begins overlaps nobody, or is spoilt; one that ends has swept.
LEMMA DeletionKeeps ==
  ASSUME IInv, CallsFit, FilesInv, Deletes
  PROVE  OriginalKept' /\ PagesKept' /\ StagingLeft' /\ Swept'
<1>0. /\ UNCHANGED <<file, contended, format, up, at, page>> /\ Deletion \in Callers
      /\ Original \in Keys
      /\ call'[Uploader] = call[Uploader] /\ job # "none" /\ job' \in {"deleting", "removed"}
      /\ up \in {"over", "clean"}
  BY DeletionFrame, Parties, KeyNames DEF CallsFit, JobOrder
<1>1. OriginalKept' /\ PagesKept' /\ StagingLeft'
  BY <1>0 DEF FilesInv, OriginalKept, PagesKept, StagingLeft, There, Bare
<1>2. CASE BeginDelete
  <2>1. /\ Begin(Deletion, "purge", Original) /\ job' = "deleting"
        /\ spoilt' = (spoilt \/ \E a \in Attempts : Active(a))
    BY <1>2 DEF BeginDelete
  <2>2. Reply(Deletion)' = "start"
    BY <1>0, <2>1, BeginFrame DEF Reply
  <2>3. ~spoilt' => \A a \in Attempts : ~Active(a)'
    BY <1>0, <2>1 DEF Active
  <2> QED
    BY <1>1, <2>1, <2>2, <2>3 DEF Swept
<1>3. CASE FinishDelete
  <2>1. /\ deleter = "purge" /\ Reply(Deletion) \in {"ok", "raised"} /\ deleter' = "idle"
        /\ UNCHANGED <<skipped, spoilt>>
    BY <1>3 DEF FinishDelete, storeVars
  <2>2. job = "deleting"
    BY <2>1 DEF CallsFit, JobOrder
  <2>3. ~spoilt /\ Deletion \notin skipped => Emptied
    BY <2>1 DEF FilesInv, Swept
  <2> QED
    BY <1>0, <1>1, <2>1, <2>2, <2>3 DEF FilesInv, Swept, Emptied, Active
<1>4. CASE DeletionDies
  <2>1. deleter = "purge" /\ deleter' = "idle" /\ UNCHANGED <<job, spoilt>>
    BY <1>4 DEF DeletionDies, notDeletion
  <2>2. job = "deleting"
    BY <2>1 DEF CallsFit, JobOrder
  <2> QED
    BY <1>0, <1>1, <2>1, <2>2 DEF FilesInv, Swept, Active
<1> QED
  BY <1>1, <1>2, <1>3, <1>4 DEF Deletes

\* All steps together.
LEMMA FilesStep == IInv /\ CallsFit /\ FilesInv /\ [Next]_vars => FilesInv'
<1> SUFFICES ASSUME IInv, CallsFit, FilesInv, [Next]_vars PROVE FilesInv'
  OBVIOUS
<1>1. Halves' /\ InDirs' /\ ListedByOne'
  BY StoreSays DEF FilesInv, OriginalKept
<1>2. ASSUME NEW c \in Callers, Works(c)
      PROVE  OriginalKept' /\ PagesKept' /\ StagingLeft' /\ Swept'
  BY <1>1, <1>2, OriginalWorks, PagesWorks, StagingWorks, SweptWorks DEF FilesInv
<1>3. UNCHANGED vars => OriginalKept' /\ PagesKept' /\ StagingLeft' /\ Swept'
  BY DEF vars, storeVars, jobVars, fileVars, attemptVars, FilesInv, OriginalKept, PagesKept,
         StagingLeft, Swept, There, Bare, Effective, Reply, Emptied, ToSweep, Active
<1> QED
  BY <1>1, <1>2, <1>3, Steps, UploadKeeps, AttemptKeeps, DeletionKeeps DEF FilesInv

\* What is asked of the store, and what is there for it, from the start.
THEOREM FilesInvariance == Spec => [](IInv /\ CallsFit /\ FilesInv)
<1>1. Init => CallsFit /\ FilesInv
  <2> SUFFICES ASSUME Init PROVE CallsFit /\ FilesInv
    OBVIOUS
  <2>1. /\ \A c \in Callers : call[c].at = "idle" /\ call[c].op = "none"
        /\ \A f \in Files : file[f] = Absent
        /\ (\A c \in Callers : listed[c] = {}) /\ contended = {}
        /\ up = "new" /\ job = "none" /\ ~unheard /\ deleter = "idle" /\ rows = {}
        /\ \A a \in Attempts : at[a] = "none"
    BY DEF Init, StoreInit
  <2>2. CallsFit
    BY <2>1, Parties
       DEF CallsFit, UploadFits, DeletionFits, AttemptFits, JobOrder, Running, Done
  <2>3. FilesInv
    BY <2>1 DEF FilesInv, OriginalKept, PagesKept, StagingLeft, Swept, Halves, InDirs, ListedByOne
  <2> QED
    BY <2>2, <2>3
<1>2. IInv /\ CallsFit /\ FilesInv /\ [Next]_vars => CallsFit' /\ FilesInv'
  BY FitStep, FilesStep
<1> QED
  BY <1>1, <1>2, Invariance, PTL DEF Spec

\* The original of an accepted job is whole, and so is the image each page row
\* names, unless a call failed or a process died, or an attempt that overlapped
\* another is still writing it.  A job whose COMMIT was applied unheard is not among
\* them: compare may be deleting its files, or have deleted them.
THEOREM RowsNamed == Spec => []RowsNameObjects
<1>1. IInv /\ CallsFit /\ FilesInv => RowsNameObjects
  <2> SUFFICES ASSUME IInv, CallsFit, FilesInv, job = "accepted", ~unheard
               PROVE  RowsNameObjects
    BY DEF RowsNameObjects
  <2>1. Object(Original) = "whole"
    <3>1. Original \in Keys \ contended /\ There(Original)
      BY KeyNames DEF FilesInv, OriginalKept
    <3>2. file[<<Original, "data">>] = Whole
      BY <3>1 DEF IInv, StoreInv, Objects, There
    <3> QED
      BY <3>2, Contents DEF Object
  <2>2. ASSUME format = "pdf", NEW n \in rows
        PROVE  \/ Object(Page(n)) = "whole"
               \/ /\ Object(Page(n)) = "torn"
                  /\ \/ faults > 0
                     \/ \E a \in Attempts : call[a].fd = <<Page(n), "data">>
    <3> DEFINE f == <<Page(n), "data">>
    <3>1. Page(n) \in Keys /\ f \in Files /\ file[f] # Absent /\ f # NoFile
      BY <2>2, KeyNames, FileKinds DEF FilesInv, PagesKept, There, IInv, TypeOK
    <3>2. CASE file[f] = Whole
      BY <3>2, Contents DEF Object
    <3>3. CASE file[f] # Whole /\ faults = 0
      <4>1. PICK c \in Callers : call[c].fd = f
        BY <3>1, <3>3 DEF FilesInv, Halves, Writes
      <4>2. call[c].at = "write" /\ call[c].op = "put" /\ call[c].key = Page(n)
        <5>1. call[c].at = "write" /\ call[c].key \in Keys
          BY <3>1, <4>1 DEF IInv, StoreInv, StoreTypeOK, Call, Handles
        <5>2. f = <<call[c].key, "tmp">> \/ f = <<call[c].key, "data">>
          BY <3>1, <4>1 DEF IInv, StoreInv, Handles, File
        <5>3. call[c].key = Page(n)
          BY <3>1, <5>1, <5>2, FilesDiffer
        <5> QED
          BY <5>1, <5>3 DEF IInv, StoreInv, OnItsWay, InPlace
      <4>3. c \in Attempts
        BY <4>2, WhoCalls, KeysDiffer DEF Running, Done
      <4> QED
        BY <3>1, <3>3, <4>1, <4>3 DEF Object
    <3>4. CASE file[f] # Whole /\ faults # 0
      <4>1. faults > 0
        BY <3>4, StoreAssumption DEF IInv, StoreInv, StoreTypeOK
      <4> QED
        BY <3>1, <3>4, <4>1 DEF Object
    <3> QED
      BY <3>2, <3>3, <3>4
  <2> QED
    BY <2>1, <2>2 DEF RowsNameObjects
<1> QED
  BY <1>1, FilesInvariance, PTL

\* Nothing stays in staging once the job is committed, and nothing of a removed job
\* stays anywhere, .tmp and .meta files included, unless an attempt overlapped the
\* deletion or that failed.
THEOREM LeftoversCaused == Spec => []LeftoversHaveCause
<1>1. CallsFit /\ FilesInv => LeftoversHaveCause
  <2> SUFFICES ASSUME FilesInv PROVE LeftoversHaveCause
    OBVIOUS
  <2>1. ASSUME job # "none", NEW f \in Files, DirOf(f) = "staging" PROVE file[f] = Absent
    <3>1. f[1] \in Keys /\ f[2] \in Suffixes /\ f = <<f[1], f[2]>>
      BY FileNames
    <3>2. f[1] = Staging
      BY <2>1, <3>1 DEF DirOf, Keys, Staging, Original, Page
    <3> QED
      BY <2>1, <3>1, <3>2 DEF FilesInv, StagingLeft, Bare, Suffixes
  <2>2. job = "removed" /\ ~spoilt /\ Deletion \notin skipped => Emptied
    BY DEF FilesInv, Swept
  <2> QED
    BY <2>1, <2>2 DEF LeftoversHaveCause, Emptied
<1> QED
  BY <1>1, FilesInvariance, PTL
=============================================================================
