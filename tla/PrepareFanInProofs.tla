------------------------- MODULE PrepareFanInProofs -------------------------
(***************************************************************************)
(* Proofs about PrepareFanIn, for every set of jobs and workers and every  *)
(* page count.  What a worker remembers between two statements is compared *)
(* with the rows as they are now; rows only ever grow until the job is     *)
(* removed, and a removed job never returns.                               *)
(***************************************************************************)
EXTENDS PrepareFanIn, FiniteSetTheorems, TLAPS

\* A worker inside an attempt holds a row; one about to fail a job knows which.
Busy ==
  \A w \in Workers :
    /\ pc[w] \in Trying \union {"retry"} => held[w] \in Tasks
    /\ pc[w] = "fail" => failing[w] \in Tasks

Typed == TypeOK /\ Busy

\* The theorems about WorkItems, for the rows of this system.
RowFacts == INSTANCE WorkItemsProofs WITH Items <- Tasks, NoItem <- NoTask

USE MaxAttemptsAssumption, MaxFaultsAssumption, NoTaskAssumption,
    PageCountAssumption, ImagesAssumption

-----------------------------------------------------------------------------
\* The job and the side a worker's row stands for.
LEMMA HeldParts ==
  ASSUME NEW w \in Workers, held[w] \in Tasks
  PROVE  /\ JobOf(w) \in Jobs
         /\ SideOf(w) \in Sides
         /\ held[w] = <<JobOf(w), SideOf(w)>>
BY DEF Tasks, JobOf, SideOf

\* The status a statement or a transition writes is a status.
LEMMA StatusWritten ==
  ASSUME NEW s \in Status
  PROVE  /\ RequeuedStatus(s) \in Status
         /\ FailedStatus(s) \in Status
         /\ CancelledStatus(s) \in Status
         /\ DeletedStatus(s) \in Status
BY DEF Status, Terminal, NonTerminal, RequeuedStatus, FailedStatus,
   CancelledStatus, DeletedStatus

\* "none" and "removed" are no statuses.
LEMMA AbsentNoStatus == "none" \notin Status /\ "removed" \notin Status
BY DEF Status, Terminal, NonTerminal

-----------------------------------------------------------------------------
\* What every step of the system does to the work items: a step of WorkItems
\* or none.
LEMMA RowStep == Busy /\ [Next]_vars => [Rows!Next]_rowVars
<1> SUFFICES ASSUME Busy, [Next]_vars PROVE [Rows!Next]_rowVars
  OBVIOUS
<1>1. ASSUME NEW j \in Jobs, Accept(j) \/ FinishDelete(j) PROVE Rows!Next
  <2>1. {j} \X Sides \in SUBSET Tasks
    BY DEF Tasks
  <2> QED
    BY <1>1, <2>1 DEF Accept, FinishDelete, Rows!Next
<1>2. ASSUME NEW w \in Workers, NEW t \in Tasks, Lease(w, t) PROVE Rows!Next
  BY <1>2 DEF Lease, Rows!Next
<1>3. ASSUME NEW w \in Workers, Complete(w) \/ Retry(w) PROVE Rows!Next
  <2>1. held[w] \in Tasks
    BY <1>3 DEF Busy, Trying, Complete, Retry
  <2> QED
    BY <1>3, <2>1 DEF Complete, Retry, Rows!Next
<1>4. ASSUME NEW w \in Workers, LogAttempt(w) \/ Die(w) \/ Restart(w) PROVE Rows!Next
  BY <1>4 DEF LogAttempt, Die, Restart, Rows!Next
<1>5. ASSUME NEW t \in Tasks, BackOff(t) \/ Lapse(t) PROVE Rows!Next
  BY <1>5 DEF BackOff, Lapse, Rows!Next
<1>6. ASSUME NEW w \in Workers,
             \/ NoneLeasable(w) \/ Load(w) \/ PutImage(w) \/ InsertPage(w)
             \/ Check(w) \/ ReadPages(w)
             \/ EnqueueOcr(w) \/ Raise(w) \/ FailJob(w)
      PROVE  UNCHANGED rowVars
  BY <1>6 DEF NoneLeasable, Load, PutImage, InsertPage, Check, ReadPages, EnqueueOcr,
     Raise, FailJob, Restart
<1>7. ASSUME NEW j \in Jobs, NEW s \in Status,
             \/ Cancel(j) \/ BeginDelete(j) \/ PurgeObjects(j) \/ AbandonDelete(j)
             \/ Process(j, s)
      PROVE  UNCHANGED rowVars
  BY <1>7 DEF Cancel, BeginDelete, PurgeObjects, AbandonDelete, Process
<1>8. CASE UNCHANGED vars
  BY <1>8 DEF vars
<1>9. CASE \E w \in Workers : WorkerStep(w) \/ Die(w) \/ Restart(w)
  BY <1>2, <1>3, <1>4, <1>6, <1>9 DEF WorkerStep
<1>10. CASE \E t \in Tasks : BackOff(t) \/ Lapse(t)
  BY <1>5, <1>10
<1>11. CASE \E j \in Jobs :
              \/ Accept(j) \/ Cancel(j) \/ BeginDelete(j) \/ PurgeObjects(j)
              \/ FinishDelete(j) \/ AbandonDelete(j)
              \/ \E s \in Status : Process(j, s)
  <2> PICK j \in Jobs :
              \/ Accept(j) \/ Cancel(j) \/ BeginDelete(j) \/ PurgeObjects(j)
              \/ FinishDelete(j) \/ AbandonDelete(j)
              \/ \E s \in Status : Process(j, s)
    BY <1>11
  <2>1. "queued" \in Status
    BY DEF Status, NonTerminal
  <2> QED
    BY <1>1, <1>7, <2>1
<1> QED
  BY <1>8, <1>9, <1>10, <1>11 DEF Next

\* The step of WorkItems, read through either instance.
LEMMA SameStep == [Rows!Next]_rowVars => [RowFacts!Next]_(RowFacts!vars)
<1>1. UNCHANGED rowVars => UNCHANGED RowFacts!vars
  BY DEF rowVars, RowFacts!vars
<1>2. ASSUME NEW S \in SUBSET Tasks
      PROVE  /\ Rows!Create(S) => RowFacts!Create(S)
             /\ Rows!Drop(S) => RowFacts!Drop(S)
  BY DEF Rows!Create, RowFacts!Create, Rows!Drop, RowFacts!Drop, Rows!Exists,
     RowFacts!Exists
<1>3. ASSUME NEW w \in Workers, NEW t \in Tasks
      PROVE  Rows!Fenced(w, t) <=> RowFacts!Fenced(w, t)
  BY DEF Rows!Fenced, RowFacts!Fenced, Rows!Exists, RowFacts!Exists
<1>4. ASSUME NEW w \in Workers, NEW t \in Tasks
      PROVE  /\ Rows!Lease(w, t) => RowFacts!Lease(w, t)
             /\ Rows!Complete(w, t) => RowFacts!Complete(w, t)
             /\ Rows!Retry(w, t) => RowFacts!Retry(w, t)
  <2>1. Rows!Lease(w, t) => RowFacts!Lease(w, t)
    BY DEF Rows!Lease, RowFacts!Lease, Rows!Leasable, RowFacts!Leasable
  <2>2. Rows!Complete(w, t) => RowFacts!Complete(w, t)
    BY <1>3 DEF Rows!Complete, RowFacts!Complete
  <2>3. Rows!Retry(w, t) => RowFacts!Retry(w, t)
    BY <1>3 DEF Rows!Retry, RowFacts!Retry, Rows!LetGo, RowFacts!LetGo,
       Rows!RetryState, RowFacts!RetryState
  <2> QED
    BY <2>1, <2>2, <2>3
<1>5. ASSUME NEW w \in Workers
      PROVE  /\ Rows!LogAttempt(w) => RowFacts!LogAttempt(w)
             /\ Rows!Die(w) => RowFacts!Die(w)
  BY DEF Rows!LogAttempt, RowFacts!LogAttempt, Rows!Die, RowFacts!Die,
     Rows!LetGo, RowFacts!LetGo
<1>6. ASSUME NEW t \in Tasks PROVE Rows!Lapse(t) => RowFacts!Lapse(t)
  BY <1>3 DEF Rows!Lapse, RowFacts!Lapse
<1>7. ASSUME NEW t \in Tasks PROVE Rows!BackOff(t) => RowFacts!BackOff(t)
  BY DEF Rows!BackOff, RowFacts!BackOff
<1>8. ASSUME NEW w \in Workers PROVE Rows!Restart(w) => RowFacts!Restart(w)
  BY DEF Rows!Restart, RowFacts!Restart
<1> QED
  BY <1>1, <1>2, <1>4, <1>5, <1>6, <1>7, <1>8 DEF Rows!Next, RowFacts!Next

\* Hence the rows keep their types.
LEMMA RowTypes == Rows!TypeOK /\ [Rows!Next]_rowVars => Rows!TypeOK'
<1>1. Rows!TypeOK <=> RowFacts!TypeOK
  BY DEF Rows!TypeOK, RowFacts!TypeOK, Rows!ItemState, RowFacts!ItemState
<1>2. Rows!TypeOK' <=> RowFacts!TypeOK'
  BY DEF Rows!TypeOK, RowFacts!TypeOK, Rows!ItemState, RowFacts!ItemState
<1> QED
  BY <1>1, <1>2, SameStep, RowFacts!TypeStep

-----------------------------------------------------------------------------
\* Every step keeps the types, and a worker inside an attempt holding its row.
LEMMA TypedStep == Typed /\ [Next]_vars => Typed'
<1> SUFFICES ASSUME Typed, [Next]_vars PROVE Typed'
  OBVIOUS
<1>0. Rows!TypeOK'
  BY RowStep, RowTypes DEF Typed, TypeOK
<1> USE <1>0, StatusWritten, AbsentNoStatus DEF Typed, Busy, Trying
<1>1. ASSUME NEW j \in Jobs, Accept(j) PROVE Typed'
  <2>1. "preparing" \in Status
    BY DEF Status, NonTerminal
  <2> QED
    BY <1>1, <2>1 DEF TypeOK, Accept, Rows!Create, ocrVars, workerVars
<1>2. ASSUME NEW w \in Workers, NEW t \in Tasks, Lease(w, t) PROVE Typed'
  <2>1. TypeOK'
    BY <1>2 DEF TypeOK, Lease, Goto, jobVars, pageVars, ocrVars
  <2>2. held' = [held EXCEPT ![w] = t] /\ held \in [Workers -> Tasks \union {NoTask}]
    BY <1>2 DEF Lease, Rows!Lease, TypeOK, Rows!TypeOK
  <2>3. Busy'
    BY <1>2, <2>2 DEF TypeOK, Lease, Goto
  <2> QED
    BY <2>1, <2>3
<1>3. ASSUME NEW w \in Workers, Load(w) PROVE Typed'
  BY <1>3 DEF TypeOK, NoneLeasable, Load, StoreFirst, Goto, rowVars, jobVars, pageVars,
     ocrVars
<1>4. ASSUME NEW w \in Workers, PutImage(w) PROVE Typed'
  <2>1. held[w] \in Tasks
    BY <1>4 DEF PutImage
  <2>2. images' \in [Jobs -> SUBSET (Sides \X Nat)]
    BY <1>4, <2>1, HeldParts DEF TypeOK, PutImage
  <2>3. TypeOK'
    BY <1>4, <2>2 DEF TypeOK, PutImage, Goto, jobVars, ocrVars
  <2>4. Busy'
    BY <1>4, <2>1 DEF TypeOK, PutImage, Goto, rowVars
  <2> QED
    BY <2>3, <2>4
<1>5. ASSUME NEW w \in Workers, InsertPage(w) PROVE Typed'
  <2>1. held[w] \in Tasks
    BY <1>5 DEF InsertPage
  <2>2. RowsAfter(w) \in Nat
    BY <2>1, HeldParts DEF RowsAfter, Larger, TypeOK
  <2>3. pages' \in [Jobs -> [Sides -> Nat]]
    BY <1>5, <2>1, <2>2, HeldParts DEF TypeOK, InsertPage
  <2>4. \E l \in {"put", "insert", "check"}, n \in Nat :
          pc' = [pc EXCEPT ![w] = l] /\ done' = [done EXCEPT ![w] = n]
    <3>1. CASE LastPage(w)
      BY <1>5, <3>1 DEF InsertPage, Goto
    <3>2. CASE ~LastPage(w)
      <4>1. StoreFirst(w) \in {"put", "insert", "check"} /\ done[w] + 1 \in Nat
        BY DEF StoreFirst, TypeOK
      <4>2. /\ pc' = [pc EXCEPT ![w] = StoreFirst(w)]
            /\ done' = [done EXCEPT ![w] = done[w] + 1]
        BY <1>5, <3>2 DEF InsertPage, Goto
      <4> QED
        BY <4>1, <4>2
    <3> QED
      BY <3>1, <3>2
  <2>5. PICK l \in {"put", "insert", "check"}, n \in Nat :
          pc' = [pc EXCEPT ![w] = l] /\ done' = [done EXCEPT ![w] = n]
    BY <2>4
  <2>6. TypeOK'
    <3>1. /\ pc' \in [Workers -> Trying \union {"idle", "pdf", "retry", "fail"}]
          /\ done' \in [Workers -> Nat]
      BY <2>5 DEF TypeOK
    <3> QED
      BY <1>5, <2>3, <3>1 DEF TypeOK, InsertPage, jobVars, ocrVars
  <2>7. Busy'
    BY <1>5, <2>1, <2>5 DEF TypeOK, InsertPage, rowVars
  <2> QED
    BY <2>6, <2>7
<1>6. ASSUME NEW w \in Workers, Check(w) PROVE Typed'
  <2>1. held[w] \in Tasks
    BY <1>6 DEF Check
  <2>2. Larger(pages[JobOf(w)][1], pages[JobOf(w)][2]) \in Nat
    BY <2>1, HeldParts DEF Larger, TypeOK, Sides
  <2>3. /\ total' \in [Workers -> Nat]
        /\ \E l \in {"read", "complete"} : pc' = [pc EXCEPT ![w] = l]
    BY <1>6, <2>2 DEF TypeOK, Check, Goto
  <2>4. TypeOK'
    <3>1. pc' \in [Workers -> Trying \union {"idle", "pdf", "retry", "fail"}]
      BY <2>3 DEF TypeOK
    <3> QED
      BY <1>6, <2>3, <3>1 DEF TypeOK, Check, jobVars, pageVars, ocrVars
  <2>5. Busy'
    BY <1>6, <2>1, <2>3 DEF TypeOK, Check, rowVars
  <2> QED
    BY <2>4, <2>5
<1>7. ASSUME NEW w \in Workers, ReadPages(w) PROVE Typed'
  <2>1. held[w] \in Tasks
    BY <1>7 DEF ReadPages
  <2> QED
    BY <1>7, <2>1, HeldParts DEF TypeOK, ReadPages, Goto, rowVars, jobVars, pageVars,
       ocrVars
<1>8. ASSUME NEW w \in Workers, EnqueueOcr(w) PROVE Typed'
  <2>1. held[w] \in Tasks /\ JobOf(w) \in Jobs
    BY <1>8, HeldParts DEF EnqueueOcr
  <2>2. Larger(ocr[JobOf(w)], total[w]) \in Nat
    BY <2>1 DEF Larger, TypeOK
  <2>3. [total |-> total[w], refs |-> refs[w]] \in Batch
    BY DEF Batch, TypeOK
  <2>4. NoPages \in [Sides -> Nat]
    BY DEF NoPages
  <2> QED
    BY <1>8, <2>1, <2>2, <2>3, <2>4 DEF TypeOK, EnqueueOcr, InDb, Forget, Goto, rowVars,
       pageVars
<1>9. ASSUME NEW w \in Workers, Complete(w) PROVE Typed'
  BY <1>9 DEF TypeOK, Complete, Rows!Complete, Goto, jobVars, pageVars, ocrVars
<1>10. ASSUME NEW w \in Workers, LogAttempt(w) PROVE Typed'
  BY <1>10 DEF TypeOK, LogAttempt, Rows!LogAttempt, Rows!LetGo, Rows!TypeOK, Goto,
     jobVars, pageVars, ocrVars
<1>11. ASSUME NEW w \in Workers, Raise(w) PROVE Typed'
  <2>1. NoPages \in [Sides -> Nat]
    BY DEF NoPages
  <2> QED
    BY <1>11, <2>1 DEF TypeOK, Raise, Forget, Goto, rowVars, jobVars, pageVars, ocrVars
<1>12. ASSUME NEW w \in Workers, Retry(w) PROVE Typed'
  <2>1. held[w] \in Tasks
    BY <1>12 DEF Retry
  <2>2. held' = [held EXCEPT ![w] = NoTask]
    BY <1>12 DEF Retry, Rows!Retry, Rows!LetGo
  <2>3. held \in [Workers -> Tasks \union {NoTask}]
    BY DEF TypeOK, Rows!TypeOK
  <2>4. \/ pc' = [pc EXCEPT ![w] = "idle"] /\ failing' = failing
        \/ pc' = [pc EXCEPT ![w] = "fail"] /\ failing' = [failing EXCEPT ![w] = held[w]]
    BY <1>12 DEF Retry, Goto
  <2>5. TypeOK'
    BY <1>12, <2>1, <2>4 DEF TypeOK, Retry, jobVars, pageVars, ocrVars
  <2>6. Busy'
    BY <2>1, <2>2, <2>3, <2>4 DEF TypeOK
  <2> QED
    BY <2>5, <2>6
<1>13. ASSUME NEW w \in Workers, FailJob(w) PROVE Typed'
  <2>1. failing[w][1] \in Jobs
    BY <1>13 DEF FailJob, Tasks
  <2>2. /\ job' \in [Jobs -> Status \union {"none", "removed"}]
        /\ blamed' \in [Jobs -> BOOLEAN]
    <3>1. CASE InDb(failing[w][1])
      <4>1. FailedStatus(job[failing[w][1]]) \in Status
        BY <3>1 DEF InDb
      <4>2. /\ job' = [job EXCEPT ![failing[w][1]] = FailedStatus(job[failing[w][1]])]
            /\ blamed' = [blamed EXCEPT ![failing[w][1]] = TRUE]
        BY <1>13, <3>1 DEF FailJob
      <4> QED
        BY <2>1, <4>1, <4>2 DEF TypeOK
    <3>2. CASE ~InDb(failing[w][1])
      BY <1>13, <3>2 DEF TypeOK, FailJob, jobVars
    <3> QED
      BY <3>1, <3>2
  <2> QED
    BY <1>13, <2>2 DEF TypeOK, FailJob, Goto, rowVars, pageVars, ocrVars
<1>14. ASSUME NEW w \in Workers, Die(w) PROVE Typed'
  <2>1. NoPages \in [Sides -> Nat]
    BY DEF NoPages
  <2> QED
    BY <1>14, <2>1 DEF TypeOK, Die, Rows!Die, Rows!LetGo, Rows!TypeOK, Forget, Goto,
       jobVars, pageVars, ocrVars
<1>15. ASSUME NEW w \in Workers, Restart(w) PROVE Typed'
  BY <1>15 DEF TypeOK, Restart, Rows!Restart, jobVars, pageVars, ocrVars, workerVars
<1>24. ASSUME NEW w \in Workers, NoneLeasable(w) PROVE Typed'
  <2>1. \E l \in {"idle", "pdf"} : pc' = [pc EXCEPT ![w] = l]
    BY <1>24 DEF NoneLeasable, Goto
  <2>2. TypeOK'
    BY <1>24, <2>1 DEF TypeOK, NoneLeasable, jobVars, pageVars, ocrVars
  <2> QED
    BY <1>24, <2>1, <2>2 DEF TypeOK, NoneLeasable, rowVars
<1>16. ASSUME NEW t \in Tasks, BackOff(t) \/ Lapse(t) PROVE Typed'
  BY <1>16 DEF TypeOK, BackOff, Lapse, Rows!BackOff, Rows!Lapse, jobVars, pageVars,
     ocrVars, workerVars
<1>17. ASSUME NEW j \in Jobs, Cancel(j) \/ BeginDelete(j) PROVE Typed'
  <2>1. CASE Cancel(j)
    BY <1>17, <2>1 DEF TypeOK, Cancel, InDb, rowVars, pageVars, ocrVars, workerVars
  <2>2. CASE BeginDelete(j)
    BY <1>17, <2>2 DEF TypeOK, BeginDelete, InDb, rowVars, pageVars, ocrVars, workerVars
  <2> QED
    BY <1>17, <2>1, <2>2
<1>18. ASSUME NEW j \in Jobs, PurgeObjects(j) \/ AbandonDelete(j) PROVE Typed'
  BY <1>18 DEF TypeOK, PurgeObjects, AbandonDelete, rowVars, jobVars, pageVars, ocrVars,
     workerVars
<1>19. ASSUME NEW j \in Jobs, FinishDelete(j) PROVE Typed'
  <2>1. NoPages \in [Sides -> Nat]
    BY DEF NoPages
  <2> QED
    BY <1>19, <2>1 DEF TypeOK, FinishDelete, Rows!Drop, workerVars
<1>20. ASSUME NEW j \in Jobs, NEW s \in Status, Process(j, s) PROVE Typed'
  BY <1>20 DEF TypeOK, Process, rowVars, pageVars, ocrVars, workerVars
<1>21. CASE UNCHANGED vars
  BY <1>21 DEF TypeOK, vars, rowVars, jobVars, pageVars, ocrVars, workerVars
<1> HIDE DEF Typed, Busy, Trying
<1>22. CASE \E w \in Workers : WorkerStep(w) \/ Die(w) \/ Restart(w)
  BY <1>2, <1>3, <1>4, <1>5, <1>6, <1>7, <1>8, <1>9, <1>10, <1>11, <1>12, <1>13,
     <1>14, <1>15, <1>22, <1>24 DEF WorkerStep
<1>23. CASE \E j \in Jobs :
              \/ Accept(j) \/ Cancel(j) \/ BeginDelete(j) \/ PurgeObjects(j)
              \/ FinishDelete(j) \/ AbandonDelete(j)
              \/ \E s \in Status : Process(j, s)
  BY <1>1, <1>17, <1>18, <1>19, <1>20, <1>23
<1> QED
  BY <1>16, <1>21, <1>22, <1>23 DEF Next

\* The variables keep their types in every reachable state, and a worker whose
\* statement names its row (held[w] in _run) has one.
THEOREM Invariance == Spec => []Typed
<1>1. Init => Typed
  BY AbsentNoStatus DEF Init, Rows!Init, Typed, TypeOK, Rows!TypeOK, Rows!ItemState, Busy,
     Trying, NoPages
<1> QED
  BY <1>1, TypedStep, PTL DEF Spec

\* The variables keep their types in every reachable state.
THEOREM TypeCorrect == Spec => []TypeOK
  BY Invariance, PTL DEF Typed

-----------------------------------------------------------------------------
\* The system implements WorkItems: leases, completions and retries happen in it
\* only the way WorkItems allows (PrepareWorker calls the repository and nothing
\* else).
THEOREM RowsImplemented == Spec => Rows!Spec
<1>1. Init => Rows!Init
  BY DEF Init
<1>2. Typed /\ [Next]_vars => [Rows!Next]_(Rows!vars)
  BY RowStep DEF Typed, rowVars, Rows!vars
<1> QED
  BY <1>1, <1>2, Invariance, PTL DEF Spec, Rows!Spec

\* The rows satisfy what was proved about WorkItems.
RowInvariant == RowFacts!IInv /\ RowFacts!LossExplained

\* Hence the invariant of the leases holds of the prepare rows.
LEMMA RowsInvariant == Spec => []RowInvariant
<1>1. Rows!Init => RowFacts!Init
  BY DEF Rows!Init, RowFacts!Init
<1>2. [Rows!Next]_(Rows!vars) => [RowFacts!Next]_(RowFacts!vars)
  BY SameStep DEF rowVars, Rows!vars
<1>3. Rows!Spec => RowFacts!Spec
  BY <1>1, <1>2, PTL DEF Rows!Spec, RowFacts!Spec
<1> QED
  BY RowsImplemented, <1>3, RowFacts!Invariance, RowFacts!LossHasCause, PTL
     DEF RowInvariant

\* So at most one worker's token passes the fence of a prepare row, whatever
\* else happens to the job (the WHERE clause of complete and retry_work_item).
THEOREM RowsExclusive == Spec => []Rows!LeaseExclusive
<1>1. RowInvariant => Rows!LeaseExclusive
  BY DEF RowInvariant, RowFacts!IInv, Rows!LeaseExclusive, RowFacts!LeaseExclusive,
     Rows!Fenced, RowFacts!Fenced, Rows!Exists, RowFacts!Exists
<1> QED
  BY RowsInvariant, <1>1, PTL

-----------------------------------------------------------------------------
\* What w remembers, when some other process takes the step.
LocalsKept(w) ==
  /\ pc'[w] = pc[w] /\ held'[w] = held[w]
  /\ done'[w] = done[w] /\ total'[w] = total[w] /\ refs'[w] = refs[w]
  /\ failing'[w] = failing[w]

\* Only a worker's own steps touch what it remembers.
LEMMA Bystanders ==
  Typed /\ [Next]_vars =>
    \A v \in Workers : WorkerStep(v) \/ Die(v) \/ LocalsKept(v)
<1> SUFFICES ASSUME Typed, [Next]_vars, NEW v \in Workers
             PROVE  WorkerStep(v) \/ Die(v) \/ LocalsKept(v)
  OBVIOUS
<1> USE DEF Typed, TypeOK, Rows!TypeOK
<1>1. ASSUME NEW w \in Workers, w # v, WorkerStep(w) PROVE LocalsKept(v)
  <2>1. ASSUME NEW t \in Tasks, Lease(w, t) PROVE LocalsKept(v)
    BY <1>1, <2>1 DEF Lease, Rows!Lease, Goto, LocalsKept
  <2>2. CASE NoneLeasable(w) \/ Load(w) \/ PutImage(w) \/ Check(w) \/ ReadPages(w)
    BY <1>1, <2>2 DEF NoneLeasable, Load, PutImage, Check, ReadPages, Goto, rowVars,
       LocalsKept
  <2>3. CASE InsertPage(w)
    BY <1>1, <2>3 DEF InsertPage, Goto, rowVars, LocalsKept
  <2>4. CASE EnqueueOcr(w) \/ Raise(w)
    BY <1>1, <2>4 DEF EnqueueOcr, Raise, Forget, Goto, rowVars, LocalsKept
  <2>5. CASE Complete(w) \/ LogAttempt(w)
    BY <1>1, <2>5 DEF Complete, LogAttempt, Rows!Complete, Rows!LogAttempt, Rows!LetGo,
       Goto, LocalsKept
  <2>6. CASE Retry(w) \/ FailJob(w)
    BY <1>1, <2>6 DEF Retry, FailJob, Rows!Retry, Rows!LetGo, Goto, rowVars, LocalsKept
  <2> QED
    BY <1>1, <2>1, <2>2, <2>3, <2>4, <2>5, <2>6 DEF WorkerStep
<1>2. ASSUME NEW w \in Workers, (w # v /\ Die(w)) \/ Restart(w) PROVE LocalsKept(v)
  BY <1>2 DEF Die, Restart, Rows!Die, Rows!Restart, Rows!LetGo, Forget, Goto, rowVars,
     workerVars, LocalsKept
<1>3. ASSUME NEW t \in Tasks, BackOff(t) \/ Lapse(t) PROVE LocalsKept(v)
  BY <1>3 DEF BackOff, Lapse, Rows!BackOff, Rows!Lapse, workerVars, LocalsKept
<1>4. ASSUME NEW j \in Jobs, Accept(j) \/ FinishDelete(j) PROVE LocalsKept(v)
  BY <1>4 DEF Accept, FinishDelete, Rows!Create, Rows!Drop, workerVars, LocalsKept
<1>5. ASSUME NEW j \in Jobs, NEW s \in Status,
             \/ Cancel(j) \/ BeginDelete(j) \/ PurgeObjects(j) \/ AbandonDelete(j)
             \/ Process(j, s)
      PROVE  LocalsKept(v)
  BY <1>5 DEF Cancel, BeginDelete, PurgeObjects, AbandonDelete, Process, rowVars,
     workerVars, LocalsKept
<1>6. CASE UNCHANGED vars
  BY <1>6 DEF vars, rowVars, workerVars, LocalsKept
<1> HIDE DEF Typed, TypeOK, Rows!TypeOK
<1>7. "queued" \in Status
  BY DEF Status, NonTerminal
<1>8. CASE \E w \in Workers : WorkerStep(w) \/ Die(w) \/ Restart(w)
  BY <1>1, <1>2, <1>8
<1>9. CASE \E j \in Jobs :
              \/ Accept(j) \/ Cancel(j) \/ BeginDelete(j) \/ PurgeObjects(j)
              \/ FinishDelete(j) \/ AbandonDelete(j)
              \/ \E s \in Status : Process(j, s)
  BY <1>4, <1>5, <1>7, <1>9
<1> QED
  BY <1>3, <1>6, <1>8, <1>9 DEF Next

\* The steps that leave jobs, objects, pages and delete requests alone.
Elsewhere(w) ==
  \/ NoneLeasable(w) \/ Load(w) \/ Check(w) \/ ReadPages(w) \/ Complete(w)
  \/ LogAttempt(w) \/ Raise(w) \/ Retry(w) \/ Die(w) \/ Restart(w)

\* A removed job never returns; until then its pages only grow, and until a
\* delete request so do its images (_insert_page upserts, finish_delete cascades).
LEMMA OnlyGrowth ==
  Typed /\ [Next]_vars =>
    \A j \in Jobs :
      /\ job[j] = "removed" => job'[j] = "removed"
      /\ job'[j] # "removed" \/ del'[j] = "none" =>
           \A s \in Sides : pages[j][s] <= pages'[j][s]
      /\ del'[j] = "none" => del[j] = "none" /\ images[j] \subseteq images'[j]
<1> DEFINE Growth(j) ==
      /\ job[j] = "removed" => job'[j] = "removed"
      /\ job'[j] # "removed" \/ del'[j] = "none" =>
           \A s \in Sides : pages[j][s] <= pages'[j][s]
      /\ del'[j] = "none" => del[j] = "none" /\ images[j] \subseteq images'[j]
<1> SUFFICES ASSUME Typed, [Next]_vars, NEW j \in Jobs PROVE Growth(j)
  OBVIOUS
<1>0. \A s \in Sides : pages[j][s] \in Nat /\ pages[j][s] <= pages[j][s]
  BY DEF Typed, TypeOK
<1> USE <1>0, AbsentNoStatus DEF Typed, TypeOK
<1>1. ASSUME NEW w \in Workers,
             Elsewhere(w) \/ \E t \in Tasks : Lease(w, t)
      PROVE  Growth(j)
  BY <1>1 DEF Elsewhere, Lease, NoneLeasable, Load, Check, ReadPages, Complete,
     LogAttempt, Raise, Retry, Die, Restart, jobVars, pageVars
<1>2. ASSUME NEW w \in Workers, PutImage(w) PROVE Growth(j)
  BY <1>2 DEF PutImage, jobVars
<1>3. ASSUME NEW w \in Workers, InsertPage(w) PROVE Growth(j)
  <2>1. JobOf(w) \in Jobs /\ SideOf(w) \in Sides
    BY <1>3, HeldParts DEF InsertPage, Busy, Trying
  <2>2. RowsAfter(w) \in Nat /\ pages[JobOf(w)][SideOf(w)] <= RowsAfter(w)
    BY <2>1 DEF RowsAfter, Larger
  <2> QED
    BY <1>3, <2>1, <2>2 DEF InsertPage, jobVars
<1>4. ASSUME NEW w \in Workers, EnqueueOcr(w) \/ FailJob(w) PROVE Growth(j)
  <2>1. \A i \in Jobs : job[i] = "removed" => ~InDb(i)
    BY DEF InDb
  <2>2. CASE EnqueueOcr(w)
    BY <1>4, <2>1, <2>2 DEF EnqueueOcr, pageVars
  <2>3. CASE FailJob(w)
    BY <1>4, <2>1, <2>3 DEF FailJob, jobVars, pageVars
  <2> QED
    BY <1>4, <2>2, <2>3
<1>5. ASSUME NEW i \in Jobs, NEW s \in Status,
             Accept(i) \/ Cancel(i) \/ Process(i, s) \/ AbandonDelete(i)
      PROVE  Growth(j)
  BY <1>5 DEF Accept, Cancel, Process, AbandonDelete, InDb, jobVars, pageVars
<1>6. ASSUME NEW i \in Jobs, BeginDelete(i) PROVE Growth(j)
  BY <1>6 DEF BeginDelete, InDb, pageVars
<1>7. ASSUME NEW i \in Jobs, PurgeObjects(i) PROVE Growth(j)
  BY <1>7 DEF PurgeObjects, jobVars
<1>8. ASSUME NEW i \in Jobs, FinishDelete(i) PROVE Growth(j)
  BY <1>8 DEF FinishDelete
<1>9. CASE UNCHANGED vars
  BY <1>9 DEF vars, jobVars, pageVars
<1> HIDE DEF Typed, TypeOK, Growth
<1>10. CASE \E w \in Workers : WorkerStep(w) \/ Die(w) \/ Restart(w)
  BY <1>1, <1>2, <1>3, <1>4, <1>10 DEF WorkerStep, Elsewhere
<1>11. CASE \E i \in Jobs :
              \/ Accept(i) \/ Cancel(i) \/ BeginDelete(i) \/ PurgeObjects(i)
              \/ FinishDelete(i) \/ AbandonDelete(i)
              \/ \E s \in Status : Process(i, s)
  <2>1. "queued" \in Status
    BY DEF Status, NonTerminal
  <2> QED
    BY <1>5, <1>6, <1>7, <1>8, <1>11, <2>1
<1>12. CASE \E t \in Tasks : BackOff(t) \/ Lapse(t)
  BY <1>12 DEF BackOff, Lapse, jobVars, pageVars, Growth
<1> QED
  BY <1>9, <1>10, <1>11, <1>12 DEF Next

\* Appending an element adds it to the elements.
LEMMA RangeOfAppend ==
  ASSUME NEW S, NEW q \in Seq(S), NEW e \in S
  PROVE  Range(Append(q, e)) = Range(q) \union {e}
<1> DEFINE a == Append(q, e)
           n == Len(q)
<1>1. n \in Nat /\ DOMAIN q = 1..n /\ DOMAIN a = 1..(n + 1)
  OBVIOUS
<1>2. a[n + 1] = e /\ \A i \in 1..n : a[i] = q[i]
  OBVIOUS
<1>3. ASSUME NEW x \in Range(a) PROVE x \in Range(q) \union {e}
  <2>1. PICK i \in 1..(n + 1) : x = a[i]
    BY <1>1, <1>3 DEF Range
  <2> QED
    BY <1>1, <1>2, <2>1 DEF Range
<1>4. ASSUME NEW x \in Range(q) \union {e} PROVE x \in Range(a)
  <2>1. CASE x = e
    BY <1>1, <1>2, <2>1 DEF Range
  <2>2. CASE x \in Range(q)
    <3>1. PICK i \in 1..n : x = q[i]
      BY <1>1, <2>2 DEF Range
    <3> QED
      BY <1>1, <1>2, <3>1 DEF Range
  <2> QED
    BY <1>4, <2>1, <2>2
<1> QED
  BY <1>3, <1>4

\* What a step adds to a job's commands: the batch of one worker.
BatchOf(w) == [total |-> total[w], refs |-> refs[w]]

\* Only a worker at its batch issues commands.
LEMMA OnlyEnqueues ==
  Typed /\ [Next]_vars /\ commands' # commands => \E w \in Workers : EnqueueOcr(w)
<1> SUFFICES ASSUME Typed, [Next]_vars, commands' # commands
             PROVE  \E w \in Workers : EnqueueOcr(w)
  OBVIOUS
<1>1. ASSUME NEW w \in Workers,
             \/ Elsewhere(w) \/ (\E t \in Tasks : Lease(w, t)) \/ PutImage(w)
             \/ InsertPage(w) \/ FailJob(w)
      PROVE  FALSE
  BY <1>1 DEF Elsewhere, Lease, NoneLeasable, Load, PutImage, InsertPage, Check,
     ReadPages, Complete, LogAttempt, Raise, Retry, FailJob, Die, Restart, ocrVars
<1>2. ASSUME NEW i \in Jobs, NEW s \in Status,
             \/ Accept(i) \/ Cancel(i) \/ BeginDelete(i) \/ PurgeObjects(i)
             \/ FinishDelete(i) \/ AbandonDelete(i) \/ Process(i, s)
      PROVE  FALSE
  BY <1>2 DEF Accept, Cancel, BeginDelete, PurgeObjects, FinishDelete,
     AbandonDelete, Process, ocrVars
<1>3. ASSUME NEW t \in Tasks, BackOff(t) \/ Lapse(t) PROVE FALSE
  BY <1>3 DEF BackOff, Lapse, ocrVars
<1>4. ~UNCHANGED vars
  BY DEF vars, ocrVars
<1>5. "queued" \in Status
  BY DEF Status, NonTerminal
<1> QED
  BY <1>1, <1>2, <1>3, <1>4, <1>5 DEF Next, WorkerStep, Elsewhere

\* So what is new among them is its batch.
LEMMA OnlyBatches ==
  Typed /\ [Next]_vars =>
    \A j \in Jobs : \A b \in Range(commands'[j]) :
      \/ b \in Range(commands[j])
      \/ \E w \in Workers : EnqueueOcr(w) /\ JobOf(w) = j /\ b = BatchOf(w)
<1> SUFFICES ASSUME Typed, [Next]_vars,
                    NEW j \in Jobs, NEW b \in Range(commands'[j]),
                    b \notin Range(commands[j])
             PROVE  \E w \in Workers : EnqueueOcr(w) /\ JobOf(w) = j /\ b = BatchOf(w)
  OBVIOUS
<1>1. commands' # commands
  OBVIOUS
<1>2. PICK w \in Workers : EnqueueOcr(w)
  BY <1>1, OnlyEnqueues
<1>3. /\ JobOf(w) \in Jobs
      /\ commands' = [commands EXCEPT ![JobOf(w)] = Append(commands[JobOf(w)], BatchOf(w))]
  BY <1>2, HeldParts DEF EnqueueOcr, BatchOf, Typed, Busy, Trying
<1>4. BatchOf(w) \in Batch /\ commands[JobOf(w)] \in Seq(Batch)
  BY <1>3 DEF BatchOf, Batch, Typed, TypeOK
<1>5. JobOf(w) = j
  BY <1>3 DEF Typed, TypeOK
<1>6. Range(commands'[j]) = Range(commands[j]) \union {BatchOf(w)}
  BY <1>3, <1>4, <1>5, RangeOfAppend DEF Typed, TypeOK
<1> QED
  BY <1>2, <1>5, <1>6

-----------------------------------------------------------------------------
\* The statements spare a finished status, each in its own way.
LEMMA FinishedSpared ==
  ASSUME NEW s \in {"completed", "failed", "cancelled"}
  PROVE  /\ RequeuedStatus(s) = s
         /\ FailedStatus(s) = s
         /\ CancelledStatus(s) = s
         /\ DeletedStatus(s) = "deleting"
         /\ \A t \in Status : CanTransition(s, t) => t = "deleting"
BY DEF RequeuedStatus, FailedStatus, CancelledStatus, DeletedStatus, Terminal,
   CanTransition, AllowedTransitions

\* No late write revives or relabels a finished job: _maybe_enqueue_ocr,
\* _fail_job, request_cancel and transition_job leave it alone.
THEOREM FinishedFinal == Spec => FinishedStaysFinished
<1> DEFINE Kept(j) ==
      job[j] \in {"completed", "failed", "cancelled"} /\ job'[j] # job[j]
        => job'[j] \in {"deleting", "removed"}
<1>1. Typed /\ [Next]_vars => \A j \in Jobs : Kept(j)
  <2> SUFFICES ASSUME Typed, [Next]_vars,
                      NEW j \in Jobs, job[j] \in {"completed", "failed", "cancelled"}
               PROVE  job'[j] = job[j] \/ job'[j] \in {"deleting", "removed"}
    OBVIOUS
  <2> DEFINE Fine == job'[j] = job[j] \/ job'[j] \in {"deleting", "removed"}
  <2> USE DEF Typed, TypeOK
  <2>1. ASSUME NEW w \in Workers,
               \/ Elsewhere(w) \/ (\E t \in Tasks : Lease(w, t)) \/ PutImage(w)
               \/ InsertPage(w)
        PROVE  Fine
    BY <2>1 DEF Elsewhere, Lease, NoneLeasable, Load, PutImage, InsertPage, Check,
       ReadPages, Complete, LogAttempt, Raise, Retry, Die, Restart, jobVars
  <2>2. ASSUME NEW w \in Workers, EnqueueOcr(w) PROVE Fine
    BY <2>2, FinishedSpared DEF EnqueueOcr
  <2>3. ASSUME NEW w \in Workers, FailJob(w) PROVE Fine
    BY <2>3, FinishedSpared DEF FailJob, jobVars
  <2>4. ASSUME NEW i \in Jobs, Accept(i) PROVE Fine
    BY <2>4 DEF Accept
  <2>5. ASSUME NEW i \in Jobs, Cancel(i) \/ BeginDelete(i) \/ FinishDelete(i)
        PROVE  Fine
    BY <2>5, FinishedSpared DEF Cancel, BeginDelete, FinishDelete
  <2>6. ASSUME NEW i \in Jobs, PurgeObjects(i) \/ AbandonDelete(i) PROVE Fine
    BY <2>6 DEF PurgeObjects, AbandonDelete, jobVars
  <2>7. ASSUME NEW i \in Jobs, NEW s \in Status, Process(i, s) PROVE Fine
    BY <2>7, FinishedSpared DEF Process
  <2>8. CASE UNCHANGED vars
    BY <2>8 DEF vars, jobVars
  <2>9. CASE \E t \in Tasks : BackOff(t) \/ Lapse(t)
    BY <2>9 DEF BackOff, Lapse, jobVars
  <2> HIDE DEF Typed, TypeOK
  <2>10. CASE \E w \in Workers : WorkerStep(w) \/ Die(w) \/ Restart(w)
    BY <2>1, <2>2, <2>3, <2>10 DEF WorkerStep, Elsewhere
  <2>11. CASE \E i \in Jobs :
                \/ Accept(i) \/ Cancel(i) \/ BeginDelete(i) \/ PurgeObjects(i)
                \/ FinishDelete(i) \/ AbandonDelete(i)
                \/ \E s \in Status : Process(i, s)
    BY <2>4, <2>5, <2>6, <2>7, <2>11
  <2> QED
    BY <2>8, <2>9, <2>10, <2>11 DEF Next
<1>2. Typed /\ [Next]_vars =>
        [\A j \in Jobs :
           job[j] \in {"completed", "failed", "cancelled"} /\ job'[j] # job[j]
             => job'[j] \in {"deleting", "removed"}]_vars
  BY <1>1
<1> QED
  BY <1>2, Invariance, PTL DEF Spec, FinishedStaysFinished

-----------------------------------------------------------------------------
\* What _maybe_enqueue_ocr counted is behind the pages it reads, and what it
\* writes behind the pages it has read, as long as the job is there.
CountsBehind ==
  \A w \in Workers : job[JobOf(w)] # "removed" =>
    /\ pc[w] = "read" =>
         total[w] <= Larger(pages[JobOf(w)][1], pages[JobOf(w)][2])
    /\ pc[w] = "enqueue" => total[w] <= Larger(refs[w][1], refs[w][2])

\* The same of the batches it has written.
BatchesCovered ==
  \A j \in Jobs : \A b \in Range(commands[j]) : b.total <= Larger(b.refs[1], b.refs[2])

\* Counts stay behind: pages grow between the two queries, or the job is gone
\* and the foreign key stops the write.
LEMMA CountsStep ==
  Typed /\ CountsBehind /\ BatchesCovered /\ [Next]_vars => CountsBehind' /\ BatchesCovered'
<1> SUFFICES ASSUME Typed, CountsBehind, BatchesCovered, [Next]_vars
             PROVE  CountsBehind' /\ BatchesCovered'
  OBVIOUS
<1>1. CountsBehind'
  <2> DEFINE Behind(v) ==
        job[JobOf(v)] # "removed" =>
          /\ pc[v] = "read" =>
               total[v] <= Larger(pages[JobOf(v)][1], pages[JobOf(v)][2])
          /\ pc[v] = "enqueue" => total[v] <= Larger(refs[v][1], refs[v][2])
  <2> SUFFICES ASSUME NEW v \in Workers, pc'[v] \in {"read", "enqueue"},
                      job'[JobOf(v)'] # "removed"
               PROVE  Behind(v)'
    BY DEF CountsBehind
  <2>0. Typed' /\ Behind(v)
    BY TypedStep DEF CountsBehind
  <2>1. CASE LocalsKept(v)
    <3>1. pc[v] \in {"read", "enqueue"} /\ held[v] \in Tasks /\ JobOf(v)' = JobOf(v)
      BY <2>1 DEF LocalsKept, Typed, Busy, Trying, JobOf
    <3>2. JobOf(v) \in Jobs
      BY <3>1, HeldParts
    <3>3. \A s \in Sides : pages[JobOf(v)][s] <= pages'[JobOf(v)][s]
      BY <3>1, <3>2, OnlyGrowth
    <3>4. /\ \A s \in Sides : pages[JobOf(v)][s] \in Nat /\ pages'[JobOf(v)][s] \in Nat
          /\ total[v] \in Nat
      BY <3>2, <2>0 DEF Typed, TypeOK
    <3>5. /\ Larger(pages[JobOf(v)][1], pages[JobOf(v)][2])
               <= Larger(pages'[JobOf(v)][1], pages'[JobOf(v)][2])
          /\ Larger(pages[JobOf(v)][1], pages[JobOf(v)][2]) \in Nat
          /\ Larger(pages'[JobOf(v)][1], pages'[JobOf(v)][2]) \in Nat
      BY <3>3, <3>4 DEF Larger, Sides
    <3>6. job[JobOf(v)] # "removed"
      BY <3>1, <3>2, OnlyGrowth
    <3> QED
      BY <2>0, <2>1, <3>1, <3>4, <3>5, <3>6 DEF LocalsKept
  <2>2. CASE Check(v)
    <3>1. JobOf(v) \in Jobs /\ JobOf(v)' = JobOf(v) /\ pages' = pages
      BY <2>2, HeldParts DEF Check, rowVars, pageVars, JobOf, Typed, Busy, Trying
    <3>2. pc'[v] = "read" /\ total'[v] = Larger(pages[JobOf(v)][1], pages[JobOf(v)][2])
      BY <2>2 DEF Check, Goto, Typed, TypeOK
    <3>3. Larger(pages[JobOf(v)][1], pages[JobOf(v)][2]) \in Nat
      BY <3>1 DEF Larger, Sides, Typed, TypeOK
    <3> QED
      BY <3>1, <3>2, <3>3
  <2>3. CASE ReadPages(v)
    <3>1. pc[v] = "read" /\ held[v] \in Tasks /\ job' = job /\ JobOf(v)' = JobOf(v)
      BY <2>3 DEF ReadPages, Typed, Busy, Trying, rowVars, jobVars, JobOf
    <3>2. pc'[v] = "enqueue" /\ total' = total /\ refs'[v] = pages[JobOf(v)]
      BY <2>3 DEF ReadPages, Goto, Typed, TypeOK
    <3> QED
      BY <2>0, <3>1, <3>2
  <2>4. CASE ~LocalsKept(v) /\ ~Check(v) /\ ~ReadPages(v)
    <3>1. WorkerStep(v) \/ Die(v)
      BY <2>4, Bystanders
    <3>2. pc'[v] \notin {"read", "enqueue"}
      BY <2>4, <3>1 DEF WorkerStep, Lease, NoneLeasable, Load, StoreFirst, PutImage,
         InsertPage, EnqueueOcr, Complete, LogAttempt, Raise, Retry, FailJob, Die, Goto,
         Typed, TypeOK
    <3> QED
      BY <3>2
  <2> QED
    BY <2>1, <2>2, <2>3, <2>4
<1>2. BatchesCovered'
  <2> SUFFICES ASSUME NEW j \in Jobs, NEW b \in Range(commands'[j])
               PROVE  b.total <= Larger(b.refs[1], b.refs[2])
    BY DEF BatchesCovered
  <2>1. CASE b \in Range(commands[j])
    BY <2>1 DEF BatchesCovered
  <2>2. ASSUME NEW w \in Workers, EnqueueOcr(w), JobOf(w) = j, b = BatchOf(w)
        PROVE  b.total <= Larger(b.refs[1], b.refs[2])
    <3>1. pc[w] = "enqueue" /\ job[JobOf(w)] # "removed"
      BY <2>2, AbsentNoStatus DEF EnqueueOcr, InDb
    <3>2. total[w] <= Larger(refs[w][1], refs[w][2])
      BY <3>1 DEF CountsBehind
    <3> QED
      BY <2>2, <3>2 DEF BatchOf
  <2> QED
    BY <2>1, <2>2, OnlyBatches
<1> QED
  BY <1>1, <1>2

\* Every command of a batch names a page of one side at least
\* (NoEmptyCommand, on the three queries of _maybe_enqueue_ocr).
THEOREM NoneEmpty == Spec => []NoEmptyCommand
<1>1. Init => CountsBehind /\ BatchesCovered
  BY DEF Init, CountsBehind, BatchesCovered, Range
<1>2. Typed /\ BatchesCovered => NoEmptyCommand
  <2> SUFFICES ASSUME Typed, BatchesCovered, NEW j \in Jobs, NEW b \in Range(commands[j]),
                      NEW k \in 1..b.total
               PROVE  \E s \in Sides : k <= b.refs[s]
    BY DEF NoEmptyCommand
  <2>1. commands[j] \in Seq(Batch)
    BY DEF Typed, TypeOK
  <2>2. b \in Batch
    BY <2>1 DEF Range
  <2>3. b.total \in Nat /\ b.refs[1] \in Nat /\ b.refs[2] \in Nat
    BY <2>2 DEF Batch, Sides
  <2>4. b.total <= Larger(b.refs[1], b.refs[2])
    BY DEF BatchesCovered
  <2> QED
    BY <2>3, <2>4 DEF Larger, Sides
<1> QED
  BY <1>1, <1>2, Invariance, CountsStep, PTL DEF Spec

-----------------------------------------------------------------------------
\* Only storing counts pages: a new attempt starts from the first one.
DoneReset == \A w \in Workers : pc[w] \notin {"put", "insert"} => done[w] = 0

\* The steps of a worker keep DoneReset.
LEMMA DoneStep == Typed /\ DoneReset /\ [Next]_vars => DoneReset'
<1> SUFFICES ASSUME Typed, DoneReset, [Next]_vars, NEW v \in Workers
             PROVE  pc'[v] \notin {"put", "insert"} => done'[v] = 0
  BY DEF DoneReset
<1> USE DEF Typed, TypeOK, DoneReset
<1>1. CASE LocalsKept(v)
  BY <1>1 DEF LocalsKept
<1>2. CASE InsertPage(v)
  BY <1>2 DEF InsertPage, StoreFirst, Goto
<1>3. CASE \/ NoneLeasable(v) \/ Load(v) \/ Check(v) \/ ReadPages(v) \/ Complete(v)
           \/ LogAttempt(v) \/ Retry(v) \/ FailJob(v) \/ \E t \in Tasks : Lease(v, t)
  <2>1. pc[v] \notin {"put", "insert"} /\ done' = done
    BY <1>3 DEF Lease, NoneLeasable, Load, Check, ReadPages, Complete, LogAttempt, Retry,
       FailJob, Query
  <2> QED
    BY <2>1
<1>4. CASE EnqueueOcr(v) \/ Raise(v) \/ Die(v)
  BY <1>4 DEF EnqueueOcr, Raise, Die, Forget
<1>5. CASE PutImage(v)
  BY <1>5 DEF PutImage, Goto
<1> QED
  BY <1>1, <1>2, <1>3, <1>4, <1>5, Bystanders DEF WorkerStep

-----------------------------------------------------------------------------
\* Until a delete request: an image is in the object store before its row, a row
\* before the row after it, and what a worker read or wrote behind the rows.
ImagesFirst ==
  \A j \in Jobs : del[j] = "none" =>
    \A s \in Images : \A k \in 1..pages[j][s] : <<s, k>> \in images[j]

RowsInOrder ==
  \A w \in Workers : del[JobOf(w)] = "none" =>
    /\ pc[w] \in {"put", "insert"} => done[w] <= pages[JobOf(w)][SideOf(w)]
    /\ pc[w] = "insert" /\ SideOf(w) \in Images =>
         <<SideOf(w), done[w] + 1>> \in images[JobOf(w)]
    /\ pc[w] = "enqueue" => \A s \in Sides : refs[w][s] <= pages[JobOf(w)][s]

RefsBehind ==
  \A j \in Jobs : del[j] = "none" =>
    \A b \in Range(commands[j]), s \in Sides : b.refs[s] <= pages[j][s]

Stored == ImagesFirst /\ RowsInOrder /\ RefsBehind

\* What a worker remembers stays behind the rows, whoever takes the step.
LEMMA RowsInOrderStep ==
  Typed /\ DoneReset /\ Stored /\ [Next]_vars => RowsInOrder'
<1> DEFINE InOrder(v) ==
      del[JobOf(v)] = "none" =>
        /\ pc[v] \in {"put", "insert"} => done[v] <= pages[JobOf(v)][SideOf(v)]
        /\ pc[v] = "insert" /\ SideOf(v) \in Images =>
             <<SideOf(v), done[v] + 1>> \in images[JobOf(v)]
        /\ pc[v] = "enqueue" => \A s \in Sides : refs[v][s] <= pages[JobOf(v)][s]
<1> SUFFICES ASSUME Typed, DoneReset, Stored, [Next]_vars, NEW v \in Workers,
                    pc'[v] \in {"put", "insert", "enqueue"}, del'[JobOf(v)'] = "none"
             PROVE  InOrder(v)'
  BY DEF RowsInOrder
<1>0. Typed' /\ InOrder(v)
  BY TypedStep DEF Stored, RowsInOrder
<1>1. held'[v] \in Tasks
  BY <1>0 DEF Typed, Busy, Trying
<1>2. CASE held'[v] = held[v]
  <2>1. /\ JobOf(v) \in Jobs /\ SideOf(v) \in Sides
        /\ JobOf(v)' = JobOf(v) /\ SideOf(v)' = SideOf(v)
    BY <1>1, <1>2, HeldParts DEF JobOf, SideOf
  <2>2. /\ del[JobOf(v)] = "none"
        /\ images[JobOf(v)] \subseteq images'[JobOf(v)]
        /\ \A s \in Sides : pages[JobOf(v)][s] <= pages'[JobOf(v)][s]
    BY <2>1, OnlyGrowth
  <2>3. /\ \A s \in Sides : pages[JobOf(v)][s] \in Nat /\ pages'[JobOf(v)][s] \in Nat
        /\ done[v] \in Nat
        /\ \A s \in Sides : refs[v][s] \in Nat
    <3>1. pages \in [Jobs -> [Sides -> Nat]] /\ pages' \in [Jobs -> [Sides -> Nat]]
      BY <1>0 DEF Typed, TypeOK
    <3>2. done[v] \in Nat /\ refs[v] \in [Sides -> Nat]
      BY DEF Typed, TypeOK
    <3> QED
      BY <2>1, <3>1, <3>2
  <2>4. CASE LocalsKept(v)
    BY <1>0, <2>1, <2>2, <2>3, <2>4 DEF LocalsKept
  <2>5. CASE Load(v)
    <3>1. done[v] = 0 /\ done' = done /\ pages' = pages
      BY <2>5 DEF Load, DoneReset, pageVars
    <3>2. pc'[v] = "put" \/ (pc'[v] = "insert" /\ SideOf(v) \notin Images)
      BY <2>5 DEF Load, StoreFirst, Goto, Typed, TypeOK
    <3> QED
      BY <2>1, <2>3, <3>1, <3>2
  <2>6. CASE PutImage(v)
    <3>1. pc[v] = "put" /\ pc'[v] = "insert" /\ done' = done /\ pages' = pages
      BY <2>6 DEF PutImage, Goto, Typed, TypeOK
    <3>2. <<SideOf(v), done[v] + 1>> \in images'[JobOf(v)]
      BY <2>1, <2>6 DEF PutImage, Typed, TypeOK
    <3> QED
      BY <1>0, <2>1, <2>2, <3>1, <3>2
  <2>7. CASE InsertPage(v)
    <3>1. ~LastPage(v) /\ done'[v] = done[v] + 1 /\ pc'[v] = StoreFirst(v)
      BY <2>7 DEF InsertPage, Goto, Typed, TypeOK
    <3>2. pc'[v] = "put" \/ (pc'[v] = "insert" /\ SideOf(v) \notin Images)
      BY <3>1 DEF StoreFirst
    <3>3. pages'[JobOf(v)][SideOf(v)] = RowsAfter(v)
      BY <2>1, <2>7 DEF InsertPage, Typed, TypeOK
    <3>4. done'[v] <= pages'[JobOf(v)][SideOf(v)]
      BY <2>1, <2>3, <3>1, <3>3 DEF RowsAfter, Larger
    <3> QED
      BY <2>1, <3>2, <3>4
  <2>8. CASE ReadPages(v)
    <3>1. pc'[v] = "enqueue" /\ refs'[v] = pages[JobOf(v)] /\ pages' = pages
      BY <2>8 DEF ReadPages, Goto, pageVars, Typed, TypeOK
    <3> QED
      BY <2>1, <2>3, <3>1
  <2>9. CASE ~LocalsKept(v) /\ ~Load(v) /\ ~PutImage(v) /\ ~InsertPage(v) /\ ~ReadPages(v)
    <3>1. WorkerStep(v) \/ Die(v)
      BY <2>9, Bystanders
    <3>2. pc'[v] \notin {"put", "insert", "enqueue"}
      BY <2>9, <3>1 DEF WorkerStep, Lease, NoneLeasable, Check, EnqueueOcr, Complete,
         LogAttempt, Raise, Retry, FailJob, Die, Goto, Typed, TypeOK
    <3> QED
      BY <3>2
  <2> QED
    BY <2>4, <2>5, <2>6, <2>7, <2>8, <2>9
<1>3. CASE held'[v] # held[v]
  <2>1. ~LocalsKept(v) /\ (WorkerStep(v) \/ Die(v))
    BY <1>3, Bystanders DEF LocalsKept
  <2>2. \/ \E t \in Tasks : Lease(v, t)
        \/ LogAttempt(v) \/ Retry(v) \/ Die(v)
    BY <1>3, <2>1 DEF WorkerStep, NoneLeasable, Load, PutImage, InsertPage, Check,
       ReadPages, EnqueueOcr, Complete, Rows!Complete, Raise, FailJob, rowVars
  <2>3. pc'[v] \notin {"put", "insert", "enqueue"}
    BY <2>2 DEF Lease, LogAttempt, Retry, Die, Goto, Typed, TypeOK
  <2> QED
    BY <2>3
<1> QED
  BY <1>2, <1>3

\* A side's rows change by an insert of one of its workers, or with the job.
LEMMA OnlyInserts ==
  Typed /\ [Next]_vars =>
    \A j \in Jobs, s \in Sides :
      \/ pages'[j][s] = pages[j][s]
      \/ job'[j] = "removed" /\ del'[j] # "none" /\ pages'[j] = NoPages
      \/ \E w \in Workers : InsertPage(w) /\ JobOf(w) = j /\ SideOf(w) = s
<1> SUFFICES ASSUME Typed, [Next]_vars, NEW j \in Jobs, NEW s \in Sides,
                    pages'[j][s] # pages[j][s]
             PROVE  \/ job'[j] = "removed" /\ del'[j] # "none" /\ pages'[j] = NoPages
                    \/ \E w \in Workers : InsertPage(w) /\ JobOf(w) = j /\ SideOf(w) = s
  OBVIOUS
<1>1. ASSUME NEW w \in Workers,
             \/ Elsewhere(w) \/ (\E t \in Tasks : Lease(w, t)) \/ PutImage(w)
             \/ EnqueueOcr(w) \/ FailJob(w)
      PROVE  FALSE
  BY <1>1 DEF Elsewhere, Lease, NoneLeasable, Load, PutImage, Check, ReadPages,
     EnqueueOcr, Complete, LogAttempt, Raise, Retry, FailJob, Die, Restart, pageVars
<1>2. ASSUME NEW i \in Jobs, NEW x \in Status,
             \/ Accept(i) \/ Cancel(i) \/ BeginDelete(i) \/ PurgeObjects(i)
             \/ AbandonDelete(i) \/ Process(i, x)
      PROVE  FALSE
  BY <1>2 DEF Accept, Cancel, BeginDelete, PurgeObjects, AbandonDelete, Process, pageVars
<1>3. ASSUME NEW i \in Jobs, FinishDelete(i)
      PROVE  job'[j] = "removed" /\ del'[j] # "none" /\ pages'[j] = NoPages
  BY <1>3 DEF FinishDelete, Typed, TypeOK
<1>4. ASSUME NEW w \in Workers, InsertPage(w) PROVE JobOf(w) = j /\ SideOf(w) = s
  <2>1. JobOf(w) \in Jobs /\ SideOf(w) \in Sides
    BY <1>4, HeldParts DEF InsertPage, Typed, Busy, Trying
  <2> QED
    BY <1>4, <2>1 DEF InsertPage, Typed, TypeOK
<1>5. ~UNCHANGED vars /\ ~\E t \in Tasks : BackOff(t) \/ Lapse(t)
  BY DEF vars, BackOff, Lapse, pageVars
<1>6. "queued" \in Status
  BY DEF Status, NonTerminal
<1>7. CASE \E w \in Workers : WorkerStep(w) \/ Die(w) \/ Restart(w)
  BY <1>1, <1>4, <1>7 DEF WorkerStep, Elsewhere
<1>8. CASE \E i \in Jobs :
              \/ Accept(i) \/ Cancel(i) \/ BeginDelete(i) \/ PurgeObjects(i)
              \/ FinishDelete(i) \/ AbandonDelete(i)
              \/ \E x \in Status : Process(i, x)
  BY <1>2, <1>3, <1>6, <1>8
<1> QED
  BY <1>5, <1>7, <1>8 DEF Next

\* The inductive step.
LEMMA StoredStep == Typed /\ DoneReset /\ Stored /\ [Next]_vars => Stored'
<1> SUFFICES ASSUME Typed, DoneReset, Stored, [Next]_vars PROVE Stored'
  OBVIOUS
<1>1. RowsInOrder'
  BY RowsInOrderStep
<1>2. ImagesFirst'
  <2> SUFFICES ASSUME NEW j \in Jobs, del'[j] = "none",
                      NEW s \in Images, NEW k \in 1..pages'[j][s]
               PROVE  <<s, k>> \in images'[j]
    BY DEF ImagesFirst
  <2>1. del[j] = "none" /\ images[j] \subseteq images'[j] /\ s \in Sides
    BY OnlyGrowth
  <2>2. CASE k <= pages[j][s]
    BY <2>1, <2>2 DEF Stored, ImagesFirst, Typed, TypeOK
  <2>3. CASE k > pages[j][s]
    <3>1. pages'[j][s] # pages[j][s]
      BY <2>1, <2>3 DEF Typed, TypeOK
    <3>2. PICK w \in Workers : InsertPage(w) /\ JobOf(w) = j /\ SideOf(w) = s
      BY <2>1, <3>1, OnlyInserts
    <3>3. pages'[j][s] = RowsAfter(w)
      BY <2>1, <3>2 DEF InsertPage, Typed, TypeOK
    <3>4. /\ done[w] <= pages[j][s]
          /\ <<s, done[w] + 1>> \in images[j]
      BY <2>1, <3>2 DEF Stored, RowsInOrder, InsertPage
    <3>5. pages[j][s] \in Nat /\ done[w] \in Nat
      BY <2>1 DEF Typed, TypeOK
    <3>6. k = done[w] + 1
      BY <2>3, <3>2, <3>3, <3>4, <3>5 DEF RowsAfter, Larger
    <3> QED
      BY <2>1, <3>4, <3>6
  <2>4. pages[j][s] \in Nat
    BY <2>1 DEF Typed, TypeOK
  <2> QED
    BY <2>2, <2>3, <2>4
<1>3. RefsBehind'
  <2> SUFFICES ASSUME NEW j \in Jobs, del'[j] = "none",
                      NEW b \in Range(commands'[j]), NEW s \in Sides
               PROVE  b.refs[s] <= pages'[j][s]
    BY DEF RefsBehind
  <2>1. del[j] = "none" /\ pages[j][s] <= pages'[j][s]
    BY OnlyGrowth
  <2>2. b.refs[s] <= pages[j][s] /\ b.refs[s] \in Nat
    <3>1. CASE b \in Range(commands[j])
      <4>1. commands[j] \in Seq(Batch)
        BY DEF Typed, TypeOK
      <4>2. b \in Batch
        BY <3>1, <4>1 DEF Range
      <4> QED
        BY <2>1, <3>1, <4>2 DEF Stored, RefsBehind, Batch
    <3>2. ASSUME NEW w \in Workers, EnqueueOcr(w), JobOf(w) = j, b = BatchOf(w)
          PROVE  b.refs[s] <= pages[j][s] /\ b.refs[s] \in Nat
      <4>1. refs[w] \in [Sides -> Nat] /\ b.refs = refs[w]
        BY <3>2 DEF BatchOf, Typed, TypeOK
      <4>2. pc[w] = "enqueue" /\ del[JobOf(w)] = "none"
        BY <2>1, <3>2 DEF EnqueueOcr
      <4> QED
        BY <3>2, <4>1, <4>2 DEF Stored, RowsInOrder
    <3> QED
      BY <3>1, <3>2, OnlyBatches
  <2>3. pages[j][s] \in Nat /\ pages'[j][s] \in Nat
    BY TypedStep DEF Typed, TypeOK
  <2> QED
    BY <2>1, <2>2, <2>3
<1> QED
  BY <1>1, <1>2, <1>3 DEF Stored

\* Until the user deletes the job, every page image a command refers to is in the
\* object store (_store_image_pages puts it, then _insert_page commits the row
\* that _maybe_enqueue_ocr turns into an input reference).
THEOREM References == Spec => []RefsResolve
<1>1. Init => DoneReset /\ Stored
  BY DEF Init, DoneReset, Stored, ImagesFirst, RowsInOrder, RefsBehind, NoPages, Range
<1>2. Typed /\ Stored => RefsResolve
  <2> SUFFICES ASSUME Typed, Stored, NEW j \in Jobs, del[j] = "none",
                      NEW b \in Range(commands[j]), NEW s \in Images, NEW k \in 1..b.refs[s]
               PROVE  <<s, k>> \in images[j]
    BY DEF RefsResolve
  <2>1. commands[j] \in Seq(Batch)
    BY DEF Typed, TypeOK
  <2>2. b \in Batch /\ s \in Sides
    BY <2>1 DEF Range
  <2>3. b.refs[s] \in Nat /\ pages[j][s] \in Nat
    BY <2>2 DEF Batch, Typed, TypeOK
  <2>4. b.refs[s] <= pages[j][s]
    BY <2>2 DEF Stored, RefsBehind
  <2> QED
    BY <2>3, <2>4 DEF Stored, ImagesFirst
<1> QED
  BY <1>1, <1>2, Invariance, DoneStep, StoredStep, PTL DEF Spec

-----------------------------------------------------------------------------
\* No side has more rows than its file has pages; an attempt that has stored its
\* last page leaves a complete side, as does one that reported success.
NoExtraPages == \A j \in Jobs, s \in Sides : pages[j][s] <= PageCount[s]

AttemptStores ==
  \A w \in Workers :
    /\ pc[w] \in {"put", "insert"} => done[w] < PageCount[SideOf(w)]
    /\ pc[w] \in {"check", "read", "enqueue", "complete"} /\ job[JobOf(w)] # "removed" =>
         pages[JobOf(w)][SideOf(w)] = PageCount[SideOf(w)]

SucceededComplete ==
  \A j \in Jobs, s \in Sides :
    job[j] # "removed" /\ state[<<j, s>>] = "succeeded" => pages[j][s] = PageCount[s]

AllStored == NoExtraPages /\ AttemptStores /\ SucceededComplete

\* An insert never goes past the last page.
LEMMA NoExtraStep ==
  Typed /\ AttemptStores /\ NoExtraPages /\ [Next]_vars => NoExtraPages'
<1> SUFFICES ASSUME Typed, AttemptStores, NoExtraPages, [Next]_vars,
                    NEW j \in Jobs, NEW s \in Sides
             PROVE  pages'[j][s] <= PageCount[s]
  BY DEF NoExtraPages
<1>1. /\ pages[j][s] \in Nat /\ pages'[j][s] \in Nat /\ PageCount[s] \in Nat
      /\ pages[j][s] <= PageCount[s]
  BY TypedStep DEF Typed, TypeOK, NoExtraPages
<1>2. CASE pages'[j][s] = pages[j][s]
  BY <1>1, <1>2
<1>3. ASSUME NEW w \in Workers, InsertPage(w), JobOf(w) = j, SideOf(w) = s
      PROVE  pages'[j][s] <= PageCount[s]
  <2>1. pages'[j][s] = RowsAfter(w)
    BY <1>3 DEF InsertPage, Typed, TypeOK
  <2>2. done[w] < PageCount[s] /\ done[w] \in Nat
    BY <1>3 DEF InsertPage, AttemptStores, Typed, TypeOK
  <2> QED
    BY <1>1, <1>3, <2>1, <2>2 DEF RowsAfter, Larger
<1>4. CASE pages'[j] = NoPages
  BY <1>1, <1>4 DEF NoPages
<1> QED
  BY <1>2, <1>3, <1>4, OnlyInserts

\* An attempt past its last page leaves a complete side until the job is removed.
LEMMA AttemptStep ==
  Typed /\ DoneReset /\ AllStored /\ [Next]_vars => AttemptStores'
<1> DEFINE Stores(v) ==
      /\ pc[v] \in {"put", "insert"} => done[v] < PageCount[SideOf(v)]
      /\ pc[v] \in {"check", "read", "enqueue", "complete"} /\ job[JobOf(v)] # "removed" =>
           pages[JobOf(v)][SideOf(v)] = PageCount[SideOf(v)]
<1> SUFFICES ASSUME Typed, DoneReset, AllStored, [Next]_vars, NEW v \in Workers,
                    pc'[v] \in {"put", "insert", "check", "read", "enqueue", "complete"}
             PROVE  Stores(v)'
  BY DEF AttemptStores
<1>0. Typed' /\ Stores(v) /\ NoExtraPages'
  BY TypedStep, NoExtraStep DEF AllStored, AttemptStores
<1>1. CASE held'[v] = held[v]
  <2>1. /\ JobOf(v) \in Jobs /\ SideOf(v) \in Sides
        /\ JobOf(v)' = JobOf(v) /\ SideOf(v)' = SideOf(v)
    BY <1>0, <1>1, HeldParts DEF JobOf, SideOf, Typed, Busy, Trying
  <2> DEFINE old == pages[JobOf(v)][SideOf(v)]
             new == pages'[JobOf(v)][SideOf(v)]
             all == PageCount[SideOf(v)]
  <2>2. old \in Nat /\ new \in Nat /\ all \in Nat \ {0} /\ done[v] \in Nat
    BY <1>0, <2>1 DEF Typed, TypeOK
  <2>3. job'[JobOf(v)] # "removed" => job[JobOf(v)] # "removed" /\ old <= new /\ new <= all
    BY <1>0, <2>1, OnlyGrowth DEF NoExtraPages
  <2>4. CASE LocalsKept(v)
    BY <1>0, <2>1, <2>2, <2>3, <2>4 DEF LocalsKept
  <2>5. CASE Load(v)
    <3>1. done'[v] = 0 /\ pc'[v] \in {"put", "insert"}
      BY <2>5 DEF Load, StoreFirst, Goto, DoneReset, Typed, TypeOK
    <3> QED
      BY <2>1, <2>2, <3>1
  <2>6. CASE PutImage(v)
    <3>1. pc[v] = "put" /\ pc'[v] = "insert" /\ done' = done
      BY <2>6 DEF PutImage, Goto, Typed, TypeOK
    <3> QED
      BY <1>0, <2>1, <3>1
  <2>7. CASE InsertPage(v)
    <3>1. pc[v] = "insert" /\ new = RowsAfter(v)
      BY <2>1, <2>7 DEF InsertPage, Typed, TypeOK
    <3>2. CASE LastPage(v)
      <4>1. pc'[v] = "check"
        BY <2>7, <3>2 DEF InsertPage, Goto, Typed, TypeOK
      <4>2. job'[JobOf(v)] # "removed" => new = all
        BY <1>0, <2>2, <2>3, <3>1, <3>2 DEF LastPage, RowsAfter, Larger
      <4> QED
        BY <2>1, <4>1, <4>2
    <3>3. CASE ~LastPage(v)
      <4>1. pc'[v] \in {"put", "insert"} /\ done'[v] = done[v] + 1
        BY <2>7, <3>3 DEF InsertPage, StoreFirst, Goto, Typed, TypeOK
      <4>2. done[v] + 1 < all
        BY <2>2, <3>3 DEF LastPage
      <4> QED
        BY <2>1, <4>1, <4>2
    <3> QED
      BY <3>2, <3>3
  <2>8. CASE Check(v) \/ ReadPages(v) \/ EnqueueOcr(v)
    <3>1. pc[v] \in {"check", "read", "enqueue"} /\ pages' = pages
      BY <2>8 DEF Check, ReadPages, EnqueueOcr, pageVars
    <3>2. pc'[v] \in {"read", "enqueue", "complete"}
      BY <2>8 DEF Check, ReadPages, EnqueueOcr, Goto, Typed, TypeOK
    <3> QED
      BY <1>0, <2>1, <2>3, <3>1, <3>2
  <2>9. CASE ~LocalsKept(v) /\ ~Load(v) /\ ~PutImage(v) /\ ~InsertPage(v) /\ ~Check(v)
             /\ ~ReadPages(v) /\ ~EnqueueOcr(v)
    <3>1. WorkerStep(v) \/ Die(v)
      BY <2>9, Bystanders
    <3>2. pc'[v] \notin {"put", "insert", "check", "read", "enqueue", "complete"}
      BY <2>9, <3>1 DEF WorkerStep, Lease, NoneLeasable, Complete, LogAttempt, Raise, Retry,
         FailJob, Die, Goto, Typed, TypeOK
    <3> QED
      BY <3>2
  <2> QED
    BY <2>4, <2>5, <2>6, <2>7, <2>8, <2>9
<1>2. CASE held'[v] # held[v]
  <2>1. ~LocalsKept(v) /\ (WorkerStep(v) \/ Die(v))
    BY <1>2, Bystanders DEF LocalsKept
  <2>2. \/ \E t \in Tasks : Lease(v, t)
        \/ LogAttempt(v) \/ Retry(v) \/ Die(v)
    BY <1>2, <2>1 DEF WorkerStep, NoneLeasable, Load, PutImage, InsertPage, Check,
       ReadPages, EnqueueOcr, Complete, Rows!Complete, Raise, FailJob, rowVars
  <2>3. pc'[v] \notin {"put", "insert", "check", "read", "enqueue", "complete"}
    BY <2>2 DEF Lease, LogAttempt, Retry, Die, Goto, Typed, TypeOK
  <2> QED
    BY <2>3
<1> QED
  BY <1>1, <1>2

\* A row succeeds by complete_work_item of the worker that holds it.
LEMMA OnlyCompletes ==
  Typed /\ [Next]_vars =>
    \A t \in Tasks : state'[t] = "succeeded" =>
      \/ state[t] = "succeeded"
      \/ \E w \in Workers : Complete(w) /\ held[w] = t
<1> SUFFICES ASSUME Typed, [Next]_vars, NEW t \in Tasks,
                    state'[t] = "succeeded", state[t] # "succeeded"
             PROVE  \E w \in Workers : Complete(w) /\ held[w] = t
  OBVIOUS
<1>0. state \in [Tasks -> Rows!ItemState]
  BY DEF Typed, TypeOK, Rows!TypeOK
<1>1. ASSUME NEW w \in Workers, NEW u \in Tasks, Lease(w, u) PROVE FALSE
  BY <1>0, <1>1 DEF Lease, Rows!Lease
<1>2. ASSUME NEW w \in Workers, Retry(w) PROVE FALSE
  BY <1>0, <1>2 DEF Retry, Rows!Retry, Rows!RetryState
<1>3. ASSUME NEW w \in Workers,
             \/ NoneLeasable(w) \/ Load(w) \/ PutImage(w) \/ InsertPage(w)
             \/ Check(w) \/ ReadPages(w)
             \/ EnqueueOcr(w) \/ LogAttempt(w) \/ Raise(w) \/ FailJob(w) \/ Die(w)
             \/ Restart(w)
      PROVE  FALSE
  BY <1>3 DEF NoneLeasable, Load, PutImage, InsertPage, Check, ReadPages, EnqueueOcr,
     LogAttempt, Raise, FailJob, Die, Restart, Rows!LogAttempt, Rows!Die, Rows!Restart,
     rowVars
<1>4. ASSUME NEW w \in Workers, Complete(w) PROVE held[w] = t
  BY <1>0, <1>4 DEF Complete, Rows!Complete
<1>5. ASSUME NEW i \in Jobs, Accept(i) \/ FinishDelete(i) PROVE FALSE
  BY <1>5 DEF Accept, FinishDelete, Rows!Create, Rows!Drop
<1>6. ASSUME NEW i \in Jobs, NEW s \in Status,
             \/ Cancel(i) \/ BeginDelete(i) \/ PurgeObjects(i) \/ AbandonDelete(i)
             \/ Process(i, s)
      PROVE  FALSE
  BY <1>6 DEF Cancel, BeginDelete, PurgeObjects, AbandonDelete, Process, rowVars
<1>7. ~UNCHANGED vars /\ ~\E u \in Tasks : BackOff(u) \/ Lapse(u)
  BY DEF vars, rowVars, BackOff, Lapse, Rows!BackOff, Rows!Lapse
<1>8. "queued" \in Status
  BY DEF Status, NonTerminal
<1>9. CASE \E w \in Workers : WorkerStep(w) \/ Die(w) \/ Restart(w)
  BY <1>1, <1>2, <1>3, <1>4, <1>9 DEF WorkerStep
<1>10. CASE \E i \in Jobs :
              \/ Accept(i) \/ Cancel(i) \/ BeginDelete(i) \/ PurgeObjects(i)
              \/ FinishDelete(i) \/ AbandonDelete(i)
              \/ \E s \in Status : Process(i, s)
  BY <1>5, <1>6, <1>8, <1>10
<1> QED
  BY <1>7, <1>9, <1>10 DEF Next

\* The inductive step.
LEMMA AllStoredStep == Typed /\ DoneReset /\ AllStored /\ [Next]_vars => AllStored'
<1> SUFFICES ASSUME Typed, DoneReset, AllStored, [Next]_vars PROVE AllStored'
  OBVIOUS
<1>1. NoExtraPages' /\ AttemptStores'
  BY NoExtraStep, AttemptStep DEF AllStored
<1>2. SucceededComplete'
  <2> SUFFICES ASSUME NEW j \in Jobs, NEW s \in Sides,
                      job'[j] # "removed", state'[<<j, s>>] = "succeeded"
               PROVE  pages'[j][s] = PageCount[s]
    BY DEF SucceededComplete
  <2>1. job[j] # "removed" /\ pages[j][s] <= pages'[j][s] /\ pages'[j][s] <= PageCount[s]
    BY <1>1, OnlyGrowth DEF NoExtraPages
  <2>2. pages[j][s] \in Nat /\ pages'[j][s] \in Nat /\ PageCount[s] \in Nat
    BY TypedStep DEF Typed, TypeOK
  <2>3. pages[j][s] = PageCount[s]
    <3>1. <<j, s>> \in Tasks
      BY DEF Tasks
    <3>2. CASE state[<<j, s>>] = "succeeded"
      BY <2>1, <3>2 DEF AllStored, SucceededComplete
    <3>3. ASSUME NEW w \in Workers, Complete(w), held[w] = <<j, s>>
          PROVE  pages[j][s] = PageCount[s]
      <4>1. JobOf(w) = j /\ SideOf(w) = s /\ pc[w] = "complete"
        BY <3>3 DEF JobOf, SideOf, Complete
      <4> QED
        BY <2>1, <4>1 DEF AllStored, AttemptStores
    <3> QED
      BY <3>1, <3>2, <3>3, OnlyCompletes
  <2> QED
    BY <2>1, <2>2, <2>3
<1> QED
  BY <1>1, <1>2 DEF AllStored

\* A side whose prepare row succeeded is stored completely, although attempts,
\* retries and stolen leases of the same row interleave their inserts.
THEOREM SidesStored == Spec => []SucceededSideStored
<1>1. Init => DoneReset /\ AllStored
  BY DEF Init, Rows!Init, DoneReset, AllStored, NoExtraPages, AttemptStores,
     SucceededComplete, NoPages, Tasks
<1>2. AllStored => SucceededSideStored
  BY AbsentNoStatus DEF AllStored, SucceededComplete, SucceededSideStored, InDb
<1> QED
  BY <1>1, <1>2, Invariance, DoneStep, AllStoredStep, PTL DEF Spec

-----------------------------------------------------------------------------
\* The gateway has a reason for each job it failed or is about to fail.
FailuresExcused ==
  /\ \A w \in Workers : pc[w] = "fail" => RowFacts!Excused(failing[w])
  /\ \A j \in Jobs : blamed[j] => \E s \in Sides : RowFacts!Excused(<<j, s>>)

\* Only _fail_job sets failure_code.
LEMMA OnlyFailJob ==
  Typed /\ [Next]_vars =>
    \A j \in Jobs : blamed'[j] =>
      blamed[j] \/ \E w \in Workers : FailJob(w) /\ failing[w][1] = j
<1> SUFFICES ASSUME Typed, [Next]_vars, NEW j \in Jobs, blamed'[j] # blamed[j]
             PROVE  \E w \in Workers : FailJob(w) /\ failing[w][1] = j
  OBVIOUS
<1>1. ASSUME NEW w \in Workers,
             \/ Elsewhere(w) \/ (\E t \in Tasks : Lease(w, t)) \/ PutImage(w)
             \/ InsertPage(w) \/ EnqueueOcr(w)
      PROVE  FALSE
  BY <1>1 DEF Elsewhere, Lease, NoneLeasable, Load, PutImage, InsertPage, Check,
     ReadPages, EnqueueOcr, Complete, LogAttempt, Raise, Retry, Die, Restart, jobVars
<1>2. ASSUME NEW w \in Workers, FailJob(w) PROVE failing[w][1] = j
  BY <1>2 DEF FailJob, jobVars, Typed, TypeOK
<1>3. ASSUME NEW i \in Jobs, NEW s \in Status,
             \/ Accept(i) \/ Cancel(i) \/ BeginDelete(i) \/ PurgeObjects(i)
             \/ FinishDelete(i) \/ AbandonDelete(i) \/ Process(i, s)
      PROVE  FALSE
  BY <1>3 DEF Accept, Cancel, BeginDelete, PurgeObjects, FinishDelete, AbandonDelete,
     Process, jobVars
<1>4. ~UNCHANGED vars /\ ~\E t \in Tasks : BackOff(t) \/ Lapse(t)
  BY DEF vars, jobVars, BackOff, Lapse
<1>5. "queued" \in Status
  BY DEF Status, NonTerminal
<1>6. CASE \E w \in Workers : WorkerStep(w) \/ Die(w) \/ Restart(w)
  BY <1>1, <1>2, <1>6 DEF WorkerStep, Elsewhere
<1>7. CASE \E i \in Jobs :
              \/ Accept(i) \/ Cancel(i) \/ BeginDelete(i) \/ PurgeObjects(i)
              \/ FinishDelete(i) \/ AbandonDelete(i)
              \/ \E s \in Status : Process(i, s)
  BY <1>3, <1>5, <1>7
<1> QED
  BY <1>4, <1>6, <1>7 DEF Next

\* Reasons last, and a retry that is refused has one.
LEMMA ExcusedStep ==
  Typed /\ RowInvariant /\ FailuresExcused /\ [Next]_vars => FailuresExcused'
<1> SUFFICES ASSUME Typed, RowInvariant, FailuresExcused, [Next]_vars
             PROVE  FailuresExcused'
  OBVIOUS
<1>1. \A t \in Tasks : RowFacts!Excused(t) => RowFacts!Excused(t)'
  BY RowStep, SameStep, RowFacts!ExcusedStays DEF Typed, RowInvariant
<1>2. ASSUME NEW v \in Workers, pc'[v] = "fail" PROVE RowFacts!Excused(failing[v])'
  <2>1. CASE LocalsKept(v)
    <3>1. failing[v] \in Tasks /\ RowFacts!Excused(failing[v]) /\ failing'[v] = failing[v]
      BY <1>2, <2>1 DEF LocalsKept, FailuresExcused, Typed, Busy
    <3>2. ASSUME NEW t \in Tasks, t = failing[v] PROVE RowFacts!Excused(t)'
      BY <1>1, <3>1, <3>2
    <3> QED
      BY <3>1, <3>2 DEF RowFacts!Excused
  <2>2. CASE Retry(v)
    <3>1. held[v] \in Tasks
      BY <2>2 DEF Retry, Typed, Busy, Trying
    <3>2. Rows!Retry(v, held[v]) /\ ~Rows!RetryReturns(v, held[v]) /\ failing'[v] = held[v]
      BY <1>2, <2>2 DEF Retry, Goto, Typed, TypeOK
    <3>3. RowFacts!Retry(v, held[v]) /\ ~RowFacts!RetryReturns(v, held[v])
      BY <3>2 DEF Rows!Retry, RowFacts!Retry, Rows!RetryReturns, RowFacts!RetryReturns,
         Rows!RetryState, RowFacts!RetryState, Rows!Fenced, RowFacts!Fenced, Rows!Exists,
         RowFacts!Exists, Rows!LetGo, RowFacts!LetGo
    <3>4. ASSUME NEW t \in Tasks, t = held[v] PROVE RowFacts!Excused(t)'
      BY <3>3, <3>4, RowFacts!RefusedRetry DEF RowInvariant
    <3> QED
      BY <3>1, <3>2, <3>4 DEF RowFacts!Excused
  <2>3. CASE ~LocalsKept(v) /\ ~Retry(v)
    <3>1. WorkerStep(v) \/ Die(v)
      BY <2>3, Bystanders
    <3>2. pc'[v] # "fail"
      BY <2>3, <3>1 DEF WorkerStep, Lease, NoneLeasable, Load, StoreFirst, PutImage,
         InsertPage, Check, ReadPages, EnqueueOcr, Complete, LogAttempt, Raise, FailJob,
         Die, Goto, Typed, TypeOK
    <3> QED
      BY <1>2, <3>2
  <2> QED
    BY <2>1, <2>2, <2>3
<1>3. ASSUME NEW j \in Jobs, blamed'[j] PROVE \E s \in Sides : RowFacts!Excused(<<j, s>>)'
  <2>1. PICK s \in Sides : RowFacts!Excused(<<j, s>>)
    <3>1. CASE blamed[j]
      BY <3>1 DEF FailuresExcused
    <3>2. ASSUME NEW w \in Workers, FailJob(w), failing[w][1] = j
          PROVE  \E s \in Sides : RowFacts!Excused(<<j, s>>)
      <4>1. failing[w] \in Tasks /\ RowFacts!Excused(failing[w])
        BY <3>2 DEF FailJob, FailuresExcused, Typed, Busy
      <4>2. failing[w] = <<j, failing[w][2]>> /\ failing[w][2] \in Sides
        BY <3>2, <4>1 DEF Tasks
      <4> QED
        BY <4>1, <4>2
    <3> QED
      BY <1>3, <3>1, <3>2, OnlyFailJob
  <2>2. <<j, s>> \in Tasks
    BY DEF Tasks
  <2> QED
    BY <1>1, <2>1, <2>2
<1> QED
  BY <1>2, <1>3 DEF FailuresExcused

\* The gateway fails a job only when one of its rows has run out of attempts, or
\* a lease lapsed under (or was left by) a worker, or the job is gone: an answer
\* other than True from retry_work_item is never a worker's own doing.
THEOREM FailuresCaused == Spec => []FailureHasCause
<1>1. Init => FailuresExcused
  BY DEF Init, FailuresExcused
<1>2. FailuresExcused => FailureHasCause
  BY DEF FailuresExcused, FailureHasCause, RowFacts!Excused
<1> QED
  BY <1>1, <1>2, Invariance, RowsInvariant, ExcusedStep, PTL DEF Spec

-----------------------------------------------------------------------------
(***************************************************************************)
(* How many batches.  The workers between the "no OCR item yet" query and  *)
(* their commit are racers: each may still add one batch.  None enters the *)
(* race once a batch is there, for OCR items came with it, and when they   *)
(* are deleted the pages go with them.                                     *)
(***************************************************************************)
Racers(j) == {w \in Workers : pc[w] \in {"read", "enqueue"} /\ JobOf(w) = j}

CountsPositive == \A w \in Workers : pc[w] \in {"read", "enqueue"} => total[w] > 0

BatchLeavesItems ==
  \A j \in Jobs : commands[j] # << >> => ocr[j] > 0 \/ job[j] = "removed"

RemovedIsBare == \A j \in Jobs : job[j] = "removed" => pages[j] = NoPages

RaceBounded ==
  \A j \in Jobs : Len(commands[j]) + Cardinality(Racers(j)) <= Cardinality(Workers)

RaceInv == CountsPositive /\ BatchLeavesItems /\ RemovedIsBare /\ RaceBounded

\* A worker enters the race by the query, with a count above zero.
LEMMA EnteringRace ==
  ASSUME Typed, CountsPositive, [Next]_vars, NEW v \in Workers,
         pc'[v] \in {"read", "enqueue"}
  PROVE  /\ total'[v] > 0 /\ JobOf(v)' = JobOf(v)
         /\ \/ pc[v] \in {"read", "enqueue"}
            \/ pc[v] = "check" /\ NeedsOcr(v) /\ commands' = commands
<1>1. CASE LocalsKept(v)
  BY <1>1 DEF LocalsKept, CountsPositive, JobOf
<1>2. CASE Check(v)
  <2>1. NeedsOcr(v) /\ JobOf(v)' = JobOf(v) /\ commands' = commands /\ pc[v] = "check"
    BY <1>2 DEF Check, Goto, rowVars, ocrVars, JobOf, Typed, TypeOK
  <2>2. total'[v] = Larger(pages[JobOf(v)][1], pages[JobOf(v)][2])
    BY <1>2, <2>1 DEF Check, Typed, TypeOK
  <2>3. pages[JobOf(v)][1] > 0 /\ pages[JobOf(v)][2] > 0
    BY <2>1 DEF NeedsOcr, BothSides, Sides
  <2> QED
    BY <2>1, <2>2, <2>3 DEF Larger
<1>3. CASE ReadPages(v)
  BY <1>3 DEF ReadPages, Goto, rowVars, JobOf, CountsPositive
<1>4. CASE ~LocalsKept(v) /\ ~Check(v) /\ ~ReadPages(v)
  <2>1. WorkerStep(v) \/ Die(v)
    BY <1>4, Bystanders
  <2>2. pc'[v] \notin {"read", "enqueue"}
    BY <1>4, <2>1 DEF WorkerStep, Lease, NoneLeasable, Load, StoreFirst, PutImage,
       InsertPage, EnqueueOcr, Complete, LogAttempt, Raise, Retry, FailJob, Die, Goto,
       Typed, TypeOK
  <2> QED
    BY <2>2
<1> QED
  BY <1>1, <1>2, <1>3, <1>4

\* OCR items and pages go only with the job.
LEMMA GoneTogether ==
  Typed /\ [Next]_vars =>
    \A j \in Jobs :
      /\ job'[j] = "removed" =>
           pages'[j] = NoPages \/ (job[j] = "removed" /\ pages'[j] = pages[j])
      /\ ocr[j] <= ocr'[j] \/ job'[j] = "removed"
<1> DEFINE Together(j) ==
      /\ job'[j] = "removed" =>
           pages'[j] = NoPages \/ (job[j] = "removed" /\ pages'[j] = pages[j])
      /\ ocr[j] <= ocr'[j] \/ job'[j] = "removed"
<1> SUFFICES ASSUME Typed, [Next]_vars, NEW j \in Jobs PROVE Together(j)
  OBVIOUS
<1>0. ocr[j] \in Nat /\ ocr[j] <= ocr[j]
  BY DEF Typed, TypeOK
<1> USE <1>0, AbsentNoStatus DEF Typed, TypeOK
<1>1. ASSUME NEW w \in Workers,
             Elsewhere(w) \/ (\E t \in Tasks : Lease(w, t)) \/ PutImage(w)
      PROVE  Together(j)
  BY <1>1 DEF Elsewhere, Lease, PutImage, NoneLeasable, Load, Check, ReadPages, Complete,
     LogAttempt, Raise, Retry, Die, Restart, jobVars, pageVars, ocrVars
<1>2. ASSUME NEW w \in Workers, InsertPage(w) PROVE Together(j)
  <2>1. ocr' = ocr /\ job' = job
    BY <1>2 DEF InsertPage, jobVars, ocrVars
  <2>2. job[j] = "removed" => pages'[j] = pages[j]
    BY <1>2 DEF InsertPage, InDb
  <2> QED
    BY <2>1, <2>2
<1>3. ASSUME NEW w \in Workers, EnqueueOcr(w) PROVE Together(j)
  <2>1. JobOf(w) \in Jobs /\ total[w] \in Nat /\ pages' = pages /\ job[JobOf(w)] \in Status
    BY <1>3, HeldParts DEF EnqueueOcr, Busy, Trying, pageVars, InDb
  <2>2. ocr[j] <= ocr'[j]
    BY <1>3, <2>1 DEF EnqueueOcr, Larger
  <2>3. job'[j] = "removed" => job[j] = "removed"
    BY <1>3, <2>1, StatusWritten DEF EnqueueOcr
  <2> QED
    BY <2>1, <2>2, <2>3
<1>4. ASSUME NEW w \in Workers, FailJob(w) PROVE Together(j)
  <2>1. pages' = pages /\ ocr' = ocr
    BY <1>4 DEF FailJob, pageVars, ocrVars
  <2>2. job'[j] = "removed" => job[j] = "removed"
    BY <1>4, StatusWritten DEF FailJob, InDb, jobVars
  <2> QED
    BY <2>1, <2>2
<1>5. ASSUME NEW i \in Jobs, NEW s \in Status,
             \/ Accept(i) \/ Cancel(i) \/ BeginDelete(i) \/ Process(i, s)
             \/ PurgeObjects(i) \/ AbandonDelete(i)
      PROVE  Together(j)
  <2>1. pages' = pages /\ ocr' = ocr
    BY <1>5 DEF Accept, Cancel, BeginDelete, Process, PurgeObjects, AbandonDelete,
       pageVars, ocrVars
  <2>2. job'[j] = "removed" => job[j] = "removed"
    BY <1>5, StatusWritten DEF Accept, Cancel, BeginDelete, Process, PurgeObjects,
       AbandonDelete, InDb, jobVars
  <2> QED
    BY <2>1, <2>2
<1>6. ASSUME NEW i \in Jobs, FinishDelete(i) PROVE Together(j)
  BY <1>6 DEF FinishDelete
<1>7. CASE UNCHANGED vars
  BY <1>7 DEF vars, jobVars, pageVars, ocrVars
<1>8. CASE \E t \in Tasks : BackOff(t) \/ Lapse(t)
  BY <1>8 DEF BackOff, Lapse, jobVars, pageVars, ocrVars
<1> HIDE DEF Typed, TypeOK, Together
<1>9. CASE \E w \in Workers : WorkerStep(w) \/ Die(w) \/ Restart(w)
  BY <1>1, <1>2, <1>3, <1>4, <1>9 DEF WorkerStep, Elsewhere
<1>10. CASE \E i \in Jobs :
              \/ Accept(i) \/ Cancel(i) \/ BeginDelete(i) \/ PurgeObjects(i)
              \/ FinishDelete(i) \/ AbandonDelete(i)
              \/ \E s \in Status : Process(i, s)
  <2>1. "queued" \in Status
    BY DEF Status, NonTerminal
  <2> QED
    BY <1>5, <1>6, <1>10, <2>1
<1> QED
  BY <1>7, <1>8, <1>9, <1>10 DEF Next

\* A batch is written by a racer, which leaves the race.
LEMMA LeavingRace ==
  ASSUME Typed, NEW w \in Workers, EnqueueOcr(w), NEW j \in Jobs
  PROVE  /\ JobOf(w) \in Jobs /\ pc'[w] = "complete"
         /\ JobOf(w) # j => commands'[j] = commands[j] /\ ocr'[j] = ocr[j]
         /\ JobOf(w) = j => /\ w \in Racers(j) /\ Len(commands'[j]) = Len(commands[j]) + 1
                            /\ ocr'[j] >= total[w]
<1>1. JobOf(w) \in Jobs /\ pc[w] = "enqueue" /\ total[w] \in Nat
  BY HeldParts DEF EnqueueOcr, Typed, TypeOK, Busy, Trying
<1>2. pc'[w] = "complete"
  BY DEF EnqueueOcr, Goto, Typed, TypeOK
<1>3. /\ commands' = [commands EXCEPT ![JobOf(w)] = Append(commands[JobOf(w)], BatchOf(w))]
      /\ ocr' = [ocr EXCEPT ![JobOf(w)] = Larger(ocr[JobOf(w)], total[w])]
  BY DEF EnqueueOcr, BatchOf
<1>4. ocr[JobOf(w)] \in Nat /\ commands[JobOf(w)] \in Seq(Batch) /\ BatchOf(w) \in Batch
  BY <1>1 DEF BatchOf, Batch, Typed, TypeOK
<1>5. Len(Append(commands[JobOf(w)], BatchOf(w))) = Len(commands[JobOf(w)]) + 1
  BY <1>4
<1> QED
  BY <1>1, <1>2, <1>3, <1>4, <1>5 DEF Larger, Racers, Typed, TypeOK

\* The race stays bounded by the number of workers.
LEMMA RaceStep == Typed /\ RaceInv /\ [Next]_vars => RaceInv'
<1> SUFFICES ASSUME Typed, Typed', RaceInv, [Next]_vars PROVE RaceInv'
  BY TypedStep
<1> USE DEF RaceInv
<1>1. CountsPositive'
  BY EnteringRace DEF CountsPositive
<1>2. RemovedIsBare'
  BY GoneTogether DEF RemovedIsBare
<1>3. ASSUME NEW j \in Jobs, commands'[j] # << >> PROVE ocr'[j] > 0 \/ job'[j] = "removed"
  <2>1. ocr[j] \in Nat /\ ocr'[j] \in Nat
    BY DEF Typed, TypeOK
  <2>2. CASE commands[j] # << >>
    <3>1. job[j] = "removed" => job'[j] = "removed"
      BY OnlyGrowth
    <3>2. ocr[j] <= ocr'[j] \/ job'[j] = "removed"
      BY GoneTogether
    <3> QED
      BY <2>1, <2>2, <3>1, <3>2 DEF BatchLeavesItems
  <2>3. CASE commands[j] = << >>
    <3>1. PICK w \in Workers : EnqueueOcr(w)
      BY <1>3, <2>3, OnlyEnqueues
    <3>2. JobOf(w) = j /\ ocr'[j] >= total[w]
      BY <1>3, <2>3, <3>1, LeavingRace
    <3>3. total[w] > 0 /\ total[w] \in Nat
      BY <3>1 DEF CountsPositive, EnqueueOcr, Typed, TypeOK
    <3> QED
      BY <2>1, <3>2, <3>3
  <2> QED
    BY <2>2, <2>3
<1>4. ASSUME NEW j \in Jobs
      PROVE  Len(commands'[j]) + Cardinality(Racers(j)') <= Cardinality(Workers)
  <2> USE WorkersAssumption
  <2>1. /\ Racers(j) \subseteq Workers /\ Racers(j)' \subseteq Workers
        /\ IsFiniteSet(Racers(j)) /\ IsFiniteSet(Racers(j)')
    BY FS_Subset DEF Racers
  <2>2. /\ Cardinality(Racers(j)) \in Nat /\ Cardinality(Racers(j)') \in Nat
        /\ Cardinality(Workers) \in Nat /\ Cardinality(Racers(j)') <= Cardinality(Workers)
        /\ Len(commands[j]) \in Nat
    BY <2>1, FS_Subset, FS_CardinalityType DEF Typed, TypeOK
  <2>3. CASE \E w \in Workers : EnqueueOcr(w) /\ JobOf(w) = j
    <3>1. PICK w \in Workers : EnqueueOcr(w) /\ JobOf(w) = j
      BY <2>3
    <3>2. w \in Racers(j) /\ pc'[w] = "complete" /\ Len(commands'[j]) = Len(commands[j]) + 1
      BY <3>1, LeavingRace
    <3>3. commands' # commands
      BY <2>2, <3>2
    <3>4. Racers(j)' \subseteq Racers(j) \ {w}
      BY <3>2, <3>3, EnteringRace DEF Racers
    <3>5. /\ IsFiniteSet(Racers(j) \ {w})
          /\ Cardinality(Racers(j) \ {w}) = Cardinality(Racers(j)) - 1
      BY <2>1, <3>2, FS_RemoveElement
    <3>6. Cardinality(Racers(j)') <= Cardinality(Racers(j)) - 1
      BY <3>4, <3>5, FS_Subset
    <3> QED
      BY <2>2, <3>2, <3>6 DEF RaceBounded
  <2>4. CASE ~\E w \in Workers : EnqueueOcr(w) /\ JobOf(w) = j
    <3>1. commands'[j] = commands[j]
      BY <2>4, OnlyEnqueues, LeavingRace
    <3>2. CASE Racers(j)' \subseteq Racers(j)
      <4>1. Cardinality(Racers(j)') <= Cardinality(Racers(j))
        BY <2>1, <3>2, FS_Subset
      <4> QED
        BY <2>2, <3>1, <4>1 DEF RaceBounded
    <3>3. CASE ~(Racers(j)' \subseteq Racers(j))
      <4>1. PICK v \in Workers : pc'[v] \in {"read", "enqueue"} /\ JobOf(v)' = j /\ v \notin Racers(j)
        BY <3>3 DEF Racers
      <4>2. NeedsOcr(v) /\ JobOf(v) = j
        BY <4>1, EnteringRace DEF Racers
      <4>3. ocr[j] = 0 /\ pages[j] # NoPages
        BY <4>2 DEF NeedsOcr, BothSides, NoPages, Sides
      <4>4. commands[j] = << >>
        BY <4>3 DEF BatchLeavesItems, RemovedIsBare
      <4>5. Len(commands'[j]) = 0
        BY <3>1, <4>4
      <4> QED
        BY <2>2, <4>5
    <3> QED
      BY <3>2, <3>3
  <2> QED
    BY <2>3, <2>4
<1> QED
  BY <1>1, <1>2, <1>3, <1>4 DEF BatchLeavesItems, RaceBounded

\* Workers that race past the "no OCR item yet" query enqueue a batch each; retries,
\* restarts and resubmissions of leases add none.
THEOREM BatchesBounded == Spec => []BatchesBoundedByRacers
<1>1. Init => RaceInv
  <2> SUFFICES ASSUME Init PROVE RaceInv
    OBVIOUS
  <2>1. CountsPositive /\ BatchLeavesItems /\ RemovedIsBare
    BY DEF Init, CountsPositive, BatchLeavesItems, RemovedIsBare
  <2>2. ASSUME NEW j \in Jobs
        PROVE  Len(commands[j]) + Cardinality(Racers(j)) <= Cardinality(Workers)
    <3>1. Racers(j) = {} /\ Len(commands[j]) = 0
      BY DEF Init, Racers
    <3> QED
      BY <3>1, WorkersAssumption, FS_EmptySet, FS_CardinalityType
  <2> QED
    BY <2>1, <2>2 DEF RaceInv, RaceBounded
<1>2. Typed /\ RaceInv => BatchesBoundedByRacers
  <2> SUFFICES ASSUME Typed, RaceInv, NEW j \in Jobs
               PROVE  Len(commands[j]) <= Cardinality(Workers)
    BY DEF BatchesBoundedByRacers
  <2>1. Cardinality(Racers(j)) \in Nat /\ Cardinality(Workers) \in Nat
    BY WorkersAssumption, FS_Subset, FS_CardinalityType DEF Racers
  <2>2. Len(commands[j]) \in Nat
    BY DEF Typed, TypeOK
  <2> QED
    BY <2>1, <2>2 DEF RaceInv, RaceBounded
<1> QED
  BY <1>1, <1>2, Invariance, RaceStep, PTL DEF Spec
=============================================================================
