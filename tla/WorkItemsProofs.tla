--------------------------- MODULE WorkItemsProofs ---------------------------
(***************************************************************************)
(* Proofs about WorkItems, for every set of rows and workers and every     *)
(* bound.  The invariant says which workers can still pass the fence:      *)
(* tokens never run ahead of the row, two workers never share a current    *)
(* one, and a row that waits or has failed has given all of them up.       *)
(***************************************************************************)
EXTENDS WorkItems, TLAPS

TokensBehind ==
  \A w \in Workers : held[w] # NoItem => token[w] <= epoch[held[w]]

\* Before its INSERT nobody holds a row, and it has not been leased.
AbsentUntouched ==
  \A i \in Items : state[i] = "absent" =>
    epoch[i] = 0 /\ \A w \in Workers : held[w] # i

\* A waiting or failed row is nobody's.
SettledUnheld ==
  \A i \in Items, w \in Workers :
    state[i] \in {"pending", "failed"} => ~Fenced(w, i)

\* The one worker that can still touch a succeeded row is past its UPDATE.
SucceededMarked ==
  \A i \in Items, w \in Workers :
    state[i] = "succeeded" /\ Fenced(w, i) => marked[w]

\* RetryBudget, with what it needs of pending and of lapsed rows.
Budget ==
  \A i \in Items :
    /\ epoch[i] <= MaxAttempts + lapses[i]
    /\ state[i] = "failed" => epoch[i] >= MaxAttempts
    /\ state[i] = "pending" => epoch[i] < MaxAttempts
    /\ state[i] = "leased" /\ due[i] => epoch[i] < MaxAttempts + lapses[i]

IInv ==
  /\ TypeOK
  /\ TokensBehind
  /\ LeaseExclusive
  /\ AbsentUntouched
  /\ SettledUnheld
  /\ SucceededMarked
  /\ Budget

-----------------------------------------------------------------------------
USE MaxAttemptsAssumption, MaxFaultsAssumption, NoItemAssumption


\* Every statement writes values of the columns' types.
LEMMA TypeStep == TypeOK /\ [Next]_vars => TypeOK'
<1> SUFFICES ASSUME TypeOK, [Next]_vars PROVE TypeOK'
  OBVIOUS
<1>1. ASSUME NEW S \in SUBSET Items, Create(S) PROVE TypeOK'
  BY <1>1 DEF Create, TypeOK, ItemState
<1>2. ASSUME NEW S \in SUBSET Items, Drop(S) PROVE TypeOK'
  BY <1>2 DEF Drop, TypeOK, ItemState
<1>3. ASSUME NEW i \in Items, Lapse(i) PROVE TypeOK'
  BY <1>3 DEF Lapse, TypeOK, ItemState
<1>4. ASSUME NEW w \in Workers, NEW i \in Items, Lease(w, i) PROVE TypeOK'
  BY <1>4 DEF Lease, TypeOK, ItemState
<1>5. ASSUME NEW w \in Workers, NEW i \in Items, Complete(w, i) PROVE TypeOK'
  BY <1>5 DEF Complete, TypeOK, ItemState
<1>6. ASSUME NEW w \in Workers, NEW i \in Items, Retry(w, i) PROVE TypeOK'
  BY <1>6 DEF Retry, LetGo, RetryState, TypeOK, ItemState
<1>7. ASSUME NEW w \in Workers, LogAttempt(w) PROVE TypeOK'
  BY <1>7 DEF LogAttempt, LetGo, TypeOK
<1>8. ASSUME NEW w \in Workers, Die(w) PROVE TypeOK'
  BY <1>8 DEF Die, LetGo, TypeOK
<1>9. ASSUME NEW i \in Items, BackOff(i) PROVE TypeOK'
  BY <1>9 DEF BackOff, TypeOK
<1>10. ASSUME NEW w \in Workers, Restart(w) PROVE TypeOK'
  BY <1>10 DEF Restart, TypeOK
<1>11. CASE UNCHANGED vars
  BY <1>11 DEF vars, TypeOK
<1> QED
  BY <1>1, <1>2, <1>3, <1>4, <1>5, <1>6, <1>7, <1>8, <1>9, <1>10, <1>11 DEF Next

\* The variables keep their types in every reachable state.
THEOREM TypeCorrect == Spec => []TypeOK
<1>1. Init => TypeOK
  BY DEF Init, TypeOK, ItemState
<1> QED
  BY <1>1, TypeStep, PTL DEF Spec

\* The inductive step: what each statement does to the fence and the budget.
LEMMA IInvStep == IInv /\ [Next]_vars => IInv'
<1> SUFFICES ASSUME IInv, [Next]_vars, TypeOK' PROVE IInv'
  BY TypeStep DEF IInv
<1> USE DEF IInv
<1>1. ASSUME NEW S \in SUBSET Items, Create(S) PROVE IInv'
  BY <1>1 DEF Create, TypeOK, ItemState, TokensBehind, LeaseExclusive,
     AbsentUntouched, SettledUnheld, SucceededMarked, Budget, Fenced, Exists
<1>2. ASSUME NEW S \in SUBSET Items, Drop(S) PROVE IInv'
  <2> USE <1>2 DEF Drop, TypeOK, ItemState
  <2>1. \A v \in Workers, j \in Items : Fenced(v, j)' => Fenced(v, j)
    BY DEF Fenced, Exists
  <2>2. \A j \in Items : state'[j] # "gone" => state'[j] = state[j]
    OBVIOUS
  <2>3. TokensBehind' /\ AbsentUntouched' /\ Budget'
    BY <2>2 DEF TokensBehind, AbsentUntouched, Budget
  <2>4. LeaseExclusive'
    BY <2>1 DEF LeaseExclusive
  <2>5. SettledUnheld' /\ SucceededMarked'
    BY <2>1, <2>2 DEF SettledUnheld, SucceededMarked
  <2> QED
    BY <2>3, <2>4, <2>5
<1>3. ASSUME NEW i \in Items, BackOff(i) \/ Lapse(i) PROVE IInv'
  BY <1>3 DEF BackOff, Lapse, TypeOK, ItemState, TokensBehind, LeaseExclusive,
     AbsentUntouched, SettledUnheld, SucceededMarked, Budget, Fenced, Exists
<1>4. ASSUME NEW w \in Workers, NEW i \in Items, Lease(w, i) PROVE IInv'
  <2> USE <1>4 DEF Lease, Leasable, TypeOK, ItemState
  <2>1. TokensBehind'
    BY DEF TokensBehind
  <2>2. LeaseExclusive' /\ SettledUnheld' /\ SucceededMarked'
    BY DEF TokensBehind, LeaseExclusive, SettledUnheld, SucceededMarked, Fenced,
       Exists
  <2>3. AbsentUntouched' /\ Budget'
    BY DEF AbsentUntouched, Budget
  <2> QED
    BY <2>1, <2>2, <2>3
<1>5. ASSUME NEW w \in Workers, NEW i \in Items, Complete(w, i) PROVE IInv'
  <2> USE <1>5 DEF Complete, TypeOK, ItemState
  <2>1. TokensBehind' /\ AbsentUntouched'
    BY DEF TokensBehind, AbsentUntouched, Fenced, Exists
  <2>2. LeaseExclusive' /\ SettledUnheld' /\ SucceededMarked'
    BY DEF LeaseExclusive, SettledUnheld, SucceededMarked, Fenced, Exists
  <2>3. Budget'
    BY DEF Budget, SettledUnheld
  <2> QED
    BY <2>1, <2>2, <2>3
<1>6. ASSUME NEW w \in Workers, NEW i \in Items, Retry(w, i) PROVE IInv'
  <2> USE <1>6 DEF Retry, RetryState, LetGo, TypeOK, ItemState
  <2>1. TokensBehind' /\ AbsentUntouched'
    BY DEF TokensBehind, AbsentUntouched, Fenced, Exists
  <2>2. LeaseExclusive' /\ SettledUnheld' /\ SucceededMarked'
    BY DEF LeaseExclusive, SettledUnheld, SucceededMarked, Fenced, Exists
  <2>3. Budget'
    BY DEF Budget, SettledUnheld
  <2> QED
    BY <2>1, <2>2, <2>3
<1>7. ASSUME NEW w \in Workers, LogAttempt(w) \/ Die(w) PROVE IInv'
  <2>1. LetGo(w) /\ UNCHANGED <<state, epoch, due, lapses>>
    BY <1>7 DEF LogAttempt, Die
  <2>2. \A v \in Workers, j \in Items : Fenced(v, j)' => Fenced(v, j) /\ v # w
    BY <2>1 DEF LetGo, Fenced, Exists, TypeOK
  <2>3. TokensBehind' /\ AbsentUntouched' /\ Budget'
    BY <2>1 DEF LetGo, TokensBehind, AbsentUntouched, Budget, TypeOK
  <2>4. LeaseExclusive' /\ SettledUnheld'
    BY <2>1, <2>2 DEF LeaseExclusive, SettledUnheld
  <2>5. SucceededMarked'
    BY <2>1, <2>2 DEF LetGo, SucceededMarked, TypeOK
  <2> QED
    BY <2>3, <2>4, <2>5
<1>8. CASE UNCHANGED vars \/ \E w \in Workers : Restart(w)
  BY <1>8 DEF vars, Restart, TokensBehind, LeaseExclusive, AbsentUntouched,
     SettledUnheld, SucceededMarked, Budget, Fenced, Exists
<1> QED
  BY <1>1, <1>2, <1>3, <1>4, <1>5, <1>6, <1>7, <1>8 DEF Next

\* The invariant holds throughout.
THEOREM Invariance == Spec => []IInv
<1>1. Init => IInv
  BY DEF Init, IInv, TypeOK, ItemState, TokensBehind, LeaseExclusive,
     AbsentUntouched, SettledUnheld, SucceededMarked, Budget, Fenced, Exists
<1> QED
  BY <1>1, IInvStep, PTL DEF Spec

\* No two workers ever pass the fence of complete_work_item and
\* retry_work_item for one row.
THEOREM Exclusive == Spec => []LeaseExclusive
  BY Invariance, PTL DEF IInv

\* Erring attempts are bounded by max_attempts, all attempts by that plus the
\* number of lapsed leases.
THEOREM Budgeted == Spec => []RetryBudget
<1>1. IInv => RetryBudget
  BY DEF IInv, Budget, RetryBudget
<1> QED
  BY <1>1, Invariance, PTL

\* complete_work_item and retry_work_item never revive a failed row.
THEOREM FailedStays == Spec => FailedIsFinal
<1>1. IInv /\ [Next]_vars =>
        [\A i \in Items : state[i] = "failed" => state'[i] \in {"failed", "gone"}]_vars
  <2> SUFFICES ASSUME IInv, Next, NEW j \in Items, state[j] = "failed"
               PROVE  state'[j] \in {"failed", "gone"}
    BY DEF FailedIsFinal
  <2> USE DEF IInv, TypeOK
  <2>1. ASSUME NEW S \in SUBSET Items, Create(S) \/ Drop(S)
        PROVE  state'[j] \in {"failed", "gone"}
    BY <2>1 DEF Create, Drop
  <2>2. ASSUME NEW w \in Workers, NEW i \in Items,
               Lease(w, i) \/ Complete(w, i) \/ Retry(w, i)
        PROVE  state'[j] \in {"failed", "gone"}
    BY <2>2 DEF Lease, Leasable, Complete, Retry, SettledUnheld
  <2>3. ASSUME \/ \E i \in Items : BackOff(i) \/ Lapse(i)
               \/ \E w \in Workers : LogAttempt(w) \/ Die(w) \/ Restart(w)
        PROVE  state'[j] \in {"failed", "gone"}
    BY <2>3 DEF BackOff, Lapse, LogAttempt, Die, Restart
  <2> QED
    BY <2>1, <2>2, <2>3 DEF Next
<1> QED
  BY <1>1, Invariance, PTL DEF Spec, FailedIsFinal

\* Only the worker whose attempt log failed reopens a row it has completed.
THEOREM ReopenedByCompleter == Spec => OnlyCompleterReopens
<1> DEFINE Reopen ==
      \A i \in Items :
        state[i] = "succeeded" /\ state'[i] \notin {"succeeded", "gone"}
          => \E w \in Workers : marked[w] /\ Fenced(w, i)
<1>1. IInv /\ [Next]_vars => [Reopen]_vars
  <2> SUFFICES ASSUME IInv, Next, NEW j \in Items, state[j] = "succeeded",
                      state'[j] \notin {"succeeded", "gone"}
               PROVE  \E w \in Workers : marked[w] /\ Fenced(w, j)
    OBVIOUS
  <2> USE DEF IInv, TypeOK
  <2>1. ASSUME NEW S \in SUBSET Items, Create(S) \/ Drop(S) PROVE FALSE
    BY <2>1 DEF Create, Drop
  <2>2. ASSUME NEW w \in Workers, NEW i \in Items, Lease(w, i) \/ Complete(w, i)
        PROVE  FALSE
    BY <2>2 DEF Lease, Leasable, Complete
  <2>3. ASSUME NEW w \in Workers, NEW i \in Items, Retry(w, i)
        PROVE  marked[w] /\ Fenced(w, j)
    BY <2>3 DEF Retry, SucceededMarked
  <2>4. ASSUME \/ \E i \in Items : BackOff(i) \/ Lapse(i)
               \/ \E w \in Workers : LogAttempt(w) \/ Die(w) \/ Restart(w)
        PROVE  FALSE
    BY <2>4 DEF BackOff, Lapse, LogAttempt, Die, Restart
  <2> QED
    BY <2>1, <2>2, <2>3, <2>4 DEF Next
<1> QED
  BY <1>1, Invariance, PTL DEF Spec, OnlyCompleterReopens

-----------------------------------------------------------------------------
\* Why a worker may find its row taken: a lease of it has lapsed, or the job was
\* deleted.
LossExplained ==
  /\ \A i \in Items : state[i] = "leased" /\ due[i] => lapses[i] > 0
  /\ \A w \in Workers, i \in Items :
       held[w] = i /\ ~Fenced(w, i) => state[i] = "gone" \/ lapses[i] > 0

\* Each step that takes a row away leaves the reason for it.
LEMMA LossStep == IInv /\ LossExplained /\ [Next]_vars => LossExplained'
<1> SUFFICES ASSUME IInv, LossExplained, [Next]_vars PROVE LossExplained'
  OBVIOUS
<1> USE DEF IInv, TypeOK, ItemState, LossExplained, Fenced, Exists
<1>1. ASSUME NEW S \in SUBSET Items, Create(S) \/ Drop(S) PROVE LossExplained'
  <2>1. CASE Create(S)
    BY <2>1 DEF Create, AbsentUntouched
  <2>2. CASE Drop(S)
    BY <2>2 DEF Drop
  <2> QED
    BY <1>1, <2>1, <2>2
<1>2. ASSUME NEW i \in Items, BackOff(i) \/ Lapse(i) PROVE LossExplained'
  BY <1>2 DEF BackOff, Lapse
<1>3. ASSUME NEW w \in Workers, NEW i \in Items, Lease(w, i) PROVE LossExplained'
  BY <1>3 DEF Lease, Leasable, SettledUnheld
<1>4. ASSUME NEW w \in Workers, NEW i \in Items, Complete(w, i) PROVE LossExplained'
  BY <1>4 DEF Complete
<1>5. ASSUME NEW w \in Workers, NEW i \in Items, Retry(w, i) PROVE LossExplained'
  BY <1>5 DEF Retry, RetryState, LetGo
<1>6. ASSUME NEW w \in Workers, LogAttempt(w) \/ Die(w) \/ Restart(w) PROVE LossExplained'
  BY <1>6 DEF LogAttempt, Die, Restart, LetGo
<1>7. CASE UNCHANGED vars
  BY <1>7 DEF vars
<1> HIDE DEF IInv, TypeOK, LossExplained
<1> QED
  BY <1>1, <1>2, <1>3, <1>4, <1>5, <1>6, <1>7 DEF Next

\* A worker loses its row only to a lapsed lease or to the deletion of the job:
\* nothing else makes the WHERE clause of complete or retry_work_item miss.
THEOREM LossHasCause == Spec => []LossExplained
<1>1. Init => LossExplained
  BY DEF Init, LossExplained, Fenced, Exists
<1> QED
  BY <1>1, Invariance, LossStep, PTL DEF Spec

\* The row has failed, went with its job, or a lease of it has lapsed.
Excused(i) == state[i] \in {"failed", "gone"} \/ lapses[i] > 0

\* Such a row stays so.
LEMMA ExcusedStays == IInv /\ [Next]_vars => \A i \in Items : Excused(i) => Excused(i)'
<1> SUFFICES ASSUME IInv, [Next]_vars, NEW j \in Items, Excused(j) PROVE Excused(j)'
  OBVIOUS
<1> USE DEF IInv, TypeOK, Excused
<1>1. ASSUME NEW S \in SUBSET Items, Create(S) \/ Drop(S) PROVE Excused(j)'
  BY <1>1 DEF Create, Drop, Exists
<1>2. ASSUME NEW w \in Workers, NEW i \in Items, Lease(w, i) PROVE Excused(j)'
  BY <1>2 DEF Lease, Leasable
<1>3. ASSUME NEW w \in Workers, NEW i \in Items, Complete(w, i) \/ Retry(w, i)
      PROVE  Excused(j)'
  BY <1>3 DEF Complete, Retry, SettledUnheld, Fenced, Exists
<1>4. ASSUME NEW i \in Items, BackOff(i) \/ Lapse(i) PROVE Excused(j)'
  BY <1>4 DEF BackOff, Lapse
<1>5. ASSUME NEW w \in Workers, LogAttempt(w) \/ Die(w) \/ Restart(w) PROVE Excused(j)'
  BY <1>5 DEF LogAttempt, Die, Restart
<1>6. CASE UNCHANGED vars
  BY <1>6 DEF vars
<1> HIDE DEF IInv, TypeOK, Excused
<1> QED
  BY <1>1, <1>2, <1>3, <1>4, <1>5, <1>6 DEF Next

\* retry_work_item answers anything but True only for such a row.
LEMMA RefusedRetry ==
  ASSUME IInv, LossExplained, NEW w \in Workers, NEW i \in Items,
         Retry(w, i), ~RetryReturns(w, i)
  PROVE  Excused(i)'
<1>1. CASE Fenced(w, i)
  BY <1>1 DEF Retry, RetryReturns, RetryState, Excused, IInv, TypeOK
<1>2. CASE ~Fenced(w, i)
  BY <1>2 DEF Retry, LossExplained, Excused
<1> QED
  BY <1>1, <1>2
=============================================================================
