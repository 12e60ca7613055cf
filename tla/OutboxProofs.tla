---------------------------- MODULE OutboxProofs ----------------------------
(***************************************************************************)
(* Proofs about Outbox: a published row is in Kafka, and the outbox        *)
(* implements AtLeastOnce, for any number of publishers, rows and faults.  *)
(* The invariant follows a row through a publisher: what a publisher works *)
(* on was enqueued, and what it is about to mark has been sent.  A budget  *)
(* bounds the copies of a row: every fault pays for one.                   *)
(***************************************************************************)
EXTENDS Outbox, FiniteSetTheorems, TLAPS

\* Publishers only hold committed rows.
BatchesCommitted ==
  \A p \in Publishers : \A m \in batch[p] \union cur[p] : row[m] # "absent"

\* Between the send and mark_outbox_published a copy is in the topic.
MarkedWasSent ==
  \A p \in Publishers : pc[p] = "mark" =>
    \E m \in Messages : cur[p] = {m} /\ copies[m] > 0

IInv ==
  /\ TypeOK
  /\ BatchesCommitted
  /\ MarkedWasSent
  /\ PublishedIsInKafka

USE LimitAssumption, MaxFaultsAssumption

\* Every action keeps the variables in their types.
LEMMA TypeStep == TypeOK /\ [Next]_vars => TypeOK'
<1> SUFFICES ASSUME TypeOK, [Next]_vars PROVE TypeOK'
  OBVIOUS
<1> USE DEF TypeOK, RowState, Serving, Goto, Fault
<1>1. ASSUME NEW S \in SUBSET Messages, Enqueue(S) PROVE TypeOK'
  BY <1>1 DEF Enqueue
<1>2. ASSUME NEW p \in Publishers, Start(p) PROVE TypeOK'
  BY <1>2 DEF Start
<1>3. ASSUME NEW p \in Publishers, Claim(p) PROVE TypeOK'
  BY <1>3 DEF Claim
<1>4. ASSUME NEW p \in Publishers, NEW m \in Messages, SendAcked(p, m)
      PROVE  TypeOK'
  BY <1>4 DEF SendAcked
<1>5. ASSUME NEW p \in Publishers, NEW m \in Messages, SendRaises(p, m)
      PROVE  TypeOK'
  BY <1>5 DEF SendRaises
<1>6. ASSUME NEW p \in Publishers, MarkPublished(p) \/ MarkError(p)
      PROVE  TypeOK'
  BY <1>6 DEF MarkPublished, MarkError, NextRow
<1>7. ASSUME NEW p \in Publishers, MarkRaises(p) \/ TaskDies(p) \/ Crash(p)
      PROVE  TypeOK'
  BY <1>7 DEF MarkRaises, TaskDies, Crash
<1>8. ASSUME NEW m \in Messages, ClaimLapses(m) PROVE TypeOK'
  BY <1>8 DEF ClaimLapses
<1>9. ASSUME KafkaFails \/ KafkaRecovers PROVE TypeOK'
  <2>1. kafka' \in BOOLEAN
    BY <1>9 DEF KafkaFails, KafkaRecovers
  <2>2. UNCHANGED <<row, copies, pc, batch, cur>>
    BY <1>9 DEF KafkaFails, KafkaRecovers
  <2>3. faults' \in 0..MaxFaults
    BY <1>9 DEF KafkaFails, KafkaRecovers
  <2> QED
    BY <2>1, <2>2, <2>3
<1>10. CASE UNCHANGED vars
  BY <1>10 DEF vars
<1> QED
  BY <1>1, <1>2, <1>3, <1>4, <1>5, <1>6, <1>7, <1>8, <1>9, <1>10 DEF Next

\* The inductive step.
LEMMA IInvStep == IInv /\ [Next]_vars => IInv'
<1> SUFFICES ASSUME IInv, [Next]_vars, TypeOK' PROVE IInv'
  BY TypeStep DEF IInv
<1> USE DEF IInv, TypeOK, RowState, Goto, BatchesCommitted, MarkedWasSent,
            PublishedIsInKafka
<1>1. ASSUME NEW S \in SUBSET Messages, Enqueue(S) PROVE IInv'
  BY <1>1 DEF Enqueue
<1>2. ASSUME NEW p \in Publishers, Start(p) PROVE IInv'
  BY <1>2 DEF Start
<1>3. ASSUME NEW p \in Publishers, Claim(p) PROVE IInv'
  <2>1. PICK T \in SUBSET {m \in Messages : Claimable(m)} :
          /\ row' = [m \in Messages |-> IF m \in T THEN "claimed" ELSE row[m]]
          /\ batch' = [batch EXCEPT ![p] = T]
    BY <1>3 DEF Claim
  <2>2. pc' = [pc EXCEPT ![p] = "send"] /\ UNCHANGED <<copies, cur>>
    BY <1>3 DEF Claim
  <2> QED
    BY <2>1, <2>2
<1>4. ASSUME NEW p \in Publishers, NEW m \in Messages,
             SendAcked(p, m) \/ SendRaises(p, m)
      PROVE  IInv'
  BY <1>4 DEF SendAcked, SendRaises
<1>5. ASSUME NEW p \in Publishers, MarkPublished(p) \/ MarkError(p)
      PROVE  IInv'
  BY <1>5 DEF MarkPublished, MarkError, NextRow
<1>6. ASSUME NEW p \in Publishers, MarkRaises(p) \/ TaskDies(p) \/ Crash(p)
      PROVE  IInv'
  BY <1>6 DEF MarkRaises, TaskDies, Crash
<1>7. ASSUME NEW m \in Messages, ClaimLapses(m) PROVE IInv'
  BY <1>7 DEF ClaimLapses
<1>8. ASSUME KafkaFails \/ KafkaRecovers \/ UNCHANGED vars PROVE IInv'
  BY <1>8 DEF KafkaFails, KafkaRecovers, vars
<1> QED
  BY <1>1, <1>2, <1>3, <1>4, <1>5, <1>6, <1>7, <1>8 DEF Next

\* The invariant holds throughout.
THEOREM Invariance == Spec => []IInv
<1>1. Init => IInv
  BY DEF Init, IInv, TypeOK, RowState, Serving, BatchesCommitted, MarkedWasSent,
         PublishedIsInKafka
<1> QED
  BY <1>1, IInvStep, PTL DEF Spec

\* The table, the publishers and the topic keep their types.
THEOREM TypeCorrect == Spec => []TypeOK
  BY Invariance, PTL DEF IInv

\* No row is marked published before a copy of it is in Kafka, whatever fails.
THEOREM PublishedSent == Spec => []PublishedIsInKafka
  BY Invariance, PTL DEF IInv

-----------------------------------------------------------------------------
\* One step of the outbox is a step of AtLeastOnce or leaves its variables alone.
LEMMA RefinementStep == IInv /\ IInv' /\ [Next]_vars => [Promise!Next]_(Promise!vars)
<1> SUFFICES ASSUME IInv, IInv', [Next]_vars PROVE [Promise!Next]_(Promise!vars)
  OBVIOUS
<1> DEFINE in == {m \in Messages : row[m] # "absent"}
           out == {m \in Messages : row[m] = "published"}
<1> USE DEF IInv, TypeOK, Goto, Promise!Next, Promise!vars
<1>1. ASSUME NEW S \in SUBSET Messages, Enqueue(S)
      PROVE  [Promise!Next]_(Promise!vars)
  <2>1. in' = in \union S /\ out' = out /\ copies' = copies
    BY <1>1 DEF Enqueue, RowState
  <2> QED
    BY <2>1 DEF Promise!Commit
<1>2. ASSUME in' = in, out' = out, copies' = copies
      PROVE  [Promise!Next]_(Promise!vars)
  BY <1>2
<1>3. ASSUME NEW p \in Publishers, Claim(p) PROVE [Promise!Next]_(Promise!vars)
  BY <1>2, <1>3 DEF Claim, Claimable
<1>4. ASSUME NEW p \in Publishers, NEW m \in Messages,
             SendAcked(p, m) \/ SendRaises(p, m)
      PROVE  [Promise!Next]_(Promise!vars)
  <2>1. m \in in /\ in' = in /\ out' = out
    BY <1>4 DEF SendAcked, SendRaises, BatchesCommitted
  <2>2. copies' = copies \/ copies' = [copies EXCEPT ![m] = @ + 1]
    BY <1>4 DEF SendAcked, SendRaises
  <2> QED
    BY <2>1, <2>2 DEF Promise!Deliver
<1>5. ASSUME NEW p \in Publishers, MarkPublished(p)
      PROVE  [Promise!Next]_(Promise!vars)
  <2>1. in' = in /\ copies' = copies
    BY <1>5 DEF MarkPublished, BatchesCommitted
  <2>2. PICK m \in Messages : cur[p] = {m} /\ copies[m] > 0
    BY <1>5 DEF MarkPublished, MarkedWasSent
  <2>3. m \in in
    BY <2>2 DEF BatchesCommitted
  <2>4. out' = out \union {m}
    BY <1>5, <2>2 DEF MarkPublished
  <2> QED
    BY <2>1, <2>2, <2>3, <2>4 DEF Promise!Settle
<1>6. ASSUME NEW p \in Publishers,
             Start(p) \/ MarkRaises(p) \/ MarkError(p) \/ TaskDies(p) \/ Crash(p)
      PROVE  [Promise!Next]_(Promise!vars)
  BY <1>2, <1>6 DEF Start, MarkRaises, MarkError, TaskDies, Crash
<1>7. ASSUME NEW m \in Messages, ClaimLapses(m) PROVE [Promise!Next]_(Promise!vars)
  BY <1>2, <1>7 DEF ClaimLapses
<1>8. ASSUME KafkaFails \/ KafkaRecovers \/ UNCHANGED vars
      PROVE  [Promise!Next]_(Promise!vars)
  BY <1>2, <1>8 DEF KafkaFails, KafkaRecovers, vars
<1> QED
  BY <1>1, <1>3, <1>4, <1>5, <1>6, <1>7, <1>8 DEF Next

\* The outbox keeps the promise of at-least-once delivery.
THEOREM Implements == Spec => ImplementsAtLeastOnce
<1>1. Init => Promise!Init
  BY DEF Init, Promise!Init
<1> QED
  BY <1>1, RefinementStep, Invariance, PTL DEF Spec, ImplementsAtLeastOnce, Promise!Spec

-----------------------------------------------------------------------------
(***************************************************************************)
(* Duplicates.  A copy of m may still be sent by every publisher that      *)
(* holds m and has not just sent it, and by whoever claims m, now or once  *)
(* a claim nobody works on has lapsed.  Together with the copies that are  *)
(* there they never exceed one more than the faults.                       *)
(***************************************************************************)
Held(m) == \E p \in Publishers : m \in batch[p]

MaySend(m) ==
  {p \in Publishers : m \in batch[p] /\ ~(pc[p] = "mark" /\ m \in cur[p])}

Open(m) == row[m] \in {"absent", "waiting", "stale"} \/ (row[m] = "claimed" /\ ~Held(m))

Budget(m) ==
  /\ IsFiniteSet(MaySend(m))
  /\ copies[m] + Cardinality(MaySend(m)) + (IF Open(m) THEN 1 ELSE 0) <= 1 + faults

\* Only a publisher in its loop over a batch has one.
AtWork ==
  \A p \in Publishers :
    /\ pc[p] \notin {"send", "mark", "error"} => batch[p] = {}
    /\ pc[p] \in {"mark", "error"} => \E m \in batch[p] : cur[p] = {m}

BudgetInv == AtWork /\ \A m \in Messages : Budget(m)

\* Publishers take up a batch when they claim it, and drop it with the loop.
LEMMA AtWorkStep == TypeOK /\ AtWork /\ [Next]_vars => AtWork'
<1> SUFFICES ASSUME TypeOK, AtWork, [Next]_vars PROVE AtWork'
  OBVIOUS
<1> USE DEF TypeOK, AtWork, Goto
<1>1. ASSUME NEW S \in SUBSET Messages, Enqueue(S) PROVE AtWork'
  BY <1>1 DEF Enqueue
<1>2. ASSUME NEW p \in Publishers, Start(p) PROVE AtWork'
  BY <1>2 DEF Start
<1>3. ASSUME NEW p \in Publishers, Claim(p) PROVE AtWork'
  BY <1>3 DEF Claim
<1>4. ASSUME NEW p \in Publishers, NEW m \in Messages, SendAcked(p, m) \/ SendRaises(p, m)
      PROVE  AtWork'
  BY <1>4 DEF SendAcked, SendRaises
<1>5. ASSUME NEW p \in Publishers, MarkPublished(p) \/ MarkError(p) PROVE AtWork'
  BY <1>5 DEF MarkPublished, MarkError, NextRow
<1>6. ASSUME NEW p \in Publishers, MarkRaises(p) \/ TaskDies(p) \/ Crash(p) PROVE AtWork'
  BY <1>6 DEF MarkRaises, TaskDies, Crash
<1>7. ASSUME NEW m \in Messages, ClaimLapses(m) PROVE AtWork'
  BY <1>7 DEF ClaimLapses
<1>8. ASSUME KafkaFails \/ KafkaRecovers \/ UNCHANGED vars PROVE AtWork'
  BY <1>8 DEF KafkaFails, KafkaRecovers, vars
<1> QED
  BY <1>1, <1>2, <1>3, <1>4, <1>5, <1>6, <1>7, <1>8 DEF Next

\* Adding or removing one publisher changes a count by at most one.
LEMMA CountByOne ==
  ASSUME NEW S, IsFiniteSet(S), NEW p
  PROVE  /\ Cardinality(S) \in Nat
         /\ IsFiniteSet(S \union {p}) /\ Cardinality(S \union {p}) \in Nat
         /\ Cardinality(S \union {p}) <= Cardinality(S) + 1
         /\ IsFiniteSet(S \ {p}) /\ Cardinality(S \ {p}) \in Nat
         /\ Cardinality(S \ {p}) <= Cardinality(S)
         /\ p \in S => Cardinality(S \ {p}) + 1 = Cardinality(S)
BY FS_CardinalityType, FS_AddElement, FS_RemoveElement

\* A step that changes nothing for m, but perhaps the number of faults.
LEMMA BudgetSame ==
  ASSUME TypeOK, TypeOK', NEW m \in Messages, Budget(m), copies'[m] = copies[m],
         MaySend(m)' = MaySend(m), Open(m)' => Open(m), faults <= faults'
  PROVE  Budget(m)'
BY FS_CardinalityType DEF Budget, TypeOK

\* A step that pays with a fault for one more copy, claim or sender.
LEMMA BudgetPaid ==
  ASSUME TypeOK, TypeOK', NEW m \in Messages, Budget(m), faults' = faults + 1,
         \/ /\ copies'[m] <= copies[m] + 1 /\ MaySend(m)' = MaySend(m)
            /\ Open(m)' => Open(m)
         \/ /\ copies'[m] = copies[m] /\ MaySend(m)' = MaySend(m)
         \/ /\ copies'[m] = copies[m] /\ (Open(m)' => Open(m))
            /\ \E p : MaySend(m)' = MaySend(m) \union {p}
         \/ /\ copies'[m] = copies[m] /\ \E p : MaySend(m)' = MaySend(m) \ {p}
  PROVE  Budget(m)'
<1>1. IsFiniteSet(MaySend(m)) /\ Cardinality(MaySend(m)) \in Nat
  BY FS_CardinalityType DEF Budget
<1>2. CASE copies'[m] <= copies[m] + 1 /\ MaySend(m)' = MaySend(m) /\ (Open(m)' => Open(m))
  BY <1>1, <1>2 DEF Budget, TypeOK
<1>3. CASE copies'[m] = copies[m] /\ MaySend(m)' = MaySend(m)
  BY <1>1, <1>3 DEF Budget, TypeOK
<1>4. ASSUME NEW p, copies'[m] = copies[m], Open(m)' => Open(m),
             MaySend(m)' = MaySend(m) \union {p}
      PROVE  Budget(m)'
  <2>1. IsFiniteSet(MaySend(m)') /\ Cardinality(MaySend(m)') <= Cardinality(MaySend(m)) + 1
    <3>1. /\ IsFiniteSet(MaySend(m) \union {p})
          /\ Cardinality(MaySend(m) \union {p}) <= Cardinality(MaySend(m)) + 1
      BY <1>1, CountByOne
    <3> QED
      BY <1>4, <3>1
  <2>2. Cardinality(MaySend(m)') \in Nat
    BY <2>1, FS_CardinalityType
  <2> QED
    BY <1>1, <1>4, <2>1, <2>2 DEF Budget, TypeOK
<1>5. ASSUME NEW p, copies'[m] = copies[m], MaySend(m)' = MaySend(m) \ {p}
      PROVE  Budget(m)'
  <2>1. IsFiniteSet(MaySend(m)') /\ Cardinality(MaySend(m)') <= Cardinality(MaySend(m))
    BY <1>1, <1>5, CountByOne
  <2>2. Cardinality(MaySend(m)') \in Nat
    BY <2>1, FS_CardinalityType
  <2> QED
    BY <1>1, <1>5, <2>1, <2>2 DEF Budget, TypeOK
<1> QED
  BY <1>2, <1>3, <1>4, <1>5

\* A step that moves a claim to a sender, or a sender's copy to the topic or back to
\* the table.
LEMMA BudgetMoved ==
  ASSUME TypeOK, TypeOK', NEW m \in Messages, Budget(m), faults' = faults, NEW p,
         \/ /\ copies'[m] = copies[m] /\ Open(m) /\ ~Open(m)'
            /\ MaySend(m)' = MaySend(m) \union {p}
         \/ /\ copies'[m] = copies[m] + 1 /\ (Open(m)' => Open(m))
            /\ p \in MaySend(m) /\ MaySend(m)' = MaySend(m) \ {p}
         \/ /\ copies'[m] = copies[m]
            /\ p \in MaySend(m) /\ MaySend(m)' = MaySend(m) \ {p}
         \/ /\ copies'[m] = copies[m] /\ ~Open(m)' /\ MaySend(m)' = MaySend(m) \ {p}
  PROVE  Budget(m)'
<1>1. IsFiniteSet(MaySend(m)) /\ Cardinality(MaySend(m)) \in Nat
  BY FS_CardinalityType DEF Budget
<1>2. CASE /\ copies'[m] = copies[m] /\ Open(m) /\ ~Open(m)'
           /\ MaySend(m)' = MaySend(m) \union {p}
  <2>1. IsFiniteSet(MaySend(m)') /\ Cardinality(MaySend(m)') <= Cardinality(MaySend(m)) + 1
    BY <1>1, <1>2, CountByOne
  <2>2. Cardinality(MaySend(m)') \in Nat
    BY <2>1, FS_CardinalityType
  <2> QED
    BY <1>1, <1>2, <2>1, <2>2 DEF Budget, TypeOK
<1>3. CASE /\ copies'[m] = copies[m] + 1 /\ (Open(m)' => Open(m))
           /\ p \in MaySend(m) /\ MaySend(m)' = MaySend(m) \ {p}
  <2>1. IsFiniteSet(MaySend(m)') /\ Cardinality(MaySend(m)') + 1 = Cardinality(MaySend(m))
    BY <1>1, <1>3, CountByOne
  <2>2. Cardinality(MaySend(m)') \in Nat
    BY <2>1, FS_CardinalityType
  <2> QED
    BY <1>1, <1>3, <2>1, <2>2 DEF Budget, TypeOK
<1>4. CASE /\ copies'[m] = copies[m]
           /\ p \in MaySend(m) /\ MaySend(m)' = MaySend(m) \ {p}
  <2>1. IsFiniteSet(MaySend(m)') /\ Cardinality(MaySend(m)') + 1 = Cardinality(MaySend(m))
    BY <1>1, <1>4, CountByOne
  <2>2. Cardinality(MaySend(m)') \in Nat
    BY <2>1, FS_CardinalityType
  <2> QED
    BY <1>1, <1>4, <2>1, <2>2 DEF Budget, TypeOK
<1>5. CASE copies'[m] = copies[m] /\ ~Open(m)' /\ MaySend(m)' = MaySend(m) \ {p}
  <2>1. IsFiniteSet(MaySend(m)') /\ Cardinality(MaySend(m)') <= Cardinality(MaySend(m))
    BY <1>1, <1>5, CountByOne
  <2>2. Cardinality(MaySend(m)') \in Nat
    BY <2>1, FS_CardinalityType
  <2> QED
    BY <1>1, <1>5, <2>1, <2>2 DEF Budget, TypeOK
<1> QED
  BY <1>2, <1>3, <1>4, <1>5

\* What each step costs.
LEMMA BudgetStep == TypeOK /\ TypeOK' /\ BudgetInv /\ [Next]_vars => BudgetInv'
<1> SUFFICES ASSUME TypeOK, TypeOK', AtWork, [Next]_vars, NEW m \in Messages, Budget(m)
             PROVE  Budget(m)'
  BY AtWorkStep DEF BudgetInv
<1>0. faults \in Nat /\ copies[m] \in Nat
  BY DEF TypeOK
<1>1. ASSUME NEW S \in SUBSET Messages, Enqueue(S) PROVE Budget(m)'
  <2>1. /\ copies' = copies /\ pc' = pc /\ batch' = batch /\ cur' = cur /\ faults' = faults
        /\ row'[m] # row[m] => row[m] = "absent" /\ row'[m] = "waiting"
    BY <1>1 DEF Enqueue
  <2>2. Open(m)' => Open(m)
    BY <2>1 DEF Open, Held
  <2>3. MaySend(m)' = MaySend(m)
    BY <2>1 DEF MaySend
  <2> QED
    BY <1>0, <2>1, <2>2, <2>3, BudgetSame
<1>2. ASSUME NEW p \in Publishers, Start(p) PROVE Budget(m)'
  <2>1. /\ UNCHANGED <<row, copies, batch, cur, faults>>
        /\ \A q \in Publishers : pc[q] = "mark" <=> pc'[q] = "mark"
    BY <1>2 DEF Start, Goto, TypeOK
  <2>2. (Open(m)' => Open(m)) /\ MaySend(m)' = MaySend(m)
    BY <2>1 DEF Open, Held, MaySend
  <2> QED
    BY <1>0, <2>1, <2>2, BudgetSame
<1>3. ASSUME NEW p \in Publishers, Claim(p) PROVE Budget(m)'
  <2>1. PICK T \in SUBSET {k \in Messages : Claimable(k)} :
          /\ row' = [k \in Messages |-> IF k \in T THEN "claimed" ELSE row[k]]
          /\ batch' = [batch EXCEPT ![p] = T]
    BY <1>3 DEF Claim
  <2>2. /\ pc[p] = "poll" /\ batch[p] = {} /\ pc' = [pc EXCEPT ![p] = "send"]
        /\ UNCHANGED <<copies, cur, faults>>
    BY <1>3 DEF Claim, Goto, AtWork
  <2>3. CASE m \in T
    <3>1. Open(m) /\ row'[m] = "claimed" /\ m \in batch'[p]
      BY <2>1, <2>3 DEF Open, Claimable, TypeOK
    <3>2. ~Open(m)'
      BY <3>1 DEF Open, Held
    <3>3. MaySend(m)' = MaySend(m) \union {p}
      BY <2>1, <2>2, <2>3 DEF MaySend, TypeOK
    <3> QED
      BY <2>2, <3>1, <3>2, <3>3, BudgetMoved
  <2>4. CASE m \notin T
    <3>1. row'[m] = row[m] /\ \A q \in Publishers : m \in batch'[q] <=> m \in batch[q]
      BY <2>1, <2>2, <2>4 DEF TypeOK
    <3>2. Open(m)' => Open(m)
      BY <3>1 DEF Open, Held
    <3>3. MaySend(m)' = MaySend(m)
      BY <2>2, <3>1 DEF MaySend, TypeOK
    <3> QED
      BY <1>0, <2>2, <3>2, <3>3, BudgetSame
  <2> QED
    BY <2>3, <2>4
<1>4. ASSUME NEW p \in Publishers, NEW k \in Messages, SendAcked(p, k) PROVE Budget(m)'
  <2>1. /\ pc[p] = "send" /\ pc' = [pc EXCEPT ![p] = "mark"] /\ cur' = [cur EXCEPT ![p] = {k}]
        /\ k \in batch[p] /\ copies' = [copies EXCEPT ![k] = copies[k] + 1]
        /\ UNCHANGED <<row, batch, faults>>
    BY <1>4 DEF SendAcked, Goto
  <2>2. Open(m)' => Open(m)
    BY <2>1 DEF Open, Held
  <2>3. CASE m = k
    <3>1. copies'[m] = copies[m] + 1 /\ p \in MaySend(m)
      BY <2>1, <2>3 DEF MaySend, TypeOK
    <3>2. MaySend(m)' = MaySend(m) \ {p}
      BY <2>1, <2>3 DEF MaySend, TypeOK
    <3> QED
      BY <2>1, <2>2, <3>1, <3>2, BudgetMoved
  <2>4. CASE m # k
    <3>1. copies'[m] = copies[m]
      BY <2>1, <2>4 DEF TypeOK
    <3>2. MaySend(m)' = MaySend(m)
      BY <2>1, <2>4 DEF MaySend, TypeOK
    <3> QED
      BY <1>0, <2>1, <2>2, <3>1, <3>2, BudgetSame
  <2> QED
    BY <2>3, <2>4
<1>5. ASSUME NEW p \in Publishers, NEW k \in Messages, SendRaises(p, k) PROVE Budget(m)'
  <2>1. /\ pc[p] = "send" /\ pc' = [pc EXCEPT ![p] = "error"] /\ cur' = [cur EXCEPT ![p] = {k}]
        /\ UNCHANGED <<row, batch>>
        /\ \/ copies'[m] = copies[m] /\ faults' = faults
           \/ copies'[m] <= copies[m] + 1 /\ faults' = faults + 1
    BY <1>5 DEF SendRaises, Goto, Fault, TypeOK
  <2>2. Open(m)' => Open(m)
    BY <2>1 DEF Open, Held
  <2>3. MaySend(m)' = MaySend(m)
    BY <2>1 DEF MaySend, TypeOK
  <2> QED
    BY <1>0, <2>1, <2>2, <2>3, BudgetSame, BudgetPaid
<1>6. ASSUME NEW p \in Publishers, MarkPublished(p) PROVE Budget(m)'
  <2>1. PICK k \in batch[p] : cur[p] = {k}
    BY <1>6 DEF MarkPublished, AtWork
  <2>2. /\ pc[p] = "mark" /\ \A q \in Publishers \ {p} : pc'[q] = pc[q]
        /\ pc'[p] \in {"poll", "send"}
        /\ batch' = [batch EXCEPT ![p] = batch[p] \ {k}] /\ cur' = [cur EXCEPT ![p] = {}]
        /\ row' = [j \in Messages |-> IF j = k THEN "published" ELSE row[j]]
        /\ UNCHANGED <<copies, faults>>
    BY <1>6, <2>1 DEF MarkPublished, NextRow, Goto, TypeOK
  <2>3. CASE m = k
    <3>1. ~Open(m)'
      BY <2>2, <2>3 DEF Open
    <3>2. MaySend(m)' = MaySend(m) \ {p}
      BY <2>2, <2>3 DEF MaySend, TypeOK
    <3> QED
      BY <2>2, <3>1, <3>2, BudgetMoved
  <2>4. CASE m # k
    <3>1. row'[m] = row[m] /\ \A q \in Publishers : m \in batch'[q] <=> m \in batch[q]
      BY <2>2, <2>4 DEF TypeOK
    <3>2. Open(m)' => Open(m)
      BY <3>1 DEF Open, Held
    <3>3. MaySend(m)' = MaySend(m)
      BY <2>1, <2>2, <2>4, <3>1 DEF MaySend, TypeOK
    <3> QED
      BY <1>0, <2>2, <3>2, <3>3, BudgetSame
  <2> QED
    BY <2>3, <2>4
<1>7. ASSUME NEW p \in Publishers, MarkError(p) PROVE Budget(m)'
  <2>1. PICK k \in batch[p] : cur[p] = {k}
    BY <1>7 DEF MarkError, AtWork
  <2>2. /\ pc[p] = "error" /\ \A q \in Publishers \ {p} : pc'[q] = pc[q]
        /\ pc'[p] \in {"poll", "send"}
        /\ batch' = [batch EXCEPT ![p] = batch[p] \ {k}] /\ cur' = [cur EXCEPT ![p] = {}]
        /\ UNCHANGED <<row, copies, faults>>
    BY <1>7, <2>1 DEF MarkError, NextRow, Goto, TypeOK
  <2>3. CASE m = k
    <3>1. p \in MaySend(m)
      BY <2>1, <2>2, <2>3 DEF MaySend
    <3>2. MaySend(m)' = MaySend(m) \ {p}
      BY <2>2, <2>3 DEF MaySend, TypeOK
    <3> QED
      BY <2>2, <3>1, <3>2, BudgetMoved
  <2>4. CASE m # k
    <3>1. \A q \in Publishers : m \in batch'[q] <=> m \in batch[q]
      BY <2>2, <2>4 DEF TypeOK
    <3>2. Open(m)' => Open(m)
      BY <2>2, <3>1 DEF Open, Held
    <3>3. MaySend(m)' = MaySend(m)
      BY <2>1, <2>2, <2>4, <3>1 DEF MaySend, TypeOK
    <3> QED
      BY <1>0, <2>2, <3>2, <3>3, BudgetSame
  <2> QED
    BY <2>3, <2>4
<1>8. ASSUME NEW p \in Publishers, MarkRaises(p) PROVE Budget(m)'
  <2>1. PICK k \in batch[p] : cur[p] = {k}
    BY <1>8 DEF MarkRaises, AtWork
  <2>2. /\ pc[p] = "mark" /\ pc' = [pc EXCEPT ![p] = "error"]
        /\ UNCHANGED <<row, copies, batch, cur>> /\ faults' = faults + 1
    BY <1>8 DEF MarkRaises, Goto, Fault
  <2>3. Open(m)' => Open(m)
    BY <2>2 DEF Open, Held
  <2>4. CASE m = k
    <3>1. MaySend(m)' = MaySend(m) \union {p}
      BY <2>1, <2>2, <2>4 DEF MaySend, TypeOK
    <3> QED
      BY <2>2, <2>3, <3>1, BudgetPaid
  <2>5. CASE m # k
    <3>1. MaySend(m)' = MaySend(m)
      BY <2>1, <2>2, <2>5 DEF MaySend, TypeOK
    <3> QED
      BY <2>2, <2>3, <3>1, BudgetPaid
  <2> QED
    BY <2>4, <2>5
<1>9. ASSUME NEW p \in Publishers, TaskDies(p) \/ Crash(p) PROVE Budget(m)'
  <2>1. /\ \A q \in Publishers \ {p} : pc'[q] = pc[q] /\ batch'[q] = batch[q] /\ cur'[q] = cur[q]
        /\ batch'[p] = {} /\ copies' = copies /\ faults' = faults + 1
    BY <1>9 DEF TaskDies, Crash, Goto, Fault, TypeOK
  <2>2. MaySend(m)' = MaySend(m) \ {p}
    BY <2>1 DEF MaySend
  <2> QED
    BY <2>1, <2>2, BudgetPaid
<1>10. ASSUME NEW k \in Messages, ClaimLapses(k) PROVE Budget(m)'
  <2>1. /\ row[k] = "claimed" /\ row' = [row EXCEPT ![k] = "stale"]
        /\ UNCHANGED <<copies, pc, batch, cur>>
        /\ IF Held(k) THEN faults' = faults + 1 ELSE faults' = faults
    BY <1>10 DEF ClaimLapses, Held, Fault
  <2>2. MaySend(m)' = MaySend(m)
    BY <2>1 DEF MaySend
  <2>3. CASE Held(k)
    BY <2>1, <2>2, <2>3, BudgetPaid
  <2>4. CASE ~Held(k)
    <3>1. Open(m)' => Open(m)
      BY <2>1, <2>4 DEF Open, Held, TypeOK
    <3> QED
      BY <1>0, <2>1, <2>2, <2>4, <3>1, BudgetSame
  <2> QED
    BY <2>3, <2>4
<1>11. ASSUME KafkaFails \/ KafkaRecovers \/ UNCHANGED vars PROVE Budget(m)'
  <2>1. UNCHANGED <<row, copies, pc, batch, cur>> /\ faults <= faults'
    BY <1>0, <1>11 DEF KafkaFails, KafkaRecovers, vars, Fault
  <2>2. (Open(m)' => Open(m)) /\ MaySend(m)' = MaySend(m)
    BY <2>1 DEF Open, Held, MaySend
  <2> QED
    BY <2>1, <2>2, BudgetSame
<1> QED
  BY <1>1, <1>2, <1>3, <1>4, <1>5, <1>6, <1>7, <1>8, <1>9, <1>10, <1>11 DEF Next

\* Each duplicate of a row in Kafka costs a fault of its own; without faults delivery
\* is exactly once.
THEOREM DuplicatesPaid == Spec => []DuplicatesNeedFaults
<1>1. Init => BudgetInv
  <2> SUFFICES ASSUME Init PROVE BudgetInv
    OBVIOUS
  <2>1. AtWork
    BY DEF Init, AtWork
  <2>2. ASSUME NEW m \in Messages PROVE Budget(m)
    <3>1. MaySend(m) = {}
      BY DEF Init, MaySend
    <3> QED
      BY <3>1, FS_EmptySet DEF Init, Budget
  <2> QED
    BY <2>1, <2>2 DEF BudgetInv
<1>2. TypeOK /\ BudgetInv => DuplicatesNeedFaults
  <2> SUFFICES ASSUME TypeOK, BudgetInv, NEW m \in Messages PROVE copies[m] <= 1 + faults
    BY DEF DuplicatesNeedFaults
  <2>1. Budget(m) /\ copies[m] \in Nat /\ faults \in Nat
    BY DEF BudgetInv, TypeOK
  <2>2. Cardinality(MaySend(m)) \in Nat
    BY <2>1, FS_CardinalityType DEF Budget
  <2> QED
    BY <2>1, <2>2 DEF Budget
<1> QED
  BY <1>1, <1>2, TypeCorrect, BudgetStep, PTL DEF Spec
=============================================================================
