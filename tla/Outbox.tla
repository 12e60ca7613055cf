------------------------------- MODULE Outbox -------------------------------
(***************************************************************************)
(* The outbox table and the OutboxPublisher of every gateway process: rows *)
(* are claimed in batches, sent to Kafka one by one, marked published, and *)
(* claimed again when a claim is older than 30 seconds.  Each SQL          *)
(* statement and each send is one action.                                  *)
(***************************************************************************)
EXTENDS Naturals, FiniteSets

CONSTANTS
  Messages,    \* outbox rows that may be enqueued
  Publishers,  \* gateway processes
  Limit,       \* LIMIT of the claim (20 in the code)
  MaxFaults    \* bound on failed calls, crashes, outages and slow batches

ASSUME LimitAssumption == Limit \in Nat \ {0}
ASSUME MaxFaultsAssumption == MaxFaults \in Nat

VARIABLES
  row,     \* row[m]: "absent" before its transaction commits; then "waiting"
           \* (claimed_at NULL), "claimed", "stale" (claimed_at over 30 s old);
           \* "published" once published_at is set
  copies,  \* copies[m]: copies of m in the topic
  pc,      \* pc[p]: where process p's publisher is
  batch,   \* batch[p]: rows of p's claim it has not dealt with
  cur,     \* cur[p]: the rows p is publishing (at most one)
  kafka,   \* the broker answers
  faults   \* faults injected so far

vars == <<row, copies, pc, batch, cur, kafka, faults>>

RowState == {"absent", "waiting", "claimed", "stale", "published"}

\* "off": no process; "disabled": the process runs without a publisher;
\* "dead": the publisher task ended with an exception nobody awaits.
Serving == {"poll", "send", "mark", "error"}

TypeOK ==
  /\ row \in [Messages -> RowState]
  /\ copies \in [Messages -> Nat]
  /\ pc \in [Publishers -> Serving \union {"off", "disabled", "dead"}]
  /\ batch \in [Publishers -> SUBSET Messages]
  /\ cur \in [Publishers -> SUBSET Messages]
  /\ kafka \in BOOLEAN
  /\ faults \in 0..MaxFaults

Init ==
  /\ row = [m \in Messages |-> "absent"]
  /\ copies = [m \in Messages |-> 0]
  /\ pc = [p \in Publishers |-> "off"]
  /\ batch = [p \in Publishers |-> {}]
  /\ cur = [p \in Publishers |-> {}]
  /\ kafka \in BOOLEAN
  /\ faults = 0

Fault == faults < MaxFaults /\ faults' = faults + 1

Goto(p, l) == pc' = [pc EXCEPT ![p] = l]

\* Mutant of NextRow: the loop's end is not noticed.
NextRowForever(p) ==
  /\ batch' = [batch EXCEPT ![p] = @ \ cur[p]]
  /\ cur' = [cur EXCEPT ![p] = {}]
  /\ Goto(p, "next")

\* The for loop of _run: on to the next row of the batch, or back to polling.
NextRow(p) ==
  /\ batch' = [batch EXCEPT ![p] = @ \ cur[p]]
  /\ cur' = [cur EXCEPT ![p] = {}]
  /\ Goto(p, IF batch[p] \subseteq cur[p] THEN "poll" ELSE "send")

-----------------------------------------------------------------------------
\* enqueue_outbox, for the rows S of one committing transaction.
Enqueue(S) ==
  /\ row' = [m \in Messages |-> IF m \in S /\ row[m] = "absent"
                                THEN "waiting" ELSE row[m]]
  /\ UNCHANGED <<copies, pc, batch, cur, kafka, faults>>

\* start_kafka_producer: without the broker it raises and leaves no producer.
ProducerStarts == kafka

\* lifespan: the exception is logged, and without a producer no publisher is
\* created for the life of the process.
Start(p) ==
  /\ pc[p] = "off"
  /\ Goto(p, IF ProducerStarts THEN "poll" ELSE "disabled")
  /\ UNCHANGED <<row, copies, batch, cur, kafka, faults>>

\* Mutants of Claimable: the age of the claim is not asked; a row is claimed once
\* only; published_at is not asked.
ClaimableAtAnyAge(m) == row[m] \in {"waiting", "claimed", "stale"}
ClaimableOnce(m) == row[m] = "waiting"
ClaimableAlthoughPublished(m) == row[m] \in {"waiting", "stale", "published"}

\* The WHERE clause of claim_unpublished_outbox.
Claimable(m) == row[m] \in {"waiting", "stale"}

\* claim_unpublished_outbox: the oldest Limit claimable rows.  Rows of one
\* transaction share created_at and UPDATE ... RETURNING has no order, so which
\* of them are taken, and the order they are sent in, is left open.
Claim(p) ==
  /\ pc[p] = "poll"
  /\ LET open == {m \in Messages : Claimable(m)}
     IN \E T \in (SUBSET open) \ {{}} :
          /\ Cardinality(T) = Limit \/ (T = open /\ Cardinality(T) < Limit)
          /\ row' = [m \in Messages |-> IF m \in T THEN "claimed" ELSE row[m]]
          /\ batch' = [batch EXCEPT ![p] = T]
  /\ Goto(p, "send")
  /\ UNCHANGED <<copies, cur, kafka, faults>>

\* send_and_wait returns: the broker has the message.
SendAcked(p, m) ==
  /\ pc[p] = "send" /\ m \in batch[p] /\ kafka
  /\ copies' = [copies EXCEPT ![m] = @ + 1]
  /\ cur' = [cur EXCEPT ![p] = {m}]
  /\ Goto(p, "mark")
  /\ UNCHANGED <<row, batch, kafka, faults>>

\* send_and_wait raises: nothing was written, or it was and the answer was lost.
SendRaises(p, m) ==
  /\ pc[p] = "send" /\ m \in batch[p]
  /\ \/ ~kafka /\ UNCHANGED <<copies, faults>>
     \/ Fault /\ UNCHANGED copies
     \/ Fault /\ copies' = [copies EXCEPT ![m] = @ + 1]
  /\ cur' = [cur EXCEPT ![p] = {m}]
  /\ Goto(p, "error")
  /\ UNCHANGED <<row, batch, kafka>>

\* mark_outbox_published
MarkPublished(p) ==
  /\ pc[p] = "mark"
  /\ row' = [m \in Messages |-> IF m \in cur[p] THEN "published" ELSE row[m]]
  /\ NextRow(p)
  /\ UNCHANGED <<copies, kafka, faults>>

\* mark_outbox_published raises inside the try that also covers the send.
MarkRaises(p) ==
  /\ pc[p] = "mark" /\ Fault
  /\ Goto(p, "error")
  /\ UNCHANGED <<row, copies, batch, cur, kafka>>

\* Mutant of MarkError: published_at is set whether or not the send succeeded.
MarkErrorAsPublished(p) ==
  /\ pc[p] = "error"
  /\ row' = [m \in Messages |-> IF m \in cur[p] THEN "published" ELSE row[m]]
  /\ NextRow(p)
  /\ UNCHANGED <<copies, kafka, faults>>

\* mark_outbox_error: counts the attempt but leaves claimed_at, so the row waits
\* for its claim to lapse.
MarkError(p) ==
  /\ pc[p] = "error"
  /\ NextRow(p)
  /\ UNCHANGED <<row, copies, kafka, faults>>

\* The claim or mark_outbox_error itself raises: _run catches only
\* CancelledError, the task ends and nothing starts it again.
TaskDies(p) ==
  /\ pc[p] \in {"poll", "error"} /\ Fault
  /\ Goto(p, "dead")
  /\ batch' = [batch EXCEPT ![p] = {}]
  /\ cur' = [cur EXCEPT ![p] = {}]
  /\ UNCHANGED <<row, copies, kafka>>

\* The process crashes, or shuts down and cancels the task at an await.
Crash(p) ==
  /\ pc[p] # "off" /\ Fault
  /\ Goto(p, "off")
  /\ batch' = [batch EXCEPT ![p] = {}]
  /\ cur' = [cur EXCEPT ![p] = {}]
  /\ UNCHANGED <<row, copies, kafka>>

\* 30 seconds pass.  Under a publisher still working through its batch this is a
\* fault; a claim nobody works on lapses freely.
ClaimLapses(m) ==
  /\ row[m] = "claimed"
  /\ row' = [row EXCEPT ![m] = "stale"]
  /\ IF \E p \in Publishers : m \in batch[p] THEN Fault ELSE UNCHANGED faults
  /\ UNCHANGED <<copies, pc, batch, cur, kafka>>

KafkaFails ==
  /\ kafka /\ Fault /\ kafka' = FALSE
  /\ UNCHANGED <<row, copies, pc, batch, cur>>

KafkaRecovers ==
  /\ ~kafka /\ kafka' = TRUE
  /\ UNCHANGED <<row, copies, pc, batch, cur, faults>>

Next ==
  \/ \E S \in SUBSET Messages : Enqueue(S)
  \/ \E p \in Publishers :
       \/ Start(p) \/ Claim(p) \/ MarkPublished(p) \/ MarkRaises(p)
       \/ MarkError(p) \/ TaskDies(p) \/ Crash(p)
       \/ \E m \in Messages : SendAcked(p, m) \/ SendRaises(p, m)
  \/ \E m \in Messages : ClaimLapses(m)
  \/ KafkaFails \/ KafkaRecovers

Spec == Init /\ [][Next]_vars

\* A running task is scheduled, a process that is down is started, clocks
\* advance and a broker outage ends.
PublisherStep(p) ==
  \/ Claim(p) \/ MarkPublished(p) \/ MarkError(p)
  \/ \E m \in Messages : SendAcked(p, m) \/ SendRaises(p, m)

Fairness ==
  /\ \A p \in Publishers : WF_vars(Start(p)) /\ WF_vars(PublisherStep(p))
  /\ \A m \in Messages : WF_vars(ClaimLapses(m))
  /\ WF_vars(KafkaRecovers)

FairSpec == Spec /\ Fairness

-----------------------------------------------------------------------------
\* A row leaves the claimable set for ever only when a copy of it is in Kafka,
\* whatever fails between the send and the two mark statements.
PublishedIsInKafka ==
  \A m \in Messages : row[m] = "published" => copies[m] > 0

\* Each duplicate costs a fault of its own (a lost answer, a failed mark, a
\* crash, a batch slower than its claim): fault-free delivery is exactly once.
DuplicatesNeedFaults == \A m \in Messages : copies[m] <= 1 + faults

\* The outbox implements at-least-once delivery.
Promise == INSTANCE AtLeastOnce WITH
  committed <- {m \in Messages : row[m] # "absent"},
  settled <- {m \in Messages : row[m] = "published"}

ImplementsAtLeastOnce == Promise!Spec

\* As long as some publisher task stays alive, every enqueued row is published,
\* those of crashed publishers and failed sends included.
Drains ==
  <>[](\E p \in Publishers : pc[p] \in Serving)
    => \A m \in Messages : row[m] = "waiting" ~> row[m] = "published"

\* "producer unavailable at startup; outbox will retry" (main.py:91): once the
\* broker is back, the outbox drains.
OutboxWillRetry ==
  \A m \in Messages : row[m] = "waiting" ~> row[m] = "published"
=============================================================================
