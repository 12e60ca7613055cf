------------------------------ MODULE WorkItems ------------------------------
(***************************************************************************)
(* The work_items table of the workflow repository and the workers that    *)
(* lease rows of it: create, lease (or steal a lapsed lease), complete,    *)
(* log the attempt, retry.  Every statement commits on its own, so each is *)
(* one action; what a worker knows between two statements is the lease it  *)
(* was handed.                                                             *)
(*                                                                         *)
(* lease_work_item increments attempt and lease_epoch in one UPDATE and    *)
(* draws a fresh lease_token; both counters start at 0 and nothing else    *)
(* writes them.  One number, epoch, therefore stands for all three.        *)
(***************************************************************************)
EXTENDS Naturals, FiniteSets

CONSTANTS
  Items,        \* rows that may be created (one per task_id)
  Workers,      \* gateway processes, each with one PrepareWorker
  MaxAttempts,  \* max_attempts of a row
  MaxFaults,    \* bound on worker deaths and on leases outlived by their work
  NoItem        \* no lease held

ASSUME MaxAttemptsAssumption == MaxAttempts \in Nat \ {0}
ASSUME MaxFaultsAssumption == MaxFaults \in Nat
ASSUME NoItemAssumption == NoItem \notin Items

VARIABLES
  state,   \* state[i]: status column; "absent" before the INSERT, "gone" after
           \* the row is cascaded away with its job
  epoch,   \* epoch[i]: attempt = lease_epoch, the number of leases granted
  due,     \* due[i]: the time that keeps i from being leased is past, i.e.
           \* available_at of a pending row, lease_expires_at of a leased one
  lapses,  \* lapses[i]: how many of its leases have lapsed
  held,    \* held[w]: the row w works on, as RETURNING * gave it
  token,   \* token[w]: the epoch of that row when w leased it
  marked,  \* marked[w]: w's complete_work_item UPDATE matched its row and w is
           \* about to insert the work_attempts row
  down,    \* workers whose task or process has ended
  faults   \* faults injected so far

vars == <<state, epoch, due, lapses, held, token, marked, down, faults>>

ItemState == {"absent", "pending", "leased", "succeeded", "failed", "gone"}

TypeOK ==
  /\ state \in [Items -> ItemState]
  /\ epoch \in [Items -> Nat]
  /\ due \in [Items -> BOOLEAN]
  /\ lapses \in [Items -> Nat]
  /\ held \in [Workers -> Items \union {NoItem}]
  /\ token \in [Workers -> Nat]
  /\ marked \in [Workers -> BOOLEAN]
  /\ down \subseteq Workers
  /\ faults \in 0..MaxFaults

Init ==
  /\ state = [i \in Items |-> "absent"]
  /\ epoch = [i \in Items |-> 0]
  /\ due = [i \in Items |-> FALSE]
  /\ lapses = [i \in Items |-> 0]
  /\ held = [w \in Workers |-> NoItem]
  /\ token = [w \in Workers |-> 0]
  /\ marked = [w \in Workers |-> FALSE]
  /\ down = {}
  /\ faults = 0

Exists(i) == state[i] \notin {"absent", "gone"}

\* Mutant of Fenced: the token is not compared.
FencedByOwner(w, i) == Exists(i) /\ held[w] = i

\* The WHERE clause of complete_work_item and retry_work_item: the row is still
\* there and carries the token and epoch w was given.  Its status is not asked.
Fenced(w, i) == Exists(i) /\ held[w] = i /\ token[w] = epoch[i]

\* Mutants of Leasable: a lapsed lease is never taken over; the status is not
\* asked when no lease is running.
LeasableIfPending(i) == state[i] = "pending" /\ due[i]
LeasableIfIdle(i) == Exists(i) /\ (state[i] = "leased" => due[i])

\* The WHERE clause of lease_work_item.
Leasable(i) == state[i] \in {"pending", "leased"} /\ due[i]

LetGo(w) ==
  /\ held' = [held EXCEPT ![w] = NoItem]
  /\ token' = [token EXCEPT ![w] = 0]
  /\ marked' = [marked EXCEPT ![w] = FALSE]

-----------------------------------------------------------------------------
\* create_work_item for a set of rows of one transaction: INSERT ... ON CONFLICT
\* (task_id) DO NOTHING leaves a row that exists alone.
Create(S) ==
  /\ state' = [i \in Items |-> IF i \in S /\ state[i] = "absent"
                                 THEN "pending" ELSE state[i]]
  /\ due' = [i \in Items |-> due[i] \/ (i \in S /\ state[i] = "absent")]
  /\ UNCHANGED <<epoch, lapses, held, token, marked, down, faults>>

\* Mutant of Lease: the epoch is not advanced.
LeaseSameEpoch(w, i) ==
  /\ w \notin down /\ held[w] = NoItem
  /\ Leasable(i)
  /\ state' = [state EXCEPT ![i] = "leased"]
  /\ due' = [due EXCEPT ![i] = FALSE]
  /\ held' = [held EXCEPT ![w] = i]
  /\ token' = [token EXCEPT ![w] = epoch[i]]
  /\ UNCHANGED <<epoch, lapses, marked, down, faults>>

\* Any leasable row may be the first one: SKIP LOCKED passes over a row another
\* lease is taking, and both prepare rows of a job carry one created_at.
Lease(w, i) ==
  /\ w \notin down /\ held[w] = NoItem
  /\ Leasable(i)
  /\ state' = [state EXCEPT ![i] = "leased"]
  /\ epoch' = [epoch EXCEPT ![i] = @ + 1]
  /\ due' = [due EXCEPT ![i] = FALSE]
  /\ held' = [held EXCEPT ![w] = i]
  /\ token' = [token EXCEPT ![w] = epoch[i] + 1]
  /\ UNCHANGED <<lapses, marked, down, faults>>

\* The back-off delay of a retried row passes.
BackOff(i) ==
  /\ state[i] = "pending" /\ ~due[i]
  /\ due' = [due EXCEPT ![i] = TRUE]
  /\ UNCHANGED <<state, epoch, lapses, held, token, marked, down, faults>>

\* lease_seconds pass.  Leases are never renewed, so this may happen under a
\* worker that is merely slow; that costs a fault, an abandoned lease does not.
Lapse(i) ==
  /\ state[i] = "leased" /\ ~due[i]
  /\ due' = [due EXCEPT ![i] = TRUE]
  /\ lapses' = [lapses EXCEPT ![i] = @ + 1]
  /\ IF \E w \in Workers : Fenced(w, i)
       THEN faults < MaxFaults /\ faults' = faults + 1
       ELSE UNCHANGED faults
  /\ UNCHANGED <<state, epoch, held, token, marked, down>>

\* Mutant of Complete: an outcome the status column does not know.
CompleteAsDone(w, i) ==
  /\ held[w] = i /\ ~marked[w]
  /\ state' = IF Fenced(w, i) THEN [state EXCEPT ![i] = "done"] ELSE state
  /\ marked' = [marked EXCEPT ![w] = TRUE]
  /\ UNCHANGED <<epoch, due, lapses, held, token, down, faults>>

\* complete_work_item, the UPDATE.  A stale worker matches no row; either way
\* the work_attempts INSERT comes next.
Complete(w, i) ==
  /\ held[w] = i /\ ~marked[w]
  /\ state' = IF Fenced(w, i) THEN [state EXCEPT ![i] = "succeeded"] ELSE state
  /\ due' = IF Fenced(w, i) THEN [due EXCEPT ![i] = FALSE] ELSE due
  /\ marked' = [marked EXCEPT ![w] = TRUE]
  /\ UNCHANGED <<epoch, lapses, held, token, down, faults>>

\* complete_work_item, the INSERT: the worker is done with the row.
LogAttempt(w) ==
  /\ marked[w]
  /\ LetGo(w)
  /\ UNCHANGED <<state, epoch, due, lapses, down, faults>>

\* Mutant of RetryState: off by one.
RetryStateOffByOne(i) == IF epoch[i] > MaxAttempts THEN "failed" ELSE "pending"

\* The row a fenced retry leaves: exhausted, or pending again after a delay.
RetryState(i) == IF epoch[i] >= MaxAttempts THEN "failed" ELSE "pending"

\* retry_work_item, called when anything in the attempt raised, the INSERT of
\* LogAttempt included.
Retry(w, i) ==
  /\ held[w] = i
  /\ state' = IF Fenced(w, i) THEN [state EXCEPT ![i] = RetryState(i)] ELSE state
  /\ due' = IF Fenced(w, i) THEN [due EXCEPT ![i] = FALSE] ELSE due
  /\ LetGo(w)
  /\ UNCHANGED <<epoch, lapses, down, faults>>

\* Mutant of RetryReturns: never True.
RetryNeverReturns(w, i) == FALSE

\* The value retry_work_item returns.
RetryReturns(w, i) == Fenced(w, i) /\ RetryState(i) = "pending"

\* The process dies, or a statement outside the inner try raises and ends the
\* worker task for good: whatever w held is abandoned.
Die(w) ==
  /\ w \notin down
  /\ faults < MaxFaults
  /\ faults' = faults + 1
  /\ down' = down \union {w}
  /\ LetGo(w)
  /\ UNCHANGED <<state, epoch, due, lapses>>

\* Somebody starts the process again; nothing in the code does.
Restart(w) ==
  /\ w \in down
  /\ down' = down \ {w}
  /\ UNCHANGED <<state, epoch, due, lapses, held, token, marked, faults>>

\* A job's row is deleted and its work items S with it (ON DELETE CASCADE).
Drop(S) ==
  /\ state' = [i \in Items |-> IF i \in S /\ Exists(i) THEN "gone" ELSE state[i]]
  /\ due' = [i \in Items |-> IF i \in S THEN FALSE ELSE due[i]]
  /\ UNCHANGED <<epoch, lapses, held, token, marked, down, faults>>

Next ==
  \/ \E S \in SUBSET Items : Create(S) \/ Drop(S)
  \/ \E i \in Items : BackOff(i) \/ Lapse(i)
  \/ \E w \in Workers, i \in Items : Lease(w, i) \/ Complete(w, i) \/ Retry(w, i)
  \/ \E w \in Workers : LogAttempt(w) \/ Die(w) \/ Restart(w)

Spec == Init /\ [][Next]_vars
-----------------------------------------------------------------------------
\* What the code's scheduling gives: while it runs PrepareWorker._run polls for
\* ever, an attempt it holds ends one way or the other, and clocks advance.
\* Nothing restarts a worker that has ended.
Fairness ==
  /\ \A i \in Items : WF_vars(\E w \in Workers : Lease(w, i))
  /\ \A i \in Items : WF_vars(BackOff(i)) /\ WF_vars(Lapse(i))
  /\ \A w \in Workers :
       WF_vars(LogAttempt(w) \/ \E i \in Items : Complete(w, i) \/ Retry(w, i))

FairSpec == Spec /\ Fairness

-----------------------------------------------------------------------------
\* However leases lapse and are stolen, at most one worker's token passes the
\* fence of a row, so at most one worker can settle it.
LeaseExclusive ==
  \A i \in Items, v, w \in Workers : Fenced(v, i) /\ Fenced(w, i) => v = w

\* max_attempts bounds the attempts that end in an error; lease_work_item does
\* not consult it, so only a lapsed lease buys an attempt beyond it.  A row
\* fails no earlier than that.
RetryBudget ==
  \A i \in Items :
    /\ epoch[i] <= MaxAttempts + lapses[i]
    /\ state[i] = "failed" => epoch[i] >= MaxAttempts

\* A failed row stays failed, although neither complete_work_item nor
\* retry_work_item looks at the status it overwrites.
FailedIsFinal ==
  [][\A i \in Items : state[i] = "failed" => state'[i] \in {"failed", "gone"}]_vars

\* complete_work_item is not one transaction: when its INSERT raises, the
\* worker that just succeeded retries its own row.  Nobody else reopens one.
OnlyCompleterReopens ==
  [][\A i \in Items :
       state[i] = "succeeded" /\ state'[i] \notin {"succeeded", "gone"}
         => \E w \in Workers : marked[w] /\ Fenced(w, i)]_vars

\* Every created row settles, for retries run out and lapsed leases are taken over,
\* as long as one worker is left.
ItemsSettle ==
  \A i \in Items :
    state[i] \in {"pending", "leased"} ~>
      state[i] \in {"succeeded", "failed", "gone"} \/ down = Workers
=============================================================================
