----------------------------- MODULE AtLeastOnce -----------------------------
(***************************************************************************)
(* What a transactional outbox promises.  A message is committed together  *)
(* with the state change that caused it; only committed messages reach the *)
(* topic; a message is settled, so never looked at again, only once a copy *)
(* of it is in the topic; and settling is for ever.  Duplicates are        *)
(* allowed, also of a settled message: a slow publisher may still hold it. *)
(***************************************************************************)
EXTENDS Naturals

CONSTANT Messages

VARIABLES
  committed,  \* messages whose transaction has committed
  copies,     \* copies[m]: copies of m in the topic
  settled     \* messages the outbox considers published

vars == <<committed, copies, settled>>

Init ==
  /\ committed = {}
  /\ copies = [m \in Messages |-> 0]
  /\ settled = {}

Commit(S) ==
  /\ committed' = committed \union S
  /\ UNCHANGED <<copies, settled>>

Deliver(m) ==
  /\ m \in committed
  /\ copies' = [copies EXCEPT ![m] = @ + 1]
  /\ UNCHANGED <<committed, settled>>

Settle(m) ==
  /\ m \in committed /\ copies[m] > 0
  /\ settled' = settled \union {m}
  /\ UNCHANGED <<committed, copies>>

Next ==
  \/ \E S \in SUBSET Messages : Commit(S)
  \/ \E m \in Messages : Deliver(m) \/ Settle(m)

Spec == Init /\ [][Next]_vars
=============================================================================
