----------------------------- MODULE AtomicStore -----------------------------
(***************************************************************************)
(* What the object store promises those who call it: an object is there as *)
(* a whole or not at all; a call that returns has taken effect, one that   *)
(* raises may have; a deletion by prefix removes what it can.  When two    *)
(* puts of one key overlap nothing is promised about that object.          *)
(***************************************************************************)
CONSTANTS
  Callers,  \* those who have a call under way, one at a time
  Keys,
  Prefix    \* the keys a deletion by prefix is about

VARIABLES
  object,   \* of each key: "absent", "whole", or "any" after overlapping puts
  op,       \* the operation each caller called last
  key,      \* ... and its key
  phase     \* where that call is

vars == <<object, op, key, phase>>

Op == {"none", "put", "get", "delete", "purge"}
Settled == {"idle", "ok", "raised"}

Init ==
  /\ object = [k \in Keys |-> "absent"]
  /\ op = [c \in Callers |-> "none"]
  /\ key \in [Callers -> Keys]
  /\ phase = [c \in Callers |-> "idle"]

Goto(c, p) == phase' = [phase EXCEPT ![c] = p]

Call(c) ==
  /\ phase[c] \in Settled /\ Goto(c, "pending")
  /\ \E o \in Op \ {"none"}, k \in Keys :
       op' = [op EXCEPT ![c] = o] /\ key' = [key EXCEPT ![c] = k]
  /\ UNCHANGED object

\* A put or a delete takes effect, once, and may be answered with it.
Apply(c) ==
  /\ phase[c] = "pending" /\ op[c] \in {"put", "delete"}
  /\ object' = [object EXCEPT ![key[c]] =
       IF @ = "any" THEN @ ELSE IF op[c] = "put" THEN "whole" ELSE "absent"]
  /\ \E p \in {"effective", "ok", "raised"} : Goto(c, p)
  /\ UNCHANGED <<op, key>>

\* A deletion by prefix takes effect object by object.
Remove(c) ==
  /\ phase[c] = "pending" /\ op[c] = "purge"
  /\ \E gone \in SUBSET Prefix :
       object' = [k \in Keys |->
         IF k \in gone /\ object[k] # "any" THEN "absent" ELSE object[k]]
  /\ \E p \in {"pending", "ok", "raised"} : Goto(c, p)
  /\ UNCHANGED <<op, key>>

Return(c) ==
  /\ \/ phase[c] = "effective"
     \/ phase[c] = "pending" /\ op[c] = "get" /\ object[key[c]] # "absent"
  /\ Goto(c, "ok")
  /\ UNCHANGED <<object, op, key>>

Raise(c) ==
  /\ phase[c] \in {"pending", "effective"} /\ Goto(c, "raised")
  /\ UNCHANGED <<object, op, key>>

\* The process of the caller is gone.
Drop(c) == Goto(c, "idle") /\ UNCHANGED <<object, op, key>>

Putting(c) == phase[c] = "pending" /\ op[c] = "put"

Overlap(c, d) ==
  /\ Putting(c) /\ Putting(d) /\ key[c] = key[d]
  /\ object' = [object EXCEPT ![key[c]] = "any"]
  /\ UNCHANGED <<op, key, phase>>

Next ==
  \/ \E c \in Callers :
       Call(c) \/ Apply(c) \/ Remove(c) \/ Return(c) \/ Raise(c) \/ Drop(c)
  \/ \E c \in Callers : \E d \in Callers \ {c} : Overlap(c, d)

Spec == Init /\ [][Next]_vars
=============================================================================
