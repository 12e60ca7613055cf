------------------------------ MODULE JobStates ------------------------------
(***************************************************************************)
(* The status of a comparison job: the transition table of                 *)
(* workflow/states.py, and the CASE expressions by which the gateway's SQL *)
(* statements rewrite a status without consulting that table.              *)
(***************************************************************************)

Terminal == {"completed", "failed", "cancelled", "deleted"}

NonTerminal == {"queued", "preparing", "processing", "ocr_ready", "comparing",
                "classifying", "finalizing", "cancel_requested", "deleting"}

Status == Terminal \union NonTerminal

AllowedTransitions ==
  [ queued           |-> {"preparing", "processing", "failed", "cancel_requested"},
    preparing        |-> {"queued", "processing", "failed", "cancel_requested"},
    processing       |-> {"ocr_ready", "failed", "cancel_requested"},
    ocr_ready        |-> {"comparing", "failed", "cancel_requested"},
    comparing        |-> {"classifying", "finalizing", "completed", "failed",
                          "cancel_requested"},
    classifying      |-> {"finalizing", "completed", "failed", "cancel_requested"},
    finalizing       |-> {"completed", "failed"},
    cancel_requested |-> {"cancelled", "deleting"},
    completed        |-> {"deleting"},
    failed           |-> {"deleting"},
    cancelled        |-> {"deleting"},
    deleting         |-> {"deleted"},
    deleted          |-> {} ]

\* A job may keep its status, except that nothing "re-enters" a terminal one.
CanTransition(current, target) ==
  \/ target \in AllowedTransitions[current]
  \/ target = current /\ current \notin Terminal

-----------------------------------------------------------------------------
(***************************************************************************)
(* The status each UPDATE leaves in a row whose status is s.               *)
(***************************************************************************)

\* request_cancel
CancelledStatus(s) ==
  IF s \in Terminal \union {"deleting"} THEN s ELSE "cancel_requested"

\* begin_delete (its WHERE clause skips a deleted row)
DeletedStatus(s) == IF s = "deleted" THEN s ELSE "deleting"

\* Mutants of the two below: a status nobody knows; no status is spared.
RequeuedStatusMisspelt(s) == IF s \in Terminal THEN s ELSE "enqueued"
FailedStatusAlways(s) == "failed"

\* PrepareWorker._maybe_enqueue_ocr, its closing UPDATE
RequeuedStatus(s) == IF s \in Terminal THEN s ELSE "queued"

\* PrepareWorker._fail_job
FailedStatus(s) ==
  IF s \in {"completed", "cancelled", "deleted"} THEN s ELSE "failed"
=============================================================================
