-------------------------------- MODULE Relay --------------------------------
(***************************************************************************)
(* One WebSocket of a frontend on /ws/jobs/{job_id}: relay_job_to_client   *)
(* runs an upstream relay (_relay_upstream_ws, with its forward_upstream   *)
(* and forward_client tasks) beside a polling loop (_poll_processing_api). *)
(* Both write to the client under send_lock and stop at the event done.    *)
(* Tasks of one event loop interleave at their awaits: every action here   *)
(* is what a task does from one await to the next.                         *)
(*                                                                         *)
(* run_compare_pipeline has no caller, so peek_prepare_error and           *)
(* get_pipeline_phase always answer None and the 404 grace period of the   *)
(* loop is never entered.                                                  *)
(***************************************************************************)
EXTENDS Naturals

CONSTANT MaxFaults  \* bound on exceptions in the loop and cancelled handlers

ASSUME MaxFaultsAssumption == MaxFaults \in Nat

VARIABLES
  db,      \* the job's status in the database, "removed" without a row
  stored,  \* comparison_results has a row for it
  api,     \* its status in the Processing API, "unknown" for 404
  said,    \* history: the outcomes the database or the API has ever shown
  client,  \* "here", or "left" when the peer closed the connection
  seen,    \* client_state is no longer CONNECTED: a receive saw the close
  up,      \* the upstream connection
  fwd,     \* forward_upstream: the message in hand, or "receive", "off", "over"
  watch,   \* forward_client is receiving from the client
  poll,    \* the read the polling loop makes next, or "over"
  row,     \* the status it read last
  event,   \* the message it is about to send, or "none"
  lock,    \* holder of send_lock, i.e. the task inside client_ws.send_text
  done,    \* the event done
  main,    \* relay_job_to_client: "wait" on done, or "over"
  told,    \* outcomes the client has received
  late,    \* events it received after the first result; 2 stands for more
  cut,     \* forward_upstream was cancelled while it was sending
  faults   \* faults injected so far

jobVars == <<db, stored, api, said>>
clientVars == <<client, seen, told, late>>
wsVars == <<up, fwd, watch, cut>>
pollVars == <<poll, row, event>>
vars == <<jobVars, clientVars, wsVars, pollVars, lock, done, main, faults>>

Message == {"status", "result", "error"}
\* "running" stands for every status on the way to an end.
DbStatus == {"running", "completed", "failed", "cancelled", "deleting", "removed"}
ApiStatus == {"unknown", "processing", "completed", "failed"}

TypeOK ==
  /\ db \in DbStatus
  /\ stored \in BOOLEAN
  /\ api \in ApiStatus
  /\ said \subseteq {"result", "error"}
  /\ client \in {"here", "left"}
  /\ seen \in BOOLEAN
  /\ up \in {"connecting", "open", "closed"}
  /\ fwd \in Message \union {"off", "receive", "over"}
  /\ watch \in BOOLEAN
  /\ poll \in {"job", "persisted", "result", "status", "over"}
  /\ row \in DbStatus \union ApiStatus
  /\ event \in Message \union {"none"}
  /\ lock \in {"free", "poll", "fwd"}
  /\ done \in BOOLEAN
  /\ main \in {"wait", "over"}
  /\ told \subseteq {"result", "error"}
  /\ late \in 0..2
  /\ cut \in BOOLEAN
  /\ faults \in 0..MaxFaults

\* How the job ended, according to either of the two and to both of them.
Verdicts ==
  (IF stored \/ api = "completed" THEN {"result"} ELSE {}) \union
  (IF db \in {"failed", "cancelled"} \/ api = "failed" THEN {"error"} ELSE {})

\* job_websocket found the job and accepted the connection.
Init ==
  /\ db \in DbStatus \ {"removed"}
  /\ stored \in BOOLEAN /\ (db = "completed" => stored)
  /\ api \in ApiStatus
  /\ said = Verdicts
  /\ client = "here" /\ seen = FALSE
  /\ up = "connecting" /\ fwd = "off" /\ watch = FALSE /\ cut = FALSE
  /\ poll = "job" /\ row = "unknown" /\ event = "none"
  /\ lock = "free" /\ done = FALSE /\ main = "wait"
  /\ told = {} /\ late = 0
  /\ faults = 0

Fault == faults < MaxFaults /\ faults' = faults + 1
Free(t) == lock' = IF lock = t THEN "free" ELSE lock

\* Mutant of Outcomes: a status counts as an outcome.
OutcomesOfAny(m) == {m}
Outcomes(m) == {m} \ {"status"}

\* client_ws.send_text: a peer that has left receives nothing.
Deliver(m) ==
  IF client = "here"
    THEN /\ told' = told \union Outcomes(m)
         /\ late' = IF "result" \in told /\ late < 2 THEN late + 1 ELSE late
    ELSE UNCHANGED <<told, late>>

-----------------------------------------------------------------------------
(***************************************************************************)
(* Beside the relay: the job's life in the database and in the Processing  *)
(* API, which may lag, lead and contradict it, and the user at the far     *)
(* end.  Processing moves a job on, stores its result and completes it, in *)
(* that order; PrepareWorker._fail_job and _maybe_enqueue_ocr, which ask   *)
(* nobody, fail and requeue even a job that is being deleted.              *)
(***************************************************************************)
JobMoves ==
  /\ db # "removed"
  /\ \/ db = "running" /\ stored /\ db' = "completed"
     \/ db = "running" /\ db' = "cancelled"
     \/ db \in {"running", "deleting"} /\ db' = "failed"
     \/ db = "deleting" /\ db' = "running"
     \/ db # "deleting" /\ db' = "deleting"
     \/ db' = "removed"
  /\ stored' = (stored /\ db' # "removed")
  /\ UNCHANGED <<api, clientVars, wsVars, pollVars, lock, done, main, faults>>
  /\ said' = said \union Verdicts'

ResultStored ==
  /\ db # "removed" /\ ~stored
  /\ stored' = TRUE
  /\ UNCHANGED <<db, api, clientVars, wsVars, pollVars, lock, done, main, faults>>
  /\ said' = said \union Verdicts'

ApiMoves ==
  /\ \/ api = "unknown" /\ api' = "processing"
     \/ api = "processing" /\ api' \in {"completed", "failed"}
     \/ api # "unknown" /\ api' = "unknown"
  /\ UNCHANGED <<db, stored, clientVars, wsVars, pollVars, lock, done, main, faults>>
  /\ said' = said \union Verdicts'

Leave ==
  /\ client = "here"
  /\ client' = "left"
  /\ UNCHANGED <<jobVars, seen, told, late, wsVars, pollVars, lock, done, main, faults>>

-----------------------------------------------------------------------------
(***************************************************************************)
(* ws_task                                                                 *)
(***************************************************************************)
Connect ==
  /\ up = "connecting"
  /\ up' = "open" /\ fwd' = "receive" /\ watch' = TRUE
  /\ UNCHANGED <<jobVars, clientVars, cut, pollVars, lock, done, main, faults>>

\* forward_upstream takes a message, unless done is set.
Receive(m) ==
  /\ up = "open" /\ fwd = "receive"
  /\ m = "result" => api = "completed"
  /\ m = "error" => api = "failed"
  /\ fwd' = IF done THEN "over" ELSE m
  /\ UNCHANGED <<jobVars, clientVars, up, watch, cut, pollVars, lock, done, main, faults>>

\* What is left after the message: a result, sent or not, ends the relay.
AfterForward ==
  /\ fwd' = IF fwd = "result" THEN "over" ELSE "receive"
  /\ done' = (done \/ fwd = "result")

\* It takes send_lock; done is not looked at again.
ForwardLock ==
  /\ fwd \in Message /\ lock = "free"
  /\ IF seen THEN AfterForward /\ UNCHANGED lock
             ELSE lock' = "fwd" /\ UNCHANGED <<fwd, done>>
  /\ UNCHANGED <<jobVars, clientVars, up, watch, cut, pollVars, main, faults>>

ForwardSent ==
  /\ lock = "fwd" /\ lock' = "free"
  /\ Deliver(fwd)
  /\ AfterForward
  /\ UNCHANGED <<jobVars, client, seen, up, watch, cut, pollVars, main, faults>>

\* Mutant of ClientClosed: done is not set.
ClientClosedQuietly ==
  /\ watch /\ client = "left"
  /\ seen' = TRUE /\ watch' = FALSE
  /\ UNCHANGED <<jobVars, client, told, late, up, fwd, cut, pollVars, lock, done, main, faults>>

\* forward_client: receive_text raises WebSocketDisconnect.  That it returns is
\* enough to cancel forward_upstream, but done is set and relay_job_to_client
\* gets there first.
ClientClosed ==
  /\ watch /\ client = "left"
  /\ seen' = TRUE /\ watch' = FALSE
  /\ done' = TRUE
  /\ UNCHANGED <<jobVars, client, told, late, up, fwd, cut, pollVars, lock, main, faults>>

CloseUpstream == up' = "closed" /\ fwd' = "over" /\ Free("fwd")

\* websockets.connect raises.
ConnectFails ==
  /\ main = "wait" /\ ~done /\ up = "connecting"
  /\ CloseUpstream
  /\ UNCHANGED <<jobVars, clientVars, watch, cut, pollVars, done, main, faults>>

\* forward_upstream finds the connection ended, between two messages.  If it was
\* closed in order, ws_task cancels forward_client; if not, the exception leaves
\* ws_task at its first await and forward_client goes on receiving.
UpstreamEnds ==
  /\ main = "wait" /\ ~done /\ up = "open" /\ fwd = "receive"
  /\ CloseUpstream
  /\ watch' \in {watch, FALSE}
  /\ UNCHANGED <<jobVars, clientVars, cut, pollVars, done, main, faults>>

\* forward_client cannot pass a message on: ws_task cancels forward_upstream,
\* maybe while that sends.
PassFails ==
  /\ main = "wait" /\ ~done /\ up = "open" /\ watch
  /\ CloseUpstream /\ watch' = FALSE
  /\ cut' = (cut \/ lock = "fwd")
  /\ \/ UNCHANGED <<told, late>>
     \/ lock = "fwd" /\ Deliver(fwd)
  /\ UNCHANGED <<jobVars, client, seen, pollVars, done, main, faults>>

\* send_text raises because the peer is gone, and forward_upstream with it.
ForwardRaises ==
  /\ lock = "fwd" /\ client = "left"
  /\ CloseUpstream
  /\ UNCHANGED <<jobVars, clientVars, watch, cut, pollVars, done, main, faults>>

\* forward_client, left to itself, gets one more message from the client: it
\* cannot pass it on, or finds done set.
WatchEnds ==
  /\ watch /\ (up = "closed" \/ done)
  /\ watch' = FALSE
  /\ UNCHANGED <<jobVars, clientVars, up, fwd, cut, pollVars, lock, done, main, faults>>

\* forward_upstream outlives ws_task when that is cancelled; its loop ends with
\* the connection.
ForwardEnds ==
  /\ fwd = "receive" /\ up = "closed"
  /\ fwd' = "over"
  /\ UNCHANGED <<jobVars, clientVars, up, watch, cut, pollVars, lock, done, main, faults>>

-----------------------------------------------------------------------------
(***************************************************************************)
(* poll_task.  A status is sent when (processed_chunks, status) differs    *)
(* from the last one sent; chunks are not counted here, so either may be.  *)
(***************************************************************************)
Reading == event = "none" /\ lock # "poll"

SendOr(next) ==
  /\ poll' = next
  /\ event' \in {"status", "none"}

\* Mutants of Unsuccessful: cancelled jobs are forgotten; whatever is not
\* running has failed.
UnsuccessfulIfFailed(s) == s = "failed"
UnsuccessfulUnlessRunning(s) == s \notin {"running", "processing", "unknown"}

Unsuccessful(s) == s \in {"failed", "cancelled"}

\* The status goes first, then the error.
Report(s, next) ==
  IF Unsuccessful(s) THEN poll' = next /\ event' \in {"status", "error"}
                     ELSE SendOr(next)

\* The loop condition, then database.get_job.
ReadJob ==
  /\ poll = "job" /\ Reading
  /\ IF done \/ seen
       THEN poll' = "over" /\ UNCHANGED row
       ELSE row' = db /\ poll' = IF db = "removed" THEN "result" ELSE "persisted"
  /\ UNCHANGED <<jobVars, clientVars, wsVars, event, lock, done, main, faults>>

\* database.get_comparison_result
ReadPersisted ==
  /\ poll = "persisted" /\ Reading
  /\ IF stored THEN poll' = "persisted" /\ event' = "result"
               ELSE Report(row, "result")
  /\ UNCHANGED <<jobVars, clientVars, wsVars, row, lock, done, main, faults>>

\* get_job_result and get_job_status return or raise: ResultNotReady for 404,
\* JobNotFound (api is then "unknown"), ProcessingServiceUnavailable for any other
\* status, a time-out or a lost connection.
ResultAnswer == {"unavailable", IF api = "completed" THEN "result" ELSE "not ready"}
StatusAnswer == {"unavailable", api}

\* 404 and an unavailable service are the same to the loop here ...
ReadResult ==
  /\ poll = "result" /\ Reading
  /\ \E answer \in ResultAnswer :
       IF answer = "result" THEN event' = "result" /\ UNCHANGED poll
                            ELSE poll' = "status" /\ UNCHANGED event
  /\ UNCHANGED <<jobVars, clientVars, wsVars, row, lock, done, main, faults>>

\* ... and here 404 is shown as "preparing", an unavailable service not at all.
ReadStatus ==
  /\ poll = "status" /\ Reading
  /\ \E answer \in StatusAnswer :
       IF answer = "unavailable" THEN poll' = "job" /\ UNCHANGED <<row, event>>
                                 ELSE row' = answer /\ Report(answer, "job")
  /\ UNCHANGED <<jobVars, clientVars, wsVars, lock, done, main, faults>>

\* What follows the send of event.
AfterPoll(sent) ==
  \/ /\ event = "status"
     /\ event' = IF Unsuccessful(row) THEN "error" ELSE "none"
     /\ UNCHANGED <<poll, done>>
  \/ /\ event = "result"
     /\ event' = "none" /\ poll' = "over"
     /\ done' = (done \/ sent)
  \/ /\ event = "error"
     /\ event' = "none" /\ poll' = "over"
     /\ done' = TRUE

\* Mutant of PollMaySend: done is not looked at.
PollMaySendAnyway == ~seen

\* The test inside send_lock; the error of a failed or cancelled job goes out
\* even when done is set.
PollMaySend == ~seen /\ (event # "error" => ~done)

PollLock ==
  /\ event # "none" /\ lock = "free"
  /\ IF PollMaySend THEN lock' = "poll" /\ UNCHANGED <<poll, event, done>>
                    ELSE AfterPoll(FALSE) /\ UNCHANGED lock
  /\ UNCHANGED <<jobVars, clientVars, wsVars, row, main, faults>>

PollSent ==
  /\ lock = "poll" /\ lock' = "free"
  /\ Deliver(event)
  /\ AfterPoll(TRUE)
  /\ UNCHANGED <<jobVars, client, seen, wsVars, row, main, faults>>

\* A database error, a malformed answer, or a send to a peer that is gone: the
\* exception is logged, done is not set.
PollRaises ==
  /\ poll # "over"
  /\ \/ Reading /\ Fault
     \/ lock = "poll" /\ client = "left" /\ UNCHANGED faults
  /\ poll' = "over" /\ event' = "none"
  /\ Free("poll")
  /\ UNCHANGED <<jobVars, clientVars, wsVars, row, done, main>>

-----------------------------------------------------------------------------
\* The finally block: both tasks are cancelled.  The loop stops at its await (a
\* send may be through or not); ws_task is cancelled in asyncio.wait, so the
\* connection is closed but forward_upstream and forward_client are not awaited.
Finish ==
  /\ main' = "over" /\ done' = TRUE
  /\ poll' = "over" /\ event' = "none"
  /\ Free("poll")
  /\ up' = "closed"
  /\ \/ UNCHANGED <<told, late>>
     \/ lock = "poll" /\ Deliver(event)
  /\ UNCHANGED <<jobVars, client, seen, fwd, watch, cut, row>>

RelayDone ==
  /\ main = "wait" /\ done
  /\ Finish
  /\ UNCHANGED faults

\* The server cancels the handler when it shuts down.
RelayCancelled ==
  /\ main = "wait"
  /\ Finish
  /\ Fault

PollRead == ReadJob \/ ReadPersisted \/ ReadResult \/ ReadStatus

Next ==
  \/ JobMoves \/ ResultStored \/ ApiMoves \/ Leave
  \/ Connect \/ ConnectFails \/ UpstreamEnds
  \/ ForwardLock \/ ForwardSent \/ ForwardRaises \/ ForwardEnds
  \/ ClientClosed \/ PassFails \/ WatchEnds
  \/ \E m \in Message : Receive(m)
  \/ PollRead \/ PollLock \/ PollSent \/ PollRaises
  \/ RelayDone \/ RelayCancelled

Spec == Init /\ [][Next]_vars

\* Tasks that can run are run, and a peer that is there reads what it is sent.
\* asyncio.Lock serves its waiters in turn, hence strong fairness for the loop.
Fairness ==
  /\ WF_vars(PollRead) /\ SF_vars(PollLock) /\ WF_vars(PollSent \/ PollRaises)
  /\ WF_vars(ForwardSent \/ ForwardRaises)
  /\ WF_vars(ClientClosed) /\ WF_vars(RelayDone)

FairSpec == Spec /\ Fairness

-----------------------------------------------------------------------------
\* The two tasks that send race for the lock with a message each, so one more
\* event may follow a result, and only one, unless a send was cut short.
OneLateEvent == ~cut => late <= 1

\* The client hears of a result only if one was stored or the API had it, and of an
\* error only if the job had failed or been cancelled in the database or failed in
\* the API: a job that is requeued or being deleted is not taken for a failed one.
\* So it hears of both only when database and API have shown both.
OutcomeHasSource == told \subseteq said

\* A client that stays hears how the job ended, by whichever task comes first,
\* even if the upstream connection fails; not if the job is deleted meanwhile or the
\* polling loop raised.
OutcomeReachesClient ==
  db \in {"completed", "failed", "cancelled"} ~>
    \/ told # {} \/ client = "left" \/ db \in {"deleting", "removed"}
    \/ main = "over"
    \/ poll = "over" /\ ~done

\* A client that leaves while somebody receives from it takes the relay with it,
\* even if forward_upstream has failed before; unless the receiver went with the
\* upstream connection, for then nobody notices.
LeavingEndsRelay ==
  client = "left" /\ watch ~> main = "over" \/ (up = "closed" /\ ~watch)
=============================================================================
