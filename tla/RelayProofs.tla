----------------------------- MODULE RelayProofs -----------------------------
(***************************************************************************)
(* What module Relay promises, proved for any number of faults.            *)
(***************************************************************************)
EXTENDS Relay, TLAPS

\* Who holds send_lock has a message to send, and nobody forwards before there is a
\* connection.
LockHeldToSend ==
  /\ lock = "fwd" => fwd \in Message
  /\ lock = "poll" => event # "none"
  /\ event # "none" => poll # "over"
  /\ up = "connecting" => fwd = "off"

(***************************************************************************)
(* Types.  The flags are kept apart, for they are a matter of logic and    *)
(* the rest one of sets and numbers.                                       *)
(***************************************************************************)
Flags == {seen, stored, watch, done, cut} \subseteq BOOLEAN

Ranges ==
  /\ db \in DbStatus /\ api \in ApiStatus /\ row \in DbStatus \union ApiStatus
  /\ client \in {"here", "left"} /\ up \in {"connecting", "open", "closed"}
  /\ fwd \in Message \union {"off", "receive", "over"}
  /\ poll \in {"job", "persisted", "result", "status", "over"}
  /\ event \in Message \union {"none"} /\ lock \in {"free", "poll", "fwd"}
  /\ main \in {"wait", "over"}
  /\ said \subseteq {"result", "error"} /\ told \subseteq {"result", "error"}
  /\ late \in 0..2
  /\ faults \in 0..MaxFaults

\* TypeOK in its two parts.
LEMMA TypeParts == TypeOK <=> Flags /\ Ranges
BY DEF TypeOK, Flags, Ranges

\* A delivery adds an outcome at most, and counts only after a result.
LEMMA Delivery ==
  ASSUME TypeOK, NEW m \in Message, Deliver(m)
  PROVE  /\ told' \in {told, told \union Outcomes(m)}
         /\ told' \subseteq {"result", "error"}
         /\ late' \in {late, late + 1} /\ late' \in 0..2
         /\ "result" \notin told => late' = late
<1>1. CASE client = "here"
  <2>1. /\ told' = told \union Outcomes(m)
        /\ late' = IF "result" \in told /\ late < 2 THEN late + 1 ELSE late
    BY <1>1 DEF Deliver
  <2>2. told' \subseteq {"result", "error"}
    BY <2>1 DEF TypeOK, Message, Outcomes
  <2>3. late' \in {late, late + 1} /\ late' \in 0..2
    BY <2>1 DEF TypeOK
  <2> QED
    BY <2>1, <2>2, <2>3
<1>2. CASE client # "here"
  BY <1>2 DEF Deliver, TypeOK
<1> QED
  BY <1>1, <1>2

\* Every step keeps the types.
LEMMA TypeStep == TypeOK /\ LockHeldToSend /\ [Next]_vars => TypeOK'
<1> SUFFICES ASSUME TypeOK, Flags, Ranges, LockHeldToSend, [Next]_vars
             PROVE  Flags' /\ Ranges'
  BY TypeParts, PTL
<1> USE MaxFaultsAssumption
    DEF Flags, Ranges, jobVars, clientVars, wsVars, pollVars, Message, DbStatus, ApiStatus
<1>1. CASE JobMoves
  <2>1. Flags'
    BY <1>1 DEF JobMoves, Verdicts
  <2>2. Ranges'
    BY <1>1 DEF JobMoves, Verdicts
  <2> QED
    BY <2>1, <2>2
<1>2. CASE ResultStored
  <2>1. Flags'
    BY <1>2 DEF ResultStored, Verdicts
  <2>2. Ranges'
    BY <1>2 DEF ResultStored, Verdicts
  <2> QED
    BY <2>1, <2>2
<1>3. CASE ApiMoves
  <2>1. Flags'
    BY <1>3 DEF ApiMoves, Verdicts
  <2>2. Ranges'
    BY <1>3 DEF ApiMoves, Verdicts
  <2> QED
    BY <2>1, <2>2
<1>4. CASE Leave
  <2>1. Flags'
    BY <1>4 DEF Leave
  <2>2. Ranges'
    BY <1>4 DEF Leave
  <2> QED
    BY <2>1, <2>2
<1>5. CASE Connect
  <2>1. Flags'
    BY <1>5 DEF Connect
  <2>2. Ranges'
    BY <1>5 DEF Connect
  <2> QED
    BY <2>1, <2>2
<1>6. CASE ConnectFails
  <2>1. Flags'
    BY <1>6 DEF ConnectFails, CloseUpstream, Free
  <2>2. Ranges'
    BY <1>6 DEF ConnectFails, CloseUpstream, Free
  <2> QED
    BY <2>1, <2>2
<1>7. CASE UpstreamEnds
  <2>1. Flags'
    BY <1>7 DEF UpstreamEnds, CloseUpstream, Free
  <2>2. Ranges'
    BY <1>7 DEF UpstreamEnds, CloseUpstream, Free
  <2> QED
    BY <2>1, <2>2
<1>8. CASE ForwardLock
  <2>1. Flags'
    BY <1>8 DEF ForwardLock, AfterForward
  <2>2. Ranges'
    BY <1>8 DEF ForwardLock, AfterForward
  <2> QED
    BY <2>1, <2>2
<1>9. CASE ForwardSent
  <2>1. Flags'
    BY <1>9 DEF ForwardSent, AfterForward
  <2>2. told' \subseteq {"result", "error"} /\ late' \in 0..2
    BY <1>9, Delivery DEF ForwardSent, AfterForward, LockHeldToSend
  <2>3. Ranges'
    BY <1>9, <2>2 DEF ForwardSent, AfterForward
  <2> QED
    BY <2>1, <2>3
<1>10. CASE ForwardRaises
  <2>1. Flags'
    BY <1>10 DEF ForwardRaises, CloseUpstream, Free
  <2>2. Ranges'
    BY <1>10 DEF ForwardRaises, CloseUpstream, Free
  <2> QED
    BY <2>1, <2>2
<1>11. CASE ForwardEnds
  <2>1. Flags'
    BY <1>11 DEF ForwardEnds
  <2>2. Ranges'
    BY <1>11 DEF ForwardEnds
  <2> QED
    BY <2>1, <2>2
<1>12. CASE ClientClosed
  <2>1. Flags'
    BY <1>12 DEF ClientClosed
  <2>2. Ranges'
    BY <1>12 DEF ClientClosed
  <2> QED
    BY <2>1, <2>2
<1>13. CASE PassFails
  <2>1. Flags'
    BY <1>13 DEF PassFails, CloseUpstream, Free
  <2>2. told' \subseteq {"result", "error"} /\ late' \in 0..2
    BY <1>13, Delivery DEF PassFails, CloseUpstream, Free, LockHeldToSend
  <2>3. Ranges'
    BY <1>13, <2>2 DEF PassFails, CloseUpstream, Free
  <2> QED
    BY <2>1, <2>3
<1>14. CASE WatchEnds
  <2>1. Flags'
    BY <1>14 DEF WatchEnds
  <2>2. Ranges'
    BY <1>14 DEF WatchEnds
  <2> QED
    BY <2>1, <2>2
<1>15. CASE \E m \in Message : Receive(m)
  <2>1. Flags'
    BY <1>15 DEF Receive
  <2>2. Ranges'
    BY <1>15 DEF Receive
  <2> QED
    BY <2>1, <2>2
<1>16. CASE ReadJob
  <2>1. Flags'
    BY <1>16 DEF ReadJob
  <2>2. Ranges'
    BY <1>16 DEF ReadJob
  <2> QED
    BY <2>1, <2>2
<1>17. CASE ReadPersisted
  <2>1. Flags'
    BY <1>17 DEF ReadPersisted, Report, SendOr
  <2>2. Ranges'
    BY <1>17 DEF ReadPersisted, Report, SendOr
  <2> QED
    BY <2>1, <2>2
<1>18. CASE ReadResult
  <2>1. Flags'
    BY <1>18 DEF ReadResult
  <2>2. Ranges'
    BY <1>18 DEF ReadResult
  <2> QED
    BY <2>1, <2>2
<1>19. CASE ReadStatus
  <2>1. Flags'
    BY <1>19 DEF ReadStatus, StatusAnswer, Report, SendOr
  <2>2. Ranges'
    BY <1>19 DEF ReadStatus, StatusAnswer, Report, SendOr
  <2> QED
    BY <2>1, <2>2
<1>20. CASE PollLock
  <2>1. Flags'
    BY <1>20 DEF PollLock, AfterPoll
  <2>2. Ranges'
    BY <1>20 DEF PollLock, AfterPoll
  <2> QED
    BY <2>1, <2>2
<1>21. CASE PollSent
  <2>1. Flags'
    BY <1>21 DEF PollSent, AfterPoll
  <2>2. told' \subseteq {"result", "error"} /\ late' \in 0..2
    BY <1>21, Delivery DEF PollSent, AfterPoll, LockHeldToSend
  <2>3. Ranges'
    BY <1>21, <2>2 DEF PollSent, AfterPoll
  <2> QED
    BY <2>1, <2>3
<1>22. CASE PollRaises
  <2>1. Flags'
    BY <1>22 DEF PollRaises, Fault, Free
  <2>2. Ranges'
    BY <1>22 DEF PollRaises, Fault, Free
  <2> QED
    BY <2>1, <2>2
<1>23. CASE RelayDone
  <2>1. Flags'
    BY <1>23 DEF RelayDone, Finish, Free
  <2>2. told' \subseteq {"result", "error"} /\ late' \in 0..2
    BY <1>23, Delivery DEF RelayDone, Finish, Free, LockHeldToSend
  <2>3. Ranges'
    BY <1>23, <2>2 DEF RelayDone, Finish, Free
  <2> QED
    BY <2>1, <2>3
<1>24. CASE RelayCancelled
  <2>1. Flags'
    BY <1>24 DEF RelayCancelled, Finish, Fault, Free
  <2>2. told' \subseteq {"result", "error"} /\ late' \in 0..2
    BY <1>24, Delivery DEF RelayCancelled, Finish, Fault, Free, LockHeldToSend
  <2>3. Ranges'
    BY <1>24, <2>2 DEF RelayCancelled, Finish, Fault, Free
  <2> QED
    BY <2>1, <2>3
<1>25. CASE UNCHANGED vars
  BY <1>25 DEF vars
<1> QED
  BY <1>1, <1>2, <1>3, <1>4, <1>5, <1>6, <1>7, <1>8, <1>9, <1>10, <1>11, <1>12,
     <1>13, <1>14, <1>15, <1>16, <1>17, <1>18, <1>19, <1>20, <1>21, <1>22, <1>23,
     <1>24, <1>25 DEF Next, PollRead

\* The lock is taken with a message in hand and released before the message is
\* let go.
LEMMA LockStep == TypeOK /\ LockHeldToSend /\ [Next]_vars => LockHeldToSend'
<1> SUFFICES ASSUME TypeOK, LockHeldToSend, [Next]_vars PROVE LockHeldToSend'
  OBVIOUS
<1> USE DEF LockHeldToSend, TypeOK, jobVars, clientVars, wsVars, pollVars, Message
<1>1. CASE JobMoves
  BY <1>1 DEF JobMoves
<1>2. CASE ResultStored
  BY <1>2 DEF ResultStored
<1>3. CASE ApiMoves
  BY <1>3 DEF ApiMoves
<1>4. CASE Leave
  BY <1>4 DEF Leave
<1>5. CASE Connect
  BY <1>5 DEF Connect
<1>6. CASE ConnectFails
  BY <1>6 DEF ConnectFails, CloseUpstream, Free
<1>7. CASE UpstreamEnds
  BY <1>7 DEF UpstreamEnds, CloseUpstream, Free
<1>8. CASE ForwardLock
  BY <1>8 DEF ForwardLock, AfterForward
<1>9. CASE ForwardSent
  BY <1>9 DEF ForwardSent, AfterForward
<1>10. CASE ForwardRaises
  BY <1>10 DEF ForwardRaises, CloseUpstream, Free
<1>11. CASE ForwardEnds
  BY <1>11 DEF ForwardEnds
<1>12. CASE ClientClosed
  BY <1>12 DEF ClientClosed
<1>13. CASE PassFails
  BY <1>13 DEF PassFails, CloseUpstream, Free
<1>14. CASE WatchEnds
  BY <1>14 DEF WatchEnds
<1>15. CASE \E m \in Message : Receive(m)
  BY <1>15 DEF Receive
<1>16. CASE ReadJob
  BY <1>16 DEF ReadJob, Reading
<1>17. CASE ReadPersisted
  BY <1>17 DEF ReadPersisted, Reading, Report, SendOr
<1>18. CASE ReadResult
  BY <1>18 DEF ReadResult, Reading
<1>19. CASE ReadStatus
  BY <1>19 DEF ReadStatus, Reading, StatusAnswer, Report, SendOr
<1>20. CASE PollLock
  BY <1>20 DEF PollLock, AfterPoll
<1>21. CASE PollSent
  BY <1>21 DEF PollSent, AfterPoll
<1>22. CASE PollRaises
  BY <1>22 DEF PollRaises, Reading, Fault, Free
<1>23. CASE RelayDone
  BY <1>23 DEF RelayDone, Finish, Free
<1>24. CASE RelayCancelled
  BY <1>24 DEF RelayCancelled, Finish, Fault, Free
<1>25. CASE UNCHANGED vars
  BY <1>25 DEF vars
<1> QED
  BY <1>1, <1>2, <1>3, <1>4, <1>5, <1>6, <1>7, <1>8, <1>9, <1>10, <1>11, <1>12,
     <1>13, <1>14, <1>15, <1>16, <1>17, <1>18, <1>19, <1>20, <1>21, <1>22, <1>23,
     <1>24, <1>25 DEF Next, PollRead

LEMMA LockInit == Init => TypeOK /\ LockHeldToSend
<1> SUFFICES ASSUME Init PROVE Flags /\ Ranges /\ LockHeldToSend
  BY TypeParts
<1>1. Flags /\ LockHeldToSend
  BY DEF Init, Flags, LockHeldToSend
<1>2. Ranges
  BY MaxFaultsAssumption DEF Init, Ranges, Verdicts, DbStatus, ApiStatus, Message
<1> QED
  BY <1>1, <1>2

LEMMA LockSafe == Spec => [](TypeOK /\ LockHeldToSend)
BY LockInit, TypeStep, LockStep, PTL DEF Spec

\* Every state has its type: what the polling loop, the forwarders and
\* relay_job_to_client store is in range.
THEOREM TypeCorrect == Spec => []TypeOK
BY LockSafe, PTL

-----------------------------------------------------------------------------
(***************************************************************************)
(* Events after the result.  Whoever gets a result through sets done.      *)
(* From then on at most one of the two tasks has an event left that it may *)
(* still send: forward_upstream a message it had in hand, or the loop the  *)
(* error of a failed or cancelled job.                                     *)
(***************************************************************************)
AfterResult ==
  /\ done
  /\ fwd \notin Message \/ poll = "over"
  /\ lock = "poll" => event = "error"
  /\ late = 0 \/ (late = 1 /\ fwd \notin Message /\ poll = "over")

LateInv ==
  /\ "result" \notin told => late = 0
  /\ ~cut /\ "result" \in told => AfterResult

\* A step that delivers nothing starts no new message and gives none up.
LEMMA LateStep == TypeOK /\ LockHeldToSend /\ LateInv /\ [Next]_vars => LateInv'
<1> SUFFICES ASSUME TypeOK, LockHeldToSend, LateInv, [Next]_vars PROVE LateInv'
  OBVIOUS
<1> USE DEF LockHeldToSend, LateInv, AfterResult, TypeOK,
            jobVars, clientVars, wsVars, pollVars, Message
<1>1. CASE JobMoves
  BY <1>1 DEF JobMoves
<1>2. CASE ResultStored
  BY <1>2 DEF ResultStored
<1>3. CASE ApiMoves
  BY <1>3 DEF ApiMoves
<1>4. CASE Leave
  BY <1>4 DEF Leave
<1>5. CASE Connect
  BY <1>5 DEF Connect
<1>6. CASE ConnectFails
  BY <1>6 DEF ConnectFails, CloseUpstream, Free
<1>7. CASE UpstreamEnds
  BY <1>7 DEF UpstreamEnds, CloseUpstream, Free
<1>8. CASE ForwardLock
  BY <1>8 DEF ForwardLock, AfterForward
<1>9. CASE ForwardSent
  <2>1. /\ fwd \in Message /\ Deliver(fwd) /\ fwd' \notin Message
        /\ lock' = "free" /\ poll' = poll /\ cut' = cut
    BY <1>9 DEF ForwardSent, AfterForward
  <2>2. (done \/ fwd = "result") => done'
    BY <1>9 DEF ForwardSent, AfterForward
  <2>3. CASE "result" \in told
    BY <2>1, <2>2, <2>3, Delivery
  <2>4. CASE "result" \notin told
    <3>1. "result" \in told' => fwd = "result"
      BY <2>1, <2>4, Delivery DEF Outcomes
    <3>2. late' = 0
      BY <2>1, <2>4, Delivery
    <3> QED
      BY <2>1, <2>2, <3>1, <3>2
  <2> QED
    BY <2>3, <2>4
<1>10. CASE ForwardRaises
  BY <1>10 DEF ForwardRaises, CloseUpstream, Free
<1>11. CASE ForwardEnds
  BY <1>11 DEF ForwardEnds
<1>12. CASE ClientClosed
  BY <1>12 DEF ClientClosed
<1>13. CASE PassFails
  <2>1. CASE Deliver(fwd) /\ fwd \in Message
    BY <1>13, <2>1 DEF PassFails, CloseUpstream, Free, Deliver, Outcomes
  <2>2. CASE UNCHANGED <<told, late>>
    BY <1>13, <2>2 DEF PassFails, CloseUpstream, Free
  <2> QED
    BY <1>13, <2>1, <2>2 DEF PassFails, CloseUpstream, Free
<1>14. CASE WatchEnds
  BY <1>14 DEF WatchEnds
<1>15. CASE \E m \in Message : Receive(m)
  BY <1>15 DEF Receive
<1>16. CASE ReadJob
  BY <1>16 DEF ReadJob, Reading
<1>17. CASE ReadPersisted
  BY <1>17 DEF ReadPersisted, Reading, Report, SendOr
<1>18. CASE ReadResult
  BY <1>18 DEF ReadResult, Reading
<1>19. CASE ReadStatus
  BY <1>19 DEF ReadStatus, Reading, StatusAnswer, Report, SendOr
<1>20. CASE PollLock
  BY <1>20 DEF PollLock, AfterPoll, PollMaySend
<1>21. CASE PollSent
  <2>1. event \in Message /\ Deliver(event) /\ lock' = "free" /\ fwd' = fwd /\ cut' = cut
    BY <1>21 DEF PollSent
  <2>2. /\ done => done'
        /\ event \in {"result", "error"} => done' /\ poll' = "over"
    <3>1. AfterPoll(TRUE)
      BY <1>21 DEF PollSent
    <3>2. CASE event = "status" /\ UNCHANGED <<poll, done>>
      BY <3>2
    <3>3. CASE event = "result" /\ poll' = "over" /\ done' = (done \/ TRUE)
      BY <3>3
    <3>4. CASE event = "error" /\ poll' = "over" /\ done' = TRUE
      BY <3>4
    <3> QED
      BY <3>1, <3>2, <3>3, <3>4 DEF AfterPoll
  <2>3. CASE "result" \in told
    <3>1. ~cut => event = "error" /\ fwd \notin Message /\ late = 0
      BY <1>21, <2>3 DEF PollSent
    <3> QED
      BY <2>1, <2>2, <2>3, <3>1, Delivery
  <2>4. CASE "result" \notin told
    <3>1. "result" \in told' => event = "result"
      BY <2>1, <2>4, Delivery DEF Outcomes
    <3>2. late' = 0
      BY <2>1, <2>4, Delivery
    <3> QED
      BY <2>1, <2>2, <3>1, <3>2
  <2> QED
    BY <2>3, <2>4
<1>22. CASE PollRaises
  BY <1>22 DEF PollRaises, Reading, Fault, Free
<1>23. CASE RelayDone
  <2>1. CASE Deliver(event) /\ event \in Message
    BY <1>23, <2>1 DEF RelayDone, Finish, Free, Deliver, Outcomes
  <2>2. CASE UNCHANGED <<told, late>>
    BY <1>23, <2>2 DEF RelayDone, Finish, Free
  <2> QED
    BY <1>23, <2>1, <2>2 DEF RelayDone, Finish, Free
<1>24. CASE RelayCancelled
  <2>1. CASE Deliver(event) /\ event \in Message
    BY <1>24, <2>1 DEF RelayCancelled, Finish, Fault, Free, Deliver, Outcomes
  <2>2. CASE UNCHANGED <<told, late>>
    BY <1>24, <2>2 DEF RelayCancelled, Finish, Fault, Free
  <2> QED
    BY <1>24, <2>1, <2>2 DEF RelayCancelled, Finish, Fault, Free
<1>25. CASE UNCHANGED vars
  BY <1>25 DEF vars
<1> QED
  BY <1>1, <1>2, <1>3, <1>4, <1>5, <1>6, <1>7, <1>8, <1>9, <1>10, <1>11, <1>12,
     <1>13, <1>14, <1>15, <1>16, <1>17, <1>18, <1>19, <1>20, <1>21, <1>22, <1>23,
     <1>24, <1>25 DEF Next, PollRead

\* Once a client has a result, at most one more event reaches it, unless the
\* upstream relay was cancelled while it was sending.
THEOREM OneEventAfterResult == Spec => []OneLateEvent
<1>1. Init => LateInv
  BY DEF Init, LateInv
<1>2. TypeOK /\ LateInv => OneLateEvent
  BY DEF TypeOK, LateInv, AfterResult, OneLateEvent
<1> QED
  BY <1>1, <1>2, LockSafe, LateStep, PTL DEF Spec

-----------------------------------------------------------------------------
(***************************************************************************)
(* Outcomes.  What a source shows now is part of what sources have ever    *)
(* shown.  A task that takes an outcome in hand has just seen a source     *)
(* show it; so has the loop when the status it read is that of an          *)
(* unsuccessful job, which it will report as an error.  From a hand the    *)
(* outcome may reach the client long after the source has changed.         *)
(***************************************************************************)
ResultHeard ==
  "result" \in {fwd, event} \/ stored \/ api = "completed" => "result" \in said

ErrorHeard ==
  "error" \in {fwd, event} \/ Unsuccessful(row) \/ Unsuccessful(db) \/ api = "failed"
    => "error" \in said

OutcomeInv == ResultHeard /\ ErrorHeard /\ told \subseteq said

\* What is shown is remembered.
LEMMA Remembered ==
  ASSUME said' = said \union Verdicts'
  PROVE  /\ said \subseteq said'
         /\ stored' \/ api' = "completed" => "result" \in said'
         /\ Unsuccessful(db') \/ api' = "failed" => "error" \in said'
BY DEF Verdicts, Unsuccessful

\* A task that takes up an outcome has just read the verdict it rests on.
LEMMA OutcomeStep ==
  TypeOK /\ LockHeldToSend /\ OutcomeInv /\ [Next]_vars => OutcomeInv'
<1> SUFFICES ASSUME TypeOK, LockHeldToSend, OutcomeInv, [Next]_vars PROVE OutcomeInv'
  OBVIOUS
<1> USE DEF OutcomeInv, ResultHeard, ErrorHeard, Unsuccessful, LockHeldToSend, TypeOK,
            jobVars, clientVars, wsVars, pollVars, Message, DbStatus, ApiStatus
<1>1. CASE JobMoves
  BY <1>1, Remembered DEF JobMoves
<1>2. CASE ResultStored
  BY <1>2, Remembered DEF ResultStored
<1>3. CASE ApiMoves
  BY <1>3, Remembered DEF ApiMoves
<1>4. CASE Leave
  BY <1>4 DEF Leave
<1>5. CASE Connect
  BY <1>5 DEF Connect
<1>6. CASE ConnectFails
  BY <1>6 DEF ConnectFails, CloseUpstream, Free
<1>7. CASE UpstreamEnds
  BY <1>7 DEF UpstreamEnds, CloseUpstream, Free
<1>8. CASE ForwardLock
  BY <1>8 DEF ForwardLock, AfterForward
<1>9. CASE ForwardSent
  BY <1>9, Delivery DEF ForwardSent, AfterForward, Outcomes
<1>10. CASE ForwardRaises
  BY <1>10 DEF ForwardRaises, CloseUpstream, Free
<1>11. CASE ForwardEnds
  BY <1>11 DEF ForwardEnds
<1>12. CASE ClientClosed
  BY <1>12 DEF ClientClosed
<1>13. CASE PassFails
  BY <1>13, Delivery DEF PassFails, CloseUpstream, Free, Outcomes
<1>14. CASE WatchEnds
  BY <1>14 DEF WatchEnds
<1>15. CASE \E m \in Message : Receive(m)
  BY <1>15 DEF Receive
<1>16. CASE ReadJob
  BY <1>16 DEF ReadJob, Reading
<1>17. CASE ReadPersisted
  BY <1>17 DEF ReadPersisted, Reading, Report, SendOr
<1>18. CASE ReadResult
  BY <1>18 DEF ReadResult, Reading, ResultAnswer
<1>19. CASE ReadStatus
  BY <1>19 DEF ReadStatus, Reading, StatusAnswer, Report, SendOr
<1>20. CASE PollLock
  BY <1>20 DEF PollLock, AfterPoll
<1>21. CASE PollSent
  BY <1>21, Delivery DEF PollSent, AfterPoll, Outcomes
<1>22. CASE PollRaises
  BY <1>22 DEF PollRaises, Reading, Fault, Free
<1>23. CASE RelayDone
  BY <1>23, Delivery DEF RelayDone, Finish, Free, Outcomes
<1>24. CASE RelayCancelled
  BY <1>24, Delivery DEF RelayCancelled, Finish, Fault, Free, Outcomes
<1>25. CASE UNCHANGED vars
  BY <1>25 DEF vars
<1> QED
  BY <1>1, <1>2, <1>3, <1>4, <1>5, <1>6, <1>7, <1>8, <1>9, <1>10, <1>11, <1>12,
     <1>13, <1>14, <1>15, <1>16, <1>17, <1>18, <1>19, <1>20, <1>21, <1>22, <1>23,
     <1>24, <1>25 DEF Next, PollRead

\* A client hears only of outcomes that the database or the API has shown: of a
\* result that was stored or that the API had, of an error of a job that had failed
\* or been cancelled in the database or had failed in the API.  It hears of both only
\* when the two have contradicted each other, or one of them itself.
THEOREM OutcomesSourced == Spec => []OutcomeHasSource
<1>1. Init => OutcomeInv
  BY DEF Init, OutcomeInv, ResultHeard, ErrorHeard, Verdicts, Unsuccessful
<1>2. OutcomeInv => OutcomeHasSource
  BY DEF OutcomeInv, OutcomeHasSource
<1> QED
  BY <1>1, <1>2, LockSafe, OutcomeStep, PTL DEF Spec
=============================================================================
