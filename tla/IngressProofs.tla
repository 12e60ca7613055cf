---------------------------- MODULE IngressProofs ----------------------------
(***************************************************************************)
(* Idempotent ingress for every set of requests, keys and files.  The      *)
(* idempotency records and the committed jobs mirror each other (Keyed),   *)
(* which is what a lost race, a conflict and an unheard COMMIT rest on;    *)
(* where a request stands tells which originals it has stored (Uploaded)   *)
(* and which staging copies it has not yet deleted (Staged).               *)
(***************************************************************************)
EXTENDS Ingress, TLAPS

\* A record names a job of its key, and a keyed job is in the record of its key.
Keyed ==
  /\ \A k \in Keys : idem[k] # NoEntry => idem[k] \in jobs /\ KeyOf[idem[k]] = k
  /\ \A r \in jobs : KeyOf[r] # NoKey => idem[KeyOf[r]] = r

\* The first file is in place once its copy is made, the second likewise.
Uploaded ==
  \A r \in Requests :
    /\ pc[r] \in {<<"unstage", 1>>, <<"stage", 2>>, <<"copy", 2>>, <<"unstage", 2>>,
                  At("check"), At("commit")} => <<"original", 1>> \in objects[r]
    /\ pc[r] \in {<<"unstage", 2>>, At("check"), At("commit")}
         => <<"original", 2>> \in objects[r]

\* A request whose job is committed has nothing left to do but, unless it knows,
\* to clean up.
Settled ==
  \A r \in jobs : pc[r] = At("done") \/ (r \in unheard /\ pc[r] = At("cleanup"))

IInv == TypeOK /\ Keyed /\ AnswersNameJobs /\ Uploaded /\ Settled /\ JobsKeepOriginals

-----------------------------------------------------------------------------
\* Every step of a request leaves the variables in their types.
LEMMA TypeStep == TypeOK /\ [Next]_vars => TypeOK'
<1> SUFFICES ASSUME TypeOK, [Next]_vars PROVE TypeOK'
  OBVIOUS
<1> USE NoKeyAssumption, KeyOfAssumption, NoEntryAssumption, MaxFaultsAssumption
    DEF TypeOK, Uploading, Object, Sides, Outcome, At, Goto, Answer
<1>1. ASSUME NEW r \in Requests, Lookup(r) PROVE TypeOK'
  BY <1>1 DEF Lookup, Recorded
<1>2. ASSUME NEW r \in Requests, Refuse(r) PROVE TypeOK'
  BY <1>2 DEF Refuse
<1>3. ASSUME NEW r \in Requests, Check(r) PROVE TypeOK'
  BY <1>3 DEF Check, Recorded
<1>4. ASSUME NEW r \in Requests, Commit(r) PROVE TypeOK'
  BY <1>4 DEF Commit, Record
<1>5. ASSUME NEW r \in Requests, RolledBack(r) PROVE TypeOK'
  BY <1>5 DEF RolledBack, Fault
<1>6. ASSUME NEW r \in Requests, CommitUnheard(r) PROVE TypeOK'
  BY <1>6 DEF CommitUnheard, Record, Fault
<1>7. ASSUME NEW r \in Requests, Cleanup(r) PROVE TypeOK'
  BY <1>7 DEF Cleanup
<1>8. ASSUME NEW r \in Requests, Crash(r) PROVE TypeOK'
  BY <1>8 DEF Crash, Fault
<1>9. ASSUME NEW r \in Requests, NEW s \in Sides, Stage(r, s) PROVE TypeOK'
  BY <1>9 DEF Stage
<1>10. ASSUME NEW r \in Requests, NEW s \in Sides, Copy(r, s) PROVE TypeOK'
  BY <1>10 DEF Copy
<1>11. ASSUME NEW r \in Requests, NEW s \in Sides, Unstage(r, s) PROVE TypeOK'
  BY <1>11 DEF Unstage
<1>12. CASE UNCHANGED vars
  BY <1>12 DEF vars
<1> HIDE DEF TypeOK, Uploading, Object, Sides, Outcome, At, Goto, Answer
<1> QED
  BY <1>1, <1>2, <1>3, <1>4, <1>5, <1>6, <1>7, <1>8, <1>9, <1>10, <1>11, <1>12 DEF Next

\* The transaction creates the job of a key nobody has used, so records and jobs
\* go on mirroring each other; no other step touches them.
LEMMA RecordKeeps ==
  ASSUME TypeOK, Keyed, NEW r \in Requests, ~Recorded(r), r \notin jobs,
         jobs' = jobs \union {r}, Record(r)
  PROVE  Keyed'
<1>1. ASSUME NEW k \in Keys, idem'[k] # NoEntry
      PROVE  idem'[k] \in jobs' /\ KeyOf[idem'[k]] = k
  BY <1>1, NoKeyAssumption, KeyOfAssumption DEF TypeOK, Keyed, Record
<1>2. ASSUME NEW q \in jobs', KeyOf[q] # NoKey PROVE idem'[KeyOf[q]] = q
  <2>1. CASE q = r
    BY <1>2, <2>1, KeyOfAssumption DEF Record
  <2>2. CASE q # r
    <3>1. q \in jobs /\ q \in Requests /\ KeyOf[q] \in Keys
      BY <1>2, <2>2, KeyOfAssumption DEF TypeOK
    <3>2. idem[KeyOf[q]] = q
      BY <1>2, <3>1 DEF Keyed
    <3>3. KeyOf[q] # KeyOf[r]
      BY <3>1, <3>2, <1>2, NoEntryAssumption DEF Recorded
    <3> QED
      BY <3>1, <3>2, <3>3 DEF Record
  <2> QED
    BY <2>1, <2>2
<1> QED
  BY <1>1, <1>2 DEF Keyed

\* The invariant is inductive.
LEMMA IInvStep == IInv /\ [Next]_vars => IInv'
<1> SUFFICES ASSUME IInv, [Next]_vars PROVE IInv'
  OBVIOUS
<1> USE DEF IInv
<1>0. TypeOK'
  BY TypeStep
<1>1. Keyed'
  <2>1. ASSUME NEW r \in Requests, Commit(r) PROVE Keyed'
    <3>1. r \notin jobs
      BY <2>1 DEF Commit, Settled, At
    <3>2. CASE Recorded(r)
      BY <2>1, <3>2 DEF Commit, Keyed
    <3>3. CASE ~Recorded(r)
      BY <2>1, <3>1, <3>3, RecordKeeps DEF Commit
    <3> QED
      BY <3>2, <3>3
  <2>2. ASSUME NEW r \in Requests, CommitUnheard(r) PROVE Keyed'
    <3>1. r \notin jobs
      BY <2>2 DEF CommitUnheard, Settled, At
    <3> QED
      BY <2>2, <3>1, RecordKeeps DEF CommitUnheard
  <2>3. CASE UNCHANGED <<idem, jobs>>
    BY <2>3 DEF Keyed
  <2> QED
    BY <2>1, <2>2, <2>3 DEF Next, vars, Lookup, Refuse, Check, RolledBack,
                            Cleanup, Crash, Stage, Copy, Unstage
<1>2. AnswersNameJobs'
  <2> USE DEF AnswersNameJobs
  <2>1. ASSUME NEW r \in Requests, Recorded(r), reply' = [reply EXCEPT ![r] = idem[KeyOf[r]]],
               jobs' = jobs
        PROVE  AnswersNameJobs'
    <3>1. /\ KeyOf[r] # NoKey
          /\ idem[KeyOf[r]] \in jobs /\ KeyOf[idem[KeyOf[r]]] = KeyOf[r]
      BY <2>1, KeyOfAssumption DEF Recorded, Keyed
    <3>2. ASSUME NEW q \in Requests, q # r
          PROVE  reply'[q] = reply[q]
      BY <2>1, <3>2 DEF TypeOK
    <3>3. reply'[r] = idem[KeyOf[r]]
      BY <2>1 DEF TypeOK
    <3> QED
      BY <2>1, <3>1, <3>2, <3>3
  <2>2. ASSUME NEW r \in Requests, NEW o \in Outcome,
               reply' = [reply EXCEPT ![r] = o], jobs \subseteq jobs'
        PROVE  AnswersNameJobs'
    BY <2>2, RequestsAssumption DEF Outcome, TypeOK
  <2>3. ASSUME NEW r \in Requests, reply' = [reply EXCEPT ![r] = r],
               jobs' = jobs \union {r}
        PROVE  AnswersNameJobs'
    BY <2>3 DEF TypeOK
  <2>4. CASE UNCHANGED <<reply, jobs>>
    BY <2>4
  <2> USE DEF Outcome, Answer, Goto
  <2>5. ASSUME NEW r \in Requests, Lookup(r) PROVE AnswersNameJobs'
    BY <2>5, <2>1, <2>4 DEF Lookup
  <2>6. ASSUME NEW r \in Requests, Check(r) PROVE AnswersNameJobs'
    BY <2>6, <2>1, <2>2, <2>4 DEF Check
  <2>7. ASSUME NEW r \in Requests, Commit(r) PROVE AnswersNameJobs'
    BY <2>7, <2>2, <2>3 DEF Commit
  <2>8. ASSUME NEW r \in Requests, CommitUnheard(r) PROVE AnswersNameJobs'
    BY <2>8, <2>2 DEF CommitUnheard
  <2>9. ASSUME NEW r \in Requests, Refuse(r) \/ RolledBack(r) \/ Crash(r)
        PROVE  AnswersNameJobs'
    BY <2>9, <2>2 DEF Refuse, RolledBack, Crash
  <2>10. ASSUME NEW r \in Requests, NEW s \in Sides,
                Cleanup(r) \/ Stage(r, s) \/ Copy(r, s) \/ Unstage(r, s)
         PROVE  AnswersNameJobs'
    BY <2>10, <2>4 DEF Cleanup, Stage, Copy, Unstage
  <2>11. CASE UNCHANGED vars
    BY <2>11, <2>4 DEF vars
  <2>12. 1 \in Sides
    BY DEF Sides
  <2> HIDE DEF AnswersNameJobs, Outcome, Answer, Goto
  <2> QED
    BY <2>5, <2>6, <2>7, <2>8, <2>9, <2>10, <2>11, <2>12 DEF Next
<1>3. Uploaded'
  <2> USE DEF TypeOK, Uploaded, At, Goto, Answer, Sides
  <2>1. ASSUME NEW r \in Requests, NEW s \in Sides, Stage(r, s) PROVE Uploaded'
    BY <2>1 DEF Stage
  <2>2. ASSUME NEW r \in Requests, NEW s \in Sides, Copy(r, s) PROVE Uploaded'
    BY <2>2 DEF Copy
  <2>3. ASSUME NEW r \in Requests, NEW s \in Sides, Unstage(r, s) PROVE Uploaded'
    BY <2>3 DEF Unstage
  <2>4. ASSUME NEW r \in Requests, Cleanup(r) PROVE Uploaded'
    BY <2>4 DEF Cleanup
  <2>5. ASSUME NEW r \in Requests, Check(r) PROVE Uploaded'
    BY <2>5 DEF Check
  <2>6. ASSUME NEW r \in Requests, Commit(r) \/ CommitUnheard(r) \/ RolledBack(r)
        PROVE  Uploaded'
    BY <2>6 DEF Commit, CommitUnheard, RolledBack
  <2>7. ASSUME NEW r \in Requests, Lookup(r) \/ Refuse(r) \/ Crash(r)
        PROVE  Uploaded'
    BY <2>7 DEF Lookup, Refuse, Crash
  <2>8. CASE UNCHANGED vars
    BY <2>8 DEF vars
  <2> QED
    BY <2>1, <2>2, <2>3, <2>4, <2>5, <2>6, <2>7, <2>8 DEF Next
<1>4. Settled'
  <2> USE DEF TypeOK, Settled, At, Goto, Answer
  <2>1. ASSUME NEW r \in Requests, NEW s \in Sides, Stage(r, s) \/ Copy(r, s) \/ Unstage(r, s)
        PROVE  Settled'
    BY <2>1 DEF Stage, Copy, Unstage
  <2>2. ASSUME NEW r \in Requests, Cleanup(r) \/ Check(r) \/ Lookup(r)
        PROVE  Settled'
    BY <2>2 DEF Cleanup, Check, Lookup
  <2>3. ASSUME NEW r \in Requests, Refuse(r) \/ RolledBack(r) \/ Crash(r)
        PROVE  Settled'
    BY <2>3 DEF Refuse, RolledBack, Crash, Uploading
  <2>4. ASSUME NEW r \in Requests, Commit(r) PROVE Settled'
    BY <2>4 DEF Commit
  <2>5. ASSUME NEW r \in Requests, CommitUnheard(r) PROVE Settled'
    BY <2>5 DEF CommitUnheard
  <2>6. CASE UNCHANGED vars
    BY <2>6 DEF vars
  <2> QED
    BY <2>1, <2>2, <2>3, <2>4, <2>5, <2>6 DEF Next
<1>5. JobsKeepOriginals'
  <2> USE DEF TypeOK, JobsKeepOriginals, Originals, Sides, At
  <2>1. ASSUME NEW r \in Requests, NEW s \in Sides, Stage(r, s) \/ Copy(r, s)
        PROVE  JobsKeepOriginals'
    BY <2>1 DEF Stage, Copy
  <2>2. ASSUME NEW r \in Requests, NEW s \in Sides, Unstage(r, s)
        PROVE  JobsKeepOriginals'
    BY <2>2 DEF Unstage
  <2>3. ASSUME NEW r \in Requests, Cleanup(r) PROVE JobsKeepOriginals'
    BY <2>3 DEF Cleanup, Settled
  <2>4. ASSUME NEW r \in Requests, Commit(r) PROVE JobsKeepOriginals'
    BY <2>4 DEF Commit, Uploaded
  <2>5. ASSUME NEW r \in Requests, CommitUnheard(r) PROVE JobsKeepOriginals'
    BY <2>5 DEF CommitUnheard
  <2>6. CASE UNCHANGED <<jobs, unheard, objects>>
    BY <2>6
  <2> QED
    BY <2>1, <2>2, <2>3, <2>4, <2>5, <2>6 DEF Next, vars, Lookup, Refuse, Check,
                                              RolledBack, Crash
<1> QED
  BY <1>0, <1>1, <1>2, <1>3, <1>4, <1>5

\* Records, jobs, answers and originals stay consistent with each other.
THEOREM Invariance == Spec => []IInv
<1>1. ASSUME Init PROVE IInv
  <2>1. TypeOK
    BY <1>1, MaxFaultsAssumption DEF Init, TypeOK, Outcome, At
  <2>2. Keyed /\ Settled /\ JobsKeepOriginals
    BY <1>1 DEF Init, Keyed, Settled, JobsKeepOriginals
  <2>3. AnswersNameJobs
    BY <1>1, RequestsAssumption DEF Init, AnswersNameJobs
  <2>4. Uploaded
    BY <1>1 DEF Init, Uploaded, At
  <2> QED
    BY <2>1, <2>2, <2>3, <2>4 DEF IInv
<1> QED
  BY <1>1, IInvStep, PTL DEF Spec

\* Records, jobs, objects and the requests keep their types.
THEOREM TypeCorrect == Spec => []TypeOK
  BY Invariance, PTL DEF IInv

\* A key has one job, however its requests are retried, raced or lost.
THEOREM OneJob == Spec => []OneJobPerKey
<1>1. IInv => OneJobPerKey
  BY DEF IInv, Keyed, OneJobPerKey, TypeOK
<1> QED
  BY <1>1, Invariance, PTL

\* Whoever is answered with a job is answered with a committed one of its key.
THEOREM Answered == Spec => []AnswersNameJobs
  BY Invariance, PTL DEF IInv

\* A committed job keeps its originals, whatever other requests clean up.
THEOREM Kept == Spec => []JobsKeepOriginals
  BY Invariance, PTL DEF IInv

-----------------------------------------------------------------------------
\* While a request runs, the staging key of a file exists only between the put
\* and the delete of _store_upload.
Staged ==
  \A r \in Requests : \A s \in Sides :
    <<"staging", s>> \in objects[r] /\ pc[r] # At("done") =>
      pc[r] \in {<<"copy", s>>, <<"unstage", s>>}

\* What the compare handler is about to clean up after has failed already.
Failed ==
  \A r \in Requests :
    pc[r] = At("cleanup") => reply[r] \in {"conflict", "error"}

OrphanInv == Staged /\ Failed /\ OrphansHaveCause

\* A step of another request leaves a request as it was.
LEMMA OthersStay ==
  ASSUME TypeOK, Next
  PROVE  \E r \in Requests :
           /\ \/ Lookup(r) \/ Refuse(r) \/ Check(r) \/ Commit(r) \/ RolledBack(r)
              \/ CommitUnheard(r) \/ Cleanup(r) \/ Crash(r)
              \/ \E s \in Sides : Stage(r, s) \/ Copy(r, s) \/ Unstage(r, s)
           /\ \A q \in Requests \ {r} :
                pc'[q] = pc[q] /\ reply'[q] = reply[q] /\ objects'[q] = objects[q]
           /\ jobs \subseteq jobs'
<1>1. PICK r \in Requests :
        \/ Lookup(r) \/ Refuse(r) \/ Check(r) \/ Commit(r) \/ RolledBack(r)
        \/ CommitUnheard(r) \/ Cleanup(r) \/ Crash(r)
        \/ \E s \in Sides : Stage(r, s) \/ Copy(r, s) \/ Unstage(r, s)
  BY DEF Next
<1>2. jobs \subseteq jobs'
  BY <1>1 DEF Lookup, Refuse, Check, Commit, RolledBack, CommitUnheard, Cleanup, Crash,
              Stage, Copy, Unstage
<1>3. ASSUME NEW q \in Requests \ {r}
      PROVE  pc'[q] = pc[q] /\ reply'[q] = reply[q] /\ objects'[q] = objects[q]
  BY <1>1 DEF TypeOK, Lookup, Refuse, Check, Commit, RolledBack, CommitUnheard, Cleanup, Crash,
              Stage, Copy, Unstage, Answer, Goto
<1> QED
  BY <1>1, <1>2, <1>3

\* What a step of a request leaves of that request's objects is either still
\* being worked on, or part of a job, or has a cause.
LEMMA OrphanStep == IInv /\ OrphanInv /\ [Next]_vars => OrphanInv'
<1> SUFFICES ASSUME IInv, OrphanInv, [Next]_vars PROVE OrphanInv'
  OBVIOUS
<1>1. CASE UNCHANGED vars
  BY <1>1 DEF OrphanInv, Staged, Failed, OrphansHaveCause, vars
<1>2. CASE Next
  <2>1. PICK r \in Requests :
          /\ \/ Lookup(r) \/ Refuse(r) \/ Check(r) \/ Commit(r) \/ RolledBack(r)
             \/ CommitUnheard(r) \/ Cleanup(r) \/ Crash(r)
             \/ \E s \in Sides : Stage(r, s) \/ Copy(r, s) \/ Unstage(r, s)
          /\ \A q \in Requests \ {r} :
               pc'[q] = pc[q] /\ reply'[q] = reply[q] /\ objects'[q] = objects[q]
          /\ jobs \subseteq jobs'
    BY <1>2, OthersStay DEF IInv
  <2> DEFINE StagedAt == \A s \in Sides :
               <<"staging", s>> \in objects[r] /\ pc[r] # At("done") =>
                 pc[r] \in {<<"copy", s>>, <<"unstage", s>>}
             FailedAt == pc[r] = At("cleanup") => reply[r] \in {"conflict", "error"}
             CauseAt == r \notin jobs /\ pc[r] = At("done") /\ objects[r] # {} =>
               reply[r] = "refused" \/ reply[r] \in Requests \/ reply[r] = "crashed"
  <2>2. StagedAt /\ FailedAt /\ CauseAt
    BY DEF OrphanInv, Staged, Failed, OrphansHaveCause
  <2>3. TypeOK /\ TypeOK'
    BY TypeStep DEF IInv
  <2>4. r \in DOMAIN pc /\ r \in DOMAIN reply /\ r \in DOMAIN objects
    BY <2>3 DEF TypeOK
  <2> USE DEF At, Goto, Answer, Sides
  <2>5. StagedAt' /\ FailedAt' /\ CauseAt'
    <3>1. CASE Lookup(r)
      <4>1. KeyOf[r] # NoKey /\ idem[KeyOf[r]] # NoEntry => idem[KeyOf[r]] \in Requests
        BY <2>3, KeyOfAssumption DEF TypeOK
      <4> QED
        BY <2>2, <2>4, <3>1, <4>1 DEF Lookup, Recorded
    <3>2. CASE Refuse(r)
      BY <2>2, <2>4, <3>2 DEF Refuse
    <3>3. CASE Check(r)
      <4>1. KeyOf[r] # NoKey /\ idem[KeyOf[r]] # NoEntry => idem[KeyOf[r]] \in Requests
        BY <2>3, KeyOfAssumption DEF TypeOK
      <4> QED
        BY <2>2, <2>4, <3>3, <4>1 DEF Check, Recorded
    <3>4. CASE Commit(r)
      BY <2>2, <2>4, <3>4 DEF Commit
    <3>5. CASE RolledBack(r)
      BY <2>2, <2>4, <3>5 DEF RolledBack
    <3>6. CASE CommitUnheard(r)
      BY <2>2, <2>4, <3>6 DEF CommitUnheard
    <3>7. CASE Cleanup(r)
      BY <2>2, <2>3, <2>4, <3>7 DEF Cleanup, TypeOK, Object, Originals
    <3>8. CASE Crash(r)
      BY <2>2, <2>3, <2>4, <3>8 DEF Crash, Fault
    <3>9. ASSUME NEW s \in Sides, Stage(r, s) PROVE StagedAt' /\ FailedAt' /\ CauseAt'
      BY <2>2, <2>4, <3>9 DEF Stage
    <3>10. ASSUME NEW s \in Sides, Copy(r, s) PROVE StagedAt' /\ FailedAt' /\ CauseAt'
      BY <2>2, <2>4, <3>10 DEF Copy
    <3>11. ASSUME NEW s \in Sides, Unstage(r, s) PROVE StagedAt' /\ FailedAt' /\ CauseAt'
      BY <2>2, <2>4, <3>11 DEF Unstage
    <3> QED
      BY <2>1, <3>1, <3>2, <3>3, <3>4, <3>5, <3>6, <3>7, <3>8, <3>9, <3>10, <3>11
  <2>6. Staged' /\ Failed'
    BY <2>1, <2>2, <2>5 DEF OrphanInv, Staged, Failed
  <2>7. OrphansHaveCause'
    BY <2>1, <2>3, <2>5 DEF OrphanInv, OrphansHaveCause
  <2> QED
    BY <2>6, <2>7 DEF OrphanInv
<1> QED
  BY <1>1, <1>2

\* A finished request leaves objects without a job only for a reason.
THEOREM OrphansCaused == Spec => []OrphansHaveCause
<1>1. Init => OrphanInv
  BY DEF Init, OrphanInv, Staged, Failed, OrphansHaveCause, At
<1>2. OrphanInv => OrphansHaveCause
  BY DEF OrphanInv
<1> QED
  BY <1>1, <1>2, Invariance, OrphanStep, PTL DEF Spec
=============================================================================
