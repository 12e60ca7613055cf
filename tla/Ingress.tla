------------------------------- MODULE Ingress -------------------------------
(***************************************************************************)
(* POST /api/compare: look the Idempotency-Key up, upload both files       *)
(* through a staging key, then create job, rows and idempotency record in  *)
(* one transaction, or resume the job an earlier request with that key     *)
(* created.  Requests run concurrently, in one process or in several; all  *)
(* are of one user, since a key is looked up per user.                     *)
(***************************************************************************)
EXTENDS Naturals, FiniteSets

CONSTANTS
  Requests,   \* attempts of clients; a request's job_id is fresh, so it names
              \* the job too
  Keys,       \* idempotency keys
  KeyOf,      \* KeyOf[r]: the header of r, or NoKey
  FilesOf,    \* FilesOf[r]: what request_hash is computed from
  NoKey,
  NoEntry,    \* no idempotency record
  MaxFaults   \* bound on failing calls and crashes

ASSUME NoKeyAssumption == NoKey \notin Keys
ASSUME KeyOfAssumption == KeyOf \in [Requests -> Keys \union {NoKey}]
ASSUME RequestsAssumption ==
  Requests \intersect {"none", "refused", "conflict", "error", "crashed"} = {}
ASSUME NoEntryAssumption == NoEntry \notin Requests
ASSUME MaxFaultsAssumption == MaxFaults \in Nat

VARIABLES
  idem,     \* idem[k]: the job in the idempotency record of k
  jobs,     \* jobs whose transaction committed
  objects,  \* objects[r]: what r's prefixes hold in the object store
  pc,       \* pc[r]: the next step of r
  reply,    \* reply[r]: the job named in the answer, or how the request ended
  unheard,  \* requests whose COMMIT was applied but reported as failed
  faults    \* faults injected so far

vars == <<idem, jobs, objects, pc, reply, unheard, faults>>

Sides == {1, 2}
Object == {"staging", "original"} \X Sides
Originals == {"original"} \X Sides

Uploading == {"stage", "copy", "unstage"} \X Sides
Outcome == {"none", "refused", "conflict", "error", "crashed"}

TypeOK ==
  /\ idem \in [Keys -> Requests \union {NoEntry}]
  /\ jobs \subseteq Requests
  /\ objects \in [Requests -> SUBSET Object]
  /\ pc \in [Requests -> Uploading \union
                         ({"lookup", "check", "commit", "cleanup", "done"} \X {0})]
  /\ reply \in [Requests -> Requests \union Outcome]
  /\ unheard \subseteq Requests
  /\ faults \in 0..MaxFaults

At(l) == <<l, 0>>

Init ==
  /\ idem = [k \in Keys |-> NoEntry]
  /\ jobs = {}
  /\ objects = [r \in Requests |-> {}]
  /\ pc = [r \in Requests |-> At("lookup")]
  /\ reply = [r \in Requests |-> "none"]
  /\ unheard = {}
  /\ faults = 0

Fault == faults < MaxFaults /\ faults' = faults + 1
Goto(r, l) == pc' = [pc EXCEPT ![r] = l]
Answer(r, a) == reply' = [reply EXCEPT ![r] = a] /\ Goto(r, At("done"))

\* Mutant of Recorded: the row is not checked for None.
RecordedIfKeyed(r) == KeyOf[r] # NoKey

\* The SELECT on idempotency_requests finds a row.
Recorded(r) == KeyOf[r] # NoKey /\ idem[KeyOf[r]] # NoEntry

-----------------------------------------------------------------------------
\* compare: lookup_idempotency answers a known key at once, whatever the files
\* of this request are.
Lookup(r) ==
  /\ pc[r] = At("lookup")
  /\ IF Recorded(r) THEN Answer(r, idem[KeyOf[r]])
                    ELSE Goto(r, <<"stage", 1>>) /\ UNCHANGED reply
  /\ UNCHANGED <<idem, jobs, objects, unheard, faults>>

\* _store_upload: put_fileobj under the staging key ...
Stage(r, s) ==
  /\ pc[r] = <<"stage", s>>
  /\ objects' = [objects EXCEPT ![r] = @ \union {<<"staging", s>>}]
  /\ Goto(r, <<"copy", s>>)
  /\ UNCHANGED <<idem, jobs, reply, unheard, faults>>

\* ... copied to the final key ...
Copy(r, s) ==
  /\ pc[r] = <<"copy", s>>
  /\ objects' = [objects EXCEPT ![r] = @ \union {<<"original", s>>}]
  /\ Goto(r, <<"unstage", s>>)
  /\ UNCHANGED <<idem, jobs, reply, unheard, faults>>

\* Mutant of Unstage: delete(final_key).
UnstageFinal(r, s) ==
  /\ pc[r] = <<"unstage", s>>
  /\ objects' = [objects EXCEPT ![r] = @ \ {<<"original", s>>}]
  /\ Goto(r, IF s = 1 THEN <<"stage", 2>> ELSE At("check"))
  /\ UNCHANGED <<idem, jobs, reply, unheard, faults>>

\* ... and deleted under the staging key.
Unstage(r, s) ==
  /\ pc[r] = <<"unstage", s>>
  /\ objects' = [objects EXCEPT ![r] = @ \ {<<"staging", s>>}]
  /\ Goto(r, IF s = 1 THEN <<"stage", 2>> ELSE At("check"))
  /\ UNCHANGED <<idem, jobs, reply, unheard, faults>>

\* The store is unavailable, a file is refused (name, size, empty) or a store
\* call raises: nothing uploaded so far is removed.
Refuse(r) ==
  /\ pc[r] \in Uploading \union {At("lookup")}
  /\ Answer(r, "refused")
  /\ UNCHANGED <<idem, jobs, objects, unheard, faults>>

\* create_or_resume, its SELECT: resume, 409, or go on to the inserts.
Check(r) ==
  /\ pc[r] = At("check")
  /\ \/ /\ ~Recorded(r)
        /\ Goto(r, At("commit")) /\ UNCHANGED reply
     \/ /\ Recorded(r) /\ FilesOf[idem[KeyOf[r]]] = FilesOf[r]
        /\ Answer(r, idem[KeyOf[r]])
     \/ /\ Recorded(r) /\ FilesOf[idem[KeyOf[r]]] # FilesOf[r]
        /\ reply' = [reply EXCEPT ![r] = "conflict"] /\ Goto(r, At("cleanup"))
  /\ UNCHANGED <<idem, jobs, objects, unheard, faults>>

\* The inserts take effect at COMMIT, all or none.
Record(r) == idem' = [k \in Keys |-> IF k = KeyOf[r] THEN r ELSE idem[k]]

\* Mutants of Commit: the record is overwritten (ON CONFLICT DO UPDATE); the
\* violation is swallowed after the rollback.
CommitUpsert(r) ==
  /\ pc[r] = At("commit")
  /\ jobs' = jobs \union {r} /\ Record(r) /\ Answer(r, r)
  /\ UNCHANGED <<objects, unheard, faults>>

CommitSwallows(r) ==
  /\ pc[r] = At("commit")
  /\ Answer(r, r)
  /\ IF Recorded(r) THEN UNCHANGED <<idem, jobs>>
                    ELSE jobs' = jobs \union {r} /\ Record(r)
  /\ UNCHANGED <<objects, unheard, faults>>

\* create_or_resume, inserts and COMMIT.  (user_id, idempotency_key) is unique:
\* a request that lost the race waits for the winner and then raises.
Commit(r) ==
  /\ pc[r] = At("commit")
  /\ IF Recorded(r)
       THEN /\ reply' = [reply EXCEPT ![r] = "error"] /\ Goto(r, At("cleanup"))
            /\ UNCHANGED <<idem, jobs>>
       ELSE jobs' = jobs \union {r} /\ Record(r) /\ Answer(r, r)
  /\ UNCHANGED <<objects, unheard, faults>>

\* A statement of the transaction raises and it is rolled back.
RolledBack(r) ==
  /\ pc[r] \in {At("check"), At("commit")} /\ Fault
  /\ reply' = [reply EXCEPT ![r] = "error"] /\ Goto(r, At("cleanup"))
  /\ UNCHANGED <<idem, jobs, objects, unheard>>

\* COMMIT is applied but the connection is lost before its answer arrives.
CommitUnheard(r) ==
  /\ pc[r] = At("commit") /\ ~Recorded(r) /\ Fault
  /\ jobs' = jobs \union {r} /\ Record(r)
  /\ unheard' = unheard \union {r}
  /\ reply' = [reply EXCEPT ![r] = "error"] /\ Goto(r, At("cleanup"))
  /\ UNCHANGED objects

\* Mutant of Cleanup: the staging prefix is deleted.
CleanupStaging(r) ==
  /\ pc[r] = At("cleanup")
  /\ objects' = [objects EXCEPT ![r] = @ \intersect Originals]
  /\ Goto(r, At("done"))
  /\ UNCHANGED <<idem, jobs, reply, unheard, faults>>

\* compare, except clause: delete_prefix("jobs/<job_id>"), then re-raise.
Cleanup(r) ==
  /\ pc[r] = At("cleanup")
  /\ objects' = [objects EXCEPT ![r] = @ \ Originals]
  /\ Goto(r, At("done"))
  /\ UNCHANGED <<idem, jobs, reply, unheard, faults>>

\* The process dies, or delete_prefix raises: the request ends where it is.
Crash(r) ==
  /\ pc[r] # At("done") /\ Fault
  /\ reply' = [reply EXCEPT ![r] = "crashed"] /\ Goto(r, At("done"))
  /\ UNCHANGED <<idem, jobs, objects, unheard>>

Next == \E r \in Requests :
  \/ Lookup(r) \/ Refuse(r) \/ Check(r) \/ Commit(r) \/ RolledBack(r)
  \/ CommitUnheard(r) \/ Cleanup(r) \/ Crash(r)
  \/ \E s \in Sides : Stage(r, s) \/ Copy(r, s) \/ Unstage(r, s)

Spec == Init /\ [][Next]_vars

-----------------------------------------------------------------------------
\* Retries and concurrent duplicates of a request create one job between them,
\* also when the first COMMIT went unheard.
OneJobPerKey ==
  \A q, r \in jobs : KeyOf[q] = KeyOf[r] /\ KeyOf[q] # NoKey => q = r

\* The job an answer names has been committed, and is the request's own or that
\* of an earlier request with its key.
AnswersNameJobs ==
  \A r \in Requests : reply[r] \in Requests =>
    /\ reply[r] \in jobs
    /\ reply[r] # r => KeyOf[r] # NoKey /\ KeyOf[reply[r]] = KeyOf[r]

\* No other request's cleanup, conflict or resumption takes a job's files away;
\* only the cleanup after an unheard COMMIT does.
JobsKeepOriginals ==
  \A r \in jobs \ unheard : Originals \subseteq objects[r]

\* A finished request that created no job leaves objects behind only if that very
\* request was refused during the upload, resumed an older job, or crashed (or its
\* cleanup did): not if it ended in a conflict or a rollback, whatever befell others.
OrphansHaveCause ==
  \A r \in Requests \ jobs :
    pc[r] = At("done") /\ objects[r] # {} =>
      \/ reply[r] = "refused"
      \/ reply[r] \in Requests
      \/ reply[r] = "crashed"

-----------------------------------------------------------------------------
\* The gateway "сохраняет оригиналы в MinIO и ставит задачу в очередь"
\* (README.md:3): the job an answer names has its originals.
AnsweredJobHasOriginals ==
  \A r \in Requests : reply[r] \in Requests => Originals \subseteq objects[reply[r]]
=============================================================================
