----------------------------- MODULE ObjectStore -----------------------------
(***************************************************************************)
(* get_object_store: objects in an S3 bucket, or in files below a root     *)
(* directory that the gateway processes of one machine share.  Here are    *)
(* the objects of one side of one job, and each action is one system call  *)
(* of LocalObjectStore or one request of S3ObjectStore.                    *)
(*                                                                         *)
(* What is put under a key is always the same: the key of an original has  *)
(* its digest, and page images are rendered from it.  So the content of a  *)
(* file is the set of its blocks that have been written.                   *)
(***************************************************************************)
EXTENDS Integers

CONSTANTS
  Callers,    \* those who call the store, one call at a time
  Pages,      \* page numbers
  Blocks,     \* write calls of a put
  MaxFaults   \* bound on calls that fail and processes that die

ASSUME StoreAssumption == Blocks \in Nat \ {0} /\ MaxFaults \in Nat /\ Pages # {}

\* staging/<job>/, jobs/<job>/originals/ and jobs/<job>/pages/
Staging == <<"staging", 0>>
Original == <<"originals", 0>>
Page(n) == <<"pages", n>>
Keys == {Staging, Original} \union {Page(n) : n \in Pages}
JobDirs == {"originals", "pages"}

\* The object's file, and the .tmp and .meta files beside it.
Files == Keys \X {"data", "tmp", "meta"}
DirOf(f) == f[1][1]

Whole == 1..Blocks
Absent == {0}    \* the content of a file that does not exist
NoFile == <<>>   \* the handle of a caller that has none, or of an unlinked file

VARIABLES
  backend,    \* "s3", or local files with "posix" or "windows" semantics
  file,       \* content of each file
  dirs,       \* directories that exist
  call,       \* each caller's last call: operation, key, place, blocks, handle
  left,       \* directories each caller's deletion by prefix has yet to see
  listed,     \* files it has listed and has yet to remove
  contended,  \* history: keys for which two callers have written one .tmp
  skipped,    \* history: callers whose deletion by prefix failed, as a whole or for a file
  faults      \* faults injected so far

storeVars == <<backend, file, dirs, call, left, listed, contended, skipped>>

Done == {"idle", "ok", "raised"}
Call == [op : {"none", "put", "get", "delete", "purge"}, key : Keys,
         at : Done \union {"start", "open", "write", "meta", "part", "remove"},
         pos : 0..Blocks, fd : Files \union {NoFile}]

StoreTypeOK ==
  /\ backend \in {"s3", "posix", "windows"}
  /\ file \in [Files -> {Absent} \union SUBSET Whole]
  /\ dirs \subseteq {"staging"} \union JobDirs
  /\ call \in [Callers -> Call]
  /\ left \in [Callers -> SUBSET JobDirs]
  /\ listed \in [Callers -> SUBSET Files]
  /\ contended \subseteq Keys
  /\ skipped \subseteq Callers
  /\ faults \in 0..MaxFaults

StoreInit ==
  /\ backend \in {"s3", "posix", "windows"}
  /\ file = [f \in Files |-> Absent]
  /\ dirs = {}
  /\ call = [c \in Callers |-> [op |-> "none", key |-> Original, at |-> "idle",
                                pos |-> 0, fd |-> NoFile]]
  /\ left = [c \in Callers |-> {}] /\ listed = [c \in Callers |-> {}]
  /\ contended = {} /\ skipped = {}
  /\ faults = 0

Fault == faults < MaxFaults /\ faults' = faults + 1
Local == backend # "s3"
At(c, op, at) == call[c].op = op /\ call[c].at = at
File(c, suffix) == <<call[c].key, suffix>>
Running(c) == call[c].at \notin Done

Goto(c, at) == call' = [call EXCEPT ![c].at = at]
Finish(c, at) == call' = [call EXCEPT ![c].at = at, ![c].fd = NoFile, ![c].pos = 0]

\* Windows refuses to replace or to unlink a file somebody else has open.
Held(c, f) == backend = "windows" /\ \E d \in Callers \ {c} : call[d].fd = f

\* A handle follows its file when that is renamed, and outlives its name.
Moved(f, g) == [d \in Callers |-> [call[d] EXCEPT !.fd =
                  IF @ = f THEN g ELSE IF @ = g THEN NoFile ELSE @]]

\* A caller makes a call; its previous one is over.
Begin(c, op, k) ==
  /\ ~Running(c)
  /\ call' = [call EXCEPT ![c] =
       [op |-> op, key |-> k, at |-> "start", pos |-> 0, fd |-> NoFile]]
  /\ UNCHANGED <<backend, file, dirs, left, listed, contended, skipped>>

-----------------------------------------------------------------------------
(***************************************************************************)
(* LocalObjectStore                                                        *)
(***************************************************************************)
\* put_bytes, put_fileobj: path.parent.mkdir(parents=True, exist_ok=True) ...
MakeDir(c) ==
  /\ Local /\ At(c, "put", "start") /\ Goto(c, "open")
  /\ dirs' = dirs \union {call[c].key[1]}
  /\ UNCHANGED <<backend, file, left, listed, contended, skipped, faults>>

\* Mutant of OpenName: the object is written in its place.
OpenNameData(c) == File(c, "data")
OpenName(c) == File(c, "tmp")

\* ... open for writing, which empties a .tmp file that is there already ...
Open(c) ==
  /\ At(c, "put", "open")
  /\ IF DirOf(OpenName(c)) \in dirs
       THEN /\ file' = [file EXCEPT ![OpenName(c)] = {}]
            /\ call' = [call EXCEPT ![c].at = "write", ![c].fd = OpenName(c)]
            /\ contended' = contended \union {k \in {call[c].key} :
                 \E d \in Callers \ {c} : At(d, "put", "write") /\ call[d].key = k}
       ELSE Finish(c, "raised") /\ UNCHANGED <<file, contended>>
  /\ UNCHANGED <<backend, dirs, left, listed, skipped, faults>>

\* ... write block after block ...
Write(c) ==
  /\ At(c, "put", "write") /\ call[c].pos < Blocks
  /\ call' = [call EXCEPT ![c].pos = @ + 1]
  /\ file' = [f \in Files |->
       IF f = call[c].fd THEN file[f] \union {call[c].pos + 1} ELSE file[f]]
  /\ UNCHANGED <<backend, dirs, left, listed, contended, skipped, faults>>

\* ... (put_fileobj only: more than max_bytes, the .tmp file is removed) ...
TooLarge(c) ==
  /\ At(c, "put", IF Local THEN "write" ELSE "start")
  /\ call[c].key = Staging /\ call[c].pos < Blocks
  /\ file' = [file EXCEPT ![File(c, "tmp")] = Absent]
  /\ call' = [Moved(File(c, "tmp"), NoFile) EXCEPT ![c].at = "raised", ![c].fd = NoFile,
                                                    ![c].pos = 0]
  /\ UNCHANGED <<backend, dirs, left, listed, contended, skipped, faults>>

\* ... close it ...
Close(c) ==
  /\ At(c, "put", "write") /\ call[c].pos = Blocks /\ call[c].fd # NoFile
  /\ call' = [call EXCEPT ![c].fd = NoFile]
  /\ UNCHANGED <<backend, file, dirs, left, listed, contended, skipped, faults>>

\* ... replace the object with it ...
Replace(c) ==
  /\ At(c, "put", "write") /\ call[c].pos = Blocks /\ call[c].fd = NoFile
  /\ LET tmp == OpenName(c)  data == File(c, "data")
     IN IF file[tmp] = Absent \/ Held(c, tmp) \/ Held(c, data)
          THEN Finish(c, "raised") /\ UNCHANGED file
          ELSE /\ file' = [file EXCEPT ![tmp] = Absent, ![data] = file[tmp]]
               /\ call' = [Moved(tmp, data) EXCEPT ![c].at = "meta", ![c].fd = NoFile,
                                                   ![c].pos = 0]
  /\ UNCHANGED <<backend, dirs, left, listed, contended, skipped, faults>>

\* ... and write the .meta file.
WriteMeta(c) ==
  /\ At(c, "put", "meta")
  /\ IF call[c].key[1] \in dirs
       THEN Goto(c, "ok") /\ file' = [file EXCEPT ![File(c, "meta")] = Whole]
       ELSE Goto(c, "raised") /\ UNCHANGED file
  /\ UNCHANGED <<backend, dirs, left, listed, contended, skipped, faults>>

\* delete: unlink the object, which on Windows nobody else may have open ...
Unlink(c) ==
  /\ Local /\ At(c, "delete", "start")
  /\ IF Held(c, File(c, "data"))
       THEN Finish(c, "raised") /\ UNCHANGED file
       ELSE /\ file' = [file EXCEPT ![File(c, "data")] = Absent]
            /\ call' = [Moved(File(c, "data"), NoFile) EXCEPT ![c].at = "meta"]
  /\ UNCHANGED <<backend, dirs, left, listed, contended, skipped, faults>>

\* ... then its .meta file.
UnlinkMeta(c) ==
  /\ At(c, "delete", "meta") /\ Goto(c, "ok")
  /\ file' = [file EXCEPT ![File(c, "meta")] = Absent]
  /\ UNCHANGED <<backend, dirs, left, listed, contended, skipped, faults>>

\* delete_prefix: shutil.rmtree(root, ignore_errors=True) goes through the
\* directories that exist when it starts ...
ScanTree(c) ==
  /\ Local /\ At(c, "purge", "start") /\ Goto(c, "part")
  /\ left' = [left EXCEPT ![c] = dirs \intersect JobDirs]
  /\ UNCHANGED <<backend, file, dirs, listed, contended, skipped, faults>>

\* Mutant of Entries: only objects are listed.
EntriesObjects(d) == {f \in Files : DirOf(f) = d /\ f[2] = "data" /\ file[f] # Absent}
Entries(d) == {f \in Files : DirOf(f) = d /\ file[f] # Absent}

\* ... lists one (for S3: the listing is truncated after it) ...
List(c) ==
  /\ At(c, "purge", "part") /\ listed[c] = {}
  /\ \E d \in left[c] :
       /\ left' = [left EXCEPT ![c] = @ \ {d}]
       /\ listed' = [listed EXCEPT ![c] = Entries(d)]
       /\ call' = [call EXCEPT ![c].at = "remove",
                               ![c].key = CHOOSE k \in Keys : k[1] = d]
  /\ UNCHANGED <<backend, file, dirs, contended, skipped, faults>>

\* ... removes what it listed, file by file; what cannot be removed stays ...
RemoveFile(c) ==
  /\ Local /\ At(c, "purge", "remove")
  /\ \E f \in listed[c] :
       /\ listed' = [listed EXCEPT ![c] = @ \ {f}]
       /\ \/ /\ ~Held(c, f)
             /\ file' = [file EXCEPT ![f] = Absent]
             /\ call' = Moved(f, NoFile)
             /\ UNCHANGED <<skipped, faults>>
          \/ /\ skipped' = skipped \union {c}
             /\ IF Held(c, f) THEN UNCHANGED faults ELSE Fault
             /\ UNCHANGED <<file, call>>
  /\ UNCHANGED <<backend, dirs, left, contended>>

\* ... and the directory, unless something is in it (again).
RemoveDir(c) ==
  /\ Local /\ At(c, "purge", "remove") /\ listed[c] = {} /\ Goto(c, "part")
  /\ dirs' = dirs \ {d \in {call[c].key[1]} : Entries(d) = {}}
  /\ UNCHANGED <<backend, file, left, listed, contended, skipped, faults>>

PurgeEnds(c) ==
  /\ At(c, "purge", "part") /\ left[c] = {} /\ Goto(c, "ok")
  /\ UNCHANGED <<backend, file, dirs, left, listed, contended, skipped, faults>>

-----------------------------------------------------------------------------
(***************************************************************************)
(* S3ObjectStore, and what both have in common                             *)
(***************************************************************************)
Effect(c) ==
  file' = [file EXCEPT ![File(c, "data")] =
             IF call[c].op = "put" THEN Whole ELSE Absent]

\* put_object, delete_object
Request(c) ==
  /\ ~Local /\ \E op \in {"put", "delete"} : At(c, op, "start")
  /\ Effect(c) /\ Goto(c, "ok")
  /\ UNCHANGED <<backend, dirs, left, listed, contended, skipped, faults>>

\* get_bytes
Get(c) ==
  /\ At(c, "get", "start")
  /\ Goto(c, IF file[File(c, "data")] = Absent THEN "raised" ELSE "ok")
  /\ UNCHANGED <<backend, file, dirs, left, listed, contended, skipped, faults>>

StartListing(c) ==
  /\ ~Local /\ At(c, "purge", "start") /\ Goto(c, "part")
  /\ left' = [left EXCEPT ![c] = JobDirs]
  /\ UNCHANGED <<backend, file, dirs, listed, contended, skipped, faults>>

\* delete_objects; the errors its answer may have for some keys are not read.
DeleteObjects(c) ==
  /\ ~Local /\ At(c, "purge", "remove") /\ Goto(c, "part")
  /\ \E kept \in SUBSET listed[c] :
       /\ IF kept = {} THEN UNCHANGED <<skipped, faults>>
                       ELSE Fault /\ skipped' = skipped \union {c}
       /\ file' = [f \in Files |-> IF f \in listed[c] \ kept THEN Absent ELSE file[f]]
  /\ listed' = [listed EXCEPT ![c] = {}]
  /\ UNCHANGED <<backend, dirs, left, contended>>

\* A deletion by prefix is cut short.
Forget(c) ==
  IF call[c].op = "purge"
    THEN /\ listed' = [listed EXCEPT ![c] = {}] /\ left' = [left EXCEPT ![c] = {}]
         /\ skipped' = skipped \union {d \in {c} : Running(d)}
    ELSE UNCHANGED <<listed, left, skipped>>

\* A call raises: the disk is full, the bucket out of reach.  A request may have
\* taken effect all the same; rmtree does not raise.
CallFails(c) ==
  /\ Running(c) /\ Fault
  /\ Local => call[c].op # "purge"
  /\ Finish(c, "raised")
  /\ \/ UNCHANGED file
     \/ ~Local /\ call[c].op \in {"put", "delete"} /\ Effect(c)
  /\ Forget(c)
  /\ UNCHANGED <<backend, dirs, contended>>

\* The process of a caller dies.
Drop(c) ==
  /\ Fault /\ Finish(c, "idle")
  /\ Forget(c)
  /\ UNCHANGED <<backend, file, dirs, contended>>

StoreStep(c) ==
  \/ MakeDir(c) \/ Open(c) \/ Write(c) \/ TooLarge(c) \/ Close(c) \/ Replace(c)
  \/ WriteMeta(c) \/ Unlink(c) \/ UnlinkMeta(c) \/ Get(c) \/ Request(c)
  \/ ScanTree(c) \/ List(c) \/ RemoveFile(c) \/ RemoveDir(c) \/ PurgeEnds(c)
  \/ StartListing(c) \/ DeleteObjects(c)

-----------------------------------------------------------------------------
Object(k) == CASE file[<<k, "data">>] = Absent -> "absent"
               [] file[<<k, "data">>] = Whole -> "whole"
               [] OTHER -> "torn"

\* .meta is written after the object, and unlinked after it.
Phase(c) ==
  CASE call[c].at \in Done -> call[c].at
    [] call[c].at = "meta" -> "effective"
    [] OTHER -> "pending"

Promise == INSTANCE AtomicStore WITH
  Prefix <- {k \in Keys : k[1] \in JobDirs},
  object <- [k \in Keys |-> IF k \in contended THEN "any" ELSE Object(k)],
  op <- [c \in Callers |-> call[c].op],
  key <- [c \in Callers |-> IF call[c].op = "purge" THEN Original ELSE call[c].key],
  phase <- [c \in Callers |-> Phase(c)]

\* Up to overlapping puts of one key, files give what one atomic object per key
\* would: no reader ever finds half an object, a call that returns has done its
\* work, one that raised or died may have.
ImplementsAtomicStore == Promise!Spec
=============================================================================
