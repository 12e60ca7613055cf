-------------------------- MODULE ObjectStoreProofs --------------------------
(***************************************************************************)
(* Proofs about the steps of ObjectStore, for any number of callers, pages *)
(* and blocks: what a caller may assume of a file it writes, and that each *)
(* step is one that AtomicStore allows.  RenderingProofs makes theorems of *)
(* a specification of them.                                                *)
(***************************************************************************)
EXTENDS ObjectStore, TLAPS

Suffixes == {"data", "tmp", "meta"}
Places == {"start", "open", "write", "meta", "part", "remove"}

\* Only a put that writes has a handle; it leads to its .tmp file, or after
\* overlapping puts to the object, and to a file that exists.
Handles ==
  \A c \in Callers :
    /\ call[c].at # "write" => call[c].fd = NoFile /\ call[c].pos = 0
    /\ call[c].fd # NoFile =>
         /\ call[c].fd \in {File(c, "tmp")} \union
              {f \in {File(c, "data")} : call[c].key \in contended}
         /\ file[call[c].fd] # Absent

\* Where each operation can be; a request to S3 has no places on its way.
InPlace(c) ==
  /\ call[c].at \in {"open", "write"} => call[c].op = "put"
  /\ call[c].at = "meta" => call[c].op \in {"put", "delete"}
  /\ call[c].at \in {"part", "remove"} => call[c].op = "purge"
  /\ ~Local /\ Running(c) /\ call[c].op \in {"put", "delete"} => call[c].at = "start"

OnItsWay == \A c \in Callers : InPlace(c)

\* Two that write one key are known to overlap.
Alone ==
  \A c, d \in Callers :
    At(c, "put", "write") /\ At(d, "put", "write") /\ c # d =>
      call[c].key # call[d].key \/ call[c].key \in contended

\* Whoever writes a key alone finds in the .tmp file what it wrote, or no file; once
\* it has closed the file, all of it.
HasWritten(c) ==
  \/ call[c].fd = File(c, "tmp") /\ file[File(c, "tmp")] = 1..call[c].pos
  \/ call[c].fd = NoFile /\ file[File(c, "tmp")] = Absent
  \/ call[c].fd = NoFile /\ call[c].pos = Blocks /\ file[File(c, "tmp")] = 1..Blocks

Written ==
  \A c \in Callers :
    At(c, "put", "write") /\ call[c].key \notin contended => HasWritten(c)

\* Without overlapping puts an object is never half there.
Objects == \A k \in Keys \ contended : file[<<k, "data">>] \in {Absent, Whole}

\* A deletion by prefix lists files of its job only.
ListedInJob == \A c \in Callers : \A f \in listed[c] : DirOf(f) \in JobDirs

StoreInv ==
  /\ StoreTypeOK
  /\ Handles /\ OnItsWay /\ Alone /\ Written /\ Objects /\ ListedInJob

-----------------------------------------------------------------------------
\* A file is a key and a suffix.
LEMMA FileNames ==
  /\ \A k \in Keys, s \in Suffixes :
       <<k, s>> \in Files /\ <<k, s>>[1] = k /\ <<k, s>>[2] = s
  /\ \A f \in Files : f[1] \in Keys /\ f[2] \in Suffixes /\ f = <<f[1], f[2]>>
  /\ NoFile \notin Files
BY DEF Files, Suffixes, NoFile

\* Each key has an object, a .tmp and a .meta file.
LEMMA FileKinds ==
  \A k \in Keys :
    /\ <<k, "tmp">> \in Files /\ <<k, "tmp">>[2] = "tmp" /\ <<k, "tmp">> # NoFile
    /\ <<k, "data">> \in Files /\ <<k, "data">>[2] = "data" /\ <<k, "data">> # NoFile
    /\ <<k, "meta">> \in Files /\ <<k, "meta">>[2] = "meta" /\ <<k, "meta">> # NoFile
BY DEF Files, NoFile

\* Files of different keys or suffixes are different.
LEMMA FilesDiffer ==
  \A k, j \in Keys :
    /\ <<k, "tmp">> # <<j, "data">>
    /\ <<k, "tmp">> = <<j, "tmp">> => k = j
    /\ <<k, "data">> = <<j, "data">> => k = j
OBVIOUS

\* The objects the gateway names are keys of the store.
LEMMA KeyNames ==
  /\ Staging \in Keys /\ Original \in Keys
  /\ \A n \in Pages : Page(n) \in Keys
BY DEF Keys

\* What a file can hold: nothing yet, some of the blocks, or all of them.
LEMMA Contents ==
  /\ Absent \notin SUBSET Whole
  /\ {} \in SUBSET Whole /\ Whole \in SUBSET Whole
  /\ \A n \in 0..Blocks : 1..n \in SUBSET Whole
  /\ \A B \in SUBSET Whole, n \in 0..Blocks : n < Blocks =>
       B \union {n + 1} \in SUBSET Whole /\ n + 1 \in 0..Blocks
BY StoreAssumption DEF Absent, Whole

\* How the calls change, field by field.
Kept(d) == /\ call'[d].op = call[d].op /\ call'[d].key = call[d].key
           /\ call'[d].pos = call[d].pos /\ call'[d].fd = call[d].fd

\* Goto moves one caller on and keeps the rest of every call.
LEMMA GotoFields ==
  ASSUME call \in [Callers -> Call], NEW c \in Callers, NEW p \in Done \union Places, Goto(c, p)
  PROVE  /\ call' \in [Callers -> Call]
         /\ \A d \in Callers : Kept(d) /\ call'[d].at = IF d = c THEN p ELSE call[d].at
BY DEF Goto, Kept, Call, Places, Done

End(m, c, p) == [m EXCEPT ![c].at = p, ![c].fd = NoFile, ![c].pos = 0]

\* A call that ends gives up its handle and its position.
LEMMA EndFields ==
  ASSUME NEW m \in [Callers -> Call], NEW c \in Callers, NEW p \in Done \union Places
  PROVE  /\ End(m, c, p) \in [Callers -> Call]
         /\ \A d \in Callers \ {c} : End(m, c, p)[d] = m[d]
         /\ End(m, c, p)[c].op = m[c].op /\ End(m, c, p)[c].key = m[c].key
         /\ End(m, c, p)[c].at = p /\ End(m, c, p)[c].fd = NoFile
         /\ End(m, c, p)[c].pos = 0
<1> DEFINE n == End(m, c, p)
<1>1. n[c] = [op |-> m[c].op, key |-> m[c].key, at |-> p, pos |-> 0, fd |-> NoFile]
  <2>1. m[c] = [op |-> m[c].op, key |-> m[c].key, at |-> m[c].at, pos |-> m[c].pos,
                fd |-> m[c].fd]
    BY DEF Call
  <2>2. n[c] = [m[c] EXCEPT !.at = p, !.fd = NoFile, !.pos = 0]
    BY DEF End
  <2> QED
    BY <2>1, <2>2
<1>2. \A d \in Callers \ {c} : n[d] = m[d]
  BY DEF End
<1>3. DOMAIN n = Callers /\ n = [d \in DOMAIN n |-> n[d]]
  BY DEF End
<1>4. n[c] \in Call
  BY <1>1, StoreAssumption DEF Call, Done, Places
<1> HIDE DEF n
<1> QED
  BY <1>1, <1>2, <1>3, <1>4 DEF n

\* Finish ends one call and leaves the others alone.
LEMMA FinishFields ==
  ASSUME call \in [Callers -> Call], NEW c \in Callers, NEW p \in Done, Finish(c, p)
  PROVE  /\ call' \in [Callers -> Call]
         /\ \A d \in Callers \ {c} : call'[d] = call[d]
         /\ call'[c].op = call[c].op /\ call'[c].key = call[c].key
         /\ call'[c].at = p /\ call'[c].fd = NoFile /\ call'[c].pos = 0
<1>1. call' = End(call, c, p)
  BY DEF Finish, End
<1> QED
  BY <1>1, EndFields

\* Begin starts one call, without a handle, and leaves the others alone.
LEMMA BeginFields ==
  ASSUME call \in [Callers -> Call], NEW c \in Callers,
         NEW o \in {"put", "get", "delete", "purge"}, NEW k \in Keys, Begin(c, o, k)
  PROVE  /\ call' \in [Callers -> Call]
         /\ \A d \in Callers \ {c} : call'[d] = call[d]
         /\ call'[c].op = o /\ call'[c].key = k
         /\ call'[c].at = "start" /\ call'[c].fd = NoFile /\ call'[c].pos = 0
BY StoreAssumption DEF Begin, Call

\* A put that has opened its file, and a deletion that has listed a directory.
LEMMA OpenFields ==
  ASSUME call \in [Callers -> Call], NEW c \in Callers, NEW f \in Files,
         call' = [call EXCEPT ![c].at = "write", ![c].fd = f]
  PROVE  /\ call' \in [Callers -> Call]
         /\ \A d \in Callers \ {c} : call'[d] = call[d]
         /\ call'[c].at = "write" /\ call'[c].fd = f
         /\ call'[c].op = call[c].op /\ call'[c].key = call[c].key /\ call'[c].pos = call[c].pos
<1>1. call'[c] = [op |-> call[c].op, key |-> call[c].key, at |-> "write", pos |-> call[c].pos,
                  fd |-> f]
  <2>1. call[c] = [op |-> call[c].op, key |-> call[c].key, at |-> call[c].at,
                   pos |-> call[c].pos, fd |-> call[c].fd]
    BY DEF Call
  <2> QED
    BY <2>1
<1>2. \A d \in Callers \ {c} : call'[d] = call[d]
  OBVIOUS
<1>3. DOMAIN call' = Callers /\ call' = [d \in DOMAIN call' |-> call'[d]]
  OBVIOUS
<1>4. call'[c] \in Call
  BY <1>1 DEF Call
<1> QED
  BY <1>1, <1>2, <1>3, <1>4

\* The other of the two.
LEMMA ListFields ==
  ASSUME call \in [Callers -> Call], NEW c \in Callers, NEW k \in Keys,
         call' = [call EXCEPT ![c].at = "remove", ![c].key = k]
  PROVE  /\ call' \in [Callers -> Call]
         /\ \A d \in Callers \ {c} : call'[d] = call[d]
         /\ call'[c].at = "remove" /\ call'[c].op = call[c].op
         /\ call'[c].fd = call[c].fd /\ call'[c].pos = call[c].pos
<1>1. call'[c] = [op |-> call[c].op, key |-> k, at |-> "remove", pos |-> call[c].pos,
                  fd |-> call[c].fd]
  <2>1. call[c] = [op |-> call[c].op, key |-> call[c].key, at |-> call[c].at,
                   pos |-> call[c].pos, fd |-> call[c].fd]
    BY DEF Call
  <2> QED
    BY <2>1
<1>2. \A d \in Callers \ {c} : call'[d] = call[d]
  OBVIOUS
<1>3. DOMAIN call' = Callers /\ call' = [d \in DOMAIN call' |-> call'[d]]
  OBVIOUS
<1>4. call'[c] \in Call
  BY <1>1 DEF Call
<1> QED
  BY <1>1, <1>2, <1>3, <1>4

\* Moved changes handles, and nothing else of a call.
LEMMA MovedFields ==
  ASSUME call \in [Callers -> Call], NEW f \in Files, NEW g \in Files \union {NoFile}
  PROVE  /\ Moved(f, g) \in [Callers -> Call]
         /\ \A d \in Callers :
              /\ Moved(f, g)[d].op = call[d].op /\ Moved(f, g)[d].key = call[d].key
              /\ Moved(f, g)[d].at = call[d].at /\ Moved(f, g)[d].pos = call[d].pos
              /\ Moved(f, g)[d].fd = IF call[d].fd = f THEN g
                                     ELSE IF call[d].fd = g THEN NoFile ELSE call[d].fd
BY DEF Moved, Call

-----------------------------------------------------------------------------
\* A step of a caller that writes nothing: others keep their calls, and their
\* handles unless the file is removed; files are removed or objects completed.
Bystands(d) ==
  /\ call'[d].op = call[d].op /\ call'[d].key = call[d].key
  /\ call'[d].at = call[d].at /\ call'[d].pos = call[d].pos
  /\ \/ call'[d].fd = call[d].fd
     \/ call'[d].fd = NoFile /\ call[d].fd \in Files /\ file'[call[d].fd] = Absent

FileIsSafe(f, others) ==
  \/ file'[f] = file[f]
  \/ f[2] = "meta"
  \/ f[2] = "data" /\ file'[f] = Whole
  \/ file'[f] = Absent /\ \A d \in others : call'[d].fd # f

\* A step that writes no file half, and leaves no handle on a file that is gone,
\* keeps the invariant.
LEMMA Aside ==
  ASSUME StoreInv, StoreTypeOK', ListedInJob', NEW c \in Callers,
         backend' = backend, contended' = contended,
         call'[c].at # "write", call'[c].fd = NoFile, call'[c].pos = 0, InPlace(c)',
         \A d \in Callers \ {c} : Bystands(d),
         \A f \in Files : FileIsSafe(f, Callers \ {c})
  PROVE  StoreInv'
<1> USE DEF StoreInv, StoreTypeOK, File
<1>0. \A d \in Callers \ {c} : call'[d].fd # NoFile =>
        /\ call'[d].fd = call[d].fd /\ call'[d].fd \in Files
        /\ call'[d].fd[2] # "meta" /\ file'[call'[d].fd] # Absent
  <2> SUFFICES ASSUME NEW d \in Callers \ {c}, call'[d].fd # NoFile
               PROVE  /\ call'[d].fd = call[d].fd /\ call'[d].fd \in Files
                      /\ call'[d].fd[2] # "meta" /\ file'[call'[d].fd] # Absent
    OBVIOUS
  <2>1. call'[d].fd = call[d].fd /\ file[call[d].fd] # Absent
    BY DEF Bystands, Handles
  <2>2. call[d].key \in Keys
    BY DEF Call
  <2>3. call[d].fd \in Files /\ call[d].fd[2] # "meta"
    <3>1. call[d].fd = <<call[d].key, "tmp">> \/ call[d].fd = <<call[d].key, "data">>
      BY <2>1 DEF Handles
    <3> QED
      BY <2>2, <3>1, FileKinds
  <2>4. file'[call[d].fd] # Absent
    BY <2>1, <2>3, Contents DEF FileIsSafe
  <2> QED
    BY <2>1, <2>3, <2>4
<1>1. Handles'
  BY <1>0 DEF Handles, Bystands
<1>2. OnItsWay'
  BY DEF OnItsWay, InPlace, Bystands, Running, Local
<1>3. Alone'
  BY DEF Alone, At, Bystands
<1>4. Written'
  <2> SUFFICES ASSUME NEW d \in Callers \ {c}, At(d, "put", "write"), call[d].key \notin contended
               PROVE  HasWritten(d)'
    BY DEF Written, At, Bystands
  <2>1. File(d, "tmp") \in Files /\ File(d, "tmp")[2] = "tmp" /\ File(d, "tmp") # NoFile
    BY FileKinds DEF Call
  <2>2. FileIsSafe(File(d, "tmp"), Callers \ {c})
    BY <2>1
  <2>3. CASE call[d].fd = File(d, "tmp") /\ file[File(d, "tmp")] = 1..call[d].pos
    BY <2>1, <2>2, <2>3, <1>0 DEF FileIsSafe, Bystands, HasWritten
  <2>4. CASE call[d].fd = NoFile
    <3>1. call'[d].fd = NoFile /\ file'[File(d, "tmp")] \in {file[File(d, "tmp")], Absent}
      BY <2>1, <2>2, <2>4, FileNames DEF FileIsSafe, Bystands
    <3> QED
      BY <2>4, <3>1 DEF HasWritten, Written, Bystands
  <2> QED
    BY <2>3, <2>4 DEF Written, HasWritten
<1>5. Objects'
  <2> SUFFICES ASSUME NEW k \in Keys \ contended
               PROVE  file'[<<k, "data">>] \in {Absent, Whole}
    BY DEF Objects
  <2>1. <<k, "data">> \in Files /\ <<k, "data">>[2] = "data"
    BY FileKinds
  <2> QED
    BY <2>1 DEF Objects, FileIsSafe
<1> QED
  BY <1>1, <1>2, <1>3, <1>4, <1>5

\* The bound on faults holds.
LEMMA FaultType == faults \in 0..MaxFaults /\ Fault => faults' \in 0..MaxFaults
BY StoreAssumption DEF Fault

-----------------------------------------------------------------------------
\* Each system call and request keeps the invariant.
LEMMA PutSteps ==
  ASSUME StoreInv, NEW c \in Callers, MakeDir(c) \/ TooLarge(c) \/ WriteMeta(c)
  PROVE  StoreInv'
<1> USE DEF StoreInv
<1> DEFINE tmp == File(c, "tmp")  meta == File(c, "meta")
<1>0. /\ call \in [Callers -> Call] /\ call[c].key \in Keys
      /\ tmp \in Files /\ tmp[2] = "tmp" /\ meta \in Files /\ meta[2] = "meta"
  BY FileKinds DEF StoreTypeOK, Call, File
<1>1. CASE MakeDir(c)
  <2> USE <1>1 DEF MakeDir
  <2>1. /\ call' \in [Callers -> Call]
        /\ \A d \in Callers : Kept(d) /\ call'[d].at = IF d = c THEN "open" ELSE call[d].at
    BY <1>0, GotoFields DEF Places
  <2>2. /\ call[c].fd = NoFile /\ call[c].pos = 0 /\ call[c].op = "put"
        /\ call[c].key[1] \in {"staging"} \union JobDirs
    BY <1>0 DEF Handles, At, Keys, Staging, Original, Page, JobDirs
  <2>3. StoreTypeOK'
    BY <2>1, <2>2 DEF StoreTypeOK
  <2>4. ListedInJob' /\ \A f \in Files : FileIsSafe(f, Callers \ {c})
    BY DEF ListedInJob, FileIsSafe
  <2>5. InPlace(c)' /\ \A d \in Callers \ {c} : Bystands(d)
    BY <2>1, <2>2 DEF InPlace, Bystands, Kept, Local, Running
  <2> QED
    BY <2>1, <2>2, <2>3, <2>4, <2>5, Aside DEF Kept
<1>2. CASE TooLarge(c)
  <2> USE <1>2 DEF TooLarge
  <2> DEFINE m == Moved(tmp, NoFile)
  <2>0. /\ m \in [Callers -> Call]
        /\ \A d \in Callers :
             /\ m[d].op = call[d].op /\ m[d].key = call[d].key
             /\ m[d].at = call[d].at /\ m[d].pos = call[d].pos
             /\ m[d].fd # tmp /\ m[d].fd = IF call[d].fd = tmp THEN NoFile ELSE call[d].fd
    BY <1>0, MovedFields, FileNames
  <2>1. /\ call' \in [Callers -> Call]
        /\ \A d \in Callers \ {c} : call'[d] = m[d]
        /\ call'[c].at = "raised" /\ call'[c].fd = NoFile /\ call'[c].pos = 0
    <3>1. call' = End(m, c, "raised")
      BY DEF End
    <3> HIDE <1>2 DEF m, StoreInv, TooLarge
    <3> QED
      BY <2>0, <3>1, EndFields DEF Done
  <2> HIDE DEF m
  <2>2. \A d \in Callers \ {c} : Bystands(d)
    BY <1>0, <2>0, <2>1 DEF Bystands, StoreTypeOK
  <2>3. StoreTypeOK'
    BY <1>0, <2>1 DEF StoreTypeOK
  <2>4. \A f \in Files : FileIsSafe(f, Callers \ {c})
    BY <1>0, <2>0, <2>1 DEF FileIsSafe, StoreTypeOK
  <2>5. InPlace(c)' /\ ListedInJob'
    BY <2>1 DEF InPlace, ListedInJob, Local, Running, Done
  <2> QED
    BY <2>1, <2>2, <2>3, <2>4, <2>5, Aside
<1>3. CASE WriteMeta(c)
  <2> USE <1>3 DEF WriteMeta
  <2>1. PICK p \in {"ok", "raised"} : Goto(c, p)
    OBVIOUS
  <2>2. /\ call' \in [Callers -> Call]
        /\ \A d \in Callers : Kept(d) /\ call'[d].at = IF d = c THEN p ELSE call[d].at
    BY <1>0, <2>1, GotoFields DEF Done
  <2>3. call[c].fd = NoFile /\ call[c].pos = 0
    BY DEF Handles, At
  <2>4. StoreTypeOK'
    BY <1>0, <2>2, Contents DEF StoreTypeOK
  <2>5. ListedInJob' /\ \A f \in Files : FileIsSafe(f, Callers \ {c})
    BY <1>0 DEF ListedInJob, FileIsSafe, StoreTypeOK
  <2>6. InPlace(c)' /\ \A d \in Callers \ {c} : Bystands(d)
    BY <2>2 DEF InPlace, Bystands, Kept, Local, Running, Done
  <2> QED
    BY <2>2, <2>3, <2>4, <2>5, <2>6, Aside DEF Kept
<1> QED
  BY <1>1, <1>2, <1>3

\* ... of delete ...
LEMMA DeleteSteps ==
  ASSUME StoreInv, NEW c \in Callers, Unlink(c) \/ UnlinkMeta(c)
  PROVE  StoreInv'
<1> USE DEF StoreInv
<1> DEFINE data == File(c, "data")  meta == File(c, "meta")
<1>0. /\ call \in [Callers -> Call] /\ call[c].key \in Keys
      /\ data \in Files /\ data[2] = "data" /\ meta \in Files /\ meta[2] = "meta"
  BY FileKinds DEF StoreTypeOK, Call, File
<1>1. CASE Unlink(c) /\ Held(c, data)
  <2> USE <1>1 DEF Unlink
  <2>1. Finish(c, "raised")
    OBVIOUS
  <2>2. /\ call' \in [Callers -> Call]
        /\ \A d \in Callers \ {c} : call'[d] = call[d]
        /\ call'[c].at = "raised" /\ call'[c].fd = NoFile /\ call'[c].pos = 0
    BY <1>0, <2>1, FinishFields DEF Done
  <2>3. StoreTypeOK'
    BY <1>0, <2>2 DEF StoreTypeOK
  <2>4. ListedInJob' /\ \A f \in Files : FileIsSafe(f, Callers \ {c})
    BY DEF ListedInJob, FileIsSafe
  <2>5. InPlace(c)' /\ \A d \in Callers \ {c} : Bystands(d)
    BY <2>2 DEF InPlace, Bystands, Local, Running, Done
  <2> QED
    BY <2>2, <2>3, <2>4, <2>5, Aside
<1>2. CASE Unlink(c) /\ ~Held(c, data)
  <2> USE <1>2 DEF Unlink
  <2> DEFINE m == Moved(data, NoFile)
  <2>0. /\ m \in [Callers -> Call]
        /\ \A d \in Callers :
             /\ m[d].op = call[d].op /\ m[d].key = call[d].key
             /\ m[d].at = call[d].at /\ m[d].pos = call[d].pos
             /\ m[d].fd # data /\ m[d].fd = IF call[d].fd = data THEN NoFile ELSE call[d].fd
    BY <1>0, MovedFields, FileNames
  <2>1. call' = [m EXCEPT ![c].at = "meta"]
    OBVIOUS
  <2>2. call[c].fd = NoFile /\ call[c].pos = 0 /\ call[c].op = "delete"
    BY DEF Handles, At
  <2> HIDE DEF m
  <2>3. /\ call' \in [Callers -> Call]
        /\ \A d \in Callers \ {c} : call'[d] = m[d]
        /\ call'[c].at = "meta" /\ call'[c].fd = NoFile /\ call'[c].pos = 0
        /\ call'[c].op = "delete"
    BY <2>0, <2>1, <2>2 DEF Call
  <2>4. \A d \in Callers \ {c} : Bystands(d)
    BY <1>0, <2>0, <2>3 DEF Bystands, StoreTypeOK
  <2>5. StoreTypeOK'
    BY <1>0, <2>3 DEF StoreTypeOK
  <2>6. \A f \in Files : FileIsSafe(f, Callers \ {c})
    BY <1>0, <2>0, <2>3 DEF FileIsSafe, StoreTypeOK
  <2>7. InPlace(c)' /\ ListedInJob'
    BY <2>3 DEF InPlace, ListedInJob, Local, Running, Done
  <2> QED
    BY <2>3, <2>4, <2>5, <2>6, <2>7, Aside
<1>3. CASE UnlinkMeta(c)
  <2> USE <1>3 DEF UnlinkMeta
  <2>1. /\ call' \in [Callers -> Call]
        /\ \A d \in Callers : Kept(d) /\ call'[d].at = IF d = c THEN "ok" ELSE call[d].at
    BY <1>0, GotoFields DEF Done
  <2>2. call[c].fd = NoFile /\ call[c].pos = 0
    BY DEF Handles, At
  <2>3. StoreTypeOK'
    BY <1>0, <2>1 DEF StoreTypeOK
  <2>4. ListedInJob' /\ \A f \in Files : FileIsSafe(f, Callers \ {c})
    BY <1>0 DEF ListedInJob, FileIsSafe, StoreTypeOK
  <2>5. InPlace(c)' /\ \A d \in Callers \ {c} : Bystands(d)
    BY <2>1 DEF InPlace, Bystands, Kept, Local, Running, Done
  <2> QED
    BY <2>1, <2>2, <2>3, <2>4, <2>5, Aside DEF Kept
<1> QED
  BY <1>1, <1>2, <1>3

\* S3 knows no handles, and whoever has none is not writing.
LEMMA NoHandles == StoreInv /\ ~Local => \A d \in Callers : call[d].fd = NoFile
BY DEF StoreInv, Handles, OnItsWay, InPlace, Running, Done

\* A request to S3 puts or removes an object as a whole.
LEMMA EffectSafe ==
  ASSUME StoreInv, NEW c \in Callers, ~Local, Effect(c),
         \A d \in Callers : call'[d].fd = NoFile
  PROVE  /\ file' \in [Files -> {Absent} \union SUBSET Whole]
         /\ \A f \in Files : FileIsSafe(f, Callers \ {c})
<1>1. File(c, "data") \in Files /\ File(c, "data")[2] = "data"
  BY FileKinds DEF StoreInv, StoreTypeOK, Call, File
<1>2. file \in [Files -> {Absent} \union SUBSET Whole]
  BY DEF StoreInv, StoreTypeOK
<1> QED
  BY <1>1, <1>2, FileNames, Contents DEF Effect, FileIsSafe

\* Steps that only move their caller on, or end its call.
LEMMA StepsOnward ==
  ASSUME StoreInv, NEW c \in Callers, NEW p \in Done \union {"part"}, Goto(c, p),
         call[c].at # "write", p = "part" => call[c].op = "purge",
         left' \in [Callers -> SUBSET JobDirs], dirs' \subseteq dirs,
         UNCHANGED <<backend, file, contended, listed, skipped, faults>>
  PROVE  StoreInv'
<1> USE DEF StoreInv
<1>1. /\ call' \in [Callers -> Call]
      /\ \A d \in Callers : Kept(d) /\ call'[d].at = IF d = c THEN p ELSE call[d].at
  BY GotoFields DEF StoreTypeOK, Places
<1>2. call[c].fd = NoFile /\ call[c].pos = 0 /\ p # "write"
  BY DEF Handles, Done
<1>3. StoreTypeOK'
  BY <1>1 DEF StoreTypeOK
<1>4. ListedInJob' /\ \A f \in Files : FileIsSafe(f, Callers \ {c})
  BY DEF ListedInJob, FileIsSafe
<1>5. InPlace(c)' /\ \A d \in Callers \ {c} : Bystands(d)
  BY <1>1 DEF InPlace, Bystands, Kept, Local, Running, Done
<1> QED
  BY <1>1, <1>2, <1>3, <1>4, <1>5, Aside DEF Kept

\* ... of delete_prefix, up to what it lists ...
LEMMA PurgeSteps ==
  ASSUME StoreInv, NEW c \in Callers,
         ScanTree(c) \/ StartListing(c) \/ RemoveDir(c) \/ PurgeEnds(c) \/ List(c)
  PROVE  StoreInv'
<1> USE DEF StoreInv
<1>0. /\ call \in [Callers -> Call]
      /\ left \in [Callers -> SUBSET JobDirs] /\ listed \in [Callers -> SUBSET Files]
  BY DEF StoreTypeOK
<1>1. CASE ScanTree(c) \/ StartListing(c) \/ RemoveDir(c)
  <2>1. /\ Goto(c, "part") /\ call[c].at # "write" /\ call[c].op = "purge"
        /\ left' \in [Callers -> SUBSET JobDirs] /\ dirs' \subseteq dirs
        /\ UNCHANGED <<backend, file, contended, listed, skipped, faults>>
    BY <1>0, <1>1 DEF ScanTree, StartListing, RemoveDir, At
  <2> QED
    BY <2>1, StepsOnward
<1>2. CASE PurgeEnds(c)
  <2>1. /\ Goto(c, "ok") /\ call[c].at # "write" /\ "ok" \in Done /\ "ok" # "part"
        /\ left' \in [Callers -> SUBSET JobDirs] /\ dirs' \subseteq dirs
        /\ UNCHANGED <<backend, file, contended, listed, skipped, faults>>
    BY <1>0, <1>2 DEF PurgeEnds, At, Done
  <2> QED
    BY <2>1, StepsOnward
<1>3. CASE List(c)
  <2>1. PICK d \in left[c] :
          /\ left' = [left EXCEPT ![c] = @ \ {d}]
          /\ listed' = [listed EXCEPT ![c] = Entries(d)]
          /\ call' = [call EXCEPT ![c].at = "remove", ![c].key = CHOOSE k \in Keys : k[1] = d]
    BY <1>3 DEF List
  <2> DEFINE k == CHOOSE j \in Keys : j[1] = d
  <2>2. k \in Keys
    <3>1. d \in {"originals", "pages"}
      BY <1>0, <2>1 DEF JobDirs
    <3> QED
      BY <3>1, StoreAssumption DEF Keys, Original, Page
  <2> HIDE DEF k
  <2>3. /\ At(c, "purge", "part")
        /\ UNCHANGED <<backend, file, dirs, contended, skipped, faults>>
    BY <1>3 DEF List
  <2>4. call[c].fd = NoFile /\ call[c].pos = 0
    BY <2>3 DEF Handles, At
  <2>5. /\ call' \in [Callers -> Call]
        /\ \A e \in Callers \ {c} : call'[e] = call[e]
        /\ call'[c].op = "purge" /\ call'[c].at = "remove"
        /\ call'[c].fd = NoFile /\ call'[c].pos = 0
    <3>1. call' = [call EXCEPT ![c].at = "remove", ![c].key = k]
      BY <2>1 DEF k
    <3>2. call[c].op = "purge"
      BY <2>3 DEF At
    <3> QED
      BY <1>0, <2>2, <2>4, <3>1, <3>2, ListFields
  <2>6. StoreTypeOK'
    BY <1>0, <2>1, <2>3, <2>5 DEF StoreTypeOK, Entries
  <2>7. ListedInJob' /\ \A f \in Files : FileIsSafe(f, Callers \ {c})
    BY <1>0, <2>1, <2>3 DEF ListedInJob, FileIsSafe, Entries
  <2>8. InPlace(c)' /\ \A e \in Callers \ {c} : Bystands(e)
    BY <2>5 DEF InPlace, Bystands, Local, Running, Done
  <2> QED
    BY <2>3, <2>5, <2>6, <2>7, <2>8, Aside
<1> QED
  BY <1>1, <1>2, <1>3

\* ... and what it removes ...
LEMMA RemoveSteps ==
  ASSUME StoreInv, NEW c \in Callers, RemoveFile(c) \/ DeleteObjects(c)
  PROVE  StoreInv'
<1> USE DEF StoreInv
<1>0. call \in [Callers -> Call] /\ listed \in [Callers -> SUBSET Files]
  BY DEF StoreTypeOK
<1>1. CASE RemoveFile(c)
  <2>1. PICK f \in listed[c] :
          /\ listed' = [listed EXCEPT ![c] = @ \ {f}]
          /\ \/ /\ file' = [file EXCEPT ![f] = Absent] /\ call' = Moved(f, NoFile)
                /\ UNCHANGED <<skipped, faults>>
             \/ /\ skipped' = skipped \union {c} /\ UNCHANGED <<file, call>>
                /\ Fault \/ UNCHANGED faults
    BY <1>1 DEF RemoveFile
  <2>2. /\ At(c, "purge", "remove") /\ f \in Files
        /\ UNCHANGED <<backend, dirs, left, contended>>
    BY <1>0, <1>1 DEF RemoveFile
  <2>3. call[c].fd = NoFile /\ call[c].pos = 0
    BY <2>2 DEF Handles, At
  <2>4. /\ call' \in [Callers -> Call]
        /\ \A d \in Callers :
             /\ call'[d].op = call[d].op /\ call'[d].key = call[d].key
             /\ call'[d].at = call[d].at /\ call'[d].pos = call[d].pos
             /\ \/ file' = file /\ call'[d].fd = call[d].fd
                \/ /\ file' = [file EXCEPT ![f] = Absent] /\ call'[d].fd # f
                   /\ call'[d].fd = IF call[d].fd = f THEN NoFile ELSE call[d].fd
    <3>1. CASE UNCHANGED <<file, call>>
      BY <1>0, <3>1
    <3>2. CASE file' = [file EXCEPT ![f] = Absent] /\ call' = Moved(f, NoFile)
      BY <1>0, <2>2, <3>2, MovedFields, FileNames
    <3> QED
      BY <2>1, <3>1, <3>2
  <2>5. StoreTypeOK'
    <3>1. file' \in [Files -> {Absent} \union SUBSET Whole]
      BY <2>1 DEF StoreTypeOK
    <3>2. faults' \in 0..MaxFaults
      BY <2>1, FaultType DEF StoreTypeOK
    <3>3. skipped' \subseteq Callers
      BY <2>1 DEF StoreTypeOK
    <3> QED
      BY <1>0, <2>1, <2>2, <2>4, <3>1, <3>2, <3>3 DEF StoreTypeOK
  <2>6. \A e \in Files : FileIsSafe(e, Callers \ {c})
    BY <2>2, <2>4 DEF FileIsSafe, StoreTypeOK
  <2>7. \A d \in Callers \ {c} : Bystands(d)
    BY <2>2, <2>4 DEF Bystands, StoreTypeOK
  <2>8. InPlace(c)' /\ ListedInJob'
    BY <2>1, <2>2, <2>4 DEF InPlace, ListedInJob, Local, Running, Done, At
  <2>9. call'[c].at # "write" /\ call'[c].fd = NoFile /\ call'[c].pos = 0
    BY <2>2, <2>3, <2>4, FileNames DEF At
  <2> QED
    BY <2>2, <2>5, <2>6, <2>7, <2>8, <2>9, Aside
<1>2. CASE DeleteObjects(c)
  <2>1. PICK kept \in SUBSET listed[c] :
          /\ file' = [f \in Files |-> IF f \in listed[c] \ kept THEN Absent ELSE file[f]]
          /\ skipped' \in {skipped, skipped \union {c}}
          /\ Fault \/ UNCHANGED faults
    BY <1>2 DEF DeleteObjects
  <2>2. /\ At(c, "purge", "remove") /\ ~Local /\ Goto(c, "part")
        /\ listed' = [listed EXCEPT ![c] = {}]
        /\ UNCHANGED <<backend, dirs, left, contended>>
    BY <1>2 DEF DeleteObjects
  <2>3. /\ call' \in [Callers -> Call]
        /\ \A d \in Callers : /\ Kept(d) /\ call'[d].at = IF d = c THEN "part" ELSE call[d].at
                             /\ call[d].fd = NoFile
    BY <1>0, <2>2, GotoFields, NoHandles DEF Places
  <2>4. StoreTypeOK'
    <3>1. file' \in [Files -> {Absent} \union SUBSET Whole]
      BY <2>1 DEF StoreTypeOK
    <3>2. faults' \in 0..MaxFaults
      BY <2>1, FaultType DEF StoreTypeOK
    <3> QED
      BY <1>0, <2>1, <2>2, <2>3, <3>1, <3>2 DEF StoreTypeOK
  <2>5. \A f \in Files : FileIsSafe(f, Callers \ {c})
    BY <2>1, <2>3, FileNames DEF FileIsSafe, Kept
  <2>6. InPlace(c)' /\ ListedInJob' /\ \A d \in Callers \ {c} : Bystands(d)
    BY <2>2, <2>3 DEF InPlace, ListedInJob, Local, Running, Done, At, Kept, Bystands
  <2>7. call'[c].at # "write" /\ call'[c].fd = NoFile /\ call'[c].pos = 0
    BY <2>2, <2>3 DEF At, Kept, Handles
  <2> QED
    BY <2>2, <2>3, <2>4, <2>5, <2>6, <2>7, Aside
<1> QED
  BY <1>1, <1>2

\* ... of the requests to S3, and of get_bytes.
LEMMA RequestSteps ==
  ASSUME StoreInv, NEW c \in Callers, Request(c) \/ Get(c)
  PROVE  StoreInv'
<1> USE DEF StoreInv
<1>1. CASE Get(c)
  <2>1. PICK p \in Done : Goto(c, p)
    BY <1>1 DEF Get, Done
  <2>2. /\ call[c].at # "write" /\ p # "part"
        /\ left' \in [Callers -> SUBSET JobDirs] /\ dirs' \subseteq dirs
        /\ UNCHANGED <<backend, file, contended, listed, skipped, faults>>
    BY <1>1 DEF Get, At, StoreTypeOK, Done
  <2> QED
    BY <2>1, <2>2, StepsOnward
<1>2. CASE Request(c)
  <2>1. /\ ~Local /\ Effect(c) /\ Goto(c, "ok") /\ call[c].at = "start"
        /\ UNCHANGED <<backend, dirs, left, listed, contended, skipped, faults>>
    BY <1>2 DEF Request, At
  <2>2. /\ call' \in [Callers -> Call]
        /\ \A d \in Callers : /\ Kept(d) /\ call'[d].at = IF d = c THEN "ok" ELSE call[d].at
                             /\ call[d].fd = NoFile
    BY <2>1, GotoFields, NoHandles DEF Done, StoreTypeOK
  <2>3. StoreTypeOK' /\ \A f \in Files : FileIsSafe(f, Callers \ {c})
    BY <2>1, <2>2, EffectSafe DEF StoreTypeOK, Kept
  <2>4. InPlace(c)' /\ ListedInJob' /\ \A d \in Callers \ {c} : Bystands(d)
    BY <2>1, <2>2 DEF InPlace, ListedInJob, Local, Running, Done, Kept, Bystands
  <2>5. call'[c].at # "write" /\ call'[c].fd = NoFile /\ call'[c].pos = 0
    BY <2>1, <2>2 DEF Kept, Handles
  <2> QED
    BY <2>1, <2>2, <2>3, <2>4, <2>5, Aside
<1> QED
  BY <1>1, <1>2

\* So do failing calls and dying processes ...
LEMMA FailureSteps ==
  ASSUME StoreInv, NEW c \in Callers, CallFails(c) \/ Drop(c)
  PROVE  StoreInv'
<1> USE DEF StoreInv
<1>1. PICK p \in {"raised", "idle"} : Finish(c, p)
  BY DEF CallFails, Drop
<1>2. /\ call' \in [Callers -> Call]
      /\ \A d \in Callers \ {c} : call'[d] = call[d]
      /\ call'[c].at = p /\ call'[c].fd = NoFile /\ call'[c].pos = 0
  BY <1>1, FinishFields DEF Done, StoreTypeOK
<1>3. /\ Fault /\ Forget(c) /\ UNCHANGED <<backend, dirs, contended>>
      /\ \/ file' = file
         \/ ~Local /\ Effect(c)
  BY DEF CallFails, Drop
<1>4. /\ file' \in [Files -> {Absent} \union SUBSET Whole]
      /\ \A f \in Files : FileIsSafe(f, Callers \ {c})
  <2>1. CASE file' = file
    BY <2>1 DEF FileIsSafe, StoreTypeOK
  <2>2. CASE ~Local /\ Effect(c)
    <3>1. \A d \in Callers : call'[d].fd = NoFile
      BY <1>2, <2>2, NoHandles
    <3> QED
      BY <2>2, <3>1, EffectSafe
  <2> QED
    BY <1>3, <2>1, <2>2
<1>5. /\ listed' \in [Callers -> SUBSET Files] /\ left' \in [Callers -> SUBSET JobDirs]
      /\ skipped' \subseteq Callers /\ \A d \in Callers : listed'[d] \subseteq listed[d]
  BY <1>3 DEF Forget, StoreTypeOK
<1>6. StoreTypeOK'
  BY <1>2, <1>3, <1>4, <1>5, FaultType DEF StoreTypeOK
<1>7. InPlace(c)' /\ ListedInJob' /\ \A d \in Callers \ {c} : Bystands(d)
  BY <1>2, <1>5 DEF InPlace, ListedInJob, Local, Running, Done, Bystands
<1> QED
  BY <1>2, <1>3, <1>4, <1>6, <1>7, Aside

\* ... new calls ...
LEMMA BeginStep ==
  ASSUME StoreInv, NEW c \in Callers, NEW o \in {"put", "get", "delete", "purge"}, NEW k \in Keys,
         Begin(c, o, k), faults' \in 0..MaxFaults
  PROVE  StoreInv'
<1> USE DEF StoreInv
<1>1. /\ call' \in [Callers -> Call]
      /\ \A d \in Callers \ {c} : call'[d] = call[d]
      /\ call'[c].at = "start" /\ call'[c].fd = NoFile /\ call'[c].pos = 0
  BY BeginFields DEF StoreTypeOK
<1>2. UNCHANGED <<backend, file, dirs, left, listed, contended, skipped>>
  BY DEF Begin
<1>3. StoreTypeOK' /\ \A f \in Files : FileIsSafe(f, Callers \ {c})
  BY <1>1, <1>2 DEF FileIsSafe, StoreTypeOK
<1>4. InPlace(c)' /\ ListedInJob' /\ \A d \in Callers \ {c} : Bystands(d)
  BY <1>1, <1>2 DEF InPlace, ListedInJob, Bystands
<1> QED
  BY <1>1, <1>2, <1>3, <1>4, Aside

\* ... and steps that are not the store's.
LEMMA StoreUnchanged ==
  StoreInv /\ UNCHANGED storeVars /\ faults' \in 0..MaxFaults => StoreInv'
BY DEF storeVars, StoreInv, StoreTypeOK, Handles, OnItsWay, InPlace, Alone, Written, HasWritten,
       Objects, ListedInJob, File, At, Local, Running

-----------------------------------------------------------------------------
\* The writers.
LEMMA OpenStep == ASSUME StoreInv, NEW c \in Callers, Open(c) PROVE StoreInv'
<1> USE DEF StoreInv
<1> DEFINE tmp == File(c, "tmp")
<1>0. /\ call \in [Callers -> Call] /\ call[c].key \in Keys
      /\ \A d \in Callers : call[d].key \in Keys
      /\ file \in [Files -> {Absent} \union SUBSET Whole]
      /\ tmp \in Files /\ tmp[2] = "tmp" /\ OpenName(c) = tmp
      /\ call[c].fd = NoFile /\ call[c].pos = 0
      /\ At(c, "put", "open") /\ UNCHANGED <<backend, dirs, left, listed, skipped, faults>>
  BY FileKinds DEF StoreTypeOK, Call, File, Open, OpenName, Handles, At
<1>1. CASE Finish(c, "raised") /\ UNCHANGED <<file, contended>>
  <2>1. /\ call' \in [Callers -> Call]
        /\ \A d \in Callers \ {c} : call'[d] = call[d]
        /\ call'[c].at = "raised" /\ call'[c].fd = NoFile /\ call'[c].pos = 0
    BY <1>0, <1>1, FinishFields DEF Done
  <2>2. StoreTypeOK' /\ \A f \in Files : FileIsSafe(f, Callers \ {c})
    BY <1>0, <1>1, <2>1 DEF StoreTypeOK, FileIsSafe
  <2>3. InPlace(c)' /\ ListedInJob' /\ \A d \in Callers \ {c} : Bystands(d)
    BY <1>0, <2>1 DEF InPlace, ListedInJob, Local, Running, Done, Bystands
  <2> QED
    BY <1>0, <1>1, <2>1, <2>2, <2>3, Aside
<1>2. CASE /\ file' = [file EXCEPT ![tmp] = {}]
           /\ call' = [call EXCEPT ![c].at = "write", ![c].fd = tmp]
           /\ contended' = contended \union {k \in {call[c].key} :
                \E d \in Callers \ {c} : At(d, "put", "write") /\ call[d].key = k}
  <2>1. /\ call' \in [Callers -> Call]
        /\ \A d \in Callers \ {c} : call'[d] = call[d]
        /\ call'[c].at = "write" /\ call'[c].fd = tmp /\ call'[c].pos = 0
        /\ call'[c].op = "put" /\ call'[c].key = call[c].key
    <3>1. call[c].op = "put"
      BY <1>0 DEF At
    <3> HIDE DEF tmp
    <3> QED
      BY <1>0, <1>2, <3>1, OpenFields
  <2>2. /\ contended \subseteq contended' /\ contended' \subseteq Keys
        /\ \A d \in Callers \ {c} :
             At(d, "put", "write") /\ call[d].key = call[c].key => call[c].key \in contended'
    BY <1>0, <1>2 DEF StoreTypeOK
  <2>3. StoreTypeOK'
    BY <1>0, <1>2, <2>1, <2>2, Contents DEF StoreTypeOK
  <2>4. Handles'
    BY <1>0, <1>2, <2>1, <2>2, Contents DEF Handles, File
  <2>5. OnItsWay'
    BY <1>0, <2>1 DEF OnItsWay, InPlace, Running, Local, At, Done
  <2>6. Alone'
    BY <2>1, <2>2 DEF Alone, At
  <2>7. Written'
    <3> SUFFICES ASSUME NEW d \in Callers, At(d, "put", "write")', call'[d].key \notin contended'
                 PROVE  HasWritten(d)'
      BY DEF Written
    <3>1. CASE d = c
      BY <1>0, <1>2, <2>1, <3>1 DEF File, HasWritten
    <3>2. CASE d # c
      <4>1. /\ At(d, "put", "write") /\ call[d].key \notin contended
            /\ call[d].key # call[c].key /\ call'[d] = call[d]
        BY <2>1, <2>2, <3>2 DEF At
      <4>2. file'[File(d, "tmp")] = file[File(d, "tmp")]
        BY <1>0, <1>2, <4>1, FilesDiffer, FileKinds DEF File
      <4> QED
        BY <1>0, <4>1, <4>2 DEF Written, HasWritten, File
    <3> QED
      BY <3>1, <3>2
  <2>8. Objects'
    BY <1>0, <1>2, <2>2, FilesDiffer, FileKinds DEF Objects, File
  <2>9. ListedInJob'
    BY <1>0 DEF ListedInJob
  <2> QED
    BY <2>3, <2>4, <2>5, <2>6, <2>7, <2>8, <2>9
<1> QED
  BY <1>0, <1>1, <1>2 DEF Open

\* A block goes to the file the handle is on, whatever its name is by now.
LEMMA WriteStep == ASSUME StoreInv, NEW c \in Callers, Write(c) PROVE StoreInv'
<1> USE DEF StoreInv
<1> DEFINE h == call[c].fd
<1>0. /\ call \in [Callers -> Call] /\ \A d \in Callers : call[d].key \in Keys
      /\ file \in [Files -> {Absent} \union SUBSET Whole]
      /\ At(c, "put", "write") /\ call[c].pos \in 0..Blocks /\ call[c].pos < Blocks
      /\ UNCHANGED <<backend, dirs, left, listed, contended, skipped, faults>>
      /\ file' = [f \in Files |-> IF f = h THEN file[f] \union {call[c].pos + 1} ELSE file[f]]
  BY DEF StoreTypeOK, Call, Write
<1>1. /\ call' \in [Callers -> Call]
      /\ \A d \in Callers \ {c} : call'[d] = call[d]
      /\ call'[c].at = "write" /\ call'[c].fd = h /\ call'[c].pos = call[c].pos + 1
      /\ call'[c].op = "put" /\ call'[c].key = call[c].key
  <2>1. call' = [call EXCEPT ![c].pos = @ + 1] /\ call[c].pos + 1 \in 0..Blocks
    BY <1>0, StoreAssumption DEF Write
  <2> QED
    BY <1>0, <2>1 DEF Call, At
<1>2. h # NoFile => /\ h \in Files /\ file[h] \in SUBSET Whole
                    /\ file'[h] \in SUBSET Whole
                    /\ h \in {File(c, "tmp"), File(c, "data")}
                    /\ h = File(c, "data") => call[c].key \in contended
  <2> SUFFICES ASSUME h # NoFile
               PROVE  /\ h \in Files /\ file[h] \in SUBSET Whole
                      /\ file'[h] \in SUBSET Whole
                      /\ h \in {File(c, "tmp"), File(c, "data")}
                      /\ h = File(c, "data") => call[c].key \in contended
    OBVIOUS
  <2>1. /\ h \in {File(c, "tmp")} \union {f \in {File(c, "data")} : call[c].key \in contended}
        /\ file[h] # Absent
    BY DEF Handles
  <2>2. h \in Files
    BY <1>0, <2>1, FileKinds DEF File
  <2>3. file'[h] = file[h] \union {call[c].pos + 1} /\ file[h] \in SUBSET Whole
    BY <1>0, <2>1, <2>2
  <2>4. file'[h] \in SUBSET Whole
    BY <1>0, <2>3, Contents
  <2>5. File(c, "tmp") # File(c, "data")
    BY <1>0, FilesDiffer DEF File
  <2> QED
    BY <2>1, <2>2, <2>3, <2>4, <2>5
<1>3. \A f \in Files : f # h => file'[f] = file[f]
  BY <1>0
<1>4. StoreTypeOK'
  <2>1. file' \in [Files -> {Absent} \union SUBSET Whole]
    BY <1>0, <1>2, <1>3, FileNames
  <2> QED
    BY <1>0, <1>1, <2>1 DEF StoreTypeOK
<1>5. Handles'
  <2>1. \A d \in Callers : call[d].fd # NoFile => file'[call[d].fd] # Absent
    <3> SUFFICES ASSUME NEW d \in Callers, call[d].fd # NoFile
                 PROVE  file'[call[d].fd] # Absent
      OBVIOUS
    <3>1. call[d].fd \in Files /\ file[call[d].fd] # Absent
      <4>1. /\ call[d].fd = <<call[d].key, "tmp">> \/ call[d].fd = <<call[d].key, "data">>
            /\ file[call[d].fd] # Absent
        BY DEF Handles, File
      <4>2. call[d].key \in Keys
        BY <1>0
      <4> QED
        BY <4>1, <4>2, FileKinds
    <3> QED
      BY <1>2, <1>3, <3>1, Contents
  <2> QED
    BY <1>0, <1>1, <2>1 DEF Handles, File, At
<1>6. OnItsWay'
  BY <1>0, <1>1 DEF OnItsWay, InPlace, Running, Local, At
<1>7. Alone'
  BY <1>0, <1>1 DEF Alone, At
<1>8. Written'
  <2> SUFFICES ASSUME NEW d \in Callers, At(d, "put", "write")', call'[d].key \notin contended'
               PROVE  HasWritten(d)'
    BY DEF Written
  <2>1. CASE d = c /\ h # NoFile
    <3>1. /\ h = File(c, "tmp") /\ file[h] = 1..call[c].pos
          /\ file'[h] = file[h] \union {call[c].pos + 1}
      BY <1>0, <1>1, <1>2, <2>1 DEF Written, HasWritten
    <3>2. 1..call[c].pos \union {call[c].pos + 1} = 1..(call[c].pos + 1)
      BY <1>0, StoreAssumption
    <3> QED
      BY <1>1, <2>1, <3>1, <3>2 DEF File, HasWritten
  <2>2. CASE d = c /\ h = NoFile
    <3>1. file[File(c, "tmp")] = Absent
      <4>1. HasWritten(c) /\ call[c].fd = NoFile /\ File(c, "tmp") # NoFile
        BY <1>0, <1>1, <2>2, FileKinds DEF Written, File
      <4>2. call[c].pos # Blocks
        BY <1>0, StoreAssumption
      <4> QED
        BY <4>1, <4>2 DEF HasWritten
    <3> QED
      BY <1>0, <1>1, <1>3, <2>2, <3>1, FileKinds DEF File, HasWritten
  <2>3. CASE d # c
    <3>1. /\ At(d, "put", "write") /\ call[d].key \notin contended
          /\ call[d].key # call[c].key /\ call'[d] = call[d]
      BY <1>0, <1>1, <2>3 DEF At, Alone
    <3>2. File(d, "tmp") # h /\ File(d, "tmp") \in Files
      <4>1. call[c].key \in Keys /\ call[d].key \in Keys
        BY <1>0
      <4>2. File(d, "tmp") \in Files /\ File(d, "tmp") # NoFile
        BY <4>1, FileKinds DEF File
      <4>3. File(d, "tmp") # File(c, "tmp") /\ File(d, "tmp") # File(c, "data")
        BY <3>1, <4>1, FilesDiffer DEF File
      <4> QED
        BY <1>2, <4>2, <4>3
    <3>3. file'[File(d, "tmp")] = file[File(d, "tmp")]
      BY <1>3, <3>2
    <3> QED
      BY <3>1, <3>3 DEF Written, HasWritten, File
  <2> QED
    BY <2>1, <2>2, <2>3
<1>9. Objects'
  <2> SUFFICES ASSUME NEW k \in Keys, k \notin contended
               PROVE  file'[<<k, "data">>] = file[<<k, "data">>]
    BY <1>0 DEF Objects
  <2>1. <<k, "data">> # h /\ <<k, "data">> \in Files
    BY <1>0, <1>2, FilesDiffer, FileKinds DEF File
  <2> QED
    BY <1>3, <2>1
<1>10. ListedInJob'
  BY <1>0 DEF ListedInJob
<1> QED
  BY <1>4, <1>5, <1>6, <1>7, <1>8, <1>9, <1>10

\* Closing gives up the handle once all is written.
LEMMA CloseFields ==
  ASSUME call \in [Callers -> Call], NEW c \in Callers, Close(c)
  PROVE  /\ call' \in [Callers -> Call]
         /\ \A d \in Callers \ {c} : call'[d] = call[d]
         /\ call'[c].op = "put" /\ call'[c].key = call[c].key /\ call'[c].at = "write"
         /\ call'[c].pos = Blocks /\ call'[c].fd = NoFile
         /\ call[c].op = "put" /\ call[c].at = "write" /\ call[c].pos = Blocks
BY DEF Close, At, Call

\* So what it leaves is the whole of the file, if it writes alone.
LEMMA CloseStep == ASSUME StoreInv, NEW c \in Callers, Close(c) PROVE StoreInv'
<1> USE DEF StoreInv
<1>0. /\ call \in [Callers -> Call] /\ At(c, "put", "write") /\ call[c].fd # NoFile
      /\ UNCHANGED <<backend, file, dirs, left, listed, contended, skipped, faults>>
  BY DEF StoreTypeOK, Close
<1>1. /\ call' \in [Callers -> Call]
      /\ \A d \in Callers \ {c} : call'[d] = call[d]
      /\ call'[c].op = "put" /\ call'[c].key = call[c].key /\ call'[c].at = "write"
      /\ call'[c].pos = Blocks /\ call'[c].fd = NoFile
      /\ call[c].op = "put" /\ call[c].at = "write" /\ call[c].pos = Blocks
  BY <1>0, CloseFields
<1>2. StoreTypeOK' /\ ListedInJob' /\ Objects'
  BY <1>0, <1>1 DEF StoreTypeOK, ListedInJob, Objects
<1>3. Handles'
  BY <1>0, <1>1 DEF Handles, File
<1>4. OnItsWay' /\ Alone'
  BY <1>0, <1>1 DEF OnItsWay, Alone, InPlace, Running, Local, At
<1>5. Written'
  <2> SUFFICES ASSUME NEW d \in Callers, At(d, "put", "write")', call'[d].key \notin contended'
               PROVE  HasWritten(d)'
    BY DEF Written
  <2>1. HasWritten(d)
    BY <1>0, <1>1 DEF Written, At
  <2>2. CASE d = c
    BY <1>0, <1>1, <2>1, <2>2 DEF HasWritten, File
  <2>3. CASE d # c
    BY <1>0, <1>1, <2>1, <2>3 DEF HasWritten, File
  <2> QED
    BY <2>2, <2>3
<1> QED
  BY <1>2, <1>3, <1>4, <1>5

\* Replacing moves all handles on the .tmp file to the object.
LEMMA ReplaceStep == ASSUME StoreInv, NEW c \in Callers, Replace(c) PROVE StoreInv'
<1> USE DEF StoreInv
<1> DEFINE tmp == File(c, "tmp")  data == File(c, "data")  m == Moved(tmp, data)
<1>0. /\ call \in [Callers -> Call] /\ \A d \in Callers : call[d].key \in Keys
      /\ file \in [Files -> {Absent} \union SUBSET Whole]
      /\ tmp \in Files /\ data \in Files /\ tmp # data
      /\ At(c, "put", "write") /\ call[c].pos = Blocks /\ call[c].fd = NoFile
      /\ tmp # NoFile
      /\ UNCHANGED <<backend, dirs, left, listed, contended, skipped, faults>>
  BY FileKinds, FilesDiffer DEF StoreTypeOK, Call, File, Replace
<1>1. CASE Finish(c, "raised") /\ UNCHANGED file
  <2>1. /\ call' \in [Callers -> Call]
        /\ \A d \in Callers \ {c} : call'[d] = call[d]
        /\ call'[c].at = "raised" /\ call'[c].fd = NoFile /\ call'[c].pos = 0
    BY <1>0, <1>1, FinishFields DEF Done
  <2>2. StoreTypeOK' /\ \A f \in Files : FileIsSafe(f, Callers \ {c})
    BY <1>0, <1>1, <2>1 DEF StoreTypeOK, FileIsSafe
  <2>3. InPlace(c)' /\ ListedInJob' /\ \A d \in Callers \ {c} : Bystands(d)
    BY <1>0, <2>1 DEF InPlace, ListedInJob, Local, Running, Done, Bystands
  <2> QED
    BY <1>0, <1>1, <2>1, <2>2, <2>3, Aside
<1>2. CASE /\ file[tmp] # Absent
           /\ file' = [file EXCEPT ![tmp] = Absent, ![data] = file[tmp]]
           /\ call' = End(m, c, "meta")
  <2>0. /\ m \in [Callers -> Call]
        /\ \A d \in Callers :
             /\ m[d].op = call[d].op /\ m[d].key = call[d].key
             /\ m[d].at = call[d].at /\ m[d].pos = call[d].pos
             /\ m[d].fd = IF call[d].fd = tmp THEN data
                          ELSE IF call[d].fd = data THEN NoFile ELSE call[d].fd
    BY <1>0, MovedFields
  <2> HIDE DEF m
  <2>1. /\ call' \in [Callers -> Call]
        /\ \A d \in Callers \ {c} : call'[d] = m[d]
        /\ call'[c].at = "meta" /\ call'[c].fd = NoFile /\ call'[c].pos = 0
        /\ call'[c].op = "put" /\ call'[c].key = call[c].key
    BY <1>0, <1>2, <2>0, EndFields DEF Places, At
  <2>2. /\ file'[tmp] = Absent /\ file'[data] = file[tmp]
        /\ \A f \in Files \ {tmp, data} : file'[f] = file[f]
        /\ file' \in [Files -> {Absent} \union SUBSET Whole]
    BY <1>0, <1>2
  <2>3. StoreTypeOK'
    BY <1>0, <2>1, <2>2 DEF StoreTypeOK
  <2>4. OnItsWay'
    BY <1>0, <2>0, <2>1 DEF OnItsWay, InPlace, Running, Local, At, Done
  <2>5. Alone'
    BY <1>0, <2>0, <2>1 DEF Alone, At
  <2>6. \A d \in Callers : call[d].fd # NoFile =>
          /\ At(d, "put", "write") /\ file[call[d].fd] # Absent
          /\ call[d].fd \in {File(d, "tmp")} \union {f \in {File(d, "data")} : call[d].key \in contended}
          /\ call[d].fd \in Files
    BY <1>0, FileKinds DEF Handles, OnItsWay, InPlace, At, File
  <2>7. Handles'
    <3> SUFFICES ASSUME NEW d \in Callers \ {c}, call'[d].fd # NoFile
                 PROVE  /\ call'[d].fd \in {File(d, "tmp")} \union
                              {f \in {File(d, "data")} : call[d].key \in contended}
                        /\ file'[call'[d].fd] # Absent /\ call'[d].at = "write"
      BY <1>0, <2>0, <2>1 DEF Handles, File
    <3>1. call[d].fd # NoFile /\ call'[d].fd = m[d].fd /\ call'[d].at = "write"
      BY <2>0, <2>1, <2>6, <1>0, FileNames DEF At
    <3>2. CASE call[d].fd = tmp
      <4>1. call[d].key = call[c].key
        BY <1>0, <2>6, <3>2, <3>1, FilesDiffer DEF File
      <4>2. call[c].key \in contended
        BY <1>0, <2>6, <3>1, <4>1 DEF Alone
      <4> QED
        BY <1>2, <2>0, <2>2, <3>1, <3>2, <4>1, <4>2 DEF File
    <3>3. CASE call[d].fd # tmp
      BY <2>0, <2>2, <2>6, <3>1, <3>3
    <3> QED
      BY <3>2, <3>3
  <2>8. Written'
    <3> SUFFICES ASSUME NEW d \in Callers, At(d, "put", "write")', call'[d].key \notin contended'
                 PROVE  HasWritten(d)'
      BY DEF Written
    <3>1. /\ d # c /\ At(d, "put", "write") /\ call[d].key \notin contended
          /\ call'[d].key = call[d].key /\ call'[d].pos = call[d].pos /\ call'[d].fd = m[d].fd
      BY <1>0, <2>0, <2>1 DEF At
    <3>2. call[d].key # call[c].key
      BY <1>0, <3>1 DEF Alone
    <3>3. File(d, "tmp") \in Files \ {tmp, data}
      BY <1>0, <3>2, FilesDiffer, FileKinds DEF File
    <3>4. call[d].fd \in {File(d, "tmp"), NoFile} /\ NoFile \notin Files
      BY <3>1, FileNames DEF Written, HasWritten
    <3>5. call'[d].fd = call[d].fd
      BY <1>0, <2>0, <3>1, <3>3, <3>4
    <3> QED
      BY <2>2, <3>1, <3>3, <3>5 DEF Written, HasWritten, File
  <2>9. Objects'
    <3> SUFFICES ASSUME NEW k \in Keys, k \notin contended
                 PROVE  file'[<<k, "data">>] \in {Absent, Whole}
      BY <1>0 DEF Objects
    <3>1. CASE k = call[c].key
      <4>1. file[tmp] = 1..Blocks
        BY <1>0, <1>2, <3>1 DEF Written, HasWritten
      <4> QED
        BY <2>2, <3>1, <4>1 DEF Whole, File
    <3>2. CASE k # call[c].key
      <4>1. <<k, "data">> \in Files \ {tmp, data}
        BY <1>0, <3>2, FilesDiffer, FileKinds DEF File
      <4> QED
        BY <2>2, <4>1 DEF Objects
    <3> QED
      BY <3>1, <3>2
  <2>10. ListedInJob'
    BY <1>0 DEF ListedInJob
  <2> QED
    BY <2>3, <2>4, <2>5, <2>7, <2>8, <2>9, <2>10
<1> QED
  BY <1>0, <1>1, <1>2 DEF Replace, OpenName, End, m

-----------------------------------------------------------------------------
(***************************************************************************)
(* Each step is one of AtomicStore: the state it sees, and the shapes its  *)
(* steps take.                                                             *)
(***************************************************************************)
ObjectBar == [k \in Keys |-> IF k \in contended THEN "any" ELSE Object(k)]
OpBar == [c \in Callers |-> call[c].op]
KeyBar == [c \in Callers |-> IF call[c].op = "purge" THEN Original ELSE call[c].key]
PhaseBar == [c \in Callers |-> Phase(c)]
JobKeys == {k \in Keys : k[1] \in JobDirs}

\* At most the place of c changes.
Only(c) ==
  \A d \in Callers :
    /\ call'[d].op = call[d].op
    /\ call[d].op # "purge" => call'[d].key = call[d].key
    /\ d # c => call'[d].at = call[d].at

\* A step of one call changes one phase.
LEMMA Moves ==
  ASSUME NEW c \in Callers, Only(c)
  PROVE  /\ PhaseBar' = [PhaseBar EXCEPT ![c] = Phase(c)']
         /\ OpBar' = OpBar /\ KeyBar' = KeyBar
  BY DEF Only, PhaseBar, OpBar, KeyBar, Phase, Done

\* What AtomicStore sees of a key is told by its file and by contended.
LEMMA ObjectValues ==
  ASSUME StoreInv, NEW k \in Keys
  PROVE  /\ k \in contended => ObjectBar[k] = "any"
         /\ k \notin contended =>
              /\ file[<<k, "data">>] = Absent => ObjectBar[k] = "absent"
              /\ file[<<k, "data">>] # Absent => ObjectBar[k] = "whole"
         /\ file[<<k, "data">>] = Whole /\ k \notin contended => ObjectBar[k] = "whole"
  BY Contents DEF StoreInv, Objects, ObjectBar, Object

\* Objects are what they were if their files are.
LEMMA SameObjects ==
  ASSUME UNCHANGED contended,
         \A k \in Keys \ contended : file'[<<k, "data">>] = file[<<k, "data">>]
  PROVE  ObjectBar' = ObjectBar
  BY DEF ObjectBar, Object

\* The same for one object.
LEMMA SameObject ==
  ASSUME NEW k \in Keys, file'[<<k, "data">>] = file[<<k, "data">>]
  PROVE  Object(k)' = Object(k)
  BY DEF Object

\* A file that is gone is an object that is absent.
LEMMA AbsentObject ==
  ASSUME NEW k \in Keys, file'[<<k, "data">>] = Absent PROVE Object(k)' = "absent"
  BY Contents DEF Object

\* Steps within a phase are none for AtomicStore.
LEMMA Stutters ==
  ASSUME NEW c \in Callers, Only(c), Phase(c)' = Phase(c), ObjectBar' = ObjectBar
  PROVE  UNCHANGED Promise!vars
<1>1. PhaseBar' = PhaseBar
  BY Moves DEF PhaseBar
<1> QED
  BY <1>1, Moves DEF Promise!vars, ObjectBar, OpBar, KeyBar, PhaseBar

\* A call that raises may do so at any time.
LEMMA Raises ==
  ASSUME NEW c \in Callers, Only(c), ObjectBar' = ObjectBar,
         Phase(c) \in {"pending", "effective"}, Phase(c)' = "raised"
  PROVE  Promise!Next
<1>1. Promise!Raise(c)
  BY Moves DEF Promise!Raise, Promise!Goto, ObjectBar, OpBar, KeyBar, PhaseBar
<1> QED
  BY <1>1 DEF Promise!Next

\* A call returns once it has taken effect.
LEMMA Returns ==
  ASSUME NEW c \in Callers, Only(c), ObjectBar' = ObjectBar, Phase(c)' = "ok",
         \/ Phase(c) = "effective"
         \/ Phase(c) = "pending" /\ call[c].op = "get" /\ ObjectBar[call[c].key] # "absent"
  PROVE  Promise!Next
<1>1. Promise!Return(c)
  <2>1. \/ PhaseBar[c] = "effective"
        \/ PhaseBar[c] = "pending" /\ OpBar[c] = "get" /\ ObjectBar[KeyBar[c]] # "absent"
    BY DEF PhaseBar, OpBar, KeyBar
  <2> QED
    BY <2>1, Moves DEF Promise!Return, Promise!Goto, ObjectBar, OpBar, KeyBar, PhaseBar
<1> QED
  BY <1>1 DEF Promise!Next

\* A put or a delete takes effect at once.
LEMMA Applies ==
  ASSUME NEW c \in Callers, Only(c), call[c].op \in {"put", "delete"},
         Phase(c) = "pending", Phase(c)' \in {"effective", "ok", "raised"},
         ObjectBar' = [ObjectBar EXCEPT ![call[c].key] =
           IF @ = "any" THEN @ ELSE IF call[c].op = "put" THEN "whole" ELSE "absent"]
  PROVE  Promise!Next
<1>1. Promise!Apply(c)
  <2>1. PhaseBar[c] = "pending" /\ OpBar[c] = call[c].op /\ KeyBar[c] = call[c].key
    BY DEF PhaseBar, OpBar, KeyBar
  <2>2. ObjectBar' = [ObjectBar EXCEPT ![KeyBar[c]] =
           IF @ = "any" THEN @ ELSE IF OpBar[c] = "put" THEN "whole" ELSE "absent"]
    BY <2>1
  <2>3. \E p \in {"effective", "ok", "raised"} : PhaseBar' = [PhaseBar EXCEPT ![c] = p]
    BY Moves
  <2> QED
    BY <2>1, <2>2, <2>3, Moves
       DEF Promise!Apply, Promise!Goto, ObjectBar, OpBar, KeyBar, PhaseBar
<1> QED
  BY <1>1 DEF Promise!Next

\* A deletion by prefix takes effect for any of its keys.
LEMMA Removes ==
  ASSUME NEW c \in Callers, Only(c), call[c].op = "purge",
         Phase(c) = "pending", Phase(c)' \in {"pending", "ok"},
         NEW gone \in SUBSET JobKeys,
         ObjectBar' = [k \in Keys |-> IF k \in gone /\ ObjectBar[k] # "any" THEN "absent"
                                     ELSE ObjectBar[k]]
  PROVE  Promise!Next
<1>1. Promise!Remove(c)
  <2>1. PhaseBar[c] = "pending" /\ OpBar[c] = "purge"
    BY DEF PhaseBar, OpBar
  <2>2. \E p \in {"pending", "ok", "raised"} : PhaseBar' = [PhaseBar EXCEPT ![c] = p]
    BY Moves
  <2> QED
    BY <2>1, <2>2, Moves
       DEF Promise!Remove, Promise!Goto, ObjectBar, OpBar, KeyBar, PhaseBar, JobKeys
<1> QED
  BY <1>1 DEF Promise!Next

-----------------------------------------------------------------------------
\* What a step changes of the calls, as AtomicStore sees them.
LEMMA OnlyGoto ==
  ASSUME StoreInv, NEW c \in Callers, NEW p \in Done \union Places, Goto(c, p)
  PROVE  Only(c) /\ call'[c].at = p
BY GotoFields DEF StoreInv, StoreTypeOK, Only, Kept

\* Finish changes the caller's own call only.
LEMMA OnlyFinish ==
  ASSUME StoreInv, NEW c \in Callers, NEW p \in Done, Finish(c, p)
  PROVE  Only(c) /\ call'[c].at = p
BY FinishFields DEF StoreInv, StoreTypeOK, Only

\* Preparing the .tmp file is none of AtomicStore's business; .meta ends a put.
LEMMA PutRefines ==
  ASSUME StoreInv, NEW c \in Callers,
         MakeDir(c) \/ TooLarge(c) \/ WriteMeta(c) \/ Write(c) \/ Close(c)
  PROVE  [Promise!Next]_(Promise!vars)
<1> USE DEF StoreInv
<1>0. /\ call \in [Callers -> Call] /\ call[c].key \in Keys
      /\ file \in [Files -> {Absent} \union SUBSET Whole]
      /\ File(c, "tmp") \in Files /\ File(c, "meta") \in Files
      /\ \A k \in Keys : /\ <<k, "data">> \in Files /\ <<k, "data">> # File(c, "tmp")
                          /\ <<k, "data">> # File(c, "meta")
  BY FileKinds DEF StoreTypeOK, Call, File
<1>1. CASE MakeDir(c)
  <2>1. Only(c) /\ call'[c].at = "open" /\ call[c].at = "start" /\ UNCHANGED <<file, contended>>
    BY <1>1, OnlyGoto DEF MakeDir, At, Places
  <2>2. ObjectBar' = ObjectBar
    BY <2>1, SameObjects
  <2> QED
    BY <2>1, <2>2, Stutters DEF Phase, Done
<1>2. CASE TooLarge(c)
  <2> DEFINE m == Moved(File(c, "tmp"), NoFile)
  <2>1. call' = End(m, c, "raised") /\ At(c, "put", IF Local THEN "write" ELSE "start")
    BY <1>2 DEF TooLarge, End
  <2>2. UNCHANGED contended /\ file' = [file EXCEPT ![File(c, "tmp")] = Absent]
    BY <1>2 DEF TooLarge
  <2>3. m \in [Callers -> Call] /\ \A d \in Callers :
          m[d].op = call[d].op /\ m[d].key = call[d].key /\ m[d].at = call[d].at
    BY <1>0, MovedFields
  <2> HIDE DEF m
  <2>4. Only(c) /\ call'[c].at = "raised"
    BY <2>1, <2>3, EndFields DEF Only, Done
  <2>5. ObjectBar' = ObjectBar
    BY <1>0, <2>2, SameObjects
  <2>6. Phase(c) = "pending" /\ Phase(c)' = "raised"
    BY <2>1, <2>4 DEF Phase, Done, At
  <2> QED
    BY <2>4, <2>5, <2>6, Raises
<1>3. CASE WriteMeta(c)
  <2>1. PICK p \in {"ok", "raised"} : Goto(c, p)
    BY <1>3 DEF WriteMeta
  <2>2. Only(c) /\ call'[c].at = p /\ call[c].at = "meta"
    BY <1>3, <2>1, OnlyGoto DEF WriteMeta, At, Done
  <2>3. UNCHANGED contended /\ \A k \in Keys : file'[<<k, "data">>] = file[<<k, "data">>]
    BY <1>0, <1>3 DEF WriteMeta
  <2>4. ObjectBar' = ObjectBar
    BY <2>3, SameObjects
  <2>5. Phase(c) = "effective" /\ Phase(c)' = p
    BY <2>2 DEF Phase, Done
  <2> QED
    BY <2>2, <2>4, <2>5, Raises, Returns
<1>4. CASE Write(c)
  <2>1. call[c].at = "write" /\ call' = [call EXCEPT ![c].pos = @ + 1] /\ UNCHANGED contended
    BY <1>4 DEF Write, At
  <2>2. Only(c) /\ call'[c].at = "write"
    BY <1>0, <2>1 DEF Only, Call
  <2>3. \A k \in Keys \ contended : file'[<<k, "data">>] = file[<<k, "data">>]
    <3> SUFFICES ASSUME NEW k \in Keys \ contended
                 PROVE  <<k, "data">> # call[c].fd
      BY <1>0, <1>4 DEF Write
    <3>1. call[c].fd # NoFile => call[c].fd = File(c, "tmp") \/
            (call[c].fd = File(c, "data") /\ call[c].key \in contended)
      BY DEF Handles
    <3> QED
      BY <1>0, <3>1, FilesDiffer, FileKinds DEF File
  <2>4. ObjectBar' = ObjectBar
    BY <2>1, <2>3, SameObjects
  <2> QED
    BY <2>1, <2>2, <2>4, Stutters DEF Phase, Done
<1>5. CASE Close(c)
  <2>1. Only(c) /\ call[c].at = "write" /\ call'[c].at = "write"
    BY <1>0, <1>5, CloseFields DEF Only
  <2>2. ObjectBar' = ObjectBar
    BY <1>5, SameObjects DEF Close
  <2> QED
    BY <2>1, <2>2, Stutters DEF Phase, Done
<1> QED
  BY <1>1, <1>2, <1>3, <1>4, <1>5

\* Opening a .tmp file another caller is writing is an overlap.
LEMMA OpenRefines ==
  ASSUME StoreInv, NEW c \in Callers, Open(c) PROVE [Promise!Next]_(Promise!vars)
<1> USE DEF StoreInv
<1> DEFINE tmp == File(c, "tmp")
<1>0. /\ call \in [Callers -> Call] /\ call[c].key \in Keys /\ At(c, "put", "open")
      /\ file \in [Files -> {Absent} \union SUBSET Whole]
      /\ tmp \in Files /\ OpenName(c) = tmp
      /\ \A k \in Keys : <<k, "data">> \in Files /\ <<k, "data">> # tmp
  BY FileKinds DEF StoreTypeOK, Call, File, Open, OpenName
<1>1. CASE Finish(c, "raised") /\ UNCHANGED <<file, contended>>
  <2>1. Only(c) /\ call'[c].at = "raised" /\ ObjectBar' = ObjectBar
    BY <1>1, OnlyFinish, SameObjects DEF Done
  <2> QED
    BY <1>0, <2>1, Raises DEF Phase, Done, At
<1>2. CASE /\ file' = [file EXCEPT ![tmp] = {}]
           /\ call' = [call EXCEPT ![c].at = "write", ![c].fd = tmp]
           /\ contended' = contended \union {k \in {call[c].key} :
                \E d \in Callers \ {c} : At(d, "put", "write") /\ call[d].key = k}
  <2>1. Only(c) /\ call'[c].at = "write"
    BY <1>0, <1>2 DEF Only, Call
  <2>2. \A k \in Keys : file'[<<k, "data">>] = file[<<k, "data">>]
    BY <1>0, <1>2
  <2>3. CASE contended' = contended
    <3>1. ObjectBar' = ObjectBar
      BY <2>2, <2>3, SameObjects
    <3> QED
      BY <1>0, <2>1, <3>1, Stutters DEF Phase, Done, At
  <2>4. CASE contended' # contended
    <3>1. PICK d \in Callers \ {c} : At(d, "put", "write") /\ call[d].key = call[c].key
      BY <1>2, <2>4
    <3>2. contended' = contended \union {call[c].key}
      BY <1>2, <2>4
    <3>3. ObjectBar' = [ObjectBar EXCEPT ![KeyBar[c]] = "any"]
      <4>1. \A k \in Keys : Object(k)' = Object(k)
        BY <2>2, SameObject
      <4>2. KeyBar[c] = call[c].key
        BY <1>0 DEF KeyBar, At
      <4> QED
        BY <1>0, <3>2, <4>1, <4>2 DEF ObjectBar
    <3>4. PhaseBar' = PhaseBar /\ OpBar' = OpBar /\ KeyBar' = KeyBar
      <4>1. /\ PhaseBar' = [PhaseBar EXCEPT ![c] = Phase(c)']
            /\ OpBar' = OpBar /\ KeyBar' = KeyBar
        BY <2>1, Moves
      <4>2. Phase(c) = "pending" /\ Phase(c)' = "pending"
        BY <1>0, <2>1 DEF Phase, Done, At
      <4>3. PhaseBar[c] = "pending" /\ PhaseBar = [d2 \in Callers |-> PhaseBar[d2]]
        BY <4>2 DEF PhaseBar
      <4> QED
        BY <4>1, <4>2, <4>3
    <3>5. /\ PhaseBar[c] = "pending" /\ PhaseBar[d] = "pending"
          /\ OpBar[c] = "put" /\ OpBar[d] = "put" /\ KeyBar[c] = KeyBar[d]
      BY <1>0, <3>1 DEF PhaseBar, OpBar, KeyBar, Phase, Done, At
    <3>6. Promise!Overlap(c, d)
      BY <3>3, <3>4, <3>5
         DEF Promise!Overlap, Promise!Putting, ObjectBar, OpBar, KeyBar, PhaseBar
    <3> QED
      BY <3>6 DEF Promise!Next
  <2> QED
    BY <2>3, <2>4
<1> QED
  BY <1>0, <1>1, <1>2 DEF Open

\* A put takes effect when it replaces the object.
LEMMA ReplaceRefines ==
  ASSUME StoreInv, NEW c \in Callers, Replace(c) PROVE [Promise!Next]_(Promise!vars)
<1> USE DEF StoreInv
<1> DEFINE tmp == File(c, "tmp")  data == File(c, "data")  m == Moved(tmp, data)
<1>0. /\ call \in [Callers -> Call] /\ call[c].key \in Keys /\ At(c, "put", "write")
      /\ file \in [Files -> {Absent} \union SUBSET Whole] /\ call[c].pos = Blocks
      /\ call[c].fd = NoFile /\ tmp # NoFile
      /\ tmp \in Files /\ data \in Files /\ tmp # data /\ UNCHANGED contended
      /\ \A k \in Keys : <<k, "data">> \in Files /\ <<k, "data">> # tmp
  BY FileKinds, FilesDiffer DEF StoreTypeOK, Call, File, Replace
<1>1. CASE Finish(c, "raised") /\ UNCHANGED file
  <2>1. Only(c) /\ call'[c].at = "raised" /\ ObjectBar' = ObjectBar
    BY <1>0, <1>1, OnlyFinish, SameObjects DEF Done
  <2> QED
    BY <1>0, <2>1, Raises DEF Phase, Done, At
<1>2. CASE /\ file[tmp] # Absent
           /\ file' = [file EXCEPT ![tmp] = Absent, ![data] = file[tmp]]
           /\ call' = End(m, c, "meta")
  <2>1. m \in [Callers -> Call] /\ \A d \in Callers :
          m[d].op = call[d].op /\ m[d].key = call[d].key /\ m[d].at = call[d].at
    BY <1>0, MovedFields
  <2> HIDE DEF m
  <2>2. Only(c) /\ call'[c].at = "meta"
    BY <1>2, <2>1, EndFields DEF Only, Places
  <2>3. call[c].key \notin contended => file'[data] = Whole
    BY <1>0, <1>2 DEF Written, HasWritten, Whole
  <2>4. \A k \in Keys \ {call[c].key} : file'[<<k, "data">>] = file[<<k, "data">>]
    BY <1>0, <1>2, FilesDiffer DEF File
  <2>5. ObjectBar' = [ObjectBar EXCEPT ![call[c].key] =
           IF @ = "any" THEN @ ELSE IF call[c].op = "put" THEN "whole" ELSE "absent"]
    <3>1. \A k \in Keys \ {call[c].key} : ObjectBar'[k] = ObjectBar[k]
      <4>1. \A k \in Keys \ {call[c].key} : Object(k)' = Object(k)
        BY <2>4, SameObject
      <4> QED
        BY <1>0, <4>1 DEF ObjectBar
    <3>2. CASE call[c].key \in contended
      BY <1>0, <3>1, <3>2 DEF ObjectBar
    <3>3. CASE call[c].key \notin contended
      <4>1. ObjectBar'[call[c].key] = "whole" /\ ObjectBar[call[c].key] # "any"
        BY <1>0, <2>3, <3>3, Contents, ObjectValues DEF ObjectBar, Object, File
      <4> QED
        BY <1>0, <3>1, <4>1 DEF ObjectBar, At
    <3> QED
      BY <3>2, <3>3
  <2>6. Phase(c) = "pending" /\ Phase(c)' = "effective" /\ call[c].op = "put"
    BY <1>0, <2>2 DEF Phase, Done, At
  <2> QED
    BY <2>2, <2>5, <2>6, Applies
<1> QED
  BY <1>0, <1>1, <1>2 DEF Replace, OpenName, End, m

\* Where a whole object is put or removed, AtomicStore has the same object.
LEMMA OneObject ==
  ASSUME StoreInv, NEW c \in Callers, call[c].op \in {"put", "delete"}, UNCHANGED contended,
         file' = [file EXCEPT ![File(c, "data")] =
                    IF call[c].op = "put" THEN Whole ELSE Absent]
  PROVE  ObjectBar' = [ObjectBar EXCEPT ![call[c].key] =
           IF @ = "any" THEN @ ELSE IF call[c].op = "put" THEN "whole" ELSE "absent"]
<1> PICK key \in Keys : key = call[c].key
  BY DEF StoreInv, StoreTypeOK, Call
<1> DEFINE data == <<key, "data">>
<1>0. /\ data \in Files /\ data = File(c, "data")
      /\ file \in [Files -> {Absent} \union SUBSET Whole]
      /\ \A k \in Keys : <<k, "data">> \in Files
  BY FileKinds DEF StoreInv, StoreTypeOK, Call, File
<1>1. \A k \in Keys \ {key} : ObjectBar'[k] = ObjectBar[k]
  <2>1. \A k \in Keys \ {key} : Object(k)' = Object(k)
    BY <1>0, FilesDiffer, SameObject
  <2> QED
    BY <1>0, <2>1 DEF ObjectBar
<1>2. CASE key \in contended
  BY <1>0, <1>1, <1>2 DEF ObjectBar
<1>3. CASE key \notin contended
  <2>1. Object(key)' = IF call[c].op = "put" THEN "whole" ELSE "absent"
    <3>1. file'[data] = IF call[c].op = "put" THEN Whole ELSE Absent
      BY <1>0
    <3> QED
      BY <3>1, Contents DEF Object
  <2>2. ObjectBar'[key] = (IF call[c].op = "put" THEN "whole" ELSE "absent")
        /\ ObjectBar[key] # "any"
    BY <1>0, <1>3, <2>1, ObjectValues DEF ObjectBar
  <2> QED
    BY <1>0, <1>1, <2>2 DEF ObjectBar
<1> QED
  BY <1>2, <1>3

\* A delete takes effect when it unlinks the object.
LEMMA DeleteRefines ==
  ASSUME StoreInv, NEW c \in Callers, Unlink(c) \/ UnlinkMeta(c)
  PROVE  [Promise!Next]_(Promise!vars)
<1> USE DEF StoreInv
<1> DEFINE data == File(c, "data")  m == Moved(data, NoFile)
<1>0. /\ call \in [Callers -> Call] /\ call[c].key \in Keys
      /\ file \in [Files -> {Absent} \union SUBSET Whole]
      /\ data \in Files /\ File(c, "meta") \in Files
      /\ \A k \in Keys : <<k, "data">> \in Files /\ <<k, "data">> # File(c, "meta")
  BY FileKinds DEF StoreTypeOK, Call, File
<1>1. CASE Unlink(c) /\ Held(c, data)
  <2>1. Finish(c, "raised") /\ UNCHANGED <<file, contended>> /\ call[c].at = "start"
    BY <1>1 DEF Unlink, At
  <2>2. Only(c) /\ call'[c].at = "raised" /\ ObjectBar' = ObjectBar
    BY <2>1, OnlyFinish, SameObjects DEF Done
  <2> QED
    BY <2>1, <2>2, Raises DEF Phase, Done
<1>2. CASE Unlink(c) /\ ~Held(c, data)
  <2>1. /\ At(c, "delete", "start") /\ UNCHANGED contended
        /\ file' = [file EXCEPT ![data] = Absent]
        /\ call' = [m EXCEPT ![c].at = "meta"]
    BY <1>2 DEF Unlink
  <2>2. m \in [Callers -> Call] /\ \A d \in Callers :
          m[d].op = call[d].op /\ m[d].key = call[d].key /\ m[d].at = call[d].at
    BY <1>0, MovedFields
  <2> HIDE DEF m
  <2>3. Only(c) /\ call'[c].at = "meta"
    BY <2>1, <2>2 DEF Only, Call
  <2>4. ObjectBar' = [ObjectBar EXCEPT ![call[c].key] =
           IF @ = "any" THEN @ ELSE IF call[c].op = "put" THEN "whole" ELSE "absent"]
    BY <2>1, OneObject DEF At
  <2>5. Phase(c) = "pending" /\ Phase(c)' = "effective" /\ call[c].op = "delete"
    BY <2>1, <2>3 DEF Phase, Done, At
  <2> QED
    BY <2>3, <2>4, <2>5, Applies
<1>3. CASE UnlinkMeta(c)
  <2>1. Only(c) /\ call'[c].at = "ok" /\ call[c].at = "meta" /\ UNCHANGED contended
    BY <1>3, OnlyGoto DEF UnlinkMeta, Done, At
  <2>2. \A k \in Keys : file'[<<k, "data">>] = file[<<k, "data">>]
    BY <1>0, <1>3 DEF UnlinkMeta
  <2>3. ObjectBar' = ObjectBar
    BY <2>1, <2>2, SameObjects
  <2> QED
    BY <2>1, <2>3, Returns DEF Phase, Done
<1> QED
  BY <1>1, <1>2, <1>3

\* A request to S3 takes effect at once; a get needs an object.
LEMMA RequestRefines ==
  ASSUME StoreInv, NEW c \in Callers, Request(c) \/ Get(c)
  PROVE  [Promise!Next]_(Promise!vars)
<1>1. CASE Request(c)
  <2>1. /\ call[c].op \in {"put", "delete"} /\ call[c].at = "start"
        /\ Effect(c) /\ Goto(c, "ok") /\ UNCHANGED contended
    BY <1>1 DEF Request, At
  <2>2. Only(c) /\ call'[c].at = "ok"
    BY <2>1, OnlyGoto DEF Done
  <2>3. ObjectBar' = [ObjectBar EXCEPT ![call[c].key] =
           IF @ = "any" THEN @ ELSE IF call[c].op = "put" THEN "whole" ELSE "absent"]
    BY <2>1, OneObject DEF Effect
  <2> QED
    BY <2>1, <2>2, <2>3, Applies DEF Phase, Done
<1>2. CASE Get(c)
  <2>1. PICK p \in {"ok", "raised"} :
          Goto(c, p) /\ (p = "ok" => file[File(c, "data")] # Absent)
    BY <1>2 DEF Get
  <2>2. Only(c) /\ call'[c].at = p /\ At(c, "get", "start") /\ UNCHANGED <<file, contended>>
    BY <1>2, <2>1, OnlyGoto DEF Get, Done
  <2>3. ObjectBar' = ObjectBar
    BY <2>2, SameObjects
  <2>4. p = "ok" => ObjectBar[call[c].key] # "absent"
    BY <2>1, ObjectValues DEF File, StoreInv, StoreTypeOK, Call
  <2> QED
    BY <2>2, <2>3, <2>4, Raises, Returns DEF Phase, Done, At
<1> QED
  BY <1>1, <1>2

\* A deletion by prefix removes files one by one, or as S3 answers.
LEMMA PurgeRefines ==
  ASSUME StoreInv, NEW c \in Callers,
         \/ ScanTree(c) \/ StartListing(c) \/ RemoveDir(c) \/ List(c) \/ PurgeEnds(c)
         \/ RemoveFile(c) \/ DeleteObjects(c)
  PROVE  [Promise!Next]_(Promise!vars)
<1> USE DEF StoreInv
<1>0. /\ call \in [Callers -> Call] /\ listed[c] \subseteq Files
      /\ file \in [Files -> {Absent} \union SUBSET Whole]
      /\ call[c].op = "purge" /\ call[c].at \in {"start", "part", "remove"}
  BY DEF StoreTypeOK, ScanTree, StartListing, RemoveDir, List, PurgeEnds, RemoveFile,
         DeleteObjects, At
<1>1. CASE ScanTree(c) \/ StartListing(c) \/ RemoveDir(c)
  <2>1. Goto(c, "part") /\ UNCHANGED <<file, contended>>
    BY <1>1 DEF ScanTree, StartListing, RemoveDir
  <2>2. Only(c) /\ call'[c].at = "part" /\ ObjectBar' = ObjectBar
    BY <2>1, OnlyGoto, SameObjects DEF Places
  <2> QED
    BY <1>0, <2>2, Stutters DEF Phase, Done
<1>2. CASE List(c)
  <2>1. /\ \E k : call' = [call EXCEPT ![c].at = "remove", ![c].key = k]
        /\ UNCHANGED <<file, contended>>
    BY <1>2 DEF List
  <2>2. Only(c) /\ call'[c].at = "remove"
    BY <1>0, <2>1 DEF Only, Call
  <2>3. ObjectBar' = ObjectBar
    BY <2>1, SameObjects
  <2> QED
    BY <1>0, <2>2, <2>3, Stutters DEF Phase, Done
<1>3. ASSUME NEW G \in SUBSET listed[c], Only(c), UNCHANGED contended,
             call'[c].at \in {"part", "remove", "ok"},
             \A f \in Files : file'[f] = IF f \in G THEN Absent ELSE file[f]
      PROVE  Promise!Next
  <2> DEFINE gone == {k \in JobKeys : <<k, "data">> \in G}
  <2>1. \A k \in Keys : <<k, "data">> \in G => k \in gone
    BY <1>0, FilesDiffer DEF ListedInJob, DirOf, JobKeys
  <2>2. \A k \in Keys \ gone : Object(k)' = Object(k)
    BY <1>3, <2>1, FileKinds, SameObject
  <2>3. \A k \in gone : k \in Keys /\ Object(k)' = "absent"
    <3>1. \A k \in gone : k \in Keys /\ file'[<<k, "data">>] = Absent
      BY <1>3, FileKinds DEF JobKeys
    <3> HIDE DEF gone
    <3> QED
      BY <3>1, AbsentObject
  <2>4. \A k \in Keys : ObjectBar[k] = IF k \in contended THEN "any" ELSE Object(k)
    BY DEF ObjectBar
  <2>5. \A k \in Keys \ contended : ObjectBar[k] # "any"
    BY <1>0, ObjectValues
  <2> HIDE DEF gone
  <2>6. ObjectBar' = [k \in Keys |-> IF k \in gone /\ ObjectBar[k] # "any" THEN "absent"
                                     ELSE ObjectBar[k]]
    <3>1. ObjectBar' = [k \in Keys |-> IF k \in contended THEN "any" ELSE Object(k)']
      BY <1>3 DEF ObjectBar
    <3> QED
      BY <2>2, <2>3, <2>4, <2>5, <3>1
  <2> QED
    BY <1>0, <1>3, <2>6, Removes DEF Phase, Done, gone
<1>4. CASE PurgeEnds(c)
  <2>1. Only(c) /\ call'[c].at = "ok" /\ UNCHANGED <<file, contended>>
    BY <1>4, OnlyGoto DEF PurgeEnds, Done
  <2>2. PICK G \in SUBSET listed[c] : G = {}
    OBVIOUS
  <2>3. \A e \in Files : file'[e] = IF e \in G THEN Absent ELSE file[e]
    BY <2>1, <2>2
  <2> QED
    BY <1>3, <2>1, <2>3
<1>5. CASE RemoveFile(c)
  <2>1. PICK f \in listed[c] :
          \/ file' = [file EXCEPT ![f] = Absent] /\ call' = Moved(f, NoFile)
          \/ UNCHANGED <<file, call>>
    BY <1>5 DEF RemoveFile
  <2>2. UNCHANGED contended /\ call[c].at = "remove"
    BY <1>5 DEF RemoveFile, At
  <2>3. Only(c) /\ call'[c].at = "remove"
    BY <1>0, <2>1, <2>2, MovedFields DEF Only
  <2>4. CASE UNCHANGED <<file, call>>
    <3>1. PICK G \in SUBSET listed[c] : G = {}
      OBVIOUS
    <3>2. \A e \in Files : file'[e] = IF e \in G THEN Absent ELSE file[e]
      BY <2>4, <3>1
    <3> QED
      BY <1>3, <2>2, <2>3, <3>2
  <2>5. CASE file' = [file EXCEPT ![f] = Absent]
    <3>1. \A e \in Files : file'[e] = IF e \in {f} THEN Absent ELSE file[e]
      BY <1>0, <2>5
    <3> QED
      BY <1>3, <2>2, <2>3, <3>1
  <2> QED
    BY <2>1, <2>4, <2>5
<1>6. CASE DeleteObjects(c)
  <2>1. PICK kept \in SUBSET listed[c] :
          file' = [f \in Files |-> IF f \in listed[c] \ kept THEN Absent ELSE file[f]]
    BY <1>6 DEF DeleteObjects
  <2>2. UNCHANGED contended /\ Only(c) /\ call'[c].at = "part"
    BY <1>6, OnlyGoto DEF DeleteObjects, Places
  <2> QED
    BY <1>3, <2>1, <2>2
<1> QED
  BY <1>1, <1>2, <1>4, <1>5, <1>6

\* A call that fails raises, with or without its effect.
LEMMA FailsRefines ==
  ASSUME StoreInv, NEW c \in Callers, CallFails(c) PROVE [Promise!Next]_(Promise!vars)
<1>1. /\ Finish(c, "raised") /\ UNCHANGED contended /\ Running(c)
      /\ \/ UNCHANGED file
         \/ ~Local /\ call[c].op \in {"put", "delete"} /\ Effect(c)
  BY DEF CallFails
<1>2. Only(c) /\ call'[c].at = "raised"
  BY <1>1, OnlyFinish DEF Done
<1>3. CASE UNCHANGED file
  <2>1. ObjectBar' = ObjectBar
    BY <1>1, <1>3, SameObjects
  <2>2. Phase(c) \in {"pending", "effective"} /\ Phase(c)' = "raised"
    BY <1>1, <1>2 DEF Phase, Done, Running
  <2> QED
    BY <1>2, <2>1, <2>2, Raises
<1>4. CASE ~Local /\ call[c].op \in {"put", "delete"} /\ Effect(c)
  <2>1. ObjectBar' = [ObjectBar EXCEPT ![call[c].key] =
           IF @ = "any" THEN @ ELSE IF call[c].op = "put" THEN "whole" ELSE "absent"]
    BY <1>1, <1>4, OneObject DEF Effect
  <2>2. call[c].at = "start"
    BY <1>1, <1>4 DEF StoreInv, OnItsWay, InPlace
  <2> QED
    BY <1>2, <1>4, <2>1, <2>2, Applies DEF Phase, Done
<1> QED
  BY <1>1, <1>3, <1>4

\* A process that dies drops its call.
LEMMA DropRefines ==
  ASSUME StoreInv, NEW c \in Callers, Drop(c) PROVE [Promise!Next]_(Promise!vars)
<1>1. Finish(c, "idle") /\ UNCHANGED <<file, contended>>
  BY DEF Drop
<1>2. Only(c) /\ call'[c].at = "idle" /\ ObjectBar' = ObjectBar
  BY <1>1, OnlyFinish, SameObjects DEF Done
<1>3. Phase(c)' = "idle"
  BY <1>2 DEF Phase, Done
<1>4. Promise!Drop(c)
  BY <1>2, <1>3, Moves DEF Promise!Drop, Promise!Goto, ObjectBar, OpBar, KeyBar, PhaseBar
<1> QED
  BY <1>4 DEF Promise!Next

\* A new call is a call.
LEMMA BeginRefines ==
  ASSUME StoreInv, NEW c \in Callers, NEW o \in {"put", "get", "delete", "purge"}, NEW k \in Keys,
         o = "purge" => k = Original, Begin(c, o, k)
  PROVE  [Promise!Next]_(Promise!vars)
<1>1. UNCHANGED <<file, contended>> /\ ~Running(c)
  BY DEF Begin
<1>2. /\ \A d \in Callers \ {c} : call'[d] = call[d]
      /\ call'[c].op = o /\ call'[c].key = k /\ call'[c].at = "start"
  BY BeginFields DEF StoreInv, StoreTypeOK
<1>3. ObjectBar' = ObjectBar
  BY <1>1, SameObjects
<1>4. /\ PhaseBar' = [PhaseBar EXCEPT ![c] = "pending"]
      /\ OpBar' = [OpBar EXCEPT ![c] = o]
      /\ KeyBar' = [KeyBar EXCEPT ![c] = k]
  BY <1>2 DEF PhaseBar, OpBar, KeyBar, Phase, Done
<1>5. PhaseBar[c] \in {"idle", "ok", "raised"}
  BY <1>1 DEF PhaseBar, Phase, Running, Done
<1>6. Promise!Call(c)
  BY <1>3, <1>4, <1>5
     DEF Promise!Call, Promise!Goto, Promise!Settled, Promise!Op,
         ObjectBar, OpBar, KeyBar, PhaseBar
<1> QED
  BY <1>6 DEF Promise!Next

\* What does not touch the store is a stutter.
LEMMA UnchangedRefines == UNCHANGED storeVars => UNCHANGED Promise!vars
BY DEF storeVars, Promise!vars, Object, Phase

-----------------------------------------------------------------------------
\* All steps of the store together.
LEMMA StoreStepInv == ASSUME StoreInv, NEW c \in Callers, StoreStep(c) PROVE StoreInv'
BY PutSteps, DeleteSteps, PurgeSteps, RemoveSteps, RequestSteps, OpenStep, WriteStep, CloseStep,
   ReplaceStep
   DEF StoreStep

\* ... refine AtomicStore.
LEMMA StoreStepRefines ==
  ASSUME StoreInv, NEW c \in Callers, StoreStep(c) PROVE [Promise!Next]_(Promise!vars)
BY PutRefines, DeleteRefines, PurgeRefines, RequestRefines, OpenRefines, ReplaceRefines
   DEF StoreStep

\* The empty store has the invariant ...
LEMMA StoreInitInv == StoreInit => StoreInv
<1> SUFFICES ASSUME StoreInit PROVE StoreInv
  OBVIOUS
<1>1. StoreTypeOK
  <2>1. call \in [Callers -> Call]
    BY KeyNames, StoreAssumption DEF StoreInit, Call, Done
  <2>2. faults \in 0..MaxFaults
    BY StoreAssumption DEF StoreInit
  <2> QED
    BY <2>1, <2>2 DEF StoreInit, StoreTypeOK
<1>2. Handles /\ OnItsWay /\ Alone /\ Written /\ ListedInJob
  BY DEF StoreInit, Handles, OnItsWay, InPlace, Alone, Written, ListedInJob, At, Running, Done
<1>3. Objects
  BY FileKinds DEF StoreInit, Objects
<1> QED
  BY <1>1, <1>2, <1>3 DEF StoreInv

\* ... and is empty for AtomicStore.
LEMMA StoreInitRefines == StoreInit => Promise!Init
<1> SUFFICES ASSUME StoreInit PROVE Promise!Init
  OBVIOUS
<1>1. /\ contended = {} /\ \A k \in Keys : file[<<k, "data">>] = Absent
      /\ call = [c \in Callers |-> [op |-> "none", key |-> Original, at |-> "idle",
                                   pos |-> 0, fd |-> NoFile]]
  BY FileKinds DEF StoreInit
<1>2. \A k \in Keys : Object(k) = "absent"
  BY <1>1, Contents DEF Object
<1>3. \A c \in Callers : Phase(c) = "idle" /\ call[c].op = "none" /\ call[c].key = Original
  BY <1>1 DEF Phase, Done
<1> QED
  BY <1>1, <1>2, <1>3, KeyNames DEF Promise!Init

-----------------------------------------------------------------------------
(***************************************************************************)
(* What calls leave in the files, whoever makes them: for the theorems     *)
(* about those who do.                                                     *)
(***************************************************************************)
\* At most one call takes a step at a time, of its own operation and key.
Takes(c) == StoreStep(c) \/ CallFails(c) \/ Drop(c)

LEMMA StepOnly == ASSUME StoreInv, NEW c \in Callers, Takes(c) PROVE Only(c)
<1>0. call \in [Callers -> Call] /\ call[c].key \in Keys
  BY DEF StoreInv, StoreTypeOK, Call
<1>1. ASSUME NEW p \in Done \union Places, Goto(c, p) PROVE Only(c)
  BY <1>1, OnlyGoto
<1>2. ASSUME NEW p \in Done, Finish(c, p) PROVE Only(c)
  BY <1>2, OnlyFinish
<1>3. ASSUME NEW f \in Files, NEW g \in Files \union {NoFile}, NEW p,
             \/ call' = Moved(f, g)
             \/ call' = [Moved(f, g) EXCEPT ![c].at = p]
             \/ call' = [Moved(f, g) EXCEPT ![c].at = p, ![c].fd = NoFile, ![c].pos = 0]
      PROVE  Only(c)
  <2> DEFINE m == Moved(f, g)
  <2>1. m \in [Callers -> Call] /\ \A d \in Callers :
          m[d].op = call[d].op /\ m[d].key = call[d].key /\ m[d].at = call[d].at
    BY <1>0, MovedFields
  <2>2. call' = m \/ call' = [m EXCEPT ![c].at = p] \/ call' = End(m, c, p)
    BY <1>3 DEF End
  <2> HIDE DEF m
  <2>3. CASE call' = m
    BY <2>1, <2>3 DEF Only
  <2>4. CASE call' = [m EXCEPT ![c].at = p]
    BY <2>1, <2>4 DEF Only, Call
  <2>5. CASE call' = End(m, c, p)
    <3>1. \A d \in Callers \ {c} : call'[d] = m[d]
      BY <2>1, <2>5 DEF End
    <3>2. call'[c] = [m[c] EXCEPT !.at = p, !.fd = NoFile, !.pos = 0]
      BY <2>1, <2>5 DEF End
    <3>3. call'[c].op = m[c].op /\ call'[c].key = m[c].key
      BY <2>1, <3>2 DEF Call
    <3> QED
      BY <2>1, <3>1, <3>3 DEF Only
  <2> QED
    BY <2>2, <2>3, <2>4, <2>5
<1>4. CASE \/ MakeDir(c) \/ WriteMeta(c) \/ UnlinkMeta(c) \/ ScanTree(c) \/ RemoveDir(c)
           \/ PurgeEnds(c) \/ Request(c) \/ Get(c) \/ StartListing(c) \/ DeleteObjects(c)
  BY <1>1, <1>4 DEF MakeDir, WriteMeta, UnlinkMeta, ScanTree, RemoveDir, PurgeEnds, Request, Get,
                   StartListing, DeleteObjects, Done, Places
<1>5. CASE CallFails(c) \/ Drop(c)
  BY <1>2, <1>5 DEF CallFails, Drop, Done
<1>6. CASE Open(c)
  <2>1. OpenName(c) \in Files
    BY <1>0, FileKinds DEF OpenName, File
  <2>2. CASE call' = [call EXCEPT ![c].at = "write", ![c].fd = OpenName(c)]
    BY <1>0, <2>1, <2>2, OpenFields DEF Only
  <2>3. CASE Finish(c, "raised")
    BY <1>2, <2>3 DEF Done
  <2> QED
    BY <1>6, <2>2, <2>3 DEF Open
<1>7. CASE Write(c)
  BY <1>0, <1>7 DEF Write, Only, Call
<1>8. CASE TooLarge(c)
  <2>1. File(c, "tmp") \in Files
    BY <1>0, FileKinds DEF File
  <2>2. call' = [Moved(File(c, "tmp"), NoFile) EXCEPT ![c].at = "raised", ![c].fd = NoFile,
                                                     ![c].pos = 0]
    BY <1>8 DEF TooLarge
  <2> QED
    BY <1>3, <2>1, <2>2
<1>9. CASE Replace(c)
  <2> DEFINE tmp == OpenName(c)  data == File(c, "data")
  <2>1. tmp \in Files /\ data \in Files
    BY <1>0, FileKinds DEF OpenName, File
  <2>2. \/ Finish(c, "raised")
        \/ call' = [Moved(tmp, data) EXCEPT ![c].at = "meta", ![c].fd = NoFile, ![c].pos = 0]
    BY <1>9 DEF Replace
  <2> HIDE DEF tmp, data
  <2>3. CASE call' = [Moved(tmp, data) EXCEPT ![c].at = "meta", ![c].fd = NoFile, ![c].pos = 0]
    BY <1>3, <2>1, <2>3
  <2> QED
    BY <1>2, <2>2, <2>3 DEF Done
<1>10. CASE Unlink(c)
  <2> DEFINE data == File(c, "data")
  <2>1. data \in Files
    BY <1>0, FileKinds DEF File
  <2>2. \/ Finish(c, "raised")
        \/ call' = [Moved(data, NoFile) EXCEPT ![c].at = "meta"]
    BY <1>10 DEF Unlink
  <2> HIDE DEF data
  <2>3. CASE call' = [Moved(data, NoFile) EXCEPT ![c].at = "meta"]
    BY <1>3, <2>1, <2>3
  <2> QED
    BY <1>2, <2>2, <2>3 DEF Done
<1>11. CASE List(c)
  BY <1>0, <1>11 DEF List, Only, At, Call
<1>12. CASE RemoveFile(c)
  <2>1. listed[c] \subseteq Files
    BY DEF StoreInv, StoreTypeOK
  <2>2. CASE UNCHANGED call
    BY <2>2 DEF Only
  <2>3. ASSUME NEW f \in listed[c], call' = Moved(f, NoFile) PROVE Only(c)
    BY <1>3, <2>1, <2>3
  <2> QED
    BY <1>12, <2>2, <2>3 DEF RemoveFile
<1>13. CASE Close(c)
  BY <1>0, <1>13, CloseFields DEF Only
<1> QED
  BY <1>4, <1>5, <1>6, <1>7, <1>8, <1>9, <1>10, <1>11, <1>12, <1>13 DEF Takes, StoreStep

\* A step writes or removes files of the key it is for, or it is of a deletion by
\* prefix and removes them.
LEMMA FilesTouched ==
  ASSUME StoreInv, NEW c \in Callers, Takes(c), NEW f \in Files, file'[f] # file[f]
  PROVE  \/ call[c].op \in {"put", "delete"} /\ f[1] = call[c].key
         \/ call[c].op = "purge" /\ file'[f] = Absent
<1>0. /\ call[c].key \in Keys /\ file \in [Files -> {Absent} \union SUBSET Whole]
      /\ listed[c] \subseteq Files
      /\ \A s \in Suffixes : File(c, s) \in Files /\ File(c, s)[1] = call[c].key
      /\ OpenName(c) = File(c, "tmp")
  BY FileNames DEF StoreInv, StoreTypeOK, Call, File, OpenName
<1> USE DEF Suffixes
<1>1. CASE MakeDir(c) \/ Open(c) \/ WriteMeta(c) \/ TooLarge(c) \/ Close(c)
  BY <1>0, <1>1 DEF MakeDir, Open, WriteMeta, TooLarge, Close, At
<1>2. CASE Write(c)
  <2>1. f = call[c].fd /\ call[c].op = "put"
    BY <1>0, <1>2 DEF Write, At
  <2>2. call[c].fd \in {File(c, "tmp"), File(c, "data")}
    BY <2>1, FileNames DEF StoreInv, Handles
  <2> QED
    BY <1>0, <2>1, <2>2
<1>3. CASE Replace(c)
  <2>1. call[c].op = "put" /\ f \in {File(c, "tmp"), File(c, "data")}
    BY <1>0, <1>3 DEF Replace, At
  <2> QED
    BY <1>0, <2>1
<1>4. CASE Unlink(c) \/ UnlinkMeta(c) \/ Request(c) \/ Get(c)
  BY <1>0, <1>4 DEF Unlink, UnlinkMeta, Request, Get, Effect, At
<1>5. CASE \/ ScanTree(c) \/ List(c) \/ RemoveFile(c) \/ RemoveDir(c) \/ PurgeEnds(c)
           \/ StartListing(c) \/ DeleteObjects(c)
  BY <1>0, <1>5 DEF ScanTree, List, RemoveFile, RemoveDir, PurgeEnds, StartListing,
                   DeleteObjects, At
<1>6. CASE CallFails(c) \/ Drop(c)
  BY <1>0, <1>6 DEF CallFails, Drop, Effect
<1> QED
  BY <1>1, <1>2, <1>3, <1>4, <1>5, <1>6 DEF Takes, StoreStep

-----------------------------------------------------------------------------
Effective(c) == call[c].at \in {"meta", "ok"}
There(k) == file[<<k, "data">>] # Absent

\* A put never takes its object away; once it is over the object is there, and
\* its .tmp file is not.
LEMMA PutLeaves ==
  ASSUME StoreInv, NEW c \in Callers, Takes(c), NEW k \in Keys, call[c].op = "put", call[c].key = k
  PROVE  /\ There(k) => There(k)'
         /\ Effective(c)' => Effective(c) \/ There(k)'
         /\ Effective(c)' /\ file'[<<k, "tmp">>] # Absent =>
              file[<<k, "tmp">>] # Absent /\ (Effective(c) \/ ~Local)
<1>0. /\ file \in [Files -> {Absent} \union SUBSET Whole]
      /\ <<k, "data">> \in Files /\ <<k, "tmp">> \in Files /\ <<k, "meta">> \in Files
      /\ File(c, "data") = <<k, "data">> /\ OpenName(c) = <<k, "tmp">>
      /\ File(c, "tmp") = <<k, "tmp">> /\ File(c, "meta") = <<k, "meta">>
      /\ Whole # Absent /\ call \in [Callers -> Call]
  BY FileKinds, Contents DEF StoreInv, StoreTypeOK, File, OpenName
<1>1. CASE MakeDir(c) \/ Close(c)
  BY <1>0, <1>1, GotoFields, CloseFields DEF MakeDir, Close, There, Effective, Places
<1>2. CASE Open(c)
  <2>1. call'[c].at \in {"write", "raised"}
    BY <1>0, <1>2, OpenFields, FinishFields DEF Open, Done
  <2>2. file'[<<k, "data">>] = file[<<k, "data">>]
    BY <1>0, <1>2 DEF Open
  <2> QED
    BY <2>1, <2>2 DEF There, Effective
<1>3. CASE Write(c)
  <2>1. call'[c].at = "write"
    BY <1>0, <1>3 DEF Write, At, Call
  <2>2. There(k) => There(k)'
    <3>1. call[c].pos \in 0..Blocks /\ call[c].pos < Blocks
      BY <1>0, <1>3 DEF Write, Call
    <3>2. file'[<<k, "data">>] \in {file[<<k, "data">>],
                                   file[<<k, "data">>] \union {call[c].pos + 1}}
      BY <1>0, <1>3 DEF Write
    <3> QED
      BY <1>0, <3>1, <3>2, Contents DEF There
  <2> QED
    BY <2>1, <2>2 DEF Effective
<1>4. CASE TooLarge(c)
  <2>1. call'[c].at = "raised"
    <3>1. Moved(<<k, "tmp">>, NoFile) \in [Callers -> Call]
      BY <1>0, MovedFields
    <3>2. call' = End(Moved(<<k, "tmp">>, NoFile), c, "raised")
      BY <1>0, <1>4 DEF TooLarge, End
    <3> QED
      BY <3>1, <3>2, EndFields DEF Done
  <2>2. file'[<<k, "data">>] = file[<<k, "data">>]
    BY <1>0, <1>4 DEF TooLarge
  <2> QED
    BY <2>1, <2>2 DEF There, Effective
<1>5. CASE Replace(c)
  <2>1. CASE Finish(c, "raised") /\ UNCHANGED file
    BY <1>0, <2>1, FinishFields DEF There, Effective, Done
  <2>2. CASE /\ file[<<k, "tmp">>] # Absent
             /\ file' = [file EXCEPT ![<<k, "tmp">>] = Absent, ![<<k, "data">>] = file[<<k, "tmp">>]]
    BY <1>0, <2>2 DEF There
  <2> QED
    BY <1>0, <1>5, <2>1, <2>2 DEF Replace
<1>6. CASE WriteMeta(c)
  BY <1>0, <1>6 DEF WriteMeta, There, Effective, At
<1>7. CASE Request(c)
  BY <1>0, <1>7 DEF Request, Effect, There
<1>8. CASE CallFails(c) \/ Drop(c)
  <2>1. call'[c].at \in {"raised", "idle"}
    BY <1>0, <1>8, FinishFields DEF CallFails, Drop, Done
  <2>2. file'[<<k, "data">>] \in {file[<<k, "data">>], Whole}
    BY <1>0, <1>8 DEF CallFails, Drop, Effect
  <2> QED
    BY <1>0, <2>1, <2>2 DEF There, Effective
<1>9. ~\/ Unlink(c) \/ UnlinkMeta(c) \/ Get(c) \/ ScanTree(c) \/ List(c) \/ RemoveFile(c)
       \/ RemoveDir(c) \/ PurgeEnds(c) \/ StartListing(c) \/ DeleteObjects(c)
  BY DEF Unlink, UnlinkMeta, Get, ScanTree, List, RemoveFile, RemoveDir, PurgeEnds,
         StartListing, DeleteObjects, At
<1> QED
  BY <1>1, <1>2, <1>3, <1>4, <1>5, <1>6, <1>7, <1>8, <1>9 DEF Takes, StoreStep

\* A delete makes no file; once it is over the object and its .meta file are gone.
LEMMA DeleteLeaves ==
  ASSUME StoreInv, NEW c \in Callers, Takes(c), NEW k \in Keys,
         call[c].op = "delete", call[c].key = k
  PROVE  /\ \A f \in Files : file'[f] \in {file[f], Absent}
         /\ Effective(c)' => Effective(c) \/ ~There(k)'
         /\ call'[c].at = "ok" => ~Local \/ file'[<<k, "meta">>] = Absent
<1>0. /\ file \in [Files -> {Absent} \union SUBSET Whole] /\ call \in [Callers -> Call]
      /\ <<k, "data">> \in Files /\ <<k, "meta">> \in Files
      /\ File(c, "data") = <<k, "data">> /\ File(c, "meta") = <<k, "meta">>
  BY FileKinds DEF StoreInv, StoreTypeOK, File
<1>1. CASE Unlink(c)
  <2>1. CASE Finish(c, "raised") /\ UNCHANGED file
    BY <1>0, <2>1, FinishFields DEF Effective, Done
  <2>2. CASE /\ file' = [file EXCEPT ![<<k, "data">>] = Absent]
             /\ call' = [Moved(<<k, "data">>, NoFile) EXCEPT ![c].at = "meta"]
    <3>1. Moved(<<k, "data">>, NoFile) \in [Callers -> Call]
      BY <1>0, MovedFields
    <3>2. call'[c].at = "meta"
      BY <2>2, <3>1 DEF Call
    <3> QED
      BY <1>0, <2>2, <3>2 DEF There
  <2> QED
    BY <1>0, <1>1, <2>1, <2>2 DEF Unlink
<1>2. CASE UnlinkMeta(c)
  BY <1>0, <1>2 DEF UnlinkMeta, Effective, At
<1>3. CASE Request(c)
  BY <1>0, <1>3 DEF Request, Effect, There
<1>4. CASE CallFails(c) \/ Drop(c)
  <2>1. call'[c].at \in {"raised", "idle"}
    BY <1>0, <1>4, FinishFields DEF CallFails, Drop, Done
  <2>2. \A f \in Files : file'[f] \in {file[f], Absent}
    BY <1>0, <1>4 DEF CallFails, Drop, Effect
  <2> QED
    BY <2>1, <2>2 DEF Effective
<1>5. ~\/ MakeDir(c) \/ Open(c) \/ Write(c) \/ TooLarge(c) \/ Close(c) \/ Replace(c)
       \/ WriteMeta(c) \/ Get(c) \/ ScanTree(c) \/ List(c) \/ RemoveFile(c)
       \/ RemoveDir(c) \/ PurgeEnds(c) \/ StartListing(c) \/ DeleteObjects(c)
  BY DEF MakeDir, Open, Write, TooLarge, Close, Replace, WriteMeta, Get, ScanTree, List,
         RemoveFile, RemoveDir, PurgeEnds, StartListing, DeleteObjects, At
<1> QED
  BY <1>1, <1>2, <1>3, <1>4, <1>5 DEF Takes, StoreStep

-----------------------------------------------------------------------------
\* While nothing has failed, a file that is half there is being written, by
\* somebody who has written all it should so far.
Writes(c, f) == call[c].fd = f /\ 1..call[c].pos \subseteq file[f]
Halves ==
  faults = 0 =>
    \A f \in Files : file[f] \in {Absent, Whole} \/ \E c \in Callers : Writes(c, f)

\* A local file is in a directory; S3 has nothing but objects.
InDirs ==
  \A f \in Files : file[f] # Absent => IF Local THEN DirOf(f) \in dirs ELSE f[2] = "data"

\* What somebody has listed it is removing.
ListedByOne == \A c \in Callers : listed[c] # {} => At(c, "purge", "remove")

\* Whoever opens the file last completes it, unless it is complete before.
LEMMA HalvesStep ==
  ASSUME StoreInv, Halves, Staging \notin contended, NEW c \in Callers, Takes(c)
  PROVE  Halves'
<1> SUFFICES ASSUME faults' = 0, NEW f \in Files, file'[f] \notin {Absent, Whole}
             PROVE  \E d \in Callers : Writes(d, f)'
  BY DEF Halves
<1>0. /\ file \in [Files -> {Absent} \union SUBSET Whole] /\ call \in [Callers -> Call]
      /\ call[c].key \in Keys /\ f # NoFile
      /\ File(c, "data") \in Files /\ File(c, "tmp") \in Files /\ File(c, "meta") \in Files
      /\ OpenName(c) = File(c, "tmp") /\ File(c, "tmp") # File(c, "data")
      /\ File(c, "tmp") # NoFile /\ File(c, "data") # NoFile
  BY FileKinds, FileNames, FilesDiffer DEF StoreInv, StoreTypeOK, Call, File, OpenName
<1>1. faults = 0 /\ ~Fault
  BY StoreAssumption DEF Takes, StoreStep, MakeDir, Open, Write, TooLarge, Close, Replace, WriteMeta,
     Unlink, UnlinkMeta, Get, Request, ScanTree, List, RemoveFile, RemoveDir, PurgeEnds,
     StartListing, DeleteObjects, CallFails, Drop, Fault, StoreInv, StoreTypeOK
<1>2. file[f] \notin {Absent, Whole} => \E d \in Callers : Writes(d, f)
  BY <1>1 DEF Halves
<1>3. ASSUME file'[f] = file[f],
             \A d \in Callers : call[d].fd = f =>
               call'[d].fd = f /\ (call'[d].pos = call[d].pos \/ call'[d].pos = 0)
      PROVE  \E d \in Callers : Writes(d, f)'
  <2>1. PICK d \in Callers : Writes(d, f)
    BY <1>2, <1>3
  <2>2. 1..call'[d].pos \subseteq 1..call[d].pos
    BY <1>0, <1>3, <2>1 DEF Writes, Call
  <2> QED
    BY <1>3, <2>1, <2>2 DEF Writes
<1>4. call[c].at # "write" => call[c].fd = NoFile /\ call[c].pos = 0
  BY DEF StoreInv, Handles
<1>5. CASE \/ MakeDir(c) \/ WriteMeta(c) \/ UnlinkMeta(c) \/ ScanTree(c) \/ RemoveDir(c)
           \/ PurgeEnds(c) \/ Request(c) \/ Get(c) \/ StartListing(c) \/ DeleteObjects(c)
  <2>1. \E p \in Done \union Places : Goto(c, p)
    BY <1>5 DEF MakeDir, WriteMeta, UnlinkMeta, ScanTree, RemoveDir, PurgeEnds, Request, Get,
                StartListing, DeleteObjects, Done, Places
  <2>2. \A d \in Callers : Kept(d)
    BY <1>0, <2>1, GotoFields
  <2>3. file'[f] = file[f]
    BY <1>0, <1>5 DEF MakeDir, WriteMeta, UnlinkMeta, ScanTree, RemoveDir, PurgeEnds, Request, Get,
                StartListing, DeleteObjects, Effect
  <2> QED
    BY <1>3, <2>2, <2>3 DEF Kept
<1>6. CASE List(c)
  <2>1. UNCHANGED file /\ \A d \in Callers : call'[d].fd = call[d].fd /\ call'[d].pos = call[d].pos
    BY <1>0, <1>6 DEF List, Call
  <2> QED
    BY <1>3, <2>1
<1>7. CASE RemoveFile(c)
  <2>1. listed[c] \subseteq Files
    BY DEF StoreInv, StoreTypeOK
  <2>2. PICK g \in listed[c] :
          \/ file' = [file EXCEPT ![g] = Absent] /\ call' = Moved(g, NoFile)
          \/ UNCHANGED <<file, call>>
    BY <1>7 DEF RemoveFile
  <2>3. CASE UNCHANGED <<file, call>>
    BY <1>3, <2>3
  <2>4. CASE file' = [file EXCEPT ![g] = Absent] /\ call' = Moved(g, NoFile)
    <3>1. f # g /\ file'[f] = file[f]
      BY <1>0, <2>1, <2>4
    <3> QED
      BY <1>0, <1>3, <2>1, <2>4, <3>1, MovedFields
  <2> QED
    BY <2>2, <2>3, <2>4
<1>8. ASSUME Finish(c, "raised"), UNCHANGED file, call[c].fd # f
      PROVE  \E d \in Callers : Writes(d, f)'
  BY <1>0, <1>3, <1>8, FinishFields DEF Done
<1>9. CASE Unlink(c)
  <2>1. CASE Finish(c, "raised") /\ UNCHANGED file
    BY <1>0, <1>4, <1>8, <1>9, <2>1 DEF Unlink, At
  <2>2. CASE /\ file' = [file EXCEPT ![File(c, "data")] = Absent]
             /\ call' = [Moved(File(c, "data"), NoFile) EXCEPT ![c].at = "meta"]
    <3> DEFINE data == File(c, "data")  m == Moved(data, NoFile)
    <3>1. f # data /\ file'[f] = file[f]
      BY <1>0, <2>2
    <3>2. m \in [Callers -> Call] /\ \A d \in Callers :
            m[d].pos = call[d].pos /\ (call[d].fd = f => m[d].fd = f)
      BY <1>0, <3>1, MovedFields
    <3> HIDE DEF m
    <3>3. \A d \in Callers : call'[d].fd = m[d].fd /\ call'[d].pos = m[d].pos
      BY <2>2, <3>2 DEF m, Call
    <3> QED
      BY <1>3, <3>1, <3>2, <3>3
  <2> QED
    BY <1>9, <2>1, <2>2 DEF Unlink
<1>10. CASE TooLarge(c)
  <2> DEFINE tmp == File(c, "tmp")  m == Moved(tmp, NoFile)
  <2>1. f # tmp /\ file'[f] = file[f]
    BY <1>0, <1>10 DEF TooLarge
  <2>2. m \in [Callers -> Call] /\ \A d \in Callers :
          m[d].pos = call[d].pos /\ (call[d].fd = f => m[d].fd = f)
    BY <1>0, <2>1, MovedFields
  <2>3. call[c].fd # f
    BY <1>0, <1>10, <2>1 DEF TooLarge, StoreInv, Handles
  <2>4. call' = End(m, c, "raised")
    BY <1>10 DEF TooLarge, End
  <2> HIDE DEF m
  <2>5. \A d \in Callers \ {c} : call'[d] = m[d]
    BY <2>2, <2>4 DEF End
  <2> QED
    BY <1>3, <2>1, <2>2, <2>3, <2>5
<1>11. CASE Open(c)
  <2>1. call[c].fd = NoFile /\ call[c].pos = 0 /\ call[c].fd # f
    BY <1>0, <1>4, <1>11 DEF Open, At
  <2>2. CASE Finish(c, "raised") /\ UNCHANGED file
    BY <1>8, <2>1, <2>2
  <2>3. CASE /\ file' = [file EXCEPT ![OpenName(c)] = {}]
             /\ call' = [call EXCEPT ![c].at = "write", ![c].fd = OpenName(c)]
    <3>1. /\ \A d \in Callers \ {c} : call'[d] = call[d]
          /\ call'[c].fd = OpenName(c) /\ call'[c].pos = 0
      BY <1>0, <2>1, <2>3, OpenFields
    <3>2. CASE f = OpenName(c)
      <4>1. 1..0 \subseteq file'[f]
        OBVIOUS
      <4> QED
        BY <3>1, <3>2, <4>1 DEF Writes
    <3>3. CASE f # OpenName(c)
      <4>1. file'[f] = file[f]
        BY <1>0, <2>3, <3>3
      <4> QED
        BY <1>3, <2>1, <3>1, <4>1
    <3> QED
      BY <3>2, <3>3
  <2> QED
    BY <1>11, <2>2, <2>3 DEF Open
<1>12. CASE Write(c)
  <2>1. /\ call' = [call EXCEPT ![c].pos = @ + 1]
        /\ \A g \in Files : file'[g] = IF g = call[c].fd THEN file[g] \union {call[c].pos + 1}
                                       ELSE file[g]
        /\ call[c].pos \in 0..Blocks /\ call[c].pos < Blocks
    BY <1>0, <1>12 DEF Write, Call
  <2>2. /\ \A d \in Callers \ {c} : call'[d] = call[d]
        /\ call'[c].fd = call[c].fd /\ call'[c].pos = call[c].pos + 1
    BY <1>0, <2>1 DEF Call
  <2>3. CASE f = call[c].fd
    <3>1. file[f] # Absent
      BY <1>0, <2>3 DEF StoreInv, Handles
    <3>2. file'[f] = file[f] \union {call[c].pos + 1} /\ call[c].pos + 1 \in 1..Blocks
      <4>1. file'[f] = file[f] \union {call[c].pos + 1}
        BY <2>1, <2>3
      <4>2. call[c].pos + 1 \in 1..Blocks
        BY <2>1, StoreAssumption
      <4> QED
        BY <4>1, <4>2
    <3>3. file[f] # Whole
      BY <3>2 DEF Whole
    <3>4. PICK d \in Callers : Writes(d, f)
      BY <1>2, <3>1, <3>3
    <3>5. CASE d = c
      <4>1. 1..call[c].pos \subseteq file[f]
        BY <3>4, <3>5 DEF Writes
      <4>2. 1..(call[c].pos + 1) = (1..call[c].pos) \union {call[c].pos + 1}
        BY <2>1
      <4>3. 1..(call[c].pos + 1) \subseteq file'[f]
        BY <3>2, <4>1, <4>2
      <4> QED
        BY <2>2, <2>3, <4>3 DEF Writes
    <3>6. CASE d # c
      <4>1. call'[d] = call[d]
        BY <2>2, <3>6
      <4> QED
        BY <3>2, <3>4, <4>1 DEF Writes
    <3> QED
      BY <3>5, <3>6
  <2>4. CASE f # call[c].fd
    BY <1>3, <2>1, <2>2, <2>4
  <2> QED
    BY <2>3, <2>4
<1>13. CASE Close(c)
  <2>0. call[c].pos = Blocks /\ \A d \in Callers \ {c} : call'[d] = call[d]
    BY <1>0, <1>13, CloseFields
  <2>1. file' = file
    BY <1>13 DEF Close
  <2>2. PICK d \in Callers : Writes(d, f)
    BY <1>2, <2>1
  <2>3. file[f] \subseteq Whole
    BY <1>0, <2>1
  <2>4. d # c
    BY <2>0, <2>1, <2>2, <2>3 DEF Writes, Whole
  <2> QED
    BY <2>0, <2>1, <2>2, <2>4 DEF Writes
<1>14. CASE Replace(c)
  <2> DEFINE tmp == OpenName(c)  data == File(c, "data")  m == Moved(tmp, data)
  <2>1. \A g \in Files : call[c].fd # g
    BY <1>14, FileNames DEF Replace
  <2>2. CASE Finish(c, "raised") /\ UNCHANGED file
    <3>1. PICK d \in Callers : Writes(d, f)
      BY <1>2, <2>2
    <3>2. d # c
      BY <2>1, <2>2, <3>1 DEF Writes
    <3>3. call'[d] = call[d]
      BY <1>0, <2>2, <3>2, FinishFields DEF Done
    <3> QED
      BY <2>2, <3>1, <3>3 DEF Writes
  <2>3. CASE /\ file[tmp] # Absent
             /\ file' = [file EXCEPT ![tmp] = Absent, ![data] = file[tmp]]
             /\ call' = [m EXCEPT ![c].at = "meta", ![c].fd = NoFile, ![c].pos = 0]
    <3>1. m \in [Callers -> Call] /\ \A d \in Callers :
            /\ m[d].pos = call[d].pos
            /\ m[d].fd = IF call[d].fd = tmp THEN data
                         ELSE IF call[d].fd = data THEN NoFile ELSE call[d].fd
      BY <1>0, MovedFields
    <3> HIDE DEF m
    <3>2. \A d \in Callers \ {c} : call'[d] = m[d]
      BY <2>3, <3>1
    <3> DEFINE e == IF f = data THEN tmp ELSE f
    <3>3. f # tmp /\ file'[f] = file[e] /\ e \in Files /\ e # data
      BY <1>0, <2>3
    <3>4. PICK d \in Callers : Writes(d, e)
      BY <1>1, <3>3 DEF Halves
    <3>5. d # c
      BY <2>1, <3>3, <3>4 DEF Writes
    <3>6. call'[d].fd = f /\ call'[d].pos = call[d].pos
      BY <3>1, <3>2, <3>3, <3>4, <3>5 DEF Writes
    <3> QED
      BY <3>3, <3>4, <3>6 DEF Writes
  <2> QED
    BY <1>14, <2>2, <2>3 DEF Replace
<1> QED
  BY <1>1, <1>5, <1>6, <1>7, <1>9, <1>10, <1>11, <1>12, <1>13, <1>14
     DEF Takes, StoreStep, CallFails, Drop

\* Files are made in directories that exist, and directories removed when empty.
LEMMA InDirsStep == ASSUME StoreInv, InDirs, NEW c \in Callers, Takes(c) PROVE InDirs'
<1> SUFFICES ASSUME NEW f \in Files, file'[f] # Absent
             PROVE  IF Local THEN DirOf(f) \in dirs' ELSE f[2] = "data"
  BY DEF InDirs, Local, Takes, StoreStep, MakeDir, Open, Write, TooLarge, Close, Replace, WriteMeta,
         Unlink, UnlinkMeta, Get, Request, ScanTree, List, RemoveFile, RemoveDir, PurgeEnds,
         StartListing, DeleteObjects, CallFails, Drop
<1>0. /\ file \in [Files -> {Absent} \union SUBSET Whole] /\ call \in [Callers -> Call]
      /\ call[c].key \in Keys
      /\ \A s \in Suffixes : /\ File(c, s) \in Files /\ File(c, s)[2] = s
                            /\ DirOf(File(c, s)) = call[c].key[1]
      /\ OpenName(c) = File(c, "tmp")
  BY FileNames DEF StoreInv, StoreTypeOK, Call, File, OpenName, DirOf
<1>1. file[f] # Absent => IF Local THEN DirOf(f) \in dirs ELSE f[2] = "data"
  BY DEF InDirs
<1>2. call[c].at \in {"open", "write"} \/ At(c, "put", "meta") => Local
  BY DEF StoreInv, OnItsWay, InPlace, Running, Done, At
<1>3. CASE MakeDir(c) \/ TooLarge(c) \/ Unlink(c) \/ UnlinkMeta(c)
  <2>1. dirs \subseteq dirs' /\ file[f] # Absent
    BY <1>0, <1>3 DEF MakeDir, TooLarge, Unlink, UnlinkMeta, Suffixes
  <2> QED
    BY <1>1, <2>1
<1>4. CASE \/ ScanTree(c) \/ List(c) \/ RemoveFile(c) \/ PurgeEnds(c) \/ StartListing(c)
           \/ DeleteObjects(c) \/ Get(c) \/ Close(c)
  <2>1. dirs' = dirs /\ file[f] # Absent
    BY <1>0, <1>4 DEF ScanTree, List, RemoveFile, PurgeEnds, StartListing, DeleteObjects, Get,
                     Close
  <2> QED
    BY <1>1, <2>1
<1>5. CASE RemoveDir(c)
  <2>1. file[f] # Absent /\ f \in Entries(DirOf(f))
    BY <1>5 DEF RemoveDir, Entries
  <2> QED
    BY <1>1, <1>5, <2>1 DEF RemoveDir
<1>6. CASE Open(c)
  BY <1>0, <1>1, <1>2, <1>6 DEF Open, Suffixes, At
<1>7. CASE Write(c)
  <2>1. file[f] # Absent
    <3>1. CASE f = call[c].fd
      BY <3>1, FileNames DEF StoreInv, Handles
    <3>2. CASE f # call[c].fd
      BY <1>7, <3>2 DEF Write
    <3> QED
      BY <3>1, <3>2
  <2> QED
    BY <1>1, <1>7, <2>1 DEF Write
<1>8. CASE Replace(c)
  <2>1. CASE UNCHANGED file
    BY <1>1, <1>8, <2>1 DEF Replace
  <2>2. CASE /\ file[OpenName(c)] # Absent
             /\ file' = [file EXCEPT ![OpenName(c)] = Absent,
                                     ![File(c, "data")] = file[OpenName(c)]]
    <3>1. Local /\ call[c].key[1] \in dirs
      BY <1>0, <1>2, <1>8, <2>2 DEF Replace, At, InDirs, Suffixes
    <3>2. file[f] # Absent \/ f = File(c, "data")
      BY <1>0, <2>2
    <3>3. dirs' = dirs /\ DirOf(File(c, "data")) = call[c].key[1]
      BY <1>0, <1>8 DEF Replace, Suffixes
    <3> QED
      BY <1>1, <3>1, <3>2, <3>3
  <2> QED
    BY <1>8, <2>1, <2>2 DEF Replace
<1>9. CASE WriteMeta(c)
  BY <1>0, <1>1, <1>2, <1>9 DEF WriteMeta, Suffixes
<1>10. CASE Request(c) \/ CallFails(c) \/ Drop(c)
  <2>1. dirs' = dirs /\ (file' = file \/ (~Local /\ Effect(c)))
    BY <1>10 DEF Request, CallFails, Drop
  <2>2. file' = file \/ file' = [file EXCEPT ![File(c, "data")] =
                                   IF call[c].op = "put" THEN Whole ELSE Absent]
    BY <2>1 DEF Effect
  <2> QED
    BY <1>0, <1>1, <2>1, <2>2 DEF Suffixes
<1> QED
  BY <1>3, <1>4, <1>5, <1>6, <1>7, <1>8, <1>9, <1>10 DEF Takes, StoreStep

\* A deletion's lists are its own ...
LEMMA ListsOfOthers ==
  ASSUME StoreInv, NEW c \in Callers, Takes(c), NEW d \in Callers \ {c}
  PROVE  left'[d] = left[d] /\ listed'[d] = listed[d] /\ (d \in skipped' <=> d \in skipped)
<1>0. left \in [Callers -> SUBSET JobDirs] /\ listed \in [Callers -> SUBSET Files]
  BY DEF StoreInv, StoreTypeOK
<1>1. CASE ScanTree(c) \/ List(c) \/ RemoveFile(c) \/ StartListing(c) \/ DeleteObjects(c)
  BY <1>0, <1>1 DEF ScanTree, List, RemoveFile, StartListing, DeleteObjects
<1>2. CASE CallFails(c) \/ Drop(c)
  BY <1>0, <1>2 DEF CallFails, Drop, Forget
<1>3. CASE \/ MakeDir(c) \/ Open(c) \/ Write(c) \/ TooLarge(c) \/ Close(c) \/ Replace(c)
           \/ WriteMeta(c) \/ Unlink(c) \/ UnlinkMeta(c) \/ Get(c) \/ Request(c)
           \/ RemoveDir(c) \/ PurgeEnds(c)
  BY <1>3 DEF MakeDir, Open, Write, TooLarge, Close, Replace, WriteMeta, Unlink, UnlinkMeta,
              Get, Request, RemoveDir, PurgeEnds
<1> QED
  BY <1>1, <1>2, <1>3 DEF Takes, StoreStep

\* ... and the list of files is emptied before it goes on or stops.
LEMMA ListedStep == ASSUME StoreInv, ListedByOne, NEW c \in Callers, Takes(c) PROVE ListedByOne'
<1> SUFFICES ASSUME NEW d \in Callers, listed'[d] # {} PROVE At(d, "purge", "remove")'
  BY DEF ListedByOne
<1>0. call \in [Callers -> Call] /\ Only(c) /\ listed \in [Callers -> SUBSET Files]
  BY StepOnly DEF StoreInv, StoreTypeOK
<1>1. CASE d # c
  BY <1>0, <1>1, ListsOfOthers DEF ListedByOne, Only, At
<1>2. CASE d = c /\ List(c)
  BY <1>0, <1>2 DEF List, At, Call
<1>3. CASE d = c /\ RemoveFile(c)
  <2>1. listed[c] \subseteq Files /\ At(c, "purge", "remove")
    BY <1>0, <1>3 DEF RemoveFile
  <2>2. call'[c].at = call[c].at
    <3>1. PICK f \in listed[c] : call' = Moved(f, NoFile) \/ call' = call
      BY <1>3 DEF RemoveFile
    <3>2. CASE call' = Moved(f, NoFile)
      BY <1>0, <2>1, <3>2, MovedFields
    <3> QED
      BY <3>1, <3>2
  <2> QED
    BY <1>0, <1>3, <2>1, <2>2 DEF Only, At
<1>4. ~(d = c /\ (\/ MakeDir(c) \/ Open(c) \/ Write(c) \/ TooLarge(c) \/ Close(c)
                  \/ Replace(c) \/ WriteMeta(c) \/ Unlink(c) \/ UnlinkMeta(c) \/ Get(c)
                  \/ Request(c) \/ ScanTree(c) \/ PurgeEnds(c) \/ StartListing(c)))
  BY DEF MakeDir, Open, Write, TooLarge, Close, Replace, WriteMeta, Unlink, UnlinkMeta, Get,
         Request, ScanTree, PurgeEnds, StartListing, At, ListedByOne
<1>5. ~(d = c /\ (CallFails(c) \/ Drop(c)))
  BY <1>0 DEF CallFails, Drop, Forget, At, ListedByOne
<1>6. ~(d = c /\ (RemoveDir(c) \/ DeleteObjects(c)))
  BY <1>0 DEF RemoveDir, DeleteObjects
<1> QED
  BY <1>1, <1>2, <1>3, <1>4, <1>5, <1>6 DEF Takes, StoreStep
=============================================================================
