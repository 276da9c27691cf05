--------------------------- MODULE ObjectUploader ---------------------------
(***************************************************************************)
(* The uploads of ObjectUploader (neogit/merkle/uploader.py) by the        *)
(* workers of several processes into one object storage.                   *)
(*                                                                         *)
(* A file is hashed first and read again to be uploaded, later, by another *)
(* thread.  The worker asks for the key and uploads only if there is no    *)
(* such object: what is under the key is not looked at.  The storage is    *)
(* either atomic (S3, MinIO: an object appears when its upload ends) or    *)
(* not (the default, libcloud's local driver: a file is truncated when the *)
(* upload starts and written in place; no order of writers is assumed).    *)
(*                                                                         *)
(* A content is its sequence of chunks, and stands for its own hash.       *)
(***************************************************************************)
EXTENDS Integers, Sequences, Functions

CONSTANTS
    Committers,   \* processes that commit
    Workers,      \* threads of all upload pools
    PoolOf,       \* the process of each worker
    Paths,
    Chunks,
    Versions,     \* what a file may hold; reading a bad one raises after its data
    Atomic,       \* whether the storage is
    Faults,       \* a subset of FaultKinds
    MaxCommits,   \* bound on the commits of a behaviour
    Hole,         \* a chunk of a file that was never written
    NoJob

FaultKinds == {"storage",  \* the storage raises
               "crash",    \* a process dies
               "between",  \* a file changes, but not after it was hashed for an upload
               "edit",     \* a file changes between any two steps
               "late"}     \* an upload that raises is not noticed (CommitPipeline)

ASSUME UploaderAssumption ==
    /\ PoolOf \in [Workers -> Committers]
    /\ Versions \subseteq [data : Seq(Chunks), bad : BOOLEAN]
    /\ Atomic \in BOOLEAN /\ MaxCommits \in Nat
ASSUME NoJobAssumption == NoJob \notin [path : Paths, key : Seq(Chunks)]

VARIABLES
    files,      \* the file system
    objects,    \* the object storage: key -> content
    published,  \* keys of the blobs of the commits in the database
    commits,    \* commits started, for the bound
    open,       \* whether each process is in a commit
    todo,       \* the paths it has not hashed
    keys,       \* the keys of those it has
    pool,       \* submitted uploads
    exc,        \* _has_exception
    job,        \* the upload a worker runs
    step,       \* where the worker is in it
    buf         \* what it has streamed

commitVars == <<published, commits, open, todo, keys>>
workerVars == <<job, step, buf>>
vars == <<files, objects, commitVars, pool, exc, workerVars>>

Jobs == [path : Paths, key : Seq(Chunks)]

Init ==
    /\ files \in [Paths -> Versions]
    /\ objects = <<>> /\ published = {} /\ commits = 0
    /\ open = [p \in Committers |-> FALSE]
    /\ todo = [p \in Committers |-> {}] /\ keys = [p \in Committers |-> {}]
    /\ pool = [p \in Committers |-> <<>>] /\ exc = [p \in Committers |-> FALSE]
    /\ job = [w \in Workers |-> NoJob]
    /\ step = [w \in Workers |-> "probe"] /\ buf = [w \in Workers |-> <<>>]

\* The storage after the value of key k is v
Put(k, v) == [x \in DOMAIN objects \cup {k} |-> IF x = k THEN v ELSE objects[x]]

\* Content o once chunk c is written at offset n, as in a file
WriteAt(o, n, c) ==
    [i \in 1..(IF Len(o) > n THEN Len(o) ELSE n + 1) |->
        IF i = n + 1 THEN c ELSE IF i <= Len(o) THEN o[i] ELSE Hole]

Resting(p) == pool[p] = <<>> /\ \A w \in Workers : PoolOf[w] = p => job[w] = NoJob

-----------------------------------------------------------------------------
(* Faulty variants of the actions below; no specification uses them.       *)

\* submit(hash, filepath): the arguments are swapped
SubmitSwapped(p, f) ==
    /\ open[p] /\ f \in todo[p]
    /\ todo' = [todo EXCEPT ![p] = @ \ {f}]
    /\ keys' = [keys EXCEPT ![p] = @ \cup {files[f].data}]
    /\ pool' = [pool EXCEPT ![p] = Append(@, [path |-> files[f].data, key |-> f])]
    /\ UNCHANGED <<files, objects, published, commits, open, exc, workerVars>>

\* the iterator of a failed upload is used by the worker's next one
TakeStale(w) ==
    /\ job[w] = NoJob /\ pool[PoolOf[w]] # <<>>
    /\ job' = [job EXCEPT ![w] = Head(pool[PoolOf[w]])]
    /\ pool' = [pool EXCEPT ![PoolOf[w]] = Tail(@)]
    /\ step' = [step EXCEPT ![w] = "probe"]
    /\ UNCHANGED <<files, objects, commitVars, exc, buf>>

\* the commit is published whatever the uploads returned
EndBlind(p) ==
    /\ open[p] /\ todo[p] = {} /\ Resting(p)
    /\ open' = [open EXCEPT ![p] = FALSE]
    /\ published' = published \cup keys[p]
    /\ UNCHANGED <<files, objects, commits, todo, keys, pool, exc, workerVars>>

\* the error of an upload stays in its future
StorageFailSilent(w) ==
    /\ "storage" \in Faults
    /\ job[w] # NoJob /\ step[w] \in {"probe", "stream"}
    /\ job' = [job EXCEPT ![w] = NoJob]
    /\ UNCHANGED <<files, objects, commitVars, pool, exc, step, buf>>

-----------------------------------------------------------------------------
(* A commit, as far as its uploads see it (the threads behind it are those *)
(* of CommitPipeline)                                                      *)

Begin(p, S) ==
    /\ ~open[p] /\ Resting(p) /\ commits < MaxCommits
    /\ commits' = commits + 1
    /\ open' = [open EXCEPT ![p] = TRUE]
    /\ todo' = [todo EXCEPT ![p] = S] /\ keys' = [keys EXCEPT ![p] = {}]
    /\ exc' = [exc EXCEPT ![p] = FALSE]
    /\ UNCHANGED <<files, objects, published, pool, workerVars>>

\* A file is hashed, what is read of it before an error, and submitted.
Submit(p, f) ==
    /\ open[p] /\ f \in todo[p]
    /\ todo' = [todo EXCEPT ![p] = @ \ {f}]
    /\ keys' = [keys EXCEPT ![p] = @ \cup {files[f].data}]
    /\ pool' = [pool EXCEPT ![p] = Append(@, [path |-> f, key |-> files[f].data])]
    /\ UNCHANGED <<files, objects, published, commits, open, exc, workerVars>>

\* When all uploads have ended the commit is published, unless one raised and
\* was noticed, be it before all files were hashed.
End(p) ==
    /\ open[p] /\ Resting(p)
    /\ open' = [open EXCEPT ![p] = FALSE]
    /\ \/ exc[p] /\ UNCHANGED published
       \/ /\ todo[p] = {} /\ (exc[p] => "late" \in Faults)
          /\ published' = published \cup keys[p]
    /\ UNCHANGED <<files, objects, commits, todo, keys, pool, exc, workerVars>>

-----------------------------------------------------------------------------
(* A worker runs _storage_upload *)

Take(w) ==
    /\ job[w] = NoJob /\ pool[PoolOf[w]] # <<>>
    /\ job' = [job EXCEPT ![w] = Head(pool[PoolOf[w]])]
    /\ pool' = [pool EXCEPT ![PoolOf[w]] = Tail(@)]
    /\ step' = [step EXCEPT ![w] = "probe"] /\ buf' = [buf EXCEPT ![w] = <<>>]
    /\ UNCHANGED <<files, objects, commitVars, exc>>

Done(w)  == job' = [job EXCEPT ![w] = NoJob]
Raise(w) == Done(w) /\ exc' = [exc EXCEPT ![PoolOf[w]] = TRUE]

\* get_object: the upload is skipped if there is an object under the key
Probe(w) ==
    /\ job[w] # NoJob /\ step[w] = "probe"
    /\ \/ job[w].key \in DOMAIN objects /\ Done(w) /\ UNCHANGED step
       \/ job[w].key \notin DOMAIN objects /\ step' = [step EXCEPT ![w] = "open"] /\ UNCHANGED job
    /\ UNCHANGED <<files, objects, commitVars, pool, exc, buf>>

\* The file is opened, which raises if nothing of it can be read; then a storage
\* that is not atomic truncates the object.
OpenStream(w) ==
    /\ job[w] # NoJob /\ step[w] = "open"
    /\ LET file == files[job[w].path]
       IN  \/ /\ file.bad /\ file.data = <<>>
              /\ Raise(w) /\ UNCHANGED <<objects, step>>
           \/ /\ ~(file.bad /\ file.data = <<>>)
              /\ step' = [step EXCEPT ![w] = "stream"]
              /\ objects' = IF Atomic THEN objects ELSE Put(job[w].key, <<>>)
              /\ UNCHANGED <<job, exc>>
    /\ UNCHANGED <<files, commitVars, pool, buf>>

\* A chunk of what is in the file now goes to the storage.
StreamChunk(w) ==
    /\ job[w] # NoJob /\ step[w] = "stream"
    /\ LET data == files[job[w].path].data
           n    == Len(buf[w])
       IN  /\ n < Len(data)
           /\ buf' = [buf EXCEPT ![w] = Append(@, data[n + 1])]
           /\ objects' = IF Atomic THEN objects
                         ELSE Put(job[w].key, WriteAt(objects[job[w].key], n, data[n + 1]))
    /\ UNCHANGED <<files, commitVars, pool, exc, job, step>>

\* The file ends, or raises; a storage that is atomic shows the object now.
StreamEnd(w) ==
    /\ job[w] # NoJob /\ step[w] = "stream"
    /\ LET file == files[job[w].path]
       IN  /\ Len(buf[w]) >= Len(file.data)
           /\ \/ file.bad /\ Raise(w) /\ UNCHANGED objects
              \/ /\ ~file.bad /\ Done(w) /\ UNCHANGED exc
                 /\ objects' = IF Atomic THEN Put(job[w].key, buf[w]) ELSE objects
    /\ UNCHANGED <<files, commitVars, pool, step, buf>>

\* The storage raises; what it has written in place stays.
StorageFail(w) ==
    /\ "storage" \in Faults
    /\ job[w] # NoJob /\ step[w] \in {"probe", "stream"} /\ Raise(w)
    /\ UNCHANGED <<files, objects, commitVars, pool, step, buf>>

Worker(w) ==
    Take(w) \/ Probe(w) \/ OpenStream(w) \/ StreamChunk(w) \/ StreamEnd(w) \/ StorageFail(w)

-----------------------------------------------------------------------------
\* A process dies in a commit; what is in the storage stays as it is.
Crash(p) ==
    /\ "crash" \in Faults /\ open[p]
    /\ open' = [open EXCEPT ![p] = FALSE]
    /\ todo' = [todo EXCEPT ![p] = {}] /\ keys' = [keys EXCEPT ![p] = {}]
    /\ pool' = [pool EXCEPT ![p] = <<>>] /\ exc' = [exc EXCEPT ![p] = FALSE]
    /\ job' = [w \in Workers |-> IF PoolOf[w] = p THEN NoJob ELSE job[w]]
    /\ UNCHANGED <<files, objects, published, commits, step, buf>>

\* An upload of f was submitted and has not ended.
Pending(f) ==
    \/ \E p \in Committers : \E i \in 1..Len(pool[p]) : pool[p][i].path = f
    \/ \E w \in Workers : job[w] # NoJob /\ job[w].path = f

Edit(f, v) ==
    /\ "edit" \in Faults \/ ("between" \in Faults /\ ~Pending(f))
    /\ files' = [files EXCEPT ![f] = v]
    /\ UNCHANGED <<objects, commitVars, pool, exc, workerVars>>

Terminated ==
    commits = MaxCommits /\ (\A p \in Committers : ~open[p]) /\ UNCHANGED vars

Next ==
    \/ \E p \in Committers :
           \/ \E S \in SUBSET Paths : Begin(p, S)
           \/ \E f \in Paths : Submit(p, f)
           \/ End(p) \/ Crash(p)
    \/ \E w \in Workers : Worker(w)
    \/ \E f \in Paths, v \in Versions : Edit(f, v)
    \/ Terminated

Spec == Init /\ [][Next]_vars

-----------------------------------------------------------------------------
(* Properties *)

\* Types of the variables
TypeOK ==
    /\ files \in [Paths -> Versions]
    /\ DOMAIN objects \subseteq Seq(Chunks) /\ published \subseteq Seq(Chunks)
    /\ \A k \in DOMAIN objects : objects[k] \in Seq(Chunks \cup {Hole})
    /\ commits \in 0..MaxCommits /\ open \in [Committers -> BOOLEAN]
    /\ todo \in [Committers -> SUBSET Paths] /\ keys \in [Committers -> SUBSET Seq(Chunks)]
    /\ pool \in [Committers -> Seq(Jobs)] /\ exc \in [Committers -> BOOLEAN]
    /\ job \in [Workers -> Jobs \cup {NoJob}]
    /\ step \in [Workers -> {"probe", "open", "stream"}] /\ buf \in [Workers -> Seq(Chunks)]

\* Every object is the content its key is the hash of, whatever failed and
\* whoever died while it was uploaded: it can be shared.  Needs an atomic storage
\* and files that do not change between their hash and the end of their upload.
ContentAddressed == \A k \in DOMAIN objects : objects[k] = k

\* What a commit in the database refers to is in the storage, all of it.
PublishedRestorable == \A k \in published : k \in DOMAIN objects /\ objects[k] = k

\* What a commit in the database refers to is at least there, in any storage,
\* even when files change while they are committed.
PublishedPresent == published \subseteq DOMAIN objects
=============================================================================
