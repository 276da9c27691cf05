--------------------------- MODULE UploadConsole ---------------------------
(***************************************************************************)
(* What the threads of a commit share besides the storage: the queue of    *)
(* files between the main thread and the one that submits them, the worker *)
(* numbers of ObjectUploader, the drivers of TSObjectStorage and the       *)
(* display of RichConsoleAdapter (neogit commit --gui).  Every step that   *)
(* stores something is one of ObjectUploader.                              *)
(*                                                                         *)
(* A thread is known by its ident, which the system gives to another       *)
(* thread once it has ended: the pool of a commit ends with the commit,    *)
(* the drivers live as long as the process.                                *)
(***************************************************************************)
EXTENDS ObjectUploader, FiniteSets

CONSTANTS
    Idents,      \* idents of threads
    Main,        \* that of the main thread of every process
    None

ASSUME ConsoleAssumption ==
    /\ Main \in Idents /\ None \notin Idents \cup Workers /\ NoJob \notin Paths
    /\ IsFiniteSet(Idents) /\ IsFiniteSet(Workers)

VARIABLES
    loop,       \* where the main thread is in the loop of run
    waiting,    \* how many of the files it has put are still in uploader_queue
    ident,      \* the ident of each worker, None if it has no thread
    drivers,    \* _instances: ident -> driver
    numbers,    \* _tid_to_number: ident -> worker number
    lock,       \* who holds _tid_lock
    at,         \* where a worker is: in its upload, or on the way to its number
    counted,    \* the number of workers it found
    rows,       \* the row of each worker number
    tally,      \* the counters of the Stats panel
    unshown     \* uploads that raised before they were shown: no panel counts them

loopVars == <<loop, waiting>>
threadVars == <<ident, drivers>>
numberVars == <<numbers, lock, at, counted>>
displayVars == <<rows, tally, unshown>>
allVars == <<vars, loopVars, threadVars, numberVars, displayVars>>

NoRow   == [path |-> NoJob, total |-> 0, done |-> 0]
NoTally == [files |-> 0, uploaded |-> 0, skipped |-> 0]

\* The main thread gets its driver when the service is created.
OnlyMain == [i \in {Main} |-> 1]

PoolSize(p) == Cardinality({w \in Workers : PoolOf[w] = p})

\* One row per worker
IdleRows(p) == [n \in 1..PoolSize(p) |-> NoRow]

ConsoleInit ==
    /\ Init
    /\ loop = [p \in Committers |-> "take"] /\ waiting = [p \in Committers |-> 0]
    /\ ident = [w \in Workers |-> None] /\ drivers = [p \in Committers |-> OnlyMain]
    /\ numbers = [p \in Committers |-> <<>>] /\ lock = [p \in Committers |-> None]
    /\ at = [w \in Workers |-> "ask"] /\ counted = [w \in Workers |-> 0]
    /\ rows = [p \in Committers |-> <<>>] /\ tally = [p \in Committers |-> NoTally]
    /\ unshown = [p \in Committers |-> 0]

\* Function f with value v at x
With(f, x, v) == [y \in DOMAIN f \cup {x} |-> IF y = x THEN v ELSE f[y]]

Number(w) == numbers[PoolOf[w]][ident[w]]
RowOf(w)  == rows[PoolOf[w]][Number(w)]

SetRow(w, row) == rows' = [rows EXCEPT ![PoolOf[w]][Number(w)] = row]

-----------------------------------------------------------------------------
(* Faulty variants of the definitions below; no specification uses them.   *)

\* the lock is taken whether it is free or not
TakeLockAnyway(w) ==
    /\ at[w] = "lock"
    /\ lock' = [lock EXCEPT ![PoolOf[w]] = w]
    /\ counted' = [counted EXCEPT ![w] = Cardinality(DOMAIN numbers[PoolOf[w]])]
    /\ at' = [at EXCEPT ![w] = "number"]
    /\ UNCHANGED <<vars, loopVars, threadVars, numbers, displayVars>>

\* a thread without an instance gets that of the main thread
InstanceOfMain(p, i) ==
    drivers' = IF i \in DOMAIN drivers[p] THEN drivers
               ELSE [drivers EXCEPT ![p] = With(@, i, @[Main])]

\* the bar of the last upload is not reset
StartedStale(w) ==
    SetRow(w, [path |-> job[w].path, total |-> Len(files[job[w].path].data), done |-> RowOf(w).done])

\* the size is left out
StartedNoSize(w) == SetRow(w, [path |-> job[w].path, total |-> None, done |-> 0])

\* a skipped file counts as skipped and as uploaded
TallyEndTwice(w, skipped) ==
    tally' = [tally EXCEPT ![PoolOf[w]].skipped = IF skipped THEN @ + 1 ELSE @,
                           ![PoolOf[w]].uploaded = @ + 1]

-----------------------------------------------------------------------------
(* The main thread.  A commit has an uploader and a console of its own.    *)

ConsoleBegin(p, S) ==
    /\ Begin(p, S)
    /\ rows' = [rows EXCEPT ![p] = IdleRows(p)]
    /\ UNCHANGED <<loopVars, threadVars, numberVars, tally, unshown>>

\* A file the visitor has hashed is put into uploader_queue: it is the last in line for
\* the pool.  No other process sees when it was hashed.
ConsolePut(p, f) ==
    /\ loop[p] = "take" /\ Submit(p, f)
    /\ loop' = [loop EXCEPT ![p] = "check"] /\ waiting' = [waiting EXCEPT ![p] = @ + 1]
    /\ UNCHANGED <<threadVars, numberVars, displayVars>>

\* check_exception: the file it raises at is never announced.
ConsoleCheck(p) ==
    /\ loop[p] = "check"
    /\ loop' = [loop EXCEPT ![p] = IF exc[p] THEN "dropped" ELSE "hook"]
    /\ UNCHANGED <<vars, waiting, threadVars, numberVars, displayVars>>

\* It is called when a directory comes, too, and may raise there.
ConsoleRaise(p) ==
    /\ open[p] /\ loop[p] = "take" /\ exc[p]
    /\ loop' = [loop EXCEPT ![p] = "raised"]
    /\ UNCHANGED <<vars, waiting, threadVars, numberVars, displayVars>>

\* on_file_hashed
ConsoleHashed(p) ==
    /\ loop[p] = "hook" /\ loop' = [loop EXCEPT ![p] = "take"]
    /\ tally' = [tally EXCEPT ![p].files = @ + 1]
    /\ UNCHANGED <<vars, waiting, threadVars, numberVars, rows, unshown>>

\* The threads of the pool have ended, and its uploader and console are gone.
Closed(p) ==
    /\ loop' = [loop EXCEPT ![p] = "take"] /\ waiting' = [waiting EXCEPT ![p] = 0]
    /\ ident' = [w \in Workers |-> IF PoolOf[w] = p THEN None ELSE ident[w]]
    /\ numbers' = [numbers EXCEPT ![p] = <<>>]
    /\ rows' = [rows EXCEPT ![p] = <<>>] /\ tally' = [tally EXCEPT ![p] = NoTally]
    /\ unshown' = [unshown EXCEPT ![p] = 0]

\* The loop has ended, or raised: what is in uploader_queue is uploaded in any case.
ConsoleEnd(p) ==
    /\ \/ loop[p] \in {"raised", "dropped"} /\ UNCHANGED published
       \/ loop[p] = "take" /\ todo[p] = {}
    /\ End(p) /\ Closed(p) /\ UNCHANGED <<drivers, lock, at, counted>>

\* Nothing of a process that dies is left.
ConsoleCrash(p) ==
    /\ Crash(p) /\ Closed(p)
    /\ drivers' = [drivers EXCEPT ![p] = OnlyMain] /\ lock' = [lock EXCEPT ![p] = None]
    /\ at' = [w \in Workers |-> IF PoolOf[w] = p THEN "ask" ELSE at[w]]
    /\ counted' = [w \in Workers |-> IF PoolOf[w] = p THEN 0 ELSE counted[w]]

-----------------------------------------------------------------------------
\* The thread that submits takes a file from the queue and hands it to the pool.
ConsoleSubmit(p) ==
    /\ waiting[p] > 0 /\ waiting' = [waiting EXCEPT ![p] = @ - 1]
    /\ UNCHANGED <<vars, loop, threadVars, numberVars, displayVars>>

-----------------------------------------------------------------------------
(* A worker.  It takes a job, asks for its driver, then for its number.    *)

\* TSObjectStorage.instance
Instance(p, i) ==
    drivers' = IF i \in DOMAIN drivers[p] THEN drivers
               ELSE [drivers EXCEPT ![p] = With(@, i, Cardinality(DOMAIN @) + 1)]

\* A thread of the pool starts with its first job.
ConsoleTake(w) ==
    /\ Len(pool[PoolOf[w]]) > waiting[PoolOf[w]] /\ Take(w)
    /\ \E i \in Idents \ {Main} :
           /\ \/ ident[w] = i
              \/ ident[w] = None /\ \A v \in Workers : PoolOf[v] = PoolOf[w] => ident[v] # i
           /\ ident' = [ident EXCEPT ![w] = i] /\ Instance(PoolOf[w], i)
    /\ at' = [at EXCEPT ![w] = "ask"]
    /\ UNCHANGED <<loopVars, numbers, lock, counted, displayVars>>

Numbered(w) == ident[w] \in DOMAIN numbers[PoolOf[w]]

\* The number is looked up without the lock.
AskNumber(w) ==
    /\ job[w] # NoJob /\ at[w] = "ask" /\ ~Numbered(w)
    /\ at' = [at EXCEPT ![w] = "lock"]
    /\ UNCHANGED <<vars, loopVars, threadVars, numbers, lock, counted, displayVars>>

TakeLock(w) ==
    /\ at[w] = "lock" /\ lock[PoolOf[w]] = None
    /\ lock' = [lock EXCEPT ![PoolOf[w]] = w]
    /\ counted' = [counted EXCEPT ![w] = Cardinality(DOMAIN numbers[PoolOf[w]])]
    /\ at' = [at EXCEPT ![w] = "number"]
    /\ UNCHANGED <<vars, loopVars, threadVars, numbers, displayVars>>

GiveNumber(w) ==
    /\ at[w] = "number"
    /\ numbers' = [numbers EXCEPT ![PoolOf[w]] =
                      IF Numbered(w) THEN @ ELSE With(@, ident[w], counted[w] + 1)]
    /\ lock' = [lock EXCEPT ![PoolOf[w]] = None] /\ at' = [at EXCEPT ![w] = "ask"]
    /\ counted' = [counted EXCEPT ![w] = 0]
    /\ UNCHANGED <<vars, loopVars, threadVars, displayVars>>

\* on_upload_started, with the size the file has now
Started(w) ==
    SetRow(w, [path |-> job[w].path, total |-> Len(files[job[w].path].data), done |-> 0])

StartUpload(w) ==
    /\ job[w] # NoJob /\ at[w] = "ask" /\ Numbered(w) /\ Started(w)
    /\ at' = [at EXCEPT ![w] = "upload"]
    /\ UNCHANGED <<vars, loopVars, threadVars, numbers, lock, counted, tally, unshown>>

\* get_container raises before the upload is shown.
NoContainer(w) ==
    /\ at[w] = "ask" /\ Numbered(w) /\ StorageFail(w)
    /\ unshown' = [unshown EXCEPT ![PoolOf[w]] = @ + 1]
    /\ UNCHANGED <<loopVars, threadVars, numberVars, rows, tally>>

TallyEnd(w, skipped) ==
    tally' = [tally EXCEPT ![PoolOf[w]].skipped = IF skipped THEN @ + 1 ELSE @,
                           ![PoolOf[w]].uploaded = IF skipped THEN @ ELSE @ + 1]

\* on_upload_finished, also if the upload has raised
Finished(w, skipped) ==
    /\ TallyEnd(w, skipped)
    /\ SetRow(w, [RowOf(w) EXCEPT !.done = RowOf(w).total])
    /\ at' = [at EXCEPT ![w] = "ask"]

\* A step of the upload, and the hook it calls
ConsoleUpload(w) ==
    /\ at[w] = "upload"
    /\ \/ Probe(w) /\ job'[w] = NoJob /\ Finished(w, TRUE)
       \/ /\ OpenStream(w) \/ StreamEnd(w) \/ StorageFail(w)
          /\ job'[w] = NoJob /\ Finished(w, FALSE)
       \/ /\ Probe(w) \/ OpenStream(w)
          /\ job'[w] # NoJob /\ UNCHANGED <<rows, tally, at>>
       \/ /\ StreamChunk(w)
          /\ SetRow(w, [RowOf(w) EXCEPT !.done = RowOf(w).done + 1])
          /\ UNCHANGED <<tally, at>>
    /\ UNCHANGED <<loopVars, threadVars, numbers, lock, counted, unshown>>

ConsoleWorker(w) ==
    \/ ConsoleTake(w) \/ AskNumber(w) \/ TakeLock(w) \/ GiveNumber(w)
    \/ StartUpload(w) \/ NoContainer(w) \/ ConsoleUpload(w)

ConsoleNext ==
    \/ \E p \in Committers :
           \/ \E S \in SUBSET Paths : ConsoleBegin(p, S)
           \/ \E f \in Paths : ConsolePut(p, f)
           \/ ConsoleCheck(p) \/ ConsoleRaise(p) \/ ConsoleHashed(p) \/ ConsoleSubmit(p)
           \/ ConsoleEnd(p) \/ ConsoleCrash(p)
    \/ \E w \in Workers : ConsoleWorker(w)
    \/ /\ (\E f \in Paths, v \in Versions : Edit(f, v)) \/ Terminated
       /\ UNCHANGED <<loopVars, threadVars, numberVars, displayVars>>

ConsoleSpec == ConsoleInit /\ [][ConsoleNext]_allVars

-----------------------------------------------------------------------------
(* Properties *)

\* Types of the variables
ConsoleTypeOK ==
    /\ loop \in [Committers -> {"take", "check", "hook", "raised", "dropped"}]
    /\ waiting \in [Committers -> Nat] /\ unshown \in [Committers -> Nat]
    /\ \A p \in Committers : waiting[p] <= Len(pool[p])
    /\ ident \in [Workers -> (Idents \ {Main}) \cup {None}]
    /\ \A p \in Committers :
           /\ DOMAIN numbers[p] \subseteq Idents \ {Main}
           /\ Main \in DOMAIN drivers[p] /\ DOMAIN drivers[p] \subseteq Idents
           /\ lock[p] \in Workers \cup {None}
           /\ \A r \in Range(rows[p]) : r.path \in Paths \cup {NoJob} /\ r.total \in Nat /\ r.done \in Nat
           /\ \A n \in {tally[p].files, tally[p].uploaded, tally[p].skipped} : n \in Nat
    /\ at \in [Workers -> {"ask", "lock", "number", "upload"}]
    /\ counted \in [Workers -> Nat]

\* The threads of a pool are numbered from 1 on without gaps or duplicates, in
\* whatever order they ask, and each number has a row.
NumbersDense ==
    \A p \in Committers :
        /\ Range(numbers[p]) = 1..Cardinality(DOMAIN numbers[p])
        /\ open[p] => Range(numbers[p]) \subseteq DOMAIN rows[p]

\* No two threads that live use one driver, nor does any use that of the main
\* thread, though idents come again and drivers stay.
OwnDrivers ==
    \A v, w \in {u \in Workers : ident[u] # None} :
        LET d == drivers[PoolOf[w]]
        IN  /\ d[ident[w]] # d[Main]
            /\ v # w /\ PoolOf[v] = PoolOf[w] => d[ident[v]] # d[ident[w]]

\* While a worker uploads a file, the row of its number shows that file and what
\* has been read of it.
RowShowsUpload ==
    \A w \in Workers : at[w] = "upload" =>
        RowOf(w).path = job[w].path /\ RowOf(w).done = Len(buf[w])

\* A file that was put and is not announced
Unannounced(p) == IF loop[p] \in {"check", "hook", "dropped"} THEN 1 ELSE 0

\* The main thread puts no more files, and all uploads have ended.
Joined(p) ==
    Resting(p) /\ (loop[p] \in {"raised", "dropped"} \/ (loop[p] = "take" /\ todo[p] = {}))

\* The files of the panel are those that were put, but for the one the main thread is at;
\* no more are uploaded or skipped, though other threads count these, and in the end no
\* less: an upload that failed counts as uploaded, if it was shown, and no other does.
FilesAccounted ==
    \A p \in {q \in Committers : open[q]} :
        LET ended == tally[p].uploaded + tally[p].skipped + unshown[p]
            put   == tally[p].files + Unannounced(p)
        IN  ended <= put /\ (Joined(p) => ended = put)
=============================================================================
