------------------------ MODULE UploadConsoleProofs ------------------------
(***************************************************************************)
(* Proofs about UploadConsole: it is an ObjectUploader, and its workers    *)
(* are numbered without gaps.                                              *)
(*                                                                         *)
(* Numbers are dense because a worker counts them and adds its own under   *)
(* the lock (LockInv), for a thread that keeps its ident (LiveInv), and    *)
(* they fit the rows because every number belongs to a thread (OwnedInv).  *)
(***************************************************************************)
EXTENDS UploadConsole, ObjectUploaderProofs, FiniteSetTheorems

Pool(p) == {w \in Workers : PoolOf[w] = p}

ShapeInv ==
    /\ ident \in [Workers -> Idents \cup {None}]
    /\ at \in [Workers -> {"ask", "lock", "number", "upload"}]
    /\ counted \in [Workers -> Nat]
    /\ DOMAIN numbers = Committers /\ DOMAIN lock = Committers /\ DOMAIN rows = Committers
    /\ \A p \in Committers : DOMAIN numbers[p] \subseteq Idents

\* A worker on its way has a job, and one with a job is a thread.
LiveInv ==
    \A w \in Workers :
        /\ at[w] # "ask" => job[w] # NoJob
        /\ job[w] # NoJob => ident[w] # None

LockInv ==
    \A w \in Workers : at[w] = "number" =>
        /\ lock[PoolOf[w]] = w
        /\ counted[w] = Cardinality(DOMAIN numbers[PoolOf[w]])

OwnedInv ==
    \A p \in Committers : \A i \in DOMAIN numbers[p] : \E w \in Pool(p) : ident[w] = i

DenseInv ==
    \A p \in Committers : Range(numbers[p]) = 1..Cardinality(DOMAIN numbers[p])

RowsInv ==
    \A p \in Committers : open[p] => DOMAIN rows[p] = 1..PoolSize(p)

ConsoleInv ==
    AnyInv /\ ShapeInv /\ LiveInv /\ LockInv /\ OwnedInv /\ DenseInv /\ RowsInv

-----------------------------------------------------------------------------
\* Steps of the main thread and of the one that submits that no worker sees
Aside(p) == ConsoleCheck(p) \/ ConsoleRaise(p) \/ ConsoleHashed(p) \/ ConsoleSubmit(p)

LEMMA AsideSteps ==
    ASSUME NEW p \in Committers, Aside(p)
    PROVE  UNCHANGED <<vars, threadVars, numberVars, rows, unshown>>
BY DEF Aside, ConsoleCheck, ConsoleRaise, ConsoleHashed, ConsoleSubmit, displayVars

\* Whatever the threads share, objects change as in ObjectUploader.
LEMMA StepsImplement == ConsoleNext \/ UNCHANGED allVars => [Next]_vars
<1>1. ASSUME NEW p \in Committers, NEW S \in SUBSET Paths, ConsoleBegin(p, S) PROVE Next
    BY <1>1 DEF ConsoleBegin, Next
<1>2. ASSUME NEW p \in Committers, NEW f \in Paths, ConsolePut(p, f) PROVE Next
    BY <1>2 DEF ConsolePut, Next
<1>3. ASSUME NEW p \in Committers, Aside(p) PROVE UNCHANGED vars
    BY <1>3, AsideSteps
<1>4. ASSUME NEW p \in Committers, ConsoleEnd(p) \/ ConsoleCrash(p) PROVE Next
    BY <1>4 DEF ConsoleEnd, ConsoleCrash, Next
<1>5. ASSUME NEW w \in Workers, ConsoleWorker(w) PROVE [Next]_vars
    <2>1. CASE ConsoleTake(w)
        BY <2>1 DEF ConsoleTake, Next, Worker
    <2>2. CASE AskNumber(w) \/ TakeLock(w) \/ GiveNumber(w) \/ StartUpload(w)
        BY <2>2 DEF AskNumber, TakeLock, GiveNumber, StartUpload
    <2>3. CASE NoContainer(w) \/ ConsoleUpload(w)
        <3>1. Worker(w)
            BY <2>3 DEF NoContainer, ConsoleUpload, Worker
        <3> QED BY <3>1 DEF Next
    <2> QED BY <1>5, <2>1, <2>2, <2>3 DEF ConsoleWorker
<1>6. CASE (\E f \in Paths, v \in Versions : Edit(f, v)) \/ Terminated
    BY <1>6 DEF Next
<1>7. CASE UNCHANGED allVars
    BY <1>7 DEF allVars
<1> QED BY <1>1, <1>2, <1>3, <1>4, <1>5, <1>6, <1>7 DEF ConsoleNext, Aside

\* The threads of a commit, their numbers and the console change nothing about
\* what is stored and published: ObjectUploader is implemented.
THEOREM ConsoleImplementsUploader == ConsoleSpec => Spec
<1>1. ConsoleInit => Init
    BY DEF ConsoleInit
<1>2. [ConsoleNext]_allVars => [Next]_vars
    BY StepsImplement
<1> QED BY <1>1, <1>2, PTL DEF ConsoleSpec, Spec

\* What is published is stored, with threads that come and go and whatever the
\* console shows.
THEOREM ConsolePublishesPresentKeys == "late" \notin Faults /\ ConsoleSpec => []PublishedPresent
BY ConsoleImplementsUploader, PublishesPresentKeys, PTL

-----------------------------------------------------------------------------
(* The invariant holds at first, and is kept by steps of the main thread   *)

LEMMA ConsoleInitInv == ConsoleInit => ConsoleInv
<1> SUFFICES ASSUME ConsoleInit PROVE ConsoleInv
    OBVIOUS
<1> USE DEF ConsoleInit
<1>1. AnyInv
    BY InitAny
<1>2. DOMAIN <<>> = {} /\ Range(<<>>) = {} /\ Cardinality({}) = 0 /\ 1..0 = {}
    BY FS_EmptySet DEF Range
<1>3. ShapeInv
    BY <1>2 DEF ShapeInv
<1>4. LiveInv /\ LockInv /\ RowsInv
    BY DEF LiveInv, LockInv, RowsInv, Init
<1>5. OwnedInv
    BY <1>2 DEF OwnedInv
<1>6. DenseInv
    BY <1>2 DEF DenseInv
<1> QED BY <1>1, <1>3, <1>4, <1>5, <1>6 DEF ConsoleInv

\* A step that gives no number, and lets no thread end or take the lock
LEMMA QuietInv ==
    ASSUME ConsoleInv, AnyInv', UNCHANGED <<ident, numbers, lock, counted>>,
           at' \in [Workers -> {"ask", "lock", "number", "upload"}],
           DOMAIN rows' = Committers,
           \A w \in Workers : at'[w] = "number" => at[w] = "number",
           \A w \in Workers : at'[w] # "ask" => job'[w] # NoJob,
           \A w \in Workers : job'[w] # NoJob => ident[w] # None,
           \A p \in Committers : open'[p] => DOMAIN rows'[p] = 1..PoolSize(p)
    PROVE  ConsoleInv'
<1> USE DEF ConsoleInv
<1>1. ShapeInv'
    BY DEF ShapeInv
<1>2. LiveInv'
    BY DEF LiveInv
<1>3. LockInv'
    BY DEF LockInv
<1>4. OwnedInv' /\ DenseInv'
    BY DEF OwnedInv, DenseInv
<1>5. RowsInv'
    BY DEF RowsInv
<1> QED BY <1>1, <1>2, <1>3, <1>4, <1>5

LEMMA BeginInv ==
    ASSUME ConsoleInv, NEW p \in Committers, NEW S \in SUBSET Paths, ConsoleBegin(p, S), AnyInv'
    PROVE  ConsoleInv'
<1> USE DEF ConsoleBegin, Begin
<1>1. open \in [Committers -> BOOLEAN] /\ DOMAIN rows = Committers
    BY DEF ConsoleInv, AnyInv, TypeOK, ShapeInv
<1>2. UNCHANGED <<ident, numbers, lock, at, counted, job>>
    BY DEF threadVars, numberVars, workerVars
<1>3. DOMAIN rows' = Committers /\ rows'[p] = IdleRows(p) /\ \A q \in Committers \ {p} : rows'[q] = rows[q]
    BY <1>1
<1>4. \A q \in Committers : open'[q] => DOMAIN rows'[q] = 1..PoolSize(q)
    <2> SUFFICES ASSUME NEW q \in Committers, open'[q] PROVE DOMAIN rows'[q] = 1..PoolSize(q)
        OBVIOUS
    <2>1. CASE q = p
        BY <2>1, <1>3 DEF IdleRows
    <2>2. CASE q # p
        BY <2>2, <1>1, <1>3 DEF ConsoleInv, RowsInv
    <2> QED BY <2>1, <2>2
<1> QED BY <1>1, <1>2, <1>3, <1>4, QuietInv DEF ConsoleInv, ShapeInv, LiveInv

LEMMA PutInv ==
    ASSUME ConsoleInv, NEW p \in Committers, NEW f \in Paths, ConsolePut(p, f), AnyInv'
    PROVE  ConsoleInv'
<1>1. UNCHANGED <<ident, numbers, lock, at, counted, rows, open, job>>
    BY DEF ConsolePut, Submit, threadVars, numberVars, workerVars, displayVars
<1> QED BY <1>1, QuietInv DEF ConsoleInv, ShapeInv, LiveInv, RowsInv

\* The end of the threads of a process, none of which has a job
LEMMA ClosedInv ==
    ASSUME ConsoleInv, AnyInv', NEW p \in Committers, Closed(p),
           at' \in [Workers -> {"ask", "lock", "number", "upload"}],
           counted' \in [Workers -> Nat], DOMAIN lock' = Committers,
           open' = [open EXCEPT ![p] = FALSE],
           \A w \in Workers : PoolOf[w] = p => at'[w] = "ask" /\ job'[w] = NoJob,
           \A w \in Workers : PoolOf[w] # p =>
               /\ at'[w] = at[w] /\ job'[w] = job[w] /\ counted'[w] = counted[w]
               /\ lock'[PoolOf[w]] = lock[PoolOf[w]]
    PROVE  ConsoleInv'
<1> USE DEF ConsoleInv
<1>1. /\ DOMAIN numbers = Committers /\ DOMAIN rows = Committers /\ ident \in [Workers -> Idents \cup {None}]
      /\ PoolOf \in [Workers -> Committers] /\ open \in [Committers -> BOOLEAN]
    BY UploaderAssumption DEF ShapeInv, AnyInv, TypeOK
<1>2. /\ DOMAIN numbers' = Committers /\ DOMAIN rows' = Committers
      /\ numbers'[p] = <<>> /\ \A q \in Committers \ {p} : numbers'[q] = numbers[q] /\ rows'[q] = rows[q]
      /\ \A w \in Workers : ident'[w] = IF PoolOf[w] = p THEN None ELSE ident[w]
      /\ ident' \in [Workers -> Idents \cup {None}]
    BY <1>1 DEF Closed
<1>3. DOMAIN <<>> = {} /\ Range(<<>>) = {} /\ Cardinality({}) = 0 /\ 1..0 = {}
    BY FS_EmptySet DEF Range
<1>4. ShapeInv'
    BY <1>1, <1>2, <1>3 DEF ShapeInv
<1>5. LiveInv'
    BY <1>2 DEF LiveInv
<1>6. LockInv'
    BY <1>1, <1>2 DEF LockInv
<1>7. OwnedInv'
    <2> SUFFICES ASSUME NEW q \in Committers, NEW i \in DOMAIN numbers'[q]
                 PROVE  \E w \in Pool(q) : ident'[w] = i
        BY DEF OwnedInv, Pool
    <2>1. q # p
        BY <1>2, <1>3
    <2>2. PICK w \in Pool(q) : ident[w] = i
        BY <2>1, <1>2 DEF OwnedInv
    <2> QED BY <2>1, <2>2, <1>2 DEF Pool
<1>8. DenseInv'
    BY <1>2, <1>3 DEF DenseInv
<1>9. RowsInv'
    BY <1>1, <1>2 DEF RowsInv
<1> QED BY <1>4, <1>5, <1>6, <1>7, <1>8, <1>9

LEMMA EndInv ==
    ASSUME ConsoleInv, NEW p \in Committers, ConsoleEnd(p), AnyInv'
    PROVE  ConsoleInv'
<1>1. Closed(p) /\ UNCHANGED <<lock, at, counted, job>> /\ open' = [open EXCEPT ![p] = FALSE]
    BY DEF ConsoleEnd, End, workerVars
<1>2. \A w \in Workers : PoolOf[w] = p => at[w] = "ask" /\ job[w] = NoJob
    BY DEF ConsoleEnd, End, Resting, ConsoleInv, LiveInv
<1> QED BY <1>1, <1>2, ClosedInv DEF ConsoleInv, ShapeInv

LEMMA CrashInv ==
    ASSUME ConsoleInv, NEW p \in Committers, ConsoleCrash(p), AnyInv'
    PROVE  ConsoleInv'
<1>1. Closed(p) /\ open' = [open EXCEPT ![p] = FALSE]
    BY DEF ConsoleCrash, Crash
<1>2. /\ at' \in [Workers -> {"ask", "lock", "number", "upload"}] /\ counted' \in [Workers -> Nat]
      /\ DOMAIN lock' = Committers
    BY DEF ConsoleCrash, ConsoleInv, ShapeInv
<1>3. \A w \in Workers : PoolOf[w] = p => at'[w] = "ask" /\ job'[w] = NoJob
    BY DEF ConsoleCrash, Crash
<1>4. \A w \in Workers : PoolOf[w] # p =>
          /\ at'[w] = at[w] /\ job'[w] = job[w] /\ counted'[w] = counted[w]
          /\ lock'[PoolOf[w]] = lock[PoolOf[w]]
    BY UploaderAssumption DEF ConsoleCrash, Crash, ConsoleInv, ShapeInv
<1> QED BY <1>1, <1>2, <1>3, <1>4, ClosedInv

-----------------------------------------------------------------------------
(* The steps of a worker keep it                                           *)

\* A thread keeps its ident from one job to the next.
LEMMA TakeInv ==
    ASSUME ConsoleInv, NEW w \in Workers, ConsoleTake(w), AnyInv'
    PROVE  ConsoleInv'
<1> USE DEF ConsoleInv
<1>1. /\ ident \in [Workers -> Idents \cup {None}] /\ at \in [Workers -> {"ask", "lock", "number", "upload"}]
      /\ DOMAIN rows = Committers /\ \A p \in Committers : DOMAIN numbers[p] \subseteq Idents
      /\ job \in [Workers -> Jobs \cup {NoJob}]
    BY DEF ShapeInv, AnyInv, TypeOK
<1>2. /\ job[w] = NoJob /\ \A v \in Workers \ {w} : job'[v] = job[v]
      /\ at' = [at EXCEPT ![w] = "ask"]
      /\ UNCHANGED <<open, numbers, lock, counted, rows>>
    BY <1>1 DEF ConsoleTake, Take, displayVars, commitVars
<1>3. PICK i \in Idents \ {Main} : /\ ident[w] = i \/ ident[w] = None
                                   /\ ident' = [ident EXCEPT ![w] = i]
    BY DEF ConsoleTake
<1>4. None \notin Idents
    BY ConsoleAssumption
<1>5. ShapeInv'
    BY <1>1, <1>2, <1>3 DEF ShapeInv
<1>6. LiveInv'
    BY <1>1, <1>2, <1>3, <1>4 DEF LiveInv
<1>7. LockInv'
    BY <1>1, <1>2 DEF LockInv
<1>8. OwnedInv'
    <2> SUFFICES ASSUME NEW p \in Committers, NEW j \in DOMAIN numbers'[p]
                 PROVE  \E v \in Pool(p) : ident'[v] = j
        BY DEF OwnedInv, Pool
    <2>1. j \in DOMAIN numbers[p] /\ j # None
        BY <1>1, <1>2, <1>4
    <2>2. PICK v \in Pool(p) : ident[v] = j
        BY <2>1 DEF OwnedInv
    <2> QED BY <2>1, <2>2, <1>1, <1>3 DEF Pool
<1>9. DenseInv' /\ RowsInv'
    BY <1>2 DEF DenseInv, RowsInv
<1> QED BY <1>5, <1>6, <1>7, <1>8, <1>9

LEMMA AskInv ==
    ASSUME ConsoleInv, NEW w \in Workers, AskNumber(w), AnyInv'
    PROVE  ConsoleInv'
<1>1. /\ at' = [at EXCEPT ![w] = "lock"] /\ job[w] # NoJob
      /\ UNCHANGED <<ident, numbers, lock, counted, rows, open, job>>
    BY DEF AskNumber, threadVars, displayVars, vars, commitVars, workerVars
<1> QED BY <1>1, QuietInv DEF ConsoleInv, ShapeInv, LiveInv, RowsInv

\* Nobody else of the pool has the lock, so nobody else has counted.
LEMMA TakeLockInv ==
    ASSUME ConsoleInv, NEW w \in Workers, TakeLock(w), AnyInv'
    PROVE  ConsoleInv'
<1> USE DEF ConsoleInv
<1>1. /\ at[w] = "lock" /\ at' = [at EXCEPT ![w] = "number"]
      /\ lock[PoolOf[w]] = None /\ lock' = [lock EXCEPT ![PoolOf[w]] = w]
      /\ counted' = [counted EXCEPT ![w] = Cardinality(DOMAIN numbers[PoolOf[w]])]
      /\ UNCHANGED <<ident, numbers, rows, open, job>>
    BY DEF TakeLock, threadVars, displayVars, vars, commitVars, workerVars
<1>2. PoolOf \in [Workers -> Committers] /\ None \notin Workers /\ IsFiniteSet(Idents)
    BY UploaderAssumption, ConsoleAssumption
<1>3. Cardinality(DOMAIN numbers[PoolOf[w]]) \in Nat
    BY <1>2, FS_Subset, FS_CardinalityType DEF ShapeInv
<1>4. ShapeInv'
    BY <1>1, <1>2, <1>3 DEF ShapeInv
<1>5. LiveInv'
    BY <1>1 DEF LiveInv, ShapeInv
<1>6. LockInv'
    <2> SUFFICES ASSUME NEW v \in Workers, at'[v] = "number"
                 PROVE  /\ lock'[PoolOf[v]] = v
                        /\ counted'[v] = Cardinality(DOMAIN numbers'[PoolOf[v]])
        BY DEF LockInv
    <2>1. CASE v = w
        BY <2>1, <1>1, <1>2 DEF ShapeInv
    <2>2. CASE v # w
        <3>1. at[v] = "number" /\ counted'[v] = counted[v]
            BY <2>2, <1>1 DEF ShapeInv
        <3>2. lock[PoolOf[v]] = v /\ PoolOf[v] # PoolOf[w]
            BY <3>1, <1>1, <1>2 DEF LockInv
        <3> QED BY <3>1, <3>2, <1>1, <1>2 DEF LockInv, ShapeInv
    <2> QED BY <2>1, <2>2
<1>7. OwnedInv' /\ DenseInv' /\ RowsInv'
    BY <1>1 DEF OwnedInv, DenseInv, RowsInv
<1> QED BY <1>4, <1>5, <1>6, <1>7

\* The holder of the lock adds the number that follows those of the others.
LEMMA GiveInv ==
    ASSUME ConsoleInv, NEW w \in Workers, GiveNumber(w), AnyInv'
    PROVE  ConsoleInv'
<1> USE DEF ConsoleInv
<1> DEFINE p   == PoolOf[w]
           n   == numbers[p]
           new == IF Numbered(w) THEN n ELSE With(n, ident[w], counted[w] + 1)
<1>1. /\ at[w] = "number" /\ at' = [at EXCEPT ![w] = "ask"]
      /\ lock' = [lock EXCEPT ![p] = None] /\ counted' = [counted EXCEPT ![w] = 0]
      /\ numbers' = [numbers EXCEPT ![p] = new]
      /\ UNCHANGED <<ident, rows, open, job>>
    BY DEF GiveNumber, threadVars, displayVars, vars, commitVars, workerVars
<1>2. PoolOf \in [Workers -> Committers] /\ p \in Committers /\ IsFiniteSet(Idents)
    BY UploaderAssumption, ConsoleAssumption
<1>3. /\ lock[p] = w /\ counted[w] = Cardinality(DOMAIN n)
      /\ ident[w] \in Idents /\ DOMAIN n \subseteq Idents
    BY <1>1, <1>2 DEF LockInv, LiveInv, ShapeInv
<1>4. IsFiniteSet(DOMAIN n) /\ Cardinality(DOMAIN n) \in Nat
    BY <1>2, <1>3, FS_Subset, FS_CardinalityType
<1>5. DOMAIN new = DOMAIN n \cup {ident[w]}
    BY DEF Numbered, With
<1>6. Range(new) = 1..Cardinality(DOMAIN new)
    <2>1. CASE Numbered(w)
        BY <2>1, <1>2 DEF DenseInv
    <2>2. CASE ~Numbered(w)
        <3>1. Cardinality(DOMAIN new) = Cardinality(DOMAIN n) + 1
            BY <2>2, <1>4, <1>5, FS_AddElement DEF Numbered
        <3>2. Range(n) = 1..Cardinality(DOMAIN n)
            BY <1>2 DEF DenseInv
        <3>3. Range(new) = Range(n) \cup {Cardinality(DOMAIN n) + 1}
            <4>1. ident[w] \notin DOMAIN n
                BY <2>2 DEF Numbered
            <4>2. /\ new[ident[w]] = Cardinality(DOMAIN n) + 1
                  /\ \A i \in DOMAIN n : new[i] = n[i]
                BY <2>2, <4>1, <1>3 DEF With
            <4> QED BY <4>1, <4>2, <1>5 DEF Range
        <3>4. \A c \in Nat : (1..c) \cup {c + 1} = 1..(c + 1)
            OBVIOUS
        <3> HIDE DEF new
        <3>5. Range(new) = 1..(Cardinality(DOMAIN n) + 1)
            BY <3>2, <3>3, <3>4, <1>4
        <3> QED BY <3>1, <3>5
    <2> QED BY <2>1, <2>2
<1>7. /\ DOMAIN numbers' = Committers /\ numbers'[p] = new
      /\ \A q \in Committers \ {p} : numbers'[q] = numbers[q]
    BY <1>1, <1>2 DEF ShapeInv
<1>8. ShapeInv'
    BY <1>1, <1>2, <1>3, <1>5, <1>7 DEF ShapeInv
<1>9. LiveInv'
    BY <1>1 DEF LiveInv, ShapeInv
<1>10. LockInv'
    <2> SUFFICES ASSUME NEW v \in Workers, at'[v] = "number"
                 PROVE  /\ lock'[PoolOf[v]] = v
                        /\ counted'[v] = Cardinality(DOMAIN numbers'[PoolOf[v]])
        BY DEF LockInv
    <2>1. v # w /\ at[v] = "number" /\ counted'[v] = counted[v]
        BY <1>1 DEF ShapeInv
    <2>2. lock[PoolOf[v]] = v /\ PoolOf[v] # p
        BY <2>1, <1>3 DEF LockInv
    <2> QED BY <2>1, <2>2, <1>1, <1>2, <1>7 DEF LockInv, ShapeInv
<1>11. OwnedInv'
    <2> SUFFICES ASSUME NEW q \in Committers, NEW i \in DOMAIN numbers'[q]
                 PROVE  \E v \in Pool(q) : ident'[v] = i
        BY DEF OwnedInv, Pool
    <2>1. CASE i \in DOMAIN numbers[q]
        BY <2>1, <1>1 DEF OwnedInv
    <2>2. CASE i \notin DOMAIN numbers[q]
        BY <2>2, <1>1, <1>5, <1>7 DEF Pool
    <2> QED BY <2>1, <2>2
<1>12. DenseInv'
    BY <1>6, <1>7 DEF DenseInv
<1>13. RowsInv'
    BY <1>1 DEF RowsInv
<1> QED BY <1>8, <1>9, <1>10, <1>11, <1>12, <1>13

LEMMA UploadInv ==
    ASSUME ConsoleInv, NEW w \in Workers, StartUpload(w) \/ NoContainer(w) \/ ConsoleUpload(w), AnyInv'
    PROVE  ConsoleInv'
<1> USE DEF ConsoleInv
<1>1. /\ job \in [Workers -> Jobs \cup {NoJob}]
      /\ PoolOf[w] \in Committers /\ NoJob \notin Jobs
    BY UploaderAssumption, NoJobAssumption DEF AnyInv, TypeOK, Jobs
<1>2. UNCHANGED <<ident, numbers, lock, counted, open>>
    BY DEF StartUpload, NoContainer, ConsoleUpload, threadVars, numberVars, vars, commitVars,
           Probe, OpenStream, StreamChunk, StreamEnd, StorageFail
<1> DEFINE SameShape == DOMAIN rows' = DOMAIN rows /\ \A q \in Committers : DOMAIN rows'[q] = DOMAIN rows[q]
           AtKept    == at' = at \/ at' = [at EXCEPT ![w] = "ask"] \/ (at' = [at EXCEPT ![w] = "upload"] /\ job' = job)
<1>3. AtKept
    <2>1. CASE StartUpload(w)
        BY <2>1 DEF StartUpload, vars, workerVars
    <2>2. CASE NoContainer(w)
        BY <2>2 DEF NoContainer, numberVars
    <2>3. CASE ConsoleUpload(w)
        BY <2>3 DEF ConsoleUpload, Finished
    <2> QED BY <2>1, <2>2, <2>3
<1>4. SameShape
    <2>1. ASSUME NEW row, SetRow(w, row) PROVE SameShape
        BY <2>1 DEF SetRow, ShapeInv
    <2>2. CASE rows' = rows
        BY <2>2
    <2>3. CASE StartUpload(w)
        BY <2>1, <2>3 DEF StartUpload, Started
    <2>4. CASE NoContainer(w)
        BY <2>2, <2>4 DEF NoContainer, displayVars
    <2>5. CASE ConsoleUpload(w)
        <3> HIDE DEF SameShape
        <3>1. ASSUME NEW s, Finished(w, s) PROVE SameShape
            BY <2>1, <3>1 DEF Finished
        <3> QED BY <2>1, <2>2, <2>5, <3>1 DEF ConsoleUpload
    <2> QED BY <2>3, <2>4, <2>5
<1>5. job' = job \/ job' = [job EXCEPT ![w] = NoJob]
    BY DEF StartUpload, NoContainer, ConsoleUpload, Probe, OpenStream, StreamChunk, StreamEnd,
           StorageFail, Raise, Done, vars, workerVars
<1>6. at' \in [Workers -> {"ask", "lock", "number", "upload"}]
    BY <1>3 DEF ShapeInv
<1>7. \A v \in Workers : at'[v] = "number" => at[v] = "number"
    BY <1>3 DEF ShapeInv
<1>8. \A v \in Workers : job'[v] # NoJob => ident[v] # None
    BY <1>1, <1>5 DEF LiveInv
<1>9. \A v \in Workers : at'[v] # "ask" => job'[v] # NoJob
    <2>1. CASE StartUpload(w)
        BY <2>1, <1>1, <1>3 DEF StartUpload, LiveInv, ShapeInv, vars, workerVars
    <2>2. CASE NoContainer(w)
        BY <2>2, <1>1, <1>5 DEF NoContainer, LiveInv, ShapeInv, numberVars
    <2>3. CASE ConsoleUpload(w)
        <3>1. at'[w] = "ask" \/ job'[w] # NoJob
            BY <2>3, <1>1 DEF ConsoleUpload, Finished, ShapeInv, StreamChunk
        <3>2. \A v \in Workers \ {w} : at'[v] = at[v] /\ job'[v] = job[v]
            BY <2>3, <1>1, <1>3, <1>5 DEF ShapeInv
        <3> QED BY <3>1, <3>2 DEF LiveInv
    <2> QED BY <2>1, <2>2, <2>3
<1>10. \A q \in Committers : open'[q] => DOMAIN rows'[q] = 1..PoolSize(q)
    BY <1>2, <1>4 DEF RowsInv
<1> QED BY <1>2, <1>4, <1>6, <1>7, <1>8, <1>9, <1>10, QuietInv DEF ShapeInv

-----------------------------------------------------------------------------
LEMMA ConsoleNextInv == ConsoleInv /\ [ConsoleNext]_allVars => ConsoleInv'
<1> SUFFICES ASSUME ConsoleInv, [ConsoleNext]_allVars PROVE ConsoleInv'
    OBVIOUS
<1>1. AnyInv'
    BY StepsImplement, NextAny DEF ConsoleInv
<1>2. ASSUME NEW p \in Committers, NEW S \in SUBSET Paths, ConsoleBegin(p, S) PROVE ConsoleInv'
    BY <1>1, <1>2, BeginInv
<1>3. ASSUME NEW p \in Committers, NEW f \in Paths, ConsolePut(p, f) PROVE ConsoleInv'
    BY <1>1, <1>3, PutInv
<1>4. ASSUME NEW p \in Committers, ConsoleEnd(p) \/ ConsoleCrash(p) PROVE ConsoleInv'
    BY <1>1, <1>4, EndInv, CrashInv
<1>5. ASSUME NEW w \in Workers, ConsoleWorker(w) PROVE ConsoleInv'
    BY <1>1, <1>5, TakeInv, AskInv, TakeLockInv, GiveInv, UploadInv DEF ConsoleWorker
<1>6. ASSUME UNCHANGED <<open, job, threadVars, numberVars, rows>> PROVE ConsoleInv'
    BY <1>1, <1>6, QuietInv DEF ConsoleInv, ShapeInv, LiveInv, RowsInv, threadVars, numberVars
<1>7. CASE /\ (\E f \in Paths, v \in Versions : Edit(f, v)) \/ Terminated
           /\ UNCHANGED <<loopVars, threadVars, numberVars, displayVars>>
    BY <1>6, <1>7 DEF Edit, Terminated, vars, commitVars, workerVars, displayVars
<1>8. CASE UNCHANGED allVars
    BY <1>6, <1>8 DEF allVars, vars, commitVars, workerVars, displayVars
<1>9. ASSUME NEW p \in Committers, Aside(p) PROVE ConsoleInv'
    BY <1>6, <1>9, AsideSteps DEF vars, commitVars, workerVars
<1> QED BY <1>2, <1>3, <1>4, <1>5, <1>7, <1>8, <1>9 DEF ConsoleNext, Aside

\* There is a thread for every number, so not more numbers than rows.
LEMMA DenseFromInv == ConsoleInv => NumbersDense
<1> SUFFICES ASSUME ConsoleInv, NEW p \in Committers
             PROVE  /\ Range(numbers[p]) = 1..Cardinality(DOMAIN numbers[p])
                    /\ open[p] => Range(numbers[p]) \subseteq DOMAIN rows[p]
    BY DEF NumbersDense
<1>1. Range(numbers[p]) = 1..Cardinality(DOMAIN numbers[p])
    BY DEF ConsoleInv, DenseInv
<1> DEFINE idents == {ident[w] : w \in Pool(p)}
<1>2. IsFiniteSet(Pool(p))
    BY ConsoleAssumption, FS_Subset DEF Pool
<1>3. IsFiniteSet(idents) /\ Cardinality(idents) <= Cardinality(Pool(p))
    <2>1. [w \in Pool(p) |-> ident[w]] \in Surjection(Pool(p), idents)
        BY DEF Surjection
    <2> QED BY <2>1, <1>2, FS_Surjection
<1>4. DOMAIN numbers[p] \subseteq idents
    BY DEF ConsoleInv, OwnedInv
<1>5. Cardinality(DOMAIN numbers[p]) <= Cardinality(idents) /\ IsFiniteSet(DOMAIN numbers[p])
    BY <1>3, <1>4, FS_Subset
<1>6. PoolSize(p) = Cardinality(Pool(p))
    BY DEF PoolSize, Pool
<1> HIDE DEF idents
<1>7. Cardinality(DOMAIN numbers[p]) \in Nat /\ Cardinality(idents) \in Nat /\ PoolSize(p) \in Nat
    BY <1>2, <1>3, <1>5, <1>6, FS_CardinalityType
<1>8. open[p] => DOMAIN rows[p] = 1..PoolSize(p)
    BY DEF ConsoleInv, RowsInv
<1> QED BY <1>1, <1>3, <1>5, <1>6, <1>7, <1>8

\* Worker numbers have no gaps and no duplicates, and each has a row of the
\* display, for any number of workers, commits and crashes, although a number is
\* looked up without the lock and idents of ended threads come again.
THEOREM NumbersStayDense == ConsoleSpec => []NumbersDense
<1>1. ConsoleSpec => []ConsoleInv
    BY ConsoleInitInv, ConsoleNextInv, PTL DEF ConsoleSpec
<1> QED BY <1>1, DenseFromInv, PTL
=============================================================================
