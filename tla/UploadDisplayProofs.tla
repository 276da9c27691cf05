------------------------ MODULE UploadDisplayProofs ------------------------
(***************************************************************************)
(* More proofs about UploadConsole: no two threads use one driver, and the *)
(* display shows what the uploads do, for any workers, idents and commits. *)
(***************************************************************************)
EXTENDS UploadConsoleProofs

THEOREM ConsoleInvariant == ConsoleSpec => []ConsoleInv
BY ConsoleInitInv, ConsoleNextInv, PTL DEF ConsoleSpec

-----------------------------------------------------------------------------
(* Drivers: each live thread of a process has an ident of its own, and the *)
(* drivers of the idents differ, since none is ever removed                *)

Distinct ==
    \A v, w \in Workers : v # w /\ PoolOf[v] = PoolOf[w] /\ ident[v] # None => ident[v] # ident[w]

DriversInv ==
    \A p \in Committers :
        /\ Main \in DOMAIN drivers[p] /\ DOMAIN drivers[p] \subseteq Idents
        /\ \A i \in DOMAIN drivers[p] : drivers[p][i] \in 1..Cardinality(DOMAIN drivers[p])
        /\ \A i, j \in DOMAIN drivers[p] : i # j => drivers[p][i] # drivers[p][j]

HeldInv ==
    /\ DOMAIN drivers = Committers
    /\ ident \in [Workers -> (Idents \ {Main}) \cup {None}]
    /\ \A w \in Workers : ident[w] # None => ident[w] \in DOMAIN drivers[PoolOf[w]]

OwnInv == Distinct /\ DriversInv /\ HeldInv

LEMMA OwnDriversFromInv == OwnInv => OwnDrivers
<1> SUFFICES ASSUME OwnInv, NEW v \in Workers, NEW w \in Workers, ident[v] # None, ident[w] # None
             PROVE  LET d == drivers[PoolOf[w]]
                    IN  /\ d[ident[w]] # d[Main]
                        /\ v # w /\ PoolOf[v] = PoolOf[w] => d[ident[v]] # d[ident[w]]
    BY DEF OwnDrivers
<1>1. /\ PoolOf[w] \in Committers /\ None \notin Idents
      /\ ident[w] \in Idents \ {Main} /\ ident[w] \in DOMAIN drivers[PoolOf[w]]
      /\ ident[v] \in DOMAIN drivers[PoolOf[v]]
    BY UploaderAssumption, ConsoleAssumption DEF OwnInv, HeldInv
<1> QED BY <1>1 DEF OwnInv, Distinct, DriversInv

\* The one driver of the main thread
LEMMA MainDriver ==
    /\ DOMAIN OnlyMain = {Main} /\ OnlyMain[Main] = 1 /\ Cardinality(DOMAIN OnlyMain) = 1
BY FS_Singleton DEF OnlyMain

LEMMA OwnInit == ConsoleInit => OwnInv
<1> SUFFICES ASSUME ConsoleInit PROVE OwnInv
    OBVIOUS
<1>1. DriversInv
    BY MainDriver, ConsoleAssumption DEF ConsoleInit, DriversInv
<1>2. HeldInv /\ Distinct
    BY DEF ConsoleInit, HeldInv, Distinct
<1> QED BY <1>1, <1>2 DEF OwnInv

\* A thread that starts takes a free ident, and a driver that is new or was that of
\* a thread that has ended.
LEMMA TakeOwn ==
    ASSUME OwnInv, NEW w \in Workers, ConsoleTake(w)
    PROVE  OwnInv'
<1> USE DEF OwnInv
<1> DEFINE p == PoolOf[w]
<1>1. p \in Committers /\ None \notin Idents /\ IsFiniteSet(Idents)
    BY UploaderAssumption, ConsoleAssumption
<1>2. PICK i \in Idents \ {Main} :
         /\ \/ ident[w] = i
            \/ ident[w] = None /\ \A v \in Workers : PoolOf[v] = p => ident[v] # i
         /\ ident' = [ident EXCEPT ![w] = i] /\ Instance(p, i)
    BY DEF ConsoleTake
<1> DEFINE d == drivers[p]
           n == Cardinality(DOMAIN d)
           e == drivers'[p]
<1>3. ident'[w] = i /\ \A v \in Workers \ {w} : ident'[v] = ident[v]
    BY <1>2 DEF HeldInv
<1>4. /\ Main \in DOMAIN d /\ DOMAIN d \subseteq Idents
      /\ \A j \in DOMAIN d : d[j] \in 1..n
      /\ \A j, k \in DOMAIN d : j # k => d[j] # d[k]
    BY <1>1 DEF DriversInv
<1>5. IsFiniteSet(DOMAIN d) /\ n \in Nat
    BY <1>1, <1>4, FS_Subset, FS_CardinalityType
<1>6. /\ DOMAIN drivers' = Committers /\ \A q \in Committers \ {p} : drivers'[q] = drivers[q]
      /\ e = IF i \in DOMAIN d THEN d ELSE With(d, i, n + 1)
    BY <1>1, <1>2 DEF Instance, HeldInv
<1>7. DOMAIN e = DOMAIN d \cup {i}
    BY <1>6 DEF With
<1>8. /\ \A j \in DOMAIN e : e[j] \in 1..Cardinality(DOMAIN e)
      /\ \A j, k \in DOMAIN e : j # k => e[j] # e[k]
    <2>1. CASE i \in DOMAIN d
        BY <2>1, <1>4, <1>6
    <2>2. CASE i \notin DOMAIN d
        <3>1. Cardinality(DOMAIN e) = n + 1
            BY <2>2, <1>5, <1>7, FS_AddElement
        <3>2. e[i] = n + 1 /\ \A j \in DOMAIN d : e[j] = d[j]
            BY <2>2, <1>6 DEF With
        <3> HIDE DEF d, n, e
        <3> QED BY <3>1, <3>2, <2>2, <1>4, <1>5, <1>7
    <2> QED BY <2>1, <2>2
<1>9. DriversInv'
    BY <1>4, <1>6, <1>7, <1>8, <1>2 DEF DriversInv
<1>10. HeldInv'
    <2>1. ident' \in [Workers -> (Idents \ {Main}) \cup {None}]
        BY <1>2 DEF HeldInv
    <2> SUFFICES ASSUME NEW v \in Workers, ident'[v] # None
                 PROVE  ident'[v] \in DOMAIN drivers'[PoolOf[v]]
        BY <1>6, <2>1 DEF HeldInv
    <2>2. PoolOf[v] \in Committers
        BY UploaderAssumption
    <2> HIDE DEF e, d
    <2>3. CASE v = w
        BY <2>3, <1>3, <1>7 DEF e
    <2>4. CASE v # w
        <3>1. ident[v] \in DOMAIN drivers[PoolOf[v]] /\ ident'[v] = ident[v]
            BY <2>4, <1>3 DEF HeldInv
        <3> QED BY <3>1, <2>2, <1>6, <1>7 DEF d, e
    <2> QED BY <2>3, <2>4
<1>11. Distinct'
    BY <1>1, <1>2, <1>3 DEF Distinct
<1> QED BY <1>9, <1>10, <1>11

LEMMA ClosedOwn ==
    ASSUME OwnInv, NEW p \in Committers, Closed(p),
           drivers' = drivers \/ drivers' = [drivers EXCEPT ![p] = OnlyMain]
    PROVE  OwnInv'
<1> USE DEF OwnInv
<1>1. \A w \in Workers : ident'[w] = IF PoolOf[w] = p THEN None ELSE ident[w]
    BY DEF Closed
<1>2. Distinct'
    BY <1>1 DEF Distinct
<1>3. DriversInv'
    BY MainDriver, ConsoleAssumption DEF DriversInv, HeldInv
<1>4. HeldInv'
    BY <1>1, UploaderAssumption DEF HeldInv, Closed
<1> QED BY <1>2, <1>3, <1>4

LEMMA OwnNext == OwnInv /\ [ConsoleNext]_allVars => OwnInv'
<1> SUFFICES ASSUME OwnInv, [ConsoleNext]_allVars PROVE OwnInv'
    OBVIOUS
<1>1. ASSUME UNCHANGED threadVars PROVE OwnInv'
    BY <1>1 DEF OwnInv, Distinct, DriversInv, HeldInv, threadVars
<1>2. ASSUME NEW p \in Committers, ConsoleEnd(p) \/ ConsoleCrash(p) PROVE OwnInv'
    BY <1>2, ClosedOwn DEF ConsoleEnd, ConsoleCrash
<1>3. ASSUME NEW w \in Workers, ConsoleWorker(w) PROVE OwnInv'
    BY <1>1, <1>3, TakeOwn DEF ConsoleWorker, AskNumber, TakeLock, GiveNumber, StartUpload, NoContainer, ConsoleUpload
<1>4. ASSUME NEW p \in Committers, Aside(p) PROVE OwnInv'
    BY <1>1, <1>4, AsideSteps
<1> QED BY <1>1, <1>2, <1>3, <1>4 DEF ConsoleNext, ConsoleBegin, ConsolePut, Aside, allVars

\* No two threads of a process that live use one driver, and none uses that of the
\* main thread, for any number of workers and idents that come again.
THEOREM DriversStayOwn == ConsoleSpec => []OwnDrivers
<1>1. ConsoleSpec => []OwnInv
    BY OwnInit, OwnNext, PTL DEF ConsoleSpec
<1> QED BY <1>1, OwnDriversFromInv, PTL

-----------------------------------------------------------------------------
(* The loop of the main thread, and how far the thread that submits is     *)

LoopInv ==
    /\ loop \in [Committers -> {"take", "check", "hook", "raised", "dropped"}]
    /\ waiting \in [Committers -> Nat]
    /\ \A p \in Committers : waiting[p] <= Len(pool[p])

LEMMA LoopInit == ConsoleInit => LoopInv
<1>1. Len(<<>>) = 0
    OBVIOUS
<1> QED BY <1>1 DEF ConsoleInit, Init, LoopInv

\* A file that is put is the last in line; workers take only what was submitted.
LEMMA LoopNext == ConsoleInv /\ LoopInv /\ [ConsoleNext]_allVars => LoopInv'
<1> SUFFICES ASSUME ConsoleInv, LoopInv, [ConsoleNext]_allVars PROVE LoopInv'
    OBVIOUS
<1>1. pool \in [Committers -> Seq(Jobs)] /\ PoolOf \in [Workers -> Committers]
    BY UploaderAssumption DEF ConsoleInv, AnyInv, TypeOK
<1>2. \A p \in Committers : Len(pool[p]) \in Nat
    BY <1>1, LenProperties
<1>3. ASSUME UNCHANGED <<loop, waiting, pool>> PROVE LoopInv'
    BY <1>3 DEF LoopInv
<1>4. ASSUME NEW p \in Committers, NEW f \in Paths, ConsolePut(p, f) PROVE LoopInv'
    <2> DEFINE j == [path |-> f, key |-> files[f].data]
    <2>1. /\ pool' = [pool EXCEPT ![p] = Append(@, j)]
          /\ loop' = [loop EXCEPT ![p] = "check"] /\ waiting' = [waiting EXCEPT ![p] = @ + 1]
        BY <1>4 DEF ConsolePut, Submit
    <2>2. /\ pool'[p] = Append(pool[p], j) /\ waiting'[p] = waiting[p] + 1
          /\ \A q \in Committers \ {p} : pool'[q] = pool[q] /\ waiting'[q] = waiting[q]
        BY <2>1, <1>1 DEF LoopInv
    <2> HIDE DEF j
    <2>3. Len(pool'[p]) = Len(pool[p]) + 1
        BY <2>2, <1>1
    <2>4. \A q \in Committers : waiting'[q] <= Len(pool'[q])
        BY <2>2, <2>3, <1>2 DEF LoopInv
    <2> QED BY <2>1, <2>4 DEF LoopInv
<1>5. ASSUME NEW p \in Committers, Aside(p) PROVE LoopInv'
    <2>1. pool' = pool
        BY <1>5, AsideSteps DEF vars, commitVars
    <2>2. CASE loop' = loop /\ waiting[p] > 0 /\ waiting' = [waiting EXCEPT ![p] = @ - 1]
        BY <2>1, <2>2, <1>2 DEF LoopInv
    <2>3. CASE waiting' = waiting /\ \E l \in {"take", "hook", "raised", "dropped"} : loop' = [loop EXCEPT ![p] = l]
        BY <2>1, <2>3 DEF LoopInv
    <2> QED BY <1>5, <2>2, <2>3 DEF Aside, ConsoleCheck, ConsoleRaise, ConsoleHashed, ConsoleSubmit
<1>6. ASSUME NEW p \in Committers, Closed(p), \A q \in Committers \ {p} : pool'[q] = pool[q],
             Len(pool'[p]) = 0
      PROVE  LoopInv'
    BY <1>6 DEF Closed, LoopInv
<1>7. ASSUME NEW p \in Committers, ConsoleEnd(p) \/ ConsoleCrash(p) PROVE LoopInv'
    <2>1. Closed(p) /\ pool'[p] = <<>> /\ \A q \in Committers \ {p} : pool'[q] = pool[q]
        BY <1>1, <1>7 DEF ConsoleEnd, End, Resting, ConsoleCrash, Crash
    <2> QED BY <2>1, <1>6
<1>8. ASSUME NEW w \in Workers, ConsoleTake(w) PROVE LoopInv'
    <2> DEFINE p == PoolOf[w]
    <2>1. /\ UNCHANGED <<loop, waiting>> /\ Len(pool[p]) > waiting[p] /\ pool[p] # <<>>
          /\ pool' = [pool EXCEPT ![p] = Tail(@)]
        BY <1>8 DEF ConsoleTake, Take, loopVars
    <2>2. p \in Committers /\ pool'[p] = Tail(pool[p]) /\ \A q \in Committers \ {p} : pool'[q] = pool[q]
        BY <2>1, <1>1
    <2> HIDE DEF p
    <2>3. Len(pool'[p]) = Len(pool[p]) - 1
        BY <2>1, <2>2, <1>1, HeadTailProperties
    <2> QED BY <2>1, <2>2, <2>3, <1>2 DEF LoopInv
<1>9. ASSUME NEW w \in Workers, ConsoleWorker(w) PROVE LoopInv'
    <2>1. CASE AskNumber(w) \/ TakeLock(w) \/ GiveNumber(w) \/ StartUpload(w)
        BY <2>1, <1>3 DEF AskNumber, TakeLock, GiveNumber, StartUpload, loopVars, vars, commitVars
    <2>2. CASE NoContainer(w) \/ ConsoleUpload(w)
        BY <2>2, <1>3 DEF NoContainer, ConsoleUpload, loopVars, commitVars,
           Probe, OpenStream, StreamChunk, StreamEnd, StorageFail
    <2> QED BY <1>8, <1>9, <2>1, <2>2 DEF ConsoleWorker
<1>10. ASSUME NEW p \in Committers, NEW S \in SUBSET Paths, ConsoleBegin(p, S) PROVE LoopInv'
    BY <1>10, <1>3 DEF ConsoleBegin, Begin, loopVars
<1>11. CASE /\ (\E f \in Paths, v \in Versions : Edit(f, v)) \/ Terminated
            /\ UNCHANGED <<loopVars, threadVars, numberVars, displayVars>>
    BY <1>11, <1>3 DEF Edit, Terminated, loopVars, vars, commitVars
<1>12. CASE UNCHANGED allVars
    BY <1>12, <1>3 DEF allVars, loopVars, vars, commitVars
<1> QED BY <1>4, <1>5, <1>7, <1>9, <1>10, <1>11, <1>12 DEF ConsoleNext, Aside

-----------------------------------------------------------------------------
(* Rows: only the worker of a number writes its row                        *)

RowType   == [path : Paths \cup {NoJob}, total : Nat, done : Nat]
TallyType == [files : Nat, uploaded : Nat, skipped : Nat]

ShowTypes ==
    /\ \A p \in Committers : \A n \in DOMAIN rows[p] : rows[p][n] \in RowType
    /\ tally \in [Committers -> TallyType] /\ unshown \in [Committers -> Nat]
    /\ lock \in [Committers -> Workers \cup {None}]

\* There are uploads in a commit only.
OpenInv ==
    /\ \A w \in Workers : job[w] # NoJob => open[PoolOf[w]]
    /\ \A p \in Committers : pool[p] # <<>> => open[p]

Shows(w) ==
    /\ Numbered(w) /\ Number(w) \in DOMAIN rows[PoolOf[w]]
    /\ RowOf(w).path = job[w].path /\ RowOf(w).done = Len(buf[w])

ShownInv ==
    \A w \in Workers :
        /\ at[w] = "upload" => Shows(w)
        /\ job[w] # NoJob /\ at[w] # "upload" => buf[w] = <<>>

DisplayInv == ConsoleInv /\ OwnInv /\ LoopInv /\ ShowTypes /\ OpenInv /\ ShownInv

\* As many numbers as idents are different numbers.
LEMMA NumbersDiffer ==
    ASSUME ConsoleInv, NEW p \in Committers,
           NEW i \in DOMAIN numbers[p], NEW j \in DOMAIN numbers[p], i # j
    PROVE  numbers[p][i] # numbers[p][j]
<1> DEFINE D == DOMAIN numbers[p]
           f == [k \in D |-> numbers[p][k]]
           T == 1..Cardinality(D)
<1>1. IsFiniteSet(D) /\ Cardinality(D) \in Nat
    BY ConsoleAssumption, FS_Subset, FS_CardinalityType DEF ConsoleInv, ShapeInv
<1>2. Cardinality(T) = Cardinality(D)
    BY <1>1, FS_Interval
<1>3. Range(numbers[p]) = T
    BY DEF ConsoleInv, DenseInv
<1>4. f \in Surjection(D, T)
    BY <1>3 DEF Surjection, Range
<1>5. f \in Injection(D, T)
    BY <1>1, <1>2, <1>4, FS_SurjSameCardinalityImpliesInj
<1> QED BY <1>5 DEF Injection, IsInjective

\* A worker has the row of its number for itself.
LEMMA RowsDiffer ==
    ASSUME ConsoleInv, OwnInv, NEW v \in Workers, NEW w \in Workers, v # w, PoolOf[v] = PoolOf[w],
           job[v] # NoJob, job[w] # NoJob, Numbered(v), Numbered(w)
    PROVE  Number(v) # Number(w)
<1>1. PoolOf[w] \in Committers
    BY UploaderAssumption
<1>2. ident[v] # ident[w]
    BY DEF ConsoleInv, LiveInv, OwnInv, Distinct
<1> QED BY <1>1, <1>2, NumbersDiffer DEF Number, Numbered

\* A worker with a number and a job has a row.
LEMMA HasRow ==
    ASSUME ConsoleInv, OpenInv, NEW w \in Workers, job[w] # NoJob, Numbered(w)
    PROVE  Number(w) \in DOMAIN rows[PoolOf[w]]
<1>1. PoolOf[w] \in Committers
    BY UploaderAssumption
<1>2. Number(w) \in Range(numbers[PoolOf[w]])
    BY DEF Range, Number, Numbered
<1> QED BY <1>1, <1>2, DenseFromInv DEF NumbersDense, OpenInv

\* A hook of a worker writes its row, and that of no other worker that uploads.
LEMMA SetsRow ==
    ASSUME DisplayInv, NEW w \in Workers, job[w] # NoJob, Numbered(w),
           NEW row \in RowType, SetRow(w, row), UNCHANGED <<ident, numbers>>
    PROVE  /\ RowOf(w)' = row /\ Number(w)' = Number(w) /\ Numbered(w)'
           /\ Number(w) \in DOMAIN rows'[PoolOf[w]]
           /\ \A p \in Committers : DOMAIN rows'[p] = DOMAIN rows[p]
           /\ \A p \in Committers : \A n \in DOMAIN rows'[p] : rows'[p][n] \in RowType
           /\ \A v \in Workers \ {w} : at[v] = "upload" =>
                  RowOf(v)' = RowOf(v) /\ Numbered(v)' /\ Number(v)' \in DOMAIN rows'[PoolOf[v]]
<1> USE DEF DisplayInv
<1> DEFINE p == PoolOf[w]
           m == Number(w)
<1>1. PoolOf \in [Workers -> Committers] /\ DOMAIN rows = Committers
    BY UploaderAssumption DEF ConsoleInv, ShapeInv
<1>2. m \in DOMAIN rows[p]
    BY HasRow
<1>3. /\ DOMAIN rows'[p] = DOMAIN rows[p] /\ rows'[p][m] = row
      /\ \A n \in DOMAIN rows[p] \ {m} : rows'[p][n] = rows[p][n]
      /\ \A q \in Committers \ {p} : rows'[q] = rows[q]
    BY <1>1, <1>2 DEF SetRow
<1>4. \A v \in Workers : Number(v)' = Number(v) /\ (Numbered(v) => Numbered(v)')
    BY DEF Number, Numbered
<1>5. RowOf(w)' = row
    BY <1>3, <1>4 DEF RowOf
<1>6. ASSUME NEW v \in Workers \ {w}, at[v] = "upload"
      PROVE  RowOf(v)' = RowOf(v) /\ Numbered(v)' /\ Number(v)' \in DOMAIN rows'[PoolOf[v]]
    <2>1. Numbered(v) /\ Number(v) \in DOMAIN rows[PoolOf[v]] /\ job[v] # NoJob
        BY <1>6 DEF ShownInv, Shows, ConsoleInv, LiveInv
    <2>2. PoolOf[v] = p => Number(v) # m
        BY <2>1, RowsDiffer
    <2> HIDE DEF m
    <2> QED BY <2>1, <2>2, <1>1, <1>3, <1>4 DEF RowOf
<1>7. \A q \in Committers : \A n \in DOMAIN rows'[q] : rows'[q][n] \in RowType
    BY <1>3 DEF ShowTypes
<1> QED BY <1>1, <1>2, <1>3, <1>4, <1>5, <1>6, <1>7

LEMMA DisplayInit == ConsoleInit => DisplayInv
<1> SUFFICES ASSUME ConsoleInit PROVE DisplayInv
    OBVIOUS
<1>1. ConsoleInv /\ OwnInv /\ LoopInv
    BY ConsoleInitInv, OwnInit, LoopInit
<1>2. ShowTypes
    <2>1. DOMAIN <<>> = {}
        OBVIOUS
    <2> QED BY <2>1, ConsoleAssumption DEF ConsoleInit, ShowTypes, NoTally, TallyType
<1>3. OpenInv /\ ShownInv
    BY DEF ConsoleInit, Init, OpenInv, ShownInv
<1> QED BY <1>1, <1>2, <1>3 DEF DisplayInv

\* A worker whose thread, number, row and upload stay as they are
LEMMA StillShows ==
    ASSUME NEW v \in Workers, Shows(v), ident'[v] = ident[v], Numbered(v)', Number(v)' = Number(v),
           DOMAIN rows[PoolOf[v]] \subseteq DOMAIN rows'[PoolOf[v]], RowOf(v)' = RowOf(v),
           job'[v] = job[v], buf'[v] = buf[v]
    PROVE  Shows(v)'
BY DEF Shows

LEMMA Typed ==
    ASSUME ConsoleInv, NEW w \in Workers, job[w] # NoJob
    PROVE  /\ job[w].path \in Paths /\ Len(files[job[w].path].data) \in Nat
           /\ buf[w] \in Seq(Chunks) /\ Len(buf[w]) \in Nat /\ PoolOf[w] \in Committers
<1>1. job[w].path \in Paths /\ files \in [Paths -> Versions] /\ buf[w] \in Seq(Chunks)
    BY DEF ConsoleInv, AnyInv, TypeOK, Jobs
<1>2. files[job[w].path].data \in Seq(Chunks)
    BY <1>1, UploaderAssumption
<1> QED BY <1>1, <1>2, LenProperties, UploaderAssumption

LEMMA BeginShows ==
    ASSUME DisplayInv, NEW p \in Committers, NEW S \in SUBSET Paths, ConsoleBegin(p, S)
    PROVE  (ShowTypes /\ OpenInv /\ ShownInv)'
<1> USE DEF DisplayInv
<1>1. /\ UNCHANGED <<ident, numbers, lock, at, tally, unshown, job, buf, pool>>
      /\ open' = [open EXCEPT ![p] = TRUE] /\ rows' = [rows EXCEPT ![p] = IdleRows(p)]
      /\ \A w \in Workers : PoolOf[w] = p => job[w] = NoJob
    BY DEF ConsoleBegin, Begin, Resting, threadVars, numberVars, workerVars
<1>2. DOMAIN rows = Committers /\ open \in [Committers -> BOOLEAN] /\ PoolOf \in [Workers -> Committers]
    BY UploaderAssumption DEF ConsoleInv, ShapeInv, AnyInv, TypeOK
<1>3. rows'[p] = IdleRows(p) /\ \A q \in Committers \ {p} : rows'[q] = rows[q]
    BY <1>1, <1>2
<1>4. ShowTypes'
    BY <1>1, <1>3 DEF ShowTypes, IdleRows, NoRow, RowType
<1>5. OpenInv'
    BY <1>1, <1>2 DEF OpenInv
<1>6. ASSUME NEW v \in Workers, at'[v] = "upload" PROVE Shows(v)'
    <2>1. Shows(v) /\ job[v] # NoJob
        BY <1>1, <1>6 DEF ShownInv, ConsoleInv, LiveInv
    <2>2. PoolOf[v] \in Committers \ {p}
        BY <2>1, <1>1, <1>2
    <2> QED BY <2>1, <2>2, <1>1, <1>3, StillShows DEF Shows, Numbered, Number, RowOf
<1>7. ShownInv'
    BY <1>1, <1>6 DEF ShownInv
<1> QED BY <1>4, <1>5, <1>7

LEMMA PutShows ==
    ASSUME DisplayInv, NEW p \in Committers, NEW f \in Paths, ConsolePut(p, f)
    PROVE  (ShowTypes /\ OpenInv /\ ShownInv)'
<1> USE DEF DisplayInv
<1>1. /\ UNCHANGED <<ident, numbers, lock, at, rows, tally, unshown, job, buf, open>>
      /\ open[p] /\ \A q \in Committers \ {p} : pool'[q] = pool[q]
    BY DEF ConsolePut, Submit, threadVars, numberVars, displayVars, workerVars, ConsoleInv, AnyInv, TypeOK
<1>2. ShowTypes'
    BY <1>1 DEF ShowTypes
<1>3. OpenInv'
    BY <1>1 DEF OpenInv
<1>4. ShownInv'
    BY <1>1 DEF ShownInv, Shows, Numbered, Number, RowOf
<1> QED BY <1>2, <1>3, <1>4

\* The end of the threads of a process
LEMMA ClosedShows ==
    ASSUME DisplayInv, NEW p \in Committers, Closed(p),
           lock' = lock \/ lock' = [lock EXCEPT ![p] = None],
           open' = [open EXCEPT ![p] = FALSE], pool'[p] = <<>>,
           \A q \in Committers \ {p} : pool'[q] = pool[q], buf' = buf,
           \A w \in Workers : PoolOf[w] = p => at'[w] = "ask" /\ job'[w] = NoJob,
           \A w \in Workers : PoolOf[w] # p => at'[w] = at[w] /\ job'[w] = job[w]
    PROVE  (ShowTypes /\ OpenInv /\ ShownInv)'
<1> USE DEF DisplayInv
<1>1. /\ DOMAIN numbers = Committers /\ DOMAIN rows = Committers
      /\ PoolOf \in [Workers -> Committers] /\ open \in [Committers -> BOOLEAN]
    BY UploaderAssumption DEF ConsoleInv, ShapeInv, AnyInv, TypeOK
<1>2. /\ rows'[p] = <<>> /\ \A q \in Committers \ {p} : numbers'[q] = numbers[q] /\ rows'[q] = rows[q]
      /\ \A w \in Workers : PoolOf[w] # p => ident'[w] = ident[w]
      /\ tally' = [tally EXCEPT ![p] = NoTally] /\ unshown' = [unshown EXCEPT ![p] = 0]
    BY <1>1 DEF Closed
<1>3. ShowTypes'
    <2>1. DOMAIN <<>> = {}
        OBVIOUS
    <2>2. tally' \in [Committers -> TallyType] /\ unshown' \in [Committers -> Nat]
        BY <1>2 DEF ShowTypes, NoTally, TallyType
    <2>3. lock' \in [Committers -> Workers \cup {None}]
        BY DEF ShowTypes
    <2> QED BY <2>1, <2>2, <2>3, <1>2 DEF ShowTypes
<1>4. OpenInv'
    BY <1>1 DEF OpenInv
<1>5. ASSUME NEW v \in Workers, at'[v] = "upload" PROVE Shows(v)'
    <2>1. PoolOf[v] \in Committers \ {p} /\ at[v] = "upload"
        BY <1>1, <1>5
    <2> QED BY <2>1, <1>2, StillShows DEF ShownInv, Shows, Numbered, Number, RowOf
<1>6. ShownInv'
    BY <1>5 DEF ShownInv
<1> QED BY <1>3, <1>4, <1>6

LEMMA EndShows ==
    ASSUME DisplayInv, NEW p \in Committers, ConsoleEnd(p)
    PROVE  (ShowTypes /\ OpenInv /\ ShownInv)'
<1>1. /\ Closed(p) /\ UNCHANGED <<lock, at, job, buf, pool>> /\ open' = [open EXCEPT ![p] = FALSE]
      /\ pool[p] = <<>> /\ \A w \in Workers : PoolOf[w] = p => job[w] = NoJob
    BY DEF ConsoleEnd, End, Resting, workerVars
<1>2. \A w \in Workers : PoolOf[w] = p => at[w] = "ask"
    BY <1>1 DEF DisplayInv, ConsoleInv, LiveInv
<1> QED BY <1>1, <1>2, ClosedShows

LEMMA CrashShows ==
    ASSUME DisplayInv, NEW p \in Committers, ConsoleCrash(p)
    PROVE  (ShowTypes /\ OpenInv /\ ShownInv)'
<1>1. Closed(p) /\ buf' = buf /\ open' = [open EXCEPT ![p] = FALSE]
      /\ lock' = [lock EXCEPT ![p] = None]
    BY DEF ConsoleCrash, Crash
<1>2. pool'[p] = <<>> /\ \A q \in Committers \ {p} : pool'[q] = pool[q]
    BY DEF ConsoleCrash, Crash, DisplayInv, ConsoleInv, AnyInv, TypeOK
<1>3. \A w \in Workers : PoolOf[w] = p => at'[w] = "ask" /\ job'[w] = NoJob
    BY DEF ConsoleCrash, Crash
<1>4. \A w \in Workers : PoolOf[w] # p => at'[w] = at[w] /\ job'[w] = job[w]
    BY DEF ConsoleCrash, Crash
<1> QED BY <1>1, <1>2, <1>3, <1>4, ClosedShows

\* A step of worker w, which leaves what the others have as it is
LEMMA WorkerShows ==
    ASSUME DisplayInv, NEW w \in Workers, open' = open,
           \A p \in Committers : pool'[p] # <<>> => pool[p] # <<>>,
           \A v \in Workers \ {w} :
               at'[v] = at[v] /\ job'[v] = job[v] /\ buf'[v] = buf[v],
           \A v \in Workers \ {w} : at[v] = "upload" =>
               RowOf(v)' = RowOf(v) /\ Numbered(v)' /\ Number(v)' \in DOMAIN rows'[PoolOf[v]],
           job'[w] # NoJob => open[PoolOf[w]],
           at'[w] = "upload" => Shows(w)',
           job'[w] # NoJob /\ at'[w] # "upload" => buf'[w] = <<>>
    PROVE  (OpenInv /\ ShownInv)'
<1> USE DEF DisplayInv
<1>1. OpenInv'
    BY DEF OpenInv
<1>2. ASSUME NEW v \in Workers, at'[v] = "upload" PROVE Shows(v)'
    <2>1. CASE v = w
        BY <2>1, <1>2
    <2>2. CASE v # w
        BY <2>2, <1>2 DEF ShownInv, Shows
    <2> QED BY <2>1, <2>2
<1>3. ASSUME NEW v \in Workers, job'[v] # NoJob, at'[v] # "upload" PROVE buf'[v] = <<>>
    BY <1>3 DEF ShownInv
<1> QED BY <1>1, <1>2, <1>3 DEF ShownInv

\* Others are not disturbed by a step that changes neither rows nor numbers.
LEMMA OthersStay ==
    ASSUME DisplayInv, NEW w \in Workers, UNCHANGED <<numbers, rows>>,
           \A v \in Workers \ {w} : ident'[v] = ident[v]
    PROVE  \A v \in Workers \ {w} : at[v] = "upload" =>
               RowOf(v)' = RowOf(v) /\ Numbered(v)' /\ Number(v)' \in DOMAIN rows'[PoolOf[v]]
BY DEF DisplayInv, ShownInv, Shows, Numbered, Number, RowOf

LEMMA TakeShows ==
    ASSUME DisplayInv, NEW w \in Workers, ConsoleTake(w)
    PROVE  (ShowTypes /\ OpenInv /\ ShownInv)'
<1> USE DEF DisplayInv
<1>1. /\ UNCHANGED <<open, numbers, lock, rows, tally, unshown>>
      /\ pool[PoolOf[w]] # <<>> /\ pool' = [pool EXCEPT ![PoolOf[w]] = Tail(@)]
      /\ job' = [job EXCEPT ![w] = Head(pool[PoolOf[w]])] /\ buf' = [buf EXCEPT ![w] = <<>>]
      /\ at' = [at EXCEPT ![w] = "ask"]
    BY DEF ConsoleTake, Take, commitVars, displayVars
<1>2. \A v \in Workers \ {w} : ident'[v] = ident[v]
    BY DEF ConsoleTake, OwnInv, HeldInv
<1>3. /\ at'[w] = "ask" /\ buf'[w] = <<>>
      /\ \A v \in Workers \ {w} : at'[v] = at[v] /\ job'[v] = job[v] /\ buf'[v] = buf[v]
    BY <1>1 DEF ConsoleInv, ShapeInv, AnyInv, TypeOK
<1>4. open[PoolOf[w]] /\ \A p \in Committers : pool'[p] # <<>> => pool[p] # <<>>
    BY <1>1, UploaderAssumption DEF OpenInv, ConsoleInv, AnyInv, TypeOK
<1>5. ShowTypes'
    BY <1>1 DEF ShowTypes
<1>6. (OpenInv /\ ShownInv)'
    BY <1>1, <1>2, <1>3, <1>4, OthersStay, WorkerShows
<1> QED BY <1>5, <1>6

LEMMA AskShows ==
    ASSUME DisplayInv, NEW w \in Workers, AskNumber(w) \/ TakeLock(w)
    PROVE  (ShowTypes /\ OpenInv /\ ShownInv)'
<1> USE DEF DisplayInv
<1>1. /\ UNCHANGED <<open, pool, job, buf, ident, numbers, rows, tally, unshown>>
      /\ at[w] # "upload" /\ at'[w] # "upload"
      /\ \A v \in Workers \ {w} : at'[v] = at[v]
      /\ lock' = lock \/ lock' = [lock EXCEPT ![PoolOf[w]] = w]
    BY DEF AskNumber, TakeLock, vars, commitVars, workerVars, threadVars, displayVars,
           ConsoleInv, ShapeInv
<1>2. lock' \in [Committers -> Workers \cup {None}]
    BY <1>1 DEF ShowTypes
<1>3. ShowTypes'
    BY <1>1, <1>2 DEF ShowTypes
<1>4. (job'[w] # NoJob => open[PoolOf[w]]) /\ (job'[w] # NoJob => buf'[w] = <<>>)
    BY <1>1 DEF OpenInv, ShownInv
<1>5. (OpenInv /\ ShownInv)'
    BY <1>1, <1>4, OthersStay, WorkerShows
<1> QED BY <1>3, <1>5

LEMMA GiveShows ==
    ASSUME DisplayInv, NEW w \in Workers, GiveNumber(w)
    PROVE  (ShowTypes /\ OpenInv /\ ShownInv)'
<1> USE DEF DisplayInv
<1>1. /\ UNCHANGED <<open, pool, job, buf, ident, rows, tally, unshown>>
      /\ at[w] # "upload" /\ at'[w] # "upload"
      /\ \A v \in Workers \ {w} : at'[v] = at[v]
      /\ lock' = [lock EXCEPT ![PoolOf[w]] = None]
    BY DEF GiveNumber, vars, commitVars, workerVars, threadVars, displayVars, ConsoleInv, ShapeInv
<1>2. lock' \in [Committers -> Workers \cup {None}]
    BY <1>1 DEF ShowTypes
<1>3. ShowTypes'
    BY <1>1, <1>2 DEF ShowTypes
<1>4. (job'[w] # NoJob => open[PoolOf[w]]) /\ (job'[w] # NoJob => buf'[w] = <<>>)
    BY <1>1 DEF OpenInv, ShownInv
<1>5. DOMAIN numbers = Committers /\ PoolOf \in [Workers -> Committers]
    BY UploaderAssumption DEF ConsoleInv, ShapeInv
<1>6. ASSUME NEW v \in Workers \ {w}, at[v] = "upload"
      PROVE  RowOf(v)' = RowOf(v) /\ Numbered(v)' /\ Number(v)' \in DOMAIN rows'[PoolOf[v]]
    <2>1. Numbered(v) /\ Number(v) \in DOMAIN rows[PoolOf[v]]
        BY <1>6 DEF ShownInv, Shows
    <2>2. CASE Numbered(w) \/ PoolOf[v] # PoolOf[w]
        <3>1. numbers'[PoolOf[v]] = numbers[PoolOf[v]]
            BY <2>2, <1>5 DEF GiveNumber
        <3> QED BY <3>1, <2>1, <1>1 DEF RowOf, Number, Numbered
    <2>3. CASE ~Numbered(w) /\ PoolOf[v] = PoolOf[w]
        <3>1. numbers'[PoolOf[v]] = With(numbers[PoolOf[v]], ident[w], counted[w] + 1)
            BY <2>3, <1>5 DEF GiveNumber
        <3>2. ident[v] # ident[w]
            BY <2>1, <2>3 DEF Numbered
        <3> QED BY <3>1, <3>2, <2>1, <1>1 DEF RowOf, Number, Numbered, With
    <2> QED BY <2>2, <2>3
<1>7. (OpenInv /\ ShownInv)'
    BY <1>1, <1>4, <1>6, WorkerShows
<1> QED BY <1>3, <1>7

LEMMA StartShows ==
    ASSUME DisplayInv, NEW w \in Workers, StartUpload(w)
    PROVE  (ShowTypes /\ OpenInv /\ ShownInv)'
<1> USE DEF DisplayInv
<1>1. /\ UNCHANGED <<open, pool, job, buf, ident, numbers, lock, tally, unshown>>
      /\ job[w] # NoJob /\ at[w] = "ask" /\ Numbered(w) /\ Started(w)
      /\ \A v \in Workers \ {w} : at'[v] = at[v]
    BY DEF StartUpload, vars, commitVars, workerVars, threadVars, ConsoleInv, ShapeInv
<1>2. PICK row \in RowType :
         SetRow(w, row) /\ row.path = job[w].path /\ row.done = 0
    <2>1. job[w].path \in Paths /\ Len(files[job[w].path].data) \in Nat
        BY <1>1, Typed
    <2> DEFINE r == [path |-> job[w].path, total |-> Len(files[job[w].path].data), done |-> 0]
    <2>2. r \in RowType /\ r.path = job[w].path /\ r.done = 0 /\ SetRow(w, r)
        BY <2>1, <1>1 DEF RowType, Started
    <2> HIDE DEF r
    <2> QED BY <2>2
<1>3. buf[w] = <<>> /\ open[PoolOf[w]] /\ Len(<<>>) = 0
    BY <1>1 DEF ShownInv, OpenInv
<1>4. /\ RowOf(w)' = row /\ Number(w)' = Number(w) /\ Numbered(w)'
      /\ Number(w) \in DOMAIN rows'[PoolOf[w]]
      /\ \A p \in Committers : \A n \in DOMAIN rows'[p] : rows'[p][n] \in RowType
      /\ \A v \in Workers \ {w} : at[v] = "upload" =>
             RowOf(v)' = RowOf(v) /\ Numbered(v)' /\ Number(v)' \in DOMAIN rows'[PoolOf[v]]
    BY <1>1, <1>2, SetsRow
<1>5. Shows(w)' /\ at'[w] = "upload"
    BY <1>1, <1>2, <1>3, <1>4 DEF Shows, StartUpload, ConsoleInv, ShapeInv
<1>6. ShowTypes'
    BY <1>1, <1>4 DEF ShowTypes
<1>7. (OpenInv /\ ShownInv)'
    BY <1>1, <1>3, <1>4, <1>5, WorkerShows
<1> QED BY <1>6, <1>7

LEMMA NoContainerShows ==
    ASSUME DisplayInv, NEW w \in Workers, NoContainer(w)
    PROVE  (ShowTypes /\ OpenInv /\ ShownInv)'
<1> USE DEF DisplayInv
<1>1. /\ UNCHANGED <<open, pool, buf, ident, numbers, lock, rows, tally, at>>
      /\ at[w] = "ask" /\ job' = [job EXCEPT ![w] = NoJob] /\ job \in [Workers -> Jobs \cup {NoJob}]
      /\ unshown' = [unshown EXCEPT ![PoolOf[w]] = @ + 1]
    BY DEF NoContainer, StorageFail, Raise, Done, commitVars, threadVars, numberVars,
           ConsoleInv, AnyInv, TypeOK
<1>2. unshown' \in [Committers -> Nat]
    <2>1. unshown \in [Committers -> Nat] /\ PoolOf[w] \in Committers
        BY UploaderAssumption DEF ShowTypes
    <2>2. unshown[PoolOf[w]] + 1 \in Nat
        BY <2>1
    <2> QED BY <1>1, <2>1, <2>2
<1>3. ShowTypes'
    BY <1>1, <1>2 DEF ShowTypes
<1>4. job'[w] = NoJob /\ \A v \in Workers \ {w} : job'[v] = job[v]
    BY <1>1
<1>5. (OpenInv /\ ShownInv)'
    BY <1>1, <1>4, OthersStay, WorkerShows
<1> QED BY <1>3, <1>5

\* What a step of an upload changes: it ends, goes on, or streams a chunk.
LEMMA UploadSteps ==
    ASSUME DisplayInv, NEW w \in Workers, ConsoleUpload(w)
    PROVE  /\ UNCHANGED <<open, pool, ident, numbers, lock, unshown, loop>>
           /\ at[w] = "upload" /\ job[w] # NoJob
           /\ \/ /\ job' = [job EXCEPT ![w] = NoJob] /\ buf' = buf
                 /\ Finished(w, TRUE) \/ Finished(w, FALSE)
              \/ UNCHANGED <<job, buf, rows, tally, at>>
              \/ /\ \E c : buf' = [buf EXCEPT ![w] = Append(@, c)]
                 /\ SetRow(w, [RowOf(w) EXCEPT !.done = RowOf(w).done + 1])
                 /\ UNCHANGED <<job, tally, at>>
<1> USE DEF DisplayInv
<1>1. /\ UNCHANGED <<ident, numbers, lock, unshown, loop>> /\ at[w] = "upload" /\ job[w] # NoJob
      /\ job \in [Workers -> Jobs \cup {NoJob}]
    BY DEF ConsoleUpload, threadVars, loopVars, ConsoleInv, LiveInv, AnyInv, TypeOK
<1>2. ASSUME job'[w] = NoJob, Probe(w) \/ OpenStream(w) \/ StreamEnd(w) \/ StorageFail(w)
      PROVE  UNCHANGED <<open, pool, buf>> /\ job' = [job EXCEPT ![w] = NoJob]
    <2>1. UNCHANGED <<open, pool, buf>>
        BY <1>2 DEF Probe, OpenStream, StreamEnd, StorageFail, commitVars
    <2>2. job' = [job EXCEPT ![w] = NoJob] \/ job' = job
        BY <1>2 DEF Probe, OpenStream, StreamEnd, StorageFail, Raise, Done
    <2> QED BY <2>1, <2>2, <1>1, <1>2
<1>3. ASSUME job'[w] # NoJob, Probe(w) \/ OpenStream(w)
      PROVE  UNCHANGED <<open, pool, buf, job>>
    <2>1. UNCHANGED <<open, pool, buf>>
        BY <1>3 DEF Probe, OpenStream, commitVars
    <2>2. job' = [job EXCEPT ![w] = NoJob] \/ job' = job
        BY <1>3 DEF Probe, OpenStream, Raise, Done
    <2> QED BY <2>1, <2>2, <1>1, <1>3
<1>4. ASSUME StreamChunk(w)
      PROVE  UNCHANGED <<open, pool, job>> /\ \E c : buf' = [buf EXCEPT ![w] = Append(@, c)]
    BY <1>4 DEF StreamChunk, commitVars
<1>5. CASE \/ Probe(w) /\ job'[w] = NoJob /\ Finished(w, TRUE)
           \/ (OpenStream(w) \/ StreamEnd(w) \/ StorageFail(w)) /\ job'[w] = NoJob /\ Finished(w, FALSE)
    BY <1>1, <1>2, <1>5
<1>6. CASE (Probe(w) \/ OpenStream(w)) /\ job'[w] # NoJob /\ UNCHANGED <<rows, tally, at>>
    BY <1>1, <1>3, <1>6
<1>7. CASE StreamChunk(w) /\ SetRow(w, [RowOf(w) EXCEPT !.done = RowOf(w).done + 1])
           /\ UNCHANGED <<tally, at>>
    BY <1>1, <1>4, <1>7
<1> QED BY <1>5, <1>6, <1>7 DEF ConsoleUpload

LEMMA UploadShows ==
    ASSUME DisplayInv, NEW w \in Workers, ConsoleUpload(w)
    PROVE  (ShowTypes /\ OpenInv /\ ShownInv)'
<1> USE DEF DisplayInv
<1>1. UNCHANGED <<open, pool, ident, numbers, lock, unshown>> /\ at[w] = "upload" /\ job[w] # NoJob
    BY UploadSteps
<1>2. Shows(w) /\ open[PoolOf[w]] /\ Numbered(w)
    BY <1>1 DEF ShownInv, OpenInv, Shows
<1>3. /\ RowOf(w) \in RowType /\ RowOf(w).path = job[w].path /\ RowOf(w).done = Len(buf[w])
      /\ job[w].path \in Paths /\ buf[w] \in Seq(Chunks) /\ Len(buf[w]) \in Nat
      /\ at \in [Workers -> {"ask", "lock", "number", "upload"}]
      /\ PoolOf[w] \in Committers /\ job \in [Workers -> Jobs \cup {NoJob}]
      /\ buf \in [Workers -> Seq(Chunks)]
    BY <1>1, <1>2, Typed DEF Shows, ShowTypes, RowOf, ConsoleInv, ShapeInv, AnyInv, TypeOK
<1>4. CASE /\ job' = [job EXCEPT ![w] = NoJob] /\ buf' = buf
           /\ Finished(w, TRUE) \/ Finished(w, FALSE)
    <2>1. PICK row \in RowType : SetRow(w, row)
        <3> DEFINE r == [RowOf(w) EXCEPT !.done = RowOf(w).total]
        <3>1. r \in RowType /\ SetRow(w, r)
            BY <1>3, <1>4 DEF RowType, Finished
        <3> HIDE DEF r
        <3> QED BY <3>1
    <2>2. /\ \A p \in Committers : \A n \in DOMAIN rows'[p] : rows'[p][n] \in RowType
          /\ \A v \in Workers \ {w} : at[v] = "upload" =>
                 RowOf(v)' = RowOf(v) /\ Numbered(v)' /\ Number(v)' \in DOMAIN rows'[PoolOf[v]]
        BY <2>1, <1>1, <1>2, SetsRow
    <2>3. tally' \in [Committers -> TallyType]
        <3> DEFINE t == tally[PoolOf[w]]
        <3>1. t.skipped + 1 \in Nat /\ t.uploaded + 1 \in Nat /\ t \in TallyType
            BY <1>3 DEF ShowTypes, TallyType
        <3>2. CASE TallyEnd(w, TRUE)
            BY <3>1, <3>2 DEF TallyEnd, ShowTypes, TallyType
        <3>3. CASE TallyEnd(w, FALSE)
            BY <3>1, <3>3 DEF TallyEnd, ShowTypes, TallyType
        <3> QED BY <3>2, <3>3, <1>4 DEF Finished
    <2>4. ShowTypes'
        BY <2>2, <2>3, <1>1 DEF ShowTypes
    <2>5. at' = [at EXCEPT ![w] = "ask"]
        BY <1>4 DEF Finished
    <2>6. /\ at'[w] = "ask" /\ job'[w] = NoJob
          /\ \A v \in Workers \ {w} : at'[v] = at[v] /\ job'[v] = job[v] /\ buf'[v] = buf[v]
        BY <2>5, <1>3, <1>4
    <2>7. (OpenInv /\ ShownInv)'
        BY <2>2, <2>6, <1>1, WorkerShows
    <2> QED BY <2>4, <2>7
<1>5. CASE UNCHANGED <<job, buf, rows, tally, at>>
    <2>1. ShowTypes'
        BY <1>1, <1>5 DEF ShowTypes
    <2>2. Shows(w)'
        BY <1>1, <1>2, <1>5, StillShows DEF Shows, Numbered, Number, RowOf
    <2>3. (OpenInv /\ ShownInv)'
        BY <2>2, <1>1, <1>2, <1>5, OthersStay, WorkerShows
    <2> QED BY <2>1, <2>3
<1>6. CASE /\ \E c : buf' = [buf EXCEPT ![w] = Append(@, c)]
           /\ SetRow(w, [RowOf(w) EXCEPT !.done = RowOf(w).done + 1])
           /\ UNCHANGED <<job, tally, at>>
    <2>1. PICK row \in RowType : SetRow(w, row) /\ row.path = job[w].path /\ row.done = Len(buf[w]) + 1
        <3> DEFINE r == [RowOf(w) EXCEPT !.done = RowOf(w).done + 1]
        <3>1. PICK o, n : o = RowOf(w) /\ n = Len(buf[w])
            OBVIOUS
        <3>2. o \in RowType /\ o.path = job[w].path /\ o.done = n /\ n \in Nat
            BY <1>3, <3>1
        <3>3. [o EXCEPT !.done = o.done + 1] \in RowType
            BY <3>2 DEF RowType
        <3>4. /\ [o EXCEPT !.done = o.done + 1].path = job[w].path
              /\ [o EXCEPT !.done = o.done + 1].done = n + 1
            BY <3>2 DEF RowType
        <3>5. r \in RowType /\ r.path = job[w].path /\ r.done = Len(buf[w]) + 1
            BY <3>1, <3>3, <3>4
        <3>6. SetRow(w, r)
            BY <1>6
        <3> HIDE DEF r
        <3> QED BY <3>5, <3>6
    <2>2. /\ RowOf(w)' = row /\ Number(w)' = Number(w) /\ Numbered(w)'
          /\ Number(w) \in DOMAIN rows'[PoolOf[w]]
          /\ \A p \in Committers : \A n \in DOMAIN rows'[p] : rows'[p][n] \in RowType
          /\ \A v \in Workers \ {w} : at[v] = "upload" =>
                 RowOf(v)' = RowOf(v) /\ Numbered(v)' /\ Number(v)' \in DOMAIN rows'[PoolOf[v]]
        BY <2>1, <1>1, <1>2, SetsRow
    <2>3. Len(buf'[w]) = Len(buf[w]) + 1 /\ \A v \in Workers \ {w} : buf'[v] = buf[v]
        <3>1. PICK c : buf' = [buf EXCEPT ![w] = Append(@, c)]
            BY <1>6
        <3>2. buf'[w] = Append(buf[w], c)
            BY <3>1, <1>3
        <3> QED BY <3>1, <3>2, <1>3
    <2>4. Shows(w)' /\ at'[w] = "upload"
        BY <2>1, <2>2, <2>3, <1>1, <1>6 DEF Shows
    <2>5. ShowTypes'
        BY <2>2, <1>1, <1>6 DEF ShowTypes
    <2>6. \A v \in Workers \ {w} : at'[v] = at[v] /\ job'[v] = job[v] /\ buf'[v] = buf[v]
        BY <2>3, <1>6
    <2>7. (OpenInv /\ ShownInv)'
        BY <2>2, <2>4, <2>6, <1>1, <1>2, WorkerShows
    <2> QED BY <2>5, <2>7
<1> QED BY <1>4, <1>5, <1>6, UploadSteps

LEMMA QuietShows ==
    ASSUME DisplayInv,
           UNCHANGED <<open, pool, job, buf, ident, numbers, lock, rows, tally, unshown, at>>
    PROVE  (ShowTypes /\ OpenInv /\ ShownInv)'
BY DEF DisplayInv, ShowTypes, OpenInv, ShownInv, Shows, Numbered, Number, RowOf

LEMMA AsideShows ==
    ASSUME DisplayInv, NEW p \in Committers, Aside(p)
    PROVE  (ShowTypes /\ OpenInv /\ ShownInv)'
<1>1. UNCHANGED <<open, pool, job, buf, ident, numbers, lock, rows, unshown, at>>
    BY AsideSteps DEF vars, commitVars, workerVars, threadVars, numberVars
<1>2. tally' = tally \/ tally' = [tally EXCEPT ![p].files = @ + 1]
    BY DEF Aside, ConsoleCheck, ConsoleRaise, ConsoleHashed, ConsoleSubmit, displayVars
<1>3. tally' \in [Committers -> TallyType]
    BY <1>2 DEF DisplayInv, ShowTypes, TallyType
<1>4. ShowTypes'
    BY <1>1, <1>3 DEF DisplayInv, ShowTypes
<1> QED BY <1>1, <1>4 DEF DisplayInv, OpenInv, ShownInv, Shows, Numbered, Number, RowOf

LEMMA DisplayNext == DisplayInv /\ [ConsoleNext]_allVars => DisplayInv'
<1> SUFFICES ASSUME DisplayInv, [ConsoleNext]_allVars PROVE DisplayInv'
    OBVIOUS
<1>1. (ConsoleInv /\ OwnInv /\ LoopInv)'
    BY ConsoleNextInv, OwnNext, LoopNext DEF DisplayInv
<1>2. (ShowTypes /\ OpenInv /\ ShownInv)'
    <2>1. ASSUME NEW p \in Committers, NEW S \in SUBSET Paths, ConsoleBegin(p, S)
          PROVE  (ShowTypes /\ OpenInv /\ ShownInv)'
        BY <2>1, BeginShows
    <2>2. ASSUME NEW p \in Committers, NEW f \in Paths, ConsolePut(p, f)
          PROVE  (ShowTypes /\ OpenInv /\ ShownInv)'
        BY <2>2, PutShows
    <2>3. ASSUME NEW p \in Committers, Aside(p)
          PROVE  (ShowTypes /\ OpenInv /\ ShownInv)'
        BY <2>3, AsideShows
    <2>4. ASSUME NEW p \in Committers, ConsoleEnd(p) \/ ConsoleCrash(p)
          PROVE  (ShowTypes /\ OpenInv /\ ShownInv)'
        BY <2>4, EndShows, CrashShows
    <2>5. ASSUME NEW w \in Workers, ConsoleWorker(w)
          PROVE  (ShowTypes /\ OpenInv /\ ShownInv)'
        BY <2>5, TakeShows, AskShows, GiveShows, StartShows, NoContainerShows, UploadShows
           DEF ConsoleWorker
    <2>6. CASE /\ (\E f \in Paths, v \in Versions : Edit(f, v)) \/ Terminated
               /\ UNCHANGED <<loopVars, threadVars, numberVars, displayVars>>
        BY <2>6, QuietShows
           DEF Edit, Terminated, vars, commitVars, workerVars, threadVars, numberVars, displayVars
    <2>7. CASE UNCHANGED allVars
        BY <2>7, QuietShows
           DEF allVars, vars, commitVars, workerVars, threadVars, numberVars, displayVars
    <2> QED BY <2>1, <2>2, <2>3, <2>4, <2>5, <2>6, <2>7 DEF ConsoleNext, Aside
<1> QED BY <1>1, <1>2 DEF DisplayInv

LEMMA DisplayInvariant == ConsoleSpec => []DisplayInv
BY DisplayInit, DisplayNext, PTL DEF ConsoleSpec

\* While a worker uploads, the row of its number shows its file and how much of it
\* has been read, whatever workers start, finish or fail beside it.
THEOREM RowsShowUploads == ConsoleSpec => []RowShowsUpload
<1>1. DisplayInv => RowShowsUpload
    BY DEF DisplayInv, ShownInv, Shows, RowShowsUpload
<1> QED BY <1>1, DisplayInvariant, PTL

\* The variables of threads, numbers and display keep their types, however many
\* workers, idents and commits there are.
THEOREM ConsoleTypesCorrect == ConsoleSpec => []ConsoleTypeOK
<1>1. ASSUME DisplayInv PROVE ConsoleTypeOK
    <2> USE <1>1 DEF DisplayInv
    <2>1. /\ ident \in [Workers -> (Idents \ {Main}) \cup {None}]
          /\ at \in [Workers -> {"ask", "lock", "number", "upload"}] /\ counted \in [Workers -> Nat]
        BY DEF OwnInv, HeldInv, ConsoleInv, ShapeInv
    <2>2. ASSUME NEW p \in Committers
          PROVE  /\ DOMAIN numbers[p] \subseteq Idents \ {Main}
                 /\ Main \in DOMAIN drivers[p] /\ DOMAIN drivers[p] \subseteq Idents
        <3>1. ASSUME NEW i \in DOMAIN numbers[p] PROVE i \in Idents \ {Main}
            <4>1. PICK w \in Pool(p) : ident[w] = i
                BY DEF ConsoleInv, OwnedInv
            <4>2. w \in Workers /\ i \in Idents
                BY <4>1 DEF Pool, ConsoleInv, ShapeInv
            <4> QED BY <4>1, <4>2, <2>1, ConsoleAssumption
        <3> QED BY <3>1 DEF OwnInv, DriversInv
    <2>3. ASSUME NEW p \in Committers
          PROVE  /\ lock[p] \in Workers \cup {None}
                 /\ \A r \in Range(rows[p]) :
                        r.path \in Paths \cup {NoJob} /\ r.total \in Nat /\ r.done \in Nat
                 /\ \A n \in {tally[p].files, tally[p].uploaded, tally[p].skipped} : n \in Nat
        BY DEF ShowTypes, Range, RowType, TallyType
    <2>4. unshown \in [Committers -> Nat] /\ LoopInv
        BY DEF ShowTypes
    <2> QED BY <2>1, <2>2, <2>3, <2>4 DEF ConsoleTypeOK, LoopInv
<1> QED BY <1>1, DisplayInvariant, PTL

-----------------------------------------------------------------------------
(* Counters: a file that was put waits, is being uploaded, or has ended    *)

Busy(p) == {w \in Workers : PoolOf[w] = p /\ job[w] # NoJob}

Accounts(p) ==
    /\ open[p] => tally[p].uploaded + tally[p].skipped + unshown[p] + Len(pool[p]) + Cardinality(Busy(p))
                      = tally[p].files + Unannounced(p)
    /\ ~open[p] => tally[p] = NoTally /\ unshown[p] = 0 /\ loop[p] = "take"

CountInv == \A p \in Committers : Accounts(p)

LEMMA Counts ==
    ASSUME DisplayInv, NEW p \in Committers
    PROVE  /\ tally[p] \in TallyType /\ tally[p].files \in Nat
           /\ tally[p].uploaded \in Nat /\ tally[p].skipped \in Nat
           /\ unshown[p] \in Nat /\ Unannounced(p) \in Nat
           /\ pool[p] \in Seq(Jobs) /\ Len(pool[p]) \in Nat
           /\ IsFiniteSet(Busy(p)) /\ Cardinality(Busy(p)) \in Nat
<1>1. tally[p] \in TallyType /\ pool[p] \in Seq(Jobs) /\ unshown[p] \in Nat
    BY DEF DisplayInv, ShowTypes, ConsoleInv, AnyInv, TypeOK
<1>2. IsFiniteSet(Busy(p))
    BY ConsoleAssumption, FS_Subset DEF Busy
<1>3. Unannounced(p) \in Nat
    BY DEF Unannounced
<1> QED BY <1>1, <1>2, <1>3, FS_CardinalityType, LenProperties DEF TallyType

LEMMA StillAccounts ==
    ASSUME NEW p \in Committers, Accounts(p), open'[p] = open[p],
           tally'[p] = tally[p], unshown'[p] = unshown[p], loop'[p] = loop[p], pool'[p] = pool[p],
           \A w \in Workers : PoolOf[w] = p => (job'[w] = NoJob <=> job[w] = NoJob)
    PROVE  Accounts(p)'
<1>1. Busy(p)' = Busy(p) /\ Unannounced(p)' = Unannounced(p)
    BY DEF Busy, Unannounced
<1> QED BY <1>1 DEF Accounts

LEMMA CountInit == ConsoleInit => CountInv
BY DEF ConsoleInit, Init, CountInv, Accounts

LEMMA BeginAccounts ==
    ASSUME DisplayInv, CountInv, NEW p \in Committers, NEW S \in SUBSET Paths, ConsoleBegin(p, S)
    PROVE  CountInv'
<1>1. /\ ~open[p] /\ Resting(p) /\ UNCHANGED <<pool, job, tally, unshown, loop>>
      /\ \A q \in Committers \ {p} : open'[q] = open[q]
      /\ open'[p] = TRUE
    BY DEF ConsoleBegin, Begin, loopVars, workerVars, DisplayInv, ConsoleInv, AnyInv, TypeOK
<1>2. /\ Busy(p)' = {} /\ pool'[p] = <<>> /\ tally'[p] = NoTally /\ unshown'[p] = 0
      /\ Unannounced(p)' = 0
    BY <1>1 DEF Busy, Resting, CountInv, Accounts, Unannounced
<1>3. Cardinality({}) = 0 /\ Len(<<>>) = 0
    BY FS_EmptySet
<1>4. Accounts(p)'
    BY <1>1, <1>2, <1>3 DEF Accounts, NoTally
<1>5. ASSUME NEW q \in Committers \ {p} PROVE Accounts(q)'
    BY <1>1, StillAccounts DEF CountInv
<1> QED BY <1>4, <1>5 DEF CountInv

\* A file that is put waits, and is not announced yet.
LEMMA PutAccounts ==
    ASSUME DisplayInv, CountInv, NEW p \in Committers, NEW f \in Paths, ConsolePut(p, f)
    PROVE  CountInv'
<1> DEFINE j == [path |-> f, key |-> files[f].data]
<1>1. /\ open[p] /\ UNCHANGED <<open, job, tally, unshown>> /\ loop[p] = "take"
      /\ pool' = [pool EXCEPT ![p] = Append(@, j)] /\ loop' = [loop EXCEPT ![p] = "check"]
    BY DEF ConsolePut, Submit, workerVars, displayVars
<1>2. DOMAIN loop = Committers /\ DOMAIN pool = Committers
    BY DEF DisplayInv, LoopInv, ConsoleInv, AnyInv, TypeOK
<1>3. /\ \A q \in Committers \ {p} : loop'[q] = loop[q] /\ pool'[q] = pool[q]
      /\ loop'[p] = "check" /\ pool'[p] = Append(pool[p], j)
    BY <1>1, <1>2
<1>4. Len(pool'[p]) = Len(pool[p]) + 1
    BY <1>3, Counts
<1>5. Unannounced(p) = 0 /\ Unannounced(p)' = 1
    BY <1>1, <1>3 DEF Unannounced
<1>6. Busy(p)' = Busy(p)
    BY <1>1 DEF Busy
<1>7. Accounts(p)'
    <2> DEFINE a == tally[p].uploaded
               b == tally[p].skipped
               e == unshown[p]
               l == Len(pool[p])
               m == Len(pool'[p])
               c == Cardinality(Busy(p))
               g == tally[p].files
    <2>1. /\ a \in Nat /\ b \in Nat /\ e \in Nat /\ c \in Nat /\ l \in Nat /\ g \in Nat
          /\ m = l + 1 /\ a + b + e + l + c = g + 0
        BY <1>1, <1>4, <1>5, Counts DEF CountInv, Accounts
    <2>2. a + b + e + m + c = g + 1
        <3> HIDE DEF a, b, c, e, g, l, m
        <3> QED BY <2>1
    <2> QED BY <2>2, <1>1, <1>5, <1>6 DEF Accounts
<1>8. ASSUME NEW q \in Committers \ {p} PROVE Accounts(q)'
    BY <1>1, <1>3, StillAccounts DEF CountInv
<1> QED BY <1>7, <1>8 DEF CountInv

\* It is announced after the check of exceptions, if that lets it.
LEMMA AsideAccounts ==
    ASSUME DisplayInv, CountInv, NEW p \in Committers, Aside(p)
    PROVE  CountInv'
<1>1. UNCHANGED <<open, job, pool, unshown>>
    BY AsideSteps DEF vars, commitVars, workerVars
<1>2. /\ loop \in [Committers -> {"take", "check", "hook", "raised", "dropped"}]
      /\ tally \in [Committers -> TallyType] /\ Accounts(p)
    BY DEF DisplayInv, LoopInv, ShowTypes, CountInv
<1>3. \A q \in Committers \ {p} : loop'[q] = loop[q] /\ tally'[q] = tally[q]
    BY <1>2 DEF Aside, ConsoleCheck, ConsoleRaise, ConsoleHashed, ConsoleSubmit, displayVars
<1>4. ASSUME NEW q \in Committers \ {p} PROVE Accounts(q)'
    BY <1>1, <1>3, StillAccounts DEF CountInv
<1>5. Busy(p)' = Busy(p)
    BY <1>1 DEF Busy
<1>6. ASSUME tally' = tally, open[p], Unannounced(p)' = Unannounced(p) PROVE Accounts(p)'
    <2>1. tally[p].uploaded + tally[p].skipped + unshown[p] + Len(pool[p]) + Cardinality(Busy(p))
             = tally[p].files + Unannounced(p)
        BY <1>2, <1>6 DEF Accounts
    <2>2. open'[p] /\ tally'[p] = tally[p] /\ unshown'[p] = unshown[p] /\ pool'[p] = pool[p]
        BY <1>1, <1>6
    <2> QED BY <2>1, <2>2, <1>5, <1>6 DEF Accounts
<1>7. ASSUME UNCHANGED <<loop, tally>> PROVE Accounts(p)'
    <2>1. /\ open'[p] = open[p] /\ tally'[p] = tally[p] /\ unshown'[p] = unshown[p]
          /\ loop'[p] = loop[p] /\ pool'[p] = pool[p] /\ \A w \in Workers : job'[w] = job[w]
        BY <1>1, <1>7
    <2> QED BY <2>1, <1>2, StillAccounts
<1>8. ASSUME ConsoleSubmit(p) PROVE Accounts(p)'
    BY <1>7, <1>8 DEF ConsoleSubmit, displayVars
<1>9. ASSUME ConsoleCheck(p) \/ ConsoleRaise(p) PROVE Accounts(p)'
    <2>1. tally' = tally /\ open[p]
        BY <1>2, <1>9 DEF ConsoleCheck, ConsoleRaise, displayVars, Accounts
    <2>2. Unannounced(p)' = Unannounced(p)
        BY <1>2, <1>9 DEF ConsoleCheck, ConsoleRaise, Unannounced
    <2> QED BY <2>1, <2>2, <1>6
<1>10. ASSUME ConsoleHashed(p) PROVE Accounts(p)'
    <2>1. /\ open[p] /\ Unannounced(p) = 1 /\ Unannounced(p)' = 0
          /\ tally' = [tally EXCEPT ![p].files = @ + 1]
        BY <1>2, <1>10 DEF ConsoleHashed, Unannounced, Accounts
    <2>2. /\ tally'[p].files = tally[p].files + 1
          /\ tally'[p].uploaded = tally[p].uploaded /\ tally'[p].skipped = tally[p].skipped
        BY <2>1, <1>2 DEF TallyType
    <2>3. /\ tally[p].uploaded + tally[p].skipped + unshown[p] + Len(pool[p]) + Cardinality(Busy(p))
                 = tally[p].files + 1
          /\ tally[p].files \in Nat
        BY <2>1, <1>2, Counts DEF Accounts
    <2>4. tally[p].files + 1 = tally'[p].files + 0
        BY <2>2, <2>3
    <2>5. open'[p] /\ unshown'[p] = unshown[p] /\ pool'[p] = pool[p]
        BY <2>1, <1>1
    <2> QED BY <2>1, <2>2, <2>3, <2>4, <2>5, <1>5 DEF Accounts
<1>11. Accounts(p)'
    BY <1>8, <1>9, <1>10 DEF Aside
<1> QED BY <1>4, <1>11 DEF CountInv

LEMMA ClosedAccounts ==
    ASSUME DisplayInv, CountInv, NEW p \in Committers, ConsoleEnd(p) \/ ConsoleCrash(p)
    PROVE  CountInv'
<1>1. /\ Closed(p) /\ open' = [open EXCEPT ![p] = FALSE]
      /\ \A w \in Workers : PoolOf[w] # p => job'[w] = job[w]
      /\ \A q \in Committers \ {p} : pool'[q] = pool[q]
    BY DEF ConsoleEnd, ConsoleCrash, End, Crash, workerVars, DisplayInv, ConsoleInv, AnyInv, TypeOK
<1>2. /\ tally'[p] = NoTally /\ unshown'[p] = 0 /\ loop'[p] = "take" /\ ~open'[p]
      /\ \A q \in Committers \ {p} :
             open'[q] = open[q] /\ tally'[q] = tally[q] /\ unshown'[q] = unshown[q] /\ loop'[q] = loop[q]
    BY <1>1 DEF Closed, DisplayInv, LoopInv, ShowTypes, ConsoleInv, AnyInv, TypeOK
<1>3. Accounts(p)'
    BY <1>2 DEF Accounts
<1>4. ASSUME NEW q \in Committers \ {p} PROVE Accounts(q)'
    BY <1>1, <1>2, StillAccounts DEF CountInv
<1> QED BY <1>3, <1>4 DEF CountInv

LEMMA TakeAccounts ==
    ASSUME DisplayInv, CountInv, NEW w \in Workers, ConsoleTake(w)
    PROVE  CountInv'
<1> DEFINE p == PoolOf[w]
           t == Tail(pool[p])
<1>0. p \in Committers
    BY UploaderAssumption
<1>1. /\ job[w] = NoJob /\ pool[p] # <<>> /\ UNCHANGED <<open, tally, unshown, loop>>
      /\ job' = [job EXCEPT ![w] = Head(pool[p])] /\ pool' = [pool EXCEPT ![p] = t]
    BY DEF ConsoleTake, Take, commitVars, displayVars, loopVars
<1>2. /\ DOMAIN pool = Committers /\ job \in [Workers -> Jobs \cup {NoJob}] /\ NoJob \notin Jobs
    BY NoJobAssumption, UploaderAssumption DEF DisplayInv, ConsoleInv, AnyInv, TypeOK, Jobs
<1>3. Head(pool[p]) \in Jobs /\ Len(t) = Len(pool[p]) - 1
    BY <1>0, <1>1, Counts, HeadTailProperties
<1>4. /\ job'[w] # NoJob /\ \A v \in Workers \ {w} : job'[v] = job[v]
      /\ pool'[p] = t /\ \A q \in Committers \ {p} : pool'[q] = pool[q]
    BY <1>0, <1>1, <1>2, <1>3
<1>5. Busy(p)' = Busy(p) \cup {w} /\ w \notin Busy(p) /\ Unannounced(p)' = Unannounced(p)
    BY <1>1, <1>4 DEF Busy, Unannounced
<1>6. Cardinality(Busy(p)') = Cardinality(Busy(p)) + 1
    BY <1>0, <1>5, Counts, FS_AddElement
<1>7. Accounts(p)'
    <2> HIDE DEF t, p
    <2>1. Len(pool'[p]) = Len(pool[p]) - 1
        BY <1>3, <1>4
    <2> DEFINE a == tally[p].uploaded
               b == tally[p].skipped
               e == unshown[p]
               l == Len(pool[p])
               m == Len(pool'[p])
               c == Cardinality(Busy(p))
               d == Cardinality(Busy(p)')
               g == tally[p].files + Unannounced(p)
    <2>2. Accounts(p)
        BY <1>0 DEF CountInv
    <2>3. /\ a \in Nat /\ b \in Nat /\ e \in Nat /\ c \in Nat /\ l \in Nat
          /\ m = l - 1 /\ d = c + 1 /\ (open[p] => a + b + e + l + c = g)
        BY <2>1, <2>2, <1>0, <1>6, Counts DEF Accounts
    <2>4. open[p] => a + b + e + m + d = g
        <3> HIDE DEF a, b, c, d, e, g, l, m
        <3> QED BY <2>3
    <2> QED BY <2>2, <2>4, <1>1, <1>5 DEF Accounts
<1>8. ASSUME NEW q \in Committers \ {p} PROVE Accounts(q)'
    BY <1>1, <1>4, StillAccounts DEF CountInv
<1> QED BY <1>7, <1>8 DEF CountInv

\* An upload that ends is counted, or is one of those that were not shown.
LEMMA EndsCounted ==
    ASSUME DisplayInv, CountInv, NEW w \in Workers, job[w] # NoJob,
           UNCHANGED <<open, pool, loop>>, job' = [job EXCEPT ![w] = NoJob],
           NEW p, p = PoolOf[w],
           \A q \in Committers \ {p} : tally'[q] = tally[q] /\ unshown'[q] = unshown[q],
           tally'[p].files = tally[p].files,
           tally'[p].uploaded \in Nat, tally'[p].skipped \in Nat, unshown'[p] \in Nat,
           tally'[p].uploaded + tally'[p].skipped + unshown'[p]
               = tally[p].uploaded + tally[p].skipped + unshown[p] + 1
    PROVE  CountInv'
<1>1. job \in [Workers -> Jobs \cup {NoJob}] /\ p \in Committers /\ open[p]
    BY UploaderAssumption DEF DisplayInv, OpenInv, ConsoleInv, AnyInv, TypeOK
<1>2. Busy(p)' = Busy(p) \ {w} /\ w \in Busy(p) /\ Unannounced(p)' = Unannounced(p)
    BY <1>1 DEF Busy, Unannounced
<1>3. Cardinality(Busy(p)') = Cardinality(Busy(p)) - 1
    BY <1>1, <1>2, Counts, FS_RemoveElement
<1>4. Accounts(p)'
    <2> DEFINE a == tally[p].uploaded + tally[p].skipped + unshown[p]
               u == tally'[p].uploaded + tally'[p].skipped + unshown'[p]
               l == Len(pool[p])
               c == Cardinality(Busy(p))
               d == Cardinality(Busy(p)')
               g == tally[p].files + Unannounced(p)
    <2>1. /\ tally[p].uploaded \in Nat /\ tally[p].skipped \in Nat /\ unshown[p] \in Nat
          /\ c \in Nat /\ l \in Nat
        BY <1>1, Counts
    <2>2. a \in Nat /\ u = a + 1 /\ d = c - 1
        <3>0. \A x, y, z \in Nat : x + y + z \in Nat
            OBVIOUS
        <3>1. a \in Nat
            BY <2>1, <3>0, Zenon
        <3>2. u = a + 1
            OBVIOUS
        <3>3. d = c - 1
            BY <1>3
        <3> QED BY <3>1, <3>2, <3>3
    <2>3. a + l + c = g
        BY <1>1 DEF CountInv, Accounts
    <2>4. u + l + d = g
        <3> HIDE DEF a, c, d, g, l, u
        <3> QED BY <2>1, <2>2, <2>3
    <2> QED BY <2>4, <1>1, <1>2 DEF Accounts
<1>5. ASSUME NEW q \in Committers \ {p} PROVE Accounts(q)'
    BY <1>1, StillAccounts DEF CountInv
<1> QED BY <1>4, <1>5 DEF CountInv

LEMMA FailAccounts ==
    ASSUME DisplayInv, CountInv, NEW w \in Workers, NoContainer(w)
    PROVE  CountInv'
<1>1. /\ UNCHANGED <<open, pool, tally, loop>> /\ job[w] # NoJob
      /\ job' = [job EXCEPT ![w] = NoJob] /\ PoolOf[w] \in Committers
      /\ unshown' = [unshown EXCEPT ![PoolOf[w]] = @ + 1]
    BY UploaderAssumption DEF NoContainer, StorageFail, Raise, Done, commitVars, loopVars
<1>2. PICK p : p = PoolOf[w]
    OBVIOUS
<1>3. unshown \in [Committers -> Nat]
    BY DEF DisplayInv, ShowTypes
<1>4. unshown'[p] = unshown[p] + 1 /\ \A q \in Committers \ {p} : unshown'[q] = unshown[q]
    BY <1>1, <1>2, <1>3
<1>5. /\ tally[p].uploaded \in Nat /\ tally[p].skipped \in Nat /\ unshown[p] \in Nat
    BY <1>1, <1>2, Counts
<1>6. tally'[p].uploaded + tally'[p].skipped + unshown'[p]
         = tally[p].uploaded + tally[p].skipped + unshown[p] + 1
    BY <1>1, <1>4, <1>5
<1>7. unshown'[p] \in Nat
    BY <1>4, <1>5
<1> QED BY <1>1, <1>2, <1>4, <1>5, <1>6, <1>7, EndsCounted

LEMMA UploadAccounts ==
    ASSUME DisplayInv, CountInv, NEW w \in Workers, ConsoleUpload(w)
    PROVE  CountInv'
<1>0. PICK p : p = PoolOf[w]
    OBVIOUS
<1>1. UNCHANGED <<open, pool, unshown, loop>> /\ job[w] # NoJob
    BY UploadSteps
<1>2. p \in Committers /\ tally \in [Committers -> TallyType]
    BY <1>0, UploaderAssumption DEF DisplayInv, ShowTypes
<1>3. CASE job' = [job EXCEPT ![w] = NoJob] /\ (Finished(w, TRUE) \/ Finished(w, FALSE))
    <2>1. /\ tally[p] \in TallyType /\ tally[p].uploaded \in Nat /\ tally[p].skipped \in Nat
          /\ unshown[p] \in Nat
        BY <1>2, Counts
    <2>2. /\ tally'[p].files = tally[p].files
          /\ \/ tally'[p].uploaded = tally[p].uploaded + 1 /\ tally'[p].skipped = tally[p].skipped
             \/ tally'[p].uploaded = tally[p].uploaded /\ tally'[p].skipped = tally[p].skipped + 1
          /\ \A q \in Committers \ {p} : tally'[q] = tally[q]
        <3>1. CASE TallyEnd(w, TRUE)
            BY <3>1, <1>0, <1>2, <2>1 DEF TallyEnd, TallyType
        <3>2. CASE TallyEnd(w, FALSE)
            BY <3>2, <1>0, <1>2, <2>1 DEF TallyEnd, TallyType
        <3> QED BY <3>1, <3>2, <1>3 DEF Finished
    <2>3. /\ tally'[p].uploaded \in Nat /\ tally'[p].skipped \in Nat /\ unshown'[p] \in Nat
          /\ tally'[p].uploaded + tally'[p].skipped + unshown'[p]
                = tally[p].uploaded + tally[p].skipped + unshown[p] + 1
        BY <1>1, <2>1, <2>2
    <2> QED BY <1>0, <1>1, <1>3, <2>2, <2>3, EndsCounted
<1>4. CASE UNCHANGED <<job, tally>>
    BY <1>1, <1>4, StillAccounts DEF CountInv
<1> QED BY <1>3, <1>4, UploadSteps

LEMMA CountNext == DisplayInv /\ CountInv /\ [ConsoleNext]_allVars => CountInv'
<1> SUFFICES ASSUME DisplayInv, CountInv, [ConsoleNext]_allVars PROVE CountInv'
    OBVIOUS
<1>1. ASSUME UNCHANGED <<open, tally, unshown, loop, pool, job>> PROVE CountInv'
    BY <1>1, StillAccounts DEF CountInv
<1>2. ASSUME NEW w \in Workers, AskNumber(w) \/ TakeLock(w) \/ GiveNumber(w) \/ StartUpload(w)
      PROVE  CountInv'
    BY <1>1, <1>2 DEF AskNumber, TakeLock, GiveNumber, StartUpload, vars, commitVars, workerVars,
       displayVars, loopVars
<1>3. ASSUME NEW w \in Workers, ConsoleWorker(w) PROVE CountInv'
    BY <1>2, <1>3, TakeAccounts, FailAccounts, UploadAccounts DEF ConsoleWorker
<1>4. CASE /\ (\E f \in Paths, v \in Versions : Edit(f, v)) \/ Terminated
           /\ UNCHANGED <<loopVars, threadVars, numberVars, displayVars>>
    BY <1>1, <1>4 DEF Edit, Terminated, vars, commitVars, workerVars, displayVars, loopVars
<1>5. CASE UNCHANGED allVars
    BY <1>1, <1>5 DEF allVars, vars, commitVars, workerVars, displayVars, loopVars
<1>6. ASSUME NEW p \in Committers,
             \/ \E S \in SUBSET Paths : ConsoleBegin(p, S)
             \/ \E f \in Paths : ConsolePut(p, f)
             \/ Aside(p) \/ ConsoleEnd(p) \/ ConsoleCrash(p)
      PROVE  CountInv'
    BY <1>6, BeginAccounts, PutAccounts, AsideAccounts, ClosedAccounts
<1> QED BY <1>3, <1>4, <1>5, <1>6 DEF ConsoleNext, Aside

\* At any time no more files have been uploaded or skipped than were put; when the main
\* thread puts no more and all uploads have ended, it is as many, with those that raised
\* among them, though the file at which the main thread raised is not announced.
THEOREM FilesStayAccounted == ConsoleSpec => []FilesAccounted
<1>1. ConsoleInit => DisplayInv /\ CountInv
    BY DisplayInit, CountInit
<1>2. DisplayInv /\ CountInv /\ [ConsoleNext]_allVars => (DisplayInv /\ CountInv)'
    BY DisplayNext, CountNext
<1>3. ASSUME DisplayInv, CountInv PROVE FilesAccounted
    <2> SUFFICES ASSUME NEW p \in Committers, open[p]
                 PROVE  LET ended == tally[p].uploaded + tally[p].skipped + unshown[p]
                            put   == tally[p].files + Unannounced(p)
                        IN  ended <= put /\ (Joined(p) => ended = put)
        BY DEF FilesAccounted
    <2>1. Joined(p) => Busy(p) = {} /\ pool[p] = <<>>
        BY DEF Busy, Joined, Resting
    <2>2. Cardinality({}) = 0 /\ Len(<<>>) = 0
        BY FS_EmptySet
    <2> DEFINE a == tally[p].uploaded + tally[p].skipped + unshown[p]
               l == Len(pool[p])
               c == Cardinality(Busy(p))
               g == tally[p].files + Unannounced(p)
    <2>3. a \in Nat /\ l \in Nat /\ c \in Nat /\ g \in Nat /\ a + l + c = g
        BY <1>3, Counts DEF CountInv, Accounts
    <2>4. Joined(p) => l = 0 /\ c = 0
        BY <2>1, <2>2
    <2>5. a <= g /\ (Joined(p) => a = g)
        <3> HIDE DEF a, c, g, l
        <3> QED BY <2>3, <2>4
    <2> QED BY <2>5
<1> QED BY <1>1, <1>2, <1>3, PTL DEF ConsoleSpec
=============================================================================
