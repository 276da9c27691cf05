------------------------ MODULE ObjectUploaderProofs ------------------------
(***************************************************************************)
(* Proofs about ObjectUploader, for any processes, workers, paths and      *)
(* contents of files.                                                      *)
(*                                                                         *)
(* StreamInv and KeysInv hold of any storage, and say that a published key *)
(* is in it.  FreshInv, BufInv and ContentAddressed hold of an atomic one, *)
(* if no file changes between its hash and its upload: what a worker       *)
(* streams is what was hashed.                                             *)
(***************************************************************************)
EXTENDS ObjectUploader, TLAPS, SequenceTheorems

-----------------------------------------------------------------------------
(* The inductive invariants *)

\* While a worker writes in place the key is there, so that no one else's
\* probe misses it.
StreamInv ==
    \A w \in Workers : job[w] # NoJob /\ step[w] = "stream" /\ ~Atomic =>
        job[w].key \in DOMAIN objects

\* A key of a commit is stored, or waits in the pool, or is being uploaded.
KeysInv ==
    \A p \in Committers : open[p] /\ ~exc[p] => \A k \in keys[p] :
        \/ k \in DOMAIN objects
        \/ \E i \in 1..Len(pool[p]) : pool[p][i].key = k
        \/ \E w \in Workers : PoolOf[w] = p /\ job[w] # NoJob /\ job[w].key = k

Fresh(j) == j.key = files[j.path].data

\* The key of an upload is the content of its file.
FreshInv ==
    /\ \A p \in Committers : \A i \in 1..Len(pool[p]) : Fresh(pool[p][i])
    /\ \A w \in Workers : job[w] # NoJob => Fresh(job[w])

\* What a worker has streamed is the beginning of its key.
BufInv ==
    \A w \in Workers : job[w] # NoJob =>
        /\ Len(buf[w]) <= Len(job[w].key)
        /\ \A i \in 1..Len(buf[w]) : buf[w][i] = job[w].key[i]
        /\ step[w] # "stream" => buf[w] = <<>>

AnyInv == TypeOK /\ StreamInv

SafeInv == AnyInv /\ KeysInv /\ PublishedPresent

AtomicInv == AnyInv /\ FreshInv /\ BufInv /\ ContentAddressed

-----------------------------------------------------------------------------
(* Lemmas about the operators *)

\* Put changes one key and keeps the others.
LEMMA PutFacts ==
    ASSUME NEW k, NEW v
    PROVE  /\ DOMAIN Put(k, v) = DOMAIN objects \cup {k}
           /\ Put(k, v)[k] = v
           /\ \A x \in DOMAIN objects : x # k => Put(k, v)[x] = objects[x]
BY DEF Put

\* An object written in place stays a sequence of chunks and holes.
LEMMA WriteAtType ==
    ASSUME NEW o \in Seq(Chunks \cup {Hole}), NEW n \in Nat, NEW c \in Chunks
    PROVE  WriteAt(o, n, c) \in Seq(Chunks \cup {Hole})
<1>1. Len(o) \in Nat /\ \A i \in 1..Len(o) : o[i] \in Chunks \cup {Hole}
    BY ElementOfSeq, LenProperties
<1> DEFINE m == IF Len(o) > n THEN Len(o) ELSE n + 1
<1>2. m \in Nat
    BY <1>1
<1>3. \A i \in 1..m :
          (IF i = n + 1 THEN c ELSE IF i <= Len(o) THEN o[i] ELSE Hole) \in Chunks \cup {Hole}
    BY <1>1, <1>2
<1> HIDE DEF m
<1>4. [i \in 1..m |-> IF i = n + 1 THEN c ELSE IF i <= Len(o) THEN o[i] ELSE Hole]
          \in Seq(Chunks \cup {Hole})
    BY <1>2, <1>3
<1> QED
    BY <1>4 DEF WriteAt, m

\* The first element of a sequence and the rest, where the rest is.
LEMMA HeadTail ==
    ASSUME NEW S, NEW q \in Seq(S), q # <<>>
    PROVE  /\ Len(q) \in Nat /\ Len(q) > 0
           /\ Head(q) = q[1] /\ Head(q) \in S
           /\ Tail(q) \in Seq(S) /\ Len(Tail(q)) = Len(q) - 1
           /\ \A i \in 1..Len(Tail(q)) : Tail(q)[i] = q[i + 1]
BY HeadTailProperties, EmptySeq, LenProperties

-----------------------------------------------------------------------------
(* Types *)

\* What the variables of worker w are, when it runs an upload.
LEMMA JobFacts ==
    ASSUME TypeOK, NEW w \in Workers, job[w] # NoJob
    PROVE  /\ PoolOf[w] \in Committers
           /\ job[w] \in Jobs /\ job[w].path \in Paths /\ job[w].key \in Seq(Chunks)
           /\ files[job[w].path] \in Versions
           /\ files[job[w].path].data \in Seq(Chunks) /\ files[job[w].path].bad \in BOOLEAN
           /\ Len(files[job[w].path].data) \in Nat
           /\ buf[w] \in Seq(Chunks) /\ Len(buf[w]) \in Nat
<1>1. job[w] \in Jobs /\ buf[w] \in Seq(Chunks)
    BY DEF TypeOK
<1>2. job[w].path \in Paths /\ job[w].key \in Seq(Chunks)
    BY <1>1 DEF Jobs
<1>3. files[job[w].path] \in Versions
    BY <1>2 DEF TypeOK
<1>4. files[job[w].path].data \in Seq(Chunks) /\ files[job[w].path].bad \in BOOLEAN
    BY <1>3, UploaderAssumption
<1> QED
    BY <1>1, <1>2, <1>3, <1>4, UploaderAssumption, LenProperties

\* The storage keeps its type and its keys when a key gets a value.
LEMMA PutType ==
    ASSUME TypeOK, NEW k \in Seq(Chunks), NEW v \in Seq(Chunks \cup {Hole})
    PROVE  /\ DOMAIN Put(k, v) \subseteq Seq(Chunks)
           /\ \A x \in DOMAIN Put(k, v) : Put(k, v)[x] \in Seq(Chunks \cup {Hole})
<1>1. DOMAIN Put(k, v) = DOMAIN objects \cup {k}
    BY PutFacts
<1>2. ASSUME NEW x \in DOMAIN objects \cup {k}
      PROVE  Put(k, v)[x] \in Seq(Chunks \cup {Hole})
    <2>1. CASE x = k
        BY <2>1, PutFacts
    <2>2. CASE x # k
        <3>1. x \in DOMAIN objects /\ Put(k, v)[x] = objects[x]
            BY <1>2, <2>2 DEF Put
        <3> QED
            BY <3>1 DEF TypeOK
    <2> QED
        BY <2>1, <2>2
<1>3. DOMAIN objects \subseteq Seq(Chunks)
    BY DEF TypeOK
<1> QED
    BY <1>1, <1>2, <1>3

\* No job is not a job.
LEMMA NotAJob == NoJob \notin Jobs
BY NoJobAssumption DEF Jobs

\* Any initial state satisfies the invariants of any storage.
LEMMA InitAny == Init => AnyInv
<1> SUFFICES ASSUME Init PROVE AnyInv
    OBVIOUS
<1>1. TypeOK
    BY UploaderAssumption, EmptySeq DEF Init, TypeOK
<1>2. StreamInv
    BY DEF Init, StreamInv
<1> QED
    BY <1>1, <1>2 DEF AnyInv

\* Every step of the main threads keeps them.
LEMMA MainAny ==
    ASSUME AnyInv, NEW p \in Committers,
           \/ \E S \in SUBSET Paths : Begin(p, S)
           \/ \E f \in Paths : Submit(p, f)
           \/ End(p) \/ Crash(p)
    PROVE  AnyInv'
<1> USE DEF AnyInv
<1>1. ASSUME NEW S \in SUBSET Paths, Begin(p, S) PROVE AnyInv'
    <2>1. commits' \in 0..MaxCommits
        BY <1>1, UploaderAssumption DEF Begin, TypeOK
    <2>2. TypeOK'
        BY <1>1, <2>1 DEF Begin, TypeOK, workerVars
    <2>3. StreamInv'
        BY <1>1 DEF Begin, StreamInv, workerVars
    <2> QED
        BY <2>2, <2>3
<1>2. ASSUME NEW f \in Paths, Submit(p, f) PROVE AnyInv'
    <2>1. files[f].data \in Seq(Chunks)
        BY UploaderAssumption DEF TypeOK
    <2>2. [path |-> f, key |-> files[f].data] \in Jobs
        BY <2>1 DEF Jobs
    <2>3. pool[p] \in Seq(Jobs)
        BY DEF TypeOK
    <2>4. Append(pool[p], [path |-> f, key |-> files[f].data]) \in Seq(Jobs)
        BY <2>2, <2>3, AppendProperties
    <2>5. TypeOK'
        BY <1>2, <2>1, <2>4 DEF Submit, TypeOK, workerVars
    <2>6. StreamInv'
        BY <1>2 DEF Submit, StreamInv, workerVars
    <2> QED
        BY <2>5, <2>6
<1>3. CASE End(p)
    <2>1. published' \subseteq Seq(Chunks)
        BY <1>3 DEF End, TypeOK
    <2>2. TypeOK'
        BY <1>3, <2>1 DEF End, TypeOK, workerVars
    <2>3. StreamInv'
        BY <1>3 DEF End, StreamInv, workerVars
    <2> QED
        BY <2>2, <2>3
<1>4. CASE Crash(p)
    <2>1. TypeOK'
        BY <1>4, EmptySeq DEF Crash, TypeOK
    <2>2. StreamInv'
        BY <1>4 DEF Crash, StreamInv, TypeOK
    <2> QED
        BY <2>1, <2>2
<1> QED
    BY <1>1, <1>2, <1>3, <1>4

\* Every step of a worker keeps them.
LEMMA WorkerAny ==
    ASSUME AnyInv, NEW w \in Workers, Worker(w)
    PROVE  AnyInv'
<1> USE DEF AnyInv
<1>0. PoolOf[w] \in Committers
    BY UploaderAssumption
<1>1. CASE Take(w)
    <2>1. pool[PoolOf[w]] \in Seq(Jobs) /\ pool[PoolOf[w]] # <<>>
        BY <1>0, <1>1 DEF Take, TypeOK
    <2>2. Head(pool[PoolOf[w]]) \in Jobs /\ Tail(pool[PoolOf[w]]) \in Seq(Jobs)
        BY <2>1, HeadTailProperties
    <2>3. <<>> \in Seq(Chunks)
        BY EmptySeq
    <2>4. TypeOK'
        BY <1>0, <1>1, <2>2, <2>3 DEF Take, TypeOK, commitVars
    <2>5. StreamInv'
        BY <1>1 DEF Take, StreamInv, TypeOK
    <2> QED
        BY <2>4, <2>5
<1>2. CASE Probe(w)
    <2>1. TypeOK'
        BY <1>2 DEF Probe, Done, TypeOK, commitVars
    <2>2. StreamInv'
        BY <1>2 DEF Probe, Done, StreamInv, TypeOK
    <2> QED
        BY <2>1, <2>2
<1>3. CASE OpenStream(w)
    <2>1. job[w] # NoJob /\ step[w] = "open"
        BY <1>3 DEF OpenStream
    <2>2. /\ DOMAIN Put(job[w].key, <<>>) \subseteq Seq(Chunks)
          /\ \A x \in DOMAIN Put(job[w].key, <<>>) :
                 Put(job[w].key, <<>>)[x] \in Seq(Chunks \cup {Hole})
        BY <2>1, JobFacts, PutType, EmptySeq
    <2>3. \/ Raise(w) /\ UNCHANGED <<objects, step>>
          \/ /\ step' = [step EXCEPT ![w] = "stream"]
             /\ objects' = IF Atomic THEN objects ELSE Put(job[w].key, <<>>)
             /\ UNCHANGED <<job, exc>>
        BY <1>3 DEF OpenStream
    <2>4. TypeOK'
        BY <1>0, <1>3, <2>2, <2>3 DEF OpenStream, Raise, Done, TypeOK, commitVars
    <2>5. DOMAIN objects \subseteq DOMAIN objects' /\
          (step'[w] = "stream" /\ ~Atomic => job[w].key \in DOMAIN objects')
        <3>1. CASE UNCHANGED <<objects, step>>
            BY <2>1, <3>1
        <3>2. CASE objects' = IF Atomic THEN objects ELSE Put(job[w].key, <<>>)
            BY <3>2, PutFacts
        <3> QED
            BY <2>3, <3>1, <3>2
    <2>6. StreamInv'
        BY <2>3, <2>5 DEF Raise, Done, StreamInv, TypeOK
    <2> QED
        BY <2>4, <2>6
<1>4. CASE StreamChunk(w)
    <2> DEFINE data == files[job[w].path].data
               n    == Len(buf[w])
               v    == WriteAt(objects[job[w].key], n, data[n + 1])
    <2>1. job[w] # NoJob /\ step[w] = "stream"
        BY <1>4 DEF StreamChunk
    <2>2. /\ n < Len(data) /\ buf' = [buf EXCEPT ![w] = Append(@, data[n + 1])]
          /\ objects' = IF Atomic THEN objects ELSE Put(job[w].key, v)
          /\ UNCHANGED <<files, commitVars, pool, exc, job, step>>
        BY <1>4 DEF StreamChunk
    <2>3. data \in Seq(Chunks) /\ n \in Nat /\ Len(data) \in Nat /\ buf[w] \in Seq(Chunks)
          /\ job[w].key \in Seq(Chunks)
        BY <2>1, JobFacts
    <2>4. data[n + 1] \in Chunks
        BY <2>2, <2>3, ElementOfSeq
    <2>5. Append(buf[w], data[n + 1]) \in Seq(Chunks)
        BY <2>3, <2>4, AppendProperties
    <2>6. /\ DOMAIN objects' \subseteq Seq(Chunks)
          /\ \A x \in DOMAIN objects' : objects'[x] \in Seq(Chunks \cup {Hole})
          /\ DOMAIN objects \subseteq DOMAIN objects'
        <3>1. CASE Atomic
            BY <2>2, <3>1 DEF TypeOK
        <3>2. CASE ~Atomic
            <4>1. job[w].key \in DOMAIN objects
                BY <2>1, <3>2 DEF StreamInv
            <4>2. v \in Seq(Chunks \cup {Hole})
                BY <2>3, <2>4, <4>1, WriteAtType DEF TypeOK
            <4> HIDE DEF v
            <4>3. objects' = Put(job[w].key, v)
                BY <2>2, <3>2
            <4> QED
                BY <2>3, <4>2, <4>3, PutType, PutFacts
        <3> QED
            BY <3>1, <3>2
    <2>7. TypeOK'
        BY <2>2, <2>5, <2>6 DEF TypeOK, commitVars
    <2>8. StreamInv'
        BY <2>2, <2>6 DEF StreamInv
    <2> QED
        BY <2>7, <2>8
<1>5. CASE StreamEnd(w)
    <2>1. job[w] # NoJob
        BY <1>5 DEF StreamEnd
    <2>2. buf[w] \in Seq(Chunks) /\ job[w].key \in Seq(Chunks)
        BY <2>1, JobFacts
    <2>3. buf[w] \in Seq(Chunks \cup {Hole})
        BY <2>2
    <2>4. /\ DOMAIN Put(job[w].key, buf[w]) \subseteq Seq(Chunks)
          /\ \A x \in DOMAIN Put(job[w].key, buf[w]) :
                 Put(job[w].key, buf[w])[x] \in Seq(Chunks \cup {Hole})
        BY <2>2, <2>3, PutType
    <2>8. DOMAIN objects \subseteq DOMAIN Put(job[w].key, buf[w])
        BY DEF Put
    <2>5. /\ job' = [job EXCEPT ![w] = NoJob]
          /\ \/ exc' = [exc EXCEPT ![PoolOf[w]] = TRUE] /\ objects' = objects
             \/ exc' = exc /\ objects' = IF Atomic THEN Put(job[w].key, buf[w]) ELSE objects
          /\ UNCHANGED <<files, commitVars, pool, step, buf>>
        BY <1>5 DEF StreamEnd, Raise, Done
    <2>6. TypeOK'
        BY <1>0, <2>4, <2>5 DEF TypeOK, commitVars
    <2>7. StreamInv'
        BY <2>8, <2>5 DEF StreamInv, TypeOK
    <2> QED
        BY <2>6, <2>7
<1>6. CASE StorageFail(w)
    <2>1. TypeOK'
        BY <1>0, <1>6 DEF StorageFail, Raise, Done, TypeOK, commitVars
    <2>2. StreamInv'
        BY <1>6 DEF StorageFail, Raise, Done, StreamInv, TypeOK
    <2> QED
        BY <2>1, <2>2
<1> QED
    BY <1>1, <1>2, <1>3, <1>4, <1>5, <1>6 DEF Worker

\* Editing a file, and stopping, keep them.
LEMMA EditAny ==
    ASSUME AnyInv,
           \/ \E f \in Paths, v \in Versions : Edit(f, v)
           \/ UNCHANGED vars
    PROVE  AnyInv'
<1> USE DEF AnyInv
<1>1. CASE UNCHANGED vars
    BY <1>1 DEF vars, commitVars, workerVars, TypeOK, StreamInv
<1>2. ASSUME NEW f \in Paths, NEW v \in Versions, Edit(f, v) PROVE AnyInv'
    <2>1. TypeOK'
        BY <1>2 DEF Edit, TypeOK, commitVars, workerVars
    <2>2. StreamInv'
        BY <1>2 DEF Edit, StreamInv, workerVars
    <2> QED
        BY <2>1, <2>2
<1> QED
    BY <1>1, <1>2

LEMMA NextAny == AnyInv /\ [Next]_vars => AnyInv'
BY MainAny, WorkerAny, EditAny DEF Next, Terminated

\* The types of the variables, whatever fails.
THEOREM TypeCorrect == Spec => []TypeOK
<1>1. AnyInv => TypeOK
    BY DEF AnyInv
<1> QED
    BY <1>1, InitAny, NextAny, PTL DEF Spec

-----------------------------------------------------------------------------
(* Published keys are there *)

\* A step in which nothing leaves the storage or a pool keeps KeysInv.
LEMMA KeysKept ==
    ASSUME KeysInv, open' = open, keys' = keys, pool' = pool, job' = job,
           DOMAIN objects \subseteq DOMAIN objects',
           \A p \in Committers : exc[p] => exc'[p]
    PROVE  KeysInv'
BY DEF KeysInv

\* A step that starts or ends a commit of one process, or fails it, keeps
\* KeysInv of it if its commit has no keys or is over.
LEMMA KeysOfOthers ==
    ASSUME TypeOK, KeysInv, NEW p \in Committers,
           UNCHANGED objects,
           \A q \in Committers : q # p =>
               /\ open'[q] = open[q] /\ keys'[q] = keys[q] /\ exc'[q] = exc[q]
               /\ pool'[q] = pool[q],
           \A w \in Workers : PoolOf[w] # p => job'[w] = job[w],
           ~open'[p] \/ exc'[p] \/ keys'[p] = {}
    PROVE  KeysInv'
<1> SUFFICES ASSUME NEW q \in Committers, open'[q] /\ ~exc'[q], NEW k \in keys'[q]
             PROVE  \/ k \in DOMAIN objects'
                    \/ \E i \in 1..Len(pool'[q]) : pool'[q][i].key = k
                    \/ \E w \in Workers : PoolOf[w] = q /\ job'[w] # NoJob /\ job'[w].key = k
    BY DEF KeysInv
<1>1. q # p
    OBVIOUS
<1>2. open[q] /\ ~exc[q] /\ k \in keys[q] /\ pool'[q] = pool[q]
    BY <1>1
<1>3. CASE k \in DOMAIN objects
    BY <1>3
<1>4. CASE \E i \in 1..Len(pool[q]) : pool[q][i].key = k
    BY <1>2, <1>4
<1>5. CASE \E w \in Workers : PoolOf[w] = q /\ job[w] # NoJob /\ job[w].key = k
    BY <1>1, <1>5
<1> QED
    BY <1>2, <1>3, <1>4, <1>5 DEF KeysInv

\* When worker w ends its upload with its key stored, KeysInv stays.
LEMMA KeysOfDone ==
    ASSUME TypeOK, KeysInv, NEW w \in Workers, job[w] # NoJob,
           job' = [job EXCEPT ![w] = NoJob],
           open' = open, keys' = keys, pool' = pool, exc' = exc,
           DOMAIN objects \subseteq DOMAIN objects', job[w].key \in DOMAIN objects'
    PROVE  KeysInv'
<1> SUFFICES ASSUME NEW q \in Committers, open[q] /\ ~exc[q], NEW k \in keys[q]
             PROVE  \/ k \in DOMAIN objects'
                    \/ \E i \in 1..Len(pool[q]) : pool[q][i].key = k
                    \/ \E u \in Workers : PoolOf[u] = q /\ job'[u] # NoJob /\ job'[u].key = k
    BY DEF KeysInv
<1>1. CASE \E u \in Workers : PoolOf[u] = q /\ job[u] # NoJob /\ job[u].key = k
    <2>1. PICK u \in Workers : PoolOf[u] = q /\ job[u] # NoJob /\ job[u].key = k
        BY <1>1
    <2>2. CASE u = w
        BY <2>1, <2>2
    <2>3. CASE u # w
        BY <2>1, <2>3 DEF TypeOK
    <2> QED
        BY <2>2, <2>3
<1> QED
    BY <1>1 DEF KeysInv

\* When an upload of worker w raises, its process gets no more from KeysInv.
LEMMA KeysOfRaised ==
    ASSUME TypeOK, KeysInv, NEW w \in Workers, Raise(w),
           UNCHANGED <<objects, open, keys, pool>>
    PROVE  KeysInv'
<1>1. PoolOf[w] \in Committers
    BY UploaderAssumption
<1>2. exc' = [exc EXCEPT ![PoolOf[w]] = TRUE] /\ job' = [job EXCEPT ![w] = NoJob]
    BY DEF Raise, Done
<1>3. /\ exc'[PoolOf[w]] /\ \A q \in Committers : q # PoolOf[w] => exc'[q] = exc[q]
      /\ \A u \in Workers : PoolOf[u] # PoolOf[w] => job'[u] = job[u]
    BY <1>1, <1>2 DEF TypeOK
<1> QED
    BY <1>1, <1>3, KeysOfOthers

\* Every step of the main threads keeps KeysInv.
LEMMA MainKeys ==
    ASSUME AnyInv, KeysInv, NEW p \in Committers,
           \/ \E S \in SUBSET Paths : Begin(p, S)
           \/ \E f \in Paths : Submit(p, f)
           \/ End(p) \/ Crash(p)
    PROVE  KeysInv'
<1> USE DEF AnyInv
<1>1. ASSUME NEW S \in SUBSET Paths, Begin(p, S) PROVE KeysInv'
    <2>1. /\ keys'[p] = {} /\ UNCHANGED <<objects, pool, job>>
          /\ \A q \in Committers : q # p =>
                 open'[q] = open[q] /\ keys'[q] = keys[q] /\ exc'[q] = exc[q]
        BY <1>1 DEF Begin, TypeOK, workerVars
    <2> QED
        BY <2>1, KeysOfOthers
<1>2. ASSUME NEW f \in Paths, Submit(p, f) PROVE KeysInv'
    <2> DEFINE d == files[f].data
               j == [path |-> f, key |-> d]
    <2>1. pool[p] \in Seq(Jobs) /\ j \in Jobs
        <3>1. files[f] \in Versions
            BY <1>2 DEF TypeOK
        <3>2. d \in Seq(Chunks)
            BY <3>1, UploaderAssumption
        <3> QED
            BY <1>2, <3>2 DEF TypeOK, Jobs
    <2>2. /\ keys' = [keys EXCEPT ![p] = @ \cup {d}] /\ pool' = [pool EXCEPT ![p] = Append(@, j)]
          /\ UNCHANGED <<objects, open, exc, job>>
        BY <1>2 DEF Submit, workerVars
    <2>3. keys'[p] = keys[p] \cup {d} /\ pool'[p] = Append(pool[p], j)
        BY <2>2 DEF TypeOK
    <2>4. \A q \in Committers : q # p => keys'[q] = keys[q] /\ pool'[q] = pool[q]
        BY <2>2 DEF TypeOK
    <2>5. /\ Len(pool[p]) \in Nat /\ Len(pool'[p]) = Len(pool[p]) + 1
          /\ pool'[p][Len(pool[p]) + 1] = j
          /\ \A i \in 1..Len(pool[p]) : pool'[p][i] = pool[p][i]
        BY <2>1, <2>3, AppendProperties, LenProperties
    <2>6. ASSUME NEW q \in Committers, open'[q] /\ ~exc'[q], NEW k \in keys'[q]
          PROVE  \/ k \in DOMAIN objects'
                 \/ \E i \in 1..Len(pool'[q]) : pool'[q][i].key = k
                 \/ \E w \in Workers : PoolOf[w] = q /\ job'[w] # NoJob /\ job'[w].key = k
        <3>1. CASE q = p /\ k = d
            <4>1. Len(pool[p]) + 1 \in 1..Len(pool'[p]) /\ j.key = d
                BY <2>5
            <4> QED
                BY <2>5, <3>1, <4>1
        <3>2. CASE k \in keys[q]
            <4>1. open[q] /\ ~exc[q]
                BY <2>2, <2>6
            <4>2. CASE \E i \in 1..Len(pool[q]) : pool[q][i].key = k
                <5>1. PICK i \in 1..Len(pool[q]) : pool[q][i].key = k
                    BY <4>2
                <5>2. CASE q = p
                    <6>1. i \in 1..Len(pool'[p])
                        BY <2>5, <5>1, <5>2
                    <6> QED
                        BY <2>5, <5>1, <5>2, <6>1
                <5>3. CASE q # p
                    BY <2>4, <5>1, <5>3
                <5> QED
                    BY <5>2, <5>3
            <4> QED
                BY <2>2, <3>2, <4>1, <4>2 DEF KeysInv
        <3> QED
            BY <2>3, <2>4, <2>6, <3>1, <3>2
    <2> QED
        BY <2>6 DEF KeysInv
<1>3. CASE End(p)
    <2>1. /\ ~open'[p] /\ UNCHANGED <<objects, keys, pool, exc, job>>
          /\ \A q \in Committers : q # p => open'[q] = open[q]
        BY <1>3 DEF End, TypeOK, workerVars
    <2> QED
        BY <2>1, KeysOfOthers
<1>4. CASE Crash(p)
    <2>1. /\ ~open'[p] /\ UNCHANGED objects
          /\ \A q \in Committers : q # p =>
                 /\ open'[q] = open[q] /\ keys'[q] = keys[q] /\ exc'[q] = exc[q]
                 /\ pool'[q] = pool[q]
          /\ \A w \in Workers : PoolOf[w] # p => job'[w] = job[w]
        BY <1>4 DEF Crash, TypeOK
    <2> QED
        BY <2>1, KeysOfOthers
<1> QED
    BY <1>1, <1>2, <1>3, <1>4

\* Every step of a worker keeps KeysInv.
LEMMA WorkerKeys ==
    ASSUME AnyInv, KeysInv, NEW w \in Workers, Worker(w)
    PROVE  KeysInv'
<1> USE DEF AnyInv
<1>0. PoolOf[w] \in Committers
    BY UploaderAssumption
<1>1. CASE Take(w)
    <2> DEFINE p == PoolOf[w]
    <2>1. /\ job[w] = NoJob /\ pool[p] # <<>> /\ pool[p] \in Seq(Jobs)
          /\ job' = [job EXCEPT ![w] = Head(pool[p])] /\ pool' = [pool EXCEPT ![p] = Tail(@)]
          /\ UNCHANGED <<objects, open, keys, exc>>
        BY <1>0, <1>1 DEF Take, TypeOK, commitVars
    <2>2. /\ job'[w] = Head(pool[p]) /\ \A u \in Workers : u # w => job'[u] = job[u]
          /\ pool'[p] = Tail(pool[p])
          /\ \A q \in Committers : q # p => pool'[q] = pool[q]
        BY <1>0, <2>1 DEF TypeOK
    <2>3. /\ Len(pool[p]) \in Nat /\ Len(pool[p]) > 0 /\ Head(pool[p]) = pool[p][1]
          /\ Head(pool[p]) \in Jobs /\ Len(Tail(pool[p])) = Len(pool[p]) - 1
          /\ \A i \in 1..Len(Tail(pool[p])) : Tail(pool[p])[i] = pool[p][i + 1]
        BY <2>1, HeadTail
    <2>4. job'[w] # NoJob
        BY <2>2, <2>3, NotAJob
    <2>5. ASSUME NEW q \in Committers, open[q] /\ ~exc[q], NEW k \in keys[q]
          PROVE  \/ k \in DOMAIN objects
                 \/ \E i \in 1..Len(pool'[q]) : pool'[q][i].key = k
                 \/ \E u \in Workers : PoolOf[u] = q /\ job'[u] # NoJob /\ job'[u].key = k
        <3>1. CASE \E u \in Workers : PoolOf[u] = q /\ job[u] # NoJob /\ job[u].key = k
            BY <2>1, <2>2, <3>1
        <3>2. CASE \E i \in 1..Len(pool[q]) : pool[q][i].key = k
            <4>1. PICK i \in 1..Len(pool[q]) : pool[q][i].key = k
                BY <3>2
            <4>2. CASE q # p
                BY <2>2, <4>1, <4>2
            <4>3. CASE q = p /\ i = 1
                BY <2>2, <2>3, <2>4, <4>1, <4>3
            <4>4. CASE q = p /\ i # 1
                <5>1. i - 1 \in 1..Len(Tail(pool[p])) /\ (i - 1) + 1 = i
                    BY <2>3, <4>1, <4>4
                <5>2. Tail(pool[p])[i - 1] = pool[p][i]
                    BY <2>3, <5>1
                <5> QED
                    BY <2>2, <4>1, <4>4, <5>1, <5>2
            <4> QED
                BY <4>2, <4>3, <4>4
        <3> QED
            BY <2>5, <3>1, <3>2 DEF KeysInv
    <2> QED
        BY <2>1, <2>5 DEF KeysInv
<1>2. CASE Probe(w)
    <2>1. job[w] # NoJob /\ UNCHANGED <<objects, open, keys, pool, exc>>
        BY <1>2 DEF Probe, commitVars
    <2>2. CASE job[w].key \in DOMAIN objects /\ Done(w)
        BY <2>1, <2>2, KeysOfDone DEF Done
    <2>3. CASE UNCHANGED job
        BY <2>1, <2>3, KeysKept
    <2> QED
        BY <1>2, <2>2, <2>3 DEF Probe
<1>3. CASE OpenStream(w)
    <2>1. UNCHANGED <<open, keys, pool>>
        BY <1>3 DEF OpenStream, commitVars
    <2>2. CASE Raise(w) /\ UNCHANGED <<objects, step>>
        BY <2>1, <2>2, KeysOfRaised
    <2>3. CASE /\ objects' = IF Atomic THEN objects ELSE Put(job[w].key, <<>>)
               /\ UNCHANGED <<job, exc>>
        <3>1. DOMAIN objects \subseteq DOMAIN objects'
            BY <2>3 DEF Put
        <3> QED
            BY <2>1, <2>3, <3>1, KeysKept
    <2> QED
        BY <1>3, <2>2, <2>3 DEF OpenStream
<1>4. CASE StreamChunk(w)
    <2>1. UNCHANGED <<open, keys, pool, exc, job>>
        BY <1>4 DEF StreamChunk, commitVars
    <2>2. DOMAIN objects \subseteq DOMAIN objects'
        BY <1>4 DEF StreamChunk, Put
    <2> QED
        BY <2>1, <2>2, KeysKept
<1>5. CASE StreamEnd(w)
    <2>1. job[w] # NoJob /\ step[w] = "stream" /\ UNCHANGED <<open, keys, pool>>
        BY <1>5 DEF StreamEnd, commitVars
    <2>2. CASE Raise(w) /\ UNCHANGED objects
        BY <2>1, <2>2, KeysOfRaised
    <2>3. CASE /\ Done(w) /\ UNCHANGED exc
               /\ objects' = IF Atomic THEN Put(job[w].key, buf[w]) ELSE objects
        <3>1. DOMAIN objects \subseteq DOMAIN objects' /\ job[w].key \in DOMAIN objects'
            <4>1. CASE Atomic
                BY <2>3, <4>1 DEF Put
            <4>2. CASE ~Atomic
                BY <2>1, <2>3, <4>2 DEF StreamInv
            <4> QED
                BY <4>1, <4>2
        <3> QED
            BY <2>1, <2>3, <3>1, KeysOfDone DEF Done
    <2> QED
        BY <1>5, <2>2, <2>3 DEF StreamEnd
<1>6. CASE StorageFail(w)
    <2>1. Raise(w) /\ UNCHANGED <<objects, open, keys, pool>>
        BY <1>6 DEF StorageFail, commitVars
    <2> QED
        BY <2>1, KeysOfRaised
<1> QED
    BY <1>1, <1>2, <1>3, <1>4, <1>5, <1>6 DEF Worker

LEMMA NextKeys == AnyInv /\ KeysInv /\ [Next]_vars => KeysInv'
<1> SUFFICES ASSUME AnyInv, KeysInv, [Next]_vars PROVE KeysInv'
    OBVIOUS
<1>1. CASE UNCHANGED vars
    BY <1>1 DEF vars, commitVars, workerVars, KeysInv
<1>2. CASE \E f \in Paths, v \in Versions : Edit(f, v)
    BY <1>2, KeysKept DEF Edit, commitVars, workerVars
<1> QED
    BY <1>1, <1>2, MainKeys, WorkerKeys DEF Next, Terminated

\* No key leaves the storage.
LEMMA NextStorage ==
    ASSUME AnyInv, [Next]_vars
    PROVE  DOMAIN objects \subseteq DOMAIN objects'
<1>1. CASE \E w \in Workers : Worker(w)
    BY <1>1 DEF Worker, Take, Probe, OpenStream, StreamChunk, StreamEnd, StorageFail, Put
<1> QED
    BY <1>1 DEF Next, Begin, Submit, End, Crash, Edit, Terminated, vars

\* A process publishes keys that are stored: its pool has come to rest.
LEMMA EndStored ==
    ASSUME AnyInv, KeysInv, NEW p \in Committers, End(p), ~exc[p]
    PROVE  keys[p] \subseteq DOMAIN objects
<1>1. /\ open[p] /\ pool[p] = <<>>
      /\ \A w \in Workers : PoolOf[w] = p => job[w] = NoJob
    BY DEF End, Resting
<1>2. \A i \in 1..Len(pool[p]) : FALSE
    BY <1>1, EmptySeq
<1> QED
    BY <1>1, <1>2 DEF KeysInv

\* What is published stays the same but in the end of a commit.
LEMMA PublishedKept ==
    ASSUME [Next]_vars, ~\E p \in Committers : End(p)
    PROVE  published' = published
<1>1. CASE \E w \in Workers : Worker(w)
    BY <1>1 DEF Worker, Take, Probe, OpenStream, StreamChunk, StreamEnd, StorageFail, commitVars
<1> QED
    BY <1>1 DEF Next, Begin, Submit, Crash, Edit, Terminated, vars, commitVars

\* If the errors of the uploads are noticed, what is published is in the storage,
\* whatever the storage and whatever happens to the files: PublishedPresent.
THEOREM PublishesPresentKeys == "late" \notin Faults /\ Spec => []PublishedPresent
<1> SUFFICES ASSUME "late" \notin Faults PROVE Spec => []PublishedPresent
    OBVIOUS
<1>1. Init => SafeInv
    <2> SUFFICES ASSUME Init PROVE KeysInv /\ PublishedPresent
        BY InitAny DEF SafeInv
    <2>1. KeysInv
        BY DEF Init, KeysInv
    <2> QED
        BY <2>1 DEF Init, PublishedPresent
<1>2. SafeInv /\ [Next]_vars => SafeInv'
    <2> SUFFICES ASSUME SafeInv, [Next]_vars PROVE SafeInv'
        OBVIOUS
    <2>1. DOMAIN objects \subseteq DOMAIN objects'
        BY NextStorage DEF SafeInv
    <2>2. PublishedPresent'
        <3>1. CASE \E p \in Committers : End(p)
            <4>1. PICK p \in Committers : End(p)
                BY <3>1
            <4>2. CASE exc[p] /\ UNCHANGED published
                BY <2>1, <4>2 DEF SafeInv, PublishedPresent
            <4>3. CASE ~exc[p] /\ published' = published \cup keys[p]
                <5>1. keys[p] \subseteq DOMAIN objects
                    BY <4>1, <4>3, EndStored DEF SafeInv
                <5> QED
                    BY <2>1, <4>3, <5>1 DEF SafeInv, PublishedPresent
            <4> QED
                BY <4>1, <4>2, <4>3 DEF End
        <3>2. CASE ~\E p \in Committers : End(p)
            BY <2>1, <3>2, PublishedKept DEF SafeInv, PublishedPresent
        <3> QED
            BY <3>1, <3>2
    <2> QED
        BY <2>2, NextAny, NextKeys DEF SafeInv
<1>3. SafeInv => PublishedPresent
    BY DEF SafeInv
<1> QED
    BY <1>1, <1>2, <1>3, PTL DEF Spec

-----------------------------------------------------------------------------
(* An atomic storage under files that do not change *)

LEMMA InitAtomic == Init => AtomicInv
<1> SUFFICES ASSUME Init PROVE FreshInv /\ BufInv /\ ContentAddressed
    BY InitAny DEF AtomicInv
<1>1. \A p \in Committers : \A i \in 1..Len(pool[p]) : FALSE
    BY EmptySeq DEF Init
<1>2. FreshInv
    BY <1>1 DEF Init, FreshInv
<1> QED
    BY <1>2 DEF Init, BufInv, ContentAddressed

\* Every step of the main threads keeps them.
LEMMA MainAtomic ==
    ASSUME AtomicInv, NEW p \in Committers,
           \/ \E S \in SUBSET Paths : Begin(p, S)
           \/ \E f \in Paths : Submit(p, f)
           \/ End(p) \/ Crash(p)
    PROVE  FreshInv' /\ BufInv' /\ ContentAddressed'
<1> USE DEF AtomicInv, AnyInv
<1>1. ContentAddressed' /\ UNCHANGED files
    BY DEF Begin, Submit, End, Crash, ContentAddressed
<1>2. CASE \/ \E S \in SUBSET Paths : Begin(p, S)
           \/ End(p)
    <2>1. UNCHANGED <<pool, workerVars>>
        BY <1>2 DEF Begin, End
    <2> QED
        BY <1>1, <2>1 DEF workerVars, FreshInv, Fresh, BufInv
<1>3. ASSUME NEW f \in Paths, Submit(p, f) PROVE FreshInv' /\ BufInv'
    <2> DEFINE j == [path |-> f, key |-> files[f].data]
    <2>1. files[f] \in Versions
        BY <1>3 DEF TypeOK
    <2>2. j \in Jobs
        BY <1>3, <2>1, UploaderAssumption DEF Jobs
    <2>3. pool' = [pool EXCEPT ![p] = Append(@, j)] /\ UNCHANGED workerVars
        BY <1>3 DEF Submit
    <2>4. pool[p] \in Seq(Jobs) /\ pool'[p] = Append(pool[p], j)
        BY <2>3 DEF TypeOK
    <2>5. /\ Len(pool[p]) \in Nat /\ Len(pool'[p]) = Len(pool[p]) + 1
          /\ pool'[p][Len(pool[p]) + 1] = j
          /\ \A i \in 1..Len(pool[p]) : pool'[p][i] = pool[p][i]
        BY <2>2, <2>4, AppendProperties, LenProperties
    <2>6. ASSUME NEW q \in Committers, NEW i \in 1..Len(pool'[q]) PROVE Fresh(pool'[q][i])
        <3>1. CASE q # p
            BY <2>3, <2>6, <3>1 DEF TypeOK, FreshInv
        <3>2. CASE q = p /\ i = Len(pool[p]) + 1
            BY <2>5, <3>2 DEF Fresh
        <3>3. CASE q = p /\ i # Len(pool[p]) + 1
            <4>1. i \in 1..Len(pool[p])
                BY <2>5, <2>6, <3>3
            <4> QED
                BY <2>5, <3>3, <4>1 DEF FreshInv
        <3> QED
            BY <3>1, <3>2, <3>3
    <2>7. FreshInv'
        BY <1>1, <2>3, <2>6 DEF FreshInv, Fresh, workerVars
    <2>8. BufInv'
        BY <2>3 DEF BufInv, workerVars
    <2> QED
        BY <2>7, <2>8
<1>4. CASE Crash(p)
    <2>1. \A q \in Committers : pool'[q] = pool[q] \/ pool'[q] = <<>>
        BY <1>4 DEF Crash, TypeOK
    <2>2. \A w \in Workers : job'[w] = job[w] \/ job'[w] = NoJob
        BY <1>4 DEF Crash
    <2>3. UNCHANGED <<files, step, buf>>
        BY <1>4 DEF Crash
    <2>4. FreshInv'
        BY <2>1, <2>2, <2>3, EmptySeq DEF FreshInv, Fresh
    <2>5. BufInv'
        BY <2>2, <2>3 DEF BufInv
    <2> QED
        BY <1>1, <2>4, <2>5
<1> QED
    BY <1>1, <1>2, <1>3, <1>4

\* When worker w has no job any more, nothing else changed for the others.
LEMMA DoneAtomic ==
    ASSUME AtomicInv, NEW w \in Workers, job' = [job EXCEPT ![w] = NoJob],
           UNCHANGED <<files, pool, step, buf>>
    PROVE  FreshInv' /\ BufInv'
<1>1. \A u \in Workers : job'[u] = job[u] \/ job'[u] = NoJob
    BY DEF AtomicInv, AnyInv, TypeOK
<1> QED
    BY <1>1 DEF AtomicInv, FreshInv, Fresh, BufInv

\* Every step of a worker keeps them.
LEMMA WorkerAtomic ==
    ASSUME Atomic, AtomicInv, NEW w \in Workers, Worker(w)
    PROVE  FreshInv' /\ BufInv' /\ ContentAddressed'
<1> USE DEF AtomicInv, AnyInv
<1>1. CASE Take(w)
    <2> DEFINE p == PoolOf[w]
    <2>1. /\ p \in Committers /\ pool[p] # <<>> /\ pool[p] \in Seq(Jobs)
          /\ job' = [job EXCEPT ![w] = Head(pool[p])] /\ pool' = [pool EXCEPT ![p] = Tail(@)]
          /\ step' = [step EXCEPT ![w] = "probe"] /\ buf' = [buf EXCEPT ![w] = <<>>]
          /\ UNCHANGED <<files, objects>>
        BY <1>1, UploaderAssumption DEF Take, TypeOK
    <2>2. /\ Len(pool[p]) \in Nat /\ Len(pool[p]) > 0 /\ Head(pool[p]) = pool[p][1]
          /\ Head(pool[p]) \in Jobs /\ Len(Tail(pool[p])) = Len(pool[p]) - 1
          /\ \A i \in 1..Len(Tail(pool[p])) : Tail(pool[p])[i] = pool[p][i + 1]
        BY <2>1, HeadTail
    <2>3. Fresh(Head(pool[p]))
        <3>1. 1 \in 1..Len(pool[p])
            BY <2>2
        <3> QED
            BY <2>1, <2>2, <3>1 DEF FreshInv
    <2>4. \A i \in 1..Len(Tail(pool[p])) : Fresh(Tail(pool[p])[i])
        <3>1. \A i \in 1..Len(Tail(pool[p])) : i + 1 \in 1..Len(pool[p])
            BY <2>2
        <3> QED
            BY <2>1, <2>2, <3>1 DEF FreshInv
    <2>5. /\ job'[w] = Head(pool[p]) /\ \A u \in Workers : u # w => job'[u] = job[u]
          /\ pool'[p] = Tail(pool[p])
          /\ \A q \in Committers : q # p => pool'[q] = pool[q]
          /\ step'[w] = "probe" /\ \A u \in Workers : u # w => step'[u] = step[u]
          /\ buf'[w] = <<>> /\ \A u \in Workers : u # w => buf'[u] = buf[u]
        BY <2>1 DEF TypeOK
    <2>6. FreshInv'
        BY <2>1, <2>3, <2>4, <2>5 DEF FreshInv, Fresh
    <2>7. Len(Head(pool[p]).key) \in Nat
        BY <2>2, LenProperties DEF Jobs
    <2>8. BufInv'
        <3> SUFFICES ASSUME NEW u \in Workers, job'[u] # NoJob
                     PROVE  /\ Len(buf'[u]) <= Len(job'[u].key)
                            /\ \A i \in 1..Len(buf'[u]) : buf'[u][i] = job'[u].key[i]
                            /\ step'[u] # "stream" => buf'[u] = <<>>
            BY DEF BufInv
        <3>1. CASE u = w
            <4>1. Len(buf'[w]) = 0
                BY <2>5, EmptySeq
            <4> QED
                BY <2>5, <2>7, <3>1, <4>1
        <3>2. CASE u # w
            BY <2>5, <3>2 DEF BufInv
        <3> QED
            BY <3>1, <3>2
    <2>9. ContentAddressed'
        BY <2>1 DEF ContentAddressed
    <2> QED
        BY <2>6, <2>8, <2>9
<1>2. CASE Probe(w)
    <2>1. UNCHANGED <<files, objects, pool, buf>>
        BY <1>2 DEF Probe
    <2>2. ContentAddressed'
        BY <2>1 DEF ContentAddressed
    <2>3. CASE Done(w) /\ UNCHANGED step
        BY <2>1, <2>2, <2>3, DoneAtomic DEF Done
    <2>4. CASE step' = [step EXCEPT ![w] = "open"] /\ UNCHANGED job
        <3>1. FreshInv'
            BY <2>1, <2>4 DEF FreshInv, Fresh
        <3>2. \A u \in Workers : step'[u] # "stream" => step[u] # "stream"
            BY <1>2, <2>4 DEF Probe, TypeOK
        <3>3. BufInv'
            BY <2>1, <2>4, <3>2 DEF BufInv
        <3> QED
            BY <2>2, <3>1, <3>3
    <2> QED
        BY <1>2, <2>3, <2>4 DEF Probe
<1>3. CASE OpenStream(w)
    <2>1. UNCHANGED <<files, pool, buf>>
        BY <1>3 DEF OpenStream
    <2>2. CASE Raise(w) /\ UNCHANGED <<objects, step>>
        BY <2>1, <2>2, DoneAtomic DEF Raise, Done, ContentAddressed
    <2>3. CASE /\ step' = [step EXCEPT ![w] = "stream"]
               /\ objects' = IF Atomic THEN objects ELSE Put(job[w].key, <<>>)
               /\ UNCHANGED <<job, exc>>
        <3>1. FreshInv'
            BY <2>1, <2>3 DEF FreshInv, Fresh
        <3>2. \A u \in Workers : step'[u] # "stream" => step[u] # "stream"
            BY <2>3 DEF TypeOK
        <3>3. BufInv'
            BY <2>1, <2>3, <3>2 DEF BufInv
        <3>4. ContentAddressed'
            BY <2>3 DEF ContentAddressed
        <3> QED
            BY <3>1, <3>3, <3>4
    <2> QED
        BY <1>3, <2>2, <2>3 DEF OpenStream
<1>4. CASE StreamChunk(w)
    <2> DEFINE data == files[job[w].path].data
               n    == Len(buf[w])
    <2>1. /\ job[w] # NoJob /\ n < Len(data) /\ step[w] = "stream"
          /\ buf' = [buf EXCEPT ![w] = Append(@, data[n + 1])]
          /\ UNCHANGED <<files, objects, pool, job, step>>
        BY <1>4 DEF StreamChunk
    <2>2. /\ data \in Seq(Chunks) /\ n \in Nat /\ Len(data) \in Nat /\ buf[w] \in Seq(Chunks)
        BY <2>1, JobFacts
    <2>3. data = job[w].key
        BY <2>1 DEF FreshInv, Fresh
    <2>4. data[n + 1] \in Chunks
        BY <2>1, <2>2, ElementOfSeq
    <2>5. /\ buf'[w] = Append(buf[w], data[n + 1]) /\ Len(buf'[w]) = n + 1
          /\ \A i \in 1..n : buf'[w][i] = buf[w][i]
          /\ buf'[w][n + 1] = data[n + 1]
        BY <2>1, <2>2, <2>4, AppendProperties DEF TypeOK
    <2>6. FreshInv' /\ ContentAddressed'
        BY <2>1 DEF FreshInv, Fresh, ContentAddressed
    <2>7. BufInv'
        <3> SUFFICES ASSUME NEW u \in Workers, job[u] # NoJob
                     PROVE  /\ Len(buf'[u]) <= Len(job[u].key)
                            /\ \A i \in 1..Len(buf'[u]) : buf'[u][i] = job[u].key[i]
                            /\ step[u] # "stream" => buf'[u] = <<>>
            BY <2>1 DEF BufInv
        <3>1. CASE u = w
            <4>1. \A i \in 1..n : buf[w][i] = data[i]
                BY <2>1, <2>3 DEF BufInv
            <4>2. \A i \in 1..(n + 1) : buf'[w][i] = data[i]
                BY <2>2, <2>5, <4>1
            <4>3. n + 1 <= Len(data)
                BY <2>1, <2>2
            <4> QED
                BY <2>1, <2>3, <2>5, <3>1, <4>2, <4>3
        <3>2. CASE u # w
            BY <2>1, <3>2 DEF BufInv, TypeOK
        <3> QED
            BY <3>1, <3>2
    <2> QED
        BY <2>6, <2>7
<1>5. CASE StreamEnd(w)
    <2>1. /\ job[w] # NoJob /\ Len(buf[w]) >= Len(files[job[w].path].data)
          /\ job' = [job EXCEPT ![w] = NoJob] /\ UNCHANGED <<files, pool, step, buf>>
          /\ objects' \in {objects, Put(job[w].key, buf[w])}
        BY <1>5 DEF StreamEnd, Raise, Done
    <2>2. FreshInv' /\ BufInv'
        BY <2>1, DoneAtomic
    <2>3. /\ buf[w] \in Seq(Chunks) /\ Len(buf[w]) \in Nat
          /\ job[w].key \in Seq(Chunks) /\ Len(job[w].key) \in Nat
        BY <2>1, JobFacts, LenProperties
    <2>4. job[w].key = files[job[w].path].data
        BY <2>1 DEF FreshInv, Fresh
    <2>5. Len(buf[w]) = Len(job[w].key) /\ \A i \in 1..Len(buf[w]) : buf[w][i] = job[w].key[i]
        BY <2>1, <2>3, <2>4 DEF BufInv
    <2>6. buf[w] = job[w].key
        BY <2>3, <2>5, SeqEqual
    <2>7. ContentAddressed'
        <3>1. CASE objects' = objects
            BY <3>1 DEF ContentAddressed
        <3>2. CASE objects' = Put(job[w].key, buf[w])
            BY <2>6, <3>2 DEF ContentAddressed, Put
        <3> QED
            BY <2>1, <3>1, <3>2
    <2> QED
        BY <2>2, <2>7
<1>6. CASE StorageFail(w)
    <2>1. job' = [job EXCEPT ![w] = NoJob] /\ UNCHANGED <<files, pool, step, buf, objects>>
        BY <1>6 DEF StorageFail, Raise, Done
    <2> QED
        BY <2>1, DoneAtomic DEF ContentAddressed
<1> QED
    BY <1>1, <1>2, <1>3, <1>4, <1>5, <1>6 DEF Worker

LEMMA NextAtomic ==
    ASSUME Atomic, "edit" \notin Faults
    PROVE  AtomicInv /\ [Next]_vars => AtomicInv'
<1> SUFFICES ASSUME AtomicInv, [Next]_vars PROVE FreshInv' /\ BufInv' /\ ContentAddressed'
    BY NextAny DEF AtomicInv
<1>1. CASE UNCHANGED vars
    BY <1>1 DEF vars, commitVars, workerVars, AtomicInv, FreshInv, Fresh, BufInv, ContentAddressed
<1>2. CASE \E f \in Paths, v \in Versions : Edit(f, v)
    <2>1. PICK f \in Paths, v \in Versions : Edit(f, v)
        BY <1>2
    <2>2. ~Pending(f) /\ files' = [files EXCEPT ![f] = v]
        BY <2>1 DEF Edit
    <2>3. UNCHANGED <<objects, pool, job, step, buf>>
        BY <2>1 DEF Edit, workerVars
    <2>4. \A g \in Paths \ {f} : files'[g] = files[g]
        BY <2>2 DEF AtomicInv, AnyInv, TypeOK
    <2>5. ASSUME NEW p \in Committers, NEW i \in 1..Len(pool[p]) PROVE Fresh(pool[p][i])'
        <3>1. pool[p][i].path \in Paths \ {f} /\ Fresh(pool[p][i])
            <4>1. pool[p] \in Seq(Jobs)
                BY DEF AtomicInv, AnyInv, TypeOK
            <4>2. pool[p][i] \in Jobs
                BY <2>5, <4>1, ElementOfSeq
            <4>3. pool[p][i].path # f
                BY <2>2, <2>5 DEF Pending
            <4> QED BY <2>5, <4>2, <4>3 DEF Jobs, AtomicInv, FreshInv
        <3> QED BY <2>3, <2>4, <3>1 DEF Fresh
    <2>6. ASSUME NEW w \in Workers, job[w] # NoJob PROVE Fresh(job[w])'
        <3>1. job[w].path \in Paths \ {f} /\ Fresh(job[w])
            BY <2>2, <2>6 DEF Pending, AtomicInv, AnyInv, TypeOK, Jobs, FreshInv
        <3> QED BY <2>3, <2>4, <3>1 DEF Fresh
    <2>7. FreshInv'
        BY <2>3, <2>5, <2>6 DEF FreshInv
    <2> QED BY <2>3, <2>7 DEF AtomicInv, BufInv, ContentAddressed
<1> QED
    BY <1>1, <1>2, MainAtomic, WorkerAtomic DEF Next, Terminated

\* Every object of an atomic storage is what its key is the hash of, if files do
\* not change between their hash and their upload, whatever uploads fail and
\* whoever dies: ContentAddressed.
THEOREM StoresByContent == Atomic /\ "edit" \notin Faults /\ Spec => []ContentAddressed
<1> SUFFICES ASSUME Atomic, "edit" \notin Faults PROVE Spec => []ContentAddressed
    OBVIOUS
<1>1. AtomicInv => ContentAddressed
    BY DEF AtomicInv
<1>2. AtomicInv /\ [Next]_vars => AtomicInv'
    BY NextAtomic
<1> QED
    BY <1>1, <1>2, InitAtomic, PTL DEF Spec

\* What is published can be restored, if errors are noticed too:
\* PublishedRestorable.
THEOREM PublishesRestorable ==
    Atomic /\ Faults \cap {"edit", "late"} = {} /\ Spec => []PublishedRestorable
<1> SUFFICES ASSUME Atomic, Faults \cap {"edit", "late"} = {} PROVE Spec => []PublishedRestorable
    OBVIOUS
<1>1. "edit" \notin Faults /\ "late" \notin Faults
    OBVIOUS
<1>2. Spec => []ContentAddressed
    BY <1>1, StoresByContent
<1>3. Spec => []PublishedPresent
    BY <1>1, PublishesPresentKeys
<1>4. ContentAddressed /\ PublishedPresent => PublishedRestorable
    BY DEF ContentAddressed, PublishedPresent, PublishedRestorable
<1> QED
    BY <1>2, <1>3, <1>4, PTL
=============================================================================
