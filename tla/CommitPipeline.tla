--------------------------- MODULE CommitPipeline ---------------------------
(***************************************************************************)
(* The threads of one process that turn a directory into a snapshot:       *)
(* NeoMerkleTreeBuilder.run (neogit/merkle/visitor.py) inside the write    *)
(* transaction of Neogit.commit (neogit/service/neogit.py).                *)
(*                                                                         *)
(*   visitor   --vq-->  main  --uq-->  submitter  --pool-->  workers       *)
(*                                                                         *)
(* The visitor thread walks the directory in post-order and queues every   *)
(* node it has hashed.  The main thread forwards each of them to the       *)
(* submit thread and merges the directories in the transaction; the submit *)
(* thread gives the files to the upload pool, whose workers put them in    *)
(* the object storage.  A Python None ends both queues.                    *)
(*                                                                         *)
(* vq belongs to the visitor of one commit.  uq does not: it is the        *)
(* default of an attrs field, evaluated once, so every builder of the      *)
(* process uses the same queue and what one commit leaves in it the next   *)
(* one reads.                                                              *)
(***************************************************************************)
EXTENDS Integers, Sequences, Functions

CONSTANTS
    Hashes,     \* Merkle hashes
    Walks,      \* the directories that may be committed, each as its walk
    Workers,    \* threads of the upload pool
    Faults,     \* the faults that may happen, a subset of FaultKinds
    MaxRuns,    \* bound on the commits one behaviour makes
    None        \* Python's None, the sentinel

Items == [kind : {"file", "dir"}, hash : Hashes]

FaultKinds == {"walk",      \* the visitor raises
               "storage",   \* an upload raises
               "merge",     \* the query that merges a Tree raises
               "interrupt", \* KeyboardInterrupt in the loop of run
               "late",      \* an exception once the sentinel has been put
               "publish",   \* the transaction fails after the builder is done
               "crash"}     \* the process dies

\* A walk ends with the root, which is a directory (service/neogit.py:156).
ASSUME WalksAssumption ==
    \A w \in Walks : w \in Seq(Items) /\ Len(w) > 0 /\ w[Len(w)].kind = "dir"
ASSUME NoneAssumption == None \notin Items /\ None \notin Hashes
ASSUME FaultsAssumption == Faults \subseteq FaultKinds
ASSUME MaxRunsAssumption == MaxRuns \in Nat

BlobsOf(w) == {w[k].hash : k \in {j \in DOMAIN w : w[j].kind = "file"}}
DirsOf(w)  == {w[k].hash : k \in {j \in DOMAIN w : w[j].kind = "dir"}}

VARIABLES
    pc,         \* where the main thread is
    item,       \* its loop variable
    last,       \* last_item, the last directory it merged
    raised,     \* an exception is propagating in it
    walk,       \* the directory being committed
    vpos,       \* how many nodes of it the visitor has queued
    visitor,    \* state of the visitor thread
    vq,         \* queue of the visitor, new for every commit
    uq,         \* uploader_queue, one for the life of the process
    submitter,  \* state of the submit thread
    pool,       \* uploads submitted and not started
    active,     \* the upload each worker runs
    exc,        \* _has_exception is set
    txn,        \* trees merged in the open transaction
    trees,      \* trees in the database
    snapshots,  \* commits in the database
    objects,    \* keys in the object storage
    clean,      \* auxiliary: uq was empty when the commit started and nothing
                \* raised after its sentinel was put
    runs        \* commits started, for the bound

mainVars    == <<pc, item, last, raised>>
visitorVars == <<walk, vpos, visitor, vq>>
poolVars    == <<submitter, pool, active, exc>>
dbVars      == <<txn, trees, snapshots>>
vars == <<mainVars, visitorVars, uq, poolVars, dbVars, objects, clean, runs>>

Init ==
    /\ pc = "idle" /\ item = None /\ last = None /\ raised = FALSE
    /\ walk = <<>> /\ vpos = 0 /\ visitor = "off" /\ vq = <<>>
    /\ uq = <<>>
    /\ submitter = "off" /\ pool = <<>> /\ exc = FALSE
    /\ active = [w \in Workers |-> None]
    /\ txn = {} /\ trees = {} /\ snapshots = {}
    /\ objects = {}
    /\ clean = TRUE /\ runs = 0

-----------------------------------------------------------------------------
(* Faulty variants of the actions below; no specification uses them.       *)

\* _run gives the pool the visited node where its hash belongs
SubmitGetNode ==
    /\ submitter = "running" /\ uq # <<>>
    /\ uq' = Tail(uq)
    /\ \/ Head(uq) = None /\ submitter' = "waiting" /\ UNCHANGED pool
       \/ Head(uq) # None /\ pool' = Append(pool, Head(uq)) /\ UNCHANGED submitter
    /\ UNCHANGED <<mainVars, visitorVars, active, exc, dbVars, objects, clean, runs>>

\* the visitor's future is not looked at
ExitVisitorBlind ==
    /\ pc = "exit_visitor" /\ visitor # "running"
    /\ pc' = "finish"
    /\ UNCHANGED <<item, last, raised, visitorVars, uq, poolVars, dbVars, objects, clean, runs>>

\* trees are merged outside of the transaction of commit
MainMergeAutocommit ==
    /\ pc = "merge"
    /\ pc' = "take" /\ last' = item /\ trees' = trees \cup {item.hash}
    /\ UNCHANGED <<item, raised, visitorVars, uq, poolVars, txn, snapshots, objects, clean, runs>>

\* uploader.wait() is forgotten
SubmitWaitNot ==
    /\ submitter = "waiting"
    /\ submitter' = "done"
    /\ UNCHANGED <<mainVars, visitorVars, uq, pool, active, exc, dbVars, objects, clean, runs>>

\* the executor of the submit thread is shut down with wait=False
ShutdownUploaderNoWait ==
    /\ pc = "shutdown"
    /\ pc' = "exit_visitor"
    /\ UNCHANGED <<item, last, raised, visitorVars, uq, poolVars, dbVars, objects, clean, runs>>

\* __exit__ puts a sentinel whether or not run has put one
ExitUploaderAlways ==
    /\ pc = "unwind"
    /\ pc' = "shutdown"
    /\ uq' = Append(uq, None)
    /\ UNCHANGED <<item, last, raised, visitorVars, poolVars, dbVars, objects, clean, runs>>

\* the sentinel is put when visit returns, not when it raises
VisitFailSilent ==
    /\ "walk" \in Faults
    /\ visitor = "running" /\ vpos < Len(walk)
    /\ visitor' = "failed"
    /\ UNCHANGED <<mainVars, walk, vpos, vq, uq, poolVars, dbVars, objects, clean, runs>>

\* the transaction commits although an exception left the builder
FinishAnyway ==
    /\ pc = "finish"
    /\ pc' = "idle" /\ txn' = {}
    /\ \/ last # None /\ trees' = trees \cup txn
          /\ snapshots' = snapshots \cup
               {[walk |-> walk, root |-> last.hash, failed |-> exc, clean |-> clean]}
       \/ last = None /\ UNCHANGED <<trees, snapshots>>
    /\ UNCHANGED <<item, last, raised, visitorVars, uq, poolVars, objects, clean, runs>>

-----------------------------------------------------------------------------
(* The main thread *)

\* The builder is entered, the visit and the submit thread are started.  All
\* they use is new, except uq.
BeginCommit ==
    /\ pc = "idle" /\ runs < MaxRuns
    /\ walk' \in Walks
    /\ pc' = "take" /\ item' = None /\ last' = None /\ raised' = FALSE
    /\ vpos' = 0 /\ visitor' = "running" /\ vq' = <<>>
    /\ submitter' = "running" /\ pool' = <<>> /\ exc' = FALSE
    /\ active' = [w \in Workers |-> None]
    /\ txn' = {}
    /\ clean' = (uq = <<>>) /\ runs' = runs + 1
    /\ UNCHANGED <<uq, trees, snapshots, objects>>

\* An exception leaves run and the contexts start to exit.
Raise == pc' = "unwind" /\ raised' = TRUE /\ UNCHANGED <<item, last>>

\* for item in self.visitor.as_gen(): self.uploader_queue.put(item)
MainTake ==
    /\ pc = "take" /\ vq # <<>>
    /\ vq' = Tail(vq)
    /\ \/ Head(vq) = None /\ pc' = "sentinel" /\ UNCHANGED <<item, uq>>
       \/ Head(vq) # None /\ pc' = "check" /\ item' = Head(vq) /\ uq' = Append(uq, Head(vq))
    /\ UNCHANGED <<last, raised, walk, vpos, visitor, poolVars, dbVars, objects, clean, runs>>

\* uploader_thread.check_exception(), then the test on the kind of the node
MainCheck ==
    /\ pc = "check"
    /\ \/ exc /\ Raise
       \/ ~exc /\ pc' = (IF item.kind = "file" THEN "take" ELSE "merge")
          /\ UNCHANGED <<item, last, raised>>
    /\ UNCHANGED <<visitorVars, uq, poolVars, dbVars, objects, clean, runs>>

\* The Tree of a directory is merged in the transaction.
MainMerge ==
    /\ pc = "merge"
    /\ \/ pc' = "take" /\ last' = item /\ txn' = txn \cup {item.hash}
          /\ UNCHANGED <<item, raised>>
       \/ "merge" \in Faults /\ Raise /\ UNCHANGED txn
    /\ UNCHANGED <<visitorVars, uq, poolVars, trees, snapshots, objects, clean, runs>>

\* last_item.return_value fails on None; otherwise the sentinel is put in uq.
MainSentinel ==
    /\ pc = "sentinel"
    /\ \/ last = None /\ Raise /\ UNCHANGED uq
       \/ last # None /\ pc' = "join" /\ uq' = Append(uq, None)
          /\ UNCHANGED <<item, last, raised>>
    /\ UNCHANGED <<visitorVars, poolVars, dbVars, objects, clean, runs>>

\* join waits for the submit thread, which waits for the pool
MainJoin ==
    /\ pc = "join" /\ submitter = "done"
    /\ pc' = "root"
    /\ UNCHANGED <<item, last, raised, visitorVars, uq, poolVars, dbVars, objects, clean, runs>>

\* Tree.nodes.get finds the root that the transaction merged.
MainRoot ==
    /\ pc = "root"
    /\ pc' = "unwind"
    /\ UNCHANGED <<item, last, raised, visitorVars, uq, poolVars, dbVars, objects, clean, runs>>

\* A KeyboardInterrupt in the loop, where it blocks on vq
Interrupt ==
    /\ "interrupt" \in Faults /\ pc = "take" /\ Raise
    /\ UNCHANGED <<visitorVars, uq, poolVars, dbVars, objects, clean, runs>>

\* A KeyboardInterrupt in join, or a failure of Tree.nodes.get
LateFault ==
    /\ "late" \in Faults /\ pc \in {"join", "root"} /\ Raise
    /\ clean' = FALSE
    /\ UNCHANGED <<visitorVars, uq, poolVars, dbVars, objects, runs>>

\* ObjectUploaderThread.__exit__: an exception puts a sentinel
ExitUploader ==
    /\ pc = "unwind"
    /\ pc' = "shutdown"
    /\ uq' = IF raised THEN Append(uq, None) ELSE uq
    /\ UNCHANGED <<item, last, raised, visitorVars, poolVars, dbVars, objects, clean, runs>>

\* ... and the executor of the submit thread is waited for.
ShutdownUploader ==
    /\ pc = "shutdown" /\ submitter = "done"
    /\ pc' = "exit_visitor"
    /\ UNCHANGED <<item, last, raised, visitorVars, uq, poolVars, dbVars, objects, clean, runs>>

\* The exit callback of run_visit, future.result, waits for the visitor and
\* raises what it raised.
ExitVisitor ==
    /\ pc = "exit_visitor" /\ visitor # "running"
    /\ pc' = "finish"
    /\ raised' = (raised \/ visitor = "failed")
    /\ UNCHANGED <<item, last, visitorVars, uq, poolVars, dbVars, objects, clean, runs>>

\* What a published commit refers to; failed and clean are auxiliary.
Snapshot == [walk |-> walk, root |-> last.hash, failed |-> exc, clean |-> clean]

\* The write transaction of commit ends: it commits with the new commit in it,
\* or rolls back.
Finish ==
    /\ pc = "finish"
    /\ pc' = "idle" /\ txn' = {}
    /\ \/ ~raised /\ trees' = trees \cup txn /\ snapshots' = snapshots \cup {Snapshot}
       \/ (raised \/ "publish" \in Faults) /\ UNCHANGED <<trees, snapshots>>
    /\ UNCHANGED <<item, last, raised, visitorVars, uq, poolVars, objects, clean, runs>>

Main ==
    \/ MainTake \/ MainCheck \/ MainMerge \/ MainSentinel \/ MainJoin \/ MainRoot
    \/ ExitUploader \/ ShutdownUploader \/ ExitVisitor \/ Finish

-----------------------------------------------------------------------------
(* The visitor thread *)

\* visit queues a node when its visitor function has returned
VisitNode ==
    /\ visitor = "running" /\ vpos < Len(walk)
    /\ vpos' = vpos + 1
    /\ vq' = Append(vq, walk[vpos + 1])
    /\ UNCHANGED <<mainVars, walk, visitor, uq, poolVars, dbVars, objects, clean, runs>>

\* The done callback of the future puts the sentinel, ...
VisitEnd ==
    /\ visitor = "running" /\ vpos = Len(walk)
    /\ visitor' = "done"
    /\ vq' = Append(vq, None)
    /\ UNCHANGED <<mainVars, walk, vpos, uq, poolVars, dbVars, objects, clean, runs>>

\* ... also when visit raises, wherever it is in the walk.
VisitFail ==
    /\ "walk" \in Faults
    /\ visitor = "running" /\ vpos < Len(walk)
    /\ visitor' = "failed"
    /\ vq' = Append(vq, None)
    /\ UNCHANGED <<mainVars, walk, vpos, uq, poolVars, dbVars, objects, clean, runs>>

Visitor == VisitNode \/ VisitEnd \/ VisitFail

-----------------------------------------------------------------------------
(* The submit thread and the upload pool *)

\* One turn of _run: None ends the loop, a directory is skipped, a file is
\* submitted to the pool.
SubmitGet ==
    /\ submitter = "running" /\ uq # <<>>
    /\ uq' = Tail(uq)
    /\ \/ Head(uq) = None /\ submitter' = "waiting" /\ UNCHANGED pool
       \/ Head(uq) # None /\ Head(uq).kind = "file"
          /\ pool' = Append(pool, Head(uq).hash) /\ UNCHANGED submitter
       \/ Head(uq) # None /\ Head(uq).kind = "dir" /\ UNCHANGED <<pool, submitter>>
    /\ UNCHANGED <<mainVars, visitorVars, active, exc, dbVars, objects, clean, runs>>

\* uploader.wait() returns when the pool has nothing left to run
SubmitWait ==
    /\ submitter = "waiting"
    /\ pool = <<>> /\ \A w \in Workers : active[w] = None
    /\ submitter' = "done"
    /\ UNCHANGED <<mainVars, visitorVars, uq, pool, active, exc, dbVars, objects, clean, runs>>

Submitter == SubmitGet \/ SubmitWait

WorkerTake(w) ==
    /\ active[w] = None /\ pool # <<>>
    /\ active' = [active EXCEPT ![w] = Head(pool)]
    /\ pool' = Tail(pool)
    /\ UNCHANGED <<mainVars, visitorVars, uq, submitter, exc, dbVars, objects, clean, runs>>

\* _storage_upload returns: the key exists, found or uploaded.
WorkerStore(w) ==
    /\ active[w] # None
    /\ objects' = objects \cup {active[w]}
    /\ active' = [active EXCEPT ![w] = None]
    /\ UNCHANGED <<mainVars, visitorVars, uq, submitter, pool, exc, dbVars, clean, runs>>

\* _storage_upload raises: the done callback keeps the exception.
WorkerFail(w) ==
    /\ "storage" \in Faults
    /\ active[w] # None
    /\ exc' = TRUE
    /\ active' = [active EXCEPT ![w] = None]
    /\ UNCHANGED <<mainVars, visitorVars, uq, submitter, pool, dbVars, objects, clean, runs>>

Worker(w) == WorkerTake(w) \/ WorkerStore(w) \/ WorkerFail(w)

-----------------------------------------------------------------------------
\* The process dies and is started again.  The database rolls the transaction
\* back; the object storage keeps what it has.
Crash ==
    /\ "crash" \in Faults /\ pc # "idle"
    /\ pc' = "idle" /\ item' = None /\ last' = None /\ raised' = FALSE
    /\ walk' = <<>> /\ vpos' = 0 /\ visitor' = "off" /\ vq' = <<>>
    /\ uq' = <<>>
    /\ submitter' = "off" /\ pool' = <<>> /\ exc' = FALSE
    /\ active' = [w \in Workers |-> None]
    /\ txn' = {} /\ clean' = TRUE
    /\ UNCHANGED <<trees, snapshots, objects, runs>>

\* No commit is asked for any more.
Terminated == pc = "idle" /\ runs = MaxRuns /\ UNCHANGED vars

Next ==
    \/ BeginCommit \/ Main \/ Interrupt \/ LateFault
    \/ Visitor \/ Submitter \/ \E w \in Workers : Worker(w)
    \/ Crash \/ Terminated

\* Every thread that can run runs: the interpreter starves none of them.
Fairness ==
    /\ WF_vars(Main) /\ WF_vars(Visitor) /\ WF_vars(Submitter)
    /\ \A w \in Workers : WF_vars(Worker(w))

Spec     == Init /\ [][Next]_vars
FairSpec == Spec /\ Fairness

-----------------------------------------------------------------------------
(* Properties *)

\* The variables keep the types the code gives them; no hash or item is lost
\* to a None, no None to an upload.
TypeOK ==
    /\ pc \in {"idle", "take", "check", "merge", "sentinel", "join", "root",
               "unwind", "shutdown", "exit_visitor", "finish"}
    /\ item \in Items \cup {None} /\ last \in Items \cup {None} /\ raised \in BOOLEAN
    /\ walk \in Walks \cup {<<>>} /\ vpos \in 0..Len(walk)
    /\ visitor \in {"off", "running", "done", "failed"}
    /\ vq \in Seq(Items \cup {None}) /\ uq \in Seq(Items \cup {None})
    /\ submitter \in {"off", "running", "waiting", "done"}
    /\ pool \in Seq(Hashes) /\ active \in [Workers -> Hashes \cup {None}]
    /\ exc \in BOOLEAN
    /\ txn \subseteq Hashes /\ trees \subseteq Hashes /\ objects \subseteq Hashes
    /\ snapshots \subseteq [walk : Walks, root : Hashes, failed : BOOLEAN, clean : BOOLEAN]
    /\ clean \in BOOLEAN /\ runs \in 0..MaxRuns

\* A commit in the database is the whole directory that was walked: its root is
\* the root of the walk and every directory of it has its Tree.  The visitor
\* may die anywhere in the walk, and the loop of run ends the same way then;
\* only the exit callback on its future keeps the part from being published.
SnapshotComplete ==
    \A s \in snapshots : s.root = s.walk[Len(s.walk)].hash /\ DirsOf(s.walk) \subseteq trees

\* A commit that fails, wherever it does, leaves no Tree behind.
NoPartialTrees == trees \subseteq UNION {DirsOf(s.walk) : s \in snapshots}

\* Once a commit is in the database the object storage has every blob of its
\* directory, if no upload failed and the shared queue was empty when the commit
\* started: nothing that was hashed is dropped on its way through the two
\* queues and the pool, whatever the threads' order.
StoredIfClean ==
    \A s \in snapshots : s.clean /\ ~s.failed => BlobsOf(s.walk) \subseteq objects

\* When the builder has been left no thread it started still runs and no upload
\* is pending, whichever exception ended it: the next commit starts alone.
NoOrphanThreads ==
    pc \in {"finish", "idle"} =>
        /\ visitor # "running" /\ submitter \notin {"running", "waiting"}
        /\ pool = <<>> /\ \A w \in Workers : active[w] = None

\* After a commit that found the queue of all builders empty it is empty again,
\* however the commit ended: its submit thread has consumed all its items and
\* exactly one sentinel, be it that of run or that of the exit of the uploader.
\* Only an exception after run has put its own makes them two.
QueueClean == pc = "idle" /\ clean => uq = <<>>

\* Every commit in the database has all its blobs in the object storage.
\* docs/reference/data-model.md:31 promises it; it does not hold.
EveryBlobStored == \A s \in snapshots : BlobsOf(s.walk) \subseteq objects

\* A commit comes to an end, with success or with an exception: no exception of
\* any thread leaves another one waiting on a queue for ever.
CommitReturns == (pc # "idle") ~> (pc = "idle")

\* What the pipeline promises its callers.  A snapshot is sound if no upload of it
\* failed and its queue was clean.
Store == INSTANCE SnapshotStore WITH
    Sources <- {[root |-> w[Len(w)].hash, dirs |-> DirsOf(w), blobs |-> BlobsOf(w)] : w \in Walks},
    published <- {[root |-> s.root, dirs |-> DirsOf(s.walk), blobs |-> BlobsOf(s.walk),
                   sound |-> s.clean /\ ~s.failed] : s \in snapshots}

\* The pipeline implements SnapshotStore, whatever fails: trees and commit appear
\* in one step, whole, and over stored blobs if the snapshot is sound.
ImplementsStore == Store!Spec
=============================================================================
