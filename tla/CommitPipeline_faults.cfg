SPECIFICATION FairSpec
CONSTANTS
    f1 = f1
    f2 = f2
    d1 = d1
    d2 = d2
    w1 = w1
    w2 = w2
    None = None
    Hashes <- MCHashes
    Workers <- MCWorkers
    Walks <- MCWalks
    Faults = {"walk", "storage", "merge", "interrupt", "late", "publish", "crash"}
    MaxRuns = 2
INVARIANTS
    TypeOK
    SnapshotComplete
    NoPartialTrees
    StoredIfClean
    NoOrphanThreads
    QueueClean
PROPERTIES
    CommitReturns
    ImplementsStore
\* A thread that waits for ever is what CommitReturns is about.
CHECK_DEADLOCK FALSE
