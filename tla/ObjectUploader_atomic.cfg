SPECIFICATION Spec
CONSTANTS
    p1 = p1
    p2 = p2
    w1 = w1
    w2 = w2
    x = x
    y = y
    a = a
    b = b
    Hole = Hole
    NoJob = NoJob
    Committers = {p1, p2}
    Workers = {w1, w2}
    PoolOf <- TwoProcesses
    Paths = {x, y}
    Chunks = {a, b}
    Versions <- AllKinds
    Atomic = TRUE
    Faults = {"storage", "crash", "between"}
    MaxCommits = 3
SYMMETRY Symmetric
INVARIANTS
    PublishedRestorable
    ContentAddressed
    TypeOK
