SPECIFICATION Spec
CONSTANTS
    p1 = p1
    p2 = p2
    w1 = w1
    w2 = w2
    x = x
    y = y
    a = a
    b = b
    Hole = Hole
    NoJob = NoJob
    Committers = {p1}
    Workers = {w1, w2}
    PoolOf <- OneProcess
    Paths = {x, y}
    Chunks = {a, b}
    Versions <- Readable
    Atomic = FALSE
    Faults = {"crash"}
    MaxCommits = 2
SYMMETRY PathSymmetry
INVARIANTS
    PublishedRestorable
