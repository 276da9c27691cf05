SPECIFICATION ConsoleSpec
CONSTANTS
    p1 = p1
    w1 = w1
    w2 = w2
    x = x
    y = y
    a = a
    main = main
    i1 = i1
    i2 = i2
    Hole = Hole
    NoJob = NoJob
    None = None
    Committers = {p1}
    Workers = {w1, w2}
    PoolOf <- OneProcess
    Paths = {x, y}
    Idents = {main, i1, i2}
    Main = main
    Chunks = {a}
    Versions <- Readable
    Atomic = FALSE
    Faults = {"storage", "crash", "edit"}
    MaxCommits = 2
SYMMETRY Symmetric
INVARIANTS
    ConsoleTypeOK
    PublishedPresent
    NumbersDense
    OwnDrivers
    RowShowsUpload
    FilesAccounted
