SPECIFICATION Spec
CONSTANTS
    t1 = t1
    t2 = t2
    t3 = t3
    k1 = k1
    k2 = k2
    None = None
    Threads = {t1, t2, t3}
    Keys = {k1, k2}
    Backends = {"fake", "remote", "local"}
    MaxOps = 5
SYMMETRY Symmetric
INVARIANTS
    TypeOK
    PartsExplained
    RawOnlyAfterDelete
PROPERTIES
    ImplementsObjectStore
