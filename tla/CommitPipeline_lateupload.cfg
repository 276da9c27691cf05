SPECIFICATION Spec
CONSTANTS
    f1 = f1
    f2 = f2
    d1 = d1
    d2 = d2
    w1 = w1
    w2 = w2
    None = None
    Hashes <- MCHashes
    Workers <- MCWorkers
    Walks <- MCWalks
    Faults = {"storage"}
    MaxRuns = 1
INVARIANTS
    EveryBlobStored
