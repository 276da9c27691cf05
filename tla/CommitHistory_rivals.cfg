SPECIFICATION Spec
CONSTANTS
    c1 = c1
    c2 = c2
    m = m
    d = d
    a = a
    b = b
    s = s
    t = t
    x = x
    y = y
    NoName = NoName
    NoNode = NoNode
    NoClient = NoClient
    Clients = {c1, c2}
    Branches = {m, d}
    Names = {a, b}
    Stamps = {s, t}
    Trees = {x, y}
    TreeOf <- TwoTrees
    MaxOps = 4
    Ops <- Rivals
INVARIANTS
    TypeOK
    HistoryOrdered
    LogDescends
    OnlyOvertakingLoses
    OnlyOvertakingForks
    UniqueAdds
PROPERTIES
    ImplementsLog
