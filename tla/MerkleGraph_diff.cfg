SPECIFICATION Spec
CONSTANTS
    x = x
    y = y
    p = p
    q = q
    NewLine = NewLine
    Signs <- SpellingSigns
    Spelling <- PlainSpelling
    None = None
    Nodes <- FullNodes
    Roots <- Pairs
    MaxCommits = 3
    MaxDiffs = 1
    Limit = 3
    Heights = {5, 9}
    Depth <- DepthOf
    MaxDepth = 3
INVARIANTS
    TypeOK
    GraphFaithful
    LookupAgrees
    SearchAgrees
    ChildrenAgree
    PaneExact
    DiffExact
PROPERTIES
    TreesImmutable
