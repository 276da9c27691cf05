SPECIFICATION Spec
CONSTANTS
    x = x
    y = y
    p = p
    q = q
    NewLine = NewLine
    Signs <- SpellingSigns
    Spelling <- PlainSpelling
    None = None
    Nodes <- FullNodes
    Roots <- Pairs
    MaxCommits = 1
    MaxDiffs = 0
    Limit = 3
    Heights = {5, 9}
    Depth <- DepthOf
    MaxDepth = 3
INVARIANTS
    ChildrenListed
