SPECIFICATION Spec
CONSTANTS
    x = x
    y = y
    p = p
    q = q
    NewLine = NewLine
    Signs <- SpellingSigns
    Spelling <- NewLineSpelling
    None = None
    Nodes <- AlikeNodes
    Roots <- AlikeRoots
    MaxCommits = 2
    MaxDiffs = 0
    Limit = 3
    Heights = {5, 9}
    Depth <- DepthOf
    MaxDepth = 2
INVARIANTS
    HashUnambiguous
