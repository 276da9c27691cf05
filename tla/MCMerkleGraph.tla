--------------------------- MODULE MCMerkleGraph ---------------------------
(* Instances of MerkleGraph for TLC *)
EXTENDS MerkleGraph, TLC

CONSTANTS
    x, y,   \* pieces of text
    p, q    \* letters

File(text) == [kind |-> "file", text |-> text]
Link(text) == [kind |-> "link", text |-> text, leads |-> TRUE]
Dir(kids)  == [kind |-> "dir", kids |-> kids]

\* as the first of Inner, but for the name
Renamed == Dir(2 :> File(<<x>>))

Leaves == {File(<<x>>), File(<<y>>), Link(<<y>>)}
Inner  == {Dir(1 :> File(<<x>>)),
           Dir(1 :> File(<<y>>) @@ 2 :> File(<<x>>) @@ 3 :> File(<<x>>)),
           Dir(2 :> Link(<<y>>) @@ 3 :> Renamed)}

\* a directory of up to two entries, the first a file or a directory, the second
\* a link to a directory or a directory; so that entries come, go, change
\* their contents and their kind, and share what is below them
Some == Inner \cup {File(<<x>>), File(<<y>>)}
Pairs ==
    {Dir(1 :> m) : m \in Some}
    \cup {Dir(1 :> m @@ 2 :> n) :
              m \in Inner \cup {File(<<x>>)}, n \in {Link(<<y>>), Dir(1 :> File(<<x>>))}}

FullNodes == Leaves \cup {Renamed} \cup Inner \cup Pairs

\* an empty file, an empty directory, and directories that hold one of them
Empties    == {File(<<>>), Dir(<<>>)}
EmptyRoots == {Dir(1 :> n) : n \in Empties}

\* a directory with two names, and one whose only name spells the line of the first
\* of them, a newline, and the second
NewLineRoots == {Dir(1 :> File(<<x>>) @@ 2 :> File(<<x>>)), Dir(4 :> File(<<x>>))}

AlikeRoots == EmptyRoots \cup NewLineRoots
AlikeNodes == Empties \cup {File(<<x>>)} \cup AlikeRoots

PlainSpelling   == <<<<p>>, <<q>>, <<p, q>>>>
NewLineSpelling == Append(PlainSpelling, <<p, <<x>>, NewLine, q>>)
SpellingSigns   == {p, q, NewLine, <<x>>}

DepthOf[n \in Nodes] ==
    IF n.kind # "dir" THEN 0 ELSE Max({0} \cup {1 + DepthOf[n.kids[m]] : m \in DOMAIN n.kids})
=============================================================================
