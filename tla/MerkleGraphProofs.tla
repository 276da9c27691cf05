-------------------------- MODULE MerkleGraphProofs --------------------------
(***************************************************************************)
(* Proofs about MerkleGraph, for any files and directories.                *)
(*                                                                         *)
(* A Tree is shared by all directories of its hash, so it must have been   *)
(* merged with the entries of each of them.  That is so if directories of  *)
(* one hash have the same entries, which is what a hash without kinds, of  *)
(* names that may have newlines, does not give by itself (HashUnambiguous) *)
(* and has to be assumed.  It is so if no file has the hash of a directory *)
(* (KindsApart) and no name a newline (PlainNames).                        *)
(*                                                                         *)
(* A diff takes hashes for contents, so it needs more: that equal hashes   *)
(* have equal contents, and equal contents equal hashes (Telling).         *)
(***************************************************************************)
EXTENDS MerkleGraph, FiniteSetTheorems, SequenceTheorems, WellFoundedInduction, TLAPS

Dirs == {n \in Nodes : n.kind = "dir"}

Name == Nat

\* Directories of one hash have the same entries.
HashFixesEntries == \A m, n \in Dirs : Hash[m] = Hash[n] => EdgesOf(m) = EdgesOf(n)

\* What is in the database are directories, whole ones.
TreesInv ==
    /\ \A e \in edges : e.parent \in trees
    /\ \A t \in trees : \E n \in Dirs : Hash[n] = t /\ EntriesOf(t) = EdgesOf(n)

-----------------------------------------------------------------------------
\* The entries of a directory are the edges of its Tree.
LEMMA EdgesOfParent ==
    ASSUME NEW n, NEW e \in EdgesOf(n)
    PROVE  e.parent = Hash[n]
BY DEF EdgesOf

\* A commit merges each of its directories, whole, and nothing else.
LEMMA CommitMerges ==
    ASSUME NEW d, Commit(d)
    PROVE  \E S \in SUBSET Dirs :
               /\ trees' = trees \cup {Hash[n] : n \in S}
               /\ edges' = edges \cup UNION {EdgesOf(n) : n \in S}
<1> DEFINE all == {n \in Nodes : n \in Within[d]}
           S   == {n \in all : n.kind = "dir"}
<1>1. S \in SUBSET Dirs
    BY DEF Dirs
<1>2. trees' = trees \cup {Hash[n] : n \in S}
    BY DEF Commit
<1>3. edges' = edges \cup UNION {EdgesOf(n) : n \in S}
    BY DEF Commit
<1> QED
    BY <1>1, <1>2, <1>3

\* It leaves the Trees that are there as they are.
LEMMA CommitKeeps ==
    ASSUME HashFixesEntries, TreesInv, NEW d, Commit(d), NEW t \in trees
    PROVE  {e \in edges' : e.parent = t} = EntriesOf(t)
<1>1. PICK S \in SUBSET Dirs : edges' = edges \cup UNION {EdgesOf(n) : n \in S}
    BY CommitMerges
<1>2. PICK m \in Dirs : Hash[m] = t /\ EntriesOf(t) = EdgesOf(m)
    BY DEF TreesInv
<1>3. ASSUME NEW e \in edges', e.parent = t
      PROVE  e \in EntriesOf(t)
    <2>1. CASE e \in edges
        BY <2>1, <1>3 DEF EntriesOf
    <2>2. CASE \E n \in S : e \in EdgesOf(n)
        <3>1. PICK n \in S : e \in EdgesOf(n)
            BY <2>2
        <3>2. Hash[n] = Hash[m]
            BY <3>1, <1>2, <1>3, EdgesOfParent
        <3>3. EdgesOf(n) = EdgesOf(m)
            BY <3>2 DEF HashFixesEntries
        <3> QED
            BY <3>1, <3>3, <1>2
    <2> QED
        BY <1>1, <1>3, <2>1, <2>2
<1>4. ASSUME NEW e \in EntriesOf(t)
      PROVE  e \in edges' /\ e.parent = t
    BY <1>4, <1>1 DEF EntriesOf
<1> QED
    BY <1>3, <1>4

\* The Trees it adds have the entries of their directories.
LEMMA CommitAdds ==
    ASSUME HashFixesEntries, TreesInv, NEW d, Commit(d), NEW t \in trees', t \notin trees
    PROVE  \E n \in Dirs : Hash[n] = t /\ {e \in edges' : e.parent = t} = EdgesOf(n)
<1>1. PICK S \in SUBSET Dirs :
          /\ trees' = trees \cup {Hash[n] : n \in S}
          /\ edges' = edges \cup UNION {EdgesOf(n) : n \in S}
    BY CommitMerges
<1>2. PICK n \in S : Hash[n] = t
    BY <1>1
<1>3. ASSUME NEW e \in edges', e.parent = t
      PROVE  e \in EdgesOf(n)
    <2>1. e \notin edges
        BY <1>3 DEF TreesInv
    <2>2. PICK m \in S : e \in EdgesOf(m)
        BY <1>1, <1>3, <2>1
    <2>3. Hash[m] = Hash[n]
        BY <2>2, <1>2, <1>3, EdgesOfParent
    <2>4. EdgesOf(m) = EdgesOf(n)
        BY <2>3 DEF HashFixesEntries
    <2> QED
        BY <2>2, <2>4
<1>4. ASSUME NEW e \in EdgesOf(n)
      PROVE  e \in edges' /\ e.parent = t
    BY <1>1, <1>2, <1>4, EdgesOfParent
<1> QED
    BY <1>2, <1>3, <1>4

\* Only a commit writes to the graph.
LEMMA OthersKeepGraph == [Next]_vars => (\E d \in Roots : Commit(d)) \/ UNCHANGED <<trees, edges>>
BY DEF Next, Diff, DiffStart, DiffYield, DiffEnter, DiffEnd, Terminated, vars, graph

LEMMA TreesStep == HashFixesEntries /\ TreesInv /\ [Next]_vars => TreesInv'
<1> SUFFICES ASSUME HashFixesEntries, TreesInv, [Next]_vars PROVE TreesInv'
    OBVIOUS
<1>1. CASE UNCHANGED <<trees, edges>>
    BY <1>1 DEF TreesInv, EntriesOf
<1>2. ASSUME NEW d \in Roots, Commit(d) PROVE TreesInv'
    <2>1. PICK S \in SUBSET Dirs :
              /\ trees' = trees \cup {Hash[n] : n \in S}
              /\ edges' = edges \cup UNION {EdgesOf(n) : n \in S}
        BY <1>2, CommitMerges
    <2>2. ASSUME NEW e \in edges' PROVE e.parent \in trees'
        BY <2>1, <2>2, EdgesOfParent DEF TreesInv
    <2>3. ASSUME NEW t \in trees'
          PROVE  \E n \in Dirs : Hash[n] = t /\ {e \in edges' : e.parent = t} = EdgesOf(n)
        <3>1. CASE t \in trees
            BY <3>1, <1>2, CommitKeeps DEF TreesInv
        <3>2. CASE t \notin trees
            BY <3>2, <2>3, <1>2, CommitAdds
        <3> QED
            BY <3>1, <3>2
    <2> QED
        BY <2>2, <2>3 DEF TreesInv, EntriesOf
<1> QED
    BY <1>1, <1>2, OthersKeepGraph

\* If the hash of a directory fixes its entries, no commit ever changes a Tree that
\* is in the database: what was committed is shared, never rewritten.
THEOREM KeepsTrees == HashFixesEntries /\ Spec => TreesImmutable
<1> SUFFICES ASSUME HashFixesEntries PROVE Spec => TreesImmutable
    OBVIOUS
<1>1. Init => TreesInv
    BY DEF Init, TreesInv
<1>2. TreesInv /\ [Next]_vars => TreesInv'
    BY TreesStep
<1>3. TreesInv /\ [Next]_vars => [\A t \in trees : {e \in edges' : e.parent = t} = EntriesOf(t)]_vars
    <2> SUFFICES ASSUME TreesInv, [Next]_vars, NEW t \in trees
                 PROVE  {e \in edges' : e.parent = t} = EntriesOf(t)
        OBVIOUS
    <2>1. CASE UNCHANGED <<trees, edges>>
        BY <2>1 DEF EntriesOf
    <2>2. CASE \E d \in Roots : Commit(d)
        BY <2>2, CommitKeeps
    <2> QED
        BY <2>1, <2>2, OthersKeepGraph
<1> QED
    BY <1>1, <1>2, <1>3, PTL DEF Spec, TreesImmutable

-----------------------------------------------------------------------------
(* Least elements, in place of induction *)

LEMMA LeastNat ==
    ASSUME NEW T \in SUBSET Nat, T # {}
    PROVE  \E m \in T : \A k \in T : m <= k
<1>1. \E m \in T : \A k \in T : ~(<<k, m>> \in OpToRel(<, Nat))
    BY NatLessThanWellFounded, WFMin
<1>2. PICK m \in T : \A k \in T : <<k, m>> \notin OpToRel(<, Nat)
    BY <1>1
<1>3. \A k \in T : ~(k < m)
    BY <1>2 DEF OpToRel
<1> QED
    BY <1>3

\* Of some nodes there is a lowest one.
LEMMA Lowest ==
    ASSUME NEW S \in SUBSET Nodes, S # {}
    PROVE  \E n \in S : \A m \in Nodes : Depth[m] < Depth[n] => m \notin S
<1> DEFINE T == {k \in Nat : \E n \in S : Depth[n] = k}
<1>1. \A n \in Nodes : Depth[n] \in Nat
    BY NodesAssumption
<1>2. T # {}
    BY <1>1
<1>3. PICK k \in T : \A l \in T : k <= l
    BY <1>2, LeastNat
<1>4. PICK n \in S : Depth[n] = k
    BY <1>3
<1>5. \A m \in S : Depth[n] <= Depth[m]
    BY <1>1, <1>3, <1>4
<1> QED
    BY <1>1, <1>5

LEMMA Kids ==
    ASSUME NEW d \in Dirs
    PROVE  /\ d \in Nodes /\ d.kind = "dir" /\ IsFiniteSet(DOMAIN d.kids)
           /\ \A n \in DOMAIN d.kids :
                  n \in Name /\ d.kids[n] \in Nodes /\ Depth[d.kids[n]] < Depth[d]
BY NodesAssumption DEF Dirs, Name

-----------------------------------------------------------------------------
(* Functions of nodes that are defined by what is below: there is one, and it is what *)
(* its definition says.                                                               *)

Low(k) == {n \in Nodes : Depth[n] < k}

LEMMA LowKids ==
    ASSUME NEW k \in Nat, k # 0, NEW n \in Low(k), n.kind = "dir", NEW m \in DOMAIN n.kids
    PROVE  n.kids[m] \in Low(k - 1) /\ n.kids[m] \in Low(k)
<1>1. n \in Dirs /\ Depth[n] \in Nat /\ Depth[n.kids[m]] \in Nat /\ Depth[n] < k
    BY NodesAssumption DEF Low, Dirs
<1> QED
    BY <1>1, Kids DEF Low

LEMMA LowAll == MaxDepth + 1 \in Nat /\ Low(MaxDepth + 1) = Nodes /\ Low(0) = {}
BY NodesAssumption DEF Low

WithinStep(f, n) == {n} \cup (IF n.kind # "dir" THEN {} ELSE UNION {f[n.kids[m]] : m \in DOMAIN n.kids})

LEMMA WithinExists == \E f : f = [n \in Nodes |-> WithinStep(f, n)]
<1> DEFINE T == {k \in Nat : ~\E f : f = [n \in Low(k) |-> WithinStep(f, n)]}
<1>1. ASSUME T # {} PROVE FALSE
    <2>1. PICK k \in T : \A j \in T : k <= j
        BY <1>1, LeastNat
    <2>2. k # 0
        <3>1. <<>> = [n \in Low(0) |-> WithinStep(<<>>, n)]
            BY LowAll
        <3> QED
            BY <3>1
    <2>3. k \in Nat /\ k - 1 \in Nat /\ k - 1 \notin T
        BY <2>1, <2>2
    <2>4. PICK f : f = [n \in Low(k - 1) |-> WithinStep(f, n)]
        BY <2>3
    <2> DEFINE g == [n \in Low(k) |-> WithinStep(f, n)]
    <2>5. ASSUME NEW n \in Low(k) PROVE WithinStep(f, n) = WithinStep(g, n)
        <3>1. ASSUME n.kind = "dir", NEW m \in DOMAIN n.kids PROVE f[n.kids[m]] = g[n.kids[m]]
            <4>1. n.kids[m] \in Low(k - 1) /\ n.kids[m] \in Low(k)
                BY <2>2, <3>1, LowKids
            <4> QED
                BY <4>1, <2>4
        <3> HIDE DEF g
        <3> QED
            BY <3>1 DEF WithinStep
    <2>6. g = [n \in Low(k) |-> WithinStep(g, n)]
        BY <2>5
    <2> QED
        BY <2>1, <2>6
<1> QED
    BY <1>1, LowAll

LEMMA WithinIs ==
    ASSUME NEW n \in Nodes
    PROVE  Within[n] = {n} \cup (IF n.kind # "dir" THEN {}
                                ELSE UNION {Within[n.kids[m]] : m \in DOMAIN n.kids})
<1>1. Within = [k \in Nodes |-> WithinStep(Within, k)]
    BY WithinExists DEF Within, WithinStep
<1> QED
    BY <1>1 DEF WithinStep

ListingStep(f, n) ==
    IF n.kind # "dir" THEN {}
    ELSE UNION {{[path |-> <<m>>, node |-> n.kids[m]]}
                \cup {[path |-> <<m>> \o x.path, node |-> x.node] : x \in f[n.kids[m]]} :
                    m \in DOMAIN n.kids}

LEMMA ListingExists == \E f : f = [n \in Nodes |-> ListingStep(f, n)]
<1> DEFINE T == {k \in Nat : ~\E f : f = [n \in Low(k) |-> ListingStep(f, n)]}
<1>1. ASSUME T # {} PROVE FALSE
    <2>1. PICK k \in T : \A j \in T : k <= j
        BY <1>1, LeastNat
    <2>2. k # 0
        <3>1. <<>> = [n \in Low(0) |-> ListingStep(<<>>, n)]
            BY LowAll
        <3> QED
            BY <3>1
    <2>3. k \in Nat /\ k - 1 \in Nat /\ k - 1 \notin T
        BY <2>1, <2>2
    <2>4. PICK f : f = [n \in Low(k - 1) |-> ListingStep(f, n)]
        BY <2>3
    <2> DEFINE g == [n \in Low(k) |-> ListingStep(f, n)]
    <2>5. ASSUME NEW n \in Low(k) PROVE ListingStep(f, n) = ListingStep(g, n)
        <3>1. ASSUME n.kind = "dir", NEW m \in DOMAIN n.kids PROVE f[n.kids[m]] = g[n.kids[m]]
            <4>1. n.kids[m] \in Low(k - 1) /\ n.kids[m] \in Low(k)
                BY <2>2, <3>1, LowKids
            <4> QED
                BY <4>1, <2>4
        <3> HIDE DEF g
        <3>2. CASE n.kind = "dir"
            <4> DEFINE Part(h, m) == {[path |-> <<m>>, node |-> n.kids[m]]}
                                     \cup {[path |-> <<m>> \o x.path, node |-> x.node] : x \in h[n.kids[m]]}
            <4>1. \A m \in DOMAIN n.kids : Part(f, m) = Part(g, m)
                BY <3>1, <3>2
            <4>2. ListingStep(f, n) = UNION {Part(f, m) : m \in DOMAIN n.kids}
                BY <3>2 DEF ListingStep
            <4>3. ListingStep(g, n) = UNION {Part(g, m) : m \in DOMAIN n.kids}
                BY <3>2 DEF ListingStep
            <4> HIDE DEF Part
            <4> QED
                BY <4>1, <4>2, <4>3
        <3> QED
            BY <3>2 DEF ListingStep
    <2>6. g = [n \in Low(k) |-> ListingStep(g, n)]
        BY <2>5
    <2> QED
        BY <2>1, <2>6
<1> QED
    BY <1>1, LowAll

LEMMA ListingIs ==
    ASSUME NEW n \in Nodes
    PROVE  Listing[n] = ListingStep(Listing, n)
<1>1. Listing = [k \in Nodes |-> ListingStep(Listing, k)]
    BY ListingExists DEF Listing, ListingStep
<1> QED
    BY <1>1

-----------------------------------------------------------------------------
(* What is below a directory *)

Spot(p, n) == [path |-> p, node |-> n]
Under(m, y) == Spot(<<m>> \o y.path, y.node)
Entry(z, m) == Spot(Append(z.path, m), z.node.kids[m])

\* A node and what is below it
Reaches(n) == Listing[n] \cup {Spot(<<>>, n)}

LEMMA Paths ==
    ASSUME NEW m \in Name
    PROVE  /\ <<m>> \in Seq(Name) /\ Len(<<m>>) = 1 /\ <<m>> \o <<>> = <<m>> /\ Append(<<>>, m) = <<m>>
           /\ \A p \in Seq(Name) : <<m>> \o p \in Seq(Name) /\ Len(<<m>> \o p) = Len(p) + 1
           /\ \A p \in Seq(Name) : \A k \in Name : <<m>> \o Append(p, k) = Append(<<m>> \o p, k)
<1>1. <<m>> \in Seq(Name) /\ Len(<<m>>) = 1 /\ Append(<<>>, m) = <<m>>
    OBVIOUS
<1>2. <<m>> \o <<>> = <<m>>
    BY <1>1, ConcatEmptySeq
<1>3. ASSUME NEW p \in Seq(Name) PROVE <<m>> \o p \in Seq(Name) /\ Len(<<m>> \o p) = Len(p) + 1
    <2>1. Len(p) \in Nat
        BY LenProperties
    <2>2. <<m>> \o p \in Seq(Name) /\ Len(<<m>> \o p) = Len(<<m>>) + Len(p)
        BY <1>1, ConcatProperties
    <2> QED
        BY <1>1, <2>1, <2>2
<1>4. ASSUME NEW p \in Seq(Name), NEW k \in Name PROVE <<m>> \o Append(p, k) = Append(<<m>> \o p, k)
    OBVIOUS
<1> QED
    BY <1>1, <1>2, <1>3, <1>4

LEMMA ListingStarts ==
    ASSUME NEW n \in Nodes, NEW x, n.kind = "dir",
           \A m \in DOMAIN n.kids : m \in Name
    PROVE  x \in Listing[n] <=> \E m \in DOMAIN n.kids : \E y \in Reaches(n.kids[m]) : x = Under(m, y)
<1>1. x \in Listing[n] <=>
          \E m \in DOMAIN n.kids :
              x = Spot(<<m>>, n.kids[m]) \/ \E y \in Listing[n.kids[m]] : x = Under(m, y)
    <2> DEFINE Part(m) == {[path |-> <<m>>, node |-> n.kids[m]]}
                          \cup {[path |-> <<m>> \o y.path, node |-> y.node] : y \in Listing[n.kids[m]]}
    <2>1. Listing[n] = UNION {Part(m) : m \in DOMAIN n.kids}
        BY ListingIs DEF ListingStep
    <2>2. \A m : x \in Part(m) <=>
                     x = Spot(<<m>>, n.kids[m]) \/ \E y \in Listing[n.kids[m]] : x = Under(m, y)
        BY DEF Spot, Under
    <2> HIDE DEF Part
    <2> QED
        BY <2>1, <2>2
<1>2. ASSUME NEW m \in DOMAIN n.kids
      PROVE  Spot(<<m>>, n.kids[m]) = Under(m, Spot(<<>>, n.kids[m]))
    <2>1. m \in Name
        OBVIOUS
    <2>2. <<m>> \o <<>> = <<m>>
        BY <2>1, Paths
    <2> QED
        BY <2>2 DEF Under, Spot
<1> QED
    BY <1>1, <1>2 DEF Reaches

LEMMA ListingFile == ASSUME NEW n \in Nodes, n.kind # "dir" PROVE Listing[n] = {}
BY ListingIs DEF ListingStep

IsBelow(x, n) ==
    /\ x.path \in Seq(Name) /\ x.node \in Nodes /\ x = Spot(x.path, x.node)
    /\ Len(x.path) \in Nat /\ Len(x.path) >= 1 /\ Len(x.path) + Depth[x.node] <= Depth[n]

LEMMA ListingTypes ==
    ASSUME NEW n \in Nodes, NEW x \in Listing[n]
    PROVE  IsBelow(x, n)
<1> DEFINE Bad == {k \in Nodes : ~\A y \in Listing[k] : IsBelow(y, k)}
<1>1. ASSUME Bad # {} PROVE FALSE
    <2>1. PICK k \in Bad : \A l \in Nodes : Depth[l] < Depth[k] => l \notin Bad
        BY <1>1, Lowest
    <2>2. PICK y \in Listing[k] : ~IsBelow(y, k)
        BY <2>1
    <2>3. k \in Dirs /\ Depth[k] \in Nat
        BY <2>2, ListingFile, NodesAssumption DEF Dirs
    <2>4. PICK m \in DOMAIN k.kids : \E z \in Reaches(k.kids[m]) : y = Under(m, z)
        BY <2>2, <2>3, Kids, ListingStarts
    <2>5. PICK l : l = k.kids[m]
        OBVIOUS
    <2>6. m \in Name /\ l \in Nodes /\ Depth[l] < Depth[k] /\ Depth[l] \in Nat
        BY <2>3, <2>5, Kids, NodesAssumption
    <2>7. PICK z \in Reaches(l) : y = Under(m, z)
        BY <2>4, <2>5
    <2>8. /\ z.path \in Seq(Name) /\ z.node \in Nodes
          /\ Len(z.path) \in Nat /\ Len(z.path) + Depth[z.node] <= Depth[l]
        <3>1. CASE z \in Listing[l]
            BY <3>1, <2>1, <2>6 DEF IsBelow
        <3>2. CASE z = Spot(<<>>, l)
            <4>1. z.path = <<>> /\ z.node = l
                BY <3>2 DEF Spot
            <4> QED
                BY <4>1, <2>6
        <3> QED
            BY <3>1, <3>2 DEF Reaches
    <2>9. y.path = <<m>> \o z.path /\ y.node = z.node /\ y = Spot(y.path, y.node)
        BY <2>7 DEF Under, Spot
    <2>10. y.path \in Seq(Name) /\ Len(y.path) = Len(z.path) + 1
        BY <2>6, <2>8, <2>9, Paths
    <2>11. Depth[z.node] \in Nat
        BY <2>8, NodesAssumption
    <2>12. /\ Len(y.path) \in Nat /\ Len(y.path) >= 1
           /\ Len(y.path) + Depth[z.node] <= Depth[k]
        BY <2>3, <2>6, <2>8, <2>10, <2>11
    <2> QED
        BY <2>2, <2>8, <2>9, <2>10, <2>12 DEF IsBelow
<1> QED
    BY <1>1

LEMMA ReachesTypes ==
    ASSUME NEW n \in Nodes, NEW z \in Reaches(n)
    PROVE  /\ z.path \in Seq(Name) /\ z.node \in Nodes /\ z = Spot(z.path, z.node)
           /\ Len(z.path) \in Nat /\ Len(z.path) + Depth[z.node] <= Depth[n]
           /\ Len(z.path) = 0 => z = Spot(<<>>, n)
<1>1. CASE z \in Listing[n]
    BY <1>1, ListingTypes DEF IsBelow
<1>2. CASE z = Spot(<<>>, n)
    <2>1. z.path = <<>> /\ z.node = n /\ Depth[n] \in Nat
        BY <1>2, NodesAssumption DEF Spot
    <2>2. <<>> \in Seq(Name) /\ Len(<<>>) = 0
        OBVIOUS
    <2>3. z.path \in Seq(Name) /\ Len(z.path) = 0
        BY <2>1, <2>2
    <2> QED
        BY <1>2, <2>1, <2>3
<1> QED
    BY <1>1, <1>2 DEF Reaches

\* A listing by its last names in place of its first ones
Ends(x, n) == \E z \in Reaches(n) : z.node.kind = "dir" /\ \E k \in DOMAIN z.node.kids : x = Entry(z, k)

LEMMA ListingEnds ==
    ASSUME NEW n \in Nodes, NEW x
    PROVE  x \in Listing[n] <=> Ends(x, n)
<1> DEFINE Bad == {k \in Nodes : ~\A y : y \in Listing[k] <=> Ends(y, k)}
<1>1. ASSUME Bad # {} PROVE FALSE
    <2>1. PICK d \in Bad : \A l \in Nodes : Depth[l] < Depth[d] => l \notin Bad
        BY <1>1, Lowest
    <2>2. CASE d.kind # "dir"
        <3>1. Listing[d] = {} /\ Reaches(d) = {Spot(<<>>, d)}
            BY <2>2, ListingFile DEF Reaches
        <3>2. \A y : ~Ends(y, d)
            BY <2>2, <3>1 DEF Ends, Spot
        <3> QED
            BY <2>1, <3>1, <3>2
    <2>3. CASE d.kind = "dir"
        <3>1. d \in Dirs
            BY <2>3 DEF Dirs
        <3>2. \A m \in DOMAIN d.kids : m \in Name /\ d.kids[m] \in Nodes /\ d.kids[m] \notin Bad
            BY <2>1, <3>1, Kids
        <3>3. \A y : y \in Listing[d] <=>
                         \E m \in DOMAIN d.kids : \E z \in Reaches(d.kids[m]) : y = Under(m, z)
            BY <2>1, <2>3, <3>2, ListingStarts
        <3>4. ASSUME NEW m \in Name, NEW l \in Nodes, NEW z \in Reaches(l), z.node.kind = "dir",
                     NEW k \in DOMAIN z.node.kids
              PROVE  /\ Under(m, Entry(z, k)) = Entry(Under(m, z), k)
                     /\ Under(m, z).node = z.node /\ k \in Name
            <4>1. z.node \in Dirs /\ z.path \in Seq(Name)
                BY <3>4, ReachesTypes DEF Dirs
            <4>2. k \in Name
                BY <4>1, Kids
            <4>3. <<m>> \o Append(z.path, k) = Append(<<m>> \o z.path, k)
                BY <4>1, <4>2, Paths
            <4> QED
                BY <4>2, <4>3 DEF Under, Entry, Spot
        <3>5. ASSUME NEW y \in Listing[d] PROVE Ends(y, d)
            <4>1. PICK m \in DOMAIN d.kids : \E z \in Reaches(d.kids[m]) : y = Under(m, z)
                BY <3>3
            <4>2. PICK l : l = d.kids[m]
                OBVIOUS
            <4>3. m \in Name /\ l \in Nodes /\ \A x2 : x2 \in Listing[l] <=> Ends(x2, l)
                BY <3>2, <4>2
            <4>4. PICK z \in Reaches(l) : y = Under(m, z)
                BY <4>1, <4>2
            <4>5. CASE z = Spot(<<>>, l)
                <5>1. <<m>> \o <<>> = Append(<<>>, m)
                    BY <4>3, Paths
                <5>2. y = Entry(Spot(<<>>, d), m)
                    BY <4>2, <4>4, <4>5, <5>1 DEF Under, Entry, Spot
                <5>3. Spot(<<>>, d) \in Reaches(d) /\ Spot(<<>>, d).node = d
                    BY DEF Reaches, Spot
                <5> QED
                    BY <2>3, <5>2, <5>3 DEF Ends
            <4>6. CASE z \in Listing[l]
                <5>1. PICK v \in Reaches(l) :
                          v.node.kind = "dir" /\ \E k \in DOMAIN v.node.kids : z = Entry(v, k)
                    BY <4>3, <4>6 DEF Ends
                <5>2. PICK k \in DOMAIN v.node.kids : z = Entry(v, k)
                    BY <5>1
                <5>3. y = Entry(Under(m, v), k) /\ Under(m, v).node = v.node
                    BY <3>4, <4>3, <4>4, <5>1, <5>2
                <5>4. Under(m, v) \in Reaches(d)
                    BY <3>3, <4>2 DEF Reaches
                <5> QED
                    BY <5>1, <5>3, <5>4 DEF Ends
            <4> QED
                BY <4>4, <4>5, <4>6 DEF Reaches
        <3>6. ASSUME NEW y, Ends(y, d) PROVE y \in Listing[d]
            <4>1. PICK z \in Reaches(d) :
                      z.node.kind = "dir" /\ \E k \in DOMAIN z.node.kids : y = Entry(z, k)
                BY <3>6 DEF Ends
            <4>2. PICK k \in DOMAIN z.node.kids : y = Entry(z, k)
                BY <4>1
            <4>3. CASE z = Spot(<<>>, d)
                <5>1. z.path = <<>> /\ z.node = d
                    BY <4>3 DEF Spot
                <5>2. k \in DOMAIN d.kids /\ k \in Name
                    BY <3>2, <5>1
                <5>3. <<k>> \o <<>> = Append(<<>>, k)
                    BY <5>2, Paths
                <5>4. y = Under(k, Spot(<<>>, d.kids[k]))
                    BY <4>2, <5>1, <5>3 DEF Under, Entry, Spot
                <5> QED
                    BY <3>3, <5>2, <5>4 DEF Reaches
            <4>4. CASE z \in Listing[d]
                <5>1. PICK m \in DOMAIN d.kids : \E v \in Reaches(d.kids[m]) : z = Under(m, v)
                    BY <3>3, <4>4
                <5>2. PICK l : l = d.kids[m]
                    OBVIOUS
                <5>3. PICK v \in Reaches(l) : z = Under(m, v)
                    BY <5>1, <5>2
                <5>4. m \in Name /\ l \in Nodes /\ \A x2 : x2 \in Listing[l] <=> Ends(x2, l)
                    BY <3>2, <5>2
                <5>5. v.node = z.node
                    BY <5>3 DEF Under, Spot
                <5>6. y = Under(m, Entry(v, k))
                    BY <3>4, <4>1, <4>2, <5>3, <5>4, <5>5
                <5>7. Entry(v, k) \in Listing[l]
                    BY <4>1, <5>4, <5>5 DEF Ends
                <5> QED
                    BY <3>3, <5>2, <5>6, <5>7 DEF Reaches
            <4> QED
                BY <4>3, <4>4 DEF Reaches
        <3> QED
            BY <2>1, <3>5, <3>6
    <2> QED
        BY <2>2, <2>3
<1> QED
    BY <1>1

LEMMA Appends ==
    ASSUME NEW p \in Seq(Name), NEW m \in Name
    PROVE  /\ Append(p, m) \in Seq(Name) /\ Append(p, m) # <<>>
           /\ Len(p) \in Nat /\ Len(Append(p, m)) = Len(p) + 1
           /\ Append(p, m)[Len(p) + 1] = m /\ \A i \in 1..Len(p) : Append(p, m)[i] = p[i]
BY AppendProperties, LenProperties

LEMMA AppendsOnce ==
    ASSUME NEW p \in Seq(Name), NEW q \in Seq(Name), NEW m \in Name, NEW k \in Name,
           Append(p, m) = Append(q, k)
    PROVE  p = q /\ m = k
<1>1. /\ Len(p) \in Nat /\ Len(q) \in Nat
      /\ Len(p) + 1 = Len(q) + 1
      /\ Append(p, m)[Len(p) + 1] = m /\ Append(q, k)[Len(q) + 1] = k
      /\ \A i \in 1..Len(p) : Append(p, m)[i] = p[i]
      /\ \A i \in 1..Len(q) : Append(q, k)[i] = q[i]
    BY Appends
<1>2. Len(p) = Len(q) /\ m = k
    BY <1>1
<1>3. \A i \in 1..Len(p) : p[i] = q[i]
    BY <1>1, <1>2
<1> QED
    BY <1>2, <1>3

\* What is below a directory is an entry of it or of one below.
LEMMA Parents ==
    ASSUME NEW n \in Nodes, NEW x \in Listing[n]
    PROVE  \E z \in Reaches(n) : \E k \in Name :
               /\ z.node \in Dirs /\ k \in DOMAIN z.node.kids /\ x = Entry(z, k)
               /\ x.path = Append(z.path, k) /\ x.node = z.node.kids[k]
               /\ Len(x.path) = Len(z.path) + 1
<1>1. PICK z \in Reaches(n) : z.node.kind = "dir" /\ \E k \in DOMAIN z.node.kids : x = Entry(z, k)
    BY ListingEnds DEF Ends
<1>2. PICK k \in DOMAIN z.node.kids : x = Entry(z, k)
    BY <1>1
<1>3. z.node \in Dirs /\ z.path \in Seq(Name)
    BY <1>1, ReachesTypes DEF Dirs
<1>4. k \in Name
    BY <1>3, Kids
<1>5. x.path = Append(z.path, k) /\ x.node = z.node.kids[k]
    BY <1>2 DEF Entry, Spot
<1> QED
    BY <1>2, <1>3, <1>4, <1>5, Appends

LEMMA Children ==
    ASSUME NEW n \in Nodes, NEW z \in Reaches(n), z.node \in Dirs, NEW k \in DOMAIN z.node.kids
    PROVE  Entry(z, k) \in Listing[n]
BY ListingEnds DEF Ends, Dirs

\* There is one thing at a path.
LEMMA PathsOnce ==
    ASSUME NEW n \in Nodes, NEW x \in Reaches(n), NEW y \in Reaches(n), x.path = y.path
    PROVE  x = y
<1> DEFINE T == {l \in Nat : \E v, w \in Reaches(n) : v.path = w.path /\ v # w /\ Len(v.path) = l}
<1>1. ASSUME T # {} PROVE FALSE
    <2>1. PICK l \in T : \A j \in T : l <= j
        BY <1>1, LeastNat
    <2>2. PICK v \in Reaches(n), w \in Reaches(n) : v.path = w.path /\ v # w /\ Len(v.path) = l
        BY <2>1
    <2>3. v \in Listing[n] /\ w \in Listing[n]
        <3>1. Len(v.path) # 0
            BY <2>2, ReachesTypes
        <3>2. Len(<<>>) = 0
            OBVIOUS
        <3>3. \A z \in Reaches(n) : z \notin Listing[n] => z.path = <<>>
            BY DEF Reaches, Spot
        <3> QED
            BY <2>2, <3>1, <3>2, <3>3
    <2>4. PICK p \in Reaches(n), i \in Name :
              /\ v = Entry(p, i) /\ v.path = Append(p.path, i)
              /\ Len(v.path) = Len(p.path) + 1
        BY <2>3, Parents
    <2>5. PICK q \in Reaches(n), j \in Name :
              w = Entry(q, j) /\ w.path = Append(q.path, j)
        BY <2>3, Parents
    <2>6. p.path \in Seq(Name) /\ q.path \in Seq(Name) /\ Len(p.path) \in Nat
        BY ReachesTypes
    <2>7. p.path = q.path /\ i = j
        <3>1. PICK a, b : a = p.path /\ b = q.path
            OBVIOUS
        <3>2. a \in Seq(Name) /\ b \in Seq(Name) /\ i \in Name /\ j \in Name /\ Append(a, i) = Append(b, j)
            BY <2>2, <2>4, <2>5, <2>6, <3>1
        <3>3. a = b /\ i = j
            BY <3>2, AppendsOnce
        <3> QED
            BY <3>1, <3>3
    <2>8. Len(p.path) \notin T
        BY <2>1, <2>2, <2>4, <2>6
    <2>9. p = q
        BY <2>6, <2>7, <2>8
    <2> QED
        BY <2>2, <2>4, <2>5, <2>7, <2>9
<1>2. Len(x.path) \in Nat
    BY ReachesTypes
<1> QED
    BY <1>1, <1>2

LEMMA WithinNodes == ASSUME NEW n \in Nodes PROVE n \in Within[n] /\ Within[n] \subseteq Nodes
<1> DEFINE Bad == {k \in Nodes : ~(Within[k] \subseteq Nodes)}
<1>1. ASSUME Bad # {} PROVE FALSE
    <2>1. PICK k \in Bad : \A l \in Nodes : Depth[l] < Depth[k] => l \notin Bad
        BY <1>1, Lowest
    <2>2. CASE k.kind # "dir"
        BY <2>1, <2>2, WithinIs
    <2>3. CASE k.kind = "dir"
        <3>1. k \in Dirs
            BY <2>3 DEF Dirs
        <3>2. \A m \in DOMAIN k.kids : Within[k.kids[m]] \subseteq Nodes
            BY <2>1, <3>1, Kids
        <3>3. Within[k] = {k} \cup UNION {Within[k.kids[m]] : m \in DOMAIN k.kids}
            BY <2>1, <2>3, WithinIs
        <3> QED
            BY <2>1, <3>2, <3>3
    <2> QED
        BY <2>2, <2>3
<1>2. n \in Within[n]
    BY WithinIs
<1> QED
    BY <1>1, <1>2

\* With a directory a commit has all of its entries.
LEMMA WithinDown ==
    ASSUME NEW n \in Nodes, NEW d \in Within[n], d \in Dirs, NEW i \in DOMAIN d.kids
    PROVE  d.kids[i] \in Within[n]
<1> DEFINE Bad == {k \in Nodes : d \in Within[k] /\ d.kids[i] \notin Within[k]}
<1>1. ASSUME Bad # {} PROVE FALSE
    <2>1. PICK k \in Bad : \A l \in Nodes : Depth[l] < Depth[k] => l \notin Bad
        BY <1>1, Lowest
    <2>2. CASE k.kind # "dir"
        BY <2>1, <2>2, WithinIs DEF Dirs
    <2>3. CASE k.kind = "dir"
        <3>1. k \in Dirs
            BY <2>3 DEF Dirs
        <3>2. Within[k] = {k} \cup UNION {Within[k.kids[m]] : m \in DOMAIN k.kids}
            BY <2>1, <2>3, WithinIs
        <3>3. CASE d = k
            <4>1. d.kids[i] \in Nodes
                BY Kids
            <4>2. d.kids[i] \in Within[d.kids[i]]
                BY <4>1, WithinNodes
            <4> QED
                BY <2>1, <3>2, <3>3, <4>2
        <3>4. CASE d # k
            <4>1. PICK m \in DOMAIN k.kids : d \in Within[k.kids[m]]
                BY <2>1, <3>2, <3>4
            <4>2. k.kids[m] \notin Bad /\ k.kids[m] \in Nodes
                BY <2>1, <3>1, Kids
            <4> QED
                BY <2>1, <3>2, <4>1, <4>2
        <3> QED
            BY <3>3, <3>4
    <2> QED
        BY <2>2, <2>3
<1> QED
    BY <1>1

LEMMA ReachesWithin ==
    ASSUME NEW n \in Nodes, NEW x \in Reaches(n)
    PROVE  x.node \in Within[n]
<1> DEFINE T == {l \in Nat : \E v \in Reaches(n) : v.node \notin Within[n] /\ Len(v.path) = l}
<1>1. ASSUME T # {} PROVE FALSE
    <2>1. PICK l \in T : \A j \in T : l <= j
        BY <1>1, LeastNat
    <2>2. PICK v \in Reaches(n) : v.node \notin Within[n] /\ Len(v.path) = l
        BY <2>1
    <2>3. v \in Listing[n]
        BY <2>2, WithinNodes DEF Reaches, Spot
    <2>4. PICK p \in Reaches(n), i \in Name :
              /\ p.node \in Dirs /\ i \in DOMAIN p.node.kids /\ v.node = p.node.kids[i]
              /\ Len(v.path) = Len(p.path) + 1
        BY <2>3, Parents
    <2>5. Len(p.path) \in Nat
        BY ReachesTypes
    <2>6. Len(p.path) \notin T
        BY <2>1, <2>2, <2>4, <2>5
    <2>7. p.node \in Within[n]
        BY <2>5, <2>6
    <2> QED
        BY <2>2, <2>4, <2>7, WithinDown
<1>2. Len(x.path) \in Nat
    BY ReachesTypes
<1> QED
    BY <1>1, <1>2

-----------------------------------------------------------------------------
(* Finite sets *)

LEMMA FiniteImage ==
    ASSUME NEW S, IsFiniteSet(S), NEW f
    PROVE  IsFiniteSet({f[x] : x \in S})
<1> DEFINE T == {f[x] : x \in S}
           g == [x \in S |-> f[x]]
<1>1. g \in Surjection(S, T)
    BY DEF Surjection
<1> QED
    BY <1>1, FS_Surjection

LEMMA FiniteUnion ==
    ASSUME NEW S, IsFiniteSet(S), NEW f, \A x \in S : IsFiniteSet(f[x])
    PROVE  IsFiniteSet(UNION {f[x] : x \in S})
<1> DEFINE All(R) == UNION {f[x] : x \in R}
           T == {k \in Nat : \E R \in SUBSET S : Cardinality(R) = k /\ ~IsFiniteSet(All(R))}
<1>1. ASSUME T # {} PROVE FALSE
    <2>1. PICK k \in T : \A l \in T : k <= l
        BY <1>1, LeastNat
    <2>2. PICK R \in SUBSET S : Cardinality(R) = k /\ ~IsFiniteSet(All(R))
        BY <2>1
    <2>3. IsFiniteSet(R)
        BY FS_Subset
    <2>4. R # {}
        <3>1. All({}) = {}
            OBVIOUS
        <3> QED
            BY <2>2, <3>1, FS_EmptySet
    <2>5. PICK y \in R : TRUE
        BY <2>4
    <2>6. Cardinality(R \ {y}) = k - 1 /\ Cardinality(R \ {y}) \in Nat
        BY <2>2, <2>3, <2>5, FS_RemoveElement, FS_CardinalityType
    <2>7. IsFiniteSet(All(R \ {y}))
        <3>1. k \in Nat /\ k - 1 \in Nat /\ ~(k <= k - 1)
            BY <2>1, <2>6
        <3>2. k - 1 \notin T
            BY <2>1, <3>1
        <3>3. R \ {y} \in SUBSET S
            OBVIOUS
        <3> QED
            BY <2>6, <3>2, <3>3
    <2>8. All(R) = All(R \ {y}) \cup f[y]
        BY <2>5
    <2> HIDE DEF All
    <2>9. IsFiniteSet(All(R \ {y}) \cup f[y])
        BY <2>5, <2>7, FS_Union
    <2> QED
        BY <2>2, <2>8, <2>9
<1>2. Cardinality(S) \in Nat /\ S \in SUBSET S
    BY FS_CardinalityType
<1>3. IsFiniteSet(All(S))
    BY <1>1, <1>2
<1> QED
    BY <1>3

LEMMA WithinFinite == ASSUME NEW n \in Nodes PROVE IsFiniteSet(Within[n])
<1> DEFINE Bad == {k \in Nodes : ~IsFiniteSet(Within[k])}
<1>1. ASSUME Bad # {} PROVE FALSE
    <2>1. PICK k \in Bad : \A l \in Nodes : Depth[l] < Depth[k] => l \notin Bad
        BY <1>1, Lowest
    <2>2. CASE k.kind # "dir"
        <3>1. Within[k] = {k}
            BY <2>1, <2>2, WithinIs
        <3>2. IsFiniteSet({k})
            BY FS_Singleton
        <3> QED
            BY <2>1, <3>1, <3>2
    <2>3. CASE k.kind = "dir"
        <3>1. k \in Dirs
            BY <2>3 DEF Dirs
        <3> DEFINE f == [m \in DOMAIN k.kids |-> Within[k.kids[m]]]
        <3>2. IsFiniteSet(DOMAIN k.kids) /\ \A m \in DOMAIN k.kids : IsFiniteSet(f[m])
            BY <2>1, <3>1, Kids
        <3>3. Within[k] = {k} \cup UNION {f[m] : m \in DOMAIN k.kids}
            BY <2>1, <2>3, WithinIs
        <3> HIDE DEF f
        <3>4. IsFiniteSet(UNION {f[m] : m \in DOMAIN k.kids})
            BY <3>2, FiniteUnion
        <3>5. IsFiniteSet({k})
            BY FS_Singleton
        <3>6. IsFiniteSet({k} \cup UNION {f[m] : m \in DOMAIN k.kids})
            BY <3>4, <3>5, FS_Union
        <3> QED
            BY <2>1, <3>3, <3>6
    <2> QED
        BY <2>2, <2>3
<1> QED
    BY <1>1

LEMMA EdgesOfFinite == ASSUME NEW d \in Dirs PROVE IsFiniteSet(EdgesOf(d))
<1> DEFINE f == [n \in DOMAIN d.kids |->
                    [parent |-> Hash[d], label |-> Label(d.kids[n]), child |-> Hash[d.kids[n]], name |-> n]]
<1>1. EdgesOf(d) = {f[n] : n \in DOMAIN d.kids}
    BY DEF EdgesOf
<1> HIDE DEF f
<1> QED
    BY <1>1, Kids, FiniteImage

-----------------------------------------------------------------------------
(* What a query of the graph finds, level by level *)

LevelStep(f, hash, k) ==
    IF k = 0 THEN {[path |-> <<>>, id |-> [label |-> "Tree", hash |-> hash]]} ELSE Deeper(f[k - 1])

Up(k) == {i \in 0..MaxDepth : i < k}

LEMMA LevelsExist == ASSUME NEW hash PROVE \E f : f = [k \in 0..MaxDepth |-> LevelStep(f, hash, k)]
<1> DEFINE T == {k \in Nat : ~\E f : f = [i \in Up(k) |-> LevelStep(f, hash, i)]}
<1>1. ASSUME T # {} PROVE FALSE
    <2>1. PICK k \in T : \A j \in T : k <= j
        BY <1>1, LeastNat
    <2>2. k # 0
        <3>1. Up(0) = {}
            BY NodesAssumption DEF Up
        <3>2. <<>> = [i \in Up(0) |-> LevelStep(<<>>, hash, i)]
            BY <3>1
        <3> QED
            BY <3>2
    <2>3. k \in Nat /\ k - 1 \in Nat /\ k - 1 \notin T
        BY <2>1, <2>2
    <2>4. PICK f : f = [i \in Up(k - 1) |-> LevelStep(f, hash, i)]
        BY <2>3
    <2> DEFINE g == [i \in Up(k) |-> LevelStep(f, hash, i)]
    <2>5. ASSUME NEW i \in Up(k) PROVE LevelStep(f, hash, i) = LevelStep(g, hash, i)
        <3>1. CASE i = 0
            BY <3>1 DEF LevelStep
        <3>2. CASE i # 0
            <4>1. i - 1 \in Up(k - 1) /\ i - 1 \in Up(k)
                BY <2>3, <3>2, NodesAssumption DEF Up
            <4>2. f[i - 1] = g[i - 1]
                BY <2>4, <4>1
            <4> HIDE DEF g
            <4> QED
                BY <3>2, <4>2 DEF LevelStep
        <3> QED
            BY <3>1, <3>2
    <2>6. g = [i \in Up(k) |-> LevelStep(g, hash, i)]
        BY <2>5
    <2> QED
        BY <2>1, <2>6
<1>2. MaxDepth + 1 \in Nat /\ Up(MaxDepth + 1) = 0..MaxDepth
    BY NodesAssumption DEF Up
<1>3. \E f : f = [i \in Up(MaxDepth + 1) |-> LevelStep(f, hash, i)]
    BY <1>1, <1>2
<1> QED
    BY <1>2, <1>3

LEMMA LevelsAre ==
    ASSUME NEW hash, NEW k \in 0..MaxDepth
    PROVE  Levels(hash)[k] = LevelStep(Levels(hash), hash, k)
<1>1. Levels(hash) = [i \in 0..MaxDepth |-> LevelStep(Levels(hash), hash, i)]
    BY LevelsExist DEF Levels, LevelStep
<1> QED
    BY <1>1

Grown(x, e) == [path |-> Append(x.path, e.name), id |-> Id(e)]
Growing(x) == {Grown(x, e) : e \in EntriesOf(x.id.hash)}

LEMMA DeeperIs ==
    ASSUME NEW found, NEW x
    PROVE  x \in Deeper(found) <=>
               \E y \in found : y.id.label = "Tree" /\ \E e \in EntriesOf(y.id.hash) : x = Grown(y, e)
<1>1. Deeper(found) = UNION {Growing(y) : y \in {z \in found : z.id.label = "Tree"}}
    BY DEF Deeper, Growing, Grown
<1>2. \A y : x \in Growing(y) <=> \E e \in EntriesOf(y.id.hash) : x = Grown(y, e)
    BY DEF Growing
<1> QED
    BY <1>1, <1>2

LEMMA DeeperFinite ==
    ASSUME IsFiniteSet(edges), NEW found, IsFiniteSet(found)
    PROVE  IsFiniteSet(Deeper(found))
<1> DEFINE D == {y \in found : y.id.label = "Tree"}
           f == [x \in D |-> Growing(x)]
<1>1. Deeper(found) = UNION {Growing(x) : x \in D}
    BY DEF Deeper, Growing, Grown
<1>2. IsFiniteSet(D)
    BY FS_Subset
<1>3. ASSUME NEW x \in D PROVE IsFiniteSet(Growing(x))
    <2>1. IsFiniteSet(EntriesOf(x.id.hash))
        BY FS_Subset DEF EntriesOf
    <2> DEFINE g == [e \in EntriesOf(x.id.hash) |-> Grown(x, e)]
    <2>2. Growing(x) = {g[e] : e \in EntriesOf(x.id.hash)}
        BY DEF Growing
    <2> HIDE DEF g
    <2> QED
        BY <2>1, <2>2, FiniteImage
<1>4. \A x \in D : f[x] = Growing(x)
    OBVIOUS
<1> HIDE DEF f, D
<1>5. IsFiniteSet(UNION {f[x] : x \in D})
    BY <1>2, <1>3, <1>4, FiniteUnion
<1> QED
    BY <1>1, <1>4, <1>5

LEMMA LevelsFinite ==
    ASSUME IsFiniteSet(edges), NEW hash, NEW k \in 0..MaxDepth
    PROVE  IsFiniteSet(Levels(hash)[k])
<1> DEFINE T == {i \in Nat : i \in 0..MaxDepth /\ ~IsFiniteSet(Levels(hash)[i])}
<1>1. ASSUME T # {} PROVE FALSE
    <2>1. PICK i \in T : \A j \in T : i <= j
        BY <1>1, LeastNat
    <2>2. CASE i = 0
        <3>1. Levels(hash)[i] = {[path |-> <<>>, id |-> [label |-> "Tree", hash |-> hash]]}
            BY <2>1, <2>2, LevelsAre DEF LevelStep
        <3> QED
            BY <2>1, <3>1, FS_Singleton
    <2>3. CASE i # 0
        <3>1. i - 1 \in Nat /\ i - 1 \in 0..MaxDepth /\ i - 1 \notin T
            BY <2>1, <2>3, NodesAssumption
        <3>2. Levels(hash)[i] = Deeper(Levels(hash)[i - 1])
            BY <2>1, <2>3, LevelsAre DEF LevelStep
        <3>3. IsFiniteSet(Levels(hash)[i - 1])
            BY <3>1
        <3> QED
            BY <2>1, <3>2, <3>3, DeeperFinite
    <2> QED
        BY <2>2, <2>3
<1> QED
    BY <1>1, NodesAssumption

LEMMA SubtreeFinite == ASSUME IsFiniteSet(edges), NEW hash PROVE IsFiniteSet(Subtree(hash))
<1> PICK f : f = Levels(hash)
    OBVIOUS
<1>1. \A k \in 1..MaxDepth : IsFiniteSet(f[k])
    BY LevelsFinite, NodesAssumption
<1>2. IsFiniteSet(1..MaxDepth)
    <2>1. 1 \in Int /\ MaxDepth \in Int
        BY NodesAssumption
    <2> QED
        BY <2>1, FS_Interval
<1>3. PICK S : S = 1..MaxDepth
    OBVIOUS
<1>4. IsFiniteSet(S) /\ \A k \in S : IsFiniteSet(f[k])
    BY <1>1, <1>2, <1>3
<1>5. IsFiniteSet(UNION {f[k] : k \in S})
    BY <1>4, FiniteUnion
<1> QED
    BY <1>3, <1>5 DEF Subtree

-----------------------------------------------------------------------------
(* Types, and what a commit leaves *)

\* Every directory of a commit is in the database.
WholeInv ==
    \A c \in commits :
        /\ c.dir \in Roots /\ c.root = Hash[c.dir]
        /\ \A n \in Within[c.dir] : n \in Dirs => Hash[n] \in trees

GraphInv ==
    /\ TypeOK
    /\ IsFiniteSet(edges)
    /\ WholeInv

LEMMA GraphInit == Init => GraphInv
<1> SUFFICES ASSUME Init PROVE GraphInv
    OBVIOUS
<1>1. 0 \in 0..MaxCommits /\ 0 \in 0..MaxDiffs /\ 0 \in Nat
    BY NodesAssumption
<1>2. TypeOK
    BY <1>1 DEF Init, TypeOK
<1>3. IsFiniteSet({})
    BY FS_EmptySet
<1>4. IsFiniteSet(edges) /\ WholeInv
    BY <1>3 DEF Init, WholeInv
<1> QED
    BY <1>2, <1>4 DEF GraphInv

\* A commit and its directories
LEMMA CommitParts ==
    ASSUME NEW d \in Roots, Commit(d)
    PROVE  LET dirs == {n \in Within[d] : n \in Dirs}
           IN  /\ d \in dirs
               /\ trees' = trees \cup {Hash[n] : n \in dirs}
               /\ blobs' = blobs \cup {Hash[n] : n \in Within[d] \ dirs}
               /\ edges' = edges \cup UNION {EdgesOf(n) : n \in dirs}
<1>1. d \in Nodes /\ d \in Dirs /\ Within[d] \subseteq Nodes /\ d \in Within[d]
    BY NodesAssumption, WithinNodes DEF Dirs
<1> DEFINE all == {n \in Nodes : n \in Within[d]}
           dirs == {n \in all : n.kind = "dir"}
           parts == {n \in Within[d] : n \in Dirs}
<1>2. all = Within[d] /\ dirs = parts
    BY <1>1 DEF Dirs
<1>3. /\ trees' = trees \cup {Hash[n] : n \in dirs}
      /\ blobs' = blobs \cup {Hash[n] : n \in all \ dirs}
      /\ edges' = edges \cup UNION {EdgesOf(n) : n \in dirs}
    BY DEF Commit
<1>4. d \in parts
    BY <1>1
<1> HIDE DEF all, dirs, parts
<1>5. /\ trees' = trees \cup {Hash[n] : n \in parts}
      /\ blobs' = blobs \cup {Hash[n] : n \in Within[d] \ parts}
      /\ edges' = edges \cup UNION {EdgesOf(n) : n \in parts}
    BY <1>2, <1>3
<1> QED
    BY <1>4, <1>5 DEF parts

LEMMA CommitEdges ==
    ASSUME NEW d \in Roots, Commit(d), NEW n \in Within[d], n \in Dirs, NEW e \in EdgesOf(n)
    PROVE  /\ e.parent \in trees'
           /\ e.child \in (IF e.label = "Tree" THEN trees' ELSE blobs')
<1> DEFINE dirs == {m \in Within[d] : m \in Dirs}
<1>1. /\ trees' = trees \cup {Hash[m] : m \in dirs}
      /\ blobs' = blobs \cup {Hash[m] : m \in Within[d] \ dirs}
    BY CommitParts
<1>2. e.parent \in trees'
    BY <1>1, EdgesOfParent
<1>3. PICK i \in DOMAIN n.kids : e.label = Label(n.kids[i]) /\ e.child = Hash[n.kids[i]]
    BY DEF EdgesOf
<1>4. PICK k : k = n.kids[i]
    OBVIOUS
<1>5. k \in Within[d] /\ k \in Nodes
    <2>1. d \in Nodes
        BY NodesAssumption
    <2> QED
        BY <1>4, <2>1, WithinDown, Kids
<1>6. k \in dirs <=> e.label = "Tree"
    BY <1>3, <1>4, <1>5 DEF Label, Dirs
<1> QED
    BY <1>1, <1>2, <1>3, <1>4, <1>5, <1>6

LEMMA CommitHashes ==
    ASSUME TypeOK, NEW d \in Roots, Commit(d)
    PROVE  trees' \cup blobs' \subseteq {Hash[n] : n \in Nodes}
<1> DEFINE dirs == {n \in Within[d] : n \in Dirs}
<1>1. /\ trees' = trees \cup {Hash[m] : m \in dirs}
      /\ blobs' = blobs \cup {Hash[m] : m \in Within[d] \ dirs}
    BY CommitParts
<1>2. d \in Nodes
    BY NodesAssumption
<1>3. Within[d] \subseteq Nodes
    BY <1>2, WithinNodes
<1>4. trees \cup blobs \subseteq {Hash[n] : n \in Nodes}
    BY DEF TypeOK
<1> QED
    BY <1>1, <1>3, <1>4

LEMMA CommitFinite ==
    ASSUME IsFiniteSet(edges), NEW d \in Roots, Commit(d)
    PROVE  IsFiniteSet(edges')
<1> DEFINE dirs == {n \in Within[d] : n \in Dirs}
           f == [n \in dirs |-> EdgesOf(n)]
<1>1. edges' = edges \cup UNION {EdgesOf(n) : n \in dirs}
    BY CommitParts
<1>2. d \in Nodes
    BY NodesAssumption
<1>3. IsFiniteSet(dirs)
    BY <1>2, WithinFinite, FS_Subset
<1>4. \A n \in dirs : f[n] = EdgesOf(n) /\ IsFiniteSet(f[n])
    BY EdgesOfFinite
<1> HIDE DEF f, dirs
<1>5. IsFiniteSet(UNION {f[n] : n \in dirs})
    BY <1>3, <1>4, FiniteUnion
<1>6. IsFiniteSet(UNION {EdgesOf(n) : n \in dirs})
    BY <1>4, <1>5
<1> QED
    BY <1>1, <1>6, FS_Union

LEMMA GraphCommit ==
    ASSUME GraphInv, NEW d \in Roots, Commit(d)
    PROVE  GraphInv'
<1>1. trees \subseteq trees' /\ blobs \subseteq blobs' /\ commits \subseteq commits'
    BY DEF Commit
<1>2. /\ made' = made + 1 /\ made < MaxCommits
      /\ commits' = commits \cup {[root |-> Hash[d], dir |-> d]}
      /\ UNCHANGED diffVars
    BY DEF Commit
<1>3. /\ d \in Dirs /\ Hash[d] \in trees'
      /\ \A n \in Within[d] : n \in Dirs => Hash[n] \in trees'
      /\ edges' = edges \cup UNION {EdgesOf(n) : n \in {m \in Within[d] : m \in Dirs}}
    BY CommitParts
<1>4. \A e \in edges' :
          e.parent \in trees' /\ e.child \in (IF e.label = "Tree" THEN trees' ELSE blobs')
    <2>1. ASSUME NEW e \in edges
          PROVE  e.parent \in trees' /\ e.child \in (IF e.label = "Tree" THEN trees' ELSE blobs')
        BY <1>1 DEF GraphInv, TypeOK
    <2>2. ASSUME NEW n \in Within[d], n \in Dirs, NEW e \in EdgesOf(n)
          PROVE  e.parent \in trees' /\ e.child \in (IF e.label = "Tree" THEN trees' ELSE blobs')
        BY <2>2, CommitEdges
    <2> QED
        BY <1>3, <2>1, <2>2
<1>5. \A c \in commits' : c.dir \in Roots /\ c.root = Hash[c.dir] /\ c.root \in trees'
    BY <1>1, <1>2, <1>3 DEF GraphInv, TypeOK
<1>6. made' \in 0..MaxCommits /\ diffs' \in 0..MaxDiffs /\ recursive' \in BOOLEAN /\ yields' \in Nat
    BY <1>2, NodesAssumption DEF GraphInv, TypeOK, diffVars
<1>7. refs' # None => refs'[1] \in commits' /\ refs'[2] \in commits'
    BY <1>1, <1>2 DEF GraphInv, TypeOK, diffVars
<1>8. TypeOK'
    BY <1>4, <1>5, <1>6, <1>7, CommitHashes DEF GraphInv, TypeOK
<1>9. WholeInv'
    <2>1. ASSUME NEW c \in commits' PROVE \A n \in Within[c.dir] : n \in Dirs => Hash[n] \in trees'
        BY <1>1, <1>2, <1>3 DEF GraphInv, WholeInv
    <2> QED
        BY <1>5, <2>1 DEF WholeInv
<1>10. IsFiniteSet(edges)'
    BY CommitFinite DEF GraphInv
<1> QED
    BY <1>8, <1>9, <1>10 DEF GraphInv

LEMMA EnterYields ==
    ASSUME GraphInv, NEW w, DiffEnter(w)
    PROVE  yields' \in Nat
<1>1. CASE UNCHANGED <<out, yields>>
    BY <1>1 DEF GraphInv, TypeOK
<1>2. CASE ~UNCHANGED <<out, yields>>
    <2> DEFINE r == w.rec
               top == IF r.old = None THEN r.new.hash ELSE r.old.hash
               One(x) == IF r.old = None THEN [path |-> r.path \o x.path, old |-> None, new |-> x.id]
                         ELSE [path |-> r.path \o x.path, old |-> x.id, new |-> None]
               f == [x \in Subtree(top) |-> One(x)]
    <2>1. yields' = yields + Cardinality({One(x) : x \in Subtree(top)})
        BY <1>2 DEF DiffEnter
    <2>2. {One(x) : x \in Subtree(top)} = {f[x] : x \in Subtree(top)}
        OBVIOUS
    <2>3. IsFiniteSet(Subtree(top))
        BY SubtreeFinite DEF GraphInv
    <2> HIDE DEF f, top, One
    <2>4. IsFiniteSet({f[x] : x \in Subtree(top)})
        BY <2>3, FiniteImage
    <2>5. Cardinality({One(x) : x \in Subtree(top)}) \in Nat
        BY <2>2, <2>4, FS_CardinalityType
    <2> QED
        BY <2>1, <2>5 DEF GraphInv, TypeOK
<1> QED
    BY <1>1, <1>2

LEMMA GraphDiff ==
    ASSUME GraphInv, UNCHANGED graph,
           diffs' \in 0..MaxDiffs, recursive' \in BOOLEAN, yields' \in Nat,
           refs' # None => refs'[1] \in commits /\ refs'[2] \in commits
    PROVE  GraphInv'
BY DEF GraphInv, TypeOK, WholeInv, graph

LEMMA GraphStep == GraphInv /\ [Next]_vars => GraphInv'
<1> SUFFICES ASSUME GraphInv, [Next]_vars PROVE GraphInv'
    OBVIOUS
<1> USE DEF GraphInv, TypeOK
<1>1. ASSUME NEW d \in Roots, Commit(d) PROVE GraphInv'
    BY <1>1, GraphCommit
<1>2. ASSUME NEW c \in commits, NEW d \in commits, NEW deep \in BOOLEAN, DiffStart(c, d, deep)
      PROVE  GraphInv'
    <2>1. UNCHANGED graph /\ diffs' = diffs + 1 /\ diffs < MaxDiffs /\ recursive' = deep /\ yields' = 0
        BY <1>2 DEF DiffStart
    <2>2. refs' = <<c, d>>
        BY <1>2 DEF DiffStart
    <2>3. refs'[1] \in commits /\ refs'[2] \in commits
        BY <2>2
    <2>4. diffs' \in 0..MaxDiffs /\ 0 \in Nat
        BY <2>1, NodesAssumption
    <2> QED
        BY <2>1, <2>3, <2>4, GraphDiff
<1>3. ASSUME NEW w, DiffYield(w) PROVE GraphInv'
    <2>1. UNCHANGED <<graph, refs, recursive, diffs>> /\ (yields' = yields \/ yields' = yields + 1)
        BY <1>3 DEF DiffYield
    <2>2. yields' \in Nat
        BY <2>1
    <2> QED
        BY <2>1, <2>2, GraphDiff
<1>4. ASSUME NEW w, DiffEnter(w) PROVE GraphInv'
    <2>1. UNCHANGED <<graph, refs, recursive, diffs>>
        BY <1>4 DEF DiffEnter
    <2>2. yields' \in Nat
        BY <1>4, EnterYields
    <2> QED
        BY <2>1, <2>2, GraphDiff
<1>5. ASSUME DiffEnd PROVE GraphInv'
    <2>1. UNCHANGED <<graph, diffs>> /\ refs' = None /\ recursive' = FALSE /\ yields' = 0
        BY <1>5 DEF DiffEnd
    <2> QED
        BY <2>1, GraphDiff
<1>6. ASSUME UNCHANGED vars PROVE GraphInv'
    BY <1>6, GraphDiff DEF vars, diffVars
<1> QED
    BY <1>1, <1>2, <1>3, <1>4, <1>5, <1>6 DEF Next, Diff, Terminated

LEMMA GraphAlways == Spec => []GraphInv
BY GraphInit, GraphStep, PTL DEF Spec

\* The database holds only hashes of what can be committed, every edge leads from
\* one of its Trees to one of its Trees or Blobs, whichever it says, and the root of
\* every commit is there; this for any directories and whatever is shared.
THEOREM GraphTypes == Spec => []TypeOK
<1>1. GraphInv => TypeOK
    BY DEF GraphInv
<1> QED
    BY <1>1, GraphAlways, PTL

-----------------------------------------------------------------------------
(* What the queries find of a directory that is kept: what is in it *)

\* The Trees of a directory and of those below have their entries.
Kept(d) == \A n \in Within[d] : n \in Dirs => EntriesOf(Hash[n]) = EdgesOf(n)

EdgeAt(d, i) == [parent |-> Hash[d], label |-> Label(d.kids[i]), child |-> Hash[d.kids[i]], name |-> i]

Found(z) == [path |-> z.path, id |-> IdOf(z.node)]

LEMMA EdgesAt == ASSUME NEW d, NEW e PROVE e \in EdgesOf(d) <=> \E i \in DOMAIN d.kids : e = EdgeAt(d, i)
BY DEF EdgesOf, EdgeAt

LEMMA Labels ==
    ASSUME NEW n \in Nodes
    PROVE  (Label(n) = "Tree" <=> n \in Dirs) /\ (Label(n) = "Blob" <=> n \notin Dirs)
BY DEF Label, Dirs

LEMMA WholeEntries ==
    ASSUME HashFixesEntries, TreesInv, WholeInv, NEW c \in commits
    PROVE  c.dir \in Dirs /\ c.dir \in Nodes /\ c.root = Hash[c.dir] /\ Kept(c.dir)
<1>1. c.dir \in Dirs /\ c.dir \in Nodes /\ c.root = Hash[c.dir]
    BY NodesAssumption DEF WholeInv, Dirs
<1>2. ASSUME NEW n \in Within[c.dir], n \in Dirs PROVE EntriesOf(Hash[n]) = EdgesOf(n)
    <2>1. PICK m \in Dirs : Hash[m] = Hash[n] /\ EntriesOf(Hash[n]) = EdgesOf(m)
        BY <1>2 DEF TreesInv, WholeInv
    <2> QED
        BY <1>2, <2>1 DEF HashFixesEntries
<1> QED
    BY <1>1, <1>2 DEF Kept

LEMMA ReachedEntries ==
    ASSUME NEW d \in Nodes, Kept(d), NEW z \in Reaches(d), z.node \in Dirs, NEW e
    PROVE  e \in EntriesOf(Hash[z.node]) <=> \E i \in DOMAIN z.node.kids : e = EdgeAt(z.node, i)
<1>1. EntriesOf(Hash[z.node]) = EdgesOf(z.node)
    BY ReachesWithin DEF Kept
<1> QED
    BY <1>1, EdgesAt

LEMMA Grows == ASSUME NEW z, NEW i PROVE Grown(Found(z), EdgeAt(z.node, i)) = Found(Entry(z, i))
BY DEF Grown, Found, EdgeAt, Entry, Spot, IdOf, Id

\* One more name leads one level down.
LEMMA LevelDown ==
    ASSUME NEW d \in Nodes, Kept(d), NEW k \in Nat, NEW q, q = k + 1, NEW level, NEW x,
           \A y : y \in level <=> \E z \in Reaches(d) : Len(z.path) = k /\ y = Found(z)
    PROVE  x \in Deeper(level) <=> \E z \in Reaches(d) : Len(z.path) = q /\ x = Found(z)
<1>1. ASSUME x \in Deeper(level)
      PROVE  \E z \in Reaches(d) : Len(z.path) = q /\ x = Found(z)
    <2>1. PICK y \in level : y.id.label = "Tree" /\ \E e \in EntriesOf(y.id.hash) : x = Grown(y, e)
        BY <1>1, DeeperIs
    <2>2. PICK z \in Reaches(d) : Len(z.path) = k /\ y = Found(z)
        BY <2>1
    <2>3. y.id.label = Label(z.node) /\ y.id.hash = Hash[z.node]
        BY <2>2 DEF Found, IdOf
    <2>4. z.node \in Dirs
        BY <2>1, <2>3, Labels, ReachesTypes
    <2>5. PICK i \in DOMAIN z.node.kids : x = Grown(y, EdgeAt(z.node, i))
        <3>1. PICK e \in EntriesOf(y.id.hash) : x = Grown(y, e)
            BY <2>1
        <3>2. e \in EntriesOf(Hash[z.node])
            BY <2>3, <3>1
        <3>3. \E i \in DOMAIN z.node.kids : e = EdgeAt(z.node, i)
            BY <2>4, <3>2, ReachedEntries
        <3> QED
            BY <3>1, <3>3
    <2>6. x = Found(Entry(z, i)) /\ Entry(z, i) \in Listing[d]
        BY <2>2, <2>4, <2>5, Grows, Children
    <2>7. Len(Entry(z, i).path) = q
        <3>1. i \in Name /\ z.path \in Seq(Name)
            BY <2>4, Kids, ReachesTypes
        <3> QED
            BY <2>2, <3>1, Appends DEF Entry, Spot
    <2> QED
        BY <2>6, <2>7 DEF Reaches
<1>2. ASSUME NEW z \in Reaches(d), Len(z.path) = q, x = Found(z)
      PROVE  x \in Deeper(level)
    <2>1. z \in Listing[d]
        <3>1. Len(<<>>) = 0
            OBVIOUS
        <3>2. z.path # <<>>
            BY <1>2, <3>1
        <3> QED
            BY <3>2 DEF Reaches, Spot
    <2>2. PICK p \in Reaches(d), i \in Name :
              /\ p.node \in Dirs /\ i \in DOMAIN p.node.kids /\ z = Entry(p, i)
              /\ Len(z.path) = Len(p.path) + 1
        BY <2>1, Parents
    <2>3. Len(p.path) = k
        BY <1>2, <2>2, ReachesTypes
    <2>4. Found(p) \in level /\ x = Grown(Found(p), EdgeAt(p.node, i))
        BY <1>2, <2>2, <2>3, Grows
    <2>5. Found(p).id.label = "Tree" /\ Found(p).id.hash = Hash[p.node]
        BY <2>2, Labels, ReachesTypes DEF Found, IdOf
    <2>6. EdgeAt(p.node, i) \in EntriesOf(Found(p).id.hash)
        BY <2>2, <2>5, ReachedEntries
    <2> QED
        BY <2>4, <2>5, <2>6, DeeperIs
<1> QED
    BY <1>1, <1>2

LEMMA LevelsHave ==
    ASSUME NEW d \in Nodes, d \in Dirs, Kept(d), NEW k \in 0..MaxDepth, NEW x
    PROVE  x \in Levels(Hash[d])[k] <=> \E z \in Reaches(d) : Len(z.path) = k /\ x = Found(z)
<1> DEFINE Has(l) == \A y : y \in Levels(Hash[d])[l] <=>
                            \E z \in Reaches(d) : Len(z.path) = l /\ y = Found(z)
           T == {l \in Nat : l <= MaxDepth /\ ~Has(l)}
<1>1. ASSUME T # {} PROVE FALSE
    <2>1. PICK l \in T : \A j \in T : l <= j
        BY <1>1, LeastNat
    <2>2. l \in 0..MaxDepth
        BY <2>1, NodesAssumption
    <2>3. CASE l = 0
        <3>1. Levels(Hash[d])[l] = {[path |-> <<>>, id |-> [label |-> "Tree", hash |-> Hash[d]]]}
            BY <2>2, <2>3, LevelsAre DEF LevelStep
        <3>2. Found(Spot(<<>>, d)) = [path |-> <<>>, id |-> [label |-> "Tree", hash |-> Hash[d]]]
            BY Labels DEF Found, Spot, IdOf
        <3>3. Spot(<<>>, d) \in Reaches(d) /\ Len(Spot(<<>>, d).path) = 0
            BY DEF Reaches, Spot
        <3>4. \A z \in Reaches(d) : Len(z.path) = 0 => z = Spot(<<>>, d)
            BY ReachesTypes
        <3>5. Has(l)
            BY <2>3, <3>1, <3>2, <3>3, <3>4
        <3> QED
            BY <2>1, <3>5
    <2>4. CASE l # 0
        <3>1. PICK j \in Nat : l = j + 1
            <4>1. l - 1 \in Nat /\ l = (l - 1) + 1
                BY <2>1, <2>4
            <4> QED
                BY <4>1
        <3>2. j \notin T /\ j <= MaxDepth
            BY <2>1, <3>1, NodesAssumption
        <3>3. Has(j)
            BY <3>2
        <3>4. Levels(Hash[d])[l] = Deeper(Levels(Hash[d])[j])
            <4>1. l - 1 = j
                BY <3>1
            <4> QED
                BY <2>2, <2>4, <4>1, LevelsAre DEF LevelStep
        <3>5. PICK level : level = Levels(Hash[d])[j]
            OBVIOUS
        <3>6. \A y : y \in level <=> \E z \in Reaches(d) : Len(z.path) = j /\ y = Found(z)
            BY <3>3, <3>5
        <3>7. ASSUME NEW y
              PROVE  y \in Deeper(level) <=> \E z \in Reaches(d) : Len(z.path) = l /\ y = Found(z)
            <4>1. j \in Nat
                BY <3>1
            <4> HIDE DEF Has, T
            <4> QED
                BY <3>1, <3>6, <4>1, LevelDown
        <3>8. Has(l)
            BY <3>4, <3>5, <3>7
        <3> QED
            BY <2>1, <3>8
    <2> QED
        BY <2>3, <2>4
<1>2. Has(k)
    BY <1>1, NodesAssumption
<1> QED
    BY <1>2

LEMMA SubtreeHas ==
    ASSUME NEW d \in Nodes, d \in Dirs, Kept(d), NEW x
    PROVE  x \in Subtree(Hash[d]) <=> \E z \in Listing[d] : x = Found(z)
<1>1. ASSUME x \in Subtree(Hash[d]) PROVE \E z \in Listing[d] : x = Found(z)
    <2>1. PICK k \in 1..MaxDepth : x \in Levels(Hash[d])[k]
        BY <1>1 DEF Subtree
    <2>2. k \in 0..MaxDepth /\ k # 0
        BY <2>1, NodesAssumption
    <2>3. PICK z \in Reaches(d) : Len(z.path) = k /\ x = Found(z)
        BY <2>1, <2>2, LevelsHave
    <2>4. Len(<<>>) = 0
        OBVIOUS
    <2>5. z.path # <<>>
        BY <2>2, <2>3, <2>4
    <2> QED
        BY <2>3, <2>5 DEF Reaches, Spot
<1>2. ASSUME NEW z \in Listing[d], x = Found(z) PROVE x \in Subtree(Hash[d])
    <2>1. /\ Len(z.path) \in Nat /\ Len(z.path) >= 1 /\ z.node \in Nodes
          /\ Len(z.path) + Depth[z.node] <= Depth[d]
        BY <1>2, ListingTypes DEF IsBelow
    <2>2. Depth[z.node] \in 0..MaxDepth /\ Depth[d] \in 0..MaxDepth
        BY <2>1, NodesAssumption
    <2>3. PICK k : k = Len(z.path)
        OBVIOUS
    <2>4. k \in 1..MaxDepth /\ k \in 0..MaxDepth
        BY <2>1, <2>2, <2>3, NodesAssumption
    <2>5. x \in Levels(Hash[d])[k]
        BY <1>2, <2>3, <2>4, LevelsHave DEF Reaches
    <2> QED
        BY <2>4, <2>5 DEF Subtree
<1> QED
    BY <1>1, <1>2

KeptInv == GraphInv /\ TreesInv

LEMMA KeptAlways == HashFixesEntries /\ Spec => []KeptInv
<1> SUFFICES ASSUME HashFixesEntries PROVE Spec => []KeptInv
    OBVIOUS
<1>1. Init => KeptInv
    BY GraphInit DEF KeptInv, Init, TreesInv
<1>2. KeptInv /\ [Next]_vars => KeptInv'
    BY GraphStep, TreesStep DEF KeptInv
<1> QED
    BY <1>1, <1>2, PTL DEF Spec

LEMMA FaithfulInv == ASSUME HashFixesEntries, KeptInv PROVE GraphFaithful
<1> SUFFICES ASSUME NEW c \in commits
             PROVE  Subtree(c.root) = {[path |-> x.path, id |-> IdOf(x.node)] : x \in Listing[c.dir]}
    BY DEF GraphFaithful
<1>1. c.dir \in Dirs /\ c.dir \in Nodes /\ c.root = Hash[c.dir] /\ Kept(c.dir)
    BY WholeEntries DEF KeptInv, GraphInv
<1>2. \A x : x \in Subtree(c.root) <=> \E z \in Listing[c.dir] : x = Found(z)
    BY <1>1, SubtreeHas
<1> QED
    BY <1>2 DEF Found

\* If the hash of a directory fixes its entries, the graph below the root of every
\* commit is, for ever, the directory that was committed: no path more or less, and
\* the kind and hash of what was there at each.
THEOREM FaithfulGraph == HashFixesEntries /\ Spec => []GraphFaithful
<1> SUFFICES ASSUME HashFixesEntries PROVE Spec => []GraphFaithful
    OBVIOUS
<1>1. KeptInv => GraphFaithful
    BY FaithfulInv
<1> QED
    BY <1>1, KeptAlways, PTL

-----------------------------------------------------------------------------
(* Children *)

Child(d, m) == [name |-> m, id |-> IdOf(d.kids[m])]

ChildrenIn(d) == {[name |-> m, id |-> IdOf(d.kids[m])] : m \in DOMAIN d.kids}

LEMMA ChildrenOf ==
    ASSUME NEW d \in Dirs, EntriesOf(Hash[d]) = EdgesOf(d), NEW found \in IterChildren(Hash[d])
    PROVE  /\ DOMAIN found = EdgesOf(d)
           /\ \A e \in EdgesOf(d) : found[e].id = Id(e) /\ found[e] \in ChildrenIn(d)
           /\ \A e, g \in EdgesOf(d) : Id(e) = Id(g) => found[e] = found[g]
<1> DEFINE ids == {Id(e) : e \in EntriesOf(Hash[d])}
<1>1. PICK f \in Relationship(Hash[d]) :
          found = [e \in EntriesOf(Hash[d]) |-> [name |-> f[Id(e)].name, id |-> Id(e)]]
    BY DEF IterChildren
<1>2. f \in [ids -> EntriesOf(Hash[d])] /\ \A i \in DOMAIN f : Id(f[i]) = i
    BY <1>1 DEF Relationship
<1>3. \A i \in ids : f[i] \in EdgesOf(d) /\ Id(f[i]) = i
    BY <1>2
<1>4. \A m : Id(EdgeAt(d, m)) = IdOf(d.kids[m]) /\ EdgeAt(d, m).name = m
    BY DEF Id, EdgeAt, IdOf
<1>5. ASSUME NEW e \in EdgesOf(d)
      PROVE  found[e] = [name |-> f[Id(e)].name, id |-> Id(e)]
    BY <1>1
<1>6. ASSUME NEW e \in EdgesOf(d) PROVE found[e].id = Id(e) /\ found[e] \in ChildrenIn(d)
    <2>1. PICK i \in ids : i = Id(e)
        OBVIOUS
    <2>2. PICK m \in DOMAIN d.kids : f[i] = EdgeAt(d, m)
        BY <1>3, EdgesAt
    <2>3. found[e] = [name |-> m, id |-> IdOf(d.kids[m])]
        BY <1>3, <1>4, <1>5, <2>1, <2>2
    <2>4. found[e].id = Id(e)
        BY <1>3, <1>4, <2>1, <2>2, <2>3
    <2>5. found[e] \in ChildrenIn(d)
        BY <2>3 DEF ChildrenIn
    <2> QED
        BY <2>4, <2>5
<1> QED
    BY <1>1, <1>5, <1>6

\* A content has as many edges as it has names.
LEMMA EdgesCount ==
    ASSUME NEW d \in Dirs, NEW i
    PROVE  Cardinality({e \in EdgesOf(d) : Id(e) = i}) = Cardinality({x \in ChildrenIn(d) : x.id = i})
<1> DEFINE E == {e \in EdgesOf(d) : Id(e) = i}
           C == {x \in ChildrenIn(d) : x.id = i}
           g == [e \in E |-> [name |-> e.name, id |-> Id(e)]]
<1>1. \A m : Id(EdgeAt(d, m)) = IdOf(d.kids[m]) /\ EdgeAt(d, m).name = m
    BY DEF Id, EdgeAt, IdOf
<1>2. \A x : x \in ChildrenIn(d) <=> \E m \in DOMAIN d.kids : x = Child(d, m)
    BY DEF ChildrenIn, Child
<1>3. \A m : Child(d, m).id = IdOf(d.kids[m]) /\ Child(d, m).name = m
    BY DEF Child
<1>4. ASSUME NEW m PROVE [name |-> EdgeAt(d, m).name, id |-> Id(EdgeAt(d, m))] = Child(d, m)
    BY <1>1 DEF Child
<1>5. ASSUME NEW e \in E PROVE \E m \in DOMAIN d.kids : e = EdgeAt(d, m) /\ g[e] = Child(d, m)
    <2>1. PICK m \in DOMAIN d.kids : e = EdgeAt(d, m)
        BY EdgesAt
    <2> QED
        BY <1>4, <2>1
<1>6. ASSUME NEW x \in C PROVE \E e \in E : g[e] = x
    <2>1. PICK m \in DOMAIN d.kids : x = Child(d, m)
        BY <1>2
    <2>2. EdgeAt(d, m) \in EdgesOf(d) /\ Id(EdgeAt(d, m)) = i
        BY <1>1, <1>3, <2>1, EdgesAt
    <2>3. EdgeAt(d, m) \in E
        BY <2>2
    <2>4. g[EdgeAt(d, m)] = Child(d, m)
        BY <1>4, <2>3
    <2> QED
        BY <2>1, <2>3, <2>4
<1>7. \A e \in E : g[e] \in C
    <2> SUFFICES ASSUME NEW e \in E PROVE g[e] \in C
        OBVIOUS
    <2>1. PICK m \in DOMAIN d.kids : e = EdgeAt(d, m) /\ g[e] = Child(d, m)
        BY <1>5
    <2> HIDE DEF g
    <2> QED
        BY <1>1, <1>2, <1>3, <2>1
<1>8. IsFiniteSet(E)
    BY EdgesOfFinite, FS_Subset
<1>9. DOMAIN g = E /\ g \in [E -> C]
    <2>1. g = [e \in E |-> g[e]]
        OBVIOUS
    <2> HIDE DEF g
    <2> QED
        BY <1>7, <2>1
<1> HIDE DEF g
<1>10. ASSUME NEW e \in E, NEW h \in E, g[e] = g[h] PROVE e = h
    <2>1. PICK m : e = EdgeAt(d, m) /\ g[e] = Child(d, m)
        BY <1>5
    <2>2. PICK n : h = EdgeAt(d, n) /\ g[h] = Child(d, n)
        BY <1>5
    <2>3. m = n
        BY <1>3, <1>10, <2>1, <2>2
    <2> QED
        BY <2>1, <2>2, <2>3
<1> HIDE DEF E, C
<1>11. g \in Bijection(E, C)
    BY <1>6, <1>9, <1>10 DEF Bijection, Injection, Surjection, IsInjective
<1>12. Cardinality(C) = Cardinality(E)
    BY <1>8, <1>11, FS_Bijection DEF ExistsBijection
<1> QED
    BY <1>12 DEF E, C

LEMMA ChildrenInv == ASSUME HashFixesEntries, KeptInv PROVE ChildrenAgree
<1> SUFFICES ASSUME NEW c \in commits, NEW d \in Within[c.dir], d.kind = "dir",
                    NEW found \in IterChildren(Hash[d])
             PROVE  /\ \A e \in DOMAIN found : found[e] \in ChildrenIn(d)
                    /\ \A e, g \in DOMAIN found : found[e].id = found[g].id => found[e] = found[g]
                    /\ \A x \in ChildrenIn(d) :
                           /\ \E e \in DOMAIN found : found[e].id = x.id
                           /\ Cardinality({e \in DOMAIN found : found[e].id = x.id}) =
                                  Cardinality({y \in ChildrenIn(d) : y.id = x.id})
    BY Zenon DEF ChildrenAgree, ChildrenIn
<1>1. c.dir \in Nodes /\ Kept(c.dir)
    BY WholeEntries DEF KeptInv, GraphInv
<1>2. d \in Dirs /\ EntriesOf(Hash[d]) = EdgesOf(d)
    BY <1>1, WithinNodes DEF Kept, Dirs
<1>3. /\ DOMAIN found = EdgesOf(d)
      /\ \A e \in EdgesOf(d) : found[e].id = Id(e) /\ found[e] \in ChildrenIn(d)
      /\ \A e, g \in EdgesOf(d) : Id(e) = Id(g) => found[e] = found[g]
    BY <1>2, ChildrenOf
<1>4. ASSUME NEW x \in ChildrenIn(d) PROVE \E e \in EdgesOf(d) : Id(e) = x.id
    <2>1. PICK m \in DOMAIN d.kids : x = Child(d, m)
        BY DEF ChildrenIn, Child
    <2>2. EdgeAt(d, m) \in EdgesOf(d)
        BY EdgesAt
    <2>3. Id(EdgeAt(d, m)) = IdOf(d.kids[m]) /\ x.id = IdOf(d.kids[m])
        BY <2>1 DEF Id, EdgeAt, IdOf, Child
    <2> QED
        BY <2>2, <2>3
<1>5. ASSUME NEW x \in ChildrenIn(d)
      PROVE  Cardinality({e \in DOMAIN found : found[e].id = x.id}) =
                 Cardinality({y \in ChildrenIn(d) : y.id = x.id})
    <2>1. {e \in DOMAIN found : found[e].id = x.id} = {e \in EdgesOf(d) : Id(e) = x.id}
        BY <1>3
    <2>2. Cardinality({e \in EdgesOf(d) : Id(e) = x.id}) = Cardinality({y \in ChildrenIn(d) : y.id = x.id})
        BY <1>2, EdgesCount
    <2> QED
        BY <2>1, <2>2
<1> QED
    BY <1>3, <1>4, <1>5

\* If the hash of a directory fixes its entries, the children read from any Tree of a
\* commit are entries of its directory, one for each, though a content that has several
\* names comes as often under one and the same of them.
THEOREM ChildrenRead == HashFixesEntries /\ Spec => []ChildrenAgree
<1> SUFFICES ASSUME HashFixesEntries PROVE Spec => []ChildrenAgree
    OBVIOUS
<1>1. KeptInv => ChildrenAgree
    BY ChildrenInv
<1> QED
    BY <1>1, KeptAlways, PTL

-----------------------------------------------------------------------------
(* Lookup *)

AlongStep(f, root, path, k) == IF k = 0 THEN {root} ELSE Into(f[k - 1], path[k])

Part(path, k) == {i \in 0..Len(path) : i < k}

LEMMA AlongExists ==
    ASSUME NEW root, NEW path \in Seq(Name)
    PROVE  \E f : f = [k \in 0..Len(path) |-> AlongStep(f, root, path, k)]
<1>1. Len(path) \in Nat
    BY LenProperties
<1> DEFINE T == {k \in Nat : ~\E f : f = [i \in Part(path, k) |-> AlongStep(f, root, path, i)]}
<1>2. ASSUME T # {} PROVE FALSE
    <2>1. PICK k \in T : \A j \in T : k <= j
        BY <1>2, LeastNat
    <2>2. k # 0
        <3>1. Part(path, 0) = {}
            BY <1>1 DEF Part
        <3>2. <<>> = [i \in Part(path, 0) |-> AlongStep(<<>>, root, path, i)]
            BY <3>1
        <3> QED
            BY <3>2
    <2>3. k \in Nat /\ k - 1 \in Nat /\ k - 1 \notin T
        BY <2>1, <2>2
    <2>4. PICK f : f = [i \in Part(path, k - 1) |-> AlongStep(f, root, path, i)]
        BY <2>3
    <2> DEFINE g == [i \in Part(path, k) |-> AlongStep(f, root, path, i)]
    <2>5. ASSUME NEW i \in Part(path, k) PROVE AlongStep(f, root, path, i) = AlongStep(g, root, path, i)
        <3>1. CASE i = 0
            BY <3>1 DEF AlongStep
        <3>2. CASE i # 0
            <4>1. i - 1 \in Part(path, k - 1) /\ i - 1 \in Part(path, k)
                BY <1>1, <2>3, <3>2 DEF Part
            <4>2. f[i - 1] = g[i - 1]
                BY <2>4, <4>1
            <4> HIDE DEF g
            <4> QED
                BY <3>2, <4>2 DEF AlongStep
        <3> QED
            BY <3>1, <3>2
    <2>6. g = [i \in Part(path, k) |-> AlongStep(g, root, path, i)]
        BY <2>5
    <2> QED
        BY <2>1, <2>6
<1>3. Len(path) + 1 \in Nat /\ Part(path, Len(path) + 1) = 0..Len(path)
    BY <1>1 DEF Part
<1>4. \E f : f = [i \in Part(path, Len(path) + 1) |-> AlongStep(f, root, path, i)]
    BY <1>2, <1>3
<1> QED
    BY <1>3, <1>4

LEMMA AlongIs ==
    ASSUME NEW root, NEW path \in Seq(Name), NEW k \in 0..Len(path)
    PROVE  Along(root, path)[k] = AlongStep(Along(root, path), root, path, k)
<1>1. \E f : f = [i \in 0..Len(path) |-> AlongStep(f, root, path, i)]
    BY AlongExists
<1> DEFINE A == Along(root, path)
<1>2. A = CHOOSE f : f = [i \in 0..Len(path) |-> IF i = 0 THEN {root} ELSE Into(f[i - 1], path[i])]
    BY DEF Along
<1>3. A = CHOOSE f : f = [i \in 0..Len(path) |-> AlongStep(f, root, path, i)]
    BY <1>2 DEF AlongStep
<1> HIDE DEF A
<1>4. A = [i \in 0..Len(path) |-> AlongStep(A, root, path, i)]
    BY <1>1, <1>3
<1>5. A[k] = AlongStep(A, root, path, k)
    BY <1>4
<1> QED
    BY <1>5 DEF A

\* x is where the first k names of a path lead.
Leads(d, path, k, z) == z \in Reaches(d) /\ Len(z.path) = k /\ \A i \in 1..k : z.path[i] = path[i]

LEMMA LeadsOnce ==
    ASSUME NEW d \in Nodes, NEW path, NEW k, NEW y, NEW z, Leads(d, path, k, y), Leads(d, path, k, z)
    PROVE  y = z
<1>1. PICK p, q : p = y.path /\ q = z.path
    OBVIOUS
<1>2. p \in Seq(Name) /\ q \in Seq(Name) /\ Len(p) = Len(q) /\ \A i \in 1..Len(p) : p[i] = q[i]
    BY <1>1, ReachesTypes DEF Leads
<1>3. p = q
    BY <1>2
<1> QED
    BY <1>1, <1>3, PathsOnce DEF Leads

\* Names lead to an entry of what all but the last lead to.
LEMMA LeadsDown ==
    ASSUME NEW d \in Nodes, NEW path, NEW k \in Nat, NEW q, q = k + 1, NEW x
    PROVE  Leads(d, path, q, x) <=>
               \E z : /\ Leads(d, path, k, z) /\ z.node \in Dirs
                      /\ path[q] \in DOMAIN z.node.kids /\ x = Entry(z, path[q])
<1>1. ASSUME Leads(d, path, q, x)
      PROVE  \E z : /\ Leads(d, path, k, z) /\ z.node \in Dirs
                    /\ path[q] \in DOMAIN z.node.kids /\ x = Entry(z, path[q])
    <2>1. x \in Listing[d]
        <3>1. Len(<<>>) = 0
            OBVIOUS
        <3>2. x.path # <<>>
            BY <1>1, <3>1 DEF Leads
        <3> QED
            BY <1>1, <3>2 DEF Reaches, Spot, Leads
    <2>2. PICK p \in Reaches(d), i \in Name :
              /\ p.node \in Dirs /\ i \in DOMAIN p.node.kids /\ x = Entry(p, i)
              /\ x.path = Append(p.path, i) /\ Len(x.path) = Len(p.path) + 1
        BY <2>1, Parents
    <2>3. p.path \in Seq(Name) /\ Len(p.path) = k
        BY <1>1, <2>2, ReachesTypes DEF Leads
    <2>4. x.path[q] = i /\ \A j \in 1..k : x.path[j] = p.path[j]
        BY <2>2, <2>3, Appends
    <2>5. path[q] = i /\ \A j \in 1..k : x.path[j] = path[j]
        BY <1>1, <2>4 DEF Leads
    <2>6. Leads(d, path, k, p)
        BY <2>2, <2>3, <2>4, <2>5 DEF Leads
    <2> QED
        BY <2>2, <2>5, <2>6
<1>2. ASSUME NEW z, Leads(d, path, k, z), z.node \in Dirs, path[q] \in DOMAIN z.node.kids,
             x = Entry(z, path[q])
      PROVE  Leads(d, path, q, x)
    <2>1. PICK i : i = path[q]
        OBVIOUS
    <2>2. z \in Reaches(d) /\ z.path \in Seq(Name) /\ i \in Name /\ Len(z.path) = k
        BY <1>2, <2>1, ReachesTypes, Kids DEF Leads
    <2>3. x \in Reaches(d)
        BY <1>2, <2>2, Children DEF Reaches
    <2>4. x.path = Append(z.path, i)
        BY <1>2, <2>1 DEF Entry, Spot
    <2>5. Len(x.path) = q /\ x.path[q] = i /\ \A j \in 1..k : x.path[j] = z.path[j]
        BY <2>2, <2>4, Appends
    <2>6. \A j \in 1..q : j = q \/ j \in 1..k
        OBVIOUS
    <2>7. \A j \in 1..k : z.path[j] = path[j]
        BY <1>2 DEF Leads
    <2> QED
        BY <2>1, <2>3, <2>5, <2>6, <2>7 DEF Leads
<1> QED
    BY <1>1, <1>2

LEMMA LeadsNowhere ==
    ASSUME NEW d \in Nodes, NEW path, NEW x
    PROVE  Leads(d, path, 0, x) <=> x = Spot(<<>>, d)
<1>1. Spot(<<>>, d) \in Reaches(d) /\ Len(Spot(<<>>, d).path) = 0 /\ 1..0 = {}
    BY DEF Reaches, Spot
<1> QED
    BY <1>1, ReachesTypes DEF Leads

LEMMA AlongHas ==
    ASSUME NEW d \in Nodes, d \in Dirs, Kept(d), NEW path \in Seq(Name), NEW k \in 0..Len(path), NEW h
    PROVE  h \in Along(Hash[d], path)[k] <=>
               \E z : Leads(d, path, k, z) /\ z.node \in Dirs /\ h = Hash[z.node]
<1>1. Len(path) \in Nat
    BY LenProperties
<1> DEFINE Has(l) == \A g : g \in Along(Hash[d], path)[l] <=>
                                \E z : Leads(d, path, l, z) /\ z.node \in Dirs /\ g = Hash[z.node]
           T == {l \in Nat : l <= Len(path) /\ ~Has(l)}
<1>2. ASSUME T # {} PROVE FALSE
    <2>1. PICK l \in T : \A j \in T : l <= j
        BY <1>2, LeastNat
    <2>2. l \in 0..Len(path)
        BY <1>1, <2>1
    <2>3. CASE l = 0
        <3>1. Along(Hash[d], path)[l] = {Hash[d]}
            BY <2>2, <2>3, AlongIs DEF AlongStep
        <3>2. \A z : Leads(d, path, l, z) <=> z = Spot(<<>>, d)
            BY <2>3, LeadsNowhere
        <3>3. Spot(<<>>, d).node = d
            BY DEF Spot
        <3>4. Has(l)
            BY <3>1, <3>2, <3>3
        <3> QED
            BY <2>1, <3>4
    <2>4. CASE l # 0
        <3>1. PICK j \in Nat : l = j + 1
            <4>1. l - 1 \in Nat /\ l = (l - 1) + 1
                BY <2>1, <2>4
            <4> QED
                BY <4>1
        <3>2. j \notin T /\ j <= Len(path)
            BY <1>1, <2>1, <3>1
        <3>3. Has(j)
            BY <3>2
        <3>4. Along(Hash[d], path)[l] = Into(Along(Hash[d], path)[j], path[l])
            <4>1. l - 1 = j
                BY <3>1
            <4>2. Along(Hash[d], path)[l] = AlongStep(Along(Hash[d], path), Hash[d], path, l)
                BY <2>2, AlongIs
            <4> QED
                BY <2>4, <4>1, <4>2 DEF AlongStep
        <3>5. PICK S : S = Along(Hash[d], path)[j]
            OBVIOUS
        <3>6. \A g : g \in S <=> \E z : Leads(d, path, j, z) /\ z.node \in Dirs /\ g = Hash[z.node]
            BY <3>3, <3>5
        <3>7. ASSUME NEW g \in Into(S, path[l])
              PROVE  \E z : Leads(d, path, l, z) /\ z.node \in Dirs /\ g = Hash[z.node]
            <4>1. PICK b \in S : \E e \in Entries(b, "Tree", path[l]) : g = e.child
                BY DEF Into
            <4>2. PICK e \in EntriesOf(b) : e.label = "Tree" /\ e.name = path[l] /\ g = e.child
                BY <4>1 DEF Entries
            <4>3. PICK z : Leads(d, path, j, z) /\ z.node \in Dirs /\ b = Hash[z.node]
                BY <3>6
            <4>4. PICK i \in DOMAIN z.node.kids : e = EdgeAt(z.node, i)
                BY <4>2, <4>3, ReachedEntries DEF Leads
            <4>5. i = path[l] /\ Label(z.node.kids[i]) = "Tree" /\ g = Hash[z.node.kids[i]]
                BY <4>2, <4>4 DEF EdgeAt
            <4>6. z.node.kids[i] \in Dirs
                BY <4>3, <4>5, Labels, Kids
            <4>7. Leads(d, path, l, Entry(z, i))
                BY <3>1, <4>3, <4>4, <4>5, LeadsDown
            <4>8. Entry(z, i).node = z.node.kids[i]
                BY DEF Entry, Spot
            <4> QED
                BY <4>5, <4>6, <4>7, <4>8
        <3>8. ASSUME NEW z, Leads(d, path, l, z), z.node \in Dirs PROVE Hash[z.node] \in Into(S, path[l])
            <4>1. PICK p : /\ Leads(d, path, j, p) /\ p.node \in Dirs
                           /\ path[l] \in DOMAIN p.node.kids /\ z = Entry(p, path[l])
                BY <3>1, <3>8, LeadsDown
            <4>2. PICK e : e = EdgeAt(p.node, path[l])
                OBVIOUS
            <4>3. Hash[p.node] \in S /\ e \in EntriesOf(Hash[p.node])
                BY <3>6, <4>1, <4>2, ReachedEntries DEF Leads
            <4>4. z.node = p.node.kids[path[l]]
                BY <4>1 DEF Entry, Spot
            <4>5. e.label = "Tree" /\ e.name = path[l] /\ e.child = Hash[z.node]
                BY <3>8, <4>2, <4>4, Labels DEF EdgeAt, Dirs
            <4>6. e \in Entries(Hash[p.node], "Tree", path[l])
                BY <4>3, <4>5 DEF Entries
            <4> QED
                BY <4>3, <4>5, <4>6 DEF Into
        <3>9. Has(l)
            BY <3>4, <3>5, <3>7, <3>8
        <3> QED
            BY <2>1, <3>9
    <2> QED
        BY <2>3, <2>4
<1>3. Has(k)
    BY <1>1, <1>2
<1> QED
    BY <1>3

LEMMA ChildrenAt ==
    ASSUME NEW d \in Nodes, d \in Dirs, Kept(d), NEW path \in Seq(Name), path # <<>>, NEW y
    PROVE  y \in ChildrenAtPath(Hash[d], path) <=>
               \E x : Leads(d, path, Len(path), x) /\ y = IdOf(x.node)
<1>1. PICK q : q = Len(path)
    OBVIOUS
<1>2. PICK k : k = q - 1
    OBVIOUS
<1>3. PICK last : last = path[q]
    OBVIOUS
<1>4. q \in Nat /\ k \in Nat /\ q = k + 1 /\ k \in 0..Len(path)
    BY <1>1, <1>2, LenProperties, EmptySeq
<1> DEFINE At(h) == LET files == Entries(h, "Blob", last)
                    IN  {Id(e) : e \in IF files # {} THEN files ELSE Entries(h, "Tree", last)}
<1>5. ChildrenAtPath(Hash[d], path) = UNION {At(h) : h \in Along(Hash[d], path)[k]}
    BY <1>1, <1>2, <1>3 DEF ChildrenAtPath
<1>6. \A h : h \in Along(Hash[d], path)[k] <=>
                 \E z : Leads(d, path, k, z) /\ z.node \in Dirs /\ h = Hash[z.node]
    BY <1>4, AlongHas
<1>7. ASSUME NEW z, Leads(d, path, k, z), z.node \in Dirs
      PROVE  y \in At(Hash[z.node]) <=> last \in DOMAIN z.node.kids /\ y = IdOf(z.node.kids[last])
    <2>1. PICK h : h = Hash[z.node]
        OBVIOUS
    <2>2. PICK e : e = EdgeAt(z.node, last)
        OBVIOUS
    <2>3. \A f : f \in EntriesOf(h) /\ f.name = last <=> last \in DOMAIN z.node.kids /\ f = e
        <3>1. \A f : f \in EntriesOf(h) <=> \E i \in DOMAIN z.node.kids : f = EdgeAt(z.node, i)
            BY <1>7, <2>1, ReachedEntries DEF Leads
        <3>2. \A i : EdgeAt(z.node, i).name = i
            BY DEF EdgeAt
        <3> QED
            BY <2>2, <3>1, <3>2
    <2>4. Id(e) = IdOf(z.node.kids[last]) /\ e.label \in {"Tree", "Blob"}
        BY <2>2 DEF Id, EdgeAt, IdOf, Label
    <2>5. \A l : \A f : f \in Entries(h, l, last) <=> last \in DOMAIN z.node.kids /\ f = e /\ l = e.label
        BY <2>3 DEF Entries
    <2>6. CASE last \notin DOMAIN z.node.kids
        <3>1. Entries(h, "Blob", last) = {} /\ Entries(h, "Tree", last) = {}
            BY <2>5, <2>6
        <3> QED
            BY <2>1, <2>6, <3>1
    <2>7. CASE last \in DOMAIN z.node.kids /\ e.label = "Blob"
        <3>1. Entries(h, "Blob", last) = {e}
            BY <2>5, <2>7
        <3> QED
            BY <2>1, <2>4, <2>7, <3>1
    <2>8. CASE last \in DOMAIN z.node.kids /\ e.label = "Tree"
        <3>1. Entries(h, "Blob", last) = {} /\ Entries(h, "Tree", last) = {e}
            BY <2>5, <2>8
        <3> QED
            BY <2>1, <2>4, <2>8, <3>1
    <2> QED
        BY <2>4, <2>6, <2>7, <2>8
<1> HIDE DEF At
<1>8. \A z : Entry(z, last).node = z.node.kids[last]
    BY DEF Entry, Spot
<1>9. \A x : Leads(d, path, q, x) <=>
                 \E z : /\ Leads(d, path, k, z) /\ z.node \in Dirs
                        /\ last \in DOMAIN z.node.kids /\ x = Entry(z, last)
    BY <1>3, <1>4, LeadsDown
<1>10. ASSUME y \in ChildrenAtPath(Hash[d], path)
       PROVE  \E x : Leads(d, path, q, x) /\ y = IdOf(x.node)
    <2>1. PICK z : Leads(d, path, k, z) /\ z.node \in Dirs /\ y \in At(Hash[z.node])
        BY <1>5, <1>6, <1>10
    <2>2. last \in DOMAIN z.node.kids /\ y = IdOf(z.node.kids[last])
        BY <1>7, <2>1
    <2> QED
        BY <1>8, <1>9, <2>1, <2>2
<1>11. ASSUME NEW x, Leads(d, path, q, x), y = IdOf(x.node)
       PROVE  y \in ChildrenAtPath(Hash[d], path)
    <2>1. PICK z : /\ Leads(d, path, k, z) /\ z.node \in Dirs
                   /\ last \in DOMAIN z.node.kids /\ x = Entry(z, last)
        BY <1>9, <1>11
    <2>2. y \in At(Hash[z.node])
        BY <1>7, <1>8, <1>11, <2>1
    <2> QED
        BY <1>5, <1>6, <2>1, <2>2
<1> QED
    BY <1>1, <1>10, <1>11

LEMMA LeadsThere ==
    ASSUME NEW d \in Nodes, NEW x \in Listing[d], NEW path, path = x.path
    PROVE  path \in Seq(Name) /\ path # <<>> /\ Leads(d, path, Len(path), x)
<1>1. path \in Seq(Name) /\ Len(path) >= 1
    BY ListingTypes DEF IsBelow
<1>2. Len(<<>>) = 0
    OBVIOUS
<1> QED
    BY <1>1, <1>2 DEF Leads, Reaches

LEMMA LookupInv == ASSUME HashFixesEntries, KeptInv PROVE LookupAgrees
<1> SUFFICES ASSUME NEW c \in commits
             PROVE  /\ \A x \in Listing[c.dir] :
                           LET found == {IdOf(x.node)}
                           IN  /\ ChildrenAtPath(c.root, x.path) = found
                               /\ TreesAtPath(c.root, x.path) = (IF x.node.kind = "dir" THEN found ELSE {})
                               /\ BlobsAtPath(c.root, x.path) = (IF x.node.kind = "dir" THEN {} ELSE found)
                    /\ \A d \in Roots : \A x \in Listing[d] :
                           (\A y \in Listing[c.dir] : y.path # x.path) =>
                               ChildrenAtPath(c.root, x.path) = {}
    BY DEF LookupAgrees
<1>1. c.dir \in Dirs /\ c.dir \in Nodes /\ c.root = Hash[c.dir] /\ Kept(c.dir)
    BY WholeEntries DEF KeptInv, GraphInv
<1>2. ASSUME NEW x \in Listing[c.dir]
      PROVE  LET found == {IdOf(x.node)}
             IN  /\ ChildrenAtPath(c.root, x.path) = found
                 /\ TreesAtPath(c.root, x.path) = (IF x.node.kind = "dir" THEN found ELSE {})
                 /\ BlobsAtPath(c.root, x.path) = (IF x.node.kind = "dir" THEN {} ELSE found)
    <2>1. PICK path : path = x.path
        OBVIOUS
    <2>2. path \in Seq(Name) /\ path # <<>> /\ Leads(c.dir, path, Len(path), x)
        BY <1>1, <2>1, LeadsThere
    <2>3. \A z : Leads(c.dir, path, Len(path), z) => z = x
        BY <1>1, <2>2, LeadsOnce
    <2>4. ASSUME NEW y PROVE y \in ChildrenAtPath(c.root, path) <=> y = IdOf(x.node)
        BY <1>1, <2>2, <2>3, ChildrenAt
    <2>5. ChildrenAtPath(c.root, path) = {IdOf(x.node)}
        BY <2>4
    <2>6. x.node \in Nodes /\ IdOf(x.node).label = Label(x.node)
        BY <1>1, ListingTypes DEF IsBelow, IdOf
    <2>7. IdOf(x.node).label = (IF x.node.kind = "dir" THEN "Tree" ELSE "Blob")
        BY <2>6 DEF Label
    <2>8. TreesAtPath(c.root, path) = (IF x.node.kind = "dir" THEN {IdOf(x.node)} ELSE {})
        BY <2>5, <2>7 DEF TreesAtPath
    <2>9. BlobsAtPath(c.root, path) = (IF x.node.kind = "dir" THEN {} ELSE {IdOf(x.node)})
        BY <2>5, <2>7 DEF BlobsAtPath
    <2> QED
        BY <2>1, <2>5, <2>8, <2>9
<1>3. ASSUME NEW d \in Roots, NEW x \in Listing[d], \A y \in Listing[c.dir] : y.path # x.path
      PROVE  ChildrenAtPath(c.root, x.path) = {}
    <2>1. PICK path : path = x.path
        OBVIOUS
    <2>2. d \in Nodes
        BY NodesAssumption
    <2>3. path \in Seq(Name) /\ path # <<>>
        BY <2>1, <2>2, LeadsThere
    <2>4. ASSUME NEW y \in ChildrenAtPath(c.root, path) PROVE FALSE
        <3>1. PICK z : Leads(c.dir, path, Len(path), z)
            BY <1>1, <2>3, ChildrenAt
        <3>2. PICK p : p = z.path
            OBVIOUS
        <3>3. p \in Seq(Name) /\ Len(p) = Len(path) /\ \A i \in 1..Len(path) : p[i] = path[i]
            BY <1>1, <3>1, <3>2, ReachesTypes DEF Leads
        <3>4. p = path
            BY <2>3, <3>3
        <3>5. z \in Listing[c.dir]
            <4>1. z \in Reaches(c.dir)
                BY <3>1 DEF Leads
            <4>2. Spot(<<>>, c.dir).path = <<>>
                BY DEF Spot
            <4>3. z # Spot(<<>>, c.dir)
                BY <2>3, <3>2, <3>4, <4>2
            <4> QED
                BY <4>1, <4>3 DEF Reaches
        <3> QED
            BY <1>3, <2>1, <3>2, <3>4, <3>5
    <2> QED
        BY <2>1, <2>4
<1> QED
    BY <1>2, <1>3

\* If the hash of a directory fixes its entries, every path of a commit leads to what
\* was committed there, of its kind, whatever else shares its Trees; and a path that
\* only others have leads to nothing.
THEOREM LookupFinds == HashFixesEntries /\ Spec => []LookupAgrees
<1> SUFFICES ASSUME HashFixesEntries PROVE Spec => []LookupAgrees
    OBVIOUS
<1>1. KeptInv => LookupAgrees
    BY LookupInv
<1> QED
    BY <1>1, KeptAlways, PTL

-----------------------------------------------------------------------------
(* Search *)

Place(c, x) == [root |-> c.root, path |-> x.path, hash |-> Hash[x.node]]

LEMMA BlobsOf ==
    ASSUME HashFixesEntries, KeptInv, NEW c \in commits, NEW r
    PROVE  (\E y \in AllBlobs(c.root) : r = [root |-> c.root, path |-> y.path, hash |-> y.id.hash]) <=>
               \E x \in Listing[c.dir] : x.node.kind # "dir" /\ r = Place(c, x)
<1>1. c.dir \in Dirs /\ c.dir \in Nodes /\ c.root = Hash[c.dir] /\ Kept(c.dir)
    BY WholeEntries DEF KeptInv, GraphInv
<1>2. \A y : y \in Subtree(c.root) <=> \E x \in Listing[c.dir] : y = Found(x)
    BY <1>1, SubtreeHas
<1>3. \A x \in Listing[c.dir] : x.node.kind # "dir" <=> Found(x).id.label = "Blob"
    BY <1>1, ListingTypes DEF IsBelow, Found, IdOf, Label
<1>4. \A x : Found(x).path = x.path /\ Found(x).id.hash = Hash[x.node]
    BY DEF Found, IdOf
<1>5. \A x : Place(c, x) = [root |-> c.root, path |-> Found(x).path, hash |-> Found(x).id.hash]
    BY <1>4 DEF Place
<1>6. \A y : y \in AllBlobs(c.root) <=> \E x \in Listing[c.dir] : x.node.kind # "dir" /\ y = Found(x)
    BY <1>2, <1>3 DEF AllBlobs
<1> QED
    BY <1>5, <1>6

LEMMA RowsAre ==
    ASSUME HashFixesEntries, KeptInv, NEW S \in SUBSET commits
    PROVE  Rows({d.root : d \in S}) = Places(IF S = {} THEN commits ELSE S)
<1> DEFINE os == {d.root : d \in S}
           all == IF S = {} THEN commits ELSE S
           Of(c) == {[root |-> c.root, path |-> y.path, hash |-> y.id.hash] : y \in AllBlobs(c.root)}
           In(c) == {[root |-> c.root, path |-> x.path, hash |-> Hash[x.node]] :
                         x \in {z \in Listing[c.dir] : z.node.kind # "dir"}}
<1>1. Rows(os) = UNION {Of(c) : c \in Among(os)}
    BY DEF Rows
<1>2. Places(all) = UNION {In(c) : c \in all}
    BY DEF Places
<1>3. ASSUME NEW c \in commits PROVE Of(c) = In(c)
    <2>1. \A r : r \in Of(c) <=> \E y \in AllBlobs(c.root) :
                                    r = [root |-> c.root, path |-> y.path, hash |-> y.id.hash]
        OBVIOUS
    <2>2. \A r : r \in In(c) <=> \E x \in Listing[c.dir] : x.node.kind # "dir" /\ r = Place(c, x)
        BY DEF Place
    <2> HIDE DEF Of, In
    <2> QED
        BY <2>1, <2>2, BlobsOf
<1>4. \A c, d : c.root = d.root => Of(c) = Of(d)
    OBVIOUS
<1>5. \A c \in Among(os) : c \in commits /\ (c \in all \/ \E d \in all : c.root = d.root)
    BY DEF Among
<1>6. all \subseteq Among(os) /\ all \subseteq commits
    BY DEF Among
<1> HIDE DEF os, all, Of, In
<1>7. Rows(os) = Places(all)
    BY <1>1, <1>2, <1>3, <1>4, <1>5, <1>6
<1> QED
    BY <1>7 DEF os, all

Agree(results, all) == \A R \in results : R \subseteq all /\ (R = all \/ Cardinality(R) = Limit)

LEMMA CutAgrees == ASSUME NEW all PROVE Agree(Cut(all), all)
BY DEF Agree, Cut

LEMMA SearchInv == ASSUME HashFixesEntries, KeptInv PROVE SearchAgrees
<1>1. ASSUME NEW S \in SUBSET commits, NEW c \in commits, NEW x \in Listing[c.dir]
      PROVE  LET os     == {d.root : d \in S}
                 places == Places(IF S = {} THEN commits ELSE S)
                 name   == x.path[Len(x.path)]
             IN  /\ Agree(SearchBySha1(os, Hash[x.node]), {p \in places : p.hash = Hash[x.node]})
                 /\ Agree(SearchByPath(os, x.path), {p \in places : p.path = x.path})
                 /\ Agree(SearchByFilename(os, name), {p \in places : p.path[Len(p.path)] = name})
    <2> DEFINE os     == {d.root : d \in S}
               places == Places(IF S = {} THEN commits ELSE S)
               name   == x.path[Len(x.path)]
    <2>1. Rows(os) = places
        BY RowsAre
    <2> HIDE DEF os, places, name
    <2>2. /\ SearchBySha1(os, Hash[x.node]) = Cut({p \in places : p.hash = Hash[x.node]})
          /\ SearchByPath(os, x.path) = Cut({p \in places : p.path = x.path})
          /\ SearchByFilename(os, name) = Cut({p \in places : p.path[Len(p.path)] = name})
        BY <2>1 DEF SearchBySha1, SearchByPath, SearchByFilename
    <2>3. /\ Agree(SearchBySha1(os, Hash[x.node]), {p \in places : p.hash = Hash[x.node]})
          /\ Agree(SearchByPath(os, x.path), {p \in places : p.path = x.path})
          /\ Agree(SearchByFilename(os, name), {p \in places : p.path[Len(p.path)] = name})
        BY <2>2, CutAgrees
    <2> QED
        BY <2>3 DEF os, places, name
<1> QED
    BY <1>1, Zenon DEF SearchAgrees, Agree

\* If the hash of a directory fixes its entries, a search finds every place of a
\* content, a path or a name in the commits it is limited to, and none in others, up
\* to its limit, though the rows come from Trees that other commits share.
THEOREM SearchFinds == HashFixesEntries /\ Spec => []SearchAgrees
<1> SUFFICES ASSUME HashFixesEntries PROVE Spec => []SearchAgrees
    OBVIOUS
<1>1. KeptInv => SearchAgrees
    BY SearchInv
<1> QED
    BY <1>1, KeptAlways, PTL

-----------------------------------------------------------------------------
(* Sorting *)

Total(S, R) ==
    /\ \A a, b \in S : a # b => <<a, b>> \in R \/ <<b, a>> \in R
    /\ \A a, b, c \in S : <<a, b>> \in R /\ <<b, c>> \in R => <<a, c>> \in R
    /\ \A a \in S : <<a, a>> \notin R

LEMMA Latest ==
    ASSUME NEW S, NEW R, Total(S, R), NEW U \in SUBSET S, IsFiniteSet(U), U # {}
    PROVE  \E m \in U : \A a \in U : a # m => <<a, m>> \in R
<1> DEFINE Has(V) == \E m \in V : \A a \in V : a # m => <<a, m>> \in R
           T == {k \in Nat : \E V \in SUBSET U : Cardinality(V) = k /\ V # {} /\ ~Has(V)}
<1>1. ASSUME T # {} PROVE FALSE
    <2>1. PICK k \in T : \A l \in T : k <= l
        BY <1>1, LeastNat
    <2>2. PICK V \in SUBSET U : Cardinality(V) = k /\ V # {} /\ ~Has(V)
        BY <2>1
    <2>3. PICK y \in V : TRUE
        BY <2>2
    <2>4. IsFiniteSet(V)
        BY FS_Subset
    <2>5. Cardinality(V \ {y}) = k - 1 /\ Cardinality(V \ {y}) \in Nat
        BY <2>2, <2>4, FS_RemoveElement, FS_CardinalityType
    <2>6. V \ {y} # {}
        <3>1. ASSUME V \ {y} = {} PROVE V = {y}
            BY <3>1
        <3> QED
            BY <2>2, <3>1
    <2>7. k - 1 \notin T
        BY <2>1, <2>5
    <2>8. Has(V \ {y})
        BY <2>5, <2>6, <2>7
    <2>9. PICK m \in V \ {y} : \A a \in V \ {y} : a # m => <<a, m>> \in R
        BY <2>8
    <2>10. m \in S /\ y \in S /\ m # y /\ \A a \in V : a \in S
        BY <2>3, <2>9
    <2>11. CASE <<y, m>> \in R
        BY <2>2, <2>9, <2>11
    <2>12. CASE <<m, y>> \in R
        <3>1. \A a \in V : a # y => <<a, y>> \in R
            BY <2>9, <2>10, <2>12 DEF Total
        <3> QED
            BY <2>2, <3>1
    <2> QED
        BY <2>10, <2>11, <2>12 DEF Total
<1>2. Cardinality(U) \in Nat /\ U \in SUBSET U
    BY FS_CardinalityType
<1> QED
    BY <1>1, <1>2

InOrder(s, k, R) == \A i, j \in 1..k : i < j => <<s[i], s[j]>> \in R

LEMMA SortExists ==
    ASSUME NEW S, NEW R, Total(S, R), IsFiniteSet(S)
    PROVE  \E s \in [1..Cardinality(S) -> S] : InOrder(s, Cardinality(S), R)
<1> DEFINE Has(U, k) == \E s \in [1..k -> U] : InOrder(s, k, R)
           T == {k \in Nat : \E U \in SUBSET S : Cardinality(U) = k /\ ~Has(U, k)}
<1>1. ASSUME T # {} PROVE FALSE
    <2>1. PICK k \in T : \A l \in T : k <= l
        BY <1>1, LeastNat
    <2>2. PICK U \in SUBSET S : Cardinality(U) = k /\ ~Has(U, k)
        BY <2>1
    <2>3. IsFiniteSet(U)
        BY FS_Subset
    <2>4. U # {}
        <3>1. ASSUME U = {} PROVE FALSE
            <4>1. k = 0
                BY <2>2, <3>1, FS_EmptySet
            <4>2. 1..0 = {}
                OBVIOUS
            <4>3. [i \in {} |-> i] \in [1..k -> U]
                BY <4>1, <4>2
            <4>4. InOrder([i \in {} |-> i], k, R)
                BY <4>1, <4>2 DEF InOrder
            <4> QED
                BY <2>2, <4>3, <4>4
        <3> QED
            BY <3>1
    <2>5. PICK m \in U : \A a \in U : a # m => <<a, m>> \in R
        BY <2>3, <2>4, Latest
    <2>6. Cardinality(U \ {m}) = k - 1 /\ Cardinality(U \ {m}) \in Nat
        BY <2>2, <2>3, FS_RemoveElement, FS_CardinalityType
    <2>7. k - 1 \notin T /\ U \ {m} \in SUBSET S
        BY <2>1, <2>6
    <2>8. Has(U \ {m}, k - 1)
        BY <2>6, <2>7
    <2>9. PICK s \in [1..(k - 1) -> U \ {m}] : InOrder(s, k - 1, R)
        BY <2>8
    <2> DEFINE t == [i \in 1..k |-> IF i = k THEN m ELSE s[i]]
    <2>10. \A i \in 1..k : i = k \/ i \in 1..(k - 1)
        BY <2>1
    <2>11. \A i \in 1..(k - 1) : i \in 1..k /\ i # k /\ t[i] = s[i] /\ s[i] \in U \ {m}
        BY <2>1, <2>6
    <2>12. t \in [1..k -> U]
        BY <2>10, <2>11
    <2>13. ASSUME NEW i \in 1..k, NEW j \in 1..k, i < j PROVE <<t[i], t[j]>> \in R
        <3>1. i \in 1..(k - 1)
            BY <2>10, <2>13
        <3>2. CASE j = k
            BY <2>5, <2>11, <3>1, <3>2
        <3>3. CASE j \in 1..(k - 1)
            BY <2>9, <2>11, <2>13, <3>1, <3>3 DEF InOrder
        <3> QED
            BY <2>10, <3>2, <3>3
    <2> HIDE DEF t
    <2>14. InOrder(t, k, R)
        BY <2>13 DEF InOrder
    <2> QED
        BY <2>2, <2>12, <2>14
<1>2. Cardinality(S) \in Nat /\ S \in SUBSET S
    BY FS_CardinalityType
<1> QED
    BY <1>1, <1>2

Sorting(d) == {p \in (DOMAIN d.kids) \X (DOMAIN d.kids) : Before(d, p[1], p[2])}

LEMMA SortingTotal == ASSUME NEW d \in Dirs PROVE Total(DOMAIN d.kids, Sorting(d))
<1> DEFINE D == DOMAIN d.kids
<1>1. \A m \in D : m \in Nat
    BY Kids DEF Name
<1>2. \A m, n \in D : <<m, n>> \in Sorting(d) <=> Before(d, m, n)
    BY DEF Sorting
<1>3. PICK f : f = [m \in D |-> DirFirst(d.kids[m])]
    OBVIOUS
<1>4. \A m, n \in D : Before(d, m, n) <=> (f[m] /\ ~f[n]) \/ (f[m] = f[n] /\ m < n)
    BY <1>3 DEF Before
<1>5. \A m \in D : f[m] \in BOOLEAN
    BY <1>3 DEF DirFirst
<1> HIDE DEF D
<1>6. \A m, n \in D : m # n => Before(d, m, n) \/ Before(d, n, m)
    BY <1>1, <1>4, <1>5
<1>7. \A m, n, k \in D : Before(d, m, n) /\ Before(d, n, k) => Before(d, m, k)
    BY <1>1, <1>4, <1>5
<1>8. \A m \in D : ~Before(d, m, m)
    BY <1>1, <1>4
<1>9. Total(D, Sorting(d))
    BY <1>2, <1>6, <1>7, <1>8 DEF Total
<1> QED
    BY <1>9 DEF D

\* The names of a directory in order: each once.
LEMMA NamesSorted ==
    ASSUME NEW d \in Dirs
    PROVE  LET names == SortedNames(d)
           IN  /\ names \in Seq(Name) /\ Len(names) \in Nat
               /\ \A i \in 1..Len(names) : names[i] \in DOMAIN d.kids
               /\ \A m \in DOMAIN d.kids : \E i \in 1..Len(names) : names[i] = m
<1> DEFINE D == DOMAIN d.kids
           c == Cardinality(D)
           Good(s) == \A i, j \in DOMAIN s : i < j => Before(d, s[i], s[j])
<1>1. IsFiniteSet(D) /\ c \in Nat /\ \A m \in D : m \in Name
    BY Kids, FS_CardinalityType
<1>2. PICK s \in [1..c -> D] : InOrder(s, c, Sorting(d))
    BY <1>1, SortingTotal, SortExists
<1>3. \A i, j \in 1..c : i < j => <<s[i], s[j]>> \in Sorting(d)
    BY <1>2 DEF InOrder
<1>4. \A m \in D : <<m, m>> \notin Sorting(d)
    BY SortingTotal DEF Total
<1>5. ASSUME NEW i \in 1..c, NEW j \in 1..c, i # j PROVE s[i] # s[j]
    <2>1. i < j \/ j < i
        BY <1>1, <1>5
    <2>2. s[i] \in D /\ s[j] \in D
        BY <1>2
    <2> QED
        BY <1>3, <1>4, <2>1, <2>2
<1>6. s \in SetToSeqs(D)
    BY <1>2, <1>5 DEF SetToSeqs
<1>7. Good(s)
    BY <1>2, <1>3 DEF Sorting
<1> DEFINE t == SortedNames(d)
<1>8. t = CHOOSE u \in SetToSeqs(D) : Good(u)
    BY DEF SortedNames
<1> HIDE DEF t, Good
<1>9. t \in SetToSeqs(D)
    BY <1>6, <1>7, <1>8
<1>10. t \in [1..c -> D] /\ \A i, j \in 1..c : i # j => t[i] # t[j]
    BY <1>9 DEF SetToSeqs
<1> HIDE DEF c
<1>11. t \in Seq(Name) /\ Len(t) = c
    BY <1>1, <1>10
<1>12. \A m \in D : \E i \in 1..c : t[i] = m
    <2>1. t \in Injection(1..c, D)
        BY <1>10 DEF Injection, IsInjective
    <2>2. 0 \in Int /\ 1 \in Int /\ c \in Int
        BY <1>1
    <2>3. Cardinality(1..c) = IF 1 > c THEN 0 ELSE c - 1 + 1
        BY <2>2, FS_Interval
    <2>4. Cardinality(1..c) = Cardinality(D)
        BY <1>1, <2>3 DEF c
    <2>5. t \in Surjection(1..c, D)
        BY <1>1, <2>1, <2>4, FS_Injection
    <2> QED
        BY <2>5 DEF Surjection
<1> QED
    BY <1>1, <1>10, <1>11, <1>12 DEF t

-----------------------------------------------------------------------------
(* Flattening *)

FlatStep(f, ss, i) == IF i = 1 THEN ss[i] ELSE f[i - 1] \o ss[i]

Upto(n, k) == {i \in 1..n : i <= k}

Index(n) == 1..n

LEMMA FlatExists ==
    ASSUME NEW ss, NEW n \in Nat
    PROVE  \E f : f = [i \in Index(n) |-> FlatStep(f, ss, i)]
<1> DEFINE T == {k \in Nat : ~\E f : f = [i \in Upto(n, k) |-> FlatStep(f, ss, i)]}
<1>1. ASSUME T # {} PROVE FALSE
    <2>1. PICK k \in T : \A j \in T : k <= j
        BY <1>1, LeastNat
    <2>2. k # 0
        <3>1. Upto(n, 0) = {}
            BY DEF Upto
        <3>2. <<>> = [i \in Upto(n, 0) |-> FlatStep(<<>>, ss, i)]
            BY <3>1
        <3> QED
            BY <3>2
    <2>3. k \in Nat /\ k - 1 \in Nat /\ k - 1 \notin T
        BY <2>1, <2>2
    <2>4. PICK f : f = [i \in Upto(n, k - 1) |-> FlatStep(f, ss, i)]
        BY <2>3
    <2> DEFINE g == [i \in Upto(n, k) |-> FlatStep(f, ss, i)]
    <2>5. ASSUME NEW i \in Upto(n, k) PROVE FlatStep(f, ss, i) = FlatStep(g, ss, i)
        <3>1. CASE i = 1
            BY <3>1 DEF FlatStep
        <3>2. CASE i # 1
            <4>1. i - 1 \in Upto(n, k - 1) /\ i - 1 \in Upto(n, k)
                BY <2>3, <3>2 DEF Upto
            <4>2. f[i - 1] = g[i - 1]
                BY <2>4, <4>1
            <4> HIDE DEF g
            <4> QED
                BY <3>2, <4>2 DEF FlatStep
        <3> QED
            BY <3>1, <3>2
    <2>6. g = [i \in Upto(n, k) |-> FlatStep(g, ss, i)]
        BY <2>5
    <2> QED
        BY <2>1, <2>6
<1>2. Upto(n, n) = Index(n)
    BY DEF Upto, Index
<1>3. \E f : f = [i \in Upto(n, n) |-> FlatStep(f, ss, i)]
    BY <1>1
<1> QED
    BY <1>2, <1>3

LEMMA FlattenIs ==
    ASSUME NEW ss, NEW n \in Nat, n # 0, Len(ss) = n
    PROVE  \E A : FlattenSeq(ss) = A[n] /\ \A i \in 1..n : A[i] = FlatStep(A, ss, i)
<1>1. \E f : f = [i \in Index(n) |-> FlatStep(f, ss, i)]
    BY FlatExists
<1> DEFINE A == CHOOSE f : f = [i \in Index(n) |-> IF i = 1 THEN ss[i] ELSE f[i - 1] \o ss[i]]
<1>2. FlattenSeq(ss) = A[n]
    BY DEF FlattenSeq, Index
<1>3. A = CHOOSE f : f = [i \in Index(n) |-> FlatStep(f, ss, i)]
    BY DEF FlatStep
<1> HIDE DEF A
<1>4. A = [i \in Index(n) |-> FlatStep(A, ss, i)]
    BY <1>1, <1>3
<1>5. \A i \in 1..n : A[i] = FlatStep(A, ss, i)
    BY <1>4 DEF Index
<1> QED
    BY <1>2, <1>5

LEMMA FlattenType ==
    ASSUME NEW S, NEW ss, NEW n \in Nat, Len(ss) = n, n = 0 => ss = <<>>,
           \A i \in 1..n : ss[i] \in Seq(S)
    PROVE  FlattenSeq(ss) \in Seq(S)
<1>1. CASE n = 0
    <2>1. <<>> \in Seq(S)
        OBVIOUS
    <2> QED
        BY <1>1, <2>1 DEF FlattenSeq
<1>2. CASE n # 0
    <2>1. PICK A : FlattenSeq(ss) = A[n] /\ \A i \in 1..n : A[i] = FlatStep(A, ss, i)
        BY <1>2, FlattenIs
    <2> DEFINE T == {k \in Nat : k \in 1..n /\ A[k] \notin Seq(S)}
    <2>2. ASSUME T # {} PROVE FALSE
        <3>1. PICK k \in T : \A l \in T : k <= l
            BY <2>2, LeastNat
        <3>2. CASE k = 1
            BY <2>1, <3>1, <3>2 DEF FlatStep
        <3>3. CASE k # 1
            <4>1. k - 1 \in Nat /\ k - 1 \in 1..n /\ k - 1 \notin T
                BY <3>1, <3>3
            <4>2. A[k - 1] \in Seq(S) /\ ss[k] \in Seq(S)
                BY <3>1, <4>1
            <4>3. A[k] = A[k - 1] \o ss[k]
                BY <2>1, <3>1, <3>3 DEF FlatStep
            <4>4. PICK a, b : a = A[k - 1] /\ b = ss[k]
                OBVIOUS
            <4>5. a \o b \in Seq(S)
                BY <4>2, <4>4, ConcatProperties
            <4> QED
                BY <3>1, <4>3, <4>4, <4>5
        <3> QED
            BY <3>2, <3>3
    <2>3. n \in 1..n
        BY <1>2
    <2> QED
        BY <2>1, <2>2, <2>3
<1> QED
    BY <1>1, <1>2

-----------------------------------------------------------------------------
(* What a hash fixes *)

\* The lines of a directory, by the hashes of what is in it
LinesOf(f, n) ==
    [i \in 1..Len(SortedNames(n)) |-> Line(SortedNames(n)[i], f[n.kids[SortedNames(n)[i]]])]

HashStep(f, n) == IF n.kind # "dir" THEN n.text ELSE FlattenSeq(LinesOf(f, n))

LEMMA SortedKids ==
    ASSUME NEW k \in Nat, k # 0, NEW n \in Low(k), n.kind = "dir", NEW i \in 1..Len(SortedNames(n))
    PROVE  n.kids[SortedNames(n)[i]] \in Low(k - 1) /\ n.kids[SortedNames(n)[i]] \in Low(k)
<1>1. n \in Dirs
    BY DEF Low, Dirs
<1>2. SortedNames(n)[i] \in DOMAIN n.kids
    BY <1>1, NamesSorted
<1> QED
    BY <1>2, LowKids

LEMMA HashExists == \E f : f = [n \in Nodes |-> HashStep(f, n)]
<1> DEFINE T == {k \in Nat : ~\E f : f = [n \in Low(k) |-> HashStep(f, n)]}
<1>1. ASSUME T # {} PROVE FALSE
    <2>1. PICK k \in T : \A j \in T : k <= j
        BY <1>1, LeastNat
    <2>2. k # 0
        <3>1. <<>> = [n \in Low(0) |-> HashStep(<<>>, n)]
            BY LowAll
        <3> QED
            BY <3>1
    <2>3. k \in Nat /\ k - 1 \in Nat /\ k - 1 \notin T
        BY <2>1, <2>2
    <2>4. PICK f : f = [n \in Low(k - 1) |-> HashStep(f, n)]
        BY <2>3
    <2> DEFINE g == [n \in Low(k) |-> HashStep(f, n)]
    <2>5. ASSUME NEW n \in Low(k) PROVE HashStep(f, n) = HashStep(g, n)
        <3>1. CASE n.kind = "dir"
            <4> DEFINE kid(i) == n.kids[SortedNames(n)[i]]
            <4>1. \A i \in 1..Len(SortedNames(n)) : kid(i) \in Low(k - 1) /\ kid(i) \in Low(k)
                BY <2>2, <3>1, SortedKids
            <4>2. \A i \in 1..Len(SortedNames(n)) : f[kid(i)] = g[kid(i)]
                BY <2>4, <4>1
            <4> HIDE DEF g
            <4>3. LinesOf(f, n) = LinesOf(g, n)
                BY <4>2 DEF LinesOf
            <4> QED
                BY <3>1, <4>3 DEF HashStep
        <3> QED
            BY <3>1 DEF HashStep
    <2>6. g = [n \in Low(k) |-> HashStep(g, n)]
        BY <2>5
    <2> QED
        BY <2>1, <2>6
<1> QED
    BY <1>1, LowAll

LEMMA HashIs == ASSUME NEW n \in Nodes PROVE Hash[n] = HashStep(Hash, n)
<1>1. Hash = [k \in Nodes |-> HashStep(Hash, k)]
    BY HashExists DEF Hash, HashStep, LinesOf
<1> QED
    BY <1>1

\* What hashes are made of
Sign == Signs \cup {NewLine} \cup {Hash[n] : n \in Nodes}

\* A text that ends with its only newline
IsLine(t) ==
    /\ t \in Seq(Sign) /\ Len(t) \in Nat /\ Len(t) > 0 /\ t[Len(t)] = NewLine
    /\ \A i \in 1..Len(t) : i < Len(t) => t[i] # NewLine

\* A text that a newline ends, if there is anything in it
Ended(t) == t \in Seq(Sign) /\ Len(t) \in Nat /\ (Len(t) > 0 => t[Len(t)] = NewLine)

\* Text w with its last line cut off
Split(w, u, s) == Ended(u) /\ IsLine(s) /\ w = u \o s

\* If the rest is ended, the last line is no shorter or longer in one text than in the other.
LEMMA NoShorter ==
    ASSUME NEW w, NEW u, NEW v, NEW s, NEW t, Split(w, u, s), Split(w, v, t)
    PROVE  ~(Len(s) < Len(t))
<1>0. Ended(u) /\ Ended(v) /\ IsLine(s) /\ IsLine(t) /\ u \o s = v \o t
    BY DEF Split
<1> SUFFICES ASSUME Len(s) < Len(t) PROVE FALSE
    OBVIOUS
<1>1. Len(u \o s) = Len(u) + Len(s) /\ Len(v \o t) = Len(v) + Len(t)
    BY <1>0, ConcatProperties DEF Ended, IsLine
<1>2. PICK k : k = Len(u)
    OBVIOUS
<1>3. /\ k \in Nat /\ Len(v) \in Nat /\ Len(s) \in Nat /\ Len(t) \in Nat
      /\ k + Len(s) = Len(v) + Len(t) /\ Len(s) > 0
    BY <1>0, <1>1, <1>2 DEF Ended, IsLine
<1>4. k > Len(v) /\ k > 0 /\ k - Len(v) \in 1..Len(t) /\ k - Len(v) < Len(t) /\ k \in 1..Len(u) + Len(s)
    BY <1>2, <1>3
<1>5. (u \o s)[k] = u[k]
    BY <1>2, <1>4, <1>0, ConcatProperties DEF Ended, IsLine
<1>6. (v \o t)[k] = t[k - Len(v)]
    <2>1. k \in 1..Len(v) + Len(t) /\ ~(k <= Len(v))
        BY <1>3, <1>4
    <2> QED
        BY <2>1, <1>0, ConcatProperties DEF Ended, IsLine
<1>7. u[k] = NewLine
    BY <1>0, <1>2, <1>4 DEF Ended
<1>8. t[k - Len(v)] # NewLine
    BY <1>0, <1>4 DEF IsLine
<1> QED
    BY <1>0, <1>5, <1>6, <1>7, <1>8

\* So the last line can be told, and what is before it.
LEMMA LastLine ==
    ASSUME NEW w, NEW u, NEW v, NEW s, NEW t, Split(w, u, s), Split(w, v, t)
    PROVE  u = v /\ s = t
<1>0. Ended(u) /\ Ended(v) /\ IsLine(s) /\ IsLine(t) /\ w = u \o s /\ w = v \o t /\ u \o s = v \o t
    BY DEF Split
<1>1. /\ u \in Seq(Sign) /\ v \in Seq(Sign) /\ s \in Seq(Sign) /\ t \in Seq(Sign)
      /\ Len(u) \in Nat /\ Len(v) \in Nat /\ Len(s) \in Nat /\ Len(t) \in Nat
    BY <1>0 DEF Ended, IsLine
<1>2. Len(u \o s) = Len(u) + Len(s) /\ Len(v \o t) = Len(v) + Len(t)
    BY <1>1, ConcatProperties
<1>3. ~(Len(s) < Len(t)) /\ ~(Len(t) < Len(s))
    BY NoShorter
<1>4. Len(s) = Len(t) /\ Len(u) = Len(v)
    BY <1>0, <1>1, <1>2, <1>3
<1>5. /\ \A i \in 1..Len(u) + Len(s) : w[i] = IF i <= Len(u) THEN u[i] ELSE s[i - Len(u)]
      /\ \A i \in 1..Len(v) + Len(t) : w[i] = IF i <= Len(v) THEN v[i] ELSE t[i - Len(v)]
    BY <1>1, <1>0, ConcatProperties
<1>6. ASSUME NEW i \in 1..Len(u) PROVE u[i] = v[i]
    <2>1. i \in 1..Len(u) + Len(s) /\ i \in 1..Len(v) + Len(t) /\ i <= Len(u) /\ i <= Len(v)
        BY <1>1, <1>4
    <2> QED
        BY <1>5, <2>1
<1>7. ASSUME NEW i \in 1..Len(s) PROVE s[i] = t[i]
    <2>1. PICK j : j = Len(u) + i
        OBVIOUS
    <2>2. /\ j \in 1..Len(u) + Len(s) /\ j \in 1..Len(v) + Len(t) /\ ~(j <= Len(u)) /\ ~(j <= Len(v))
          /\ j - Len(u) = i /\ j - Len(v) = i
        BY <1>1, <1>4, <2>1
    <2> QED
        BY <1>5, <2>2
<1> QED
    BY <1>1, <1>4, <1>6, <1>7, SeqEqual

\* Texts that are built up line by line
Lines(A, ss, n) == A[0] = <<>> /\ \A i \in 1..n : IsLine(ss[i]) /\ A[i] = A[i - 1] \o ss[i]

LEMMA LinesEnd ==
    ASSUME NEW n \in Nat, NEW A, NEW ss, Lines(A, ss, n), NEW k \in 0..n
    PROVE  Ended(A[k]) /\ (k # 0 => A[k] # <<>>)
<1> DEFINE Good(l) == Ended(A[l]) /\ (l # 0 => A[l] # <<>>)
           T == {l \in Nat : l \in 0..n /\ ~Good(l)}
<1>1. ASSUME T # {} PROVE FALSE
    <2>1. PICK l \in T : \A j \in T : l <= j
        BY <1>1, LeastNat
    <2>2. l # 0
        <3>1. Ended(<<>>)
            BY DEF Ended
        <3> QED
            BY <2>1, <3>1 DEF Lines
    <2>3. l \in Nat /\ l - 1 \in Nat /\ l - 1 \in 0..n /\ l \in 1..n /\ l - 1 \notin T
        BY <2>1, <2>2
    <2>4. PICK u, s, t : u = A[l - 1] /\ s = ss[l] /\ t = A[l]
        OBVIOUS
    <2>5. Ended(u) /\ IsLine(s) /\ t = u \o s
        BY <2>3, <2>4 DEF Lines
    <2>6. /\ u \in Seq(Sign) /\ s \in Seq(Sign) /\ Len(u) \in Nat /\ Len(s) \in Nat /\ Len(s) > 0
          /\ s[Len(s)] = NewLine
        BY <2>5 DEF Ended, IsLine
    <2>7. /\ t \in Seq(Sign) /\ Len(t) = Len(u) + Len(s)
          /\ \A i \in 1..Len(u) + Len(s) : t[i] = IF i <= Len(u) THEN u[i] ELSE s[i - Len(u)]
        BY <2>5, <2>6, ConcatProperties
    <2>8. /\ Len(t) \in Nat /\ Len(t) > 0 /\ Len(t) \in 1..Len(u) + Len(s) /\ ~(Len(t) <= Len(u))
          /\ Len(t) - Len(u) = Len(s)
        BY <2>6, <2>7
    <2>9. t[Len(t)] = NewLine
        BY <2>6, <2>7, <2>8
    <2>10. t # <<>>
        BY <2>8
    <2> QED
        BY <2>1, <2>4, <2>7, <2>8, <2>9, <2>10 DEF Ended
<1> QED
    BY <1>1

\* A text is built of lines in one way.
LEMMA ParseOnce ==
    ASSUME NEW n \in Nat, NEW A, NEW ss, Lines(A, ss, n),
           NEW k \in Nat, NEW B, NEW tt, Lines(B, tt, k), A[n] = B[k]
    PROVE  n = k /\ \A i \in 1..n : ss[i] = tt[i]
<1> DEFINE T == {l \in Nat : l <= n /\ l <= k /\ A[n - l] # B[k - l]}
<1>1. ASSUME NEW l \in Nat, l < n, l < k, A[n - l] = B[k - l]
      PROVE  A[n - l - 1] = B[k - l - 1] /\ ss[n - l] = tt[k - l]
    <2>1. n - l \in 1..n /\ k - l \in 1..k /\ n - l - 1 \in 0..n /\ k - l - 1 \in 0..k
        BY <1>1
    <2>2. PICK u, v, s, t : u = A[n - l - 1] /\ v = B[k - l - 1] /\ s = ss[n - l] /\ t = tt[k - l]
        OBVIOUS
    <2>3. Ended(u) /\ Ended(v)
        BY <2>1, <2>2, LinesEnd
    <2>4. Split(A[n - l], u, s) /\ Split(A[n - l], v, t)
        BY <1>1, <2>1, <2>2, <2>3 DEF Lines, Split
    <2>5. u = v /\ s = t
        BY <2>4, LastLine
    <2> QED
        BY <2>2, <2>5
<1>2. ASSUME T # {} PROVE FALSE
    <2>1. PICK l \in T : \A j \in T : l <= j
        BY <1>2, LeastNat
    <2>2. l # 0
        BY <2>1
    <2>3. PICK j : j = l - 1
        OBVIOUS
    <2>4. j \in Nat /\ j < n /\ j < k /\ j \notin T /\ n - j - 1 = n - l /\ k - j - 1 = k - l
        BY <2>1, <2>2, <2>3
    <2>5. A[n - j] = B[k - j]
        BY <2>4
    <2> QED
        BY <1>1, <2>1, <2>4, <2>5
<1>3. \A l \in Nat : l <= n /\ l <= k => A[n - l] = B[k - l]
    BY <1>2
<1> HIDE DEF T
<1>4. ~(n < k)
    <2> SUFFICES ASSUME n < k PROVE FALSE
        OBVIOUS
    <2>1. A[0] = B[k - n] /\ k - n \in 0..k /\ k - n # 0
        BY <1>3
    <2> QED
        BY <2>1, LinesEnd DEF Lines
<1>5. ~(k < n)
    <2> SUFFICES ASSUME k < n PROVE FALSE
        OBVIOUS
    <2>1. A[n - k] = B[0] /\ n - k \in 0..n /\ n - k # 0
        BY <1>3
    <2> QED
        BY <2>1, LinesEnd DEF Lines
<1>6. n = k
    BY <1>4, <1>5
<1>7. ASSUME NEW i \in 1..n PROVE ss[i] = tt[i]
    <2>1. PICK l : l = n - i
        OBVIOUS
    <2>2. l \in Nat /\ l < n /\ l < k /\ n - l = i /\ k - l = i
        BY <1>6, <2>1
    <2> QED
        BY <1>1, <1>3, <2>2
<1> QED
    BY <1>6, <1>7

LEMMA FlattenLines ==
    ASSUME NEW ss, NEW n \in Nat, Len(ss) = n, n = 0 => ss = <<>>, \A i \in 1..n : IsLine(ss[i])
    PROVE  \E A : Lines(A, ss, n) /\ A[n] = FlattenSeq(ss)
<1>1. CASE n = 0
    <2> DEFINE A == [i \in 0..0 |-> <<>>]
    <2>1. A[0] = <<>> /\ FlattenSeq(ss) = <<>>
        BY <1>1 DEF FlattenSeq
    <2> HIDE DEF A
    <2> QED
        BY <1>1, <2>1 DEF Lines
<1>2. CASE n # 0
    <2>1. PICK f : FlattenSeq(ss) = f[n] /\ \A i \in 1..n : f[i] = FlatStep(f, ss, i)
        BY <1>2, FlattenIs
    <2> DEFINE A == [i \in 0..n |-> IF i = 0 THEN <<>> ELSE f[i]]
    <2>2. A[0] = <<>> /\ \A i \in 1..n : A[i] = f[i]
        OBVIOUS
    <2> HIDE DEF A
    <2>3. ASSUME NEW i \in 1..n PROVE A[i] = A[i - 1] \o ss[i]
        <3>1. CASE i = 1
            <4>1. ss[i] \in Seq(Sign)
                BY DEF IsLine
            <4>2. PICK s : s = ss[i]
                OBVIOUS
            <4>3. <<>> \o s = s
                BY <4>1, <4>2, ConcatEmptySeq
            <4>4. i - 1 = 0
                BY <3>1
            <4>5. A[i - 1] = <<>> /\ A[i] = s
                BY <2>1, <2>2, <3>1, <4>2, <4>4 DEF FlatStep
            <4> QED
                BY <4>2, <4>3, <4>5
        <3>2. CASE i # 1
            <4>1. i - 1 \in 1..n
                BY <3>2
            <4> QED
                BY <2>1, <2>2, <3>2, <4>1 DEF FlatStep
        <3> QED
            BY <3>1, <3>2
    <2>4. n \in 1..n
        BY <1>2
    <2> QED
        BY <2>1, <2>2, <2>3, <2>4 DEF Lines
<1> QED
    BY <1>1, <1>2

\* No name has a newline in it.
PlainNames == \A m \in DOMAIN Spelling : \A i \in 1..Len(Spelling[m]) : Spelling[m][i] # NewLine

\* The line of an entry: its name, then its hash, then a newline.
LEMMA LineIs ==
    ASSUME NEW m \in DOMAIN Spelling, NEW n \in Nodes, NEW t, t = Line(m, Hash[n])
    PROVE  /\ Spelling[m] \in Seq(Sign) /\ Len(Spelling[m]) \in Nat
           /\ t \in Seq(Sign) /\ Len(t) = Len(Spelling[m]) + 2
           /\ t[Len(t)] = NewLine /\ t[Len(t) - 1] = Hash[n]
           /\ \A i \in 1..Len(Spelling[m]) : t[i] = Spelling[m][i]
<1>1. PICK w, h, e : w = Spelling[m] /\ h = Hash[n] /\ e = <<h, NewLine>>
    OBVIOUS
<1>2. w \in Seq(Signs)
    BY <1>1, SpellingAssumption
<1>3. Len(w) \in Nat /\ \A i \in 1..Len(w) : w[i] \in Sign
    BY <1>2, LenProperties, ElementOfSeq DEF Sign
<1>4. w \in Seq(Sign)
    BY <1>2, SeqMonotonic DEF Sign
<1>5. h \in Sign /\ NewLine \in Sign
    BY <1>1 DEF Sign
<1>6. e \in Seq(Sign) /\ Len(e) = 2 /\ e[1] = h /\ e[2] = NewLine
    BY <1>1, <1>5
<1>7. t = w \o e
    BY <1>1 DEF Line
<1>8. /\ t \in Seq(Sign) /\ Len(t) = Len(w) + 2
      /\ \A i \in 1..Len(w) + 2 : t[i] = IF i <= Len(w) THEN w[i] ELSE e[i - Len(w)]
    <2>1. /\ w \o e \in Seq(Sign) /\ Len(w \o e) = Len(w) + Len(e)
          /\ \A i \in 1..Len(w) + Len(e) : (w \o e)[i] = IF i <= Len(w) THEN w[i] ELSE e[i - Len(w)]
        BY <1>4, <1>6, ConcatProperties
    <2> QED
        BY <1>6, <1>7, <2>1
<1>9. /\ Len(w) + 2 \in 1..Len(w) + 2 /\ Len(w) + 1 \in 1..Len(w) + 2
      /\ ~(Len(w) + 2 <= Len(w)) /\ ~(Len(w) + 1 <= Len(w))
      /\ Len(w) + 2 - Len(w) = 2 /\ Len(w) + 1 - Len(w) = 1 /\ Len(t) - 1 = Len(w) + 1
    BY <1>3, <1>8
<1>10. t[Len(t)] = NewLine /\ t[Len(t) - 1] = h
    BY <1>6, <1>8, <1>9
<1>11. \A i \in 1..Len(w) : i \in 1..Len(w) + 2 /\ i <= Len(w)
    BY <1>3
<1>12. \A i \in 1..Len(w) : t[i] = w[i]
    BY <1>8, <1>11
<1> QED
    BY <1>1, <1>3, <1>4, <1>8, <1>10, <1>12

LEMMA LineEnds ==
    ASSUME PlainNames, NEW m \in DOMAIN Spelling, NEW n \in Nodes
    PROVE  IsLine(Line(m, Hash[n]))
<1>1. PICK t, w : t = Line(m, Hash[n]) /\ w = Spelling[m]
    OBVIOUS
<1>2. /\ Len(w) \in Nat /\ t \in Seq(Sign) /\ Len(t) = Len(w) + 2
      /\ t[Len(t)] = NewLine /\ t[Len(t) - 1] = Hash[n]
      /\ \A i \in 1..Len(w) : t[i] = w[i]
    BY <1>1, LineIs
<1>3. ASSUME NEW i \in 1..Len(t), i < Len(t) PROVE t[i] # NewLine
    <2>1. i \in 1..Len(w) \/ i = Len(t) - 1
        BY <1>2, <1>3
    <2>2. CASE i \in 1..Len(w)
        BY <1>1, <1>2, <2>2 DEF PlainNames
    <2>3. CASE i = Len(t) - 1
        BY <1>2, <2>3, NoneAssumption
    <2> QED
        BY <2>1, <2>2, <2>3
<1>4. Len(t) \in Nat /\ Len(t) > 0
    BY <1>2
<1> QED
    BY <1>1, <1>2, <1>3, <1>4 DEF IsLine

LEMMA LinesOnce ==
    ASSUME NEW m \in DOMAIN Spelling, NEW k \in Nodes, NEW n \in DOMAIN Spelling, NEW l \in Nodes,
           Line(m, Hash[k]) = Line(n, Hash[l])
    PROVE  m = n /\ Hash[k] = Hash[l]
<1>1. PICK t, v, w : t = Line(m, Hash[k]) /\ t = Line(n, Hash[l]) /\ v = Spelling[m] /\ w = Spelling[n]
    OBVIOUS
<1>2. /\ v \in Seq(Sign) /\ Len(v) \in Nat /\ Len(t) = Len(v) + 2 /\ t[Len(t) - 1] = Hash[k]
      /\ \A i \in 1..Len(v) : t[i] = v[i]
    BY <1>1, LineIs
<1>3. /\ w \in Seq(Sign) /\ Len(w) \in Nat /\ Len(t) = Len(w) + 2 /\ t[Len(t) - 1] = Hash[l]
      /\ \A i \in 1..Len(w) : t[i] = w[i]
    BY <1>1, LineIs
<1>4. Len(v) = Len(w)
    BY <1>2, <1>3
<1>5. v = w
    BY <1>2, <1>3, <1>4, SeqEqual
<1> QED
    BY <1>1, <1>2, <1>3, <1>5, SpellingAssumption

\* The hash of a directory is built of the lines of its entries.
LEMMA HashLines ==
    ASSUME PlainNames, NEW n \in Dirs, NEW ss, ss = LinesOf(Hash, n)
    PROVE  \E A : Lines(A, ss, Len(SortedNames(n))) /\ A[Len(SortedNames(n))] = Hash[n]
<1>1. PICK names : names = SortedNames(n)
    OBVIOUS
<1>2. Len(names) \in Nat /\ \A i \in 1..Len(names) : names[i] \in DOMAIN n.kids
    BY <1>1, NamesSorted
<1>3. ss = [i \in 1..Len(names) |-> Line(names[i], Hash[n.kids[names[i]]])]
    BY <1>1 DEF LinesOf
<1>4. Len(ss) = Len(names) /\ (Len(names) = 0 => ss = <<>>)
    BY <1>2, <1>3
<1>5. ASSUME NEW i \in 1..Len(names) PROVE IsLine(ss[i])
    <2>1. PICK m : m = names[i] /\ m \in DOMAIN n.kids
        BY <1>2
    <2>2. m \in DOMAIN Spelling /\ n.kids[m] \in Nodes
        BY <2>1, Kids, NodesAssumption DEF Dirs
    <2>3. IsLine(Line(m, Hash[n.kids[m]]))
        BY <2>2, LineEnds
    <2> QED
        BY <1>3, <2>1, <2>3
<1>6. Hash[n] = FlattenSeq(ss)
    BY HashIs DEF HashStep, Dirs
<1>7. \E A : Lines(A, ss, Len(names)) /\ A[Len(names)] = FlattenSeq(ss)
    BY <1>2, <1>4, <1>5, FlattenLines
<1> QED
    BY <1>1, <1>6, <1>7

\* Directories of one hash have the same names, each with one hash.
LEMMA SameNames ==
    ASSUME PlainNames, NEW m \in Dirs, NEW n \in Dirs, Hash[m] = Hash[n], NEW i \in DOMAIN m.kids
    PROVE  i \in DOMAIN n.kids /\ Hash[m.kids[i]] = Hash[n.kids[i]]
<1>1. PICK s, t, ss, tt : s = SortedNames(m) /\ t = SortedNames(n) /\ ss = LinesOf(Hash, m) /\ tt = LinesOf(Hash, n)
    OBVIOUS
<1>2. /\ ss = [j \in 1..Len(s) |-> Line(s[j], Hash[m.kids[s[j]]])]
      /\ tt = [j \in 1..Len(t) |-> Line(t[j], Hash[n.kids[t[j]]])]
    BY <1>1 DEF LinesOf
<1>3. /\ Len(s) \in Nat /\ Len(t) \in Nat
      /\ \A j \in 1..Len(t) : t[j] \in DOMAIN n.kids
    BY <1>1, NamesSorted
<1>4. PICK j \in 1..Len(s) : s[j] = i
    BY <1>1, NamesSorted
<1>5. PICK A : Lines(A, ss, Len(s)) /\ A[Len(s)] = Hash[m]
    BY <1>1, HashLines
<1>6. PICK B : Lines(B, tt, Len(t)) /\ B[Len(t)] = Hash[n]
    BY <1>1, HashLines
<1>7. Len(s) = Len(t) /\ \A l \in 1..Len(s) : ss[l] = tt[l]
    BY <1>3, <1>5, <1>6, ParseOnce
<1>8. PICK k, l, o : k = m.kids[i] /\ o = t[j] /\ l = n.kids[o]
    OBVIOUS
<1>9. o \in DOMAIN n.kids
    BY <1>3, <1>4, <1>7, <1>8
<1>10. i \in DOMAIN Spelling /\ o \in DOMAIN Spelling /\ k \in Nodes /\ l \in Nodes
    BY <1>8, <1>9, Kids, NodesAssumption DEF Dirs
<1>11. Line(i, Hash[k]) = Line(o, Hash[l])
    BY <1>2, <1>4, <1>7, <1>8
<1>12. i = o /\ Hash[k] = Hash[l]
    BY <1>10, <1>11, LinesOnce
<1> QED
    BY <1>8, <1>9, <1>12

\* What has one hash is of one kind: no file holds the listing of a directory, as an
\* empty file does that of an empty directory (see HashUnambiguous).
KindsApart == \A m, n \in Nodes : Hash[m] = Hash[n] => Label(m) = Label(n)

\* If no file has the hash of a directory and no name a newline, the hash of a directory
\* fixes its entries: names, kinds and hashes, though the text that is hashed has no
\* kinds and nothing between a name and a hash.
THEOREM KindsFixEntries == KindsApart /\ PlainNames => HashFixesEntries
<1> SUFFICES ASSUME KindsApart, PlainNames, NEW m \in Dirs, NEW n \in Dirs, Hash[m] = Hash[n]
             PROVE  EdgesOf(m) = EdgesOf(n)
    BY DEF HashFixesEntries
<1>1. ASSUME NEW a \in Dirs, NEW b \in Dirs, Hash[a] = Hash[b], NEW e \in EdgesOf(a)
      PROVE  e \in EdgesOf(b)
    <2>1. PICK i \in DOMAIN a.kids : e = EdgeAt(a, i)
        BY EdgesAt
    <2>2. i \in DOMAIN b.kids /\ Hash[a.kids[i]] = Hash[b.kids[i]]
        BY <1>1, SameNames
    <2>3. Label(a.kids[i]) = Label(b.kids[i])
        <3>1. PICK k, l : k = a.kids[i] /\ l = b.kids[i]
            OBVIOUS
        <3>2. k \in Nodes /\ l \in Nodes /\ Hash[k] = Hash[l]
            BY <2>2, <3>1, Kids
        <3>3. Label(k) = Label(l)
            BY <3>2 DEF KindsApart
        <3> QED
            BY <3>1, <3>3
    <2>4. e = EdgeAt(b, i)
        BY <1>1, <2>1, <2>2, <2>3 DEF EdgeAt
    <2> QED
        BY <2>2, <2>4, EdgesAt
<1> QED
    BY <1>1

-----------------------------------------------------------------------------
(* The walk of a directory *)

Path == Seq(Name)

BelowAll(f, n, m) == [i \in 1..Len(f[n.kids[m]]) |-> <<m>> \o f[n.kids[m]][i]]

WalkStep(f, n) ==
    IF n.kind # "dir" THEN <<<<>>>>
    ELSE FlattenSeq([i \in 1..Len(SortedNames(n)) |-> BelowAll(f, n, SortedNames(n)[i])])

LEMMA WalkExists == \E f : f = [n \in Nodes |-> WalkStep(f, n)]
<1> DEFINE T == {k \in Nat : ~\E f : f = [n \in Low(k) |-> WalkStep(f, n)]}
<1>1. ASSUME T # {} PROVE FALSE
    <2>1. PICK k \in T : \A j \in T : k <= j
        BY <1>1, LeastNat
    <2>2. k # 0
        <3>1. <<>> = [n \in Low(0) |-> WalkStep(<<>>, n)]
            BY LowAll
        <3> QED
            BY <3>1
    <2>3. k \in Nat /\ k - 1 \in Nat /\ k - 1 \notin T
        BY <2>1, <2>2
    <2>4. PICK f : f = [n \in Low(k - 1) |-> WalkStep(f, n)]
        BY <2>3
    <2> DEFINE g == [n \in Low(k) |-> WalkStep(f, n)]
    <2>5. ASSUME NEW n \in Low(k) PROVE WalkStep(f, n) = WalkStep(g, n)
        <3>1. CASE n.kind = "dir"
            <4> DEFINE names == SortedNames(n)
            <4>1. ASSUME NEW i \in 1..Len(names) PROVE BelowAll(f, n, names[i]) = BelowAll(g, n, names[i])
                <5>1. n.kids[names[i]] \in Low(k - 1) /\ n.kids[names[i]] \in Low(k)
                    BY <2>2, <3>1, SortedKids
                <5>2. f[n.kids[names[i]]] = g[n.kids[names[i]]]
                    BY <2>4, <5>1
                <5> HIDE DEF g, names
                <5> QED
                    BY <5>2 DEF BelowAll
            <4> HIDE DEF g, names
            <4>2. [i \in 1..Len(names) |-> BelowAll(f, n, names[i])] =
                      [i \in 1..Len(names) |-> BelowAll(g, n, names[i])]
                BY <4>1
            <4> QED
                BY <3>1, <4>2 DEF WalkStep, names
        <3> QED
            BY <3>1 DEF WalkStep
    <2>6. g = [n \in Low(k) |-> WalkStep(g, n)]
        BY <2>5
    <2> QED
        BY <2>1, <2>6
<1> QED
    BY <1>1, LowAll

LEMMA WalkIs == ASSUME NEW n \in Nodes PROVE Walk[n] = WalkStep(Walk, n)
<1>1. Walk = [k \in Nodes |-> WalkStep(Walk, k)]
    BY WalkExists DEF Walk, WalkStep, BelowAll
<1> QED
    BY <1>1

LEMMA WalkType == ASSUME NEW n \in Nodes PROVE Walk[n] \in Seq(Path)
<1> DEFINE Bad == {k \in Nodes : Walk[k] \notin Seq(Path)}
<1>1. ASSUME Bad # {} PROVE FALSE
    <2>1. PICK k \in Bad : \A l \in Nodes : Depth[l] < Depth[k] => l \notin Bad
        BY <1>1, Lowest
    <2>2. CASE k.kind # "dir"
        <3>1. Walk[k] = <<<<>>>>
            BY <2>1, <2>2, WalkIs DEF WalkStep
        <3>2. <<>> \in Path
            BY DEF Path
        <3>3. <<<<>>>> \in Seq(Path)
            BY <3>2
        <3> QED
            BY <2>1, <3>1, <3>3
    <2>3. CASE k.kind = "dir"
        <3>1. k \in Dirs
            BY <2>3 DEF Dirs
        <3>2. PICK names : names = SortedNames(k)
            OBVIOUS
        <3>3. /\ Len(names) \in Nat
              /\ \A i \in 1..Len(names) : names[i] \in DOMAIN k.kids
            BY <3>1, <3>2, NamesSorted
        <3>4. ASSUME NEW m \in DOMAIN k.kids PROVE BelowAll(Walk, k, m) \in Seq(Path)
            <4>1. PICK w : w = Walk[k.kids[m]]
                OBVIOUS
            <4>2. m \in Name /\ w \in Seq(Path)
                BY <2>1, <3>1, <4>1, Kids
            <4>3. Len(w) \in Nat /\ \A i \in 1..Len(w) : w[i] \in Path
                BY <4>2, LenProperties, ElementOfSeq
            <4>4. \A p \in Path : <<m>> \o p \in Path
                BY <4>2, Paths DEF Path
            <4>5. BelowAll(Walk, k, m) = [i \in 1..Len(w) |-> <<m>> \o w[i]]
                BY <4>1 DEF BelowAll
            <4>6. \A i \in 1..Len(w) : <<m>> \o w[i] \in Path
                BY <4>3, <4>4
            <4>7. PICK v : v = [i \in 1..Len(w) |-> <<m>> \o w[i]]
                OBVIOUS
            <4>8. v \in [1..Len(w) -> Path]
                BY <4>6, <4>7
            <4>9. v \in Seq(Path)
                BY <4>3, <4>8
            <4> QED
                BY <4>5, <4>7, <4>9
        <3>5. PICK ss : ss = [i \in 1..Len(names) |-> BelowAll(Walk, k, names[i])]
            OBVIOUS
        <3>6. Len(ss) = Len(names) /\ (Len(names) = 0 => ss = <<>>)
            BY <3>3, <3>5
        <3>7. \A i \in 1..Len(names) : ss[i] \in Seq(Path)
            BY <3>3, <3>4, <3>5
        <3>8. Walk[k] = FlattenSeq(ss)
            BY <2>1, <2>3, <3>2, <3>5, WalkIs DEF WalkStep
        <3> QED
            BY <2>1, <3>3, <3>6, <3>7, <3>8, FlattenType
    <2> QED
        BY <2>2, <2>3
<1> QED
    BY <1>1

-----------------------------------------------------------------------------
(* The folder pane *)

\* The last s of the first k files
Recent(L, k, s) == [i \in 1..s |-> L[k - s + i]]

Follows(k, p) == k = p + 1

LEMMA FoldIndex ==
    ASSUME NEW p \in Nat, NEW k \in Nat, Follows(k, p), NEW s \in Nat, s <= p,
           NEW over \in Nat, over <= s, NEW q, q = s + 1 - over, NEW i \in 1..q,
           NEW j, j = over + i, NEW l, l = k - q + i
    PROVE  /\ j \in 1..(s + 1) /\ l = p - s + j
           /\ j = s + 1 => l = k
           /\ j # s + 1 => j \in 1..s
BY DEF Follows

\* What is left of a sequence without its first elements
LEMMA Dropped ==
    ASSUME NEW S, NEW all \in Seq(S), NEW n \in Nat, Len(all) = n, NEW over \in Nat, over < n,
           NEW q, q = n - over, NEW m, m = over + 1
    PROVE  LET r == SubSeq(all, m, n)
           IN  r \in Seq(S) /\ Len(r) = q /\ \A i \in 1..q : r[i] = all[over + i]
<1>1. m \in Nat /\ q \in Nat /\ m >= 1 /\ m <= n /\ n - m + 1 = q
    OBVIOUS
<1>2. /\ SubSeq(all, m, n) \in Seq(S) /\ Len(SubSeq(all, m, n)) = n - m + 1
      /\ \A i \in 1..(n - m + 1) : SubSeq(all, m, n)[i] = all[m + i - 1]
    BY <1>1
<1>3. \A i \in 1..q : m + i - 1 = over + i
    BY <1>1
<1> QED
    BY <1>1, <1>2, <1>3

\* One more file, in the folder of the last one
LEMMA FoldOne ==
    ASSUME NEW S, NEW N \in Nat, NEW L \in [1..N -> S], NEW p \in Nat, NEW k \in 1..N, Follows(k, p),
           NEW s \in Nat, s <= p, NEW max \in Nat, max >= 1
    PROVE  LET all  == Append(Recent(L, p, s), L[k])
               over == IF Len(all) > max THEN Len(all) - max ELSE 0
               r    == SubSeq(all, over + 1, Len(all))
           IN  \E q \in Nat :
                   /\ r = Recent(L, k, q) /\ Len(r) = q /\ over \in Nat /\ over + q = s + 1
                   /\ 0 < q /\ q <= max /\ q <= k
                   /\ s + 1 > max => q = max
                   /\ s + 1 <= max => over = 0
<1>0. k \in Nat
    OBVIOUS
<1>1. \A i \in 1..s : p - s + i \in 1..N /\ L[p - s + i] \in S
    BY DEF Follows
<1>2. PICK rec : rec = Recent(L, p, s)
    OBVIOUS
<1>3. rec \in Seq(S) /\ Len(rec) = s /\ \A i \in 1..s : rec[i] = L[p - s + i]
    BY <1>1, <1>2 DEF Recent
<1>4. PICK x : x = L[k]
    OBVIOUS
<1>5. x \in S
    BY <1>4
<1>6. PICK all : all = Append(rec, x)
    OBVIOUS
<1>7. /\ all \in Seq(S) /\ Len(all) = s + 1 /\ all[s + 1] = x
      /\ \A i \in 1..s : all[i] = rec[i]
    BY <1>3, <1>5, <1>6, AppendProperties
<1>8. PICK over : over = IF s + 1 > max THEN s + 1 - max ELSE 0
    OBVIOUS
<1>9. PICK q : q = s + 1 - over
    OBVIOUS
<1>10. /\ over \in Nat /\ over <= s /\ q \in Nat /\ 0 < q /\ q <= max /\ q <= k
       /\ s + 1 > max => q = max
    BY <1>0, <1>8, <1>9 DEF Follows
<1>11. PICK r : r = SubSeq(all, over + 1, s + 1)
    OBVIOUS
<1>12. r \in Seq(S) /\ Len(r) = q /\ \A i \in 1..q : r[i] = all[over + i]
    <2>1. PICK n, m : n = s + 1 /\ m = over + 1
        OBVIOUS
    <2>2. n \in Nat /\ Len(all) = n /\ over < n /\ q = n - over
        BY <1>7, <1>9, <1>10, <2>1
    <2>3. LET v == SubSeq(all, m, n)
          IN  v \in Seq(S) /\ Len(v) = q /\ \A i \in 1..q : v[i] = all[over + i]
        BY <1>7, <1>10, <2>1, <2>2, Dropped
    <2> QED
        BY <1>11, <2>1, <2>3
<1>13. ASSUME NEW i \in 1..q PROVE r[i] = L[k - q + i]
    <2>1. PICK j, l : j = over + i /\ l = k - q + i
        OBVIOUS
    <2>2. /\ j \in 1..(s + 1) /\ l = p - s + j
          /\ j = s + 1 => l = k
          /\ j # s + 1 => j \in 1..s
        BY <1>0, <1>9, <1>10, <1>13, <2>1, FoldIndex
    <2>3. r[i] = all[j]
        BY <1>12, <1>13, <2>1
    <2>4. CASE j = s + 1
        BY <1>4, <1>7, <2>1, <2>2, <2>3, <2>4
    <2>5. CASE j # s + 1
        BY <1>3, <1>7, <2>1, <2>2, <2>3, <2>5
    <2> QED
        BY <2>4, <2>5
<1>14. r = Recent(L, k, q)
    BY <1>10, <1>12, <1>13 DEF Recent
<1>15. over + q = s + 1 /\ (s + 1 <= max => over = 0)
    BY <1>8, <1>9, <1>10
<1>16. r = SubSeq(all, over + 1, Len(all)) /\ over = IF Len(all) > max THEN Len(all) - max ELSE 0
    BY <1>7, <1>8, <1>11
<1>17. all = Append(Recent(L, p, s), L[k])
    BY <1>2, <1>4, <1>6
<1>18. LET over2 == IF Len(all) > max THEN Len(all) - max ELSE 0
           r2    == SubSeq(all, over2 + 1, Len(all))
       IN  \E q2 \in Nat :
               /\ r2 = Recent(L, k, q2) /\ Len(r2) = q2 /\ over2 \in Nat /\ over2 + q2 = s + 1
               /\ 0 < q2 /\ q2 <= max /\ q2 <= k
               /\ s + 1 > max => q2 = max
               /\ s + 1 <= max => over2 = 0
    BY <1>10, <1>12, <1>14, <1>15, <1>16
<1> QED
    BY <1>17, <1>18

PaneOf(f, h, r) == [folder |-> f, hidden |-> h, recent |-> r]

LEMMA FoldElsewhere ==
    ASSUME NEW st, NEW f, NEW x, NEW max, f # st.folder
    PROVE  FoldFile(st, f, x, max) = PaneOf(f, 0, <<x>>)
BY DEF FoldFile, PaneOf

LEMMA FoldHere ==
    ASSUME NEW f, NEW h \in Nat, NEW rec, NEW x, NEW max \in Nat
    PROVE  FoldFile(PaneOf(f, h, rec), f, x, max) =
               LET all  == Append(rec, x)
                   over == IF Len(all) > max THEN Len(all) - max ELSE 0
               IN  PaneOf(f, h + over, SubSeq(all, over + 1, Len(all)))
BY DEF FoldFile, PaneOf

\* The files since the walk came to the folder it is in
Stay(F, k) == {i \in 1..k : \A j \in i..k : F[j] = F[k]}

LEMMA StayFinite == ASSUME NEW F, NEW k \in Nat PROVE IsFiniteSet(Stay(F, k))
<1>1. 1 \in Int /\ k \in Int
    OBVIOUS
<1>2. IsFiniteSet(1..k)
    BY <1>1, FS_Interval
<1> QED
    BY <1>2, FS_Subset DEF Stay

LEMMA StayOn ==
    ASSUME NEW F, NEW p \in Nat, p >= 1, NEW k, Follows(k, p), F[k] = F[p]
    PROVE  Cardinality(Stay(F, k)) = Cardinality(Stay(F, p)) + 1
<1>1. Stay(F, k) = Stay(F, p) \cup {k}
    <2>1. \A i \in 1..p : i..k = (i..p) \cup {k}
        BY DEF Follows
    <2>2. 1..k = (1..p) \cup {k} /\ k..k = {k}
        BY DEF Follows
    <2>3. \A i \in 1..p : i \in Stay(F, k) <=> i \in Stay(F, p)
        <3> SUFFICES ASSUME NEW i \in 1..p
                     PROVE  (\A j \in i..k : F[j] = F[k]) <=> (\A j \in i..p : F[j] = F[p])
            BY <2>2 DEF Stay
        <3> QED
            BY <2>1
    <2>4. k \in Stay(F, k)
        BY <2>2 DEF Stay
    <2>5. Stay(F, k) \subseteq 1..k /\ Stay(F, p) \subseteq 1..p
        BY DEF Stay
    <2> QED
        BY <2>2, <2>3, <2>4, <2>5
<1>2. k \notin Stay(F, p)
    BY DEF Stay, Follows
<1> QED
    BY <1>1, <1>2, StayFinite, FS_AddElement

LEMMA StayNew ==
    ASSUME NEW F, NEW k \in Nat, k >= 1, k = 1 \/ F[k] # F[k - 1]
    PROVE  Cardinality(Stay(F, k)) = 1
<1>1. Stay(F, k) = {k}
    <2>1. k..k = {k}
        OBVIOUS
    <2>2. ASSUME NEW i \in Stay(F, k), i # k PROVE FALSE
        <3>1. i \in 1..k /\ \A j \in i..k : F[j] = F[k]
            BY <2>2 DEF Stay
        <3>2. k - 1 \in i..k /\ k # 1
            BY <2>2, <3>1
        <3> QED
            BY <3>1, <3>2
    <2>3. k \in Stay(F, k)
        BY <2>1 DEF Stay
    <2> QED
        BY <2>2, <2>3
<1> QED
    BY <1>1, FS_Singleton

\* What the pane shows after k files: of those since the walk came to this folder the
\* last s, and how many there were before.
Shows(st, F, L, R, k) ==
    \E h \in Nat : \E s \in Nat :
        /\ st = PaneOf(F[k], h, Recent(L, k, s)) /\ Len(Recent(L, k, s)) = s
        /\ 0 < s /\ s <= R[k] /\ s <= k /\ h + s = Cardinality(Stay(F, k))
        /\ (\A i \in 1..k : R[i] = R[k]) /\ h > 0 => s = R[k]

\* The pane has the last s of p files, and the next one is of the same folder.
Folding(S, N, L, p, k, s, max) ==
    /\ N \in Nat /\ L \in [1..N -> S] /\ p \in Nat /\ k \in 1..N /\ Follows(k, p)
    /\ s \in Nat /\ s <= p /\ max \in Nat /\ max >= 1

\* Then it has the last q, and counts some more as hidden.
Folded(L, s, k, max, q, over) ==
    /\ q \in Nat /\ over \in Nat /\ over + q = s + 1
    /\ Len(Recent(L, k, q)) = q /\ 0 < q /\ q <= max /\ q <= k
    /\ s + 1 > max => q = max
    /\ s + 1 <= max => over = 0

LEMMA FoldShows ==
    ASSUME NEW S, NEW N, NEW L, NEW p, NEW k, NEW s, NEW max, Folding(S, N, L, p, k, s, max),
           NEW f, NEW h \in Nat
    PROVE  \E q, over \in Nat :
               /\ FoldFile(PaneOf(f, h, Recent(L, p, s)), f, L[k], max) =
                      PaneOf(f, h + over, Recent(L, k, q))
               /\ Folded(L, s, k, max, q, over)
<1>0. max \in Nat
    BY DEF Folding
<1>1. LET all  == Append(Recent(L, p, s), L[k])
          over == IF Len(all) > max THEN Len(all) - max ELSE 0
          r    == SubSeq(all, over + 1, Len(all))
      IN  \E q \in Nat :
              /\ r = Recent(L, k, q) /\ Len(r) = q /\ over \in Nat /\ over + q = s + 1
              /\ 0 < q /\ q <= max /\ q <= k
              /\ s + 1 > max => q = max
              /\ s + 1 <= max => over = 0
    BY FoldOne DEF Folding
<1>2. PICK all : all = Append(Recent(L, p, s), L[k])
    OBVIOUS
<1>3. PICK over : over = IF Len(all) > max THEN Len(all) - max ELSE 0
    OBVIOUS
<1>4. PICK r : r = SubSeq(all, over + 1, Len(all))
    OBVIOUS
<1>5. PICK q \in Nat :
          /\ r = Recent(L, k, q) /\ Len(r) = q /\ over \in Nat /\ over + q = s + 1
          /\ 0 < q /\ q <= max /\ q <= k
          /\ s + 1 > max => q = max
          /\ s + 1 <= max => over = 0
    BY <1>1, <1>2, <1>3, <1>4
<1>6. FoldFile(PaneOf(f, h, Recent(L, p, s)), f, L[k], max) = PaneOf(f, h + over, r)
    BY <1>0, <1>2, <1>3, <1>4, FoldHere
<1> QED
    BY <1>5, <1>6 DEF Folded

\* A pane that was empty, or of the same folder, gets one file more.
LEMMA ShowsMore ==
    ASSUME NEW S, NEW N, NEW F, NEW L, NEW R, NEW p, NEW k, NEW s, NEW h \in Nat,
           Folding(S, N, L, p, k, s, R[k]), h + s + 1 = Cardinality(Stay(F, k)),
           (\A i \in 1..k : R[i] = R[k]) /\ h > 0 => s = R[k]
    PROVE  Shows(FoldFile(PaneOf(F[k], h, Recent(L, p, s)), F[k], L[k], R[k]), F, L, R, k)
<1>1. PICK max, f : max = R[k] /\ f = F[k]
    OBVIOUS
<1>2. PICK q, over \in Nat :
          /\ FoldFile(PaneOf(f, h, Recent(L, p, s)), f, L[k], max) = PaneOf(f, h + over, Recent(L, k, q))
          /\ Folded(L, s, k, max, q, over)
    BY <1>1, FoldShows
<1>3. PICK g : g = h + over
    OBVIOUS
<1>4. PICK c : c = Cardinality(Stay(F, k))
    OBVIOUS
<1>5. /\ q \in Nat /\ over \in Nat /\ over + q = s + 1
      /\ Len(Recent(L, k, q)) = q /\ 0 < q /\ q <= max /\ q <= k
      /\ s + 1 > max => q = max
      /\ s + 1 <= max => over = 0
      /\ s \in Nat /\ max \in Nat
    BY <1>1, <1>2 DEF Folded, Folding
<1>6. g \in Nat /\ g + q = c
    <2>1. over + q = s + 1 /\ h + s + 1 = c
        BY <1>4, <1>5
    <2> QED
        BY <1>3, <1>5, <2>1
<1>7. ASSUME \A i \in 1..k : R[i] = R[k], g > 0 PROVE q = max
    <2>1. h > 0 \/ over > 0
        BY <1>3, <1>5, <1>7
    <2>2. CASE h > 0
        <3>1. s = max
            BY <1>1, <1>7, <2>2
        <3> QED
            BY <1>5, <3>1
    <2>3. CASE over > 0
        BY <1>5, <2>3
    <2> QED
        BY <2>1, <2>2, <2>3
<1> QED
    BY <1>1, <1>2, <1>3, <1>4, <1>5, <1>6, <1>7 DEF Shows

LEMMA ShowsFirst ==
    ASSUME NEW S, NEW N, NEW F, NEW L, NEW R, NEW p, NEW k, Folding(S, N, L, p, k, 0, R[k]),
           Cardinality(Stay(F, k)) = 1
    PROVE  Shows(PaneOf(F[k], 0, <<L[k]>>), F, L, R, k)
<1>1. k \in Nat /\ R[k] \in Nat /\ 1 <= k /\ 1 <= R[k]
    BY DEF Folding
<1>2. <<L[k]>> = Recent(L, k, 1)
    <2>1. \A i \in 1..1 : k - 1 + i = k
        BY <1>1
    <2>2. Recent(L, k, 1) = [i \in 1..1 |-> L[k]]
        BY <2>1 DEF Recent
    <2> QED
        BY <2>2
<1>3. Len(<<L[k]>>) = 1
    OBVIOUS
<1>4. PICK h, s : h = 0 /\ s = 1
    OBVIOUS
<1>5. /\ h \in Nat /\ s \in Nat
      /\ PaneOf(F[k], 0, <<L[k]>>) = PaneOf(F[k], h, Recent(L, k, s)) /\ Len(Recent(L, k, s)) = s
      /\ 0 < s /\ s <= R[k] /\ s <= k /\ ~(h > 0)
    BY <1>1, <1>2, <1>3, <1>4
<1>6. h + s = Cardinality(Stay(F, k))
    BY <1>4
<1> QED
    BY <1>5, <1>6 DEF Shows

PaneStep(f, F, L, R, i) == IF i = 0 THEN EmptyPane ELSE FoldFile(f[i - 1], F[i], L[i], R[i])

LEMMA PaneShows ==
    ASSUME NEW S, NEW M \in Nat, NEW F, NEW L \in [1..M -> S], NEW R \in [1..M -> Nat],
           \A i \in 1..M : R[i] >= 1,
           NEW n \in 1..M, NEW A, \A i \in 0..n : A[i] = PaneStep(A, F, L, R, i)
    PROVE  Shows(A[n], F, L, R, n)
<1> DEFINE T == {k \in Nat : k \in 1..n /\ ~Shows(A[k], F, L, R, k)}
<1>1. ASSUME T # {} PROVE FALSE
    <2>1. PICK k \in T : \A l \in T : k <= l
        BY <1>1, LeastNat
    <2>2. k \in 1..n /\ k \in 1..M /\ k \in 0..n /\ k # 0
        BY <2>1
    <2>3. PICK p \in Nat : Follows(k, p)
        <3>1. k - 1 \in Nat /\ k = (k - 1) + 1
            BY <2>2
        <3> QED
            BY <3>1 DEF Follows
    <2>4. p \in 0..n /\ k - 1 = p /\ p \notin T
        BY <2>1, <2>2, <2>3 DEF Follows
    <2>5. A[k] = FoldFile(A[p], F[k], L[k], R[k])
        BY <2>2, <2>4 DEF PaneStep
    <2>6. p # 0 => Shows(A[p], F, L, R, p)
        BY <2>3, <2>4
    <2>7. \A s \in Nat : s <= p => Folding(S, M, L, p, k, s, R[k])
        BY <2>2, <2>3 DEF Folding
    <2>8. CASE p = 0
        <3>1. k = 1
            BY <2>3, <2>8 DEF Follows
        <3>2. A[p] = PaneOf(None, 0, <<>>)
            BY <2>4, <2>8 DEF PaneStep, EmptyPane, PaneOf
        <3>3. CASE F[k] # None
            <4>1. A[p].folder = None
                BY <3>2 DEF PaneOf
            <4>2. A[k] = PaneOf(F[k], 0, <<L[k]>>)
                BY <2>5, <3>3, <4>1, FoldElsewhere
            <4>3. Cardinality(Stay(F, k)) = 1 /\ Folding(S, M, L, p, k, 0, R[k])
                BY <2>2, <2>7, <3>1, StayNew
            <4> QED
                BY <2>1, <4>2, <4>3, ShowsFirst
        <3>4. CASE F[k] = None
            <4>1. Recent(L, p, 0) = <<>>
                BY DEF Recent
            <4>2. Cardinality(Stay(F, k)) = 0 + 0 + 1 /\ 0 \in Nat /\ ~(0 > 0) /\ 0 <= p
                BY <2>2, <2>3, <3>1, StayNew
            <4>3. Shows(FoldFile(PaneOf(F[k], 0, Recent(L, p, 0)), F[k], L[k], R[k]), F, L, R, k)
                BY <2>7, <4>2, ShowsMore
            <4> QED
                BY <2>1, <2>5, <3>2, <3>4, <4>1, <4>3
        <3> QED
            BY <3>3, <3>4
    <2>9. CASE p # 0
        <3>1. PICK h \in Nat, s \in Nat :
                  /\ A[p] = PaneOf(F[p], h, Recent(L, p, s)) /\ Len(Recent(L, p, s)) = s
                  /\ 0 < s /\ s <= R[p] /\ s <= p /\ h + s = Cardinality(Stay(F, p))
                  /\ (\A i \in 1..p : R[i] = R[p]) /\ h > 0 => s = R[p]
            BY <2>6, <2>9 DEF Shows
        <3>2. CASE F[k] # F[p]
            <4>1. A[p].folder = F[p]
                BY <3>1 DEF PaneOf
            <4>2. A[k] = PaneOf(F[k], 0, <<L[k]>>)
                BY <2>5, <3>2, <4>1, FoldElsewhere
            <4>3. Cardinality(Stay(F, k)) = 1
                BY <2>2, <2>4, <3>2, StayNew
            <4>4. Folding(S, M, L, p, k, 0, R[k])
                BY <2>7
            <4> QED
                BY <2>1, <4>2, <4>3, <4>4, ShowsFirst
        <3>3. CASE F[k] = F[p]
            <4>1. Cardinality(Stay(F, k)) = Cardinality(Stay(F, p)) + 1
                <5>1. p >= 1
                    BY <2>3, <2>9
                <5> QED
                    BY <2>2, <2>3, <3>3, <5>1, StayOn
            <4>2. h + s + 1 = Cardinality(Stay(F, k)) /\ h \in Nat
                BY <3>1, <4>1
            <4>3. ASSUME \A i \in 1..k : R[i] = R[k], h > 0 PROVE s = R[k]
                <5>1. p \in 1..k /\ 1..p \subseteq 1..k
                    BY <2>2, <2>3, <2>9 DEF Follows
                <5>2. \A i \in 1..p : R[i] = R[p]
                    BY <4>3, <5>1
                <5> QED
                    BY <3>1, <4>3, <5>1, <5>2
            <4>4. Folding(S, M, L, p, k, s, R[k])
                BY <2>7, <3>1
            <4>5. Shows(FoldFile(PaneOf(F[k], h, Recent(L, p, s)), F[k], L[k], R[k]), F, L, R, k)
                BY <4>2, <4>3, <4>4, ShowsMore
            <4> QED
                BY <2>1, <2>5, <3>1, <3>3, <4>5
        <3> QED
            BY <3>2, <3>3
    <2> QED
        BY <2>8, <2>9
<1> QED
    BY <1>1

\* The pane of a walk w, in a terminal that is resized from g to h at some file
RowsAt(g, h, resize, i) == VisibleFileRows(IF i < resize THEN g ELSE h)

AfterStep(f, w, g, h, resize, i) ==
    IF i = 0 THEN EmptyPane ELSE FoldFile(f[i - 1], Front(w[i]), Last(w[i]), RowsAt(g, h, resize, i))

Times(n) == 0..n

Resized(w, M, g, h, resize, n) ==
    M \in Nat /\ Len(w) = M /\ g \in Nat /\ h \in Nat /\ resize \in 1..M /\ n \in 1..M

LEMMA AfterExists ==
    ASSUME NEW w, NEW M, NEW g, NEW h, NEW resize, NEW n, Resized(w, M, g, h, resize, n)
    PROVE  \E f : f = [i \in Times(n) |-> AfterStep(f, w, g, h, resize, i)]
<1>0. n \in Nat
    BY DEF Resized
<1> DEFINE D(k) == {i \in 0..n : i < k}
           T == {k \in Nat : ~\E f : f = [i \in D(k) |-> AfterStep(f, w, g, h, resize, i)]}
<1>1. ASSUME T # {} PROVE FALSE
    <2>1. PICK k \in T : \A j \in T : k <= j
        BY <1>1, LeastNat
    <2>2. k # 0
        <3>1. D(0) = {}
            BY <1>0
        <3>2. <<>> = [i \in D(0) |-> AfterStep(<<>>, w, g, h, resize, i)]
            BY <3>1
        <3> QED
            BY <3>2
    <2>3. k \in Nat /\ k - 1 \in Nat /\ k - 1 \notin T
        <3>1. k \in Nat
            BY <2>1
        <3>2. k - 1 \in Nat /\ ~(k <= k - 1)
            BY <2>2, <3>1
        <3> HIDE DEF T
        <3> QED
            BY <2>1, <3>1, <3>2
    <2>4. PICK f : f = [i \in D(k - 1) |-> AfterStep(f, w, g, h, resize, i)]
        BY <2>3
    <2> DEFINE v == [i \in D(k) |-> AfterStep(f, w, g, h, resize, i)]
    <2>5. ASSUME NEW i \in D(k)
          PROVE  AfterStep(f, w, g, h, resize, i) = AfterStep(v, w, g, h, resize, i)
        <3>1. CASE i = 0
            BY <3>1 DEF AfterStep
        <3>2. CASE i # 0
            <4>1. i - 1 \in D(k - 1) /\ i - 1 \in D(k)
                BY <1>0, <2>3, <2>5, <3>2
            <4>2. f[i - 1] = v[i - 1]
                BY <2>4, <4>1
            <4> HIDE DEF v, D
            <4> QED
                BY <3>2, <4>2 DEF AfterStep
        <3> QED
            BY <3>1, <3>2
    <2>6. v = [i \in D(k) |-> AfterStep(v, w, g, h, resize, i)]
        BY <2>5
    <2> QED
        BY <2>1, <2>6
<1>2. n + 1 \in Nat /\ D(n + 1) = Times(n)
    BY <1>0 DEF Times
<1>3. \E f : f = [i \in D(n + 1) |-> AfterStep(f, w, g, h, resize, i)]
    BY <1>1, <1>2
<1> HIDE DEF D
<1> QED
    BY <1>2, <1>3

LEMMA HeightRows == ASSUME NEW g \in Nat PROVE VisibleFileRows(g) \in Nat /\ VisibleFileRows(g) >= 1
BY DEF VisibleFileRows, StatsRows, PaneOverhead

\* What PaneExact says of the pane st after n files
PaneSays(st, w, g, h, resize, n) ==
    LET folder(i) == Front(w[i])
        stay  == {i \in 1..n : \A j \in i..n : folder(j) = folder(n)}
        shown == Len(st.recent)
    IN  /\ st.folder = folder(n)
        /\ st.recent = [i \in 1..shown |-> Last(w[n - shown + i])]
        /\ st.hidden + shown = Cardinality(stay)
        /\ 0 < shown /\ shown <= RowsAt(g, h, resize, n)
        /\ g = h /\ st.hidden > 0 => shown = RowsAt(g, h, resize, n)

LEMMA PaneWalks ==
    ASSUME NEW w, NEW M \in Nat, Len(w) = M, NEW g \in Nat, NEW h \in Nat,
           NEW resize \in 1..M, NEW n \in 1..M,
           NEW A, \A i \in 0..n : A[i] = AfterStep(A, w, g, h, resize, i)
    PROVE  PaneSays(A[n], w, g, h, resize, n)
<1> DEFINE F == [i \in 1..M |-> Front(w[i])]
           L == [i \in 1..M |-> Last(w[i])]
           R == [i \in 1..M |-> RowsAt(g, h, resize, i)]
           S == {Last(w[i]) : i \in 1..M}
<1>1. L \in [1..M -> S]
    OBVIOUS
<1>2. R \in [1..M -> Nat] /\ \A i \in 1..M : R[i] >= 1
    <2>1. \A i \in 1..M : RowsAt(g, h, resize, i) \in Nat /\ RowsAt(g, h, resize, i) >= 1
        BY HeightRows DEF RowsAt
    <2> QED
        BY <2>1
<1>3. \A i \in 1..M : F[i] = Front(w[i]) /\ L[i] = Last(w[i]) /\ R[i] = RowsAt(g, h, resize, i)
    OBVIOUS
<1>4. g = h => \A i \in 1..M : R[i] = R[n]
    BY <1>3 DEF RowsAt
<1> HIDE DEF F, L, R, S
<1>5. \A i \in 0..n : A[i] = PaneStep(A, F, L, R, i)
    <2>1. \A i \in 0..n : i = 0 \/ i \in 1..M
        OBVIOUS
    <2> QED
        BY <1>3, <2>1 DEF AfterStep, PaneStep
<1>6. Shows(A[n], F, L, R, n)
    BY <1>1, <1>2, <1>5, PaneShows
<1>7. PICK k \in Nat, s \in Nat :
          /\ A[n] = PaneOf(F[n], k, Recent(L, n, s)) /\ Len(Recent(L, n, s)) = s
          /\ 0 < s /\ s <= R[n] /\ s <= n /\ k + s = Cardinality(Stay(F, n))
          /\ (\A i \in 1..n : R[i] = R[n]) /\ k > 0 => s = R[n]
    BY <1>6 DEF Shows
<1>8. /\ A[n].folder = Front(w[n]) /\ A[n].hidden = k /\ Len(A[n].recent) = s
      /\ A[n].recent = Recent(L, n, s)
    BY <1>3, <1>7 DEF PaneOf
<1>9. Recent(L, n, s) = [i \in 1..s |-> Last(w[n - s + i])]
    <2>1. \A i \in 1..s : n - s + i \in 1..M
        BY <1>7
    <2>2. \A i \in 1..s : L[n - s + i] = Last(w[n - s + i])
        BY <1>3, <2>1
    <2> QED
        BY <2>2 DEF Recent
<1>10. Stay(F, n) = {i \in 1..n : \A j \in i..n : Front(w[j]) = Front(w[n])}
    <2>1. \A i \in 1..n : \A j \in i..n : j \in 1..M
        OBVIOUS
    <2> QED
        BY <1>3, <2>1 DEF Stay
<1>11. \A i \in 1..n : i \in 1..M
    OBVIOUS
<1>12. g = h /\ k > 0 => s = R[n]
    BY <1>4, <1>7, <1>11
<1> QED
    BY <1>3, <1>7, <1>8, <1>9, <1>10, <1>12 DEF PaneSays

LEMMA PaneAfter ==
    ASSUME NEW w, NEW M, NEW g, NEW h, NEW resize, NEW n, Resized(w, M, g, h, resize, n)
    PROVE  LET rows(i)   == VisibleFileRows(IF i < resize THEN g ELSE h)
               folder(i) == Front(w[i])
               after[i \in 0..n] ==
                   IF i = 0 THEN EmptyPane ELSE FoldFile(after[i - 1], folder(i), Last(w[i]), rows(i))
           IN  PaneSays(after[n], w, g, h, resize, n)
<1>0. \E f : f = [i \in Times(n) |-> AfterStep(f, w, g, h, resize, i)]
    BY AfterExists
<1> DEFINE after == CHOOSE f : f = [i \in 0..n |->
                        IF i = 0 THEN EmptyPane
                        ELSE FoldFile(f[i - 1], Front(w[i]), Last(w[i]),
                                      VisibleFileRows(IF i < resize THEN g ELSE h))]
<1>1. after = CHOOSE f : f = [i \in Times(n) |-> AfterStep(f, w, g, h, resize, i)]
    BY DEF AfterStep, RowsAt, Times
<1> HIDE DEF after
<1>3. after = [i \in Times(n) |-> AfterStep(after, w, g, h, resize, i)]
    BY <1>0, <1>1
<1>4. \A i \in 0..n : after[i] = AfterStep(after, w, g, h, resize, i)
    BY <1>3 DEF Times
<1>5. PaneSays(after[n], w, g, h, resize, n)
    BY <1>4, PaneWalks DEF Resized
<1> QED
    BY <1>5 DEF after

LEMMA PaneInv == ASSUME GraphInv PROVE PaneExact
<1>1. ASSUME NEW c \in commits, NEW g \in Heights, NEW h \in Heights,
             NEW resize \in 1..Len(Walk[c.dir]), NEW n \in 1..Len(Walk[c.dir])
      PROVE  LET walk == Walk[c.dir]
                 rows(i)   == VisibleFileRows(IF i < resize THEN g ELSE h)
                 folder(i) == Front(walk[i])
                 after[i \in 0..n] ==
                     IF i = 0 THEN EmptyPane ELSE FoldFile(after[i - 1], folder(i), Last(walk[i]), rows(i))
             IN  PaneSays(after[n], walk, g, h, resize, n)
    <2>1. PICK w, M : w = Walk[c.dir] /\ M = Len(w)
        OBVIOUS
    <2>2. c.dir \in Nodes
        BY NodesAssumption DEF GraphInv, WholeInv
    <2>3. M \in Nat
        BY <2>1, <2>2, WalkType, LenProperties
    <2>4. Resized(w, M, g, h, resize, n)
        BY <1>1, <2>1, <2>3, NodesAssumption DEF Resized
    <2>5. LET rows(i)   == VisibleFileRows(IF i < resize THEN g ELSE h)
              folder(i) == Front(w[i])
              after[i \in 0..n] ==
                  IF i = 0 THEN EmptyPane ELSE FoldFile(after[i - 1], folder(i), Last(w[i]), rows(i))
          IN  PaneSays(after[n], w, g, h, resize, n)
        BY <2>4, PaneAfter
    <2> QED
        BY <2>1, <2>5
<1> QED
    BY <1>1, Zenon DEF PaneExact, PaneSays, RowsAt

\* For any directories and terminals, resized or not, the folder pane says which
\* folder the walk is in, shows the last files of it, as many as fit, and counts all
\* others of this stay.
THEOREM PaneShowsLast == Spec => []PaneExact
<1>1. GraphInv => PaneExact
    BY PaneInv
<1> QED
    BY <1>1, GraphAlways, PTL
-----------------------------------------------------------------------------
(* What a hash tells of the contents *)

SeenStep(f, n) ==
    IF n.kind = "dir" THEN [label |-> "Tree", kids |-> [m \in DOMAIN n.kids |-> f[n.kids[m]]]]
    ELSE [label |-> "Blob", text |-> n.text]

LEMMA SeenExists == \E f : f = [n \in Nodes |-> SeenStep(f, n)]
<1> DEFINE T == {k \in Nat : ~\E f : f = [n \in Low(k) |-> SeenStep(f, n)]}
<1>1. ASSUME T # {} PROVE FALSE
    <2>1. PICK k \in T : \A j \in T : k <= j
        BY <1>1, LeastNat
    <2>2. k # 0
        <3>1. <<>> = [n \in Low(0) |-> SeenStep(<<>>, n)]
            BY LowAll
        <3> QED
            BY <3>1
    <2>3. k \in Nat /\ k - 1 \in Nat /\ k - 1 \notin T
        BY <2>1, <2>2
    <2>4. PICK f : f = [n \in Low(k - 1) |-> SeenStep(f, n)]
        BY <2>3
    <2> DEFINE g == [n \in Low(k) |-> SeenStep(f, n)]
    <2>5. ASSUME NEW n \in Low(k) PROVE SeenStep(f, n) = SeenStep(g, n)
        <3>1. ASSUME n.kind = "dir", NEW m \in DOMAIN n.kids PROVE f[n.kids[m]] = g[n.kids[m]]
            <4>1. n.kids[m] \in Low(k - 1) /\ n.kids[m] \in Low(k)
                BY <2>2, <3>1, LowKids
            <4> QED
                BY <4>1, <2>4
        <3> HIDE DEF g
        <3> QED
            BY <3>1 DEF SeenStep
    <2>6. g = [n \in Low(k) |-> SeenStep(g, n)]
        BY <2>5
    <2> QED
        BY <2>1, <2>6
<1> QED
    BY <1>1, LowAll

LEMMA SeenIs ==
    ASSUME NEW n \in Nodes
    PROVE  Seen[n] = SeenStep(Seen, n)
<1>1. Seen = [k \in Nodes |-> SeenStep(Seen, k)]
    BY SeenExists DEF Seen, SeenStep
<1> QED
    BY <1>1

LEMMA SeenLabel ==
    ASSUME NEW m \in Nodes, NEW n \in Nodes, Seen[m] = Seen[n]
    PROVE  Label(m) = Label(n)
<1>1. ASSUME NEW k \in Nodes PROVE Seen[k].label = Label(k)
    <2>1. PICK a, b : a = [i \in DOMAIN k.kids |-> Seen[k.kids[i]]] /\ b = k.text
        OBVIOUS
    <2>2. Seen[k] = (IF k.kind = "dir" THEN [label |-> "Tree", kids |-> a]
                        ELSE [label |-> "Blob", text |-> b])
        BY <2>1, SeenIs DEF SeenStep
    <2> QED
        BY <2>2 DEF Label
<1> QED
    BY <1>1

LEMMA SeenFiles ==
    ASSUME NEW m \in Nodes, NEW n \in Nodes, m \notin Dirs, n \notin Dirs
    PROVE  Seen[m] = Seen[n] <=> Hash[m] = Hash[n]
<1>1. m.kind # "dir" /\ n.kind # "dir"
    BY DEF Dirs
<1>2. PICK a, b : a = m.text /\ b = n.text
    OBVIOUS
<1>3. Hash[m] = a /\ Hash[n] = b
    BY <1>1, <1>2, HashIs DEF HashStep
<1>4. Seen[m] = [label |-> "Blob", text |-> a] /\ Seen[n] = [label |-> "Blob", text |-> b]
    BY <1>1, <1>2, SeenIs DEF SeenStep
<1>5. [label |-> "Blob", text |-> a] = [label |-> "Blob", text |-> b] => a = b
    <2>1. [label |-> "Blob", text |-> a].text = a /\ [label |-> "Blob", text |-> b].text = b
        OBVIOUS
    <2> QED
        BY <2>1, Zenon
<1> QED
    BY <1>3, <1>4, <1>5

LEMMA SeenDirs ==
    ASSUME NEW m \in Dirs, NEW n \in Dirs
    PROVE  Seen[m] = Seen[n] <=>
               /\ DOMAIN m.kids = DOMAIN n.kids
               /\ \A i \in DOMAIN m.kids : Seen[m.kids[i]] = Seen[n.kids[i]]
<1>1. m \in Nodes /\ n \in Nodes /\ m.kind = "dir" /\ n.kind = "dir"
    BY DEF Dirs
<1>2. PICK a, b : /\ a = [i \in DOMAIN m.kids |-> Seen[m.kids[i]]]
                  /\ b = [i \in DOMAIN n.kids |-> Seen[n.kids[i]]]
    OBVIOUS
<1>3. Seen[m] = [label |-> "Tree", kids |-> a] /\ Seen[n] = [label |-> "Tree", kids |-> b]
    BY <1>1, <1>2, SeenIs DEF SeenStep
<1>4. Seen[m] = Seen[n] => a = b
    <2>1. [label |-> "Tree", kids |-> a].kids = a /\ [label |-> "Tree", kids |-> b].kids = b
        OBVIOUS
    <2> QED
        BY <1>3, <2>1, Zenon
<1>5. DOMAIN a = DOMAIN m.kids /\ DOMAIN b = DOMAIN n.kids
    BY <1>2
<1>6. (\A i \in DOMAIN m.kids : a[i] = Seen[m.kids[i]]) /\ (\A i \in DOMAIN n.kids : b[i] = Seen[n.kids[i]])
    BY <1>2
<1>7. a = b => DOMAIN m.kids = DOMAIN n.kids
    BY <1>5
<1>8. ASSUME a = b, NEW i \in DOMAIN m.kids PROVE Seen[m.kids[i]] = Seen[n.kids[i]]
    BY <1>6, <1>7, <1>8
<1>9. ASSUME DOMAIN m.kids = DOMAIN n.kids, \A i \in DOMAIN m.kids : Seen[m.kids[i]] = Seen[n.kids[i]]
      PROVE  a = b
    BY <1>2, <1>9
<1> QED
    BY <1>3, <1>4, <1>7, <1>8, <1>9

\* If no file has the hash of a directory and no name a newline, the hash of a node tells
\* its contents, all the way down: this is what the documentation promises (see HashUnambiguous).
THEOREM HashTellsContents ==
    KindsApart /\ PlainNames => \A m, n \in Nodes : Hash[m] = Hash[n] => Seen[m] = Seen[n]
<1> SUFFICES ASSUME KindsApart, PlainNames PROVE \A m, n \in Nodes : Hash[m] = Hash[n] => Seen[m] = Seen[n]
    OBVIOUS
<1> DEFINE Bad == {k \in Nodes : \E l \in Nodes : Hash[k] = Hash[l] /\ Seen[k] # Seen[l]}
<1>1. ASSUME Bad # {} PROVE FALSE
    <2>1. PICK k \in Bad : \A l \in Nodes : Depth[l] < Depth[k] => l \notin Bad
        BY <1>1, Lowest
    <2>2. PICK l \in Nodes : Hash[k] = Hash[l] /\ Seen[k] # Seen[l]
        BY <2>1
    <2>3. Label(k) = Label(l)
        BY <2>2 DEF KindsApart
    <2>4. k \in Dirs <=> l \in Dirs
        BY <2>3, Labels
    <2>5. CASE k \notin Dirs
        BY <2>2, <2>4, <2>5, SeenFiles
    <2>6. CASE k \in Dirs
        <3>1. l \in Dirs
            BY <2>4, <2>6
        <3>2. \A i \in DOMAIN k.kids : i \in DOMAIN l.kids /\ Hash[k.kids[i]] = Hash[l.kids[i]]
            BY <2>2, <2>6, <3>1, SameNames
        <3>3. \A i \in DOMAIN l.kids : i \in DOMAIN k.kids
            BY <2>2, <2>6, <3>1, SameNames
        <3>4. \A i \in DOMAIN k.kids : k.kids[i] \in Nodes /\ k.kids[i] \notin Bad /\ l.kids[i] \in Nodes
            BY <2>1, <2>6, <3>1, <3>2, Kids
        <3>5. \A i \in DOMAIN k.kids : Seen[k.kids[i]] = Seen[l.kids[i]]
            BY <3>2, <3>4
        <3> QED
            BY <2>2, <2>6, <3>1, <3>2, <3>3, <3>5, SeenDirs
    <2> QED
        BY <2>5, <2>6
<1> QED
    BY <1>1

\* Directories of the same contents list them in the same order.  This fails only if,
\* of two links (or a link and a file) of one name and text, one leads to a directory.
ContentsFixOrder == \A m, n \in Dirs : Seen[m] = Seen[n] => SortedNames(m) = SortedNames(n)

LEMMA ContentsTellHash ==
    ASSUME ContentsFixOrder, NEW v \in Nodes, NEW w \in Nodes, Seen[v] = Seen[w]
    PROVE  Hash[v] = Hash[w]
<1> DEFINE Bad == {k \in Nodes : \E l \in Nodes : Seen[k] = Seen[l] /\ Hash[k] # Hash[l]}
<1>1. ASSUME Bad # {} PROVE FALSE
    <2>1. PICK k \in Bad : \A l \in Nodes : Depth[l] < Depth[k] => l \notin Bad
        BY <1>1, Lowest
    <2>2. PICK l \in Nodes : Seen[k] = Seen[l] /\ Hash[k] # Hash[l]
        BY <2>1
    <2>3. Label(k) = Label(l)
        BY <2>2, SeenLabel
    <2>4. k \in Dirs <=> l \in Dirs
        BY <2>3, Labels
    <2>5. CASE k \notin Dirs
        BY <2>2, <2>4, <2>5, SeenFiles
    <2>6. CASE k \in Dirs
        <3>1. l \in Dirs /\ k.kind = "dir" /\ l.kind = "dir"
            BY <2>4, <2>6 DEF Dirs
        <3>2. DOMAIN k.kids = DOMAIN l.kids /\ \A i \in DOMAIN k.kids : Seen[k.kids[i]] = Seen[l.kids[i]]
            BY <2>2, <2>6, <3>1, SeenDirs
        <3>3. \A i \in DOMAIN k.kids : k.kids[i] \in Nodes /\ k.kids[i] \notin Bad /\ l.kids[i] \in Nodes
            BY <2>1, <2>6, <3>1, <3>2, Kids
        <3>4. \A i \in DOMAIN k.kids : Hash[k.kids[i]] = Hash[l.kids[i]]
            BY <3>2, <3>3
        <3>5. PICK s : s = SortedNames(k) /\ s = SortedNames(l)
            BY <2>2, <2>6, <3>1 DEF ContentsFixOrder
        <3>6. \A i \in 1..Len(s) : s[i] \in DOMAIN k.kids
            BY <2>6, <3>5, NamesSorted
        <3>7. \A i \in 1..Len(s) : Hash[k.kids[s[i]]] = Hash[l.kids[s[i]]]
            BY <3>4, <3>6
        <3>8. LinesOf(Hash, k) = LinesOf(Hash, l)
            BY <3>5, <3>7 DEF LinesOf
        <3> QED
            BY <2>2, <3>1, <3>8, HashIs DEF HashStep
    <2> QED
        BY <2>5, <2>6
<1> QED
    BY <1>1
-----------------------------------------------------------------------------
(* Ways down a directory *)

\* A path that leads through another one
Starts(p, q) == Len(p) <= Len(q) /\ \A i \in 1..Len(p) : q[i] = p[i]

\* and further
Passes(p, q) == Starts(p, q) /\ Len(p) < Len(q)

LEMMA StartsOnce ==
    ASSUME NEW p \in Seq(Name), NEW q \in Seq(Name), Starts(p, q), Len(p) = Len(q)
    PROVE  p = q
BY DEF Starts

LEMMA StartsAll ==
    ASSUME NEW p \in Seq(Name)
    PROVE  Starts(<<>>, p) /\ Starts(p, p)
<1>1. Len(<<>>) = 0 /\ Len(p) \in Nat /\ 1..0 = {}
    BY LenProperties
<1> QED
    BY <1>1 DEF Starts

LEMMA StartsUp ==
    ASSUME NEW p \in Seq(Name), NEW q \in Seq(Name), NEW k \in Name
    PROVE  /\ Starts(p, Append(q, k)) /\ p # Append(q, k) => Starts(p, q)
           /\ Starts(p, q) => Passes(p, Append(q, k))
<1>1. /\ Append(q, k) \in Seq(Name) /\ Len(p) \in Nat /\ Len(q) \in Nat
      /\ Len(Append(q, k)) = Len(q) + 1 /\ \A i \in 1..Len(q) : Append(q, k)[i] = q[i]
    BY Appends
<1>2. PICK r : r = Append(q, k)
    OBVIOUS
<1>3. ASSUME Starts(p, r), p # r PROVE Starts(p, q)
    <2>1. Len(p) # Len(r)
        BY <1>1, <1>2, <1>3, StartsOnce
    <2>2. Len(p) <= Len(q) /\ \A i \in 1..Len(p) : i \in 1..Len(q)
        BY <1>1, <1>2, <1>3, <2>1 DEF Starts
    <2> QED
        BY <1>1, <1>2, <1>3, <2>2 DEF Starts
<1>4. ASSUME Starts(p, q) PROVE Passes(p, r)
    <2>1. Len(p) <= Len(q) /\ \A i \in 1..Len(p) : i \in 1..Len(q)
        BY <1>1, <1>4 DEF Starts
    <2> QED
        BY <1>1, <1>2, <1>4, <2>1 DEF Starts, Passes
<1> QED
    BY <1>2, <1>3, <1>4

LEMMA StartsDown ==
    ASSUME NEW p \in Seq(Name), NEW q \in Seq(Name), NEW k \in Name
    PROVE  Starts(Append(p, k), q) <=> Passes(p, q) /\ q[Len(p) + 1] = k
<1>1. /\ Append(p, k) \in Seq(Name) /\ Len(p) \in Nat /\ Len(q) \in Nat
      /\ Len(Append(p, k)) = Len(p) + 1 /\ \A i \in 1..Len(p) : Append(p, k)[i] = p[i]
      /\ Append(p, k)[Len(p) + 1] = k
    BY Appends
<1>2. PICK r, l : r = Append(p, k) /\ l = Len(p)
    OBVIOUS
<1>3. /\ r \in Seq(Name) /\ l \in Nat /\ Len(q) \in Nat /\ Len(r) = l + 1
      /\ (\A i \in 1..l : r[i] = p[i]) /\ r[l + 1] = k
    BY <1>1, <1>2
<1>4. ASSUME Starts(r, q) PROVE Passes(p, q) /\ q[l + 1] = k
    BY <1>2, <1>3, <1>4 DEF Starts, Passes
<1>5. ASSUME Passes(p, q), q[l + 1] = k PROVE Starts(r, q)
    <2>1. \A i \in 1..(l + 1) : i \in 1..l \/ i = l + 1
        BY <1>3
    <2> QED
        BY <1>2, <1>3, <1>5, <2>1 DEF Starts, Passes
<1> QED
    BY <1>2, <1>4, <1>5

LEMMA StartsBoth ==
    ASSUME NEW p \in Seq(Name), NEW q \in Seq(Name), NEW r \in Seq(Name), Starts(p, q), Starts(q, r)
    PROVE  Starts(p, r) /\ (Passes(p, q) => Passes(p, r))
<1>1. Len(p) \in Nat /\ Len(q) \in Nat /\ Len(r) \in Nat
    BY LenProperties
<1>2. Len(p) <= Len(q) /\ Len(q) <= Len(r)
    BY DEF Starts
<1>3. \A i \in 1..Len(p) : i \in 1..Len(q)
    BY <1>1, <1>2
<1> QED
    BY <1>1, <1>2, <1>3 DEF Starts, Passes

\* What is below a directory has a path, and a parent with one name less.
LEMMA Below ==
    ASSUME NEW n \in Nodes, NEW x \in Listing[n]
    PROVE  x \in Reaches(n) /\ x.path \in Seq(Name) /\ x.node \in Nodes /\ Len(x.path) \in Nat
           /\ Len(x.path) >= 1 /\ x = Spot(x.path, x.node) /\ x.path # <<>>
<1>1. Len(<<>>) = 0
    OBVIOUS
<1> QED
    BY <1>1, ListingTypes DEF IsBelow, Reaches

LEMMA BelowOrHere ==
    ASSUME NEW n \in Nodes, NEW x \in Reaches(n), x.path # <<>>
    PROVE  x \in Listing[n]
BY DEF Reaches, Spot

\* There is something at every start of a path.
LEMMA Above ==
    ASSUME NEW n \in Nodes, NEW v \in Reaches(n), NEW p \in Seq(Name), Starts(p, v.path)
    PROVE  \E y \in Reaches(n) : y.path = p
<1> DEFINE T == {l \in Nat : \E x \in Reaches(n) :
                     Len(x.path) = l /\ Starts(p, x.path) /\ ~\E y \in Reaches(n) : y.path = p}
<1>1. ASSUME T # {} PROVE FALSE
    <2>1. PICK l \in T : \A j \in T : l <= j
        BY <1>1, LeastNat
    <2>2. PICK x \in Reaches(n) : Len(x.path) = l /\ Starts(p, x.path) /\ ~\E y \in Reaches(n) : y.path = p
        BY <2>1
    <2>3. p # x.path /\ Len(p) \in Nat
        BY <2>2, LenProperties
    <2>4. x.path # <<>>
        <3>1. Len(<<>>) = 0 /\ <<>> \in Seq(Name)
            OBVIOUS
        <3>2. ASSUME x.path = <<>> PROVE p = <<>>
            <4>1. Len(p) = 0
                BY <2>2, <2>3, <3>1, <3>2 DEF Starts
            <4> QED
                BY <4>1
        <3> QED
            BY <2>3, <3>2
    <2>5. PICK z \in Reaches(n), k \in Name : x.path = Append(z.path, k) /\ Len(x.path) = Len(z.path) + 1
        BY <2>4, BelowOrHere, Parents
    <2>6. PICK q : q = z.path
        OBVIOUS
    <2>7. q \in Seq(Name) /\ Len(q) \in Nat
        BY <2>6, ReachesTypes
    <2>8. Starts(p, Append(q, k)) /\ p # Append(q, k)
        BY <2>2, <2>3, <2>5, <2>6
    <2>9. Starts(p, q)
        BY <2>7, <2>8, StartsUp
    <2>10. Len(q) \in T
        BY <2>2, <2>6, <2>7, <2>9
    <2> QED
        BY <2>1, <2>2, <2>5, <2>6, <2>7, <2>10
<1>2. Len(v.path) \in Nat
    BY ReachesTypes
<1> QED
    BY <1>1, <1>2

\* What is beyond a path is in the directory that is there, under its next name.
LEMMA WayDown ==
    ASSUME NEW n \in Nodes, NEW y \in Reaches(n), NEW v \in Reaches(n), Passes(y.path, v.path)
    PROVE  /\ y.node \in Dirs
           /\ \E k \in DOMAIN y.node.kids :
                  k \in Name /\ v.path[Len(y.path) + 1] = k /\ Starts(Append(y.path, k), v.path)
<1>1. PICK p, k : p = y.path /\ k = v.path[Len(p) + 1]
    OBVIOUS
<1>2. PICK w : w = v.path
    OBVIOUS
<1>3. p \in Seq(Name) /\ w \in Seq(Name) /\ Len(p) \in Nat /\ Len(w) \in Nat
    BY <1>1, <1>2, ReachesTypes
<1>4. Passes(p, w) /\ k = w[Len(p) + 1]
    BY <1>1, <1>2
<1>5. k \in Name
    BY <1>3, <1>4 DEF Passes
<1>6. Starts(Append(p, k), w) /\ Append(p, k) \in Seq(Name)
    BY <1>3, <1>4, <1>5, StartsDown, Appends
<1>7. PICK x \in Reaches(n) : x.path = Append(p, k)
    BY <1>2, <1>6, Above
<1>8. x \in Listing[n]
    <2>1. Append(p, k) # <<>>
        BY <1>3, <1>5, Appends
    <2> QED
        BY <1>7, <2>1, BelowOrHere
<1>9. PICK z \in Reaches(n), j \in Name :
          z.node \in Dirs /\ j \in DOMAIN z.node.kids /\ x.path = Append(z.path, j)
    BY <1>8, Parents
<1>10. PICK q : q = z.path
    OBVIOUS
<1>11. q \in Seq(Name) /\ Append(q, j) = Append(p, k)
    BY <1>7, <1>9, <1>10, ReachesTypes
<1>12. q = p /\ j = k
    BY <1>3, <1>5, <1>11, AppendsOnce
<1>13. z = y
    BY <1>1, <1>10, <1>12, PathsOnce
<1> QED
    BY <1>1, <1>2, <1>4, <1>5, <1>6, <1>9, <1>12, <1>13

\* The entry of a name is at the path with that name.
LEMMA EntryAt ==
    ASSUME NEW n \in Nodes, NEW y \in Reaches(n), y.node \in Dirs, NEW k \in Name
    PROVE  /\ k \in DOMAIN y.node.kids =>
                  /\ Entry(y, k) \in Listing[n]
                  /\ Entry(y, k).path = Append(y.path, k) /\ Entry(y, k).node = y.node.kids[k]
           /\ \A x \in Reaches(n) : x.path = Append(y.path, k) =>
                  k \in DOMAIN y.node.kids /\ x = Entry(y, k)
<1>1. ASSUME k \in DOMAIN y.node.kids
      PROVE  /\ Entry(y, k) \in Listing[n]
             /\ Entry(y, k).path = Append(y.path, k) /\ Entry(y, k).node = y.node.kids[k]
    BY <1>1, Children DEF Entry, Spot
<1>2. ASSUME NEW x \in Reaches(n), x.path = Append(y.path, k)
      PROVE  k \in DOMAIN y.node.kids /\ x = Entry(y, k)
    <2>1. PICK p : p = y.path
        OBVIOUS
    <2>2. p \in Seq(Name) /\ Append(p, k) # <<>> /\ x.path = Append(p, k)
        BY <1>2, <2>1, ReachesTypes, Appends
    <2>3. x \in Listing[n]
        BY <2>2, BelowOrHere
    <2>4. PICK z \in Reaches(n), j \in Name :
              j \in DOMAIN z.node.kids /\ x = Entry(z, j) /\ x.path = Append(z.path, j)
        BY <2>3, Parents
    <2>5. PICK q : q = z.path
        OBVIOUS
    <2>6. q \in Seq(Name) /\ Append(q, j) = Append(p, k)
        BY <2>2, <2>4, <2>5, ReachesTypes
    <2>7. q = p /\ j = k
        BY <2>2, <2>6, AppendsOnce
    <2>8. z = y
        BY <2>1, <2>5, <2>7, PathsOnce
    <2> QED
        BY <2>4, <2>7, <2>8
<1> QED
    BY <1>1, <1>2

\* Below two nodes of the same contents there are the same paths with the same contents.
LEMMA SeenBelow ==
    ASSUME NEW c \in Nodes, NEW d \in Nodes, NEW y \in Reaches(c), NEW z \in Reaches(d),
           y.path = z.path, Seen[y.node] = Seen[z.node],
           NEW u \in Reaches(c), Starts(y.path, u.path)
    PROVE  \E v \in Reaches(d) : v.path = u.path /\ Seen[v.node] = Seen[u.node]
<1> DEFINE Has(x) == \E v \in Reaches(d) : v.path = x.path /\ Seen[v.node] = Seen[x.node]
           T == {l \in Nat : \E x \in Reaches(c) : Len(x.path) = l /\ Starts(y.path, x.path) /\ ~Has(x)}
<1>1. ASSUME T # {} PROVE FALSE
    <2>1. PICK l \in T : \A j \in T : l <= j
        BY <1>1, LeastNat
    <2>2. PICK x \in Reaches(c) : Len(x.path) = l /\ Starts(y.path, x.path) /\ ~Has(x)
        BY <2>1
    <2>3. PICK p : p = y.path
        OBVIOUS
    <2>4. p \in Seq(Name) /\ x.path \in Seq(Name) /\ Starts(p, x.path)
        BY <2>2, <2>3, ReachesTypes
    <2>5. p # x.path
        <3>1. ASSUME p = x.path PROVE FALSE
            <4>1. x = y
                BY <2>3, <3>1, PathsOnce
            <4> QED
                BY <2>2, <4>1
        <3> QED
            BY <3>1
    <2>6. x.path # <<>>
        <3>1. Len(<<>>) = 0 /\ <<>> \in Seq(Name) /\ Len(p) \in Nat
            BY <2>4
        <3>2. ASSUME x.path = <<>> PROVE p = <<>>
            <4>1. Len(p) = 0
                BY <2>4, <3>1, <3>2 DEF Starts
            <4> QED
                BY <2>4, <4>1
        <3> QED
            BY <2>5, <3>2
    <2>7. PICK w \in Reaches(c), k \in Name :
              /\ w.node \in Dirs /\ k \in DOMAIN w.node.kids
              /\ x.path = Append(w.path, k) /\ x.node = w.node.kids[k] /\ Len(x.path) = Len(w.path) + 1
        BY <2>6, BelowOrHere, Parents
    <2>8. PICK q : q = w.path
        OBVIOUS
    <2>9. q \in Seq(Name) /\ Len(q) \in Nat /\ w.node \in Nodes
        BY <2>8, ReachesTypes
    <2>10. Starts(p, Append(q, k)) /\ p # Append(q, k)
        BY <2>4, <2>5, <2>7, <2>8
    <2>11. Starts(p, q)
        BY <2>4, <2>9, <2>10, StartsUp
    <2>12. Len(q) \notin T
        BY <2>1, <2>2, <2>7, <2>8, <2>9
    <2>13. Has(w)
        BY <2>3, <2>8, <2>9, <2>11, <2>12
    <2>14. PICK v \in Reaches(d) : v.path = q /\ Seen[v.node] = Seen[w.node]
        BY <2>8, <2>13
    <2>15. v.node \in Nodes
        BY ReachesTypes
    <2>16. v.node \in Dirs
        <3>1. Label(v.node) = Label(w.node)
            BY <2>9, <2>14, <2>15, SeenLabel
        <3> QED
            BY <2>7, <2>9, <2>15, <3>1, Labels
    <2>17. k \in DOMAIN v.node.kids /\ Seen[v.node.kids[k]] = Seen[w.node.kids[k]]
        BY <2>7, <2>14, <2>16, SeenDirs
    <2>18. /\ Entry(v, k) \in Listing[d] /\ Entry(v, k).path = Append(v.path, k)
           /\ Entry(v, k).node = v.node.kids[k]
        BY <2>16, <2>17, EntryAt
    <2>19. Entry(v, k) \in Reaches(d) /\ Entry(v, k).path = x.path /\ Seen[Entry(v, k).node] = Seen[x.node]
        BY <2>7, <2>8, <2>14, <2>17, <2>18 DEF Reaches
    <2> QED
        BY <2>2, <2>19
<1>2. Len(u.path) \in Nat
    BY ReachesTypes
<1> QED
    BY <1>1, <1>2

LEMMA Joining ==
    ASSUME NEW p \in Seq(Name), NEW q \in Seq(Name)
    PROVE  /\ p \o q \in Seq(Name) /\ Len(p \o q) = Len(p) + Len(q)
           /\ p \o <<>> = p /\ Starts(p, p \o q)
           /\ \A k \in Name : p \o Append(q, k) = Append(p \o q, k)
<1>1. p \o q \in Seq(Name) /\ Len(p \o q) = Len(p) + Len(q) /\ Len(p) \in Nat /\ Len(q) \in Nat
    BY ConcatProperties, LenProperties
<1>2. \A i \in 1..Len(p) : (p \o q)[i] = p[i]
    BY <1>1, ConcatProperties
<1>3. p \o <<>> = p
    BY ConcatEmptySeq
<1>4. Starts(p, p \o q)
    BY <1>1, <1>2 DEF Starts
<1>5. ASSUME NEW k \in Name PROVE p \o Append(q, k) = Append(p \o q, k)
    OBVIOUS
<1> QED
    BY <1>1, <1>3, <1>4, <1>5

Inner(y, u) == Spot(y.path \o u.path, u.node)

\* What is beyond a directory is what is in it.
LEMMA Joined ==
    ASSUME NEW n \in Nodes, NEW y \in Reaches(n), y.node \in Dirs, NEW v
    PROVE  v \in Reaches(n) /\ Starts(y.path, v.path) <=> \E u \in Reaches(y.node) : v = Inner(y, u)
<1>0. PICK p, m : p = y.path /\ m = y.node
    OBVIOUS
<1>1. p \in Seq(Name) /\ m \in Nodes /\ m \in Dirs /\ y = Spot(p, m)
    BY <1>0, ReachesTypes
<1>2. ASSUME NEW u \in Reaches(m), Inner(y, u) \notin Reaches(n) PROVE FALSE
    <2> DEFINE T == {l \in Nat : \E x \in Reaches(m) : Len(x.path) = l /\ Inner(y, x) \notin Reaches(n)}
    <2>1. Len(u.path) \in T
        BY <1>1, <1>2, ReachesTypes
    <2>2. PICK l \in T : \A j \in T : l <= j
        BY <2>1, LeastNat
    <2>3. PICK x \in Reaches(m) : Len(x.path) = l /\ Inner(y, x) \notin Reaches(n)
        BY <2>2
    <2>4. x.path # <<>>
        <3>1. ASSUME x.path = <<>> PROVE FALSE
            <4>1. x = Spot(<<>>, m)
                BY <1>1, <3>1, ReachesTypes
            <4>2. Inner(y, x) = y
                BY <1>0, <1>1, <4>1, Joining DEF Inner, Spot
            <4> QED
                BY <2>3, <4>2
        <3> QED
            BY <3>1
    <2>5. PICK w \in Reaches(m), k \in Name :
              /\ w.node \in Dirs /\ k \in DOMAIN w.node.kids
              /\ x.path = Append(w.path, k) /\ x.node = w.node.kids[k] /\ Len(x.path) = Len(w.path) + 1
        BY <1>1, <2>4, BelowOrHere, Parents
    <2>6. PICK q, e : q = w.path /\ e = w.node
        OBVIOUS
    <2>7. q \in Seq(Name) /\ Len(q) \in Nat /\ e \in Dirs
        BY <1>1, <2>5, <2>6, ReachesTypes
    <2>8. Inner(y, w) \in Reaches(n)
        BY <2>2, <2>3, <2>5, <2>6, <2>7
    <2>9. Inner(y, w) = Spot(p \o q, e)
        BY <1>0, <2>6 DEF Inner
    <2>10. PICK z : z = Spot(p \o q, e)
        OBVIOUS
    <2>11. z \in Reaches(n) /\ z.path = p \o q /\ z.node = e /\ k \in DOMAIN z.node.kids
        BY <2>5, <2>6, <2>8, <2>9, <2>10 DEF Spot
    <2>12. Entry(z, k) \in Listing[n] /\ Entry(z, k) = Spot(Append(p \o q, k), e.kids[k])
        BY <2>7, <2>11, EntryAt DEF Entry
    <2>13. Inner(y, x) = Spot(p \o Append(q, k), e.kids[k])
        BY <1>0, <2>5, <2>6 DEF Inner
    <2>14. p \o Append(q, k) = Append(p \o q, k)
        BY <1>1, <2>7, Joining
    <2> QED
        BY <2>3, <2>12, <2>13, <2>14 DEF Reaches
<1>3. ASSUME NEW u \in Reaches(m), v = Inner(y, u) PROVE v \in Reaches(n) /\ Starts(p, v.path)
    <2>1. v \in Reaches(n)
        BY <1>2, <1>3
    <2>2. PICK q : q = u.path
        OBVIOUS
    <2>3. q \in Seq(Name) /\ v.path = p \o q
        BY <1>0, <1>1, <1>3, <2>2, ReachesTypes DEF Inner, Spot
    <2> QED
        BY <1>1, <2>1, <2>3, Joining
<1>4. ASSUME v \in Reaches(n), Starts(p, v.path), ~\E u \in Reaches(m) : v = Inner(y, u) PROVE FALSE
    <2> DEFINE Bad(x) == Starts(p, x.path) /\ ~\E u \in Reaches(m) : x = Inner(y, u)
               T == {l \in Nat : \E x \in Reaches(n) : Len(x.path) = l /\ Bad(x)}
    <2>1. Len(v.path) \in T
        BY <1>4, ReachesTypes
    <2>2. PICK l \in T : \A j \in T : l <= j
        BY <2>1, LeastNat
    <2>3. PICK x \in Reaches(n) : Len(x.path) = l /\ Bad(x)
        BY <2>2
    <2>4. p # x.path
        <3>1. ASSUME p = x.path PROVE FALSE
            <4>1. x = y
                BY <1>0, <3>1, PathsOnce
            <4>2. Spot(<<>>, m) \in Reaches(m) /\ Inner(y, Spot(<<>>, m)) = y
                BY <1>0, <1>1, Joining DEF Reaches, Inner, Spot
            <4> QED
                BY <2>3, <4>1, <4>2
        <3> QED
            BY <3>1
    <2>5. x.path \in Seq(Name)
        BY ReachesTypes
    <2>6. Passes(p, x.path)
        <3>1. Len(p) # Len(x.path)
            BY <1>1, <2>3, <2>4, <2>5, StartsOnce
        <3> QED
            BY <1>1, <2>3, <2>5, <3>1, LenProperties DEF Starts, Passes
    <2>7. x.path # <<>>
        <3>1. Len(<<>>) = 0 /\ Len(p) \in Nat
            BY <1>1, LenProperties
        <3> QED
            BY <2>6, <3>1 DEF Passes
    <2>8. PICK w \in Reaches(n), k \in Name :
              /\ w.node \in Dirs /\ k \in DOMAIN w.node.kids
              /\ x = Entry(w, k) /\ x.path = Append(w.path, k) /\ Len(x.path) = Len(w.path) + 1
        BY <2>7, BelowOrHere, Parents
    <2>9. PICK q, e : q = w.path /\ e = w.node
        OBVIOUS
    <2>10. q \in Seq(Name) /\ Len(q) \in Nat /\ e \in Dirs /\ w = Spot(q, e)
        BY <2>8, <2>9, ReachesTypes
    <2>11. Starts(p, Append(q, k)) /\ p # Append(q, k)
        BY <2>3, <2>4, <2>8, <2>9
    <2>12. Starts(p, q)
        BY <1>1, <2>10, <2>11, StartsUp
    <2>13. ~Bad(w)
        BY <2>2, <2>3, <2>8, <2>9, <2>10
    <2>14. PICK u \in Reaches(m) : w = Inner(y, u)
        BY <2>9, <2>12, <2>13
    <2>15. PICK r : r = u.path
        OBVIOUS
    <2>16. r \in Seq(Name) /\ u.node = e /\ q = p \o r
        BY <1>0, <1>1, <2>9, <2>14, <2>15, ReachesTypes DEF Inner, Spot
    <2>17. /\ Entry(u, k) \in Listing[m]
           /\ Entry(u, k) = Spot(Append(r, k), e.kids[k])
        BY <1>1, <2>8, <2>9, <2>10, <2>15, <2>16, EntryAt DEF Entry
    <2>18. Inner(y, Entry(u, k)) = Spot(p \o Append(r, k), e.kids[k])
        BY <1>0, <2>17 DEF Inner, Spot
    <2>19. p \o Append(r, k) = Append(q, k)
        BY <1>1, <2>16, Joining
    <2>20. x = Spot(Append(q, k), e.kids[k])
        BY <2>8, <2>9 DEF Entry
    <2> QED
        BY <2>3, <2>17, <2>18, <2>19, <2>20 DEF Reaches
<1> QED
    BY <1>0, <1>3, <1>4

-----------------------------------------------------------------------------
(* The changes between two directories, record by record *)

Removed(y)    == [path |-> y.path, old |-> IdOf(y.node), new |-> None]
Added(z)      == [path |-> z.path, old |-> None, new |-> IdOf(z.node)]
Altered(y, z) == [path |-> y.path, old |-> IdOf(y.node), new |-> IdOf(z.node)]

\* One side of a record: what is at the path there; or nothing, or something of
\* another kind
Side(n, path, this, other) ==
    \/ \E y \in Listing[n] : y.path = path /\ this = IdOf(y.node)
    \/ this = None /\ \A y \in Listing[n] : y.path = path => Label(y.node) # other.label

\* A record of what is at a path in two directories that is not the same
Difference(c, d, deep, r) ==
    /\ r = [path |-> r.path, old |-> r.old, new |-> r.new]
    /\ r.path \in Seq(Name) /\ r.path # <<>> /\ (deep \/ Len(r.path) = 1)
    /\ r.old # None \/ r.new # None
    /\ Side(c, r.path, r.old, r.new) /\ Side(d, r.path, r.new, r.old)
    /\ Two(r) => r.old.hash # r.new.hash

SameKind(r) == Two(r) => r.old.label = r.new.label

LEMMA Ids ==
    ASSUME NEW n \in Nodes
    PROVE  IdOf(n) # None /\ IdOf(n).label = Label(n) /\ IdOf(n).hash = Hash[n]
BY NoneAssumption DEF IdOf

LEMMA ChangesSay ==
    ASSUME NEW c \in Nodes, NEW d \in Nodes, NEW deep \in BOOLEAN, NEW r
    PROVE  r \in Changes(c, d, deep) <=>
               \/ \E y \in Listing[c] :
                      /\ deep \/ Len(y.path) = 1
                      /\ r = Removed(y)
                      /\ \A z \in Listing[d] : z.path = y.path => Label(z.node) # Label(y.node)
               \/ \E z \in Listing[d] :
                      /\ deep \/ Len(z.path) = 1
                      /\ r = Added(z)
                      /\ \A y \in Listing[c] : y.path = z.path => Label(y.node) # Label(z.node)
               \/ \E y \in Listing[c], z \in Listing[d] :
                      /\ deep \/ Len(y.path) = 1
                      /\ r = Altered(y, z) /\ y.path = z.path
                      /\ Label(y.node) = Label(z.node) /\ Seen[y.node] # Seen[z.node]
<1>1. PICK old, new : /\ old = {y \in Listing[c] : deep \/ Len(y.path) = 1}
                      /\ new = {z \in Listing[d] : deep \/ Len(z.path) = 1}
    OBVIOUS
<1> DEFINE changed == {p \in old \X new : p[1].path = p[2].path /\ Seen[p[1].node] # Seen[p[2].node]}
           sameKind(p) == Label(p[1].node) = Label(p[2].node)
           A == {y \in old : \A z \in new : z.path = y.path => <<y, z>> \in changed /\ ~sameKind(<<y, z>>)}
           B == {z \in new : \A y \in old : z.path = y.path => <<y, z>> \in changed /\ ~sameKind(<<y, z>>)}
           D == {q \in changed : sameKind(q)}
<1>2. Changes(c, d, deep) =
          {[path |-> x.path, old |-> IdOf(x.node), new |-> None] : x \in A}
          \cup {[path |-> x.path, old |-> None, new |-> IdOf(x.node)] : x \in B}
          \cup {[path |-> p[1].path, old |-> IdOf(p[1].node), new |-> IdOf(p[2].node)] : p \in D}
    BY <1>1, Zenon DEF Changes
<1>3. \A y, z : <<y, z>> \in changed <=>
                    y \in old /\ z \in new /\ y.path = z.path /\ Seen[y.node] # Seen[z.node]
    OBVIOUS
<1>4. \A y, z : sameKind(<<y, z>>) <=> Label(y.node) = Label(z.node)
    OBVIOUS
<1>5. \A p \in changed : p = <<p[1], p[2]>>
    OBVIOUS
<1>6. /\ \A y \in Listing[c] : y.node \in Nodes
      /\ \A z \in Listing[d] : z.node \in Nodes
    BY Below
<1>7. \A y \in old, z \in new : Label(y.node) # Label(z.node) => Seen[y.node] # Seen[z.node]
    BY <1>1, <1>6, SeenLabel
<1> HIDE DEF changed, sameKind
<1>8. \A y : y \in A <=> y \in old /\ \A z \in new : z.path = y.path => Label(z.node) # Label(y.node)
    BY <1>3, <1>4, <1>7
<1>9. \A z : z \in B <=> z \in new /\ \A y \in old : y.path = z.path => Label(y.node) # Label(z.node)
    BY <1>3, <1>4, <1>7
<1>10. \A q : q \in D <=> \E y \in old, z \in new : /\ q = <<y, z>> /\ y.path = z.path
                                                    /\ Seen[y.node] # Seen[z.node]
                                                    /\ Label(y.node) = Label(z.node)
    BY <1>3, <1>4, <1>5
<1> HIDE DEF A, B, D
<1>11. r \in Changes(c, d, deep) <=> \/ \E y \in A : r = Removed(y)
                                     \/ \E z \in B : r = Added(z)
                                     \/ \E p \in D : r = Altered(p[1], p[2])
    BY <1>2 DEF Removed, Added, Altered
<1>12. (\E y \in A : r = Removed(y)) <=>
           \E y \in Listing[c] : /\ deep \/ Len(y.path) = 1
                                 /\ r = Removed(y)
                                 /\ \A z \in Listing[d] : z.path = y.path => Label(z.node) # Label(y.node)
    BY <1>1, <1>8
<1>13. (\E z \in B : r = Added(z)) <=>
           \E z \in Listing[d] : /\ deep \/ Len(z.path) = 1
                                 /\ r = Added(z)
                                 /\ \A y \in Listing[c] : y.path = z.path => Label(y.node) # Label(z.node)
    BY <1>1, <1>9
<1>14. (\E p \in D : r = Altered(p[1], p[2])) <=>
           \E y \in Listing[c], z \in Listing[d] :
               /\ deep \/ Len(y.path) = 1
               /\ r = Altered(y, z) /\ y.path = z.path
               /\ Label(y.node) = Label(z.node) /\ Seen[y.node] # Seen[z.node]
    <2>1. ASSUME NEW p \in D, r = Altered(p[1], p[2])
          PROVE  \E y \in old, z \in new : /\ r = Altered(y, z) /\ y.path = z.path
                                            /\ Label(y.node) = Label(z.node) /\ Seen[y.node] # Seen[z.node]
        <3>1. PICK y \in old, z \in new : /\ p = <<y, z>> /\ y.path = z.path
                                           /\ Seen[y.node] # Seen[z.node] /\ Label(y.node) = Label(z.node)
            BY <1>10
        <3>2. p[1] = y /\ p[2] = z
            BY <3>1
        <3> QED
            BY <2>1, <3>1, <3>2
    <2>2. ASSUME NEW y \in old, NEW z \in new, r = Altered(y, z), y.path = z.path,
                 Label(y.node) = Label(z.node), Seen[y.node] # Seen[z.node]
          PROVE  \E p \in D : r = Altered(p[1], p[2])
        <3>1. PICK p : p = <<y, z>>
            OBVIOUS
        <3>2. p \in D /\ p[1] = y /\ p[2] = z
            BY <1>10, <2>2, <3>1
        <3> QED
            BY <2>2, <3>2
    <2> QED
        BY <1>1, <2>1, <2>2
<1> QED
    BY <1>11, <1>12, <1>13, <1>14

\* Hashes tell contents and nothing else.
Telling == KindsApart /\ PlainNames /\ ContentsFixOrder

LEMMA Tells ==
    ASSUME Telling, NEW m \in Nodes, NEW n \in Nodes
    PROVE  Hash[m] = Hash[n] <=> Seen[m] = Seen[n]
BY HashTellsContents, ContentsTellHash DEF Telling

\* The changes are the differences, but for those of kind, which come in two.
LEMMA ChangesAre ==
    ASSUME Telling, NEW c \in Nodes, NEW d \in Nodes, NEW deep \in BOOLEAN, NEW r
    PROVE  r \in Changes(c, d, deep) <=> Difference(c, d, deep, r) /\ SameKind(r)
<1>1. ASSUME NEW y \in Listing[c], deep \/ Len(y.path) = 1, r = Removed(y),
             \A z \in Listing[d] : z.path = y.path => Label(z.node) # Label(y.node)
      PROVE  Difference(c, d, deep, r) /\ SameKind(r)
    <2>1. y.path \in Seq(Name) /\ y.path # <<>> /\ y.node \in Nodes
        BY Below
    <2>2. /\ r = [path |-> r.path, old |-> r.old, new |-> r.new]
          /\ r.path = y.path /\ r.old = IdOf(y.node) /\ r.new = None
        BY <1>1 DEF Removed
    <2>3. r.old # None /\ r.old.label = Label(y.node)
        BY <2>1, <2>2, Ids
    <2> QED
        BY <1>1, <2>1, <2>2, <2>3 DEF Difference, SameKind, Side, Two
<1>2. ASSUME NEW z \in Listing[d], deep \/ Len(z.path) = 1, r = Added(z),
             \A y \in Listing[c] : y.path = z.path => Label(y.node) # Label(z.node)
      PROVE  Difference(c, d, deep, r) /\ SameKind(r)
    <2>1. z.path \in Seq(Name) /\ z.path # <<>> /\ z.node \in Nodes
        BY Below
    <2>2. /\ r = [path |-> r.path, old |-> r.old, new |-> r.new]
          /\ r.path = z.path /\ r.new = IdOf(z.node) /\ r.old = None
        BY <1>2 DEF Added
    <2>3. r.new # None /\ r.new.label = Label(z.node)
        BY <2>1, <2>2, Ids
    <2> QED
        BY <1>2, <2>1, <2>2, <2>3 DEF Difference, SameKind, Side, Two
<1>3. ASSUME NEW y \in Listing[c], NEW z \in Listing[d], deep \/ Len(y.path) = 1,
             r = Altered(y, z), y.path = z.path,
             Label(y.node) = Label(z.node), Seen[y.node] # Seen[z.node]
      PROVE  Difference(c, d, deep, r) /\ SameKind(r)
    <2>1. y.path \in Seq(Name) /\ y.path # <<>> /\ y.node \in Nodes /\ z.node \in Nodes
        BY Below
    <2>2. /\ r = [path |-> r.path, old |-> r.old, new |-> r.new]
          /\ r.path = y.path /\ r.old = IdOf(y.node) /\ r.new = IdOf(z.node)
        BY <1>3 DEF Altered
    <2>3. /\ r.old # None /\ r.old.label = Label(y.node) /\ r.old.hash = Hash[y.node]
          /\ r.new # None /\ r.new.label = Label(z.node) /\ r.new.hash = Hash[z.node]
        BY <2>1, <2>2, Ids
    <2>4. Hash[y.node] # Hash[z.node]
        BY <1>3, <2>1, Tells
    <2> QED
        BY <1>3, <2>1, <2>2, <2>3, <2>4 DEF Difference, SameKind, Side
<1>4. ASSUME Difference(c, d, deep, r), SameKind(r) PROVE r \in Changes(c, d, deep)
    <2>1. /\ r = [path |-> r.path, old |-> r.old, new |-> r.new]
          /\ deep \/ Len(r.path) = 1
          /\ r.old # None \/ r.new # None
        BY <1>4 DEF Difference
    <2>2. CASE r.new = None
        <3>1. PICK y \in Listing[c] : y.path = r.path /\ r.old = IdOf(y.node)
            BY <1>4, <2>1, <2>2 DEF Difference, Side
        <3>2. r.old.label = Label(y.node)
            BY <3>1, Below, Ids
        <3>3. \A z \in Listing[d] : z.path = r.path => Label(z.node) # r.old.label
            <4>1. ASSUME NEW z \in Listing[d], r.new = IdOf(z.node) PROVE FALSE
                BY <2>2, <4>1, Below, Ids
            <4> QED
                BY <1>4, <4>1 DEF Difference, Side
        <3>4. r = Removed(y)
            BY <2>1, <2>2, <3>1 DEF Removed
        <3> QED
            BY <2>1, <3>1, <3>2, <3>3, <3>4, ChangesSay
    <2>3. CASE r.old = None
        <3>1. PICK z \in Listing[d] : z.path = r.path /\ r.new = IdOf(z.node)
            BY <1>4, <2>1, <2>3 DEF Difference, Side
        <3>2. r.new.label = Label(z.node)
            BY <3>1, Below, Ids
        <3>3. \A y \in Listing[c] : y.path = r.path => Label(y.node) # r.new.label
            <4>1. ASSUME NEW y \in Listing[c], r.old = IdOf(y.node) PROVE FALSE
                BY <2>3, <4>1, Below, Ids
            <4> QED
                BY <1>4, <4>1 DEF Difference, Side
        <3>4. r = Added(z)
            BY <2>1, <2>3, <3>1 DEF Added
        <3> QED
            BY <2>1, <3>1, <3>2, <3>3, <3>4, ChangesSay
    <2>4. CASE Two(r)
        <3>1. PICK y \in Listing[c] : y.path = r.path /\ r.old = IdOf(y.node)
            BY <1>4, <2>4 DEF Difference, Side, Two
        <3>2. PICK z \in Listing[d] : z.path = r.path /\ r.new = IdOf(z.node)
            BY <1>4, <2>4 DEF Difference, Side, Two
        <3>3. y.node \in Nodes /\ z.node \in Nodes
            BY Below
        <3>4. Label(y.node) = Label(z.node) /\ Hash[y.node] # Hash[z.node]
            BY <1>4, <2>4, <3>1, <3>2, <3>3, Ids DEF Difference, SameKind
        <3>5. Seen[y.node] # Seen[z.node]
            BY <3>3, <3>4, Tells
        <3>6. r = Altered(y, z)
            BY <2>1, <3>1, <3>2 DEF Altered
        <3> QED
            BY <2>1, <3>1, <3>2, <3>4, <3>5, <3>6, ChangesSay
    <2> QED
        BY <2>2, <2>3, <2>4 DEF Two
<1> QED
    BY <1>1, <1>2, <1>3, <1>4, ChangesSay

-----------------------------------------------------------------------------
(* What one query of the diff finds *)

EntryGone(y, z, k) == k \in DOMAIN y.node.kids /\ k \notin DOMAIN z.node.kids
EntryDiffers(y, z, k) ==
    /\ k \in DOMAIN y.node.kids /\ k \in DOMAIN z.node.kids
    /\ Hash[y.node.kids[k]] # Hash[z.node.kids[k]]

\* The record of a name that is not the same in two directories
EntryRecord(y, z, k, r) ==
    \/ EntryGone(z, y, k) /\ r = Added(Entry(z, k))
    \/ EntryGone(y, z, k) /\ r = Removed(Entry(y, k))
    \/ EntryDiffers(y, z, k) /\ r = Altered(Entry(y, k), Entry(z, k))

LEMMA EdgeFields ==
    ASSUME NEW d, NEW i
    PROVE  /\ EdgeAt(d, i).name = i /\ EdgeAt(d, i).child = Hash[d.kids[i]]
           /\ Id(EdgeAt(d, i)) = IdOf(d.kids[i])
BY DEF EdgeAt, Id, IdOf

LEMMA RecordsAre ==
    ASSUME NEW c \in Nodes, NEW d \in Nodes, Kept(c), Kept(d),
           NEW y \in Reaches(c), NEW z \in Reaches(d), y.node \in Dirs, z.node \in Dirs,
           y.path = z.path, NEW r
    PROVE  r \in Records(Hash[y.node], Hash[z.node], y.path) <=> \E k : EntryRecord(y, z, k, r)
<1>1. PICK o, n, p, v, w : /\ o = EntriesOf(Hash[y.node]) /\ n = EntriesOf(Hash[z.node])
                           /\ p = y.path /\ v = y.node /\ w = z.node
    OBVIOUS
<1> DEFINE A == {e \in n : \A a \in o : a.name # e.name}
           B == {e \in o : \A b \in n : b.name # e.name}
           D == {q \in o \X n : q[1].name = q[2].name /\ q[1].child # q[2].child}
<1>2. Records(Hash[y.node], Hash[z.node], p) =
          {[path |-> Append(p, b.name), old |-> None, new |-> Id(b)] : b \in A}
          \cup {[path |-> Append(p, a.name), old |-> Id(a), new |-> None] : a \in B}
          \cup {[path |-> Append(p, q[1].name), old |-> Id(q[1]), new |-> Id(q[2])] : q \in D}
    BY <1>1, Zenon DEF Records
<1>3. \A e : e \in o <=> \E i \in DOMAIN v.kids : e = EdgeAt(v, i)
    BY <1>1, ReachedEntries
<1>4. \A e : e \in n <=> \E i \in DOMAIN w.kids : e = EdgeAt(w, i)
    BY <1>1, ReachedEntries
<1>5. \A q : q \in D <=> \E a \in o, b \in n : q = <<a, b>> /\ a.name = b.name /\ a.child # b.child
    OBVIOUS
<1>6. \A e : e \in A <=> \E i \in DOMAIN w.kids : i \notin DOMAIN v.kids /\ e = EdgeAt(w, i)
    <2> SUFFICES ASSUME NEW e
                 PROVE e \in A <=> \E i \in DOMAIN w.kids : i \notin DOMAIN v.kids /\ e = EdgeAt(w, i)
        OBVIOUS
    <2>1. ASSUME NEW i \in DOMAIN w.kids, e = EdgeAt(w, i) PROVE e \in A <=> i \notin DOMAIN v.kids
        <3>1. e \in n /\ e.name = i
            BY <1>4, <2>1, EdgeFields
        <3>2. (\E a \in o : a.name = i) <=> i \in DOMAIN v.kids
            BY <1>3, EdgeFields
        <3> QED
            BY <3>1, <3>2
    <2> QED
        BY <1>4, <2>1
<1>7. \A e : e \in B <=> \E i \in DOMAIN v.kids : i \notin DOMAIN w.kids /\ e = EdgeAt(v, i)
    <2> SUFFICES ASSUME NEW e
                 PROVE e \in B <=> \E i \in DOMAIN v.kids : i \notin DOMAIN w.kids /\ e = EdgeAt(v, i)
        OBVIOUS
    <2>1. ASSUME NEW i \in DOMAIN v.kids, e = EdgeAt(v, i) PROVE e \in B <=> i \notin DOMAIN w.kids
        <3>1. e \in o /\ e.name = i
            BY <1>3, <2>1, EdgeFields
        <3>2. (\E b \in n : b.name = i) <=> i \in DOMAIN w.kids
            BY <1>4, EdgeFields
        <3> QED
            BY <3>1, <3>2
    <2> QED
        BY <1>3, <2>1
<1>8. \A q : q \in D <=>
          \E i \in DOMAIN v.kids : /\ i \in DOMAIN w.kids /\ Hash[v.kids[i]] # Hash[w.kids[i]]
                                   /\ q = <<EdgeAt(v, i), EdgeAt(w, i)>>
    <2> SUFFICES ASSUME NEW q
                 PROVE  q \in D <=>
                           \E i \in DOMAIN v.kids : /\ i \in DOMAIN w.kids /\ Hash[v.kids[i]] # Hash[w.kids[i]]
                                                    /\ q = <<EdgeAt(v, i), EdgeAt(w, i)>>
        OBVIOUS
    <2>1. ASSUME q \in D
          PROVE  \E i \in DOMAIN v.kids : /\ i \in DOMAIN w.kids /\ Hash[v.kids[i]] # Hash[w.kids[i]]
                                          /\ q = <<EdgeAt(v, i), EdgeAt(w, i)>>
        <3>1. PICK a \in o, b \in n : q = <<a, b>> /\ a.name = b.name /\ a.child # b.child
            BY <1>5, <2>1
        <3>2. PICK i \in DOMAIN v.kids : a = EdgeAt(v, i)
            BY <1>3
        <3>3. PICK j \in DOMAIN w.kids : b = EdgeAt(w, j)
            BY <1>4
        <3>4. a.name = i /\ b.name = j /\ a.child = Hash[v.kids[i]] /\ b.child = Hash[w.kids[j]]
            BY <3>2, <3>3, EdgeFields
        <3> QED
            BY <3>1, <3>2, <3>3, <3>4
    <2>2. ASSUME NEW i \in DOMAIN v.kids, i \in DOMAIN w.kids, Hash[v.kids[i]] # Hash[w.kids[i]],
                 q = <<EdgeAt(v, i), EdgeAt(w, i)>>
          PROVE  q \in D
        <3>1. EdgeAt(v, i) \in o /\ EdgeAt(w, i) \in n
            BY <1>3, <1>4, <2>2
        <3>2. /\ EdgeAt(v, i).name = EdgeAt(w, i).name
              /\ EdgeAt(v, i).child # EdgeAt(w, i).child
            BY <2>2, EdgeFields
        <3> QED
            BY <1>5, <2>2, <3>1, <3>2
    <2> QED
        BY <2>1, <2>2
<1> HIDE DEF A, B, D
<1>9. (\E b \in A : r = [path |-> Append(p, b.name), old |-> None, new |-> Id(b)]) <=>
          \E k : EntryGone(z, y, k) /\ r = Added(Entry(z, k))
    <2>1. \A k : Added(Entry(z, k)) = [path |-> Append(p, k), old |-> None, new |-> IdOf(w.kids[k])]
        BY <1>1 DEF Added, Entry, Spot
    <2>2. \A k : EntryGone(z, y, k) <=> k \in DOMAIN w.kids /\ k \notin DOMAIN v.kids
        BY <1>1 DEF EntryGone
    <2>3. ASSUME NEW b \in A, r = [path |-> Append(p, b.name), old |-> None, new |-> Id(b)]
          PROVE  \E k : EntryGone(z, y, k) /\ r = Added(Entry(z, k))
        <3>1. PICK i : i \in DOMAIN w.kids /\ i \notin DOMAIN v.kids /\ b = EdgeAt(w, i)
            BY <1>6
        <3> QED
            BY <2>1, <2>2, <2>3, <3>1, EdgeFields
    <2>4. ASSUME NEW k, EntryGone(z, y, k), r = Added(Entry(z, k))
          PROVE  \E b \in A : r = [path |-> Append(p, b.name), old |-> None, new |-> Id(b)]
        <3>1. PICK b : b = EdgeAt(w, k)
            OBVIOUS
        <3>2. b \in A
            BY <1>6, <2>2, <2>4, <3>1
        <3> QED
            BY <2>1, <2>4, <3>1, <3>2, EdgeFields
    <2> QED
        BY <2>3, <2>4
<1>10. (\E a \in B : r = [path |-> Append(p, a.name), old |-> Id(a), new |-> None]) <=>
           \E k : EntryGone(y, z, k) /\ r = Removed(Entry(y, k))
    <2>1. \A k : Removed(Entry(y, k)) = [path |-> Append(p, k), old |-> IdOf(v.kids[k]), new |-> None]
        BY <1>1 DEF Removed, Entry, Spot
    <2>2. \A k : EntryGone(y, z, k) <=> k \in DOMAIN v.kids /\ k \notin DOMAIN w.kids
        BY <1>1 DEF EntryGone
    <2>3. ASSUME NEW a \in B, r = [path |-> Append(p, a.name), old |-> Id(a), new |-> None]
          PROVE  \E k : EntryGone(y, z, k) /\ r = Removed(Entry(y, k))
        <3>1. PICK i : i \in DOMAIN v.kids /\ i \notin DOMAIN w.kids /\ a = EdgeAt(v, i)
            BY <1>7
        <3> QED
            BY <2>1, <2>2, <2>3, <3>1, EdgeFields
    <2>4. ASSUME NEW k, EntryGone(y, z, k), r = Removed(Entry(y, k))
          PROVE  \E a \in B : r = [path |-> Append(p, a.name), old |-> Id(a), new |-> None]
        <3>1. PICK a : a = EdgeAt(v, k)
            OBVIOUS
        <3>2. a \in B
            BY <1>7, <2>2, <2>4, <3>1
        <3> QED
            BY <2>1, <2>4, <3>1, <3>2, EdgeFields
    <2> QED
        BY <2>3, <2>4
<1>11. (\E q \in D : r = [path |-> Append(p, q[1].name), old |-> Id(q[1]), new |-> Id(q[2])]) <=>
           \E k : EntryDiffers(y, z, k) /\ r = Altered(Entry(y, k), Entry(z, k))
    <2>1. \A k : Altered(Entry(y, k), Entry(z, k)) =
                     [path |-> Append(p, k), old |-> IdOf(v.kids[k]), new |-> IdOf(w.kids[k])]
        BY <1>1 DEF Altered, Entry, Spot
    <2>2. \A k : EntryDiffers(y, z, k) <=>
                     k \in DOMAIN v.kids /\ k \in DOMAIN w.kids /\ Hash[v.kids[k]] # Hash[w.kids[k]]
        BY <1>1 DEF EntryDiffers
    <2>3. ASSUME NEW k, NEW q, q = <<EdgeAt(v, k), EdgeAt(w, k)>>
          PROVE  [path |-> Append(p, q[1].name), old |-> Id(q[1]), new |-> Id(q[2])] =
                     [path |-> Append(p, k), old |-> IdOf(v.kids[k]), new |-> IdOf(w.kids[k])]
        <3>1. q[1] = EdgeAt(v, k) /\ q[2] = EdgeAt(w, k)
            BY <2>3
        <3> QED
            BY <3>1, EdgeFields
    <2>4. ASSUME NEW q \in D, r = [path |-> Append(p, q[1].name), old |-> Id(q[1]), new |-> Id(q[2])]
          PROVE  \E k : EntryDiffers(y, z, k) /\ r = Altered(Entry(y, k), Entry(z, k))
        <3>1. PICK i : /\ i \in DOMAIN v.kids /\ i \in DOMAIN w.kids /\ Hash[v.kids[i]] # Hash[w.kids[i]]
                       /\ q = <<EdgeAt(v, i), EdgeAt(w, i)>>
            BY <1>8
        <3> QED
            BY <2>1, <2>2, <2>3, <2>4, <3>1
    <2>5. ASSUME NEW k, EntryDiffers(y, z, k), r = Altered(Entry(y, k), Entry(z, k))
          PROVE  \E q \in D : r = [path |-> Append(p, q[1].name), old |-> Id(q[1]), new |-> Id(q[2])]
        <3>1. PICK q : q = <<EdgeAt(v, k), EdgeAt(w, k)>>
            OBVIOUS
        <3>2. q \in D
            BY <1>8, <2>2, <2>5, <3>1
        <3> QED
            BY <2>1, <2>3, <2>5, <3>1, <3>2
    <2> QED
        BY <2>4, <2>5
<1>12. r \in Records(Hash[y.node], Hash[z.node], p) <=>
           \/ \E b \in A : r = [path |-> Append(p, b.name), old |-> None, new |-> Id(b)]
           \/ \E a \in B : r = [path |-> Append(p, a.name), old |-> Id(a), new |-> None]
           \/ \E q \in D : r = [path |-> Append(p, q[1].name), old |-> Id(q[1]), new |-> Id(q[2])]
    BY <1>2
<1> QED
    BY <1>1, <1>9, <1>10, <1>11, <1>12 DEF EntryRecord

-----------------------------------------------------------------------------
(* What is left to do for a diff, and the changes that it stands for *)

Sides(r, x) == (r.old = None => x.old = None) /\ (r.new = None => x.new = None)

\* Of some changes, those that a record to yield stands for: its own and all that are
\* beyond it; those that one to enter stands for are beyond it.
Region(T, w) ==
    {x \in T : Sides(w.rec, x) /\ IF w.do = "enter" THEN Passes(w.rec.path, x.path)
                                  ELSE Starts(w.rec.path, x.path)}

Task(do, r) == [do |-> do, rec |-> r]

IsTask(c, d, deep, w) ==
    /\ w = Task(w.do, w.rec) /\ w.do \in {"yield", "enter"}
    /\ Difference(c, d, deep, w.rec)
    /\ w.do = "enter" => deep /\ IsDir(w.rec) /\ SameKind(w.rec)

LEMMA TaskFields == ASSUME NEW do, NEW r PROVE Task(do, r).do = do /\ Task(do, r).rec = r
BY DEF Task

LEMMA Sums ==
    ASSUME NEW n \in Nodes, NEW p, NEW this, NEW other, Side(n, p, this, other)
    PROVE  /\ this # None => \E y \in Listing[n] : y.path = p /\ y.node \in Nodes /\ this = IdOf(y.node)
                                                   /\ this.label = Label(y.node) /\ this.hash = Hash[y.node]
           /\ this = None => \A y \in Listing[n] : y.path = p => Label(y.node) # other.label
<1>1. ASSUME NEW y \in Listing[n], this = IdOf(y.node)
      PROVE  y.node \in Nodes /\ this # None /\ this.label = Label(y.node) /\ this.hash = Hash[y.node]
    BY <1>1, Below, Ids
<1> QED
    BY <1>1 DEF Side

LEMMA SideOnce ==
    ASSUME NEW n \in Nodes, NEW p, NEW a, NEW b, NEW v, NEW w, Side(n, p, a, b), Side(n, p, v, w),
           a # None, v # None
    PROVE  a = v
<1>1. PICK y \in Listing[n] : y.path = p /\ a = IdOf(y.node)
    BY Sums
<1>2. PICK z \in Listing[n] : z.path = p /\ v = IdOf(z.node)
    BY Sums
<1>3. y = z
    BY <1>1, <1>2, PathsOnce, Below
<1> QED
    BY <1>1, <1>2, <1>3

\* Something beyond a path is in a directory that is there.
LEMMA SideDir ==
    ASSUME NEW n \in Nodes, NEW p \in Seq(Name), NEW a, NEW b, Side(n, p, a, b), p # <<>>,
           NEW v \in Listing[n], Passes(p, v.path)
    PROVE  IF a = None THEN b.label # "Tree" ELSE a.label = "Tree"
<1>1. v \in Reaches(n) /\ Starts(p, v.path)
    BY Below DEF Passes
<1>2. PICK y \in Reaches(n) : y.path = p
    BY <1>1, Above
<1>3. y.node \in Dirs /\ y.node \in Nodes
    BY <1>1, <1>2, WayDown DEF Dirs
<1>4. Label(y.node) = "Tree"
    BY <1>3, Labels
<1>5. y \in Listing[n]
    BY <1>2, BelowOrHere
<1>6. CASE a = None
    BY <1>2, <1>4, <1>5, <1>6, Sums
<1>7. CASE a # None
    <2>1. PICK z \in Listing[n] : z.path = p /\ a.label = Label(z.node)
        BY <1>7, Sums
    <2>2. z = y
        BY <1>2, <2>1, PathsOnce, Below
    <2> QED
        BY <1>4, <1>7, <2>1, <2>2
<1> QED
    BY <1>6, <1>7

\* What a record must be to be a change, and both as facts to cite
LEMMA Differs ==
    ASSUME NEW c, NEW d, NEW deep, NEW r, Difference(c, d, deep, r)
    PROVE  /\ r = [path |-> r.path, old |-> r.old, new |-> r.new]
           /\ r.path \in Seq(Name) /\ r.path # <<>> /\ (deep \/ Len(r.path) = 1)
           /\ Len(r.path) \in Nat /\ Len(r.path) >= 1
           /\ r.old # None \/ r.new # None
           /\ Side(c, r.path, r.old, r.new) /\ Side(d, r.path, r.new, r.old)
           /\ Two(r) => r.old.hash # r.new.hash
<1>1. PICK p : p = r.path
    OBVIOUS
<1>2. p \in Seq(Name) /\ p # <<>>
    BY <1>1 DEF Difference
<1>3. Len(p) \in Nat /\ Len(p) >= 1
    BY <1>2
<1> QED
    BY <1>1, <1>3 DEF Difference

\* A path has one change, or two when the kind changes, one of each side.
LEMMA ChangeOnce ==
    ASSUME NEW c \in Nodes, NEW d \in Nodes, NEW deep, NEW r, NEW x,
           Difference(c, d, deep, r), SameKind(r), Difference(c, d, deep, x),
           x.path = r.path, Sides(r, x)
    PROVE  x = r
<1>1. /\ Side(c, r.path, r.old, r.new) /\ Side(d, r.path, r.new, r.old)
      /\ Side(c, r.path, x.old, x.new) /\ Side(d, r.path, x.new, x.old)
      /\ x.old # None \/ x.new # None
    BY Differs
<1>2. x.old # None => x.old = r.old
    BY <1>1, SideOnce DEF Sides
<1>3. x.new # None => x.new = r.new
    BY <1>1, SideOnce DEF Sides
<1>4. ASSUME x.old = None, r.old # None PROVE FALSE
    <2>1. x.new # None /\ x.new = r.new
        BY <1>1, <1>3, <1>4
    <2>2. r.old.label = r.new.label
        BY <1>4, <2>1 DEF SameKind, Two
    <2>3. PICK y \in Listing[c] : y.path = r.path /\ r.old.label = Label(y.node)
        BY <1>1, <1>4, Sums
    <2>4. Label(y.node) # x.new.label
        BY <1>1, <1>4, <2>3, Sums
    <2> QED
        BY <2>1, <2>2, <2>3, <2>4
<1>5. ASSUME x.new = None, r.new # None PROVE FALSE
    <2>1. x.old # None /\ x.old = r.old
        BY <1>1, <1>2, <1>5
    <2>2. r.old.label = r.new.label
        BY <1>5, <2>1 DEF SameKind, Two
    <2>3. PICK z \in Listing[d] : z.path = r.path /\ r.new.label = Label(z.node)
        BY <1>1, <1>5, Sums
    <2>4. Label(z.node) # x.old.label
        BY <1>1, <1>5, <2>3, Sums
    <2> QED
        BY <2>1, <2>2, <2>3, <2>4
<1>6. x.old = r.old /\ x.new = r.new
    BY <1>2, <1>3, <1>4, <1>5
<1>7. /\ x = [path |-> x.path, old |-> x.old, new |-> x.new]
      /\ r = [path |-> r.path, old |-> r.old, new |-> r.new]
    BY Differs
<1> QED
    BY <1>6, <1>7, Zenon

\* A change beyond a record is in a directory of its side.
LEMMA Beyond ==
    ASSUME NEW c \in Nodes, NEW d \in Nodes, NEW deep, NEW r, NEW x,
           Difference(c, d, deep, r), Difference(c, d, deep, x), Passes(r.path, x.path)
    PROVE  /\ deep
           /\ x.old # None => IF r.old = None THEN r.new.label # "Tree" ELSE r.old.label = "Tree"
           /\ x.new # None => IF r.new = None THEN r.old.label # "Tree" ELSE r.new.label = "Tree"
<1>1. /\ r.path \in Seq(Name) /\ r.path # <<>> /\ Len(r.path) \in Nat /\ Len(r.path) >= 1
      /\ Len(x.path) \in Nat
      /\ Side(c, r.path, r.old, r.new) /\ Side(d, r.path, r.new, r.old)
      /\ Side(c, x.path, x.old, x.new) /\ Side(d, x.path, x.new, x.old)
      /\ deep \/ Len(x.path) = 1
    BY Differs
<1>2. deep
    <2>1. Len(x.path) # 1
        <3>1. PICK i, j : i = Len(r.path) /\ j = Len(x.path)
            OBVIOUS
        <3>2. i \in Nat /\ i >= 1 /\ j \in Nat /\ i < j
            BY <1>1, <3>1 DEF Passes
        <3>3. j # 1
            BY <3>2
        <3> QED
            BY <3>1, <3>3, Zenon
    <2> QED
        BY <1>1, <2>1, Zenon
<1>3. PICK p : p = r.path
    OBVIOUS
<1>4. /\ p \in Seq(Name) /\ p # <<>> /\ Passes(p, x.path)
      /\ Side(c, p, r.old, r.new) /\ Side(d, p, r.new, r.old)
    BY <1>1, <1>3
<1>5. ASSUME x.old # None PROVE IF r.old = None THEN r.new.label # "Tree" ELSE r.old.label = "Tree"
    <2>1. PICK v \in Listing[c] : v.path = x.path
        BY <1>1, <1>5, Sums
    <2> QED
        BY <1>4, <2>1, SideDir
<1>6. ASSUME x.new # None PROVE IF r.new = None THEN r.old.label # "Tree" ELSE r.new.label = "Tree"
    <2>1. PICK v \in Listing[d] : v.path = x.path
        BY <1>1, <1>6, Sums
    <2> QED
        BY <1>4, <2>1, SideDir
<1> QED
    BY <1>2, <1>5, <1>6

\* A record of two kinds: what is gone, and what has come.
LEMMA RegionSplit ==
    ASSUME Telling, NEW c \in Nodes, NEW d \in Nodes, NEW deep \in BOOLEAN,
           NEW T, T = Changes(c, d, deep), NEW r, Difference(c, d, deep, r),
           Two(r), r.old.label # r.new.label, NEW a, NEW b,
           a = [path |-> r.path, old |-> None, new |-> r.new],
           b = [path |-> r.path, old |-> r.old, new |-> None]
    PROVE  /\ Difference(c, d, deep, a) /\ Difference(c, d, deep, b)
           /\ Region(T, Task("yield", r)) = Region(T, Task("yield", a)) \cup Region(T, Task("yield", b))
           /\ Region(T, Task("yield", a)) \cap Region(T, Task("yield", b)) = {}
<1>1. /\ r.path \in Seq(Name) /\ r.path # <<>> /\ (deep \/ Len(r.path) = 1)
      /\ Side(c, r.path, r.old, r.new) /\ Side(d, r.path, r.new, r.old)
      /\ r.old # None /\ r.new # None
    BY Differs DEF Two
<1>2. /\ a.path = r.path /\ a.old = None /\ a.new = r.new
      /\ a = [path |-> a.path, old |-> a.old, new |-> a.new]
      /\ b.path = r.path /\ b.old = r.old /\ b.new = None
      /\ b = [path |-> b.path, old |-> b.old, new |-> b.new]
    OBVIOUS
<1>3. Difference(c, d, deep, a)
    <2>1. PICK y \in Listing[c] : y.path = r.path /\ r.old.label = Label(y.node)
        BY <1>1, Sums
    <2>2. \A z \in Listing[c] : z.path = r.path => z = y
        BY <2>1, PathsOnce, Below
    <2>3. Side(c, r.path, None, r.new)
        BY <2>1, <2>2 DEF Side
    <2>4. PICK z \in Listing[d] : z.path = r.path /\ r.new = IdOf(z.node)
        BY <1>1, Sums
    <2>5. Side(d, r.path, r.new, None)
        BY <2>4 DEF Side
    <2> QED
        BY <1>1, <1>2, <2>3, <2>5 DEF Difference, Two
<1>4. Difference(c, d, deep, b)
    <2>1. PICK z \in Listing[d] : z.path = r.path /\ r.new.label = Label(z.node)
        BY <1>1, Sums
    <2>2. \A y \in Listing[d] : y.path = r.path => y = z
        BY <2>1, PathsOnce, Below
    <2>3. Side(d, r.path, None, r.old)
        BY <2>1, <2>2 DEF Side
    <2>4. PICK y \in Listing[c] : y.path = r.path /\ r.old = IdOf(y.node)
        BY <1>1, Sums
    <2>5. Side(c, r.path, r.old, None)
        BY <2>4 DEF Side
    <2> QED
        BY <1>1, <1>2, <2>3, <2>5 DEF Difference, Two
<1>5. ASSUME NEW x \in T
      PROVE  Difference(c, d, deep, x) /\ SameKind(x) /\ (x.old # None \/ x.new # None)
    BY ChangesAre, Differs
<1>6. ASSUME NEW x \in T, Starts(r.path, x.path), x.old # None, x.new # None PROVE FALSE
    <2>1. /\ x.path \in Seq(Name)
          /\ Side(c, x.path, x.old, x.new) /\ Side(d, x.path, x.new, x.old)
          /\ x.old.label = x.new.label
        BY <1>5, <1>6, Differs DEF SameKind, Two
    <2>2. CASE x.path = r.path
        <3>1. x.old = r.old /\ x.new = r.new
            BY <1>1, <1>6, <2>1, <2>2, SideOnce
        <3> QED
            BY <2>1, <3>1
    <2>3. CASE x.path # r.path
        <3>1. Passes(r.path, x.path)
            <4>1. PICK p, q : p = r.path /\ q = x.path
                OBVIOUS
            <4>2. p \in Seq(Name) /\ q \in Seq(Name) /\ Starts(p, q) /\ p # q
                BY <1>1, <1>6, <2>1, <2>3, <4>1
            <4>3. Len(p) # Len(q)
                BY <4>2, StartsOnce
            <4>4. Passes(p, q)
                BY <4>2, <4>3, LenProperties DEF Starts, Passes
            <4> QED
                BY <4>1, <4>4
        <3>2. r.old.label = "Tree" /\ r.new.label = "Tree"
            BY <1>1, <1>5, <1>6, <3>1, Beyond
        <3> QED
            BY <3>2
    <2> QED
        BY <2>2, <2>3
<1>7. /\ \A x : x \in Region(T, Task("yield", r)) <=> x \in T /\ Starts(r.path, x.path)
      /\ \A x : x \in Region(T, Task("yield", a)) <=> x \in T /\ Starts(r.path, x.path) /\ x.old = None
      /\ \A x : x \in Region(T, Task("yield", b)) <=> x \in T /\ Starts(r.path, x.path) /\ x.new = None
    BY <1>1, <1>2, TaskFields DEF Region, Sides
<1>8. Region(T, Task("yield", r)) = Region(T, Task("yield", a)) \cup Region(T, Task("yield", b))
    BY <1>6, <1>7
<1>9. Region(T, Task("yield", a)) \cap Region(T, Task("yield", b)) = {}
    BY <1>5, <1>7
<1> QED
    BY <1>3, <1>4, <1>8, <1>9

\* A record of one kind: a change, and what is beyond it if the diff goes there.
LEMMA RegionEmit ==
    ASSUME Telling, NEW c \in Nodes, NEW d \in Nodes, NEW deep \in BOOLEAN,
           NEW T, T = Changes(c, d, deep), NEW r, Difference(c, d, deep, r), SameKind(r)
    PROVE  /\ r \in T /\ r \in Region(T, Task("yield", r)) /\ r \notin Region(T, Task("enter", r))
           /\ deep /\ IsDir(r) =>
                  Region(T, Task("yield", r)) = {r} \cup Region(T, Task("enter", r))
           /\ ~(deep /\ IsDir(r)) => Region(T, Task("yield", r)) = {r}
<1>1. r.path \in Seq(Name) /\ r \in T
    BY Differs, ChangesAre
<1>2. ASSUME NEW x \in T
      PROVE  /\ Difference(c, d, deep, x) /\ SameKind(x)
             /\ (x.old # None \/ x.new # None) /\ x.path \in Seq(Name)
    BY ChangesAre, Differs
<1>3. /\ \A x : x \in Region(T, Task("yield", r)) <=> x \in T /\ Starts(r.path, x.path) /\ Sides(r, x)
      /\ \A x : x \in Region(T, Task("enter", r)) <=> x \in T /\ Passes(r.path, x.path) /\ Sides(r, x)
    BY TaskFields DEF Region
<1>4. Starts(r.path, r.path) /\ ~Passes(r.path, r.path) /\ Sides(r, r)
    <2>1. PICK p : p = r.path
        OBVIOUS
    <2>2. Starts(p, p) /\ ~Passes(p, p)
        BY <1>1, <2>1, StartsAll DEF Passes
    <2> QED
        BY <2>1, <2>2 DEF Sides
<1>5. ASSUME NEW x \in T, Starts(r.path, x.path), Sides(r, x)
      PROVE  x = r \/ Passes(r.path, x.path)
    <2>1. CASE x.path = r.path
        BY <1>2, <1>5, <2>1, ChangeOnce
    <2>2. CASE x.path # r.path
        <3>1. PICK p, q : p = r.path /\ q = x.path
            OBVIOUS
        <3>2. p \in Seq(Name) /\ q \in Seq(Name) /\ Starts(p, q) /\ p # q
            BY <1>1, <1>2, <1>5, <2>2, <3>1
        <3>3. Len(p) # Len(q)
            BY <3>2, StartsOnce
        <3>4. Passes(p, q)
            BY <3>2, <3>3, LenProperties DEF Starts, Passes
        <3> QED
            BY <3>1, <3>4
    <2> QED
        BY <2>1, <2>2
<1>6. ASSUME NEW x \in T, Passes(r.path, x.path), Sides(r, x) PROVE deep /\ IsDir(r)
    <2>1. /\ deep
          /\ x.old # None => r.old # None /\ r.old.label = "Tree"
          /\ x.new # None => r.new # None /\ r.new.label = "Tree"
        BY <1>2, <1>6, Beyond DEF Sides
    <2> QED
        BY <1>2, <2>1 DEF IsDir, SameKind, Two
<1>7. \A x : Passes(r.path, x.path) => Starts(r.path, x.path)
    BY DEF Passes
<1> QED
    BY <1>1, <1>3, <1>4, <1>5, <1>6, <1>7

\* The record of an entry is a difference.
LEMMA EntryDifference ==
    ASSUME NEW c \in Nodes, NEW d \in Nodes, NEW deep \in BOOLEAN,
           NEW y \in Reaches(c), NEW z \in Reaches(d), y.node \in Dirs, z.node \in Dirs,
           y.path = z.path, deep \/ y.path = <<>>, NEW k, NEW r, EntryRecord(y, z, k, r)
    PROVE  Difference(c, d, deep, r) /\ r.path = Append(y.path, k) /\ k \in Name
<1>1. PICK p, m, l : p = y.path /\ m = y.node /\ l = z.node
    OBVIOUS
<1>2. p \in Seq(Name) /\ m \in Dirs /\ l \in Dirs /\ z.path = p
    BY <1>1, ReachesTypes
<1>3. k \in Name
    <2>1. k \in DOMAIN m.kids \/ k \in DOMAIN l.kids
        BY <1>1 DEF EntryRecord, EntryGone, EntryDiffers
    <2> QED
        BY <1>2, <2>1, Kids
<1>4. PICK u : u = Append(p, k)
    OBVIOUS
<1>5. u \in Seq(Name) /\ u # <<>> /\ (deep \/ Len(u) = 1)
    <2>1. u \in Seq(Name) /\ u # <<>> /\ Len(u) = Len(p) + 1
        BY <1>2, <1>3, <1>4, Appends
    <2>2. p = <<>> => Len(u) = 1
        BY <2>1
    <2> QED
        BY <1>1, <2>1, <2>2
<1>6. k \in DOMAIN m.kids =>
          Entry(y, k) \in Listing[c] /\ Entry(y, k).path = u /\ Entry(y, k).node = m.kids[k]
    BY <1>1, <1>3, <1>4, EntryAt
<1>7. k \in DOMAIN l.kids =>
          Entry(z, k) \in Listing[d] /\ Entry(z, k).path = u /\ Entry(z, k).node = l.kids[k]
    BY <1>1, <1>2, <1>3, <1>4, EntryAt
<1>8. k \notin DOMAIN m.kids => \A x \in Listing[c] : x.path # u
    BY <1>1, <1>3, <1>4, EntryAt, Below
<1>9. k \notin DOMAIN l.kids => \A x \in Listing[d] : x.path # u
    BY <1>1, <1>2, <1>3, <1>4, EntryAt, Below
<1>10. CASE EntryGone(z, y, k) /\ r = Added(Entry(z, k))
    <2>1. k \in DOMAIN l.kids /\ k \notin DOMAIN m.kids
        BY <1>1, <1>10 DEF EntryGone
    <2>2. /\ r.path = u /\ r.old = None /\ r.new = IdOf(l.kids[k])
          /\ r = [path |-> r.path, old |-> r.old, new |-> r.new]
        BY <1>7, <1>10, <2>1 DEF Added
    <2>3. Side(c, u, r.old, r.new)
        BY <1>8, <2>1, <2>2 DEF Side
    <2>4. Side(d, u, r.new, r.old)
        BY <1>7, <2>1, <2>2 DEF Side
    <2>5. r.new # None
        BY <1>2, <2>1, <2>2, Kids, Ids
    <2> QED
        BY <1>1, <1>3, <1>4, <1>5, <2>2, <2>3, <2>4, <2>5 DEF Difference, Two
<1>11. CASE EntryGone(y, z, k) /\ r = Removed(Entry(y, k))
    <2>1. k \in DOMAIN m.kids /\ k \notin DOMAIN l.kids
        BY <1>1, <1>11 DEF EntryGone
    <2>2. /\ r.path = u /\ r.new = None /\ r.old = IdOf(m.kids[k])
          /\ r = [path |-> r.path, old |-> r.old, new |-> r.new]
        BY <1>6, <1>11, <2>1 DEF Removed
    <2>3. Side(c, u, r.old, r.new)
        BY <1>6, <2>1, <2>2 DEF Side
    <2>4. Side(d, u, r.new, r.old)
        BY <1>9, <2>1, <2>2 DEF Side
    <2>5. r.old # None
        BY <1>2, <2>1, <2>2, Kids, Ids
    <2> QED
        BY <1>1, <1>3, <1>4, <1>5, <2>2, <2>3, <2>4, <2>5 DEF Difference, Two
<1>12. CASE EntryDiffers(y, z, k) /\ r = Altered(Entry(y, k), Entry(z, k))
    <2>1. k \in DOMAIN m.kids /\ k \in DOMAIN l.kids /\ Hash[m.kids[k]] # Hash[l.kids[k]]
        BY <1>1, <1>12 DEF EntryDiffers
    <2>2. /\ r.path = u /\ r.old = IdOf(m.kids[k]) /\ r.new = IdOf(l.kids[k])
          /\ r = [path |-> r.path, old |-> r.old, new |-> r.new]
        BY <1>6, <1>7, <1>12, <2>1 DEF Altered
    <2>3. Side(c, u, r.old, r.new)
        BY <1>6, <2>1, <2>2 DEF Side
    <2>4. Side(d, u, r.new, r.old)
        BY <1>7, <2>1, <2>2 DEF Side
    <2>5. r.old # None /\ r.old.hash = Hash[m.kids[k]] /\ r.new.hash = Hash[l.kids[k]]
        BY <1>2, <2>1, <2>2, Kids, Ids
    <2> QED
        BY <1>1, <1>3, <1>4, <1>5, <2>1, <2>2, <2>3, <2>4, <2>5 DEF Difference
<1> QED
    BY <1>10, <1>11, <1>12 DEF EntryRecord

LEMMA EntryOnce ==
    ASSUME NEW y, NEW z, NEW k, NEW r, NEW q, EntryRecord(y, z, k, r), EntryRecord(y, z, k, q)
    PROVE  r = q
BY DEF EntryRecord, EntryGone, EntryDiffers

\* A change beyond a directory is that of an entry or beyond one: two entries of one
\* hash have the same contents, and no change in them.
LEMMA EntryCovers ==
    ASSUME Telling, NEW c \in Nodes, NEW d \in Nodes, NEW deep \in BOOLEAN,
           NEW y \in Reaches(c), NEW z \in Reaches(d), y.node \in Dirs, z.node \in Dirs,
           y.path = z.path, NEW x, Difference(c, d, deep, x), SameKind(x), Passes(y.path, x.path)
    PROVE  \E k, r : EntryRecord(y, z, k, r) /\ Starts(r.path, x.path) /\ Sides(r, x)
<1>1. PICK p, m, l, u : p = y.path /\ m = y.node /\ l = z.node /\ u = x.path
    OBVIOUS
<1>2. /\ p \in Seq(Name) /\ m \in Dirs /\ l \in Dirs /\ z.path = p /\ u \in Seq(Name) /\ Passes(p, u)
      /\ u # <<>> /\ (x.old # None \/ x.new # None)
      /\ Side(c, u, x.old, x.new) /\ Side(d, u, x.new, x.old)
      /\ Two(x) => x.old.hash # x.new.hash
    BY <1>1, ReachesTypes, Differs
<1>3. PICK k : k = u[Len(p) + 1]
    OBVIOUS
<1>4. ASSUME x.old # None
      PROVE  /\ k \in DOMAIN m.kids /\ k \in Name /\ Starts(Append(p, k), u)
             /\ \E v \in Listing[c] : v.path = u /\ x.old = IdOf(v.node) /\ v.node \in Nodes
    <2>1. PICK v \in Listing[c] : v.path = u /\ v.node \in Nodes /\ x.old = IdOf(v.node)
        BY <1>2, <1>4, Sums
    <2>2. v \in Reaches(c) /\ Passes(y.path, v.path)
        BY <1>1, <1>2, <2>1, Below
    <2>3. PICK j \in DOMAIN y.node.kids : /\ j \in Name /\ v.path[Len(y.path) + 1] = j
                                          /\ Starts(Append(y.path, j), v.path)
        BY <2>2, WayDown
    <2> QED
        BY <1>1, <1>3, <2>1, <2>3
<1>5. ASSUME x.new # None
      PROVE  /\ k \in DOMAIN l.kids /\ k \in Name /\ Starts(Append(p, k), u)
             /\ \E v \in Listing[d] : v.path = u /\ x.new = IdOf(v.node) /\ v.node \in Nodes
    <2>1. PICK v \in Listing[d] : v.path = u /\ v.node \in Nodes /\ x.new = IdOf(v.node)
        BY <1>2, <1>5, Sums
    <2>2. v \in Reaches(d) /\ Passes(z.path, v.path)
        BY <1>1, <1>2, <2>1, Below
    <2>3. PICK j \in DOMAIN z.node.kids : /\ j \in Name /\ v.path[Len(z.path) + 1] = j
                                          /\ Starts(Append(z.path, j), v.path)
        BY <2>2, WayDown
    <2> QED
        BY <1>1, <1>2, <1>3, <2>1, <2>3
<1>6. k \in Name /\ Starts(Append(p, k), u)
    BY <1>2, <1>4, <1>5
<1>7. /\ Entry(y, k).path = Append(p, k) /\ Entry(y, k).node = m.kids[k]
      /\ Entry(z, k).path = Append(p, k) /\ Entry(z, k).node = l.kids[k]
    BY <1>1, <1>2 DEF Entry, Spot
<1>8. CASE k \in DOMAIN l.kids /\ k \notin DOMAIN m.kids
    <2>1. PICK r : r = Added(Entry(z, k))
        OBVIOUS
    <2>2. r.path = Append(p, k) /\ r.old = None /\ r.new = IdOf(l.kids[k])
        BY <1>7, <2>1 DEF Added
    <2>3. r.new # None
        BY <1>2, <1>8, <2>2, Kids, Ids
    <2>4. Sides(r, x)
        BY <1>4, <1>8, <2>3 DEF Sides
    <2>5. EntryRecord(y, z, k, r)
        BY <1>1, <1>8, <2>1 DEF EntryRecord, EntryGone
    <2> QED
        BY <1>1, <1>6, <2>2, <2>4, <2>5
<1>9. CASE k \in DOMAIN m.kids /\ k \notin DOMAIN l.kids
    <2>1. PICK r : r = Removed(Entry(y, k))
        OBVIOUS
    <2>2. r.path = Append(p, k) /\ r.new = None /\ r.old = IdOf(m.kids[k])
        BY <1>7, <2>1 DEF Removed
    <2>3. r.old # None
        BY <1>2, <1>9, <2>2, Kids, Ids
    <2>4. Sides(r, x)
        BY <1>5, <1>9, <2>3 DEF Sides
    <2>5. EntryRecord(y, z, k, r)
        BY <1>1, <1>9, <2>1 DEF EntryRecord, EntryGone
    <2> QED
        BY <1>1, <1>6, <2>2, <2>4, <2>5
<1>10. CASE k \in DOMAIN m.kids /\ k \in DOMAIN l.kids /\ Hash[m.kids[k]] # Hash[l.kids[k]]
    <2>1. PICK r : r = Altered(Entry(y, k), Entry(z, k))
        OBVIOUS
    <2>2. r.path = Append(p, k) /\ r.old = IdOf(m.kids[k]) /\ r.new = IdOf(l.kids[k])
        BY <1>7, <2>1 DEF Altered
    <2>3. r.old # None /\ r.new # None
        BY <1>2, <1>10, <2>2, Kids, Ids
    <2>4. EntryRecord(y, z, k, r)
        BY <1>1, <1>10, <2>1 DEF EntryRecord, EntryDiffers
    <2> QED
        BY <1>1, <1>6, <2>2, <2>3, <2>4 DEF Sides
<1>11. CASE k \in DOMAIN m.kids /\ k \in DOMAIN l.kids /\ Hash[m.kids[k]] = Hash[l.kids[k]]
    <2>1. Seen[m.kids[k]] = Seen[l.kids[k]]
        <3>1. PICK a, b : a = m.kids[k] /\ b = l.kids[k]
            OBVIOUS
        <3>2. a \in Nodes /\ b \in Nodes /\ Hash[a] = Hash[b]
            BY <1>2, <1>11, <3>1, Kids
        <3>3. Seen[a] = Seen[b]
            BY <3>2, Tells
        <3> QED
            BY <3>1, <3>3
    <2>2. PICK a, b : a = Entry(y, k) /\ b = Entry(z, k)
        OBVIOUS
    <2>3. a \in Reaches(c) /\ b \in Reaches(d)
        BY <1>1, <1>6, <1>11, <2>2, EntryAt DEF Reaches
    <2>4. a.path = Append(p, k) /\ b.path = Append(p, k) /\ Seen[a.node] = Seen[b.node]
        BY <1>7, <2>1, <2>2
    <2>5. a.path = b.path /\ Starts(a.path, u) /\ Starts(b.path, u)
        BY <1>6, <2>4
    <2>6. CASE x.old # None
        <3>1. PICK v \in Listing[c] : v.path = u /\ x.old = IdOf(v.node) /\ v.node \in Nodes
            BY <1>4, <2>6
        <3>2. v \in Reaches(c) /\ Starts(a.path, v.path)
            BY <2>5, <3>1, Below
        <3>3. PICK w \in Reaches(d) : w.path = u /\ Seen[w.node] = Seen[v.node]
            <4>1. \E w \in Reaches(d) : w.path = v.path /\ Seen[w.node] = Seen[v.node]
                BY <2>3, <2>4, <2>5, <3>2, SeenBelow
            <4> QED
                BY <3>1, <4>1
        <3>4. w \in Listing[d] /\ w.node \in Nodes
            BY <1>2, <3>3, BelowOrHere, Below
        <3>5. Label(w.node) = Label(v.node) /\ Hash[w.node] = Hash[v.node]
            BY <3>1, <3>3, <3>4, SeenLabel, Tells
        <3>6. x.old.label = Label(v.node) /\ x.old.hash = Hash[v.node]
            BY <3>1, Ids
        <3>7. x.new # None
            BY <1>2, <3>3, <3>4, <3>5, <3>6, Sums
        <3>8. PICK s \in Listing[d] : s.path = u /\ x.new.hash = Hash[s.node]
            BY <1>2, <3>7, Sums
        <3>9. s = w
            BY <3>3, <3>4, <3>8, Below, PathsOnce
        <3> QED
            BY <1>2, <2>6, <3>5, <3>6, <3>7, <3>8, <3>9 DEF Two
    <2>7. CASE x.old = None
        <3>1. PICK v \in Listing[d] : v.path = u /\ x.new = IdOf(v.node) /\ v.node \in Nodes
            BY <1>2, <1>5, <2>7
        <3>2. v \in Reaches(d) /\ Starts(b.path, v.path)
            BY <2>5, <3>1, Below
        <3>3. PICK w \in Reaches(c) : w.path = u /\ Seen[w.node] = Seen[v.node]
            <4>1. \E w \in Reaches(c) : w.path = v.path /\ Seen[w.node] = Seen[v.node]
                BY <2>3, <2>4, <2>5, <3>2, SeenBelow
            <4> QED
                BY <3>1, <4>1
        <3>4. w \in Listing[c] /\ w.node \in Nodes
            BY <1>2, <3>3, BelowOrHere, Below
        <3>5. Label(w.node) = Label(v.node)
            BY <3>1, <3>3, <3>4, SeenLabel
        <3>6. x.new.label = Label(v.node)
            BY <3>1, Ids
        <3> QED
            BY <1>2, <2>7, <3>3, <3>4, <3>5, <3>6, Sums
    <2> QED
        BY <2>6, <2>7
<1>12. k \in DOMAIN m.kids \/ k \in DOMAIN l.kids
    BY <1>2, <1>4, <1>5
<1> QED
    BY <1>8, <1>9, <1>10, <1>11, <1>12

\* Two directories that are compared
Compared(c, d, deep, y, z) ==
    /\ y \in Reaches(c) /\ z \in Reaches(d) /\ y.node \in Dirs /\ z.node \in Dirs
    /\ y.path = z.path /\ (deep \/ y.path = <<>>)

\* Their records share out the changes beyond them.
LEMMA RegionCompare ==
    ASSUME Telling, NEW c \in Nodes, NEW d \in Nodes, NEW deep \in BOOLEAN, Kept(c), Kept(d),
           NEW T, T = Changes(c, d, deep), NEW y, NEW z, Compared(c, d, deep, y, z),
           NEW Q, Q = Records(Hash[y.node], Hash[z.node], y.path)
    PROVE  /\ \A q \in Q : Difference(c, d, deep, q)
           /\ \A q, s \in Q : q # s => Region(T, Task("yield", q)) \cap Region(T, Task("yield", s)) = {}
           /\ \A x : x \in T /\ Passes(y.path, x.path) <=> \E q \in Q : x \in Region(T, Task("yield", q))
<1>1. PICK p : p = y.path
    OBVIOUS
<1>2. p \in Seq(Name) /\ p = z.path
    BY <1>1, ReachesTypes DEF Compared
<1>3. \A q : q \in Q <=> \E k : EntryRecord(y, z, k, q)
    BY RecordsAre DEF Compared
<1>4. ASSUME NEW k, NEW q, EntryRecord(y, z, k, q)
      PROVE  Difference(c, d, deep, q) /\ q.path = Append(p, k) /\ k \in Name
    BY <1>1, <1>4, EntryDifference DEF Compared
<1>5. ASSUME NEW x \in T
      PROVE  Difference(c, d, deep, x) /\ SameKind(x) /\ x.path \in Seq(Name)
    BY ChangesAre, Differs
<1>6. \A q, x : x \in Region(T, Task("yield", q)) <=> x \in T /\ Sides(q, x) /\ Starts(q.path, x.path)
    BY TaskFields DEF Region
<1>7. ASSUME NEW k, NEW q, EntryRecord(y, z, k, q), NEW x \in T, Starts(q.path, x.path)
      PROVE  Passes(p, x.path) /\ x.path[Len(p) + 1] = k
    <2>1. PICK u : u = x.path
        OBVIOUS
    <2>2. u \in Seq(Name) /\ k \in Name /\ Starts(Append(p, k), u)
        BY <1>4, <1>5, <1>7, <2>1
    <2>3. Passes(p, u) /\ u[Len(p) + 1] = k
        BY <1>2, <2>2, StartsDown
    <2> QED
        BY <2>1, <2>3
<1>8. ASSUME NEW q \in Q, NEW s \in Q, q # s,
             NEW x \in Region(T, Task("yield", q)), x \in Region(T, Task("yield", s))
      PROVE  FALSE
    <2>1. PICK k : EntryRecord(y, z, k, q)
        BY <1>3
    <2>2. PICK l : EntryRecord(y, z, l, s)
        BY <1>3
    <2>3. x \in T /\ Starts(q.path, x.path) /\ Starts(s.path, x.path)
        BY <1>6, <1>8
    <2>4. k = l
        BY <1>7, <2>1, <2>2, <2>3
    <2> QED
        BY <1>8, <2>1, <2>2, <2>4, EntryOnce
<1>9. ASSUME NEW x \in T, Passes(y.path, x.path) PROVE \E q \in Q : x \in Region(T, Task("yield", q))
    <2>1. Difference(c, d, deep, x) /\ SameKind(x)
        BY <1>5
    <2>2. \E k, r : EntryRecord(y, z, k, r) /\ Starts(r.path, x.path) /\ Sides(r, x)
        BY <1>9, <2>1, EntryCovers DEF Compared
    <2> QED
        BY <1>3, <1>6, <2>2
<1>10. ASSUME NEW x, NEW q \in Q, x \in Region(T, Task("yield", q)) PROVE x \in T /\ Passes(y.path, x.path)
    <2>1. PICK k : EntryRecord(y, z, k, q)
        BY <1>3
    <2>2. x \in T /\ Starts(q.path, x.path)
        BY <1>6, <1>10
    <2> QED
        BY <1>1, <1>7, <2>1, <2>2
<1> QED
    BY <1>3, <1>4, <1>8, <1>9, <1>10

\* To enter a record of two directories is to compare them.
LEMMA RegionTwo ==
    ASSUME Telling, NEW c \in Nodes, NEW d \in Nodes, NEW deep \in BOOLEAN,
           NEW T, T = Changes(c, d, deep), NEW r, IsTask(c, d, deep, Task("enter", r)), Two(r)
    PROVE  /\ \E y, z : /\ Compared(c, d, deep, y, z)
                        /\ r.path = y.path /\ r.old.hash = Hash[y.node] /\ r.new.hash = Hash[z.node]
           /\ \A x : x \in Region(T, Task("enter", r)) <=> x \in T /\ Passes(r.path, x.path)
<1>1. Difference(c, d, deep, r) /\ deep /\ IsDir(r) /\ SameKind(r)
    BY TaskFields DEF IsTask
<1>2. r.old # None /\ r.new # None /\ r.old.label = "Tree" /\ r.new.label = "Tree"
    BY <1>1 DEF Two, IsDir, SameKind
<1>3. Side(c, r.path, r.old, r.new) /\ Side(d, r.path, r.new, r.old)
    BY <1>1, Differs
<1>4. PICK y \in Listing[c] : /\ y.path = r.path /\ y.node \in Nodes /\ r.old.label = Label(y.node)
                              /\ r.old.hash = Hash[y.node]
    BY <1>2, <1>3, Sums
<1>5. PICK z \in Listing[d] : /\ z.path = r.path /\ z.node \in Nodes /\ r.new.label = Label(z.node)
                              /\ r.new.hash = Hash[z.node]
    BY <1>2, <1>3, Sums
<1>6. y.node \in Dirs /\ z.node \in Dirs
    BY <1>2, <1>4, <1>5, Labels
<1>7. Compared(c, d, deep, y, z)
    BY <1>1, <1>4, <1>5, <1>6, Below DEF Compared
<1>8. \A x : x \in Region(T, Task("enter", r)) <=> x \in T /\ Passes(r.path, x.path)
    BY <1>2, TaskFields DEF Region, Sides
<1> QED
    BY <1>4, <1>5, <1>7, <1>8

LEMMA WithinAll ==
    ASSUME NEW n \in Nodes, NEW m \in Within[n]
    PROVE  Within[m] \subseteq Within[n]
<1> DEFINE S == {i \in Nodes : \E j \in Within[i] : ~(Within[j] \subseteq Within[i])}
<1>1. ASSUME S # {} PROVE FALSE
    <2>1. PICK i \in S : \A j \in Nodes : Depth[j] < Depth[i] => j \notin S
        BY <1>1, Lowest
    <2>2. PICK j \in Within[i] : ~(Within[j] \subseteq Within[i])
        BY <2>1
    <2>3. j # i
        BY <2>2
    <2>4. i \in Nodes /\ i.kind = "dir" /\ i \in Dirs
        BY <2>2, <2>3, WithinIs DEF Dirs
    <2>5. PICK k \in DOMAIN i.kids : j \in Within[i.kids[k]]
        BY <2>2, <2>3, <2>4, WithinIs
    <2>6. PICK a : a = i.kids[k]
        OBVIOUS
    <2>7. a \in Nodes /\ Depth[a] < Depth[i]
        BY <2>4, <2>6, Kids
    <2>8. Within[j] \subseteq Within[a]
        BY <2>1, <2>5, <2>6, <2>7
    <2>9. Within[a] \subseteq Within[i]
        BY <2>4, <2>6, WithinIs
    <2> QED
        BY <2>2, <2>8, <2>9
<1> QED
    BY <1>1

LEMMA KeptDown ==
    ASSUME NEW n \in Nodes, Kept(n), NEW y \in Reaches(n)
    PROVE  Kept(y.node)
<1>1. y.node \in Within[n] /\ Within[y.node] \subseteq Within[n]
    BY ReachesWithin, WithinAll
<1> QED
    BY <1>1 DEF Kept

\* What is further than a directory is what is below it.
LEMMA Inside ==
    ASSUME NEW n \in Nodes, NEW y \in Reaches(n), y.node \in Dirs, NEW v
    PROVE  v \in Listing[n] /\ Passes(y.path, v.path) <=> \E u \in Listing[y.node] : v = Inner(y, u)
<1>1. PICK p, e : p = y.path /\ e = y.node
    OBVIOUS
<1>2. p \in Seq(Name) /\ e \in Nodes /\ Len(p) \in Nat
    BY <1>1, ReachesTypes
<1>3. ASSUME v \in Listing[n], Passes(p, v.path) PROVE \E u \in Listing[e] : v = Inner(y, u)
    <2>1. v \in Reaches(n) /\ Starts(y.path, v.path)
        BY <1>1, <1>3, Below DEF Passes
    <2>2. PICK u \in Reaches(e) : v = Inner(y, u)
        BY <1>1, <2>1, Joined
    <2>3. u.path # <<>>
        <3>1. ASSUME u.path = <<>> PROVE FALSE
            <4>1. v.path = p
                BY <1>1, <1>2, <2>2, <3>1, Joining DEF Inner, Spot
            <4>2. ~Passes(p, p)
                BY <1>2 DEF Passes
            <4> QED
                BY <1>3, <4>1, <4>2
        <3> QED
            BY <3>1
    <2> QED
        BY <1>2, <2>2, <2>3, BelowOrHere
<1>4. ASSUME NEW u \in Listing[e], v = Inner(y, u) PROVE v \in Listing[n] /\ Passes(p, v.path)
    <2>1. u \in Reaches(y.node)
        BY <1>1, <1>2, Below
    <2>2. v \in Reaches(n) /\ Starts(y.path, v.path)
        BY <1>4, <2>1, Joined
    <2>3. PICK q, r : q = u.path /\ r = v.path
        OBVIOUS
    <2>4. q \in Seq(Name) /\ Len(q) \in Nat /\ Len(q) >= 1
        BY <1>2, <2>3, Below
    <2>5. r = p \o q
        BY <1>1, <1>4, <2>3 DEF Inner, Spot
    <2>6. Len(r) = Len(p) + Len(q)
        BY <1>2, <2>4, <2>5, Joining
    <2>7. Len(p) < Len(r) /\ Len(r) # 0
        BY <1>2, <2>4, <2>6
    <2>8. r # <<>>
        BY <2>7
    <2> QED
        BY <1>1, <2>2, <2>3, <2>7, <2>8, BelowOrHere DEF Passes
<1> QED
    BY <1>1, <1>3, <1>4

LEMMA InsideTree ==
    ASSUME NEW n \in Nodes, Kept(n), NEW y \in Reaches(n), y.node \in Dirs, NEW x
    PROVE  x \in Subtree(Hash[y.node]) <=> \E u \in Listing[y.node] : x = Found(u)
<1>1. Kept(y.node) /\ y.node \in Nodes
    BY KeptDown, ReachesTypes
<1> QED
    BY <1>1, SubtreeHas

Came(p, u)  == [path |-> p \o u.path, old |-> None, new |-> IdOf(u.node)]
Went(p, u)  == [path |-> p \o u.path, old |-> IdOf(u.node), new |-> None]

\* Of a directory that has come, all that is in it has come, and nothing else changes there.
LEMMA RegionCame ==
    ASSUME Telling, NEW c \in Nodes, NEW d \in Nodes, NEW deep \in BOOLEAN,
           NEW T, T = Changes(c, d, deep), NEW r, IsTask(c, d, deep, Task("enter", r)), r.old = None
    PROVE  \E y \in Reaches(d) :
               /\ y.node \in Dirs /\ y.path = r.path /\ r.new.hash = Hash[y.node]
               /\ \A x : x \in Region(T, Task("enter", r)) <=>
                         \E u \in Listing[y.node] : x = Came(r.path, u)
<1>1. Difference(c, d, deep, r) /\ deep /\ IsDir(r)
    BY TaskFields DEF IsTask
<1>2. /\ r.path \in Seq(Name) /\ r.path # <<>> /\ r.new # None /\ r.new.label = "Tree"
      /\ Side(c, r.path, r.old, r.new) /\ Side(d, r.path, r.new, r.old)
    BY <1>1, Differs DEF IsDir
<1>3. PICK y \in Listing[d] : /\ y.path = r.path /\ y.node \in Nodes /\ r.new.label = Label(y.node)
                              /\ r.new.hash = Hash[y.node]
    BY <1>2, Sums
<1>4. y \in Reaches(d) /\ y.node \in Dirs
    BY <1>2, <1>3, Labels, Below
<1>5. \A x : x \in Region(T, Task("enter", r)) <=> x \in T /\ Passes(r.path, x.path) /\ Sides(r, x)
    BY TaskFields DEF Region
<1>6. PICK p : p = r.path
    OBVIOUS
<1>7. \A v \in Listing[c] : ~Passes(p, v.path)
    <2>1. p \in Seq(Name) /\ p # <<>> /\ Side(c, p, r.old, r.new)
        BY <1>2, <1>6
    <2> QED
        BY <1>2, <2>1, SideDir
<1>8. ASSUME NEW x \in Region(T, Task("enter", r)) PROVE \E u \in Listing[y.node] : x = Came(r.path, u)
    <2>1. x \in T /\ Passes(p, x.path) /\ x.old = None
        BY <1>5, <1>6 DEF Sides
    <2>2. /\ x = [path |-> x.path, old |-> x.old, new |-> x.new] /\ x.new # None
          /\ Side(d, x.path, x.new, x.old)
        BY <2>1, ChangesAre, Differs
    <2>3. PICK v \in Listing[d] : v.path = x.path /\ x.new = IdOf(v.node)
        BY <2>2, Sums
    <2>4. PICK u \in Listing[y.node] : v = Inner(y, u)
        BY <1>3, <1>4, <1>6, <2>1, <2>3, Inside
    <2>5. v.path = r.path \o u.path /\ v.node = u.node
        BY <1>3, <2>4 DEF Inner, Spot
    <2> QED
        BY <2>1, <2>2, <2>3, <2>5 DEF Came
<1>9. ASSUME NEW u \in Listing[y.node], NEW x, x = Came(r.path, u) PROVE x \in Region(T, Task("enter", r))
    <2>1. PICK v : v = Inner(y, u)
        OBVIOUS
    <2>2. v \in Listing[d] /\ Passes(y.path, v.path)
        BY <1>4, <2>1, Inside
    <2>3. v.path = r.path \o u.path /\ v.node = u.node
        BY <1>3, <2>1 DEF Inner, Spot
    <2>4. x.path = v.path /\ x.old = None /\ x.new = IdOf(v.node) /\ x = Added(v)
        BY <1>9, <2>3 DEF Came, Added
    <2>5. \A w \in Listing[c] : w.path # v.path
        BY <1>3, <1>6, <1>7, <2>2
    <2>6. \E z \in Listing[d] :
              /\ deep \/ Len(z.path) = 1
              /\ x = Added(z)
              /\ \A w \in Listing[c] : w.path = z.path => Label(w.node) # Label(z.node)
        BY <1>1, <2>2, <2>4, <2>5, Zenon
    <2>7. x \in T
        BY <2>6, ChangesSay
    <2> QED
        BY <1>2, <1>3, <1>5, <2>2, <2>4, <2>7 DEF Sides
<1> QED
    BY <1>3, <1>4, <1>8, <1>9

\* The same of one that has gone
LEMMA RegionWent ==
    ASSUME Telling, NEW c \in Nodes, NEW d \in Nodes, NEW deep \in BOOLEAN,
           NEW T, T = Changes(c, d, deep), NEW r, IsTask(c, d, deep, Task("enter", r)), r.new = None
    PROVE  \E y \in Reaches(c) :
               /\ y.node \in Dirs /\ y.path = r.path /\ r.old.hash = Hash[y.node]
               /\ \A x : x \in Region(T, Task("enter", r)) <=>
                         \E u \in Listing[y.node] : x = Went(r.path, u)
<1>1. Difference(c, d, deep, r) /\ deep /\ IsDir(r)
    BY TaskFields DEF IsTask
<1>2. /\ r.path \in Seq(Name) /\ r.path # <<>> /\ r.old # None /\ r.old.label = "Tree"
      /\ Side(c, r.path, r.old, r.new) /\ Side(d, r.path, r.new, r.old)
    BY <1>1, Differs DEF IsDir
<1>3. PICK y \in Listing[c] : /\ y.path = r.path /\ y.node \in Nodes /\ r.old.label = Label(y.node)
                              /\ r.old.hash = Hash[y.node]
    BY <1>2, Sums
<1>4. y \in Reaches(c) /\ y.node \in Dirs
    BY <1>2, <1>3, Labels, Below
<1>5. \A x : x \in Region(T, Task("enter", r)) <=> x \in T /\ Passes(r.path, x.path) /\ Sides(r, x)
    BY TaskFields DEF Region
<1>6. PICK p : p = r.path
    OBVIOUS
<1>7. \A v \in Listing[d] : ~Passes(p, v.path)
    <2>1. p \in Seq(Name) /\ p # <<>> /\ Side(d, p, r.new, r.old)
        BY <1>2, <1>6
    <2> QED
        BY <1>2, <2>1, SideDir
<1>8. ASSUME NEW x \in Region(T, Task("enter", r)) PROVE \E u \in Listing[y.node] : x = Went(r.path, u)
    <2>1. x \in T /\ Passes(p, x.path) /\ x.new = None
        BY <1>5, <1>6 DEF Sides
    <2>2. /\ x = [path |-> x.path, old |-> x.old, new |-> x.new] /\ x.old # None
          /\ Side(c, x.path, x.old, x.new)
        BY <2>1, ChangesAre, Differs
    <2>3. PICK v \in Listing[c] : v.path = x.path /\ x.old = IdOf(v.node)
        BY <2>2, Sums
    <2>4. PICK u \in Listing[y.node] : v = Inner(y, u)
        BY <1>3, <1>4, <1>6, <2>1, <2>3, Inside
    <2>5. v.path = r.path \o u.path /\ v.node = u.node
        BY <1>3, <2>4 DEF Inner, Spot
    <2> QED
        BY <2>1, <2>2, <2>3, <2>5 DEF Went
<1>9. ASSUME NEW u \in Listing[y.node], NEW x, x = Went(r.path, u) PROVE x \in Region(T, Task("enter", r))
    <2>1. PICK v : v = Inner(y, u)
        OBVIOUS
    <2>2. v \in Listing[c] /\ Passes(y.path, v.path)
        BY <1>4, <2>1, Inside
    <2>3. v.path = r.path \o u.path /\ v.node = u.node
        BY <1>3, <2>1 DEF Inner, Spot
    <2>4. x.path = v.path /\ x.new = None /\ x.old = IdOf(v.node) /\ x = Removed(v)
        BY <1>9, <2>3 DEF Went, Removed
    <2>5. \A w \in Listing[d] : w.path # v.path
        BY <1>3, <1>6, <1>7, <2>2
    <2>6. \E z \in Listing[c] :
              /\ deep \/ Len(z.path) = 1
              /\ x = Removed(z)
              /\ \A w \in Listing[d] : w.path = z.path => Label(w.node) # Label(z.node)
        BY <1>1, <2>2, <2>4, <2>5, Zenon
    <2>7. x \in T
        BY <2>6, ChangesSay
    <2> QED
        BY <1>2, <1>3, <1>5, <2>2, <2>4, <2>7 DEF Sides
<1> QED
    BY <1>3, <1>4, <1>8, <1>9

\* What entering a new or deleted directory yields
Whole(r, x) ==
    IF r.old = None THEN [path |-> r.path \o x.path, old |-> None, new |-> x.id]
    ELSE [path |-> r.path \o x.path, old |-> x.id, new |-> None]

LEMMA RegionOne ==
    ASSUME Telling, NEW c \in Nodes, NEW d \in Nodes, NEW deep \in BOOLEAN, Kept(c), Kept(d),
           NEW T, T = Changes(c, d, deep), NEW r, IsTask(c, d, deep, Task("enter", r)), ~Two(r),
           NEW top, top = IF r.old = None THEN r.new.hash ELSE r.old.hash, NEW x
    PROVE  x \in Region(T, Task("enter", r)) <=> \E s \in Subtree(top) : x = Whole(r, s)
<1>1. CASE r.old = None
    <2>1. PICK y \in Reaches(d) :
               /\ y.node \in Dirs /\ y.path = r.path /\ r.new.hash = Hash[y.node]
               /\ \A v : v \in Region(T, Task("enter", r)) <=>
                         \E u \in Listing[y.node] : v = Came(r.path, u)
        BY <1>1, RegionCame
    <2>2. top = Hash[y.node]
        BY <1>1, <2>1
    <2>3. \A s : s \in Subtree(top) <=> \E u \in Listing[y.node] : s = Found(u)
        BY <2>1, <2>2, InsideTree
    <2>4. \A u : Whole(r, Found(u)) = Came(r.path, u)
        BY <1>1 DEF Whole, Found, Came
    <2>5. ASSUME NEW s \in Subtree(top), x = Whole(r, s) PROVE x \in Region(T, Task("enter", r))
        <3>1. PICK u \in Listing[y.node] : s = Found(u)
            BY <2>3
        <3>2. x = Came(r.path, u)
            BY <2>4, <2>5, <3>1
        <3> QED
            BY <2>1, <3>2
    <2>6. ASSUME x \in Region(T, Task("enter", r)) PROVE \E s \in Subtree(top) : x = Whole(r, s)
        <3>1. PICK u \in Listing[y.node] : x = Came(r.path, u)
            BY <2>1, <2>6
        <3>2. Found(u) \in Subtree(top) /\ x = Whole(r, Found(u))
            BY <2>3, <2>4, <3>1
        <3> QED
            BY <3>2
    <2> QED
        BY <2>5, <2>6
<1>2. CASE r.old # None
    <2>1. r.new = None
        BY <1>2 DEF Two
    <2>2. PICK y \in Reaches(c) :
               /\ y.node \in Dirs /\ y.path = r.path /\ r.old.hash = Hash[y.node]
               /\ \A v : v \in Region(T, Task("enter", r)) <=>
                         \E u \in Listing[y.node] : v = Went(r.path, u)
        BY ONLY Telling, c \in Nodes, d \in Nodes, deep \in BOOLEAN, T = Changes(c, d, deep),
           IsTask(c, d, deep, Task("enter", r)), <2>1, RegionWent
    <2>3. top = Hash[y.node]
        BY <1>2, <2>2
    <2>4. \A s : s \in Subtree(top) <=> \E u \in Listing[y.node] : s = Found(u)
        BY <2>2, <2>3, InsideTree
    <2>5. \A u : Whole(r, Found(u)) = Went(r.path, u)
        BY <1>2 DEF Whole, Found, Went
    <2>6. ASSUME NEW s \in Subtree(top), x = Whole(r, s) PROVE x \in Region(T, Task("enter", r))
        <3>1. PICK u \in Listing[y.node] : s = Found(u)
            BY <2>4
        <3>2. x = Went(r.path, u)
            BY <2>5, <2>6, <3>1
        <3> QED
            BY <2>2, <3>2
    <2>7. ASSUME x \in Region(T, Task("enter", r)) PROVE \E s \in Subtree(top) : x = Whole(r, s)
        <3>1. PICK u \in Listing[y.node] : x = Went(r.path, u)
            BY <2>2, <2>7
        <3>2. Found(u) \in Subtree(top) /\ x = Whole(r, Found(u))
            BY <2>4, <2>5, <3>1
        <3> QED
            BY <3>2
    <2> QED
        BY <2>6, <2>7
<1> QED
    BY <1>1, <1>2

-----------------------------------------------------------------------------
(* The queries of a diff, as a stack of tasks *)

Stack(s) == \E J : s \in Seq(SUBSET J)

\* The changes a task stands for, of those that a diff is to yield
Stands(c, d, deep, w) == Region(Changes(c, d, deep), w)

\* The tasks of a stack stand for the changes A, each change for one task.
Tiles(c, d, deep, s, A) ==
    /\ Stack(s)
    /\ \A i \in 1..Len(s) : \A w \in s[i] : IsTask(c, d, deep, w)
    /\ \A x : x \in A <=> \E i \in 1..Len(s) : \E w \in s[i] : x \in Stands(c, d, deep, w)
    /\ \A i, j \in 1..Len(s) : \A v \in s[i], w \in s[j] :
           (\E x : x \in Stands(c, d, deep, v) /\ x \in Stands(c, d, deep, w)) => i = j /\ v = w

LEMMA StackLast ==
    ASSUME NEW s, Stack(s), NEW f
    PROVE  /\ Stack(Append(s, f)) /\ Len(s) \in Nat /\ Len(Append(s, f)) = Len(s) + 1
           /\ Append(s, f)[Len(s) + 1] = f /\ \A i \in 1..Len(s) : Append(s, f)[i] = s[i]
<1>1. PICK J : s \in Seq(SUBSET J)
    BY DEF Stack
<1>2. PICK K : K = J \cup f
    OBVIOUS
<1>3. s \in Seq(SUBSET K) /\ f \in SUBSET K
    <2>1. SUBSET J \subseteq SUBSET K
        BY <1>2
    <2>2. Len(s) \in Nat /\ s \in [1..Len(s) -> SUBSET J]
        BY <1>1
    <2>3. s \in [1..Len(s) -> SUBSET K]
        BY <2>1, <2>2
    <2> QED
        BY <1>2, <2>2, <2>3
<1>4. PICK S : S = SUBSET K
    OBVIOUS
<1>5. s \in Seq(S) /\ f \in S
    BY <1>3, <1>4
<1>6. /\ Append(s, f) \in Seq(S) /\ Len(s) \in Nat /\ Len(Append(s, f)) = Len(s) + 1
      /\ Append(s, f)[Len(s) + 1] = f /\ \A i \in 1..Len(s) : Append(s, f)[i] = s[i]
    BY <1>5
<1>7. Stack(Append(s, f))
    BY <1>4, <1>6, Zenon DEF Stack
<1> QED
    BY <1>6, <1>7

LEMMA StackFront ==
    ASSUME NEW s, Stack(s), s # <<>>, NEW n, n = Len(s)
    PROVE  /\ n \in Nat /\ n >= 1 /\ Stack(Front(s)) /\ Len(Front(s)) = n - 1
           /\ \A i \in 1..(n - 1) : Front(s)[i] = s[i]
<1>1. PICK J : s \in Seq(SUBSET J)
    BY DEF Stack
<1>2. n \in Nat /\ n >= 1
    BY <1>1
<1>3. Front(s) = SubSeq(s, 1, n - 1)
    BY DEF Front
<1>4. /\ SubSeq(s, 1, n - 1) \in Seq(SUBSET J) /\ Len(SubSeq(s, 1, n - 1)) = n - 1
      /\ \A i \in 1..(n - 1) : SubSeq(s, 1, n - 1)[i] = s[i]
    BY <1>1, <1>2
<1> QED
    BY <1>2, <1>3, <1>4 DEF Stack

LEMMA TilesNone ==
    ASSUME NEW c, NEW d, NEW deep
    PROVE  Tiles(c, d, deep, <<>>, {}) /\ \A A : Tiles(c, d, deep, <<>>, A) => A = {}
<1>1. Len(<<>>) = 0 /\ 1..0 = {} /\ Stack(<<>>)
    BY DEF Stack
<1> QED
    BY <1>1 DEF Tiles

\* A query is put on top.
LEMMA TilesPush ==
    ASSUME NEW c, NEW d, NEW deep, NEW s, NEW A, Tiles(c, d, deep, s, A),
           NEW f, \A w \in f : IsTask(c, d, deep, w),
           \A w \in f : \A x \in Stands(c, d, deep, w) : x \notin A,
           \A v, w \in f : (\E x : x \in Stands(c, d, deep, v) /\ x \in Stands(c, d, deep, w)) => v = w,
           NEW B, \A x : x \in B <=> x \in A \/ \E w \in f : x \in Stands(c, d, deep, w)
    PROVE  Tiles(c, d, deep, Push(s, f), B)
<1>1. CASE f = {}
    <2>1. B = A
        BY <1>1
    <2> QED
        BY <1>1, <2>1 DEF Push
<1>2. CASE f # {}
    <2>1. PICK t, n : t = Append(s, f) /\ n = Len(s)
        OBVIOUS
    <2>2. Push(s, f) = t
        BY <1>2, <2>1 DEF Push
    <2>3. /\ Stack(s)
          /\ \A i \in 1..n : \A w \in s[i] : IsTask(c, d, deep, w)
          /\ \A x : x \in A <=> \E i \in 1..n : \E w \in s[i] : x \in Stands(c, d, deep, w)
          /\ \A i, j \in 1..n : \A v \in s[i], w \in s[j] :
                 (\E x : x \in Stands(c, d, deep, v) /\ x \in Stands(c, d, deep, w)) => i = j /\ v = w
        BY <2>1 DEF Tiles
    <2>4. Stack(t) /\ n \in Nat /\ Len(t) = n + 1 /\ t[n + 1] = f /\ \A i \in 1..n : t[i] = s[i]
        BY <2>1, <2>3, StackLast
    <2>5. \A i : i \in 1..(n + 1) <=> i \in 1..n \/ i = n + 1
        BY <2>4
    <2>6. n + 1 \notin 1..n
        BY <2>4
    <2>7. \A i \in 1..(n + 1) : \A w \in t[i] : IsTask(c, d, deep, w)
        BY <2>3, <2>4, <2>5
    <2>8. \A x : x \in B <=> \E i \in 1..(n + 1) : \E w \in t[i] : x \in Stands(c, d, deep, w)
        BY <2>3, <2>4, <2>5
    <2>9. ASSUME NEW i \in 1..(n + 1), NEW j \in 1..(n + 1), NEW v \in t[i], NEW w \in t[j],
                 NEW x, x \in Stands(c, d, deep, v), x \in Stands(c, d, deep, w)
          PROVE  i = j /\ v = w
        <3>1. CASE i \in 1..n /\ j \in 1..n
            BY <2>3, <2>4, <2>9, <3>1
        <3>2. CASE i \in 1..n /\ j = n + 1
            <4>1. x \in A /\ w \in f
                BY <2>3, <2>4, <2>9, <3>2
            <4> QED
                BY <2>9, <4>1
        <3>3. CASE i = n + 1 /\ j \in 1..n
            <4>1. x \in A /\ v \in f
                BY <2>3, <2>4, <2>9, <3>3
            <4> QED
                BY <2>9, <4>1
        <3>4. CASE i = n + 1 /\ j = n + 1
            BY <2>4, <2>9, <3>4
        <3> QED
            BY <2>5, <3>1, <3>2, <3>3, <3>4
    <2>10. Tiles(c, d, deep, t, B)
        BY <2>4, <2>7, <2>8, <2>9 DEF Tiles
    <2> QED
        BY <2>2, <2>10
<1> QED
    BY <1>1, <1>2

\* A task of the last query is done.
LEMMA TilesDone ==
    ASSUME NEW c, NEW d, NEW deep, NEW s, NEW A, Tiles(c, d, deep, s, A), s # <<>>,
           NEW w \in s[Len(s)], NEW B, \A x : x \in B <=> x \in A /\ x \notin Stands(c, d, deep, w)
    PROVE  /\ Tiles(c, d, deep, Push(Front(s), s[Len(s)] \ {w}), B)
           /\ IsTask(c, d, deep, w) /\ \A x \in Stands(c, d, deep, w) : x \in A
<1>1. PICK t, n, f, l : t = Front(s) /\ n = Len(s) /\ f = s[n] /\ l = n - 1
    OBVIOUS
<1>2. /\ Stack(s)
      /\ \A i \in 1..n : \A v \in s[i] : IsTask(c, d, deep, v)
      /\ \A x : x \in A <=> \E i \in 1..n : \E v \in s[i] : x \in Stands(c, d, deep, v)
      /\ \A i, j \in 1..n : \A u \in s[i], v \in s[j] :
             (\E x : x \in Stands(c, d, deep, u) /\ x \in Stands(c, d, deep, v)) => i = j /\ u = v
    BY <1>1 DEF Tiles
<1>3. n \in Nat /\ n >= 1 /\ Stack(t) /\ Len(t) = l /\ \A i \in 1..l : t[i] = s[i]
    BY <1>1, <1>2, StackFront
<1>4. l \in Nat /\ n \in 1..n /\ n \notin 1..l /\ \A i : i \in 1..n <=> i \in 1..l \/ i = n
    BY <1>1, <1>3
<1>5. PICK C : C = {x \in A : \E i \in 1..l : \E v \in t[i] : x \in Stands(c, d, deep, v)}
    OBVIOUS
<1>6. Tiles(c, d, deep, t, C)
    <2>1. \A i \in 1..l : \A v \in t[i] : IsTask(c, d, deep, v)
        BY <1>2, <1>3, <1>4
    <2>2. \A x : x \in C <=> \E i \in 1..l : \E v \in t[i] : x \in Stands(c, d, deep, v)
        BY <1>2, <1>3, <1>4, <1>5
    <2>3. \A i, j \in 1..l : \A u \in t[i], v \in t[j] :
             (\E x : x \in Stands(c, d, deep, u) /\ x \in Stands(c, d, deep, v)) => i = j /\ u = v
        BY <1>2, <1>3, <1>4
    <2> QED
        BY <1>3, <2>1, <2>2, <2>3 DEF Tiles
<1>7. ASSUME NEW v \in f, NEW x \in Stands(c, d, deep, v), x \in C PROVE FALSE
    <2>1. PICK i \in 1..l : \E u \in t[i] : x \in Stands(c, d, deep, u)
        BY <1>5, <1>7
    <2>2. PICK u \in s[i] : x \in Stands(c, d, deep, u)
        BY <1>3, <2>1
    <2> QED
        BY <1>1, <1>2, <1>4, <1>7, <2>1, <2>2
<1>8. ASSUME NEW u \in f, NEW v \in f, NEW x \in Stands(c, d, deep, u), x \in Stands(c, d, deep, v)
      PROVE u = v
    BY <1>1, <1>2, <1>4, <1>8
<1>9. ASSUME NEW x
      PROVE  x \in B <=> x \in C \/ \E v \in f \ {w} : x \in Stands(c, d, deep, v)
    <2>1. x \in A <=> x \in C \/ \E v \in f : x \in Stands(c, d, deep, v)
        BY <1>1, <1>2, <1>3, <1>4, <1>5
    <2>2. w \in f
        BY <1>1
    <2>3. x \in Stands(c, d, deep, w) => x \notin C /\ \A v \in f : x \in Stands(c, d, deep, v) => v = w
        BY <1>7, <1>8, <2>2
    <2> QED
        BY <2>1, <2>2, <2>3
<1>10. \A v \in f \ {w} : IsTask(c, d, deep, v)
    BY <1>1, <1>2, <1>4
<1>11. Tiles(c, d, deep, Push(t, f \ {w}), B)
    BY <1>6, <1>7, <1>8, <1>9, <1>10, TilesPush
<1>12. IsTask(c, d, deep, w) /\ \A x \in Stands(c, d, deep, w) : x \in A
    BY <1>1, <1>2, <1>4
<1> QED
    BY <1>1, <1>11, <1>12

LEMMA YieldTasks ==
    ASSUME NEW Q, NEW w
    PROVE  w \in ToYield(Q) <=> \E q \in Q : w = Task("yield", q)
BY DEF ToYield, Task

\* Records that share out some changes are put on top.
LEMMA TilesRecords ==
    ASSUME NEW c, NEW d, NEW deep, NEW T, T = Changes(c, d, deep),
           NEW s, NEW A, Tiles(c, d, deep, s, A),
           NEW Q, \A q \in Q : Difference(c, d, deep, q),
           \A q, r \in Q : q # r => Region(T, Task("yield", q)) \cap Region(T, Task("yield", r)) = {},
           NEW B, \A x : x \in B <=> x \in A \/ \E q \in Q : x \in Region(T, Task("yield", q)),
           \A q \in Q : \A x \in Region(T, Task("yield", q)) : x \notin A
    PROVE  Tiles(c, d, deep, Push(s, ToYield(Q)), B)
<1>1. PICK f : f = ToYield(Q)
    OBVIOUS
<1>2. \A w : w \in f <=> \E q \in Q : w = Task("yield", q)
    BY <1>1, YieldTasks
<1>3. \A w : Stands(c, d, deep, w) = Region(T, w)
    BY DEF Stands
<1>4. ASSUME NEW w \in f PROVE IsTask(c, d, deep, w)
    <2>1. PICK q \in Q : w = Task("yield", q)
        BY <1>2
    <2>2. w.do = "yield" /\ w.rec = q
        BY <2>1, TaskFields
    <2> QED
        BY <2>1, <2>2 DEF IsTask
<1>5. \A w \in f : \A x \in Stands(c, d, deep, w) : x \notin A
    BY <1>2, <1>3
<1>6. ASSUME NEW v \in f, NEW w \in f, NEW x, x \in Stands(c, d, deep, v), x \in Stands(c, d, deep, w)
      PROVE  v = w
    <2>1. PICK q \in Q : v = Task("yield", q)
        BY <1>2
    <2>2. PICK r \in Q : w = Task("yield", r)
        BY <1>2
    <2>3. x \in Region(T, Task("yield", q)) \cap Region(T, Task("yield", r))
        BY <1>3, <1>6, <2>1, <2>2
    <2>4. q = r
        BY <2>3
    <2> QED
        BY <2>1, <2>2, <2>4
<1>7. ASSUME NEW x PROVE x \in B <=> x \in A \/ \E w \in f : x \in Stands(c, d, deep, w)
    <2>1. (\E w \in f : x \in Stands(c, d, deep, w)) <=> \E q \in Q : x \in Region(T, Task("yield", q))
        BY <1>2, <1>3
    <2> QED
        BY <2>1
<1>8. Tiles(c, d, deep, Push(s, f), B)
    BY <1>4, <1>5, <1>6, <1>7, TilesPush
<1> QED
    BY <1>1, <1>8

\* A diff of two roots: if their hashes are the same, there is nothing to yield, and
\* else the records of the roots stand for all of it.
LEMMA DiffRoots ==
    ASSUME Telling, NEW c \in Dirs, NEW d \in Dirs, NEW deep \in BOOLEAN, Kept(c), Kept(d),
           NEW all, all = Changes(c, d, deep)
    PROVE  /\ Hash[c] = Hash[d] => all = {}
           /\ Tiles(c, d, deep, Push(<<>>, ToYield(Records(Hash[c], Hash[d], <<>>))), all)
<1>1. PICK y, z : y = Spot(<<>>, c) /\ z = Spot(<<>>, d)
    OBVIOUS
<1>2. y.path = <<>> /\ z.path = <<>> /\ y.node = c /\ z.node = d /\ c \in Nodes /\ d \in Nodes
    BY <1>1 DEF Spot, Dirs
<1>3. Compared(c, d, deep, y, z)
    BY <1>1, <1>2 DEF Compared, Reaches
<1>4. ASSUME NEW x \in all PROVE Difference(c, d, deep, x) /\ SameKind(x) /\ Passes(y.path, x.path)
    <2>1. Difference(c, d, deep, x) /\ SameKind(x)
        BY <1>2, <1>4, ChangesAre
    <2>2. PICK p : p = x.path
        OBVIOUS
    <2>3. p \in Seq(Name) /\ Len(p) >= 1 /\ Len(p) \in Nat
        BY <2>1, <2>2, Differs
    <2>4. Len(<<>>) = 0
        OBVIOUS
    <2>5. Passes(<<>>, p)
        BY <2>3, <2>4, StartsAll DEF Passes
    <2> QED
        BY <1>2, <2>1, <2>2, <2>5
<1>5. ASSUME Hash[c] = Hash[d], NEW x \in all PROVE FALSE
    <2>1. PICK k, r : EntryRecord(y, z, k, r)
        BY <1>2, <1>3, <1>4, EntryCovers DEF Compared
    <2>2. /\ \A i \in DOMAIN c.kids : i \in DOMAIN d.kids /\ Hash[c.kids[i]] = Hash[d.kids[i]]
          /\ \A i \in DOMAIN d.kids : i \in DOMAIN c.kids
        BY <1>5, SameNames DEF Telling
    <2> QED
        BY <1>2, <2>1, <2>2 DEF EntryRecord, EntryGone, EntryDiffers
<1>6. PICK Q : Q = Records(Hash[y.node], Hash[z.node], y.path)
    OBVIOUS
<1>7. /\ \A q \in Q : Difference(c, d, deep, q)
      /\ \A q, s \in Q : q # s => Region(all, Task("yield", q)) \cap Region(all, Task("yield", s)) = {}
      /\ \A x : x \in all /\ Passes(y.path, x.path) <=> \E q \in Q : x \in Region(all, Task("yield", q))
    BY <1>2, <1>3, <1>6, RegionCompare
<1>8. \A x : x \in all <=> x \in {} \/ \E q \in Q : x \in Region(all, Task("yield", q))
    BY <1>4, <1>7
<1>9. Tiles(c, d, deep, <<>>, {})
    BY TilesNone
<1>10. Tiles(c, d, deep, Push(<<>>, ToYield(Q)), all)
    BY <1>7, <1>8, <1>9, TilesRecords
<1> QED
    BY <1>2, <1>5, <1>6, <1>10

\* What is left to do, with what was yielded, is the diff, and nothing was yielded twice.
Diffing(c, d, deep, s, o, n) ==
    \E A : /\ Tiles(c, d, deep, s, A)
           /\ \A x : x \in A <=> x \in Changes(c, d, deep) /\ x \notin o
           /\ o \subseteq Changes(c, d, deep) /\ IsFiniteSet(o) /\ n = Cardinality(o)

LEMMA DiffDone ==
    ASSUME NEW c, NEW d, NEW deep, NEW o, NEW n, Diffing(c, d, deep, <<>>, o, n)
    PROVE  o = Changes(c, d, deep) /\ n = Cardinality(o)
<1>1. PICK A : /\ Tiles(c, d, deep, <<>>, A)
               /\ \A x : x \in A <=> x \in Changes(c, d, deep) /\ x \notin o
               /\ o \subseteq Changes(c, d, deep) /\ n = Cardinality(o)
    BY DEF Diffing
<1>2. A = {}
    BY <1>1, TilesNone
<1> QED
    BY <1>1, <1>2

\* The last query, without the work w
Rest(s, w) == Push(Front(s), s[Len(s)] \ {w})

\* What the diff of two directories that are kept does with a task
Working(c, d, deep, s, w, o, n) ==
    /\ c \in Nodes /\ d \in Nodes /\ deep \in BOOLEAN /\ Kept(c) /\ Kept(d)
    /\ s # <<>> /\ w \in s[Len(s)] /\ Diffing(c, d, deep, s, o, n)

LEMMA DiffRest ==
    ASSUME NEW c, NEW d, NEW deep, NEW s, NEW w, NEW o, NEW n, Working(c, d, deep, s, w, o, n),
           NEW T, T = Changes(c, d, deep)
    PROVE  /\ IsTask(c, d, deep, w)
           /\ \A x \in Region(T, w) : x \in T /\ x \notin o
           /\ o \subseteq T /\ IsFiniteSet(o) /\ n = Cardinality(o)
           /\ \E C : /\ Tiles(c, d, deep, Rest(s, w), C)
                     /\ \A x : x \in C <=> x \in T /\ x \notin o /\ x \notin Region(T, w)
<1>1. PICK A : /\ Tiles(c, d, deep, s, A)
               /\ \A x : x \in A <=> x \in T /\ x \notin o
               /\ o \subseteq T /\ IsFiniteSet(o) /\ n = Cardinality(o)
    BY DEF Working, Diffing
<1>2. PICK C : C = {x \in A : x \notin Stands(c, d, deep, w)}
    OBVIOUS
<1>3. /\ Tiles(c, d, deep, Push(Front(s), s[Len(s)] \ {w}), C)
      /\ IsTask(c, d, deep, w) /\ \A x \in Stands(c, d, deep, w) : x \in A
    <2>1. s # <<>> /\ w \in s[Len(s)] /\ Tiles(c, d, deep, s, A)
        BY <1>1 DEF Working
    <2>2. \A x : x \in C <=> x \in A /\ x \notin Stands(c, d, deep, w)
        BY <1>2
    <2> QED
        BY ONLY <2>1, <2>2, TilesDone
<1>4. Stands(c, d, deep, w) = Region(T, w)
    BY DEF Stands
<1> QED
    BY <1>1, <1>2, <1>3, <1>4 DEF Rest

\* A record of two kinds is put back as two records.
LEMMA DiffSplits ==
    ASSUME Telling, NEW c, NEW d, NEW deep, NEW s, NEW w, NEW o, NEW n,
           Working(c, d, deep, s, w, o, n), w.do = "yield",
           NEW r, r = w.rec, Two(r), r.old.label # r.new.label,
           NEW a, a = [r EXCEPT !.old = None], NEW b, b = [r EXCEPT !.new = None]
    PROVE  Diffing(c, d, deep, Push(Push(Rest(s, w), ToYield({a})), ToYield({b})), o, n)
<1>1. PICK T : T = Changes(c, d, deep)
    OBVIOUS
<1>2. /\ IsTask(c, d, deep, w)
      /\ \A x \in Region(T, w) : x \in T /\ x \notin o
      /\ o \subseteq T /\ IsFiniteSet(o) /\ n = Cardinality(o)
      /\ \E C : /\ Tiles(c, d, deep, Rest(s, w), C)
                /\ \A x : x \in C <=> x \in T /\ x \notin o /\ x \notin Region(T, w)
    BY <1>1, DiffRest
<1>3. PICK C : /\ Tiles(c, d, deep, Rest(s, w), C)
               /\ \A x : x \in C <=> x \in T /\ x \notin o /\ x \notin Region(T, w)
    BY <1>2
<1>4. /\ w = Task("yield", r) /\ Difference(c, d, deep, r)
      /\ r = [path |-> r.path, old |-> r.old, new |-> r.new]
    BY <1>2, Differs DEF IsTask
<1>5. /\ a = [path |-> r.path, old |-> None, new |-> r.new]
      /\ b = [path |-> r.path, old |-> r.old, new |-> None]
    BY <1>4
<1>6. /\ Difference(c, d, deep, a) /\ Difference(c, d, deep, b)
      /\ Region(T, w) = Region(T, Task("yield", a)) \cup Region(T, Task("yield", b))
      /\ Region(T, Task("yield", a)) \cap Region(T, Task("yield", b)) = {}
    <2>1. c \in Nodes /\ d \in Nodes /\ deep \in BOOLEAN
        BY DEF Working
    <2> QED
        BY ONLY Telling, <2>1, <1>1, <1>4, <1>5, Two(r), r.old.label # r.new.label, RegionSplit
<1>7. PICK D : D = C \cup Region(T, Task("yield", a))
    OBVIOUS
<1>8. PICK E : E = D \cup Region(T, Task("yield", b))
    OBVIOUS
<1>9. Tiles(c, d, deep, Push(Rest(s, w), ToYield({a})), D)
    <2>1. PICK Q : Q = {a}
        OBVIOUS
    <2>2. /\ \A q \in Q : Difference(c, d, deep, q)
          /\ \A q, u \in Q : q # u => Region(T, Task("yield", q)) \cap Region(T, Task("yield", u)) = {}
          /\ \A x : x \in D <=> x \in C \/ \E q \in Q : x \in Region(T, Task("yield", q))
          /\ \A q \in Q : \A x \in Region(T, Task("yield", q)) : x \notin C
        BY <1>3, <1>6, <1>7, <2>1
    <2>3. Tiles(c, d, deep, Push(Rest(s, w), ToYield(Q)), D)
        BY ONLY <1>1, <1>3, <2>2, TilesRecords
    <2> QED
        BY <2>1, <2>3
<1>10. PICK t : t = Push(Rest(s, w), ToYield({a}))
    OBVIOUS
<1>11. Tiles(c, d, deep, Push(t, ToYield({b})), E)
    <2>1. PICK Q : Q = {b}
        OBVIOUS
    <2>2. /\ \A q \in Q : Difference(c, d, deep, q)
          /\ \A q, u \in Q : q # u => Region(T, Task("yield", q)) \cap Region(T, Task("yield", u)) = {}
          /\ \A x : x \in E <=> x \in D \/ \E q \in Q : x \in Region(T, Task("yield", q))
          /\ \A q \in Q : \A x \in Region(T, Task("yield", q)) : x \notin D
        BY <1>3, <1>6, <1>7, <1>8, <2>1
    <2>3. Tiles(c, d, deep, t, D)
        BY <1>9, <1>10
    <2>4. Tiles(c, d, deep, Push(t, ToYield(Q)), E)
        BY ONLY <1>1, <2>2, <2>3, TilesRecords
    <2> QED
        BY <2>1, <2>4
<1>12. \A x : x \in E <=> x \in T /\ x \notin o
    BY <1>2, <1>3, <1>6, <1>7, <1>8
<1> QED
    BY <1>1, <1>2, <1>10, <1>11, <1>12 DEF Diffing

\* A record of one kind is yielded, and what is beyond it is left for later.
LEMMA DiffEmits ==
    ASSUME Telling, NEW c, NEW d, NEW deep, NEW s, NEW w, NEW o, NEW n,
           Working(c, d, deep, s, w, o, n), w.do = "yield",
           NEW r, r = w.rec, SameKind(r),
           NEW f, f = IF deep /\ IsDir(r) THEN {[do |-> "enter", rec |-> r]} ELSE {}
    PROVE  Diffing(c, d, deep, Push(Rest(s, w), f), o \cup {r}, n + 1)
<1>1. PICK T : T = Changes(c, d, deep)
    OBVIOUS
<1>2. /\ IsTask(c, d, deep, w)
      /\ \A x \in Region(T, w) : x \in T /\ x \notin o
      /\ o \subseteq T /\ IsFiniteSet(o) /\ n = Cardinality(o)
      /\ \E C : /\ Tiles(c, d, deep, Rest(s, w), C)
                /\ \A x : x \in C <=> x \in T /\ x \notin o /\ x \notin Region(T, w)
    BY <1>1, DiffRest
<1>3. PICK C : /\ Tiles(c, d, deep, Rest(s, w), C)
               /\ \A x : x \in C <=> x \in T /\ x \notin o /\ x \notin Region(T, w)
    BY <1>2
<1>4. w = Task("yield", r) /\ Difference(c, d, deep, r)
    BY <1>2 DEF IsTask
<1>5. c \in Nodes /\ d \in Nodes /\ deep \in BOOLEAN
    BY DEF Working
<1>6. PICK e : e = Task("enter", r)
    OBVIOUS
<1>7. /\ r \in T /\ r \in Region(T, w) /\ r \notin Region(T, e)
      /\ deep /\ IsDir(r) => Region(T, w) = {r} \cup Region(T, e)
      /\ ~(deep /\ IsDir(r)) => Region(T, w) = {r}
    <2>1. /\ r \in T /\ r \in Region(T, Task("yield", r)) /\ r \notin Region(T, Task("enter", r))
          /\ deep /\ IsDir(r) =>
                 Region(T, Task("yield", r)) = {r} \cup Region(T, Task("enter", r))
          /\ ~(deep /\ IsDir(r)) => Region(T, Task("yield", r)) = {r}
        BY ONLY Telling, <1>1, <1>4, <1>5, SameKind(r), RegionEmit
    <2> QED
        BY <1>4, <1>6, <2>1
<1>8. r \notin o /\ o \cup {r} \subseteq T /\ IsFiniteSet(o \cup {r}) /\ n + 1 = Cardinality(o \cup {r})
    BY <1>2, <1>7, FS_AddElement
<1>9. PICK E : E = {x \in T : x \notin o /\ x # r}
    OBVIOUS
<1>10. ASSUME deep /\ IsDir(r) PROVE Tiles(c, d, deep, Push(Rest(s, w), f), E)
    <2>1. f = {e}
        BY <1>6, <1>10, Zenon DEF Task
    <2>2. IsTask(c, d, deep, e)
        <3>1. e.do = "enter" /\ e.rec = r /\ e = Task(e.do, e.rec)
            BY <1>6, TaskFields
        <3> QED
            BY <1>4, <1>10, <3>1 DEF IsTask
    <2>3. Stands(c, d, deep, e) = Region(T, e)
        BY <1>1 DEF Stands
    <2>4. \A x \in Region(T, e) : x \notin C
        BY <1>3, <1>7, <1>10
    <2>5. \A x : x \in E <=> x \in C \/ x \in Region(T, e)
        <3>1. Region(T, w) = {r} \cup Region(T, e)
            BY <1>7, <1>10
        <3> QED
            BY <1>2, <1>3, <1>7, <1>9, <3>1
    <2>6. /\ \A v \in f : IsTask(c, d, deep, v)
          /\ \A v \in f : \A x \in Stands(c, d, deep, v) : x \notin C
          /\ \A u, v \in f : (\E x : x \in Stands(c, d, deep, u) /\ x \in Stands(c, d, deep, v)) => u = v
          /\ \A x : x \in E <=> x \in C \/ \E v \in f : x \in Stands(c, d, deep, v)
        BY <2>1, <2>2, <2>3, <2>4, <2>5
    <2> QED
        BY ONLY <1>3, <2>6, TilesPush
<1>11. ASSUME ~(deep /\ IsDir(r)) PROVE Tiles(c, d, deep, Push(Rest(s, w), f), E)
    <2>1. f = {}
        BY <1>11, Zenon
    <2>2. E = C
        <3>1. Region(T, w) = {r}
            BY <1>7, <1>11
        <3> QED
            BY <1>3, <1>9, <3>1
    <2> QED
        BY <1>3, <2>1, <2>2 DEF Push
<1>12. Tiles(c, d, deep, Push(Rest(s, w), f), E)
    BY <1>10, <1>11
<1>13. \A x : x \in E <=> x \in T /\ x \notin o \cup {r}
    BY <1>9
<1> QED
    BY <1>1, <1>8, <1>12, <1>13 DEF Diffing

\* A changed directory is compared.
LEMMA DiffCompares ==
    ASSUME Telling, NEW c, NEW d, NEW deep, NEW s, NEW w, NEW o, NEW n,
           Working(c, d, deep, s, w, o, n), w.do = "enter",
           NEW r, r = w.rec, Two(r)
    PROVE  Diffing(c, d, deep, Push(Rest(s, w), ToYield(Records(r.old.hash, r.new.hash, r.path))), o, n)
<1>1. PICK T : T = Changes(c, d, deep)
    OBVIOUS
<1>2. /\ IsTask(c, d, deep, w)
      /\ \A x \in Region(T, w) : x \in T /\ x \notin o
      /\ o \subseteq T /\ IsFiniteSet(o) /\ n = Cardinality(o)
      /\ \E C : /\ Tiles(c, d, deep, Rest(s, w), C)
                /\ \A x : x \in C <=> x \in T /\ x \notin o /\ x \notin Region(T, w)
    BY <1>1, DiffRest
<1>3. PICK C : /\ Tiles(c, d, deep, Rest(s, w), C)
               /\ \A x : x \in C <=> x \in T /\ x \notin o /\ x \notin Region(T, w)
    BY <1>2
<1>4. w = Task("enter", r) /\ IsTask(c, d, deep, Task("enter", r))
    BY <1>2 DEF IsTask
<1>5. c \in Nodes /\ d \in Nodes /\ deep \in BOOLEAN /\ Kept(c) /\ Kept(d)
    BY DEF Working
<1>6. /\ \E y, z : /\ Compared(c, d, deep, y, z)
                   /\ r.path = y.path /\ r.old.hash = Hash[y.node] /\ r.new.hash = Hash[z.node]
      /\ \A x : x \in Region(T, Task("enter", r)) <=> x \in T /\ Passes(r.path, x.path)
    BY ONLY Telling, <1>1, <1>4, <1>5, Two(r), RegionTwo
<1>7. PICK y, z : /\ Compared(c, d, deep, y, z)
                  /\ r.path = y.path /\ r.old.hash = Hash[y.node] /\ r.new.hash = Hash[z.node]
    BY <1>6
<1>8. PICK Q : Q = Records(Hash[y.node], Hash[z.node], y.path)
    OBVIOUS
<1>9. /\ \A q \in Q : Difference(c, d, deep, q)
      /\ \A q, u \in Q : q # u => Region(T, Task("yield", q)) \cap Region(T, Task("yield", u)) = {}
      /\ \A x : x \in T /\ Passes(y.path, x.path) <=> \E q \in Q : x \in Region(T, Task("yield", q))
    BY ONLY Telling, <1>1, <1>5, <1>7, <1>8, RegionCompare
<1>10. PICK E : E = {x \in T : x \notin o}
    OBVIOUS
<1>11. \A x : x \in Region(T, w) <=> \E q \in Q : x \in Region(T, Task("yield", q))
    BY <1>4, <1>6, <1>7, <1>9
<1>12. /\ \A x : x \in E <=> x \in C \/ \E q \in Q : x \in Region(T, Task("yield", q))
       /\ \A q \in Q : \A x \in Region(T, Task("yield", q)) : x \notin C
    <2>1. \A x : x \in E <=> x \in C \/ x \in Region(T, w)
        BY <1>2, <1>3, <1>10
    <2>2. \A x \in Region(T, w) : x \notin C
        BY <1>3
    <2> QED
        BY <1>11, <2>1, <2>2
<1>13. Tiles(c, d, deep, Push(Rest(s, w), ToYield(Q)), E)
    BY ONLY <1>1, <1>3, <1>9, <1>12, TilesRecords
<1>14. \A x : x \in E <=> x \in T /\ x \notin o
    BY <1>10
<1> QED
    BY <1>1, <1>2, <1>7, <1>8, <1>13, <1>14 DEF Diffing

TopOf(r) == IF r.old = None THEN r.new.hash ELSE r.old.hash

AllBelow(r, below) == below = {Whole(r, x) : x \in Subtree(TopOf(r))}

\* All that is in a new or deleted directory is yielded.
LEMMA DiffYieldsAll ==
    ASSUME Telling, IsFiniteSet(edges), NEW c, NEW d, NEW deep, NEW s, NEW w, NEW o, NEW n,
           Working(c, d, deep, s, w, o, n), w.do = "enter",
           NEW r, r = w.rec, ~Two(r),
           NEW below, AllBelow(r, below)
    PROVE  Diffing(c, d, deep, Rest(s, w), o \cup below, n + Cardinality(below))
<1>0. PICK top : top = TopOf(r)
    OBVIOUS
<1>1. PICK T : T = Changes(c, d, deep)
    OBVIOUS
<1>2. /\ IsTask(c, d, deep, w)
      /\ \A x \in Region(T, w) : x \in T /\ x \notin o
      /\ o \subseteq T /\ IsFiniteSet(o) /\ n = Cardinality(o)
      /\ \E C : /\ Tiles(c, d, deep, Rest(s, w), C)
                /\ \A x : x \in C <=> x \in T /\ x \notin o /\ x \notin Region(T, w)
    BY <1>1, DiffRest
<1>3. PICK C : /\ Tiles(c, d, deep, Rest(s, w), C)
               /\ \A x : x \in C <=> x \in T /\ x \notin o /\ x \notin Region(T, w)
    BY <1>2
<1>4. w = Task("enter", r) /\ IsTask(c, d, deep, Task("enter", r))
    BY <1>2 DEF IsTask
<1>5. c \in Nodes /\ d \in Nodes /\ deep \in BOOLEAN /\ Kept(c) /\ Kept(d)
    BY DEF Working
<1>6. \A x : x \in Region(T, Task("enter", r)) <=> \E u \in Subtree(top) : x = Whole(r, u)
    <2>1. ASSUME NEW x PROVE x \in Region(T, Task("enter", r)) <=> \E u \in Subtree(top) : x = Whole(r, u)
        <3>1. top = IF r.old = None THEN r.new.hash ELSE r.old.hash
            BY <1>0 DEF TopOf
        <3> QED
            BY ONLY Telling, <1>1, <1>4, <1>5, <3>1, ~Two(r), RegionOne
    <2> QED
        BY <2>1
<1>7. below = Region(T, w) /\ below = {Whole(r, x) : x \in Subtree(top)}
    BY <1>0, <1>4, <1>6 DEF AllBelow
<1>8. IsFiniteSet(below)
    <2>1. IsFiniteSet(Subtree(top))
        BY SubtreeFinite
    <2>2. PICK S : S = Subtree(top)
        OBVIOUS
    <2>3. PICK f : f = [x \in S |-> Whole(r, x)]
        OBVIOUS
    <2>4. IsFiniteSet({f[x] : x \in S})
        BY <2>1, <2>2, FiniteImage
    <2>5. below = {f[x] : x \in S}
        BY <1>7, <2>2, <2>3
    <2> QED
        BY <2>4, <2>5
<1>9. IsFiniteSet(o \cup below) /\ n + Cardinality(below) = Cardinality(o \cup below)
    <2>1. o \cap below = {}
        BY <1>2, <1>7
    <2>2. Cardinality(o \cap below) = 0
        BY <2>1, FS_EmptySet
    <2>3. /\ IsFiniteSet(o \cup below)
          /\ Cardinality(o \cup below) = Cardinality(o) + Cardinality(below) - Cardinality(o \cap below)
        BY <1>2, <1>8, FS_Union
    <2>4. Cardinality(o) \in Nat /\ Cardinality(below) \in Nat
        BY <1>2, <1>8, FS_CardinalityType
    <2> QED
        BY <1>2, <2>2, <2>3, <2>4
<1>10. /\ o \cup below \subseteq T
       /\ \A x : x \in C <=> x \in T /\ x \notin o \cup below
    BY <1>2, <1>3, <1>7
<1> QED
    BY <1>1, <1>3, <1>9, <1>10 DEF Diffing

\* What a diff that is on the way has done, whatever was committed since it began
DiffInv ==
    \A c, d, deep, s, o, n :
        LET now == /\ refs # None /\ c = refs[1].dir /\ d = refs[2].dir
                   /\ deep = recursive /\ s = frames /\ o = out /\ n = yields
        IN  now => Diffing(c, d, deep, s, o, n)

LEMMA DiffNext ==
    ASSUME NEW c, NEW d, NEW deep, NEW s, NEW o, NEW n, Diffing(c, d, deep, s, o, n),
           refs'[1].dir = c, refs'[2].dir = d, recursive' = deep, frames' = s, out' = o, yields' = n
    PROVE  DiffInv'
<1>1. ASSUME NEW c1, NEW d1, NEW deep1, NEW s1, NEW o1, NEW n1,
             c1 = refs'[1].dir, d1 = refs'[2].dir, deep1 = recursive', s1 = frames', o1 = out', n1 = yields'
      PROVE  Diffing(c1, d1, deep1, s1, o1, n1)
    <2>1. c1 = c /\ d1 = d /\ deep1 = deep /\ s1 = s /\ o1 = o /\ n1 = n
        BY <1>1
    <2> QED
        BY <2>1
<1> QED
    BY <1>1 DEF DiffInv

LEMMA DiffStarts ==
    ASSUME Telling, HashFixesEntries, KeptInv,
           NEW a \in commits, NEW b \in commits, NEW deep \in BOOLEAN, DiffStart(a, b, deep)
    PROVE  DiffInv'
<1>1. PICK c, d : c = a.dir /\ d = b.dir
    OBVIOUS
<1>2. /\ c \in Dirs /\ c \in Nodes /\ a.root = Hash[c] /\ Kept(c)
      /\ d \in Dirs /\ d \in Nodes /\ b.root = Hash[d] /\ Kept(d)
    BY <1>1, WholeEntries DEF KeptInv, GraphInv
<1>3. PICK all : all = Changes(c, d, deep)
    OBVIOUS
<1>4. /\ Hash[c] = Hash[d] => all = {}
      /\ Tiles(c, d, deep, Push(<<>>, ToYield(Records(Hash[c], Hash[d], <<>>))), all)
    BY <1>2, <1>3, DiffRoots
<1>5. PICK s : s = IF Hash[c] = Hash[d] THEN <<>> ELSE Push(<<>>, ToYield(Records(Hash[c], Hash[d], <<>>)))
    OBVIOUS
<1>6. Tiles(c, d, deep, s, all)
    <2>1. CASE Hash[c] = Hash[d]
        BY <1>4, <1>5, <2>1, TilesNone
    <2>2. CASE Hash[c] # Hash[d]
        BY <1>4, <1>5, <2>2
    <2> QED
        BY <2>1, <2>2
<1>7. Diffing(c, d, deep, s, {}, 0)
    BY <1>3, <1>6, FS_EmptySet DEF Diffing
<1>8. refs' = <<a, b>> /\ recursive' = deep /\ frames' = s /\ out' = {} /\ yields' = 0
    BY <1>2, <1>5 DEF DiffStart
<1>9. refs'[1].dir = c /\ refs'[2].dir = d
    BY <1>1, <1>8
<1> QED
    BY <1>7, <1>8, <1>9, DiffNext

\* The state of a diff whose next work is w
LEMMA DiffWorks ==
    ASSUME HashFixesEntries, KeptInv, DiffInv, refs # None, frames # <<>>, NEW w \in frames[Len(frames)],
           NEW c, NEW d, c = refs[1].dir, d = refs[2].dir
    PROVE  Working(c, d, recursive, frames, w, out, yields)
<1>1. refs[1] \in commits /\ refs[2] \in commits /\ recursive \in BOOLEAN
    BY DEF KeptInv, GraphInv, TypeOK
<1>2. c \in Nodes /\ Kept(c) /\ d \in Nodes /\ Kept(d)
    BY <1>1, WholeEntries DEF KeptInv, GraphInv
<1>3. Diffing(c, d, recursive, frames, out, yields)
    BY DEF DiffInv
<1> QED
    BY <1>1, <1>2, <1>3 DEF Working

LEMMA DiffYields ==
    ASSUME Telling, HashFixesEntries, KeptInv, DiffInv, frames # <<>>,
           NEW w \in frames[Len(frames)], DiffYield(w)
    PROVE  DiffInv'
<1>1. w.do = "yield" /\ UNCHANGED <<graph, refs, recursive, diffs>>
    BY DEF DiffYield
<1>2. CASE refs = None
    BY <1>1, <1>2 DEF DiffInv
<1>3. CASE refs # None
    <2>1. PICK c, d, deep, s, o, n, r : /\ c = refs[1].dir /\ d = refs[2].dir /\ deep = recursive
                                        /\ s = frames /\ o = out /\ n = yields /\ r = w.rec
        OBVIOUS
    <2>2. Working(c, d, deep, s, w, o, n)
        BY <1>3, <2>1, DiffWorks
    <2>3. Done(w) = Rest(s, w)
        BY <2>1 DEF Done, Rest
    <2>4. refs'[1].dir = c /\ refs'[2].dir = d /\ recursive' = deep
        BY <1>1, <2>1
    <2>5. CASE Two(r) /\ r.old.label # r.new.label
        <3>1. PICK a, b : a = [r EXCEPT !.old = None] /\ b = [r EXCEPT !.new = None]
            OBVIOUS
        <3>2. PICK t : t = Push(Push(Rest(s, w), ToYield({a})), ToYield({b}))
            OBVIOUS
        <3>3. frames' = t /\ out' = o /\ yields' = n
            BY <2>1, <2>3, <2>5, <3>1, <3>2 DEF DiffYield
        <3>4. Diffing(c, d, deep, t, o, n)
            BY <1>1, <2>1, <2>2, <2>5, <3>1, <3>2, DiffSplits
        <3> QED
            BY <2>4, <3>3, <3>4, DiffNext
    <2>6. CASE SameKind(r)
        <3>1. PICK f : f = IF deep /\ IsDir(r) THEN {[do |-> "enter", rec |-> r]} ELSE {}
            OBVIOUS
        <3>2. PICK t, u, m : t = Push(Rest(s, w), f) /\ u = o \cup {r} /\ m = n + 1
            OBVIOUS
        <3>3. frames' = t /\ out' = u /\ yields' = m
            BY <2>1, <2>3, <2>6, <3>1, <3>2 DEF DiffYield, SameKind
        <3>4. Diffing(c, d, deep, t, u, m)
            BY <1>1, <2>1, <2>2, <2>6, <3>1, <3>2, DiffEmits
        <3> QED
            BY <2>4, <3>3, <3>4, DiffNext
    <2> QED
        BY <2>5, <2>6 DEF SameKind
<1> QED
    BY <1>2, <1>3

LEMMA DiffEnters ==
    ASSUME Telling, HashFixesEntries, KeptInv, DiffInv, frames # <<>>,
           NEW w \in frames[Len(frames)], DiffEnter(w)
    PROVE  DiffInv'
<1>1. w.do = "enter" /\ UNCHANGED <<graph, refs, recursive, diffs>>
    BY DEF DiffEnter
<1>2. CASE refs = None
    BY <1>1, <1>2 DEF DiffInv
<1>3. CASE refs # None
    <2>1. PICK c, d, deep, s, o, n, r : /\ c = refs[1].dir /\ d = refs[2].dir /\ deep = recursive
                                        /\ s = frames /\ o = out /\ n = yields /\ r = w.rec
        OBVIOUS
    <2>2. Working(c, d, deep, s, w, o, n)
        BY <1>3, <2>1, DiffWorks
    <2>3. Done(w) = Rest(s, w)
        BY <2>1 DEF Done, Rest
    <2>4. refs'[1].dir = c /\ refs'[2].dir = d /\ recursive' = deep
        BY <1>1, <2>1
    <2>5. CASE Two(r)
        <3>1. PICK t : t = Push(Rest(s, w), ToYield(Records(r.old.hash, r.new.hash, r.path)))
            OBVIOUS
        <3>2. frames' = t /\ out' = o /\ yields' = n
            BY <2>1, <2>3, <2>5, <3>1 DEF DiffEnter
        <3>3. Diffing(c, d, deep, t, o, n)
            BY <1>1, <2>1, <2>2, <2>5, <3>1, DiffCompares
        <3> QED
            BY <2>4, <3>2, <3>3, DiffNext
    <2>6. CASE ~Two(r)
        <3>1. PICK below : below = {Whole(r, x) : x \in Subtree(TopOf(r))}
            OBVIOUS
        <3>2. AllBelow(r, below)
            BY <3>1 DEF AllBelow
        <3>3. PICK t, u, m : t = Rest(s, w) /\ u = o \cup below /\ m = n + Cardinality(below)
            OBVIOUS
        <3>4. frames' = t /\ out' = u /\ yields' = m
            BY <2>1, <2>3, <2>6, <3>1, <3>3 DEF DiffEnter, Whole, TopOf
        <3>5. IsFiniteSet(edges)
            BY DEF KeptInv, GraphInv
        <3>6. Diffing(c, d, deep, t, u, m)
            <4>1. Diffing(c, d, deep, Rest(s, w), o \cup below, n + Cardinality(below))
                BY ONLY Telling, <1>1, <2>1, <2>2, <2>6, <3>2, <3>5, DiffYieldsAll
            <4> QED
                BY <3>3, <4>1
        <3> QED
            BY <2>4, <3>4, <3>6, DiffNext
    <2> QED
        BY <2>5, <2>6
<1> QED
    BY <1>2, <1>3

LEMMA DiffStep == Telling /\ HashFixesEntries /\ KeptInv /\ DiffInv /\ [Next]_vars => DiffInv'
<1> SUFFICES ASSUME Telling, HashFixesEntries, KeptInv, DiffInv, [Next]_vars PROVE DiffInv'
    OBVIOUS
<1>1. ASSUME NEW d \in Roots, Commit(d) PROVE DiffInv'
    BY <1>1 DEF Commit, diffVars, DiffInv
<1>2. ASSUME NEW c \in commits, NEW d \in commits, NEW deep \in BOOLEAN, DiffStart(c, d, deep)
      PROVE DiffInv'
    BY <1>2, DiffStarts
<1>3. ASSUME frames # <<>>, NEW w \in frames[Len(frames)], DiffYield(w) PROVE DiffInv'
    BY <1>3, DiffYields
<1>4. ASSUME frames # <<>>, NEW w \in frames[Len(frames)], DiffEnter(w) PROVE DiffInv'
    BY <1>4, DiffEnters
<1>5. CASE DiffEnd
    BY <1>5 DEF DiffEnd, DiffInv
<1>6. CASE UNCHANGED vars
    BY <1>6 DEF vars, diffVars, DiffInv
<1>7. CASE Terminated
    BY <1>6, <1>7 DEF Terminated
<1> QED
    BY <1>1, <1>2, <1>3, <1>4, <1>5, <1>6, <1>7 DEF Next, Diff

LEMMA DiffAlways == Telling /\ HashFixesEntries /\ Spec => []DiffInv
<1> SUFFICES ASSUME Telling, HashFixesEntries PROVE Spec => []DiffInv
    OBVIOUS
<1>1. Init => DiffInv
    <2>1. Init => refs = None
        BY DEF Init
    <2> QED
        BY <2>1 DEF DiffInv
<1>2. KeptInv /\ DiffInv /\ [Next]_vars => DiffInv'
    BY DiffStep
<1>3. Spec => []KeptInv
    BY KeptAlways
<1> QED
    BY <1>1, <1>2, <1>3, PTL DEF Spec

LEMMA ExactInv == ASSUME DiffInv PROVE DiffExact
<1> SUFFICES ASSUME refs # None, frames = <<>>
             PROVE  out = Changes(refs[1].dir, refs[2].dir, recursive) /\ yields = Cardinality(out)
    BY DEF DiffExact
<1>1. PICK c, d, deep, o, n : /\ c = refs[1].dir /\ d = refs[2].dir
                              /\ deep = recursive /\ o = out /\ n = yields
    OBVIOUS
<1>2. Diffing(c, d, deep, <<>>, o, n)
    BY <1>1 DEF DiffInv
<1> QED
    BY <1>1, <1>2, DiffDone

\* A diff that goes to its end yields the paths at which two commits differ, each once,
\* whatever is committed while it runs (neogit/diff/differ.py): if no file has the text
\* of a directory's hash, no name a newline, and contents fix the order in which the
\* hash of a directory lists its entries.
THEOREM DiffIsExact == Telling /\ Spec => []DiffExact
<1>1. Telling => HashFixesEntries
    BY KindsFixEntries DEF Telling
<1>2. DiffInv => DiffExact
    BY ExactInv
<1> QED
    BY <1>1, <1>2, DiffAlways, PTL
=============================================================================
