---------------------------- MODULE MerkleGraph ----------------------------
(***************************************************************************)
(* From directories to the graph of their Trees and Blobs, and back:       *)
(* the hashes of neogit/core/merkle/filesystem.py, the graph of            *)
(* neogit/model/merkle.py and the diff of neogit/diff/differ.py, which     *)
(* reads that graph, one query at a time, while others commit.             *)
(*                                                                         *)
(* A hash is the text that is hashed: what can be read of a file, the      *)
(* target of a link, a line per entry of a directory.  So hashes collide   *)
(* where the texts do, and nowhere else.  A text is a sequence of signs;   *)
(* the digits of a hash are one sign, which is the hash.                   *)
(***************************************************************************)
EXTENDS FolderPane, FiniteSets, SequencesExt

CONSTANTS
    Nodes,       \* files, links and directories
    Roots,       \* the directories that may be committed
    Signs,       \* what names are spelled with: letters, NewLine, digits of hashes
    NewLine,
    Spelling,    \* the text of each name
    MaxCommits,  \* bound on the commits of a behaviour
    MaxDiffs,    \* bound on the diffs of a behaviour
    Depth,       \* of what is below a node
    MaxDepth,    \* longest path in Nodes
    Limit,       \* SEARCH_RESULTS_LIMIT
    Heights      \* heights of the terminal

\* A file is [kind, text], a link also says whether it leads to a directory, and
\* a directory has the entries that could be listed, by name; names are numbers,
\* for their order.  Links are not followed, so directories come to an end.
ASSUME NodesAssumption ==
    /\ Roots \subseteq {d \in Nodes : d.kind = "dir"}
    /\ Depth \in [Nodes -> 0..MaxDepth]
    /\ \A d \in Nodes : d.kind = "dir" =>
           /\ IsFiniteSet(DOMAIN d.kids)
           /\ \A n \in DOMAIN d.kids :
                  n \in Nat /\ d.kids[n] \in Nodes /\ Depth[d.kids[n]] < Depth[d]
           /\ DOMAIN d.kids \subseteq DOMAIN Spelling
    /\ MaxCommits \in Nat /\ MaxDiffs \in Nat /\ MaxDepth \in Nat /\ Limit \in Nat
    /\ Heights \subseteq Nat

\* Names that differ are spelled differently.
ASSUME SpellingAssumption ==
    \A m \in DOMAIN Spelling :
        /\ Spelling[m] \in Seq(Signs)
        /\ \A n \in DOMAIN Spelling : Spelling[m] = Spelling[n] => m = n

VARIABLES
    trees,      \* hashes of the Tree nodes of the database
    blobs,      \* hashes of its Blob nodes
    edges,      \* HAS_CHILD_TREE and HAS_CHILD_BLOB, with their names
    commits,    \* the roots committed, each with its directory
    made,       \* how many there were, for the bound
    refs,       \* the two commits a diff compares, or None
    recursive,  \* whether it goes into directories
    frames,     \* what is left of each query of the diff, outermost first
    out,        \* what the diff has yielded
    yields,     \* how many times it has
    diffs       \* diffs started, for the bound

graph == <<trees, blobs, edges, commits, made>>
diffVars == <<refs, recursive, frames, out, yields, diffs>>
vars == <<graph, diffVars>>

Init ==
    /\ trees = {} /\ blobs = {} /\ edges = {} /\ commits = {} /\ made = 0
    /\ refs = None /\ recursive = FALSE /\ frames = <<>> /\ out = {} /\ yields = 0 /\ diffs = 0

-----------------------------------------------------------------------------
(* Hashing *)

Label(n) == IF n.kind = "dir" THEN "Tree" ELSE "Blob"

\* is_dir follows a link.
DirFirst(n) == n.kind = "dir" \/ (n.kind = "link" /\ n.leads)

Before(d, m, n) ==
    \/ DirFirst(d.kids[m]) /\ ~DirFirst(d.kids[n])
    \/ DirFirst(d.kids[m]) = DirFirst(d.kids[n]) /\ m < n

\* A faulty variant of Line: the name is left out.  No specification uses it.
LineUnnamed(name, hash) == <<hash, NewLine>>

SortedNames(d) ==
    CHOOSE s \in SetToSeqs(DOMAIN d.kids) : \A i, j \in DOMAIN s : i < j => Before(d, s[i], s[j])

\* A name may have a newline in it.
Line(name, hash) == Spelling[name] \o <<hash, NewLine>>

Hash[n \in Nodes] ==
    IF n.kind # "dir" THEN n.text
    ELSE LET names == SortedNames(n)
         IN  FlattenSeq([i \in 1..Len(names) |-> Line(names[i], Hash[n.kids[names[i]]])])

\* None is not what a node is known by, and a newline is not a hash.
ASSUME NoneAssumption ==
    \A n \in Nodes : [label |-> Label(n), hash |-> Hash[n]] # None /\ Hash[n] # NewLine

\* The files and links below a directory, in the order they are visited
Walk[n \in Nodes] ==
    IF n.kind # "dir" THEN <<<<>>>>
    ELSE LET names == SortedNames(n)
             below(m) == [i \in 1..Len(Walk[n.kids[m]]) |-> <<m>> \o Walk[n.kids[m]][i]]
         IN  FlattenSeq([i \in 1..Len(names) |-> below(names[i])])

\* A node and all that is below it
Within[n \in Nodes] ==
    {n} \cup (IF n.kind # "dir" THEN {} ELSE UNION {Within[n.kids[m]] : m \in DOMAIN n.kids})

-----------------------------------------------------------------------------
(* Faulty variants of the definitions below; no specification uses them.   *)

\* MERGE (p)-[:HAS_CHILD]->(c), without the name
EdgesUnnamed(d) ==
    {[parent |-> Hash[d], label |-> Label(d.kids[n]), child |-> Hash[d.kids[n]],
      name |-> CHOOSE m \in DOMAIN d.kids : d.kids[m] = d.kids[n]] : n \in DOMAIN d.kids}

\* only the root is merged, not the directories below it
CommitRootOnly(d) ==
    /\ made < MaxCommits /\ made' = made + 1
    /\ trees' = trees \cup {Hash[d]}
    /\ blobs' = blobs \cup {Hash[d.kids[n]] : n \in {m \in DOMAIN d.kids : d.kids[m].kind # "dir"}}
    /\ edges' = edges \cup {[parent |-> Hash[d], label |-> Label(d.kids[n]),
                             child |-> Hash[d.kids[n]], name |-> n] : n \in DOMAIN d.kids}
    /\ commits' = commits \cup {[root |-> Hash[d], dir |-> d]}
    /\ UNCHANGED diffVars

\* the path is looked up with no regard to the parent
EntriesAnywhere(hash, label, name) == {e \in edges : e.label = label /\ e.name = name}

\* an empty list is taken for one that names no commit
AmongNamed(os) == {c \in commits : c.root \in os}

\* the query of a level forgets the entries that are only in the old tree
RecordsNotDeleted(o, n, path) ==
    LET old == {e \in edges : e.parent = o}
        new == {e \in edges : e.parent = n}
    IN  {[path |-> Append(path, b.name), old |-> None, new |-> [label |-> b.label, hash |-> b.child]] :
             b \in {e \in new : \A a \in old : a.name # e.name}}
        \cup {[path |-> Append(path, p[1].name), old |-> [label |-> p[1].label, hash |-> p[1].child],
               new |-> [label |-> p[2].label, hash |-> p[2].child]] :
             p \in {q \in old \X new : q[1].name = q[2].name /\ q[1].child # q[2].child}}

-----------------------------------------------------------------------------
(* The graph *)

EdgesOf(d) ==
    {[parent |-> Hash[d], label |-> Label(d.kids[n]), child |-> Hash[d.kids[n]], name |-> n] :
         n \in DOMAIN d.kids}

\* All directories of the walk are merged in the transaction of the commit.
Commit(d) ==
    /\ made < MaxCommits /\ made' = made + 1
    /\ LET all  == {n \in Nodes : n \in Within[d]}
           dirs == {n \in all : n.kind = "dir"}
       IN  /\ trees' = trees \cup {Hash[n] : n \in dirs}
           /\ blobs' = blobs \cup {Hash[n] : n \in all \ dirs}
           /\ edges' = edges \cup UNION {EdgesOf(n) : n \in dirs}
    /\ commits' = commits \cup {[root |-> Hash[d], dir |-> d]}
    /\ UNCHANGED diffVars

Id(e) == [label |-> e.label, hash |-> e.child]

EntriesOf(hash) == {e \in edges : e.parent = hash}

\* The entries of the Trees that were found at some paths
Deeper(found) ==
    UNION {{[path |-> Append(x.path, e.name), id |-> Id(e)] : e \in EntriesOf(x.id.hash)} :
           x \in {y \in found : y.id.label = "Tree"}}

\* What is below a Tree, with its path, by the length of this
Levels(hash) ==
    LET At[k \in 0..MaxDepth] ==
            IF k = 0 THEN {[path |-> <<>>, id |-> [label |-> "Tree", hash |-> hash]]}
            ELSE Deeper(At[k - 1])
    IN  At

\* _SUBTREE_QUERY
Subtree(hash) == UNION {Levels(hash)[k] : k \in 1..MaxDepth}

Entries(hash, label, name) == {e \in EntriesOf(hash) : e.label = label /\ e.name = name}

\* The Trees of a name in those of some hashes, and those along a path
Into(hashes, name) == {e.child : e \in UNION {Entries(h, "Tree", name) : h \in hashes}}

Along(root, path) ==
    LET In[k \in 0..Len(path)] == IF k = 0 THEN {root} ELSE Into(In[k - 1], path[k]) IN In

\* get_child_at_path: what it may return, nothing if it raises
ChildrenAtPath(root, path) ==
    LET last == path[Len(path)]
    IN  IF path = <<>> THEN {[label |-> "Tree", hash |-> root]}
        ELSE UNION {LET files == Entries(h, "Blob", last)
                    IN  {Id(e) : e \in IF files # {} THEN files ELSE Entries(h, "Tree", last)} :
                        h \in Along(root, path)[Len(path) - 1]}

\* get_tree_at_path and get_blob_at_path raise if the other kind is there.
TreesAtPath(root, path) == {x \in ChildrenAtPath(root, path) : x.label = "Tree"}
BlobsAtPath(root, path) == {x \in ChildrenAtPath(root, path) : x.label = "Blob"}

\* A faulty variant of Relationship: the name of any entry of the label.  No
\* specification uses it.
RelationshipOfLabel(hash) ==
    {f \in [{Id(e) : e \in EntriesOf(hash)} -> EntriesOf(hash)] :
         \A i \in DOMAIN f : f[i].label = i.label}

\* neomodel's relationship(child) returns one of the edges to it, the first one, though
\* a content that has two names has two.
Relationship(hash) ==
    {f \in [{Id(e) : e \in EntriesOf(hash)} -> EntriesOf(hash)] :
         \A i \in DOMAIN f : Id(f[i]) = i}

\* all() returns a child once for each edge to it, and its name is asked for each time:
\* what iter_children may yield, edge by edge, and the list of names that
\* list_children makes of it, whose order is left out
IterChildren(hash) ==
    {[e \in EntriesOf(hash) |-> [name |-> f[Id(e)].name, id |-> Id(e)]] : f \in Relationship(hash)}
ListChildren(hash) == {[e \in DOMAIN found |-> found[e].name] : found \in IterChildren(hash)}

\* all_blobs
AllBlobs(hash) == {x \in Subtree(hash) : x.id.label = "Blob"}

\* The commits a search is limited to; none named means all.  A commit goes by its
\* root here: the name and date of its own hash make no difference to a search.
Among(os) == {c \in commits : os = {} \/ c.root \in os}

\* The rows a search filters
Rows(os) ==
    UNION {{[root |-> c.root, path |-> x.path, hash |-> x.id.hash] : x \in AllBlobs(c.root)} :
           c \in Among(os)}

\* What a search may return: all rows, or any Limit of them
Cut(rows) ==
    IF Cardinality(rows) <= Limit THEN {rows} ELSE {R \in SUBSET rows : Cardinality(R) = Limit}

SearchByFilename(os, name) == Cut({r \in Rows(os) : r.path[Len(r.path)] = name})
SearchByPath(os, path)     == Cut({r \in Rows(os) : r.path = path})
SearchBySha1(os, hash)     == Cut({r \in Rows(os) : r.hash = hash})

-----------------------------------------------------------------------------
(* The diff.  Each query is materialized; a frame is what is left of one.  *)

\* _SINGLE_LEVEL_QUERY
Records(o, n, path) ==
    LET old == EntriesOf(o)
        new == EntriesOf(n)
    IN  {[path |-> Append(path, b.name), old |-> None, new |-> Id(b)] :
             b \in {e \in new : \A a \in old : a.name # e.name}}
        \cup {[path |-> Append(path, a.name), old |-> Id(a), new |-> None] :
             a \in {e \in old : \A b \in new : b.name # e.name}}
        \cup {[path |-> Append(path, p[1].name), old |-> Id(p[1]), new |-> Id(p[2])] :
             p \in {q \in old \X new : q[1].name = q[2].name /\ q[1].child # q[2].child}}

\* Work of the generator: a record to yield, or a directory to go into
ToYield(records) == {[do |-> "yield", rec |-> r] : r \in records}

Two(r) == r.old # None /\ r.new # None
IsDir(r) == (IF r.old = None THEN r.new ELSE r.old).label = "Tree"

\* A query that finds nothing leaves no work.
Push(queries, work) == IF work = {} THEN queries ELSE Append(queries, work)

\* The work w of the last query is done.
Done(w) == Push(Front(frames), frames[Len(frames)] \ {w})

\* The roots are resolved and, if they differ, compared.
DiffStart(c, d, deep) ==
    /\ refs = None /\ diffs < MaxDiffs /\ diffs' = diffs + 1
    /\ refs' = <<c, d>> /\ recursive' = deep
    /\ frames' = IF c.root = d.root THEN <<>> ELSE Push(<<>>, ToYield(Records(c.root, d.root, <<>>)))
    /\ out' = {} /\ yields' = 0
    /\ UNCHANGED graph

\* A record is yielded; a name that changed its kind is deleted, then created.
DiffYield(w) ==
    LET r == w.rec
    IN  /\ w.do = "yield"
        /\ \/ /\ Two(r) /\ r.old.label # r.new.label
              /\ frames' = Push(Push(Done(w), ToYield({[r EXCEPT !.old = None]})),
                                ToYield({[r EXCEPT !.new = None]}))
              /\ UNCHANGED <<out, yields>>
           \/ /\ Two(r) => r.old.label = r.new.label
              /\ out' = out \cup {r} /\ yields' = yields + 1
              /\ frames' = Push(Done(w), IF recursive /\ IsDir(r) THEN {[do |-> "enter", rec |-> r]} ELSE {})
        /\ UNCHANGED <<graph, refs, recursive, diffs>>

\* A changed directory is compared; all of a new or deleted one is yielded.
DiffEnter(w) ==
    LET r == w.rec
    IN  /\ w.do = "enter"
        /\ \/ /\ Two(r)
              /\ frames' = Push(Done(w), ToYield(Records(r.old.hash, r.new.hash, r.path)))
              /\ UNCHANGED <<out, yields>>
           \/ /\ ~Two(r) /\ frames' = Done(w)
              /\ LET top   == IF r.old = None THEN r.new.hash ELSE r.old.hash
                     below == {IF r.old = None
                               THEN [path |-> r.path \o x.path, old |-> None, new |-> x.id]
                               ELSE [path |-> r.path \o x.path, old |-> x.id, new |-> None] :
                                   x \in Subtree(top)}
                 IN  out' = out \cup below /\ yields' = yields + Cardinality(below)
        /\ UNCHANGED <<graph, refs, recursive, diffs>>

DiffEnd ==
    /\ refs # None /\ frames = <<>> /\ refs' = None
    /\ recursive' = FALSE /\ out' = {} /\ yields' = 0
    /\ UNCHANGED <<graph, frames, diffs>>

Diff ==
    \/ \E c, d \in commits, deep \in BOOLEAN : DiffStart(c, d, deep)
    \/ frames # <<>> /\ \E w \in frames[Len(frames)] : DiffYield(w) \/ DiffEnter(w)
    \/ DiffEnd

Terminated == made = MaxCommits /\ diffs = MaxDiffs /\ refs = None /\ UNCHANGED vars

Next == (\E d \in Roots : Commit(d)) \/ Diff \/ Terminated

Spec == Init /\ [][Next]_vars

-----------------------------------------------------------------------------
(* Properties *)

\* Types of the variables
TypeOK ==
    /\ trees \cup blobs \subseteq {Hash[n] : n \in Nodes}
    /\ \A e \in edges :
           e.parent \in trees /\ e.child \in (IF e.label = "Tree" THEN trees ELSE blobs)
    /\ \A c \in commits : c.dir \in Roots /\ c.root = Hash[c.dir] /\ c.root \in trees
    /\ made \in 0..MaxCommits /\ diffs \in 0..MaxDiffs /\ recursive \in BOOLEAN
    /\ refs # None => refs[1] \in commits /\ refs[2] \in commits
    /\ yields \in Nat

\* What of a node is to be kept: links are not followed.
Seen[n \in Nodes] ==
    IF n.kind = "dir" THEN [label |-> "Tree", kids |-> [m \in DOMAIN n.kids |-> Seen[n.kids[m]]]]
    ELSE [label |-> "Blob", text |-> n.text]

\* What is below a directory, with its path
Listing[n \in Nodes] ==
    IF n.kind # "dir" THEN {}
    ELSE UNION {{[path |-> <<m>>, node |-> n.kids[m]]}
                \cup {[path |-> <<m>> \o x.path, node |-> x.node] : x \in Listing[n.kids[m]]} :
                    m \in DOMAIN n.kids}

IdOf(n) == [label |-> Label(n), hash |-> Hash[n]]

\* The graph below the root of a commit stays the directory that was committed,
\* whatever is committed later and however much of it is shared.
GraphFaithful ==
    \A c \in commits :
        Subtree(c.root) = {[path |-> x.path, id |-> IdOf(x.node)] : x \in Listing[c.dir]}

\* No commit changes a Tree that is in the database: they are only shared.
TreesImmutable == [][\A t \in trees : {e \in edges' : e.parent = t} = EntriesOf(t)]_vars

\* A path leads to what was committed there, if that is of the kind asked for, and
\* to nothing if nothing was.
LookupAgrees ==
    \A c \in commits :
        /\ \A x \in Listing[c.dir] :
               LET found == {IdOf(x.node)}
               IN  /\ ChildrenAtPath(c.root, x.path) = found
                   /\ TreesAtPath(c.root, x.path) = (IF x.node.kind = "dir" THEN found ELSE {})
                   /\ BlobsAtPath(c.root, x.path) = (IF x.node.kind = "dir" THEN {} ELSE found)
        /\ \A d \in Roots : \A x \in Listing[d] :
               (\A y \in Listing[c.dir] : y.path # x.path) => ChildrenAtPath(c.root, x.path) = {}

\* The children of any Tree: as many as it has entries, each content as often as it
\* has names there, but each time under one and the same of them.  So they are the
\* entries, if no content has two names.
ChildrenAgree == refs = None =>
    \A c \in commits : \A d \in {n \in Within[c.dir] : n.kind = "dir"} :
        LET entries  == {[name |-> m, id |-> IdOf(d.kids[m])] : m \in DOMAIN d.kids}
            named(i) == {x \in entries : x.id = i}
        IN  \A found \in IterChildren(Hash[d]) :
                /\ \A e \in DOMAIN found : found[e] \in entries
                /\ \A e, g \in DOMAIN found : found[e].id = found[g].id => found[e] = found[g]
                /\ \A x \in entries :
                       /\ \E e \in DOMAIN found : found[e].id = x.id
                       /\ Cardinality({e \in DOMAIN found : found[e].id = x.id}) = Cardinality(named(x.id))

\* "Return list of child names (both trees and blobs)." (neogit/model/merkle.py:185)
ChildrenListed ==
    \A c \in commits : \A list \in ListChildren(c.root) : Range(list) = DOMAIN c.dir.kids

\* The places of files in the listings of commits
Places(S) ==
    UNION {{[root |-> c.root, path |-> x.path, hash |-> Hash[x.node]] :
                x \in {y \in Listing[c.dir] : y.node.kind # "dir"}} : c \in S}

\* A search finds every place of a content, a name or a path in the commits it is
\* asked for, and none in others, up to its limit.  Every graph of a behaviour is in
\* a state without a diff, and a search reads nothing else.
SearchAgrees == refs = None =>
    LET agree(results, all) ==
            \A R \in results : R \subseteq all /\ (R = all \/ Cardinality(R) = Limit)
    IN  \A S \in SUBSET commits : \A c \in commits : \A x \in Listing[c.dir] :
            LET os     == {d.root : d \in S}
                places == Places(IF S = {} THEN commits ELSE S)
                name   == x.path[Len(x.path)]
            IN  /\ agree(SearchBySha1(os, Hash[x.node]), {p \in places : p.hash = Hash[x.node]})
                /\ agree(SearchByPath(os, x.path), {p \in places : p.path = x.path})
                /\ agree(SearchByFilename(os, name), {p \in places : p.path[Len(p.path)] = name})

\* While a directory is hashed, in a terminal that is resized at most once, the
\* pane shows the last files of the folder the walk is in and counts the others of
\* this stay; it shows as many as fit.
PaneExact == refs = None =>
    \A c \in commits, g, h \in Heights :
        LET walk == Walk[c.dir]
        IN  \A resize \in 1..Len(walk) : \A n \in 1..Len(walk) :
                LET rows(i)   == VisibleFileRows(IF i < resize THEN g ELSE h)
                    folder(i) == Front(walk[i])
                    after[i \in 0..n] ==
                        IF i = 0 THEN EmptyPane
                        ELSE FoldFile(after[i - 1], folder(i), Last(walk[i]), rows(i))
                    stay  == {i \in 1..n : \A j \in i..n : folder(j) = folder(n)}
                    shown == Len(after[n].recent)
                IN  /\ after[n].folder = folder(n)
                    /\ after[n].recent = [i \in 1..shown |-> Last(walk[n - shown + i])]
                    /\ after[n].hidden + shown = Cardinality(stay)
                    /\ 0 < shown /\ shown <= rows(n)
                    /\ g = h /\ after[n].hidden > 0 => shown = rows(n)

\* The paths at which two directories differ, by their contents; a changed kind
\* is a deletion and a creation.
Changes(c, d, deep) ==
    LET near(S) == {x \in S : deep \/ Len(x.path) = 1}
        old == near(Listing[c])
        new == near(Listing[d])
        changed == {p \in old \X new : p[1].path = p[2].path /\ Seen[p[1].node] # Seen[p[2].node]}
        sameKind(p) == Label(p[1].node) = Label(p[2].node)
    IN  {[path |-> x.path, old |-> IdOf(x.node), new |-> None] :
             x \in {y \in old : \A z \in new : z.path = y.path => <<y, z>> \in changed /\ ~sameKind(<<y, z>>)}}
        \cup {[path |-> x.path, old |-> None, new |-> IdOf(x.node)] :
             x \in {z \in new : \A y \in old : z.path = y.path => <<y, z>> \in changed /\ ~sameKind(<<y, z>>)}}
        \cup {[path |-> p[1].path, old |-> IdOf(p[1].node), new |-> IdOf(p[2].node)] :
             p \in {q \in changed : sameKind(q)}}

\* A diff yields the paths at which the two directories differ, each once, even
\* while others commit.
DiffExact ==
    refs # None /\ frames = <<>> =>
        /\ out = Changes(refs[1].dir, refs[2].dir, recursive)
        /\ yields = Cardinality(out)

\* "The hash is unambiguous because each directory commits to its sorted,
\* newline-delimited child list" (docs/explanation/merkle-design.md:38-39)
HashUnambiguous ==
    \A c, d \in commits : c.root = d.root => Seen[c.dir] = Seen[d.dir]
=============================================================================
