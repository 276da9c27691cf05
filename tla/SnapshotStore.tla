---------------------------- MODULE SnapshotStore ----------------------------
(***************************************************************************)
(* What neogit promises those who commit to it: a set of snapshots, each   *)
(* of a whole directory, that appear in one step and whose trees are in    *)
(* the graph database and whose blobs are in the object storage.  How many *)
(* threads, queues and transactions it takes is not said here.             *)
(***************************************************************************)
CONSTANT Sources   \* what may be committed: [root, dirs, blobs], sets of hashes

VARIABLES
    objects,    \* keys of the object storage
    trees,      \* Tree nodes of the database
    published   \* the snapshots of the commits in the database, and whether they
                \* are sound: [root, dirs, blobs, sound]

vars == <<objects, trees, published>>

Init == objects = {} /\ trees = {} /\ published = {}

\* The object storage gains a blob of a directory, committed or not (yet).
PutObject ==
    /\ \E s \in Sources : \E b \in s.blobs : objects' = objects \cup {b}
    /\ UNCHANGED <<trees, published>>

\* A snapshot appears, whole, and over blobs that are stored already if it is
\* sound.  One that is not lacks blobs, never trees.
Publish ==
    \E s \in Sources, sound \in BOOLEAN :
        /\ sound => s.blobs \subseteq objects
        /\ trees' = trees \cup s.dirs
        /\ published' = published \cup
             {[root |-> s.root, dirs |-> s.dirs, blobs |-> s.blobs, sound |-> sound]}
        /\ UNCHANGED objects

Next == PutObject \/ Publish

Spec == Init /\ [][Next]_vars

\* Every snapshot has its trees, and every sound one can be restored.
Restorable ==
    \A s \in published : s.dirs \subseteq trees /\ (s.sound => s.blobs \subseteq objects)
=============================================================================
