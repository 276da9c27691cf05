-------------------------- MODULE MCCommitHistory --------------------------
(* Instances of CommitHistory for TLC *)
EXTENDS CommitHistory, TLC

CONSTANTS c1, c2, m, d, a, b, s, t, x, y

\* two stamps of different trees
TwoTrees == s :> x @@ t :> y

NewCommit(branch, name, stamp, unique, before) ==
    [op |-> "commit", branch |-> branch, commit |-> [name |-> name, stamp |-> stamp],
     unique |-> unique, before |-> before]
Of(op, branch, name, stamp) ==
    [op |-> op, branch |-> branch, commit |-> [name |-> name, stamp |-> stamp],
     unique |-> FALSE, before |-> NoName]

\* one client commits to m, in all ways, while another one does the same with
\* other stamps, reads the log, starts a branch at a commit of the first, or
\* commits to that branch
Rivals ==
    c1 :> {NewCommit(m, n, s, u, bef) : n \in Names, u \in BOOLEAN, bef \in Names \cup {NoName}}
    @@ c2 :> {NewCommit(m, n, t, FALSE, bef) : n \in Names, bef \in Names \cup {NoName}}
             \cup {Of("log", m, a, s), Of("branch", d, a, s), NewCommit(d, b, t, FALSE, NoName)}

NameSymmetry == Permutations({a, b})
=============================================================================
