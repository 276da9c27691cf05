---------------------------- MODULE CommitHistory ----------------------------
(***************************************************************************)
(* Commits and branches in Neo4j: commit, create_branch and log of         *)
(* neogit/service/neogit.py, by concurrent clients.                        *)
(*                                                                         *)
(* A branch and its commits are a linked list: TRACKS_COMMIT leads from    *)
(* the branch to its head, HAS_PREVIOUS from a commit to an older one.     *)
(* Both kinds of new commit are inserted after an anchor, the branch or    *)
(* the commit given as `before`.  Each operation is one transaction, each  *)
(* query of it a step.  Neo4j's isolation is read committed: a query sees  *)
(* what is committed, a write takes the locks of the nodes it touches and  *)
(* holds them to the end of the transaction.                               *)
(*                                                                         *)
(* What the snapshot holds does not matter here: a commit is its name and  *)
(* a stamp, which stands for the rest of its hash (the second it was made  *)
(* in and the root tree).                                                  *)
(***************************************************************************)
EXTENDS Integers, Sequences, FiniteSets

CONSTANTS
    Clients,
    Branches,
    Names,
    Stamps,
    Trees,
    TreeOf,     \* the root tree of a stamp
    MaxOps,     \* bound on the operations of a behaviour
    Ops,        \* the operations they may choose from, of each client
    NoName,     \* no `before` was given
    NoNode,
    NoClient

Commits == [name : Names, stamp : Stamps]

Nodes == Branches \cup Commits \cup Trees

Requests ==
    [op : {"commit", "branch", "log"}, branch : Branches, commit : Commits,
     unique : BOOLEAN, before : Names \cup {NoName}]

ASSUME HistoryAssumption ==
    /\ TreeOf \in [Stamps -> Trees]
    /\ Ops \in [Clients -> SUBSET Requests]
    /\ MaxOps \in Nat
    /\ NoName \notin Names /\ NoNode \notin Nodes /\ NoClient \notin Clients
    /\ Branches \cap Commits = {}

VARIABLES
    branches,   \* Branch nodes
    commits,    \* Commit nodes
    edges,      \* TRACKS_COMMIT and HAS_PREVIOUS
    locks,      \* who has locked a node
    ops,        \* operations started, for the bound
    pc,
    req,        \* the operation of a client
    trail,      \* the commits iter_commits has yielded to it
    anchor,     \* the node after which its commit is inserted
    old,        \* what it has read as the anchor's successor
    seen,       \* the edges its replace() has matched, by their ends
    outcome,    \* how its last operation ended
    known,      \* auxiliary: the commits there were when it asked for its branch
    above,      \* auxiliary: the order in which history was inserted
    overtaken   \* auxiliary: a commit changed what another one had read, see Commit

database == <<branches, commits, edges, above, overtaken>>
clientVars == <<pc, req, trail, anchor, old, seen, outcome, known>>
vars == <<database, locks, ops, clientVars>>

Succ(n) == {m \in Commits : <<n, m>> \in edges}

\* The commit a client inserts, or the one its new branch is to track
New(c) == req[c].commit

Inserts(c) == req[c].op = "commit" /\ req[c].before # NoName

\* Indices in the trail of the commits of a name
Found(c, name) == {i \in 1..Len(trail[c]) : trail[c][i].name = name}

Free(c, S) == \A n \in S : locks[n] \in {c, NoClient}

Lock(c, S) == locks' = [n \in DOMAIN locks |-> IF n \in S THEN c ELSE locks[n]]

Goto(c, label) == pc' = [pc EXCEPT ![c] = label]

Init ==
    /\ branches = {} /\ commits = {} /\ edges = {}
    /\ above = {} /\ overtaken = FALSE
    /\ locks = [n \in Nodes |-> NoClient] /\ ops = 0
    /\ pc = [c \in Clients |-> "idle"]
    /\ req = [c \in Clients |-> NoNode]
    /\ trail = [c \in Clients |-> <<>>]
    /\ anchor = [c \in Clients |-> NoNode] /\ old = [c \in Clients |-> NoNode]
    /\ seen = [c \in Clients |-> {}] /\ outcome = [c \in Clients |-> "none"]
    /\ known = [c \in Clients |-> {}]

\* The transaction of c ends and its locks are released.
End(c, result) ==
    /\ Goto(c, "idle")
    /\ outcome' = [outcome EXCEPT ![c] = result]
    /\ locks' = [n \in DOMAIN locks |-> IF locks[n] = c THEN NoClient ELSE locks[n]]
    /\ trail' = [trail EXCEPT ![c] = <<>>] /\ seen' = [seen EXCEPT ![c] = {}]
    /\ anchor' = [anchor EXCEPT ![c] = NoNode] /\ old' = [old EXCEPT ![c] = NoNode]
    /\ req' = [req EXCEPT ![c] = NoNode] /\ known' = [known EXCEPT ![c] = {}]
    /\ UNCHANGED ops

Rollback(c, result) == End(c, result) /\ UNCHANGED database

\* Where iter_commits is
At(c) == IF trail[c] = <<>> THEN req[c].branch ELSE trail[c][Len(trail[c])]

AfterUnique(c) == IF req[c].before # NoName THEN "before" ELSE "create"

-----------------------------------------------------------------------------
(* Faulty variants of the actions above; no specification uses them.       *)

\* the branch is taken for its head
ReadAnchor(c) ==
    /\ pc[c] = "read" /\ Goto(c, IF Inserts(c) THEN "connect" ELSE "match")
    /\ old' = [old EXCEPT ![c] = anchor[c]]
    /\ UNCHANGED <<database, locks, ops, req, trail, anchor, seen, outcome, known>>

\* commit_exists looks at the head only
UniqueEndHead(c) ==
    /\ pc[c] = "unique" /\ Succ(At(c)) = {}
    /\ IF 1 \in Found(c, req[c].commit.name)
       THEN Rollback(c, "returned")
       ELSE /\ Goto(c, AfterUnique(c)) /\ trail' = [trail EXCEPT ![c] = <<>>]
            /\ UNCHANGED <<database, locks, ops, req, anchor, old, seen, outcome, known>>

\* commit_exists(before) returns the commit its loop ended at
BeforeEndLast(c) ==
    /\ pc[c] = "before" /\ Succ(At(c)) = {}
    /\ IF Found(c, req[c].before) = {} THEN Rollback(c, "not found")
       ELSE /\ anchor' = [anchor EXCEPT ![c] = At(c)]
            /\ Goto(c, "create") /\ trail' = [trail EXCEPT ![c] = <<>>]
            /\ UNCHANGED <<database, locks, ops, req, old, seen, outcome, known>>

\* the head of the branch is read for `before` too
ReadHead(c) ==
    /\ pc[c] = "read"
    /\ \/ \E m \in Succ(req[c].branch) :
              /\ old' = [old EXCEPT ![c] = m]
              /\ Goto(c, IF Inserts(c) THEN "connect" ELSE "match")
       \/ Succ(req[c].branch) = {} /\ Goto(c, "match") /\ UNCHANGED old
    /\ UNCHANGED <<database, locks, ops, req, trail, anchor, seen, outcome, known>>

\* connect(new) in place of replace(new)
MatchNone(c) ==
    /\ pc[c] = "match" /\ Goto(c, "replace")
    /\ UNCHANGED <<database, locks, ops, req, trail, anchor, old, seen, outcome, known>>

-----------------------------------------------------------------------------
(* Start of an operation *)

Request(c, r) ==
    /\ pc[c] = "idle" /\ ops < MaxOps
    /\ ops' = ops + 1 /\ Goto(c, "get")
    /\ req' = [req EXCEPT ![c] = r]
    /\ anchor' = [anchor EXCEPT ![c] = r.branch]
    /\ outcome' = [outcome EXCEPT ![c] = "none"]
    /\ UNCHANGED <<database, locks, trail, old, seen, known>>

\* Branch.nodes.get(name): each operation goes on, or raises, accordingly.
GetBranch(c) ==
    /\ pc[c] = "get"
    /\ LET r == req[c]
           exists == r.branch \in branches
       IN  \/ /\ \/ /\ r.op = "commit"
                    /\ Goto(c, IF ~exists THEN "save_branch" ELSE IF r.unique THEN "unique" ELSE AfterUnique(c))
                 \/ r.op = "branch" /\ ~exists /\ r.commit \in commits /\ Goto(c, "save_branch")
                 \/ r.op = "log" /\ exists /\ Goto(c, "log")
              /\ known' = [known EXCEPT ![c] = commits]
              /\ UNCHANGED <<database, locks, ops, req, trail, anchor, old, seen, outcome>>
           \/ r.op = "branch" /\ (exists \/ r.commit \notin commits) /\ Rollback(c, "refused")
           \/ r.op = "log" /\ ~exists /\ Rollback(c, "no branch")

\* branch.save(): the name is unique, so a second one waits and raises.
SaveBranch(c) ==
    /\ pc[c] = "save_branch" /\ Free(c, {req[c].branch})
    /\ \/ req[c].branch \in branches /\ Rollback(c, "duplicate branch")
       \/ /\ req[c].branch \notin branches
          /\ Lock(c, {req[c].branch})
          /\ Goto(c, IF req[c].op = "branch" THEN "match" ELSE AfterUnique(c))
          /\ UNCHANGED <<database, ops, req, trail, anchor, old, seen, outcome, known>>

-----------------------------------------------------------------------------
(* iter_commits: a query per commit *)

Walk(c) ==
    /\ pc[c] \in {"unique", "before", "log"}
    /\ \E m \in Succ(At(c)) : trail' = [trail EXCEPT ![c] = Append(@, m)]
    /\ UNCHANGED <<database, locks, ops, pc, req, anchor, old, seen, outcome, known>>

\* commit_exists(name) for `unique`
UniqueEnd(c) ==
    /\ pc[c] = "unique" /\ Succ(At(c)) = {}
    /\ LET found == Found(c, req[c].commit.name)
       IN  \/ \E i, j \in found : i # j /\ Rollback(c, "ambiguous")
           \/ \E i \in found : found = {i} /\ Rollback(c, "returned")
           \/ /\ found = {} /\ Goto(c, AfterUnique(c))
              /\ trail' = [trail EXCEPT ![c] = <<>>]
              /\ UNCHANGED <<database, locks, ops, req, anchor, old, seen, outcome, known>>

\* commit_exists(before)
BeforeEnd(c) ==
    /\ pc[c] = "before" /\ Succ(At(c)) = {}
    /\ LET found == Found(c, req[c].before)
       IN  \/ \E i, j \in found : i # j /\ Rollback(c, "ambiguous")
           \/ found = {} /\ Rollback(c, "not found")
           \/ /\ \E i \in found :
                     found = {i} /\ anchor' = [anchor EXCEPT ![c] = trail[c][i]]
              /\ Goto(c, "create")
              /\ trail' = [trail EXCEPT ![c] = <<>>]
              /\ UNCHANGED <<database, locks, ops, req, old, seen, outcome, known>>

LogEnd(c) ==
    /\ pc[c] = "log" /\ Succ(At(c)) = {} /\ Rollback(c, "ok")

-----------------------------------------------------------------------------
(* The new commit, once the snapshot is built (CommitPipeline) *)

\* commit.save(): the hash is unique.
Create(c) ==
    /\ pc[c] = "create" /\ Free(c, {New(c)})
    /\ \/ New(c) \in commits /\ Rollback(c, "duplicate")
       \/ /\ New(c) \notin commits
          /\ Lock(c, {New(c)}) /\ Goto(c, "own")
          /\ UNCHANGED <<database, ops, req, trail, anchor, old, seen, outcome, known>>

\* commit.filesystem.connect(root)
Own(c) ==
    /\ pc[c] = "own" /\ Free(c, {TreeOf[New(c).stamp]})
    /\ Lock(c, {TreeOf[New(c).stamp]}) /\ Goto(c, "read")
    /\ UNCHANGED <<database, ops, req, trail, anchor, old, seen, outcome, known>>

\* before_commit.previous.single(), or branch.tracks.single()
Read(c) ==
    /\ pc[c] = "read"
    /\ \/ \E m \in Succ(anchor[c]) :
              /\ old' = [old EXCEPT ![c] = m]
              /\ Goto(c, IF Inserts(c) THEN "connect" ELSE "match")
       \/ Succ(anchor[c]) = {} /\ Goto(c, "match") /\ UNCHANGED old
    /\ UNCHANGED <<database, locks, ops, req, trail, anchor, seen, outcome, known>>

\* anchor.replace(new): the edges to delete are matched first ...
Match(c) ==
    /\ pc[c] = "match"
    /\ seen' = [seen EXCEPT ![c] = Succ(anchor[c])] /\ Goto(c, "replace")
    /\ UNCHANGED <<database, locks, ops, req, trail, anchor, old, outcome, known>>

\* ... and deleted once their ends are locked; then the new edge is added.
Replace(c) ==
    /\ pc[c] = "replace" /\ Free(c, {anchor[c], New(c)} \cup seen[c])
    /\ Lock(c, {anchor[c], New(c)} \cup seen[c])
    /\ Goto(c, IF Inserts(c) \/ old[c] = NoNode THEN "commit" ELSE "connect")
    /\ UNCHANGED <<database, ops, req, trail, anchor, old, seen, outcome, known>>

\* new.previous.connect(old)
Connect(c) ==
    /\ pc[c] = "connect" /\ Free(c, {New(c), old[c]}) /\ Lock(c, {New(c), old[c]})
    /\ Goto(c, IF Inserts(c) THEN "match" ELSE "commit")
    /\ UNCHANGED <<database, ops, req, trail, anchor, old, seen, outcome, known>>

\* The order of the history, and what comes from it when c commits
Upto(n) == {n} \cup {x \in Nodes : <<x, n>> \in above}
From(n) == {n} \cup {y \in Nodes : <<n, y>> \in above}

Older(c) == IF old[c] = NoNode THEN {} ELSE {New(c)} \X From(old[c])

\* Faulty variant of Commit: the old head is not connected behind the new commit.
CommitUnlinked(c) ==
    /\ pc[c] = "commit"
    /\ branches' = branches \cup {req[c].branch}
    /\ commits' = commits \cup {New(c)}
    /\ edges' = (edges \ ({anchor[c]} \X seen[c])) \cup {<<anchor[c], New(c)>>}
    /\ above' = above \cup (Upto(anchor[c]) \X From(New(c))) \cup Older(c)
    /\ overtaken' = (overtaken \/ Succ(anchor[c]) # (IF old[c] = NoNode THEN {} ELSE {old[c]}))
    /\ End(c, "ok")

\* The transaction commits: what it did becomes visible, at once.
Commit(c) ==
    /\ pc[c] = "commit"
    /\ branches' = branches \cup {req[c].branch}
    /\ commits' = commits \cup {New(c)}
    /\ edges' = (edges \ ({anchor[c]} \X seen[c])) \cup {<<anchor[c], New(c)>>}
                \cup (IF old[c] = NoNode THEN {} ELSE {<<New(c), old[c]>>})
    /\ above' = above \cup (Upto(anchor[c]) \X From(New(c))) \cup Older(c)
    /\ overtaken' = (overtaken \/ Succ(anchor[c]) # (IF old[c] = NoNode THEN {} ELSE {old[c]}))
    /\ End(c, "ok")

\* Anything of it raises: the pipeline, the database, a deadlock it detects.
Fail(c) == pc[c] # "idle" /\ Rollback(c, "raised")

Client(c) ==
    \/ \E r \in Ops[c] : Request(c, r)
    \/ GetBranch(c) \/ SaveBranch(c)
    \/ Walk(c) \/ UniqueEnd(c) \/ BeforeEnd(c) \/ LogEnd(c)
    \/ Create(c) \/ Own(c) \/ Read(c) \/ Match(c) \/ Replace(c) \/ Connect(c)
    \/ Commit(c) \/ Fail(c)

Terminated == ops = MaxOps /\ (\A c \in Clients : pc[c] = "idle") /\ UNCHANGED vars

Next == (\E c \in Clients : Client(c)) \/ Terminated

Spec == Init /\ [][Next]_vars

-----------------------------------------------------------------------------
(* Properties *)

Labels == {"idle", "get", "save_branch", "unique", "before", "log", "create", "own",
           "read", "match", "replace", "connect", "commit"}

\* Types of the variables
TypeOK ==
    /\ branches \subseteq Branches /\ commits \subseteq Commits
    /\ edges \subseteq (branches \cup commits) \X commits
    /\ above \subseteq (branches \cup commits) \X commits
    /\ locks \in [Nodes -> Clients \cup {NoClient}] /\ ops \in 0..MaxOps
    /\ pc \in [Clients -> Labels]
    /\ req \in [Clients -> Requests \cup {NoNode}]
    /\ \A c \in Clients : pc[c] # "idle" => req[c] \in Requests
    /\ trail \in [Clients -> Seq(Commits)]
    /\ anchor \in [Clients -> Branches \cup Commits \cup {NoNode}]
    /\ old \in [Clients -> Commits \cup {NoNode}] /\ seen \in [Clients -> SUBSET Commits]
    /\ known \in [Clients -> SUBSET Commits] /\ overtaken \in BOOLEAN

\* There is one strict order of all commits, in which they were inserted, and
\* HAS_PREVIOUS never leads up in it, whoever commits at the same time: no
\* history has a cycle and iter_commits ends.
HistoryOrdered ==
    /\ edges \subseteq above
    /\ \A n \in commits : <<n, n>> \notin above
    /\ \A p, q \in above : p[2] = q[1] => <<p[1], q[2]>> \in above

\* iter_commits yields commits newest first, none of them twice, even while
\* others rewrite the history it walks.
LogDescends ==
    \A c \in Clients : \A i, j \in 1..Len(trail[c]) :
        i < j => trail[c][i] # trail[c][j] /\ <<trail[c][i], trail[c][j]>> \in above

Nearby(n) == branches \cup commits \cup {n}

\* What n leads to: the least set with n that no edge leaves
Reach(n) ==
    LET Closed == {S \in SUBSET Nearby(n) : n \in S /\ \A e \in edges : e[1] \in S => e[2] \in S}
    IN  {m \in Nearby(n) : \A S \in Closed : m \in S}

\* Every commit of the database is in the history of a branch.
NoLostCommit == commits \subseteq UNION {Reach(b) : b \in branches}

\* A branch tracks one commit and a commit has at most one previous one.
HistoryLinear == \A n \in branches \cup commits : \A m, k \in Succ(n) : m = k

\* It takes a commit that overtakes another, between that one's read of the head
\* (or of the commit behind `before`) and its end, to lose one ...
OnlyOvertakingLoses == ~overtaken => NoLostCommit

\* ... or to leave a branch or a commit with two successors, which makes every later
\* use of it raise.
OnlyOvertakingForks == ~overtaken => HistoryLinear

\* A unique commit never joins one of its name that was in the branch when it
\* was asked for: the walk that looked for it, a query per commit and long over
\* when the commit is created, misses only what came since.
UniqueAdds ==
    \A c \in Clients :
        pc[c] = "commit" /\ req[c].op = "commit" /\ req[c].unique /\ ~overtaken =>
            \A k \in Reach(req[c].branch) \ {req[c].branch} : k.name = New(c).name => k \notin known[c]

\* What the i-th commit of a walk from n is behind
Ahead(n, w, i) == IF i = 1 THEN n ELSE w[i - 1]

\* The walks iter_commits may do from n when nobody writes; one, if the history
\* is linear
Walks(n) ==
    {w \in UNION {[1..k -> commits] : k \in 0..Cardinality(commits)} :
        /\ \A i \in 1..Len(w) : w[i] \in Succ(Ahead(n, w, i))
        /\ Succ(Ahead(n, w, Len(w) + 1)) = {}}

History == [b \in branches |-> CHOOSE w \in Walks(b) : TRUE]

Abstract == INSTANCE BranchLog WITH log <- History

\* What the commit of c does to the log
LogStep(c) ==
    LET r == req[c]
    IN  \/ r.op = "branch" /\ Abstract!Fork(r.branch, New(c))
        \/ r.op = "commit" /\ ~Inserts(c) /\ Abstract!Prepend(r.branch, New(c))
        \/ /\ Inserts(c)
           /\ \E k \in Commits :
                  k.name = r.before /\ Abstract!Has(r.branch, k) /\ Abstract!InsertBefore(k, New(c))

\* Until one commit overtakes another the graph is a log of commits per branch to
\* all clients: a commit goes in front of its branch, or right behind the one it was
\* to come before in every branch that has that one, and nothing else changes.
ImplementsLog ==
    /\ Abstract!Init
    /\ [][branches' # branches \/ edges' # edges =>
              overtaken' \/ \E c \in Clients : pc[c] = "commit" /\ pc'[c] = "idle" /\ LogStep(c)]_vars
=============================================================================
