------------------------- MODULE CommitHistoryProofs -------------------------
(***************************************************************************)
(* Proofs about CommitHistory, for any clients, branches and operations.   *)
(*                                                                         *)
(* All rests on what a client knows of the commit it is about to make:     *)
(* nobody else can make one of its hash, what it read behind its anchor    *)
(* was behind it in the order of the history and stays there, and an edge  *)
(* that was deleted never comes back.                                      *)
(***************************************************************************)
EXTENDS CommitHistory, SequenceTheorems, TLAPS

\* A client that has created its commit owns the node.
Owning == {"own", "read", "match", "replace", "connect", "commit"}

IdleInv(c) == pc[c] = "idle" => old[c] = NoNode /\ trail[c] = <<>>

\* The course of each operation
LogInv(c) == req[c].op = "log" => pc[c] \in {"get", "log"} /\ old[c] = NoNode

BranchInv(c) ==
    req[c].op = "branch" =>
        /\ pc[c] \in {"get", "save_branch", "match", "replace", "commit"}
        /\ anchor[c] = req[c].branch /\ old[c] = NoNode
        /\ pc[c] # "get" => New(c) \in commits
        /\ pc[c] \in Owning => locks[req[c].branch] = c /\ req[c].branch \notin branches

CommitInv(c) ==
    req[c].op = "commit" =>
        /\ anchor[c] = req[c].branch \/ anchor[c] \in commits
        /\ pc[c] \in Owning => New(c) \notin commits /\ locks[New(c)] = c
        /\ pc[c] \notin {"get", "save_branch"} => req[c].branch \in branches \/ locks[req[c].branch] = c
        /\ old[c] # NoNode =>
               /\ pc[c] \in {"match", "replace", "connect", "commit"}
               /\ old[c] \in commits /\ <<anchor[c], old[c]>> \in above

ClientInv(c) ==
    /\ IdleInv(c)
    /\ pc[c] # "idle" => LogInv(c) /\ BranchInv(c) /\ CommitInv(c)

\* What a client has walked over is in the database.
TrailInv == \A c \in Clients : \A i \in 1..Len(trail[c]) : trail[c][i] \in commits

IInv ==
    /\ TypeOK /\ (\A c \in Clients : ClientInv(c)) /\ TrailInv
    /\ HistoryOrdered /\ LogDescends

-----------------------------------------------------------------------------
\* What each type of request gives
LEMMA RequestTypes ==
    ASSUME NEW r \in Requests
    PROVE  /\ r.op \in {"commit", "branch", "log"} /\ r.branch \in Branches
           /\ r.commit \in Commits /\ r.unique \in BOOLEAN
           /\ r.before \in Names \cup {NoName}
BY DEF Requests

LEMMA OpsRequested ==
    ASSUME NEW c \in Clients, NEW r \in Ops[c]
    PROVE  r \in Requests
BY HistoryAssumption

\* Taking locks takes none from the others.
LEMMA LockKeeps ==
    ASSUME TypeOK, NEW c \in Clients, NEW S, Free(c, S), Lock(c, S)
    PROVE  /\ locks' \in [Nodes -> Clients \cup {NoClient}]
           /\ \A n \in Nodes : \A d \in Clients : locks[n] = d => locks'[n] = d
           /\ \A n \in Nodes : n \in S => locks'[n] = c
BY HistoryAssumption DEF TypeOK, Free, Lock

\* The end of a transaction releases its locks only.
LEMMA EndKeeps ==
    ASSUME TypeOK, NEW c \in Clients, NEW result, End(c, result)
    PROVE  /\ locks' \in [Nodes -> Clients \cup {NoClient}]
           /\ \A n \in Nodes : \A d \in Clients \ {c} : locks[n] = d => locks'[n] = d
BY HistoryAssumption DEF TypeOK, End

\* What it leaves of the client
LEMMA EndTypes ==
    ASSUME TypeOK, NEW c \in Clients, NEW result, End(c, result)
    PROVE  /\ locks' \in [Nodes -> Clients \cup {NoClient}] /\ ops' \in 0..MaxOps
           /\ pc' \in [Clients -> Labels]
           /\ req' \in [Clients -> Requests \cup {NoNode}]
           /\ \A d \in Clients : pc'[d] # "idle" => req'[d] \in Requests
           /\ trail' \in [Clients -> Seq(Commits)]
           /\ anchor' \in [Clients -> Branches \cup Commits \cup {NoNode}]
           /\ old' \in [Clients -> Commits \cup {NoNode}]
           /\ seen' \in [Clients -> SUBSET Commits]
           /\ known' \in [Clients -> SUBSET Commits]
<1>1. <<>> \in Seq(Commits)
    OBVIOUS
<1>2. /\ pc' \in [Clients -> Labels] /\ ops' \in 0..MaxOps
      /\ req' \in [Clients -> Requests \cup {NoNode}]
      /\ \A d \in Clients : pc'[d] # "idle" => req'[d] \in Requests
    BY DEF TypeOK, End, Goto, Labels
<1>3. /\ trail' \in [Clients -> Seq(Commits)]
      /\ seen' \in [Clients -> SUBSET Commits] /\ known' \in [Clients -> SUBSET Commits]
    BY <1>1 DEF TypeOK, End
<1>4. /\ anchor' \in [Clients -> Branches \cup Commits \cup {NoNode}]
      /\ old' \in [Clients -> Commits \cup {NoNode}]
    BY DEF TypeOK, End
<1> QED
    BY <1>2, <1>3, <1>4, EndKeeps

LEMMA RollbackTypes ==
    ASSUME TypeOK, NEW c \in Clients, NEW result, Rollback(c, result)
    PROVE  TypeOK'
BY EndTypes DEF Rollback, TypeOK, database

-----------------------------------------------------------------------------
\* A client's step leaves the others where they are.
LEMMA OthersStay ==
    ASSUME TypeOK, NEW c \in Clients, Client(c), NEW d \in Clients, d # c
    PROVE  /\ pc'[d] = pc[d] /\ req'[d] = req[d] /\ trail'[d] = trail[d]
           /\ anchor'[d] = anchor[d] /\ old'[d] = old[d] /\ seen'[d] = seen[d]
           /\ \A n \in Nodes : locks[n] = d => locks'[n] = d
<1> DEFINE Stays ==
           /\ pc'[d] = pc[d] /\ req'[d] = req[d] /\ trail'[d] = trail[d]
           /\ anchor'[d] = anchor[d] /\ old'[d] = old[d] /\ seen'[d] = seen[d]
           /\ \A n \in Nodes : locks[n] = d => locks'[n] = d
<1>1. ASSUME NEW result, End(c, result) PROVE Stays
    BY <1>1, EndKeeps DEF End, TypeOK, Goto
<1>2. ASSUME NEW result, Rollback(c, result) PROVE Stays
    BY <1>2, <1>1 DEF Rollback
<1>3. ASSUME NEW r \in Ops[c], Request(c, r) PROVE Stays
    BY <1>3 DEF Request, TypeOK, Goto
<1>4. CASE GetBranch(c)
    BY <1>4, <1>2 DEF GetBranch, TypeOK, Goto
<1>5. CASE SaveBranch(c)
    <2>1. CASE Rollback(c, "duplicate branch")
        BY <2>1, <1>2
    <2>2. CASE ~Rollback(c, "duplicate branch")
        <3>1. /\ UNCHANGED <<req, trail, anchor, old, seen>>
              /\ Lock(c, {req[c].branch}) /\ Free(c, {req[c].branch})
              /\ \E l : pc' = [pc EXCEPT ![c] = l]
            BY <1>5, <2>2 DEF SaveBranch, Goto
        <3> QED
            BY <3>1, LockKeeps DEF TypeOK
    <2> QED
        BY <2>1, <2>2
<1>6. CASE Walk(c)
    BY <1>6 DEF Walk, TypeOK, Goto
<1>7. CASE UniqueEnd(c)
    BY <1>7, <1>2 DEF UniqueEnd, TypeOK, Goto
<1>8. CASE BeforeEnd(c)
    BY <1>8, <1>2 DEF BeforeEnd, TypeOK, Goto
<1>9. CASE LogEnd(c)
    BY <1>9, <1>2 DEF LogEnd
<1>10. CASE Create(c)
    BY <1>10, <1>2, LockKeeps DEF Create, TypeOK, Goto
<1>11. CASE Own(c)
    BY <1>11, LockKeeps DEF Own, TypeOK, Goto
<1>12. CASE Read(c)
    BY <1>12 DEF Read, TypeOK, Goto
<1>13. CASE Match(c)
    BY <1>13 DEF Match, TypeOK, Goto
<1>14. CASE Replace(c)
    BY <1>14, LockKeeps DEF Replace, TypeOK, Goto
<1>15. CASE Connect(c)
    BY <1>15, LockKeeps DEF Connect, TypeOK, Goto
<1>16. CASE Commit(c)
    BY <1>16, <1>1 DEF Commit
<1>17. CASE Fail(c)
    BY <1>17, <1>2 DEF Fail
<1> QED
    BY <1>3, <1>4, <1>5, <1>6, <1>7, <1>8, <1>9, <1>10, <1>11, <1>12, <1>13,
       <1>14, <1>15, <1>16, <1>17 DEF Client

\* Only Commit writes to the database.
LEMMA OnlyCommitWrites ==
    ASSUME NEW c \in Clients, Client(c)
    PROVE  Commit(c) \/ UNCHANGED database
BY DEF Client, Request, GetBranch, SaveBranch, Walk, UniqueEnd, BeforeEnd, LogEnd,
       Create, Own, Read, Match, Replace, Connect, Fail, Rollback

-----------------------------------------------------------------------------
\* Types of the variables, action by action
LEMMA InitTypes == Init => TypeOK
<1>1. <<>> \in Seq(Commits)
    OBVIOUS
<1>2. ASSUME Init
      PROVE  locks \in [Nodes -> Clients \cup {NoClient}] /\ ops \in 0..MaxOps
    BY <1>2, HistoryAssumption DEF Init
<1>5. ASSUME Init
      PROVE  /\ branches \subseteq Branches /\ commits \subseteq Commits
             /\ edges \subseteq (branches \cup commits) \X commits
             /\ above \subseteq (branches \cup commits) \X commits
             /\ overtaken \in BOOLEAN
    BY <1>5 DEF Init
<1>3. ASSUME Init
      PROVE  /\ trail \in [Clients -> Seq(Commits)] /\ pc \in [Clients -> Labels]
             /\ req \in [Clients -> Requests \cup {NoNode}]
             /\ \A c \in Clients : pc[c] # "idle" => req[c] \in Requests
    BY <1>1, <1>3 DEF Init, Labels
<1>4. ASSUME Init
      PROVE  /\ anchor \in [Clients -> Branches \cup Commits \cup {NoNode}]
             /\ old \in [Clients -> Commits \cup {NoNode}]
             /\ seen \in [Clients -> SUBSET Commits] /\ known \in [Clients -> SUBSET Commits]
    BY <1>4 DEF Init
<1> QED
    BY <1>2, <1>3, <1>4, <1>5 DEF TypeOK

LEMMA CommitTypes ==
    ASSUME TypeOK, NEW c \in Clients, ClientInv(c), Commit(c)
    PROVE  TypeOK'
<1>1. End(c, "ok") /\ pc[c] = "commit" /\ req[c] \in Requests
    BY DEF Commit, TypeOK
<1>2. /\ req[c].branch \in Branches /\ New(c) \in Commits
      /\ req[c].op \in {"commit", "branch", "log"}
    BY <1>1, RequestTypes DEF New
<1>3. branches' \subseteq Branches /\ commits' \subseteq Commits /\ overtaken' \in BOOLEAN
    BY <1>2 DEF Commit, TypeOK
<1>4. anchor[c] \in branches' \cup commits'
    BY <1>1, <1>2 DEF Commit, ClientInv, LogInv, BranchInv, CommitInv
<1>5. old[c] # NoNode => old[c] \in commits
    BY <1>1, <1>2 DEF ClientInv, LogInv, BranchInv, CommitInv
<1>6. /\ branches \subseteq branches' /\ commits \subseteq commits' /\ New(c) \in commits'
    BY DEF Commit
<1>7. edges' \subseteq (branches' \cup commits') \X commits'
    BY <1>4, <1>5, <1>6 DEF Commit, TypeOK
<1>8. Upto(anchor[c]) \subseteq branches' \cup commits' /\ From(New(c)) \subseteq commits'
    BY <1>4, <1>6 DEF Upto, From, TypeOK
<1>9. Older(c) \subseteq (branches' \cup commits') \X commits'
    BY <1>5, <1>6 DEF Older, From, TypeOK
<1>10. above' \subseteq (branches' \cup commits') \X commits'
    BY <1>6, <1>8, <1>9 DEF Commit, TypeOK
<1> QED
    BY <1>1, <1>3, <1>7, <1>10, EndTypes DEF TypeOK

LEMMA ClientTypes ==
    ASSUME TypeOK, NEW c \in Clients, ClientInv(c), TrailInv, Client(c)
    PROVE  TypeOK'
<1>1. ASSUME NEW r \in Ops[c], Request(c, r) PROVE TypeOK'
    <2>1. r \in Requests /\ r.branch \in Branches
        BY OpsRequested, RequestTypes
    <2>2. ops' \in 0..MaxOps
        BY <1>1, HistoryAssumption DEF Request, TypeOK
    <2> QED
        BY <1>1, <2>1, <2>2 DEF Request, TypeOK, Goto, Labels, database
<1>2. CASE GetBranch(c)
    <2>1. CASE \E result : Rollback(c, result)
        BY <2>1, RollbackTypes
    <2>2. CASE ~\E result : Rollback(c, result)
        <3>1. /\ UNCHANGED <<database, locks, ops, req, trail, anchor, old, seen>>
              /\ known' = [known EXCEPT ![c] = commits]
              /\ \E l \in Labels : pc' = [pc EXCEPT ![c] = l]
            BY <1>2, <2>2 DEF GetBranch, Goto, Labels, AfterUnique
        <3>2. pc[c] # "idle"
            BY <1>2 DEF GetBranch
        <3> QED
            BY <3>1, <3>2 DEF TypeOK, database
    <2> QED
        BY <2>1, <2>2
<1>3. CASE SaveBranch(c)
    <2>1. CASE Rollback(c, "duplicate branch")
        BY <2>1, RollbackTypes
    <2>2. CASE ~Rollback(c, "duplicate branch")
        <3>1. /\ UNCHANGED <<database, ops, req, trail, anchor, old, seen, known>>
              /\ Lock(c, {req[c].branch}) /\ Free(c, {req[c].branch})
              /\ \E l \in Labels : pc' = [pc EXCEPT ![c] = l]
              /\ pc[c] # "idle"
            BY <1>3, <2>2 DEF SaveBranch, Goto, Labels, AfterUnique
        <3> QED
            BY <3>1, LockKeeps DEF TypeOK, database
    <2> QED
        BY <2>1, <2>2
<1>4. CASE Walk(c)
    <2>1. PICK m \in Succ(At(c)) : trail' = [trail EXCEPT ![c] = Append(@, m)]
        BY <1>4 DEF Walk
    <2>2. m \in Commits /\ trail[c] \in Seq(Commits)
        BY <2>1 DEF Succ, TypeOK
    <2>3. Append(trail[c], m) \in Seq(Commits)
        BY <2>2, AppendProperties
    <2>4. trail' \in [Clients -> Seq(Commits)]
        BY <2>1, <2>3 DEF TypeOK
    <2> QED
        BY <1>4, <2>4 DEF Walk, TypeOK, database
<1>5. CASE UniqueEnd(c)
    <2>1. CASE \E result : Rollback(c, result)
        BY <2>1, RollbackTypes
    <2>2. CASE ~\E result : Rollback(c, result)
        <3>1. /\ UNCHANGED <<database, locks, ops, req, anchor, old, seen, known>>
              /\ trail' = [trail EXCEPT ![c] = <<>>]
              /\ \E l \in Labels : pc' = [pc EXCEPT ![c] = l]
              /\ pc[c] # "idle"
            BY <1>5, <2>2 DEF UniqueEnd, Goto, Labels, AfterUnique
        <3>2. <<>> \in Seq(Commits)
            OBVIOUS
        <3> QED
            BY <3>1, <3>2 DEF TypeOK, database
    <2> QED
        BY <2>1, <2>2
<1>6. CASE BeforeEnd(c)
    <2>1. CASE \E result : Rollback(c, result)
        BY <2>1, RollbackTypes
    <2>2. CASE ~\E result : Rollback(c, result)
        <3>1. /\ UNCHANGED <<database, locks, ops, req, old, seen, known>>
              /\ trail' = [trail EXCEPT ![c] = <<>>]
              /\ Goto(c, "create") /\ pc[c] # "idle"
            BY <1>6, <2>2 DEF BeforeEnd
        <3>2. PICK i \in 1..Len(trail[c]) : anchor' = [anchor EXCEPT ![c] = trail[c][i]]
            BY <1>6, <2>2 DEF BeforeEnd, Found
        <3>3. trail[c][i] \in Commits /\ <<>> \in Seq(Commits)
            BY <3>2 DEF TrailInv, TypeOK
        <3> QED
            BY <3>1, <3>2, <3>3 DEF TypeOK, database, Goto, Labels
    <2> QED
        BY <2>1, <2>2
<1>7. CASE LogEnd(c)
    BY <1>7, RollbackTypes DEF LogEnd
<1>8. CASE Create(c)
    <2>1. CASE Rollback(c, "duplicate")
        BY <2>1, RollbackTypes
    <2>2. CASE ~Rollback(c, "duplicate")
        <3>1. /\ UNCHANGED <<database, ops, req, trail, anchor, old, seen, known>>
              /\ Lock(c, {New(c)}) /\ Free(c, {New(c)})
              /\ pc' = [pc EXCEPT ![c] = "own"] /\ pc[c] # "idle"
            BY <1>8, <2>2 DEF Create, Goto
        <3> QED
            BY <3>1, LockKeeps DEF TypeOK, Labels, database
    <2> QED
        BY <2>1, <2>2
<1>9. CASE Own(c)
    BY <1>9, LockKeeps DEF Own, TypeOK, Goto, Labels, database
<1>10. CASE Read(c)
    <2>1. old' \in [Clients -> Commits \cup {NoNode}]
        BY <1>10 DEF Read, TypeOK, Succ
    <2>2. pc' \in [Clients -> Labels] /\ pc[c] # "idle" /\ \A d \in Clients : d # c => pc'[d] = pc[d]
        BY <1>10 DEF Read, TypeOK, Goto, Labels
    <2> QED
        BY <1>10, <2>1, <2>2 DEF Read, TypeOK, database
<1>11. CASE Match(c)
    <2>1. seen' \in [Clients -> SUBSET Commits]
        BY <1>11 DEF Match, TypeOK, Succ
    <2> QED
        BY <1>11, <2>1 DEF Match, TypeOK, Goto, Labels, database
<1>12. CASE Replace(c)
    BY <1>12, LockKeeps DEF Replace, TypeOK, Goto, Labels, database
<1>13. CASE Connect(c)
    BY <1>13, LockKeeps DEF Connect, TypeOK, Goto, Labels, database
<1>14. CASE Commit(c)
    BY <1>14, CommitTypes
<1>15. CASE Fail(c)
    BY <1>15, RollbackTypes DEF Fail
<1> QED
    BY <1>1, <1>2, <1>3, <1>4, <1>5, <1>6, <1>7, <1>8, <1>9, <1>10, <1>11, <1>12,
       <1>13, <1>14, <1>15 DEF Client

-----------------------------------------------------------------------------
\* What a client adds to the database, it has locked.
LEMMA CommitGrows ==
    ASSUME TypeOK, NEW c \in Clients, ClientInv(c), Commit(c)
    PROVE  /\ branches \subseteq branches' /\ commits \subseteq commits' /\ above \subseteq above'
           /\ \A n \in commits' : n \in commits \/ locks[n] = c
           /\ \A b \in branches' : b \in branches \/ locks[b] = c
<1>1. /\ pc[c] = "commit" /\ req[c] \in Requests
      /\ branches' = branches \cup {req[c].branch} /\ commits' = commits \cup {New(c)}
      /\ above \subseteq above'
    BY DEF Commit, TypeOK
<1>2. req[c].op \in {"commit", "branch"}
    BY <1>1, RequestTypes DEF ClientInv, LogInv
<1>3. New(c) \in commits \/ locks[New(c)] = c
    BY <1>1, <1>2 DEF ClientInv, BranchInv, CommitInv, Owning
<1>4. req[c].branch \in branches \/ locks[req[c].branch] = c
    BY <1>1, <1>2 DEF ClientInv, BranchInv, CommitInv, Owning
<1> QED
    BY <1>1, <1>3, <1>4

\* A client's step takes nothing from what the others know.
LEMMA OthersKeepInv ==
    ASSUME TypeOK, NEW c \in Clients, ClientInv(c), Client(c),
           NEW d \in Clients, d # c, ClientInv(d)
    PROVE  ClientInv(d)'
<1>1. /\ pc'[d] = pc[d] /\ req'[d] = req[d] /\ trail'[d] = trail[d]
      /\ anchor'[d] = anchor[d] /\ old'[d] = old[d]
      /\ \A n \in Nodes : locks[n] = d => locks'[n] = d
    BY OthersStay
<1>2. /\ branches \subseteq branches' /\ commits \subseteq commits' /\ above \subseteq above'
      /\ \A n \in commits' : n \in commits \/ locks[n] = c
      /\ \A b \in branches' : b \in branches \/ locks[b] = c
    <2>1. CASE Commit(c)
        BY <2>1, CommitGrows
    <2>2. CASE UNCHANGED database
        BY <2>2 DEF database
    <2> QED
        BY <2>1, <2>2, OnlyCommitWrites
<1>3. IdleInv(d)'
    BY <1>1 DEF ClientInv, IdleInv
<1>4. ASSUME pc'[d] # "idle"
      PROVE  LogInv(d)' /\ BranchInv(d)' /\ CommitInv(d)'
    <2>1. req[d] \in Requests /\ LogInv(d) /\ BranchInv(d) /\ CommitInv(d)
        BY <1>1, <1>4 DEF TypeOK, ClientInv
    <2>2. req[d].branch \in Nodes /\ New(d) \in Nodes /\ New(d)' = New(d)
        BY <2>1, <1>1, RequestTypes DEF New, Nodes
    <2>3. LogInv(d)'
        BY <2>1, <1>1 DEF LogInv
    <2>4. BranchInv(d)'
        BY <2>1, <2>2, <1>1, <1>2 DEF BranchInv
    <2>5. CommitInv(d)'
        BY <2>1, <2>2, <1>1, <1>2 DEF CommitInv
    <2> QED
        BY <2>3, <2>4, <2>5
<1> QED
    BY <1>3, <1>4 DEF ClientInv

\* A client that ends knows nothing.
LEMMA EndInv ==
    ASSUME TypeOK, NEW c \in Clients, NEW result, End(c, result)
    PROVE  ClientInv(c)'
BY DEF End, Goto, TypeOK, ClientInv, IdleInv

LEMMA RollbackInv ==
    ASSUME TypeOK, NEW c \in Clients, NEW result, Rollback(c, result)
    PROVE  ClientInv(c)'
BY EndInv DEF Rollback

\* A client's own step keeps what it knows.
LEMMA OwnStepInv ==
    ASSUME TypeOK, TrailInv, HistoryOrdered, NEW c \in Clients, ClientInv(c), Client(c)
    PROVE  ClientInv(c)'
<1> USE DEF ClientInv, IdleInv
<1>0. ASSUME pc[c] # "idle"
      PROVE  /\ req[c] \in Requests /\ req[c].op \in {"commit", "branch", "log"}
             /\ req[c].branch \in Nodes /\ New(c) \in Nodes
    BY <1>0, RequestTypes DEF TypeOK, New, Nodes
<1>1. ASSUME NEW r \in Ops[c], Request(c, r) PROVE ClientInv(c)'
    <2>1. pc'[c] = "get" /\ req'[c] = r /\ anchor'[c] = r.branch /\ old'[c] = NoNode
        BY <1>1 DEF Request, TypeOK, Goto
    <2> QED
        BY <2>1 DEF LogInv, BranchInv, CommitInv, Owning
<1>2. CASE GetBranch(c)
    <2>1. CASE \E result : Rollback(c, result)
        BY <2>1, RollbackInv
    <2>2. CASE ~\E result : Rollback(c, result)
        <3>1. /\ UNCHANGED <<database, locks, ops, req, trail, anchor, old>> /\ pc[c] = "get"
              /\ \/ /\ req[c].op = "commit"
                    /\ \/ req[c].branch \notin branches /\ pc'[c] = "save_branch"
                       \/ req[c].branch \in branches /\ pc'[c] \in {"unique", "before", "create"}
                 \/ req[c].op = "branch" /\ req[c].commit \in commits /\ pc'[c] = "save_branch"
                 \/ req[c].op = "log" /\ pc'[c] = "log"
            BY <1>2, <2>2 DEF GetBranch, Goto, AfterUnique, TypeOK
        <3> QED
            BY <3>1 DEF LogInv, BranchInv, CommitInv, Owning, database, New
    <2> QED
        BY <2>1, <2>2
<1>3. CASE SaveBranch(c)
    <2>1. CASE Rollback(c, "duplicate branch")
        BY <2>1, RollbackInv
    <2>2. CASE ~Rollback(c, "duplicate branch")
        <3>1. /\ UNCHANGED <<database, ops, req, trail, anchor, old>>
              /\ pc[c] = "save_branch" /\ req[c].branch \notin branches
              /\ Lock(c, {req[c].branch}) /\ Free(c, {req[c].branch})
              /\ \/ req[c].op = "branch" /\ pc'[c] = "match"
                 \/ req[c].op # "branch" /\ pc'[c] \in {"before", "create"}
            BY <1>3, <2>2 DEF SaveBranch, Goto, AfterUnique, TypeOK
        <3>2. locks'[req[c].branch] = c
            BY <3>1, <1>0, LockKeeps
        <3> QED
            BY <3>1, <3>2 DEF LogInv, BranchInv, CommitInv, Owning, database, New
    <2> QED
        BY <2>1, <2>2
<1>4. CASE Walk(c)
    <2>1. /\ UNCHANGED <<database, locks, ops, pc, req, anchor, old>>
          /\ pc[c] \in {"unique", "before", "log"}
        BY <1>4 DEF Walk
    <2> QED
        BY <2>1 DEF LogInv, BranchInv, CommitInv, Owning, database, New
<1>5. CASE UniqueEnd(c)
    <2>1. CASE \E result : Rollback(c, result)
        BY <2>1, RollbackInv
    <2>2. CASE ~\E result : Rollback(c, result)
        <3>1. /\ UNCHANGED <<database, locks, ops, req, anchor, old>>
              /\ pc[c] = "unique" /\ pc'[c] \in {"before", "create"}
            BY <1>5, <2>2 DEF UniqueEnd, Goto, AfterUnique, TypeOK
        <3> QED
            BY <3>1, <1>0 DEF LogInv, BranchInv, CommitInv, Owning, database, New
    <2> QED
        BY <2>1, <2>2
<1>6. CASE BeforeEnd(c)
    <2>1. CASE \E result : Rollback(c, result)
        BY <2>1, RollbackInv
    <2>2. CASE ~\E result : Rollback(c, result)
        <3>1. /\ UNCHANGED <<database, locks, ops, req, old>>
              /\ pc[c] = "before" /\ pc'[c] = "create"
            BY <1>6, <2>2 DEF BeforeEnd, Goto, TypeOK
        <3>2. PICK i \in 1..Len(trail[c]) : anchor' = [anchor EXCEPT ![c] = trail[c][i]]
            BY <1>6, <2>2 DEF BeforeEnd, Found
        <3>3. anchor'[c] \in commits
            BY <3>2 DEF TrailInv, TypeOK
        <3> QED
            BY <3>1, <3>3, <1>0 DEF LogInv, BranchInv, CommitInv, Owning, database, New
    <2> QED
        BY <2>1, <2>2
<1>7. CASE LogEnd(c)
    BY <1>7, RollbackInv DEF LogEnd
<1>8. CASE Create(c)
    <2>1. CASE Rollback(c, "duplicate")
        BY <2>1, RollbackInv
    <2>2. CASE ~Rollback(c, "duplicate")
        <3>1. /\ UNCHANGED <<database, ops, req, trail, anchor, old>>
              /\ Lock(c, {New(c)}) /\ Free(c, {New(c)}) /\ New(c) \notin commits
              /\ pc[c] = "create" /\ pc'[c] = "own"
            BY <1>8, <2>2 DEF Create, Goto, TypeOK
        <3>2. /\ locks'[New(c)] = c
              /\ \A n \in Nodes : locks[n] = c => locks'[n] = c
            BY <3>1, <1>0, LockKeeps
        <3> QED
            BY <3>1, <3>2, <1>0 DEF LogInv, BranchInv, CommitInv, Owning, database, New
    <2> QED
        BY <2>1, <2>2
<1>9. CASE Own(c)
    <2>1. /\ UNCHANGED <<database, ops, req, trail, anchor, old>>
          /\ pc[c] = "own" /\ pc'[c] = "read"
          /\ \A n \in Nodes : locks[n] = c => locks'[n] = c
        BY <1>9, LockKeeps DEF Own, Goto, TypeOK
    <2> QED
        BY <2>1, <1>0 DEF LogInv, BranchInv, CommitInv, Owning, database, New
<1>10. CASE Read(c)
    <2>1. /\ UNCHANGED <<database, locks, ops, req, trail, anchor>>
          /\ pc[c] = "read" /\ pc'[c] \in {"match", "connect"}
          /\ old'[c] = old[c] \/ old'[c] \in Succ(anchor[c])
        BY <1>10 DEF Read, Goto, TypeOK
    <2>2. req[c].op = "commit" /\ old[c] = NoNode
        BY <2>1, <1>0 DEF LogInv, BranchInv, CommitInv
    <2>3. \A m \in Succ(anchor[c]) : m \in commits /\ <<anchor[c], m>> \in above
        BY DEF Succ, HistoryOrdered, TypeOK
    <2> QED
        BY <2>1, <2>2, <2>3, <1>0 DEF LogInv, BranchInv, CommitInv, Owning, database, New
<1>11. CASE Match(c)
    <2>1. /\ UNCHANGED <<database, locks, ops, req, trail, anchor, old>>
          /\ pc[c] = "match" /\ pc'[c] = "replace"
        BY <1>11 DEF Match, Goto, TypeOK
    <2> QED
        BY <2>1, <1>0 DEF LogInv, BranchInv, CommitInv, Owning, database, New
<1>12. CASE Replace(c)
    <2>1. /\ UNCHANGED <<database, ops, req, trail, anchor, old>>
          /\ pc[c] = "replace"
          /\ pc'[c] = "commit" \/ (pc'[c] = "connect" /\ old[c] # NoNode)
          /\ \A n \in Nodes : locks[n] = c => locks'[n] = c
        BY <1>12, LockKeeps DEF Replace, Goto, TypeOK
    <2> QED
        BY <2>1, <1>0 DEF LogInv, BranchInv, CommitInv, Owning, database, New
<1>13. CASE Connect(c)
    <2>1. /\ UNCHANGED <<database, ops, req, trail, anchor, old>>
          /\ pc[c] = "connect" /\ pc'[c] \in {"match", "commit"}
          /\ \A n \in Nodes : locks[n] = c => locks'[n] = c
        BY <1>13, LockKeeps DEF Connect, Goto, TypeOK
    <2> QED
        BY <2>1, <1>0 DEF LogInv, BranchInv, CommitInv, Owning, database, New
<1>14. CASE Commit(c)
    BY <1>14, EndInv DEF Commit
<1>15. CASE Fail(c)
    BY <1>15, RollbackInv DEF Fail
<1> QED
    BY <1>1, <1>2, <1>3, <1>4, <1>5, <1>6, <1>7, <1>8, <1>9, <1>10, <1>11, <1>12,
       <1>13, <1>14, <1>15 DEF Client

-----------------------------------------------------------------------------
\* What c inserts after its anchor and before what it has read there keeps the
\* order strict: its commit is new, so nothing led to it or away from it.
LEMMA CommitKeepsOrder ==
    ASSUME TypeOK, HistoryOrdered, NEW c \in Clients, ClientInv(c), Commit(c),
           req[c].op = "commit"
    PROVE  /\ \A n \in commits' : <<n, n>> \notin above'
           /\ \A p, q \in above' : p[2] = q[1] => <<p[1], q[2]>> \in above'
<1> DEFINE n == New(c)
           a == anchor[c]
           o == old[c]
<1>1. /\ pc[c] = "commit" /\ req[c] \in Requests /\ n \notin commits
      /\ n \in Commits /\ n \notin Branches /\ n \notin branches
      /\ a \in Branches \/ a \in commits
      /\ a # n
      /\ o # NoNode => o \in commits /\ <<a, o>> \in above /\ o # n
    <2>1. pc[c] = "commit" /\ req[c] \in Requests
        BY DEF Commit, TypeOK
    <2>2. CommitInv(c)
        BY <2>1 DEF ClientInv
    <2>3. n \in Commits /\ req[c].branch \in Branches
        BY <2>1, RequestTypes DEF New
    <2> QED
        BY <2>1, <2>2, <2>3, HistoryAssumption DEF CommitInv, Owning, TypeOK
<1>2. \A p \in above : /\ p = <<p[1], p[2]>> /\ p[2] \in commits
                       /\ p[1] \in branches \cup commits /\ p[1] # n /\ p[2] # n
    BY <1>1 DEF TypeOK
<1>3. From(n) = {n}
    BY <1>2 DEF From
<1>4. above' = above \cup (Upto(a) \X {n}) \cup Older(c)
    BY <1>3 DEF Commit
<1>5. \A x \in Upto(a) : x # n /\ (x = a \/ <<x, a>> \in above)
    BY <1>1, <1>2 DEF Upto
<1>6. \A y \in From(o) : o # NoNode => y # n /\ y \in commits /\ <<a, y>> \in above
    BY <1>1, <1>2 DEF From, HistoryOrdered
<1>7. \A x \in Upto(a), y \in From(o) : o # NoNode => <<x, y>> \in above /\ x # y
    <2> SUFFICES ASSUME NEW x \in Upto(a), NEW y \in From(o), o # NoNode
                 PROVE  <<x, y>> \in above /\ x # y
        OBVIOUS
    <2>1. y \in commits /\ <<a, y>> \in above
        BY <1>6
    <2>2. CASE x = a
        BY <2>1, <2>2 DEF HistoryOrdered
    <2>3. CASE <<x, a>> \in above
        <3>1. <<x, y>> \in above
            BY <2>1, <2>3 DEF HistoryOrdered
        <3> QED
            BY <3>1, <2>1 DEF HistoryOrdered
    <2> QED
        BY <2>2, <2>3, <1>5
<1>8. \A p \in Older(c) : o # NoNode /\ p[1] = n /\ p[2] \in From(o) /\ p = <<p[1], p[2]>>
    BY DEF Older
<1>9. \A y \in From(o) : o # NoNode => <<n, y>> \in Older(c)
    BY DEF Older
<1>10. ASSUME NEW x \in Upto(a), NEW z, <<z, x>> \in above
       PROVE  z \in Upto(a)
    <2>1. <<z, a>> \in above
        BY <1>10, <1>5 DEF HistoryOrdered
    <2>2. z \in Nodes
        BY <2>1 DEF TypeOK, Nodes
    <2> QED
        BY <2>1, <2>2 DEF Upto
<1>11. ASSUME NEW y \in From(o), NEW z, <<y, z>> \in above, o # NoNode
       PROVE  z \in From(o)
    <2>1. y = o \/ <<o, y>> \in above
        BY DEF From
    <2>2. <<o, z>> \in above
        BY <2>1, <1>11 DEF HistoryOrdered
    <2>3. z \in Nodes
        BY <2>2 DEF TypeOK, Nodes
    <2> QED
        BY <2>2, <2>3 DEF From
<1>12. \A k \in commits' : <<k, k>> \notin above'
    <2> SUFFICES ASSUME NEW k \in commits', <<k, k>> \in above' PROVE FALSE
        OBVIOUS
    <2>1. CASE <<k, k>> \in above
        BY <2>1, <1>2 DEF HistoryOrdered
    <2>2. CASE <<k, k>> \in Upto(a) \X {n}
        BY <2>2, <1>5
    <2>3. CASE <<k, k>> \in Older(c)
        BY <2>3, <1>8, <1>6
    <2> QED
        BY <2>1, <2>2, <2>3, <1>4
<1>13. ASSUME NEW p \in above', NEW q \in above', p[2] = q[1]
       PROVE  <<p[1], q[2]>> \in above'
    <2> HIDE DEF n, a, o
    <2>1. CASE p \in above /\ q \in above
        BY <2>1, <1>13, <1>4 DEF HistoryOrdered
    <2>2. CASE p \in above /\ q \in Upto(a) \X {n}
        BY <2>2, <1>13, <1>10, <1>2, <1>4
    <2>3. CASE p \in above /\ q \in Older(c)
        BY <2>3, <1>13, <1>2, <1>8
    <2>4. CASE p \in Upto(a) \X {n} /\ q \in above
        BY <2>4, <1>13, <1>2
    <2>5. CASE p \in Upto(a) \X {n} /\ q \in Upto(a) \X {n}
        BY <2>5, <1>13, <1>5
    <2>6. CASE p \in Upto(a) \X {n} /\ q \in Older(c)
        BY <2>6, <1>7, <1>8, <1>4
    <2>7. CASE p \in Older(c) /\ q \in above
        <3>1. <<p[2], q[2]>> \in above /\ o # NoNode /\ p[2] \in From(o) /\ p[1] = n
            BY <2>7, <1>13, <1>2, <1>8
        <3>2. q[2] \in From(o)
            BY <3>1, <1>11
        <3> QED
            BY <3>1, <3>2, <1>9, <1>4
    <2>8. CASE p \in Older(c) /\ q \in Upto(a) \X {n}
        BY <2>8, <1>13, <1>7, <1>8
    <2>9. CASE p \in Older(c) /\ q \in Older(c)
        BY <2>9, <1>13, <1>6, <1>8
    <2> QED
        BY <2>1, <2>2, <2>3, <2>4, <2>5, <2>6, <2>7, <2>8, <2>9, <1>4
<1> QED
    BY <1>12, <1>13

\* Nothing leads to a branch, so a new one may lead to any commit.
LEMMA ForkKeepsOrder ==
    ASSUME TypeOK, HistoryOrdered, NEW c \in Clients, ClientInv(c), Commit(c),
           req[c].op = "branch"
    PROVE  /\ \A n \in commits' : <<n, n>> \notin above'
           /\ \A p, q \in above' : p[2] = q[1] => <<p[1], q[2]>> \in above'
<1> DEFINE n == New(c)
           b == anchor[c]
<1>1. /\ pc[c] = "commit" /\ req[c] \in Requests /\ n \in commits /\ old[c] = NoNode
      /\ b \in Branches /\ b \notin commits /\ commits' = commits
    <2>1. pc[c] = "commit" /\ req[c] \in Requests
        BY DEF Commit, TypeOK
    <2>2. BranchInv(c)
        BY <2>1 DEF ClientInv
    <2>3. req[c].branch \in Branches
        BY <2>1, RequestTypes
    <2> QED
        BY <2>1, <2>2, <2>3, HistoryAssumption DEF BranchInv, TypeOK, Commit
<1>2. \A p \in above : p = <<p[1], p[2]>> /\ p[2] \in commits /\ p[2] # b
    BY <1>1 DEF TypeOK
<1>3. Upto(b) = {b}
    BY <1>2 DEF Upto
<1>4. above' = above \cup ({b} \X From(n))
    BY <1>1, <1>3 DEF Commit, Older
<1>5. \A y \in From(n) : y \in commits
    BY <1>1, <1>2 DEF From
<1>6. ASSUME NEW y \in From(n), NEW z, <<y, z>> \in above
      PROVE  z \in From(n)
    <2>1. <<n, z>> \in above
        BY <1>6 DEF From, HistoryOrdered
    <2>2. z \in Nodes
        BY <2>1 DEF TypeOK, Nodes
    <2> QED
        BY <2>1, <2>2 DEF From
<1>7. \A k \in commits' : <<k, k>> \notin above'
    BY <1>1, <1>4 DEF HistoryOrdered
<1>8. ASSUME NEW p \in above', NEW q \in above', p[2] = q[1]
      PROVE  <<p[1], q[2]>> \in above'
    <2> HIDE DEF n, b
    <2>1. CASE p \in above /\ q \in above
        BY <2>1, <1>8, <1>4 DEF HistoryOrdered
    <2>2. CASE q \in {b} \X From(n)
        <3>1. p[2] = b
            BY <2>2, <1>8
        <3> QED
            BY <3>1, <1>1, <1>2, <1>4, <1>5
    <2>3. CASE p \in {b} \X From(n) /\ q \in above
        <3>1. <<p[2], q[2]>> \in above /\ p[2] \in From(n) /\ p[1] = b
            BY <2>3, <1>8, <1>2
        <3>2. q[2] \in From(n)
            BY <3>1, <1>6
        <3> QED
            BY <3>1, <3>2, <1>4
    <2> QED
        BY <2>1, <2>2, <2>3, <1>4
<1> QED
    BY <1>7, <1>8

LEMMA ClientKeepsOrder ==
    ASSUME TypeOK, HistoryOrdered, NEW c \in Clients, ClientInv(c), Client(c)
    PROVE  HistoryOrdered'
<1>1. CASE UNCHANGED database
    BY <1>1 DEF HistoryOrdered, database
<1>2. CASE Commit(c)
    <2>1. pc[c] = "commit" /\ req[c] \in Requests
        BY <1>2 DEF Commit, TypeOK
    <2>2. req[c].op = "commit" \/ (req[c].op = "branch" /\ old[c] = NoNode)
        BY <2>1, RequestTypes DEF ClientInv, LogInv, BranchInv
    <2>3. edges' \subseteq above'
        <3>1. New(c) \in Nodes /\ anchor[c] \in Upto(anchor[c]) /\ New(c) \in From(New(c))
            BY <2>1, RequestTypes DEF New, Nodes, Upto, From
        <3>2. <<anchor[c], New(c)>> \in Upto(anchor[c]) \X From(New(c))
            BY <3>1
        <3>3. old[c] # NoNode => <<New(c), old[c]>> \in Older(c)
            BY DEF Older, From
        <3> QED
            BY <1>2, <3>2, <3>3 DEF Commit, HistoryOrdered
    <2> QED
        BY <1>2, <2>2, <2>3, CommitKeepsOrder, ForkKeepsOrder DEF HistoryOrdered
<1> QED
    BY <1>1, <1>2, OnlyCommitWrites

-----------------------------------------------------------------------------
\* A walk only ever takes an edge down.
LEMMA WalkDescends ==
    ASSUME TypeOK, TrailInv, HistoryOrdered, LogDescends, NEW c \in Clients, Walk(c)
    PROVE  /\ \A i \in 1..Len(trail'[c]) : trail'[c][i] \in commits
           /\ \A i, j \in 1..Len(trail'[c]) :
                  i < j => /\ trail'[c][i] # trail'[c][j]
                           /\ <<trail'[c][i], trail'[c][j]>> \in above
<1> DEFINE w == trail[c]
<1>1. PICK m \in Succ(At(c)) : trail' = [trail EXCEPT ![c] = Append(@, m)]
    BY DEF Walk
<1>2. w \in Seq(Commits) /\ m \in Commits /\ trail'[c] = Append(w, m)
    BY <1>1 DEF TypeOK, Succ
<1>3. m \in commits /\ <<At(c), m>> \in above
    BY <1>1 DEF Succ, TypeOK, HistoryOrdered
<1>4. /\ Len(trail'[c]) = Len(w) + 1 /\ Len(w) \in Nat
      /\ \A i \in 1..Len(w) : trail'[c][i] = w[i]
      /\ trail'[c][Len(w) + 1] = m
    BY <1>2, AppendProperties, LenProperties
<1>5. \A i \in 1..Len(w) : w[i] \in commits
    BY DEF TrailInv
<1>6. ASSUME NEW i \in 1..Len(w)
      PROVE  <<w[i], m>> \in above /\ w[i] # m
    <2>1. w # <<>> /\ At(c) = w[Len(w)] /\ Len(w) \in 1..Len(w)
        BY <1>4, <1>2, LenProperties DEF At
    <2>2. <<w[i], m>> \in above
        <3>1. CASE i = Len(w)
            BY <3>1, <2>1, <1>3
        <3>2. CASE i < Len(w)
            <4>1. <<w[i], w[Len(w)]>> \in above
                BY <3>2, <2>1 DEF LogDescends
            <4> QED
                BY <4>1, <2>1, <1>3 DEF HistoryOrdered
        <3> QED
            BY <3>1, <3>2, <1>4
    <2> QED
        BY <2>2, <1>3 DEF HistoryOrdered
<1>7. \A i \in 1..Len(trail'[c]) : trail'[c][i] \in commits
    BY <1>3, <1>4, <1>5
<1>8. ASSUME NEW i \in 1..Len(trail'[c]), NEW j \in 1..Len(trail'[c]), i < j
      PROVE  /\ trail'[c][i] # trail'[c][j]
             /\ <<trail'[c][i], trail'[c][j]>> \in above
    <2>0. i \in 1..Len(w)
        BY <1>8, <1>4
    <2>1. CASE j \in 1..Len(w)
        <3>1. w[i] # w[j] /\ <<w[i], w[j]>> \in above
            BY <2>0, <2>1, <1>8 DEF LogDescends
        <3> QED
            BY <3>1, <2>0, <2>1, <1>4
    <2>2. CASE j = Len(w) + 1
        BY <2>0, <2>2, <1>6, <1>4
    <2> QED
        BY <2>1, <2>2, <1>4
<1> QED
    BY <1>7, <1>8

\* Every other step leaves a trail or ends it.
LEMMA TrailSteps ==
    ASSUME TypeOK, NEW c \in Clients, Client(c)
    PROVE  Walk(c) \/ trail'[c] = trail[c] \/ trail'[c] = <<>>
<1>1. ASSUME NEW result, End(c, result) PROVE trail'[c] = <<>>
    BY <1>1 DEF End, TypeOK
<1> QED
    BY <1>1 DEF Client, Request, GetBranch, SaveBranch, UniqueEnd, BeforeEnd, LogEnd, Create,
       Own, Read, Match, Replace, Connect, Commit, Fail, Rollback, TypeOK

LEMMA ClientKeepsTrails ==
    ASSUME TypeOK, TrailInv, HistoryOrdered, LogDescends,
           NEW c \in Clients, ClientInv(c), Client(c)
    PROVE  TrailInv' /\ LogDescends'
<1>1. commits \subseteq commits' /\ above \subseteq above'
    BY OnlyCommitWrites, CommitGrows DEF database
<1>2. ASSUME NEW d \in Clients
      PROVE  /\ \A i \in 1..Len(trail'[d]) : trail'[d][i] \in commits
             /\ \A i, j \in 1..Len(trail'[d]) :
                    i < j => /\ trail'[d][i] # trail'[d][j]
                             /\ <<trail'[d][i], trail'[d][j]>> \in above
    <2>1. CASE trail'[d] = trail[d]
        BY <2>1 DEF TrailInv, LogDescends
    <2>2. CASE trail'[d] = <<>>
        BY <2>2
    <2>3. CASE d = c /\ Walk(c)
        BY <2>3, WalkDescends
    <2> QED
        BY <2>1, <2>2, <2>3, TrailSteps, OthersStay
<1> QED
    BY <1>1, <1>2 DEF TrailInv, LogDescends

LEMMA InitInv == Init => IInv
<1> SUFFICES ASSUME Init PROVE IInv
    OBVIOUS
<1>1. \A c \in Clients : pc[c] = "idle" /\ old[c] = NoNode /\ trail[c] = <<>>
    BY DEF Init
<1>2. \A c \in Clients : ClientInv(c)
    BY <1>1 DEF ClientInv, IdleInv
<1>3. TrailInv /\ LogDescends
    BY <1>1 DEF TrailInv, LogDescends
<1>4. HistoryOrdered
    BY DEF Init, HistoryOrdered
<1> QED
    BY <1>2, <1>3, <1>4, InitTypes DEF IInv

LEMMA NextInv == IInv /\ [Next]_vars => IInv'
<1>1. ASSUME IInv, NEW c \in Clients, Client(c)
      PROVE  IInv'
    <2>1. ClientInv(c)
        BY <1>1 DEF IInv
    <2>2. TypeOK'
        BY <1>1, <2>1, ClientTypes DEF IInv
    <2>3. \A d \in Clients : ClientInv(d)'
        BY <1>1, <2>1, OthersKeepInv, OwnStepInv DEF IInv
    <2>4. HistoryOrdered'
        BY <1>1, <2>1, ClientKeepsOrder DEF IInv
    <2>5. TrailInv' /\ LogDescends'
        BY <1>1, <2>1, ClientKeepsTrails DEF IInv
    <2> QED
        BY <2>2, <2>3, <2>4, <2>5 DEF IInv
<1>2. ASSUME IInv, UNCHANGED vars
      PROVE  IInv'
    <2>1. TypeOK'
        BY <1>2 DEF IInv, TypeOK, vars, database, clientVars
    <2>2. \A d \in Clients : ClientInv(d)'
        BY <1>2 DEF IInv, ClientInv, IdleInv, LogInv, BranchInv, CommitInv, New,
           vars, database, clientVars
    <2>3. HistoryOrdered' /\ TrailInv' /\ LogDescends'
        BY <1>2 DEF IInv, HistoryOrdered, TrailInv, LogDescends, vars, database, clientVars
    <2> QED
        BY <2>1, <2>2, <2>3 DEF IInv
<1> QED
    BY <1>1, <1>2 DEF Next, Terminated

LEMMA HistoryInvariant == Spec => []IInv
BY InitInv, NextInv, PTL DEF Spec

\* Every variable keeps its type, whoever interleaves with whom.
THEOREM TypeCorrect == Spec => []TypeOK
<1>1. IInv => TypeOK
    BY DEF IInv
<1> QED
    BY <1>1, HistoryInvariant, PTL

\* No interleaving of commits, inserts and new branches by any number of clients makes
\* a cycle of HAS_PREVIOUS: there is one strict order that all edges follow.
THEOREM HistoryStaysOrdered == Spec => []HistoryOrdered
<1>1. IInv => HistoryOrdered
    BY DEF IInv
<1> QED
    BY <1>1, HistoryInvariant, PTL

\* iter_commits, one query per commit with commits of others in between, yields
\* every commit at most once and newest first.
THEOREM LogsDescend == Spec => []LogDescends
<1>1. IInv => LogDescends
    BY DEF IInv
<1> QED
    BY <1>1, HistoryInvariant, PTL

-----------------------------------------------------------------------------
(* What holds until a commit overtakes another one *)

\* Once replace() has matched, the edge to the commit that was read is among
\* those it deletes, or is gone.
Matched(c) == pc[c] \in {"replace", "commit"} \/ (pc[c] = "connect" /\ ~Inserts(c))

SeenInv(c) == Matched(c) /\ <<anchor[c], old[c]>> \in edges => old[c] \in seen[c]

\* Each commit is the head of a branch or the previous one of a commit.
Linked == \A k \in commits : \E n \in branches \cup commits : k \in Succ(n)

LinearInv ==
    /\ IInv /\ \A c \in Clients : SeenInv(c)
    /\ ~overtaken => HistoryLinear /\ Linked

\* An edge is added to a commit that is new, or to one by a branch that is new.
LEMMA NewEdges ==
    ASSUME IInv, NEW c \in Clients, Commit(c), NEW e \in edges', e \notin edges
    PROVE  \/ e[1] = New(c) /\ New(c) \notin commits
           \/ e[2] = New(c) /\ New(c) \notin commits
           \/ e[1] \in Branches /\ e[1] \notin branches
<1>1. pc[c] = "commit" /\ req[c] \in Requests
    BY DEF Commit, IInv, TypeOK
<1>2. /\ req[c].op \in {"commit", "branch"} /\ req[c].branch \in Branches
      /\ req[c].op = "branch" => /\ anchor[c] = req[c].branch /\ old[c] = NoNode
                                 /\ req[c].branch \notin branches
      /\ req[c].op = "commit" => New(c) \notin commits
    BY <1>1, RequestTypes DEF IInv, ClientInv, LogInv, BranchInv, CommitInv, Owning
<1>3. \/ e = <<anchor[c], New(c)>>
      \/ e = <<New(c), old[c]>> /\ old[c] # NoNode
    BY DEF Commit
<1> QED
    BY <1>2, <1>3

\* So what a client matched, or missed, stays so.
LEMMA OthersKeepSeen ==
    ASSUME IInv, NEW c \in Clients, Client(c), NEW d \in Clients, d # c, SeenInv(d)
    PROVE  SeenInv(d)'
<1>1. /\ pc'[d] = pc[d] /\ req'[d] = req[d] /\ anchor'[d] = anchor[d]
      /\ old'[d] = old[d] /\ seen'[d] = seen[d]
    BY OthersStay DEF IInv
<1>2. CASE UNCHANGED database
    BY <1>1, <1>2 DEF SeenInv, Matched, Inserts, database
<1>3. CASE Commit(c)
    <2> SUFFICES ASSUME Matched(d), <<anchor[d], old[d]>> \in edges'
                 PROVE  old[d] \in seen[d]
        BY <1>1 DEF SeenInv, Matched, Inserts
    <2>1. CASE <<anchor[d], old[d]>> \in edges
        BY <2>1 DEF SeenInv
    <2>2. CASE <<anchor[d], old[d]>> \notin edges
        <3>1. edges' \subseteq (branches' \cup commits') \X commits' /\ commits' \subseteq Commits
            BY NextInv, <1>3 DEF Next, Client, IInv, TypeOK
        <3>2. old[d] \in Commits /\ NoNode \notin Commits
            BY <3>1, HistoryAssumption DEF Nodes
        <3>3. pc[d] # "idle" /\ req[d] \in Requests
            BY DEF Matched, IInv, TypeOK
        <3>4. /\ req[d].op = "commit" /\ req[d].branch \in Branches
              /\ old[d] \in commits
              /\ <<anchor[d], old[d]>> \in above
            BY <3>2, <3>3, RequestTypes DEF IInv, ClientInv, LogInv, BranchInv, CommitInv
        <3>5. anchor[d] \in branches \cup commits
            BY <3>4 DEF IInv, TypeOK
        <3>6. \/ anchor[d] = New(c) /\ New(c) \notin commits
              \/ anchor[d] \in Branches /\ anchor[d] \notin branches
            BY <3>4, <2>2, <1>3, NewEdges
        <3>7. New(c) \in Commits
            BY <1>3, RequestTypes DEF New, Commit, IInv, TypeOK
        <3> QED
            BY <3>5, <3>6, <3>7, HistoryAssumption DEF IInv, TypeOK
    <2> QED
        BY <2>1, <2>2
<1> QED
    BY <1>2, <1>3, OnlyCommitWrites

\* A client's own steps
LEMMA OwnStepSeen ==
    ASSUME IInv, NEW c \in Clients, Client(c), SeenInv(c)
    PROVE  SeenInv(c)'
<1>1. CASE Matched(c)'
    <2>1. pc'[c] \in {"replace", "connect", "commit"}
        BY <1>1 DEF Matched
    <2>2. ASSUME NEW result, End(c, result) PROVE FALSE
        BY <2>2, <2>1 DEF End, Goto, IInv, TypeOK
    <2>3. ASSUME NEW result, Rollback(c, result) PROVE FALSE
        BY <2>2, <2>3 DEF Rollback
    <2>4. pc[c] \in {"read", "match", "replace", "connect"}
        BY <2>1, <2>2, <2>3 DEF Client, Request, GetBranch, SaveBranch, Walk, UniqueEnd,
           BeforeEnd, LogEnd, AfterUnique, Create, Own, Read, Match, Replace, Connect, Commit,
           Fail, Goto, IInv, TypeOK
    <2>5. Read(c) \/ Match(c) \/ Replace(c) \/ Connect(c)
        BY <2>1, <2>2, <2>3, <2>4 DEF Client, Request, GetBranch, SaveBranch, Walk, UniqueEnd,
           BeforeEnd, LogEnd, Create, Own, Commit, Fail
    <2>6. CASE Read(c)
        <3>1. pc'[c] = "connect" => Inserts(c)
            BY <2>6 DEF Read, Goto, IInv, TypeOK
        <3>2. req' = req /\ pc'[c] \in {"match", "connect"}
            BY <2>6 DEF Read, Goto, IInv, TypeOK
        <3> QED
            BY <3>1, <3>2, <1>1 DEF Matched, Inserts
    <2>7. CASE Match(c)
        <3>1. /\ seen'[c] = Succ(anchor[c]) /\ anchor' = anchor /\ old' = old /\ edges' = edges
            BY <2>7 DEF Match, IInv, TypeOK, database
        <3>2. \A n, m : <<n, m>> \in edges => m \in Succ(n)
            BY DEF Succ, IInv, TypeOK
        <3> QED
            BY <3>1, <3>2 DEF SeenInv
    <2>8. CASE Replace(c)
        <3>1. UNCHANGED <<database, req, anchor, old, seen>> /\ pc[c] = "replace"
            BY <2>8 DEF Replace
        <3> QED
            BY <3>1 DEF SeenInv, Matched, database
    <2>9. CASE Connect(c)
        <3>1. /\ UNCHANGED <<database, req, anchor, old, seen>> /\ pc[c] = "connect"
              /\ pc'[c] = "commit" => ~Inserts(c)
              /\ pc'[c] \in {"commit", "match"}
            BY <2>9 DEF Connect, Goto, IInv, TypeOK
        <3> QED
            BY <3>1, <1>1 DEF SeenInv, Matched, database, Inserts
    <2> QED
        BY <2>5, <2>6, <2>7, <2>8, <2>9
<1>2. CASE ~Matched(c)'
    BY <1>2 DEF SeenInv
<1> QED
    BY <1>1, <1>2

\* A commit that overtakes none replaces what is behind its anchor, all of it,
\* and puts that behind itself.
LEMMA CommitKeepsLinear ==
    ASSUME IInv, NEW c \in Clients, SeenInv(c), Commit(c), HistoryLinear, Linked, ~overtaken'
    PROVE  HistoryLinear' /\ Linked'
<1> DEFINE a == anchor[c]
           n == New(c)
           o == old[c]
<1>1. /\ pc[c] = "commit" /\ req[c] \in Requests /\ n \in Commits
      /\ req[c].op \in {"commit", "branch"}
    BY RequestTypes DEF Commit, IInv, TypeOK, New, ClientInv, LogInv
<1>2. Succ(a) = IF o = NoNode THEN {} ELSE {o}
    BY DEF Commit
<1>3. /\ edges' = (edges \ ({a} \X seen[c])) \cup {<<a, n>>}
                  \cup (IF o = NoNode THEN {} ELSE {<<n, o>>})
      /\ branches' = branches \cup {req[c].branch} /\ commits' = commits \cup {n}
    BY DEF Commit
<1>4. TypeOK'
    BY NextInv DEF Next, Client, IInv
<1>5. o # NoNode => o \in seen[c]
    <2>1. o # NoNode => <<a, o>> \in edges
        BY <1>2 DEF Succ
    <2> QED
        BY <1>1, <2>1 DEF SeenInv, Matched
<1>6. \A m : <<a, m>> \in edges' => m = n \/ m = o
    <2>1. \A m : <<a, m>> \in edges => m \in Succ(a)
        BY DEF Succ, IInv, TypeOK
    <2> QED
        BY <2>1, <1>2, <1>3
<1>7. /\ o # NoNode => n \notin commits /\ a # n /\ o # n
      /\ a = req[c].branch \/ a \in commits
      /\ n \notin Branches
    <2>1. /\ req[c].branch \in Branches /\ n \notin Branches
          /\ commits \subseteq Commits /\ req[c].branch \notin commits
        BY <1>1, RequestTypes, HistoryAssumption DEF IInv, TypeOK
    <2>2. CASE req[c].op = "branch"
        BY <1>1, <2>1, <2>2 DEF IInv, ClientInv, BranchInv
    <2>3. CASE req[c].op = "commit"
        <3>1. CommitInv(c)
            BY <1>1 DEF IInv, ClientInv
        <3>2. n \notin commits /\ (a = req[c].branch \/ a \in commits)
            BY <3>1, <1>1, <2>3 DEF CommitInv, Owning
        <3>3. o # NoNode => o \in commits
            BY <3>1, <2>3 DEF CommitInv
        <3> QED
            BY <3>2, <3>3, <2>1
    <2> QED
        BY <1>1, <2>2, <2>3, <2>1
<1>8. \A m : <<a, m>> \in edges' => m = n
    <2>1. o # NoNode => <<a, o>> \notin edges'
        BY <1>3, <1>5, <1>7
    <2>2. ASSUME o = NoNode, NEW m, <<a, m>> \in edges' PROVE m = n
        BY <2>2, <1>2, <1>3 DEF Succ, IInv, TypeOK
    <2> QED
        BY <2>1, <2>2, <1>6
<1>9. HistoryLinear'
    <2> SUFFICES ASSUME NEW k \in branches' \cup commits',
                        NEW m \in Commits, NEW l \in Commits,
                        <<k, m>> \in edges', <<k, l>> \in edges'
                 PROVE  m = l
        BY DEF HistoryLinear, Succ
    <2>1. CASE k = a
        BY <2>1, <1>8
    <2>2. CASE k = n /\ k # a /\ o # NoNode
        BY <2>2, <1>3, <1>7 DEF IInv, TypeOK
    <2>3. CASE k # a /\ ~(k = n /\ o # NoNode)
        <3>1. <<k, m>> \in edges /\ <<k, l>> \in edges
            BY <2>3, <1>3
        <3>2. k \in branches \cup commits
            BY <3>1 DEF IInv, TypeOK
        <3> QED
            BY <3>1, <3>2 DEF HistoryLinear, Succ
    <2> QED
        BY <2>1, <2>2, <2>3
<1>10. Linked'
    <2> SUFFICES ASSUME NEW k \in commits'
                 PROVE  \E p \in branches' \cup commits' : k \in Commits /\ <<p, k>> \in edges'
        BY DEF Linked, Succ
    <2>1. k \in Commits
        BY <1>4 DEF TypeOK
    <2>2. CASE k = n
        BY <2>1, <2>2, <1>3, <1>4 DEF TypeOK
    <2>3. CASE k # n /\ k = o /\ o # NoNode
        BY <2>1, <2>3, <1>3
    <2>4. CASE k # n /\ ~(k = o /\ o # NoNode)
        <3>1. k \in commits
            BY <2>4, <1>3
        <3>2. PICK p \in branches \cup commits : <<p, k>> \in edges /\ k \in Succ(p)
            BY <3>1 DEF Linked, Succ
        <3>3. p # a
            BY <3>2, <1>2, <2>4
        <3>4. <<p, k>> \in edges'
            BY <3>2, <3>3, <1>3
        <3> QED
            BY <3>2, <3>4, <2>1, <1>3
    <2> QED
        BY <2>2, <2>3, <2>4
<1> QED
    BY <1>9, <1>10

LEMMA LinearInvariant == Spec => []LinearInv
<1>1. Init => LinearInv
    <2> SUFFICES ASSUME Init PROVE LinearInv
        OBVIOUS
    <2>1. \A c \in Clients : SeenInv(c)
        BY DEF Init, SeenInv, Matched
    <2>2. HistoryLinear /\ Linked
        BY DEF Init, HistoryLinear, Linked, Succ
    <2> QED
        BY <2>1, <2>2, InitInv DEF LinearInv
<1>2. ASSUME LinearInv, NEW c \in Clients, Client(c)
      PROVE  LinearInv'
    <2>1. IInv'
        BY <1>2, NextInv DEF LinearInv, Next
    <2>2. \A d \in Clients : SeenInv(d)'
        BY <1>2, OthersKeepSeen, OwnStepSeen DEF LinearInv
    <2>3. ~overtaken' => HistoryLinear' /\ Linked'
        <3>1. CASE UNCHANGED database
            BY <3>1, <1>2 DEF LinearInv, HistoryLinear, Linked, Succ, database
        <3>2. CASE Commit(c)
            <4>1. ~overtaken' => ~overtaken
                BY <3>2 DEF Commit
            <4> QED
                BY <4>1, <3>2, <1>2, CommitKeepsLinear DEF LinearInv
        <3> QED
            BY <3>1, <3>2, <1>2, OnlyCommitWrites
    <2> QED
        BY <2>1, <2>2, <2>3 DEF LinearInv
<1>3. ASSUME LinearInv, UNCHANGED vars
      PROVE  LinearInv'
    <2>1. IInv'
        BY <1>3, NextInv DEF LinearInv
    <2>2. \A d \in Clients : SeenInv(d)'
        BY <1>3 DEF LinearInv, SeenInv, Matched, Inserts, vars, database, clientVars
    <2>3. ~overtaken' => HistoryLinear' /\ Linked'
        BY <1>3 DEF LinearInv, HistoryLinear, Linked, Succ, vars, database
    <2> QED
        BY <2>1, <2>2, <2>3 DEF LinearInv
<1>4. LinearInv /\ [Next]_vars => LinearInv'
    BY <1>2, <1>3 DEF Next, Terminated
<1> QED
    BY <1>1, <1>4, PTL DEF Spec

\* Until a commit overtakes another one, a branch or a commit has one successor
\* at most: what any number of clients do in turn leaves a list.
THEOREM OvertakingForks == Spec => []OnlyOvertakingForks
<1>1. LinearInv => OnlyOvertakingForks
    BY DEF LinearInv, OnlyOvertakingForks
<1> QED
    BY <1>1, LinearInvariant, PTL

\* And until then every commit is tracked by a branch or the previous one of a
\* commit; as no edge leads up (HistoryStaysOrdered), it is in the history of a branch.
THEOREM OvertakingUnlinks == Spec => [](~overtaken => Linked)
<1>1. LinearInv => (~overtaken => Linked)
    BY DEF LinearInv
<1> QED
    BY <1>1, LinearInvariant, PTL
=============================================================================
