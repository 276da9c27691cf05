---------------------------- MODULE CommitLogProofs ----------------------------
(***************************************************************************)
(* What a branch leads to and what log yields: proofs about CommitHistory. *)
(*                                                                         *)
(* As long as no commit overtakes another, what a client has walked over   *)
(* and chosen stays in its branch (HistoryInv), so a commit loses none     *)
(* and a unique one finds its namesake; and the graph of the branches is   *)
(* BranchLog, with the walk from each branch for its log: each commit does *)
(* to all of them what one step of BranchLog does.                         *)
(*                                                                         *)
(* Reach is a least set closed under the edges, and Walks the set of the   *)
(* sequences that follow them, so that what one leads to and the other     *)
(* holds is proved without induction: from least elements.                 *)
(***************************************************************************)
EXTENDS CommitHistoryProofs, FiniteSetTheorems

-----------------------------------------------------------------------------
(* Least elements, in place of induction *)

LEMMA LeastNat ==
    ASSUME NEW T \in SUBSET Nat, T # {}
    PROVE  \E m \in T : \A k \in T : m <= k
<1>1. \E m \in T : \A k \in T : ~(<<k, m>> \in OpToRel(<, Nat))
    BY NatLessThanWellFounded, WFMin
<1>2. PICK m \in T : \A k \in T : <<k, m>> \notin OpToRel(<, Nat)
    BY <1>1
<1>3. \A k \in T : ~(k < m)
    BY <1>2 DEF OpToRel
<1> QED
    BY <1>3

\* Of finitely many elements there is one that no other one is above.
LEMMA FiniteTop ==
    ASSUME NEW S, IsFiniteSet(S), S # {}, NEW R,
           \A x \in S : <<x, x>> \notin R,
           \A x, y, z \in S : <<x, y>> \in R /\ <<y, z>> \in R => <<x, z>> \in R
    PROVE  \E x \in S : \A y \in S : <<y, x>> \notin R
<1> DEFINE Over(x) == {y \in S : <<y, x>> \in R}
           f == [x \in S |-> Cardinality(Over(x))]
           T == {k \in Nat : \E x \in S : f[x] = k}
<1>1. \A x \in S : IsFiniteSet(Over(x)) /\ Cardinality(Over(x)) \in Nat
    BY FS_Subset, FS_CardinalityType
<1>2. \A x \in S : f[x] = Cardinality(Over(x)) /\ f[x] \in Nat
    BY <1>1
<1> HIDE DEF f
<1>3. T \in SUBSET Nat /\ T # {}
    BY <1>2
<1>4. PICK m \in T : \A k \in T : m <= k
    BY <1>3, LeastNat
<1>5. PICK x \in S : f[x] = m
    OBVIOUS
<1>6. \A y \in S : f[x] <= f[y]
    BY <1>2, <1>4, <1>5
<1>7. ASSUME NEW y \in S, <<y, x>> \in R PROVE FALSE
    <2>1. Over(y) \subseteq Over(x) /\ y \in Over(x) /\ y \notin Over(y)
        BY <1>7
    <2>2. /\ Cardinality(Over(y)) <= Cardinality(Over(x))
          /\ Cardinality(Over(y)) = Cardinality(Over(x)) => Over(y) = Over(x)
        BY <1>1, <2>1, FS_Subset
    <2>3. f[x] = f[y]
        BY <1>2, <1>6, <2>2
    <2> QED
        BY <1>2, <2>1, <2>2, <2>3
<1> QED
    BY <1>7

-----------------------------------------------------------------------------
(* What a node leads to *)

LEMMA ReachHas == ASSUME NEW n PROVE n \in Reach(n) /\ Reach(n) \subseteq Nearby(n)
BY DEF Reach, Nearby

LEMMA ReachLeast ==
    ASSUME NEW n, NEW S \in SUBSET Nearby(n), n \in S,
           \A e \in edges : e[1] \in S => e[2] \in S
    PROVE  Reach(n) \subseteq S
BY DEF Reach

LEMMA ReachCloses ==
    ASSUME TypeOK, NEW n, NEW e \in edges, e[1] \in Reach(n)
    PROVE  e[2] \in Reach(n)
<1>1. e[2] \in Nearby(n)
    BY DEF TypeOK, Nearby
<1> QED
    BY <1>1 DEF Reach

\* What n leads to besides itself, a successor of it leads to.
LEMMA ReachStep ==
    ASSUME TypeOK, NEW n, NEW x \in Reach(n), x # n
    PROVE  \E m \in Succ(n) : x \in Reach(m)
<1> DEFINE S == {y \in Nearby(n) : y = n \/ \E m \in Succ(n) : y \in Reach(m)}
<1>1. n \in S
    BY DEF Nearby
<1>2. ASSUME NEW e \in edges, e[1] \in S PROVE e[2] \in S
    <2>1. e = <<e[1], e[2]>> /\ e[2] \in commits /\ e[2] \in Commits
        BY DEF TypeOK
    <2>2. CASE e[1] = n
        BY <2>1, <2>2, ReachHas DEF Succ, Nearby
    <2>3. CASE \E m \in Succ(n) : e[1] \in Reach(m)
        BY <2>1, <2>3, ReachCloses DEF Nearby
    <2> QED
        BY <1>2, <2>2, <2>3
<1>3. Reach(n) \subseteq S
    BY <1>1, <1>2, ReachLeast
<1> QED
    BY <1>3

LEMMA ReachGoesOn ==
    ASSUME TypeOK, NEW n, NEW m \in Reach(n)
    PROVE  Reach(m) \subseteq Reach(n)
<1> DEFINE S == Reach(n) \cap Nearby(m)
<1>1. m \in S
    BY ReachHas DEF Nearby
<1>2. ASSUME NEW e \in edges, e[1] \in S PROVE e[2] \in S
    BY <1>2, ReachCloses DEF TypeOK, Nearby
<1> QED
    BY <1>1, <1>2, ReachLeast

LEMMA ReachNowhere ==
    ASSUME TypeOK, NEW n, n \notin branches \cup commits
    PROVE  Reach(n) = {n}
<1>1. \A e \in edges : e[1] # n
    BY DEF TypeOK
<1>2. Reach(n) \subseteq {n}
    BY <1>1, ReachLeast DEF Nearby
<1> QED
    BY <1>2, ReachHas

\* The same of the state after a step
ReachLaws ==
    \A n : /\ n \in Reach(n)
           /\ \A e \in edges : e[1] \in Reach(n) => e[2] \in Reach(n)
           /\ \A S \in SUBSET Nearby(n) :
                  n \in S /\ (\A e \in edges : e[1] \in S => e[2] \in S) => Reach(n) \subseteq S

LEMMA ReachLawsNext == TypeOK' => ReachLaws'
<1>1. TypeOK => ReachLaws
    <2> SUFFICES ASSUME TypeOK, NEW n
                 PROVE  /\ n \in Reach(n)
                        /\ \A e \in edges : e[1] \in Reach(n) => e[2] \in Reach(n)
                        /\ \A S \in SUBSET Nearby(n) :
                               n \in S /\ (\A e \in edges : e[1] \in S => e[2] \in S)
                                   => Reach(n) \subseteq S
        BY DEF ReachLaws
    <2> QED
        BY ReachHas, ReachCloses, ReachLeast
<1> QED
    BY <1>1, PTL

-----------------------------------------------------------------------------
(* What the commit of a client does to the graph, unless it overtakes another *)

LEMMA EdgeEnds ==
    ASSUME TypeOK, NEW e \in edges
    PROVE  e = <<e[1], e[2]>> /\ e[2] \in Succ(e[1])
<1>1. e = <<e[1], e[2]>> /\ e[2] \in Commits
    BY DEF TypeOK
<1> QED
    BY <1>1 DEF Succ

LEMMA CommitEffect ==
    ASSUME IInv, NEW c \in Clients, SeenInv(c), Commit(c), ~overtaken'
    PROVE  /\ ~overtaken /\ pc[c] = "commit" /\ pc'[c] = "idle" /\ req[c] \in Requests
           /\ req[c].op \in {"commit", "branch"} /\ req[c].branch \in Branches
           /\ New(c) \in Commits /\ New(c) \notin Branches /\ anchor[c] # New(c)
           /\ Succ(anchor[c]) = IF old[c] = NoNode THEN {} ELSE {old[c]}
           /\ edges' = {e \in edges : e[1] # anchor[c]} \cup {<<anchor[c], New(c)>>}
                       \cup (IF old[c] = NoNode THEN {} ELSE {<<New(c), old[c]>>})
           /\ branches' = branches \cup {req[c].branch} /\ commits' = commits \cup {New(c)}
           /\ req[c].op = "branch" =>
                  /\ old[c] = NoNode /\ anchor[c] = req[c].branch
                  /\ req[c].branch \notin branches /\ New(c) \in commits
           /\ req[c].op = "commit" =>
                  /\ New(c) \notin commits
                  /\ anchor[c] = req[c].branch \/ anchor[c] \in commits
                  /\ old[c] # NoNode => old[c] \in commits
<1> DEFINE a == anchor[c]
           n == New(c)
           o == old[c]
<1>1. /\ pc[c] = "commit" /\ req[c] \in Requests /\ ~overtaken /\ pc'[c] = "idle"
      /\ Succ(a) = IF o = NoNode THEN {} ELSE {o}
      /\ edges' = (edges \ ({a} \X seen[c])) \cup {<<a, n>>}
                  \cup (IF o = NoNode THEN {} ELSE {<<n, o>>})
      /\ branches' = branches \cup {req[c].branch} /\ commits' = commits \cup {n}
    BY DEF Commit, IInv, TypeOK, End, Goto
<1>2. /\ n \in Commits /\ n \notin Branches /\ req[c].op \in {"commit", "branch"}
      /\ req[c].branch \in Branches
    BY <1>1, RequestTypes, HistoryAssumption DEF IInv, ClientInv, LogInv, New
<1>3. req[c].op = "branch" => /\ o = NoNode /\ a = req[c].branch
                              /\ req[c].branch \notin branches /\ n \in commits
    BY <1>1 DEF IInv, ClientInv, BranchInv, Owning
<1>4. req[c].op = "commit" => /\ n \notin commits /\ (a = req[c].branch \/ a \in commits)
                              /\ o # NoNode => o \in commits
    BY <1>1 DEF IInv, ClientInv, CommitInv, Owning
<1>5. a # n
    BY <1>2, <1>3, <1>4
<1>6. \A e \in edges : e = <<e[1], e[2]>> /\ (e[1] = a => e[2] \in Succ(a))
    BY EdgeEnds DEF IInv
<1>7. o # NoNode /\ <<a, o>> \in edges => o \in seen[c]
    BY <1>1 DEF SeenInv, Matched
<1>8. edges \ ({a} \X seen[c]) = {e \in edges : e[1] # a}
    <2>1. ASSUME NEW e \in edges, e[1] = a PROVE e \in {a} \X seen[c]
        <3>1. e = <<a, o>> /\ o # NoNode
            BY <2>1, <1>1, <1>6
        <3> QED
            BY <3>1, <1>7
    <2> QED
        BY <2>1
<1> QED
    BY <1>1, <1>2, <1>3, <1>4, <1>5, <1>8

\* It takes nothing away from what a node leads to, and adds its commit only.
LEMMA CommitReach ==
    ASSUME IInv, NEW c \in Clients, SeenInv(c), Commit(c), ~overtaken', NEW n
    PROVE  /\ Reach(n) \subseteq Reach(n)'
           /\ n \in branches \cup commits => Reach(n)' \cap (branches \cup commits) \subseteq Reach(n)
<1> DEFINE a == anchor[c]
           k == New(c)
           o == old[c]
<1>0. TypeOK /\ TypeOK'
    BY NextInv DEF Next, Client, IInv
<1>1. /\ Succ(a) = IF o = NoNode THEN {} ELSE {o}
      /\ edges' = {e \in edges : e[1] # a} \cup {<<a, k>>}
                  \cup (IF o = NoNode THEN {} ELSE {<<k, o>>})
      /\ branches \subseteq branches' /\ commits' = commits \cup {k}
      /\ \/ o = NoNode /\ a \notin branches \cup commits
         \/ k \notin branches \cup commits
    BY <1>0, CommitEffect, HistoryAssumption DEF TypeOK
<1> HIDE DEF a, k, o
<1>2. \A e \in edges : e = <<e[1], e[2]>> /\ (e[1] = a => e[2] \in Succ(a))
    BY <1>0, EdgeEnds
<1>3. Reach(n) \subseteq Reach(n)'
    <2> DEFINE S == Nearby(n) \cap Reach(n)'
    <2>1. n \in Reach(n)' /\ n \in Nearby(n)
        BY <1>0, ReachLawsNext DEF ReachLaws, Nearby
    <2>2. \A e \in edges' : e[1] \in Reach(n)' => e[2] \in Reach(n)'
        BY <1>0, ReachLawsNext DEF ReachLaws
    <2>3. ASSUME NEW e \in edges, e[1] \in S PROVE e[2] \in S
        <3>1. e[2] \in Nearby(n)
            BY <1>0 DEF TypeOK, Nearby
        <3>2. CASE e \in edges'
            BY <2>2, <2>3, <3>1, <3>2
        <3>3. CASE e \notin edges'
            <4>1. e[1] = a /\ o # NoNode /\ e[2] = o
                BY <3>3, <1>1, <1>2
            <4>2. <<a, k>> \in edges' /\ <<k, o>> \in edges'
                BY <4>1, <1>1
            <4>3. o \in Reach(n)'
                BY <4>1, <4>2, <2>2, <2>3
            <4> QED
                BY <4>1, <4>3, <3>1
        <3> QED
            BY <3>2, <3>3
    <2> QED
        BY <2>1, <2>3, ReachLeast
<1>4. ASSUME n \in branches \cup commits
      PROVE  Reach(n)' \cap (branches \cup commits) \subseteq Reach(n)
    <2>1. n \in Reach(n) /\ Reach(n) \subseteq branches \cup commits
        BY <1>4, ReachHas DEF Nearby
    <2>2. \A e \in edges : e[1] \in Reach(n) => e[2] \in Reach(n)
        BY <1>0, ReachCloses
    <2> DEFINE S == IF a \in Reach(n) THEN Reach(n) \cup {k} ELSE Reach(n)
    <2>3. ASSUME NEW e \in edges', e[1] \in S PROVE e[2] \in S
        <3>1. CASE e \in edges /\ e[1] # k
            BY <3>1, <2>2, <2>3
        <3>2. CASE e \in edges /\ e[1] = k
            <4>1. k \in branches \cup commits
                BY <3>2, <1>0 DEF TypeOK
            <4>2. a \notin Reach(n)
                BY <4>1, <1>1, <2>1
            <4> QED
                BY <3>2, <4>2, <2>2, <2>3
        <3>3. CASE e = <<a, k>>
            <4>1. e[1] = a /\ e[2] = k
                BY <3>3
            <4>2. a = k => k \in S
                BY <4>1, <2>3
            <4> QED
                BY <4>1, <4>2, <2>3
        <3>4. CASE e = <<k, o>> /\ o # NoNode
            <4>1. e[1] = k /\ e[2] = o /\ k \notin Reach(n)
                BY <3>4, <1>1, <2>1
            <4>2. a \in Reach(n)
                BY <4>1, <2>3
            <4>3. <<a, o>> \in edges
                BY <1>1, <3>4 DEF Succ
            <4>4. o \in Reach(n)
                BY <4>2, <4>3, <2>2
            <4> QED
                BY <4>1, <4>4
        <3> QED
            BY <1>1, <3>1, <3>2, <3>3, <3>4
    <2>4. S \in SUBSET Nearby(n)' /\ n \in S
        BY <2>1, <1>1 DEF Nearby
    <2>5. \A T \in SUBSET Nearby(n)' :
              n \in T /\ (\A e \in edges' : e[1] \in T => e[2] \in T) => Reach(n)' \subseteq T
        BY <1>0, ReachLawsNext DEF ReachLaws
    <2>6. Reach(n)' \subseteq S
        BY <2>3, <2>4, <2>5
    <2> QED
        BY <2>1, <2>6, <1>1
<1> QED
    BY <1>3, <1>4

LEMMA SameReach == UNCHANGED database => \A n : Reach(n)' = Reach(n)
BY DEF Reach, Nearby, database

\* So whoever takes a step, what a node led to it still leads to, and to nothing else
\* that was there.
LEMMA StepReach ==
    ASSUME LinearInv, NEW c \in Clients, Client(c), ~overtaken', NEW n
    PROVE  /\ Reach(n) \subseteq Reach(n)'
           /\ n \in branches \cup commits => Reach(n)' \cap (branches \cup commits) \subseteq Reach(n)
<1>1. CASE Commit(c)
    BY <1>1, CommitReach DEF LinearInv
<1>2. CASE UNCHANGED database
    BY <1>2, SameReach
<1> QED
    BY <1>1, <1>2, OnlyCommitWrites

-----------------------------------------------------------------------------
(* What a client has found in its branch *)

Placed(c) == pc[c] = "create" \/ pc[c] \in Owning

\* The course of a commit, as far as the anchor
ShapeInv(c) ==
    /\ known[c] \subseteq commits
    /\ pc[c] = "unique" => req[c].unique /\ req[c].branch \in branches
    /\ pc[c] # "idle" /\ req[c].op = "commit" =>
           /\ pc[c] \in {"get", "save_branch", "create"} \cup Owning => trail[c] = <<>>
           /\ pc[c] = "before" => Inserts(c)
           /\ ~Placed(c) => anchor[c] = req[c].branch
           /\ Placed(c) => IF Inserts(c)
                           THEN anchor[c] \in commits /\ anchor[c].name = req[c].before
                           ELSE anchor[c] = req[c].branch

\* What it has walked over, and its anchor, are in the branch.
PlaceInv(c) ==
    req[c].op = "commit" =>
        /\ \A i \in 1..Len(trail[c]) : trail[c][i] \in Reach(req[c].branch)
        /\ anchor[c] \in Reach(req[c].branch)

\* The commits of the new one's name that were in the branch when it asked for it
Namesakes(c) == {k \in known[c] \cap Reach(req[c].branch) : k.name = New(c).name}

\* They are behind the walk or on it, and none once it has ended.
UniqueInv(c) ==
    req[c].op = "commit" /\ req[c].unique =>
        /\ pc[c] = "unique" =>
               \A k \in Namesakes(c) :
                   k \in Reach(At(c)) \/ \E i \in 1..Len(trail[c]) : trail[c][i] = k
        /\ pc[c] = "before" \/ Placed(c) => Namesakes(c) = {}

FoundInv(c) == ShapeInv(c) /\ (~overtaken /\ pc[c] # "idle" => PlaceInv(c) /\ UniqueInv(c))

LEMMA OthersKnown ==
    ASSUME TypeOK, NEW c \in Clients, Client(c), NEW d \in Clients, d # c
    PROVE  known'[d] = known[d]
BY DEF Client, Request, GetBranch, SaveBranch, Walk, UniqueEnd, BeforeEnd, LogEnd, Create,
       Own, Read, Match, Replace, Connect, Commit, Fail, Rollback, End, TypeOK

LEMMA StepGrows ==
    ASSUME LinearInv, NEW c \in Clients, Client(c)
    PROVE  /\ branches \subseteq branches' /\ commits \subseteq commits'
           /\ \A b \in branches' : b \in branches \/ locks[b] = c
           /\ overtaken => overtaken'
<1>1. CASE Commit(c)
    BY <1>1, CommitGrows DEF LinearInv, IInv, Commit
<1>2. CASE UNCHANGED database
    BY <1>2 DEF database
<1> QED
    BY <1>1, <1>2, OnlyCommitWrites

LEMMA OthersKeepFound ==
    ASSUME LinearInv, LinearInv', NEW c \in Clients, Client(c),
           NEW d \in Clients, d # c, FoundInv(d)
    PROVE  FoundInv(d)'
<1>1. /\ pc'[d] = pc[d] /\ req'[d] = req[d] /\ trail'[d] = trail[d]
      /\ anchor'[d] = anchor[d] /\ known'[d] = known[d]
    BY OthersStay, OthersKnown DEF LinearInv, IInv
<1>2. /\ branches \subseteq branches' /\ commits \subseteq commits'
      /\ \A b \in branches' : b \in branches \/ locks[b] = c
      /\ overtaken => overtaken'
    BY StepGrows
<1>3. ShapeInv(d)'
    BY <1>1, <1>2 DEF FoundInv, ShapeInv, Placed, Inserts
<1>4. ASSUME ~overtaken', pc[d] # "idle", req[d].op = "commit"
      PROVE  PlaceInv(d)' /\ UniqueInv(d)'
    <2> PICK b : b = req[d].branch
        OBVIOUS
    <2>0. /\ PlaceInv(d) /\ UniqueInv(d) /\ req[d] \in Requests /\ b \in Branches
          /\ known[d] \subseteq commits /\ commits \subseteq Commits
        BY <1>2, <1>4, RequestTypes DEF FoundInv, ShapeInv, LinearInv, IInv, TypeOK
    <2>1. \A n : Reach(n) \subseteq Reach(n)'
        BY <1>4, StepReach
    <2>2. PlaceInv(d)'
        BY <2>0, <2>1, <1>1, <1>4 DEF PlaceInv
    <2>3. ASSUME pc[d] \notin {"get", "save_branch"}, NEW k \in known[d], k \in Reach(b)'
          PROVE  k \in Reach(b)
        <3>1. CASE b \in branches
            <4>1. Reach(b)' \cap (branches \cup commits) \subseteq Reach(b)
                BY <3>1, <1>4, StepReach
            <4> QED
                BY <4>1, <2>0, <2>3
        <3>2. CASE b \notin branches
            <4>1. locks[b] = d
                BY <3>2, <2>3, <1>4 DEF LinearInv, IInv, ClientInv, CommitInv
            <4>2. b \notin branches' /\ b \notin commits'
                BY <4>1, <1>2, <2>0, <3>2, HistoryAssumption DEF LinearInv, IInv, TypeOK
            <4>3. ReachLaws' /\ \A e \in edges' : e[1] # b
                BY <4>2, ReachLawsNext DEF LinearInv, IInv, TypeOK
            <4>4. {b} \in SUBSET Nearby(b)'
                BY DEF Nearby
            <4>5. Reach(b)' \subseteq {b}
                BY <4>3, <4>4 DEF ReachLaws
            <4> QED
                BY <4>5, <2>0, <2>3, HistoryAssumption
        <3> QED
            BY <3>1, <3>2
    <2>4. At(d)' = At(d) /\ New(d)' = New(d) /\ Placed(d)' = Placed(d)
        BY <1>1 DEF At, New, Placed
    <2>5. pc[d] \notin {"get", "save_branch"} => Namesakes(d)' \subseteq Namesakes(d)
        BY <2>3, <2>4, <1>1 DEF Namesakes
    <2>6. Reach(At(d)) \subseteq Reach(At(d))'
        BY <2>1, <2>4
    <2>7. UniqueInv(d)'
        <3>1. ASSUME req[d].unique, pc[d] = "unique", NEW k \in Namesakes(d)'
              PROVE  k \in Reach(At(d))' \/ \E i \in 1..Len(trail[d]) : trail[d][i] = k
            BY <3>1, <2>0, <2>5, <2>6, <1>4 DEF UniqueInv
        <3>2. ASSUME req[d].unique, pc[d] = "before" \/ Placed(d)
              PROVE  Namesakes(d)' = {}
            <4>1. Namesakes(d) = {} /\ pc[d] \notin {"get", "save_branch"}
                BY <3>2, <2>0, <1>4 DEF UniqueInv, Placed, Owning
            <4> QED
                BY <4>1, <2>5
        <3> QED
            BY <3>1, <3>2, <2>4, <1>1 DEF UniqueInv
    <2> QED
        BY <2>2, <2>7
<1>5. req[d].op # "commit" => PlaceInv(d)' /\ UniqueInv(d)'
    BY <1>1 DEF PlaceInv, UniqueInv
<1> QED
    BY <1>1, <1>3, <1>4, <1>5 DEF FoundInv

\* A client's own steps, but for the walk
LEMMA OwnShape ==
    ASSUME LinearInv, LinearInv', NEW c \in Clients, Client(c), FoundInv(c)
    PROVE  ShapeInv(c)'
<1> USE DEF ShapeInv, Placed
<1>0. ShapeInv(c) /\ ClientInv(c) /\ TypeOK /\ commits \subseteq commits'
    BY StepGrows DEF FoundInv, LinearInv, IInv
<1>1. ASSUME NEW result, End(c, result) PROVE ShapeInv(c)'
    <2>1. pc'[c] = "idle" /\ known'[c] = {}
        BY <1>1, <1>0 DEF End, Goto, TypeOK
    <2> QED
        BY <2>1 DEF Owning
<1>2. ASSUME NEW result, Rollback(c, result) PROVE ShapeInv(c)'
    BY <1>2, <1>1 DEF Rollback
<1>3. ASSUME NEW r \in Ops[c], Request(c, r) PROVE ShapeInv(c)'
    <2>1. /\ pc'[c] = "get" /\ req'[c] = r /\ anchor'[c] = r.branch /\ trail'[c] = trail[c]
          /\ known'[c] = known[c] /\ pc[c] = "idle" /\ UNCHANGED database
        BY <1>3, <1>0 DEF Request, TypeOK, Goto
    <2> QED
        BY <2>1, <1>0 DEF ClientInv, IdleInv, database, Owning
<1>4. CASE GetBranch(c)
    <2>1. CASE \E result : Rollback(c, result)
        BY <2>1, <1>2
    <2>2. CASE ~\E result : Rollback(c, result)
        <3>1. /\ UNCHANGED <<database, locks, ops, req, trail, anchor, old>> /\ pc[c] = "get"
              /\ known'[c] = commits
              /\ \/ /\ req[c].op = "commit"
                    /\ \/ pc'[c] = "save_branch"
                       \/ pc'[c] = "unique" /\ req[c].unique /\ req[c].branch \in branches
                       \/ pc'[c] = "before" /\ req[c].before # NoName
                       \/ pc'[c] = "create" /\ req[c].before = NoName
                 \/ req[c].op = "branch" /\ pc'[c] = "save_branch"
                 \/ req[c].op = "log" /\ pc'[c] = "log"
            BY <1>4, <1>0, <2>2 DEF GetBranch, Goto, AfterUnique, TypeOK
        <3> QED
            BY <3>1, <1>0 DEF database, Owning, Inserts
    <2> QED
        BY <2>1, <2>2
<1>5. CASE SaveBranch(c)
    <2>1. CASE Rollback(c, "duplicate branch")
        BY <2>1, <1>2
    <2>2. CASE ~Rollback(c, "duplicate branch")
        <3>1. /\ UNCHANGED <<database, ops, req, trail, anchor, old, known>>
              /\ pc[c] = "save_branch"
              /\ \/ req[c].op = "branch" /\ pc'[c] = "match"
                 \/ /\ req[c].op # "branch"
                    /\ \/ pc'[c] = "before" /\ req[c].before # NoName
                       \/ pc'[c] = "create" /\ req[c].before = NoName
            BY <1>5, <1>0, <2>2 DEF SaveBranch, Goto, AfterUnique, TypeOK
        <3>2. req[c].op # "log"
            BY <3>1, <1>0 DEF ClientInv, LogInv
        <3> QED
            BY <3>1, <3>2, <1>0 DEF database, Owning, Inserts
    <2> QED
        BY <2>1, <2>2
<1>6. CASE Walk(c)
    <2>1. /\ UNCHANGED <<database, locks, ops, pc, req, anchor, old, known>>
          /\ pc[c] \in {"unique", "before", "log"}
        BY <1>6 DEF Walk
    <2> QED
        BY <2>1, <1>0 DEF database, Owning, Inserts
<1>7. CASE UniqueEnd(c)
    <2>1. CASE \E result : Rollback(c, result)
        BY <2>1, <1>2
    <2>2. CASE ~\E result : Rollback(c, result)
        <3>1. /\ UNCHANGED <<database, locks, ops, req, anchor, old, known>>
              /\ pc[c] = "unique" /\ trail'[c] = <<>>
              /\ \/ pc'[c] = "before" /\ req[c].before # NoName
                 \/ pc'[c] = "create" /\ req[c].before = NoName
            BY <1>7, <1>0, <2>2 DEF UniqueEnd, Goto, AfterUnique, TypeOK
        <3> QED
            BY <3>1, <1>0 DEF database, Owning, Inserts
    <2> QED
        BY <2>1, <2>2
<1>8. CASE BeforeEnd(c)
    <2>1. CASE \E result : Rollback(c, result)
        BY <2>1, <1>2
    <2>2. CASE ~\E result : Rollback(c, result)
        <3>1. /\ UNCHANGED <<database, locks, ops, req, old, known>>
              /\ pc[c] = "before" /\ pc'[c] = "create" /\ trail'[c] = <<>>
            BY <1>8, <1>0, <2>2 DEF BeforeEnd, Goto, TypeOK
        <3>2. PICK i \in Found(c, req[c].before) : anchor' = [anchor EXCEPT ![c] = trail[c][i]]
            BY <1>8, <2>2 DEF BeforeEnd
        <3>3. /\ anchor'[c] = trail[c][i] /\ i \in 1..Len(trail[c])
              /\ trail[c][i].name = req[c].before
            BY <3>2, <1>0 DEF Found, TypeOK
        <3>4. anchor'[c] \in commits
            BY <3>3 DEF LinearInv, IInv, TrailInv
        <3> QED
            BY <3>1, <3>3, <3>4, <1>0 DEF database, Owning, Inserts
    <2> QED
        BY <2>1, <2>2
<1>9. CASE LogEnd(c)
    BY <1>9, <1>2 DEF LogEnd
<1>10. CASE Create(c)
    <2>1. CASE Rollback(c, "duplicate")
        BY <2>1, <1>2
    <2>2. CASE ~Rollback(c, "duplicate")
        <3>1. /\ UNCHANGED <<database, ops, req, trail, anchor, old, known>>
              /\ pc[c] = "create" /\ pc'[c] = "own"
            BY <1>10, <1>0, <2>2 DEF Create, Goto, TypeOK
        <3> QED
            BY <3>1, <1>0 DEF database, Owning, Inserts
    <2> QED
        BY <2>1, <2>2
<1>11. CASE Own(c) \/ Read(c) \/ Match(c) \/ Replace(c) \/ Connect(c)
    <2>1. /\ UNCHANGED <<database, req, trail, anchor, known>>
          /\ pc[c] \in Owning /\ pc'[c] \in Owning
        BY <1>11, <1>0 DEF Own, Read, Match, Replace, Connect, Goto, TypeOK, Owning
    <2> QED
        BY <2>1, <1>0 DEF database, Owning, Inserts
<1>12. CASE Commit(c)
    BY <1>12, <1>1 DEF Commit
<1>13. CASE Fail(c)
    BY <1>13, <1>2 DEF Fail
<1> QED
    BY <1>3, <1>4, <1>5, <1>6, <1>7, <1>8, <1>9, <1>10, <1>11, <1>12, <1>13 DEF Client

\* Which steps of a commit change where it is
LEMMA OwnMoves ==
    ASSUME LinearInv, NEW c \in Clients, Client(c), FoundInv(c), pc'[c] # "idle"
    PROVE  /\ UNCHANGED database
           /\ \/ pc[c] = "idle" /\ pc'[c] = "get" /\ trail'[c] = <<>> /\ anchor'[c] = req'[c].branch
              \/ /\ pc[c] = "get" /\ UNCHANGED <<req, trail, anchor>>
                 /\ req[c].op = "commit" =>
                        \/ pc'[c] = "save_branch"
                        \/ pc'[c] = "unique" /\ req[c].unique
                        \/ ~req[c].unique
              \/ /\ pc[c] = "save_branch" /\ UNCHANGED <<req, trail, anchor, known>>
                 /\ req[c].branch \notin branches /\ pc'[c] # "unique"
              \/ Walk(c)
              \/ /\ pc[c] = "unique" /\ UNCHANGED <<req, anchor, known>> /\ trail'[c] = <<>>
                 /\ Succ(At(c)) = {} /\ Found(c, New(c).name) = {} /\ pc'[c] # "unique"
              \/ /\ pc[c] = "before" /\ UNCHANGED <<req, known>> /\ trail'[c] = <<>>
                 /\ \E i \in 1..Len(trail[c]) : anchor'[c] = trail[c][i]
                 /\ pc'[c] = "create"
              \/ Placed(c) /\ UNCHANGED <<req, trail, anchor, known>> /\ pc'[c] \in Owning
<1>0. ClientInv(c) /\ TypeOK
    BY DEF LinearInv, IInv
<1>1. ASSUME NEW result, End(c, result) PROVE FALSE
    BY <1>1, <1>0 DEF End, Goto, TypeOK
<1>2. ASSUME NEW result, Rollback(c, result) PROVE FALSE
    BY <1>2, <1>1 DEF Rollback
<1>3. ASSUME NEW r \in Ops[c], Request(c, r)
      PROVE  /\ UNCHANGED database /\ pc[c] = "idle" /\ pc'[c] = "get" /\ trail'[c] = <<>>
             /\ anchor'[c] = req'[c].branch
    BY <1>3, <1>0 DEF Request, TypeOK, Goto, ClientInv, IdleInv
<1>4. ASSUME GetBranch(c)
      PROVE  /\ UNCHANGED database /\ pc[c] = "get" /\ UNCHANGED <<req, trail, anchor>>
             /\ req[c].op = "commit" =>
                    \/ pc'[c] = "save_branch"
                    \/ pc'[c] = "unique" /\ req[c].unique
                    \/ ~req[c].unique
    BY <1>4, <1>2, <1>0 DEF GetBranch, Goto, TypeOK
<1>5. ASSUME SaveBranch(c)
      PROVE  /\ UNCHANGED database /\ pc[c] = "save_branch"
             /\ UNCHANGED <<req, trail, anchor, known>>
             /\ req[c].branch \notin branches /\ pc'[c] # "unique"
    BY <1>5, <1>2, <1>0 DEF SaveBranch, Goto, AfterUnique, TypeOK
<1>6. ASSUME UniqueEnd(c)
      PROVE  /\ UNCHANGED database
             /\ pc[c] = "unique" /\ UNCHANGED <<req, anchor, known>> /\ trail'[c] = <<>>
             /\ Succ(At(c)) = {} /\ Found(c, New(c).name) = {} /\ pc'[c] # "unique"
    BY <1>6, <1>2, <1>0 DEF UniqueEnd, Goto, AfterUnique, TypeOK, New
<1>7. ASSUME BeforeEnd(c)
      PROVE  /\ UNCHANGED database
             /\ pc[c] = "before" /\ UNCHANGED <<req, known>> /\ trail'[c] = <<>>
             /\ \E i \in 1..Len(trail[c]) : anchor'[c] = trail[c][i]
             /\ pc'[c] = "create"
    BY <1>7, <1>2, <1>0 DEF BeforeEnd, Goto, Found, TypeOK
<1>8. ASSUME Create(c) \/ Own(c) \/ Read(c) \/ Match(c) \/ Replace(c) \/ Connect(c)
      PROVE  /\ UNCHANGED database
             /\ Placed(c) /\ UNCHANGED <<req, trail, anchor, known>> /\ pc'[c] \in Owning
    BY <1>8, <1>2, <1>0
       DEF Create, Own, Read, Match, Replace, Connect, Goto, TypeOK, Owning, Placed
<1>9. ASSUME Walk(c) PROVE UNCHANGED database
    BY <1>9 DEF Walk
<1> QED
    BY <1>1, <1>2, <1>3, <1>4, <1>5, <1>6, <1>7, <1>8, <1>9 DEF Client, LogEnd, Commit, Fail

\* A walk leaves nothing behind: what its branch leads to is on the trail or ahead.
LEMMA WalkFinds ==
    ASSUME LinearInv, NEW c \in Clients, Walk(c), FoundInv(c), ~overtaken, req[c].op = "commit"
    PROVE  PlaceInv(c)' /\ UniqueInv(c)'
<1>0. /\ TypeOK /\ PlaceInv(c) /\ UniqueInv(c) /\ HistoryLinear
      /\ UNCHANGED <<database, pc, req, anchor, known>> /\ pc[c] \in {"unique", "before", "log"}
    BY DEF LinearInv, IInv, FoundInv, Walk
<1>1. PICK m \in Succ(At(c)) : trail' = [trail EXCEPT ![c] = Append(@, m)]
    BY DEF Walk
<1> PICK w : w = trail[c]
    OBVIOUS
<1> PICK b : b = req[c].branch
    OBVIOUS
<1>2. w \in Seq(Commits) /\ m \in Commits /\ trail'[c] = Append(w, m)
    BY <1>0, <1>1 DEF TypeOK, Succ
<1>3. /\ Len(trail'[c]) = Len(w) + 1 /\ Len(w) \in Nat
      /\ \A i \in 1..Len(w) : trail'[c][i] = w[i]
      /\ trail'[c][Len(w) + 1] = m
    BY <1>2, AppendProperties, LenProperties
<1>4. At(c) \in Reach(b) /\ (w # <<>> => At(c) = w[Len(w)] /\ Len(w) \in 1..Len(w))
      /\ (w = <<>> => At(c) = b)
    <2>1. w = <<>> => At(c) = b /\ b \in Reach(b)
        BY ReachHas DEF At
    <2>2. w # <<>> => At(c) = w[Len(w)] /\ Len(w) \in 1..Len(w)
        BY <1>2, LenProperties DEF At
    <2> QED
        BY <2>1, <2>2, <1>0 DEF PlaceInv
<1>5. \A n : Reach(n)' = Reach(n)
    BY <1>0, SameReach
<1>6. m \in Reach(b)
    <2>1. <<At(c), m>> \in edges
        BY <1>1 DEF Succ
    <2> QED
        BY <2>1, <1>0, <1>4, ReachCloses
<1>7. PlaceInv(c)'
    <2>1. \A i \in 1..Len(trail'[c]) : trail'[c][i] \in Reach(b)
        BY <1>0, <1>3, <1>6 DEF PlaceInv
    <2> QED
        BY <2>1, <1>0, <1>5 DEF PlaceInv
<1>8. At(c)' = m
    BY <1>2, <1>3 DEF At
<1>9. ASSUME NEW k \in Namesakes(c), pc[c] = "unique", req[c].unique
      PROVE  k \in Reach(m) \/ \E i \in 1..Len(trail'[c]) : trail'[c][i] = k
    <2>1. CASE \E i \in 1..Len(w) : w[i] = k
        BY <2>1, <1>3
    <2>2. CASE k \in Reach(At(c)) /\ k # At(c)
        <3>1. PICK l \in Succ(At(c)) : k \in Reach(l)
            BY <2>2, <1>0, ReachStep
        <3>2. At(c) \in branches \cup commits
            BY <1>1, <1>0 DEF Succ, TypeOK
        <3>3. l = m
            BY <3>1, <3>2, <1>0, <1>1 DEF HistoryLinear
        <3> QED
            BY <3>1, <3>3
    <2>3. CASE k = At(c)
        <3>1. CASE w = <<>>
            <4>1. k \in Commits /\ b \in Branches
                BY <1>0, <1>9, RequestTypes DEF Namesakes, TypeOK
            <4> QED
                BY <4>1, <3>1, <2>3, <1>4, HistoryAssumption
        <3>2. CASE w # <<>>
            BY <3>2, <2>3, <1>3, <1>4
        <3> QED
            BY <3>1, <3>2
    <2> QED
        BY <2>1, <2>2, <2>3, <1>0, <1>9 DEF UniqueInv
<1>10. Namesakes(c)' = Namesakes(c) /\ New(c)' = New(c) /\ Placed(c)' = Placed(c)
    <2>1. New(c)' = New(c) /\ Placed(c)' = Placed(c)
        BY <1>0 DEF New, Placed
    <2>2. Reach(b)' = Reach(b) /\ req'[c].branch = b
        BY <1>0, <1>5
    <2> QED
        BY <2>1, <2>2, <1>0 DEF Namesakes
<1>11. UniqueInv(c)'
    <2>1. req[c].unique /\ pc[c] = "unique" =>
              \A k \in Namesakes(c)' :
                  k \in Reach(At(c))' \/ \E i \in 1..Len(trail'[c]) : trail'[c][i] = k
        BY <1>5, <1>8, <1>9, <1>10
    <2>2. req[c].unique /\ (pc[c] = "before" \/ Placed(c)) => Namesakes(c)' = {}
        BY <1>0, <1>10 DEF UniqueInv
    <2> QED
        BY <2>1, <2>2, <1>0, <1>10 DEF UniqueInv
<1> QED
    BY <1>7, <1>11

LEMMA OwnFound ==
    ASSUME LinearInv, LinearInv', NEW c \in Clients, Client(c), FoundInv(c)
    PROVE  FoundInv(c)'
<1>1. ShapeInv(c)'
    BY OwnShape
<1>2. ASSUME ~overtaken', pc'[c] # "idle", req'[c].op = "commit"
      PROVE  PlaceInv(c)' /\ UniqueInv(c)'
    <2>0. UNCHANGED database /\ ~overtaken /\ TypeOK /\ \A n : Reach(n)' = Reach(n)
        BY <1>2, OwnMoves, SameReach DEF LinearInv, IInv, database
    <2> PICK b : b = req'[c].branch
        OBVIOUS
    <2>1. b \in Reach(b) /\ Reach(b)' = Reach(b)
        BY <2>0, ReachHas
    <2>2. ASSUME pc'[c] = "get", trail'[c] = <<>>, anchor'[c] = b
          PROVE  PlaceInv(c)' /\ UniqueInv(c)'
        BY <2>1, <2>2 DEF PlaceInv, UniqueInv, Placed, Owning
    <2>3. ASSUME pc[c] # "idle"
          PROVE  ShapeInv(c) /\ PlaceInv(c) /\ UniqueInv(c) /\ req[c] \in Requests
        BY <2>0, <2>3 DEF FoundInv, TypeOK
    <2>4. CASE /\ pc[c] = "get" /\ UNCHANGED <<req, trail, anchor>>
               /\ \/ pc'[c] = "save_branch"
                  \/ pc'[c] = "unique" /\ req[c].unique
                  \/ ~req[c].unique
        <3>1. /\ ShapeInv(c) /\ PlaceInv(c) /\ UniqueInv(c) /\ req[c] \in Requests
              /\ req[c].branch = b /\ trail[c] = <<>>
            BY <2>3, <2>4, <1>2 DEF ShapeInv
        <3>2. PlaceInv(c)'
            BY <3>1, <2>1, <2>4, <1>2 DEF PlaceInv
        <3>3. pc'[c] = "unique" => At(c)' = b
            BY <3>1, <2>4 DEF At
        <3>4. pc'[c] = "unique" => \A k \in Namesakes(c)' : k \in Reach(At(c))'
            BY <3>1, <3>3, <2>1, <2>4, <2>0 DEF Namesakes
        <3> QED
            BY <3>2, <3>4, <2>4 DEF UniqueInv, Placed, Owning
    <2>5. CASE /\ pc[c] = "save_branch" /\ UNCHANGED <<req, trail, anchor, known>>
               /\ req[c].branch \notin branches /\ pc'[c] # "unique"
        <3>1. /\ ShapeInv(c) /\ PlaceInv(c) /\ UniqueInv(c) /\ req[c] \in Requests
              /\ req[c].branch = b /\ trail[c] = <<>> /\ b \in Branches
              /\ known[c] \subseteq commits /\ commits \subseteq Commits
            BY <2>0, <2>3, <2>5, <1>2, RequestTypes DEF ShapeInv, TypeOK
        <3>2. PlaceInv(c)'
            BY <3>1, <2>1, <2>5, <1>2 DEF PlaceInv
        <3>3. Reach(b) = {b} /\ b \notin Commits
            BY <3>1, <2>0, <2>5, ReachNowhere, HistoryAssumption DEF TypeOK
        <3>4. Namesakes(c)' = {}
            BY <3>1, <3>3, <2>1, <2>5 DEF Namesakes
        <3> QED
            BY <3>2, <3>4, <2>5 DEF UniqueInv
    <2>6. CASE Walk(c)
        <3>1. pc[c] # "idle" /\ req' = req
            BY <2>6 DEF Walk
        <3> QED
            BY <3>1, <2>0, <2>6, <1>2, WalkFinds
    <2>7. CASE /\ pc[c] = "unique" /\ UNCHANGED <<req, anchor, known>> /\ trail'[c] = <<>>
               /\ Succ(At(c)) = {} /\ Found(c, New(c).name) = {} /\ pc'[c] # "unique"
        <3>1. /\ ShapeInv(c) /\ PlaceInv(c) /\ UniqueInv(c) /\ req[c] \in Requests
              /\ req[c].branch = b /\ b \in Branches /\ req[c].unique
              /\ known[c] \subseteq commits /\ commits \subseteq Commits
            BY <2>0, <2>3, <2>7, <1>2, RequestTypes DEF ShapeInv, TypeOK
        <3>2. PlaceInv(c)'
            BY <3>1, <2>1, <2>7, <1>2 DEF PlaceInv
        <3>3. ASSUME NEW k \in Namesakes(c) PROVE FALSE
            <4>1. k.name = New(c).name /\ k \in Commits
                BY <3>1, <3>3 DEF Namesakes
            <4>2. ~\E i \in 1..Len(trail[c]) : trail[c][i] = k
                BY <4>1, <2>7 DEF Found
            <4>3. k \in Reach(At(c))
                BY <4>2, <3>1, <3>3, <2>7, <1>2 DEF UniqueInv
            <4>4. k = At(c)
                BY <4>3, <2>0, <2>7, ReachStep
            <4>5. trail[c] # <<>>
                BY <4>1, <4>4, <3>1, HistoryAssumption DEF At
            <4>6. Len(trail[c]) \in 1..Len(trail[c]) /\ At(c) = trail[c][Len(trail[c])]
                BY <4>5, <2>0, LenProperties DEF TypeOK, At
            <4> QED
                BY <4>2, <4>4, <4>6
        <3>4. New(c)' = New(c)
            BY <2>7 DEF New
        <3>5. Namesakes(c)' = {}
            BY <3>1, <3>3, <3>4, <2>1, <2>7 DEF Namesakes
        <3> QED
            BY <3>2, <3>5, <2>7 DEF UniqueInv
    <2>8. CASE /\ pc[c] = "before" /\ UNCHANGED <<req, known>> /\ trail'[c] = <<>>
               /\ \E i \in 1..Len(trail[c]) : anchor'[c] = trail[c][i]
               /\ pc'[c] = "create"
        <3>1. ShapeInv(c) /\ PlaceInv(c) /\ UniqueInv(c) /\ req[c].branch = b
            BY <2>3, <2>8
        <3>2. PlaceInv(c)'
            BY <3>1, <2>1, <2>8, <1>2 DEF PlaceInv
        <3>3. Namesakes(c)' = Namesakes(c)
            BY <3>1, <2>1, <2>8 DEF Namesakes, New
        <3> QED
            BY <3>1, <3>2, <3>3, <2>8 DEF UniqueInv, Placed, Owning
    <2>9. CASE Placed(c) /\ UNCHANGED <<req, trail, anchor, known>> /\ pc'[c] \in Owning
        <3>1. ShapeInv(c) /\ PlaceInv(c) /\ UniqueInv(c) /\ req[c].branch = b /\ pc'[c] # "unique"
            BY <2>3, <2>9 DEF Placed, Owning
        <3>2. PlaceInv(c)'
            BY <3>1, <2>1, <2>9, <1>2 DEF PlaceInv
        <3>3. Namesakes(c)' = Namesakes(c)
            BY <3>1, <2>1, <2>9 DEF Namesakes, New
        <3> QED
            BY <3>1, <3>2, <3>3, <2>9 DEF UniqueInv
    <2> QED
        BY <1>2, <2>2, <2>4, <2>5, <2>6, <2>7, <2>8, <2>9, OwnMoves
<1>3. req'[c].op # "commit" => PlaceInv(c)' /\ UniqueInv(c)'
    BY DEF PlaceInv, UniqueInv
<1> QED
    BY <1>1, <1>2, <1>3 DEF FoundInv

FoundAll == IsFiniteSet(commits) /\ \A c \in Clients : FoundInv(c)

HistoryInv == LinearInv /\ FoundAll

LEMMA FoundInvariant == Spec => []HistoryInv
<1>1. Init => FoundAll
    <2> SUFFICES ASSUME Init PROVE FoundAll
        OBVIOUS
    <2>1. IsFiniteSet(commits)
        BY FS_EmptySet DEF Init
    <2>2. ASSUME NEW c \in Clients PROVE FoundInv(c)
        BY DEF Init, FoundInv, ShapeInv, Placed, Owning
    <2> QED
        BY <2>1, <2>2 DEF FoundAll
<1>2. ASSUME LinearInv, LinearInv', FoundAll, NEW c \in Clients, Client(c)
      PROVE  FoundAll'
    <2>1. \A d \in Clients : FoundInv(d)'
        BY <1>2, OthersKeepFound, OwnFound DEF FoundAll
    <2>2. commits' = commits \/ commits' = commits \cup {New(c)}
        BY <1>2, OnlyCommitWrites DEF Commit, database
    <2>3. IsFiniteSet(commits')
        BY <1>2, <2>2, FS_AddElement DEF FoundAll
    <2> QED
        BY <2>1, <2>3 DEF FoundAll
<1>3. ASSUME FoundAll, UNCHANGED vars
      PROVE  FoundAll'
    <2>1. UNCHANGED database /\ \A n : Reach(n)' = Reach(n)
        BY <1>3, SameReach DEF vars
    <2>2. ASSUME NEW c \in Clients PROVE FoundInv(c)'
        <3>1. FoundInv(c)
            BY <1>3 DEF FoundAll
        <3>2. UNCHANGED <<pc, req, trail, anchor, known, commits, branches, overtaken>>
            BY <1>3 DEF vars, database, clientVars
        <3>3. ShapeInv(c)' = ShapeInv(c)
            BY <3>2 DEF ShapeInv, Placed, Inserts
        <3>4. PlaceInv(c)' = PlaceInv(c)
            BY <3>2, <2>1 DEF PlaceInv
        <3>5. At(c)' = At(c) /\ Namesakes(c)' = Namesakes(c) /\ Placed(c)' = Placed(c)
            BY <3>2, <2>1 DEF At, Namesakes, New, Placed
        <3>6. Reach(At(c))' = Reach(At(c))
            BY <3>5, <2>1
        <3>7. UniqueInv(c)' = UniqueInv(c)
            BY <3>2, <3>5, <3>6 DEF UniqueInv
        <3> QED
            BY <3>1, <3>2, <3>3, <3>4, <3>7 DEF FoundInv
    <2> QED
        BY <1>3, <2>1, <2>2 DEF FoundAll, database
<1>4. LinearInv /\ LinearInv' /\ FoundAll /\ [Next]_vars => FoundAll'
    BY <1>2, <1>3 DEF Next, Terminated
<1> QED
    BY <1>1, <1>4, LinearInvariant, PTL DEF Spec, HistoryInv

\* Commits that are linked, each to a branch or to one above it, and of which there
\* are finitely many, are all in the history of a branch.
LEMMA LinkedReached ==
    ASSUME IInv, Linked, IsFiniteSet(commits)
    PROVE  NoLostCommit
<1> DEFINE Lost == {k \in commits : \A b \in branches : k \notin Reach(b)}
<1>1. ASSUME Lost # {} PROVE FALSE
    <2>1. IsFiniteSet(Lost)
        BY FS_Subset
    <2>2. /\ \A x \in Lost : <<x, x>> \notin above
          /\ \A x, y, z \in Lost : <<x, y>> \in above /\ <<y, z>> \in above => <<x, z>> \in above
        BY DEF IInv, HistoryOrdered
    <2> HIDE DEF Lost
    <2>3. PICK k \in Lost : \A y \in Lost : <<y, k>> \notin above
        BY <1>1, <2>1, <2>2, FiniteTop
    <2> USE DEF Lost
    <2>4. PICK p \in branches \cup commits : k \in Succ(p)
        BY <2>3 DEF Linked
    <2>5. <<p, k>> \in edges
        BY <2>4 DEF Succ
    <2>6. <<p, k>> \in above
        BY <2>5 DEF IInv, HistoryOrdered
    <2>7. p \notin Lost
        BY <2>3, <2>6
    <2>8. PICK b \in branches : p \in Reach(b)
        BY <2>4, <2>7, ReachHas
    <2>9. k \in Reach(b)
        BY <2>5, <2>8, ReachCloses DEF IInv
    <2> QED
        BY <2>3, <2>9
<1> QED
    BY <1>1 DEF NoLostCommit

\* It takes a commit that overtakes another to lose one: until then every commit of the
\* database is in the history of a branch, whatever any number of clients do.
THEOREM OvertakingLoses == Spec => []OnlyOvertakingLoses
<1>1. HistoryInv => OnlyOvertakingLoses
    BY LinkedReached DEF HistoryInv, LinearInv, FoundAll, OnlyOvertakingLoses
<1> QED
    BY <1>1, FoundInvariant, PTL

\* A unique commit joins none of its name that its branch had when it was asked for,
\* however many commits come in between the queries of the walk that looked for it.
THEOREM UniqueCommitsAdd == Spec => []UniqueAdds
<1>1. HistoryInv => UniqueAdds
    <2> SUFFICES ASSUME HistoryInv, NEW c \in Clients, pc[c] = "commit", req[c].op = "commit",
                        req[c].unique, ~overtaken, NEW k \in Reach(req[c].branch),
                        k.name = New(c).name, k \in known[c]
                 PROVE  FALSE
        BY DEF UniqueAdds
    <2>1. Namesakes(c) = {}
        BY DEF HistoryInv, FoundAll, FoundInv, UniqueInv, Placed, Owning
    <2> QED
        BY <2>1 DEF Namesakes
<1> QED
    BY <1>1, FoundInvariant, PTL

-----------------------------------------------------------------------------
(* The log of a branch *)

\* A walk of iter_commits from n, of any length
Follows(n, w) ==
    /\ w \in Seq(commits)
    /\ \A i \in 1..Len(w) : w[i] \in Succ(Ahead(n, w, i))
    /\ Succ(Ahead(n, w, Len(w) + 1)) = {}

\* It only goes down.
LEMMA FollowsDown ==
    ASSUME IInv, NEW n, NEW w, Follows(n, w),
           NEW i \in 1..Len(w), NEW j \in 1..Len(w), i < j
    PROVE  <<w[i], w[j]>> \in above /\ w[i] # w[j]
<1>1. w \in Seq(commits) /\ Len(w) \in Nat /\ \A k \in 1..Len(w) : w[k] \in commits
    BY LenProperties DEF Follows
<1> DEFINE T == {k \in Nat : i < k /\ k <= Len(w) /\ <<w[i], w[k]>> \notin above}
<1>2. ASSUME T # {} PROVE FALSE
    <2>1. PICK k \in T : \A l \in T : k <= l
        BY <1>2, LeastNat
    <2>2. /\ k \in 2..Len(w) /\ k - 1 \in 1..Len(w) /\ k \in 1..Len(w)
          /\ <<w[i], w[k]>> \notin above /\ i < k
        BY <2>1, <1>1
    <2>3. w[k] \in Succ(w[k - 1])
        BY <2>2 DEF Follows, Ahead
    <2>4. <<w[k - 1], w[k]>> \in above
        BY <2>3 DEF Succ, IInv, HistoryOrdered
    <2>5. i = k - 1 \/ <<w[i], w[k - 1]>> \in above
        BY <2>1, <2>2, <1>1
    <2> QED
        BY <2>2, <2>4, <2>5 DEF IInv, HistoryOrdered
<1>3. T = {}
    BY <1>2
<1>4. j \in Nat /\ j <= Len(w)
    BY <1>1
<1>5. <<w[i], w[j]>> \in above
    BY <1>3, <1>4
<1> QED
    BY <1>1, <1>5 DEF IInv, HistoryOrdered

\* So it is no longer than there are commits.
LEMMA FollowsIsWalk ==
    ASSUME IInv, IsFiniteSet(commits), NEW n, NEW w
    PROVE  Follows(n, w) <=> w \in Walks(n)
<1>0. Cardinality(commits) \in Nat
    BY FS_CardinalityType
<1>1. ASSUME Follows(n, w) PROVE w \in Walks(n)
    <2>1. w \in Seq(commits) /\ Len(w) \in Nat /\ w \in [1..Len(w) -> commits]
        BY <1>1, LenProperties DEF Follows
    <2>2. \A i, j \in 1..Len(w) : w[i] = w[j] => i = j
        <3> SUFFICES ASSUME NEW i \in 1..Len(w), NEW j \in 1..Len(w), i # j PROVE w[i] # w[j]
            OBVIOUS
        <3>1. i < j \/ j < i
            BY <2>1
        <3> QED
            BY <3>1, <1>1, FollowsDown
    <2>3. w \in Injection(1..Len(w), commits)
        BY <2>1, <2>2 DEF Injection, IsInjective
    <2>4. Cardinality(1..Len(w)) <= Cardinality(commits)
        BY <2>3, FS_Injection
    <2>5. Cardinality(1..Len(w)) = Len(w)
        BY <2>1, FS_Interval
    <2>6. Len(w) \in 0..Cardinality(commits)
        BY <2>1, <2>4, <2>5, <1>0
    <2>7. w \in UNION {[1..k -> commits] : k \in 0..Cardinality(commits)}
        BY <2>1, <2>6
    <2> QED
        BY <2>7, <1>1 DEF Walks, Follows
<1>2. ASSUME w \in Walks(n) PROVE Follows(n, w)
    <2>1. PICK k \in 0..Cardinality(commits) : w \in [1..k -> commits]
        BY <1>2 DEF Walks
    <2>2. w \in Seq(commits)
        BY <2>1, <1>0, SeqDef
    <2> QED
        BY <2>2, <1>2 DEF Walks, Follows
<1> QED
    BY <1>1, <1>2

\* Two walks from one node take the same way ...
LEMMA FollowsOnce ==
    ASSUME IInv, HistoryLinear, NEW n \in branches \cup commits,
           NEW w, NEW v, Follows(n, w), Follows(n, v)
    PROVE  w = v
<1>1. /\ w \in Seq(commits) /\ Len(w) \in Nat /\ w \in [1..Len(w) -> commits]
      /\ v \in Seq(commits) /\ Len(v) \in Nat /\ v \in [1..Len(v) -> commits]
    BY LenProperties DEF Follows
<1> DEFINE T == {k \in Nat : 1 <= k /\ k <= Len(w) /\ k <= Len(v) /\ w[k] # v[k]}
<1>2. T = {}
    <2> SUFFICES ASSUME T # {} PROVE FALSE
        OBVIOUS
    <2>1. PICK k \in T : \A l \in T : k <= l
        BY LeastNat
    <2>2. k \in 1..Len(w) /\ k \in 1..Len(v) /\ w[k] # v[k]
        BY <2>1, <1>1
    <2>3. Ahead(n, w, k) = Ahead(n, v, k) /\ Ahead(n, w, k) \in branches \cup commits
        <3>1. CASE k = 1
            BY <3>1 DEF Ahead
        <3>2. CASE k # 1
            <4>1. k - 1 \in 1..Len(w) /\ k - 1 \in 1..Len(v) /\ k - 1 \notin T
                BY <3>2, <2>1, <2>2, <1>1
            <4> QED
                BY <4>1, <3>2, <1>1 DEF Ahead
        <3> QED
            BY <3>1, <3>2
    <2>4. w[k] \in Succ(Ahead(n, w, k)) /\ v[k] \in Succ(Ahead(n, w, k))
        BY <2>2, <2>3 DEF Follows
    <2> QED
        BY <2>2, <2>3, <2>4 DEF HistoryLinear
<1>3. ASSUME NEW s \in {w, v}, NEW t \in {w, v}, Len(s) < Len(t)
      PROVE  FALSE
    <2>1. Len(s) + 1 \in 1..Len(t) /\ Len(s) \in Nat
        BY <1>1, <1>3
    <2>2. Ahead(n, s, Len(s) + 1) = Ahead(n, t, Len(s) + 1)
        <3>1. CASE Len(s) = 0
            BY <3>1 DEF Ahead
        <3>2. CASE Len(s) # 0
            <4>1. Len(s) \notin T /\ Len(s) + 1 # 1 /\ Len(s) + 1 - 1 = Len(s)
                BY <3>2, <1>2, <2>1
            <4>2. s[Len(s)] = t[Len(s)]
                BY <4>1, <3>2, <1>1, <1>3
            <4> QED
                BY <4>1, <4>2 DEF Ahead
        <3> QED
            BY <3>1, <3>2
    <2>3. t[Len(s) + 1] \in Succ(Ahead(n, t, Len(s) + 1)) /\ Succ(Ahead(n, s, Len(s) + 1)) = {}
        BY <2>1 DEF Follows
    <2> QED
        BY <2>2, <2>3
<1>4. Len(w) = Len(v)
    <2>1. ~(Len(w) < Len(v)) /\ ~(Len(v) < Len(w))
        BY <1>3
    <2>2. \A p, q \in Nat : ~(p < q) /\ ~(q < p) => p = q
        OBVIOUS
    <2> QED
        BY <1>1, <2>1, <2>2, Zenon
<1>5. \A k \in 1..Len(w) : w[k] = v[k]
    BY <1>1, <1>2, <1>4
<1> QED
    BY <1>1, <1>4, <1>5

\* ... and there is one, as the way down is finite.
LEMMA FollowsOn ==
    ASSUME IInv, NEW n, NEW m \in Succ(n), NEW w, Follows(m, w)
    PROVE  Follows(n, <<m>> \o w)
<1>1. m \in commits /\ w \in Seq(commits) /\ Len(w) \in Nat
    BY LenProperties DEF Succ, IInv, TypeOK, Follows
<1> PICK v : v = <<m>> \o w
    OBVIOUS
<1>2. /\ v \in Seq(commits) /\ Len(v) = Len(w) + 1
      /\ \A i \in 1..Len(v) : v[i] = IF i = 1 THEN m ELSE w[i - 1]
    <2>1. <<m>> \in Seq(commits) /\ Len(<<m>>) = 1 /\ <<m>>[1] = m
        BY <1>1
    <2> QED
        BY <1>1, <2>1, ConcatProperties
<1>3. \A i \in 2..Len(v) + 1 : Ahead(n, v, i) = Ahead(m, w, i - 1)
    <2> SUFFICES ASSUME NEW i \in 2..Len(v) + 1
                 PROVE  Ahead(n, v, i) = Ahead(m, w, i - 1)
        OBVIOUS
    <2>1. i - 1 \in 1..Len(v) /\ i # 1
        BY <1>1, <1>2
    <2> QED
        BY <2>1, <1>2 DEF Ahead
<1>4. ASSUME NEW i \in 1..Len(v)
      PROVE  v[i] \in Succ(Ahead(n, v, i))
    <2>1. CASE i = 1
        BY <2>1, <1>2 DEF Ahead
    <2>2. CASE i # 1
        <3>1. i \in 2..Len(v) + 1 /\ i - 1 \in 1..Len(w)
            BY <2>2, <1>1, <1>2
        <3> QED
            BY <3>1, <2>2, <1>2, <1>3 DEF Follows
    <2> QED
        BY <2>1, <2>2
<1>5. Succ(Ahead(n, v, Len(v) + 1)) = {}
    <2>1. Len(v) + 1 \in 2..Len(v) + 1 /\ Len(v) + 1 - 1 = Len(w) + 1
        BY <1>1, <1>2
    <2> QED
        BY <2>1, <1>3 DEF Follows
<1> QED
    BY <1>2, <1>4, <1>5 DEF Follows

LEMMA FollowsOnNext ==
    (IInv => \A n : \A m \in Succ(n) : \A w : Follows(m, w) => Follows(n, <<m>> \o w))'
<1>1. IInv => \A n : \A m \in Succ(n) : \A w : Follows(m, w) => Follows(n, <<m>> \o w)
    BY FollowsOn
<1> QED
    BY <1>1, PTL

LEMMA FollowsExists ==
    ASSUME IInv, IsFiniteSet(commits), NEW n \in branches \cup commits
    PROVE  \E w : Follows(n, w)
<1> DEFINE Bad == {k \in commits : ~\E w : Follows(k, w)}
           Under == {p \in commits \X commits : <<p[2], p[1]>> \in above}
<1>1. ASSUME NEW k \in branches \cup commits, Succ(k) \cap Bad = {}
      PROVE  \E w : Follows(k, w)
    <2>1. CASE Succ(k) = {}
        <3>1. Follows(k, <<>>)
            BY <2>1 DEF Follows, Ahead
        <3> QED
            BY <3>1
    <2>2. CASE Succ(k) # {}
        <3>1. PICK m \in Succ(k) : m \notin Bad
            BY <2>2, <1>1
        <3>2. m \in commits
            BY DEF Succ, IInv, TypeOK
        <3>3. PICK w : Follows(m, w)
            BY <3>1, <3>2
        <3> QED
            BY <3>3, FollowsOn
    <2> QED
        BY <2>1, <2>2
<1>2. ASSUME Bad # {} PROVE FALSE
    <2>1. IsFiniteSet(Bad)
        BY FS_Subset
    <2>2. Bad \subseteq commits
        OBVIOUS
    <2>3. \A x, y \in commits : <<x, y>> \in Under <=> <<y, x>> \in above
        OBVIOUS
    <2>4. /\ \A x \in Bad : <<x, x>> \notin Under
          /\ \A x, y, z \in Bad : <<x, y>> \in Under /\ <<y, z>> \in Under => <<x, z>> \in Under
        BY <2>2, <2>3 DEF IInv, HistoryOrdered
    <2> HIDE DEF Bad, Under
    <2>5. PICK k \in Bad : \A y \in Bad : <<y, k>> \notin Under
        BY <1>2, <2>1, <2>4, FiniteTop
    <2>6. \A m \in Succ(k) : m \notin Bad
        BY <2>2, <2>3, <2>5 DEF Succ, IInv, HistoryOrdered
    <2>7. \E w : Follows(k, w)
        BY <1>1, <2>2, <2>6
    <2> QED
        BY <2>7 DEF Bad
<1> QED
    BY <1>1, <1>2

\* What follows for History: it has the one walk of each branch.
LogLaws ==
    /\ DOMAIN History = branches
    /\ \A b \in branches : Follows(b, History[b])
    /\ \A b \in branches : \A w : Follows(b, w) => w = History[b]

LEMMA LogLawsHold ==
    ASSUME IInv, HistoryLinear, IsFiniteSet(commits)
    PROVE  LogLaws
<1>1. ASSUME NEW b \in branches
      PROVE  /\ Follows(b, History[b])
             /\ \A w : Follows(b, w) => w = History[b]
    <2>1. \E w : w \in Walks(b)
        BY FollowsExists, FollowsIsWalk
    <2>2. History[b] \in Walks(b)
        BY <2>1 DEF History
    <2>3. Follows(b, History[b])
        BY <2>2, FollowsIsWalk
    <2> QED
        BY <2>3, FollowsOnce
<1> QED
    BY <1>1 DEF LogLaws, History

LEMMA LogLawsNext == (IInv /\ HistoryLinear /\ IsFiniteSet(commits))' => LogLaws'
<1>1. IInv /\ HistoryLinear /\ IsFiniteSet(commits) => LogLaws
    BY LogLawsHold
<1> QED
    BY <1>1, PTL

\* A branch has what it leads to.
LEMMA HasReached ==
    ASSUME IInv, HistoryLinear, LogLaws, NEW b \in branches, NEW k \in commits
    PROVE  k \in Reach(b) => \E i \in 1..Len(History[b]) : History[b][i] = k
<1> PICK w : w = History[b]
    OBVIOUS
<1>1. Follows(b, w) /\ w \in Seq(commits) /\ Len(w) \in Nat
    BY LenProperties DEF LogLaws, Follows
<1> DEFINE S == {b} \cup {w[i] : i \in 1..Len(w)}
<1>2. S \in SUBSET Nearby(b)
    BY <1>1 DEF Nearby
<1>3. ASSUME NEW e \in edges, e[1] \in S
      PROVE  e[2] \in S
    <2>1. e[2] \in Succ(e[1]) /\ e[1] \in branches \cup commits
        BY EdgeEnds DEF IInv, TypeOK
    <2>2. PICK i \in 1..Len(w) + 1 : e[1] = Ahead(b, w, i)
        <3>1. CASE e[1] = b
            BY <3>1, <1>1 DEF Ahead
        <3>2. CASE \E i \in 1..Len(w) : e[1] = w[i]
            <4>1. PICK i \in 1..Len(w) : e[1] = w[i]
                BY <3>2
            <4>2. i + 1 \in 1..Len(w) + 1 /\ i + 1 # 1 /\ i + 1 - 1 = i
                BY <1>1
            <4> QED
                BY <4>1, <4>2 DEF Ahead
        <3> QED
            BY <3>1, <3>2, <1>3
    <2>3. i # Len(w) + 1
        BY <2>1, <2>2, <1>1 DEF Follows
    <2>4. i \in 1..Len(w)
        BY <2>3, <1>1
    <2>5. w[i] \in Succ(e[1])
        BY <2>2, <2>4, <1>1 DEF Follows
    <2> QED
        BY <2>1, <2>4, <2>5 DEF HistoryLinear
<1>4. Reach(b) \subseteq S
    BY <1>2, <1>3, ReachLeast
<1>5. k # b
    BY HistoryAssumption DEF IInv, TypeOK
<1> QED
    BY <1>4, <1>5

\* Behind which commits the ones of c come after its commit
LEMMA CommitSucc ==
    ASSUME IInv, NEW c \in Clients, SeenInv(c), Commit(c), ~overtaken',
           NEW a, NEW n, a = anchor[c], n = New(c)
    PROVE  /\ \A m \in branches \cup commits : m # a => Succ(m)' = Succ(m)
           /\ Succ(a)' = {n}
           /\ req[c].op = "commit" => Succ(n)' = Succ(a)
<1> PICK o : o = old[c]
    OBVIOUS
<1>1. /\ Succ(a) = IF o = NoNode THEN {} ELSE {o}
      /\ edges' = {e \in edges : e[1] # a} \cup {<<a, n>>}
                  \cup (IF o = NoNode THEN {} ELSE {<<n, o>>})
      /\ n \in Commits /\ a # n
      /\ req[c].op = "commit" => n \notin commits /\ (o # NoNode => o \in commits)
      /\ req[c].op = "commit" \/ o = NoNode
      /\ n \notin branches
    BY CommitEffect, HistoryAssumption DEF IInv, TypeOK
<1>2. ASSUME NEW m \in branches \cup commits, m # a
      PROVE  Succ(m)' = Succ(m)
    <2>1. m # n \/ o = NoNode
        BY <1>1
    <2> QED
        BY <2>1, <1>1, <1>2 DEF Succ
<1>3. {m \in Commits : <<a, m>> \in edges'} = {n}
    BY <1>1
<1>4. ASSUME req[c].op = "commit"
      PROVE  {m \in Commits : <<n, m>> \in edges'} = Succ(a)
    <2>1. \A m : <<n, m>> \notin edges
        BY <1>1, <1>4 DEF IInv, TypeOK
    <2>2. commits \subseteq Commits
        BY DEF IInv, TypeOK
    <2> QED
        BY <2>1, <2>2, <1>1, <1>4
<1>5. Succ(a)' = {m \in Commits : <<a, m>> \in edges'} /\ Succ(n)' = {m \in Commits : <<n, m>> \in edges'}
    BY DEF Succ
<1> QED
    BY <1>2, <1>3, <1>4, <1>5

-----------------------------------------------------------------------------
(* Each commit does to the log what BranchLog says *)

\* The invariants a commit that overtakes none starts from, and leaves
Undisturbed == HistoryInv /\ ~overtaken

LEMMA UndisturbedFacts ==
    ASSUME Undisturbed
    PROVE  IInv /\ HistoryLinear /\ Linked /\ IsFiniteSet(commits) /\ NoLostCommit /\ LogLaws
BY LogLawsHold, LinkedReached DEF Undisturbed, HistoryInv, LinearInv, FoundAll

LEMMA UndisturbedNext == Undisturbed' => LogLaws'
<1>1. Undisturbed => LogLaws
    BY UndisturbedFacts
<1> QED
    BY <1>1, PTL

\* A walk that meets no changed node stays one.
LEMMA StaysWalk ==
    ASSUME NEW d, NEW w, Follows(d, w), commits \subseteq commits',
           Succ(d)' = Succ(d), \A i \in 1..Len(w) : Succ(w[i])' = Succ(w[i])
    PROVE  Follows(d, w)'
<1>1. w \in Seq(commits) /\ Len(w) \in Nat /\ w \in Seq(commits')
    <2>1. w \in Seq(commits) /\ Len(w) \in Nat
        BY LenProperties DEF Follows
    <2>2. \A i \in 1..Len(w) : w[i] \in commits'
        BY <2>1
    <2> QED
        BY <2>1, <2>2
<1>2. \A i \in 1..Len(w) + 1 : Succ(Ahead(d, w, i))' = Succ(Ahead(d, w, i))
    <2> SUFFICES ASSUME NEW i \in 1..Len(w) + 1
                 PROVE  Succ(Ahead(d, w, i))' = Succ(Ahead(d, w, i))
        OBVIOUS
    <2>1. CASE i = 1
        BY <2>1 DEF Ahead
    <2>2. CASE i # 1
        <3>1. i - 1 \in 1..Len(w)
            BY <2>2, <1>1
        <3> QED
            BY <3>1, <2>2 DEF Ahead
    <2> QED
        BY <2>1, <2>2
<1>3. \A i \in 1..Len(w) : i \in 1..Len(w) + 1 /\ w[i] \in Succ(Ahead(d, w, i))
    BY <1>1 DEF Follows
<1>4. Len(w) + 1 \in 1..Len(w) + 1 /\ Succ(Ahead(d, w, Len(w) + 1)) = {}
    BY <1>1 DEF Follows
<1>5. \A i \in 1..Len(w) : w[i] \in Succ(Ahead(d, w, i))'
    BY <1>2, <1>3
<1>6. Succ(Ahead(d, w, Len(w) + 1))' = {}
    BY <1>2, <1>4
<1> QED
    BY <1>1, <1>5, <1>6 DEF Follows, Ahead

\* The log of the branches that do not have the anchor stays.
LEMMA OthersLog ==
    ASSUME Undisturbed, Undisturbed', NEW c \in Clients, Commit(c), ~overtaken',
           NEW d \in branches, d # anchor[c],
           \A i \in 1..Len(History[d]) : History[d][i] # anchor[c]
    PROVE  History'[d] = History[d]
<1> PICK w, a, n : w = History[d] /\ a = anchor[c] /\ n = New(c)
    OBVIOUS
<1>1. /\ IInv /\ SeenInv(c) /\ LogLaws /\ LogLaws'
      /\ branches \subseteq branches' /\ commits \subseteq commits'
    BY UndisturbedFacts, UndisturbedNext DEF Undisturbed, HistoryInv, LinearInv, Commit
<1>2. Follows(d, w) /\ w \in Seq(commits)
    BY <1>1 DEF LogLaws, Follows
<1>3. \A m \in branches \cup commits : m # a => Succ(m)' = Succ(m)
    BY <1>1, CommitSucc
<1>4. \A i \in 1..Len(w) : w[i] \in commits /\ w[i] # a
    BY <1>2
<1>5. Follows(d, w)'
    BY <1>1, <1>2, <1>3, <1>4, StaysWalk
<1>6. d \in branches' /\ \A b \in branches' : \A v : Follows(b, v)' => v = History'[b]
    BY <1>1 DEF LogLaws
<1> QED
    BY <1>5, <1>6

LEMMA ForkStep ==
    ASSUME Undisturbed, Undisturbed', NEW c \in Clients, Commit(c), ~overtaken',
           req[c].op = "branch"
    PROVE  Abstract!Fork(req[c].branch, New(c))
<1> PICK b, n : b = req[c].branch /\ n = New(c)
    OBVIOUS
<1>1. /\ IInv /\ SeenInv(c) /\ LogLaws /\ LogLaws' /\ NoLostCommit
    BY UndisturbedFacts, UndisturbedNext DEF Undisturbed, HistoryInv, LinearInv
<1>2. /\ b \in Branches /\ b \notin branches /\ n \in commits /\ anchor[c] = b
      /\ branches' = branches \cup {b} /\ commits' = commits /\ b \notin commits
    <2>1. /\ b \in Branches /\ b \notin branches /\ n \in commits /\ anchor[c] = b
          /\ branches' = branches \cup {b} /\ commits' = commits \cup {n}
        BY <1>1, CommitEffect
    <2>2. commits \subseteq Commits
        BY <1>1 DEF IInv, TypeOK
    <2> QED
        BY <2>1, <2>2, HistoryAssumption
<1>3. (\A m \in commits : Succ(m)' = Succ(m)) /\ Succ(b)' = {n}
    BY <1>1, <1>2, CommitSucc
<1>4. PICK d \in branches : n \in Reach(d)
    BY <1>1, <1>2 DEF NoLostCommit
<1> PICK w : w = History[d]
    OBVIOUS
<1>5. Follows(d, w) /\ w \in Seq(commits) /\ Len(w) \in Nat /\ \E i \in 1..Len(w) : w[i] = n
    <2>1. Follows(d, w) /\ w \in Seq(commits)
        BY <1>1 DEF LogLaws, Follows
    <2>2. \E i \in 1..Len(w) : w[i] = n
        BY <1>1, <1>2, <1>4, HasReached, UndisturbedFacts
    <2> QED
        BY <2>1, <2>2, LenProperties
<1> PICK p : p = Abstract!Position(w, n)
    OBVIOUS
<1>6. p \in 1..Len(w) /\ w[p] = n
    BY <1>5 DEF Abstract!Position
<1>7. PICK v : v = SubSeq(w, p, Len(w))
    OBVIOUS
<1>8. /\ v \in Seq(commits) /\ Len(v) = Len(w) - p + 1
      /\ \A i \in 1..Len(v) : v[i] = w[p + i - 1]
    BY <1>5, <1>6, <1>7, SubSeqProperties
<1> PICK l : l = Len(w)
    OBVIOUS
<1>9. l \in Nat /\ p \in Nat /\ 1 <= p /\ p <= l /\ Len(v) = l - p + 1
    BY <1>5, <1>6, <1>8
<1>10. Follows(b, v)'
    <2>1. \A i \in 2..Len(v) + 1 : /\ Ahead(b, v, i) = Ahead(d, w, p + i - 1)
                                   /\ Ahead(b, v, i) \in commits
        <3> SUFFICES ASSUME NEW i \in 2..Len(v) + 1
                     PROVE  /\ Ahead(b, v, i) = Ahead(d, w, p + i - 1)
                            /\ Ahead(b, v, i) \in commits
            OBVIOUS
        <3>0. i \in Nat /\ 2 <= i /\ i <= l - p + 2
            BY <1>9
        <3> PICK j, q : j = i - 1 /\ q = p + i - 1
            OBVIOUS
        <3>1. j \in 1..Len(v) /\ i # 1 /\ q # 1 /\ q - 1 = p + j - 1
            BY <1>9, <3>0
        <3>2. Ahead(b, v, i) = v[j] /\ Ahead(d, w, q) = w[q - 1]
            BY <3>1 DEF Ahead
        <3>3. v[j] = w[p + j - 1] /\ v[j] \in commits
            BY <3>1, <1>8
        <3> QED
            BY <3>1, <3>2, <3>3
    <2>2. ASSUME NEW i \in 1..Len(v)
          PROVE  v[i] \in Succ(Ahead(b, v, i))'
        <3>1. CASE i = 1
            <4>1. v[i] = n
                BY <3>1, <1>5, <1>6, <1>8
            <4> QED
                BY <3>1, <4>1, <1>3 DEF Ahead
        <3>2. CASE i # 1
            <4>1. i \in 2..Len(v) + 1 /\ p + i - 1 \in 1..Len(w)
                BY <3>2, <1>9
            <4>2. w[p + i - 1] \in Succ(Ahead(d, w, p + i - 1))
                BY <4>1, <1>5 DEF Follows
            <4>3. Succ(Ahead(b, v, i))' = Succ(Ahead(b, v, i))
                BY <4>1, <2>1, <1>3
            <4> QED
                BY <4>1, <4>2, <4>3, <2>1, <1>8
        <3> QED
            BY <3>1, <3>2
    <2>3. Succ(Ahead(b, v, Len(v) + 1))' = {}
        <3>1. Len(v) + 1 \in 2..Len(v) + 1 /\ p + (Len(v) + 1) - 1 = Len(w) + 1
            BY <1>9
        <3>2. Ahead(b, v, Len(v) + 1) = Ahead(d, w, Len(w) + 1) /\ Ahead(b, v, Len(v) + 1) \in commits
            BY <3>1, <2>1
        <3> QED
            BY <3>2, <1>3, <1>5 DEF Follows
    <2> QED
        BY <2>2, <2>3, <1>2, <1>8 DEF Follows, Ahead
<1>11. DOMAIN History' = branches \cup {b} /\ DOMAIN History = branches /\ History'[b] = v
    BY <1>1, <1>2, <1>10 DEF LogLaws
<1>12. \A e \in branches : History'[e] = History[e]
    <2> SUFFICES ASSUME NEW e \in branches PROVE History'[e] = History[e]
        OBVIOUS
    <2>1. \A i \in 1..Len(History[e]) : History[e][i] # b
        BY <1>1, <1>2 DEF LogLaws, Follows
    <2> QED
        BY <2>1, <1>2, OthersLog
<1>13. History' = [e \in branches \cup {b} |-> IF e # b THEN History[e] ELSE v]
    <2>1. History' = [e \in DOMAIN History' |-> History'[e]]
        BY DEF History
    <2> QED
        BY <2>1, <1>2, <1>11, <1>12
<1> QED
    BY <1>2, <1>5, <1>7, <1>11, <1>13 DEF Abstract!Fork, Abstract!Has

\* No log has a commit that is not in the database yet.
LEMMA NewFresh ==
    ASSUME IInv, LogLaws, NEW n, n \notin commits
    PROVE  Abstract!Fresh(n)
<1>1. ASSUME NEW b \in branches, NEW i \in 1..Len(History[b]) PROVE History[b][i] # n
    BY DEF LogLaws, Follows
<1> QED
    BY <1>1 DEF Abstract!Fresh, Abstract!Has, LogLaws

LEMMA PrependStep ==
    ASSUME Undisturbed, Undisturbed', NEW c \in Clients, Commit(c), ~overtaken',
           req[c].op = "commit", ~Inserts(c)
    PROVE  Abstract!Prepend(req[c].branch, New(c))
<1> PICK b, n : b = req[c].branch /\ n = New(c)
    OBVIOUS
<1>1. /\ IInv /\ SeenInv(c) /\ LogLaws /\ LogLaws' /\ FoundInv(c) /\ IInv'
    BY UndisturbedFacts, UndisturbedNext DEF Undisturbed, HistoryInv, LinearInv, FoundAll
<1>2. /\ b \in Branches /\ n \notin commits /\ anchor[c] = b /\ n \in Commits /\ n # b
      /\ branches' = branches \cup {b} /\ commits' = commits \cup {n} /\ b \notin commits
    <2>1. /\ b \in Branches /\ n \notin commits /\ n \in Commits /\ pc[c] = "commit"
          /\ branches' = branches \cup {b} /\ commits' = commits \cup {n} /\ anchor[c] # n
        BY <1>1, CommitEffect
    <2>2. commits \subseteq Commits
        BY <1>1 DEF IInv, TypeOK
    <2>3. anchor[c] = b
        BY <1>1, <2>1 DEF FoundInv, ShapeInv, Placed, Owning
    <2> QED
        BY <2>1, <2>2, <2>3, HistoryAssumption
<1>3. (\A m \in commits : Succ(m)' = Succ(m)) /\ Succ(b)' = {n} /\ Succ(n)' = Succ(b)
    BY <1>1, <1>2, CommitSucc
<1>4. PICK w : /\ w \in Seq(commits) /\ Len(w) \in Nat
               /\ b \in branches => w = History[b]
               /\ b \notin branches => w = <<>>
               /\ Follows(b, w)
    <2>1. CASE b \in branches
        <3>1. Follows(b, History[b]) /\ History[b] \in Seq(commits)
            BY <1>1, <2>1 DEF LogLaws, Follows
        <3> QED
            BY <2>1, <3>1, LenProperties
    <2>2. CASE b \notin branches
        <3>1. Succ(b) = {}
            BY <1>1, <1>2, <2>2 DEF Succ, IInv, TypeOK
        <3>2. <<>> \in Seq(commits) /\ Len(<<>>) = 0
            OBVIOUS
        <3>3. Follows(b, <<>>)
            BY <3>1, <3>2 DEF Follows, Ahead
        <3> WITNESS <<>>
        <3> QED
            BY <2>2, <3>2, <3>3
    <2> QED
        BY <2>1, <2>2
\* From its commit on, the branch goes on as it did.
<1>5. Follows(n, w)'
    <2>1. w \in Seq(commits')
        <3>1. \A i \in 1..Len(w) : w[i] \in commits'
            BY <1>2, <1>4
        <3> QED
            BY <3>1, <1>4
    <2>2. ASSUME NEW i \in 1..Len(w) + 1
          PROVE  Succ(Ahead(n, w, i))' = Succ(Ahead(b, w, i))
        <3>1. CASE i = 1
            BY <3>1, <1>3 DEF Ahead
        <3>2. CASE i # 1
            <4>1. i - 1 \in 1..Len(w)
                BY <3>2, <1>4
            <4>2. w[i - 1] \in commits
                BY <4>1, <1>4
            <4> QED
                BY <4>2, <3>2, <1>3 DEF Ahead
        <3> QED
            BY <3>1, <3>2
    <2>3. \A i \in 1..Len(w) : i \in 1..Len(w) + 1 /\ w[i] \in Succ(Ahead(b, w, i))
        BY <1>4 DEF Follows
    <2>4. Len(w) + 1 \in 1..Len(w) + 1 /\ Succ(Ahead(b, w, Len(w) + 1)) = {}
        BY <1>4 DEF Follows
    <2>5. \A i \in 1..Len(w) : w[i] \in Succ(Ahead(n, w, i))'
        BY <2>2, <2>3
    <2>6. Succ(Ahead(n, w, Len(w) + 1))' = {}
        BY <2>2, <2>4
    <2> QED
        BY <2>1, <2>5, <2>6 DEF Follows, Ahead
<1>6. Follows(b, <<n>> \o w)'
    BY <1>1, <1>3, <1>5, FollowsOnNext
<1>7. DOMAIN History' = branches \cup {b} /\ DOMAIN History = branches /\ History'[b] = <<n>> \o w
    BY <1>1, <1>2, <1>6 DEF LogLaws
<1>8. \A e \in branches : e # b => History'[e] = History[e]
    <2> SUFFICES ASSUME NEW e \in branches, e # b PROVE History'[e] = History[e]
        OBVIOUS
    <2>1. \A i \in 1..Len(History[e]) : History[e][i] # b
        BY <1>1, <1>2 DEF LogLaws, Follows
    <2> QED
        BY <2>1, <1>2, OthersLog
<1>9. b \notin branches => <<n>> \o w = <<n>>
    <2>1. <<n>> \in Seq(Commits)
        BY <1>2
    <2>2. <<n>> \o <<>> = <<n>>
        BY <2>1, ConcatEmptySeq
    <2> QED
        BY <1>4, <2>2
<1>10. History' = [e \in branches \cup {b} |->
                      IF e # b THEN History[e]
                      ELSE IF b \in branches THEN <<n>> \o History[b] ELSE <<n>>]
    <2>1. History' = [e \in DOMAIN History' |-> History'[e]]
        BY DEF History
    <2> QED
        BY <2>1, <1>4, <1>7, <1>8, <1>9
<1> QED
    BY <1>1, <1>2, <1>7, <1>10, NewFresh DEF Abstract!Prepend

LEMMA InsertIs ==
    ASSUME NEW w, NEW p \in Int, NEW n
    PROVE  Abstract!InsertAt(w, p, n) = SubSeq(w, 1, p - 1) \o <<n>> \o SubSeq(w, p, Len(w))
BY DEF Abstract!InsertAt

LEMMA Inserted ==
    ASSUME NEW S, NEW w \in Seq(S), NEW p \in 1..Len(w), NEW q, q = p + 1, NEW n \in S
    PROVE  \E v :
           /\ v = Abstract!InsertAt(w, q, n)
           /\ v \in Seq(S) /\ Len(v) = Len(w) + 1
           /\ \A i \in 1..Len(v) : v[i] = IF i <= p THEN w[i] ELSE IF i = p + 1 THEN n ELSE w[i - 1]
<1> PICK l : l = Len(w)
    OBVIOUS
<1>0. PICK v : v = Abstract!InsertAt(w, q, n)
    OBVIOUS
<1>1. l \in Nat /\ p \in Nat /\ 1 <= p /\ p <= l /\ q - 1 = p /\ q \in Int
    BY LenProperties
<1>2. PICK x : x = SubSeq(w, 1, p)
    OBVIOUS
<1>3. PICK y : y = SubSeq(w, p + 1, l)
    OBVIOUS
<1>4. x \in Seq(S) /\ Len(x) = p /\ \A i \in 1..p : x[i] = w[i]
    <2>1. \A i \in 1..p : w[i] \in S
        BY <1>1
    <2>2. /\ SubSeq(w, 1, p) \in Seq(S) /\ Len(SubSeq(w, 1, p)) = p - 1 + 1
          /\ \A i \in 1..p - 1 + 1 : SubSeq(w, 1, p)[i] = w[1 + i - 1]
        BY <1>1, <2>1, SubSeqProperties
    <2>3. p - 1 + 1 = p /\ \A i \in 1..p : 1 + i - 1 = i
        BY <1>1
    <2> QED
        BY <1>2, <2>2, <2>3
<1>5. y \in Seq(S) /\ Len(y) = l - p /\ \A i \in 1..l - p : y[i] = w[p + i]
    <2>1. \A i \in p + 1..l : w[i] \in S
        BY <1>1
    <2>2. l - (p + 1) + 1 = l - p /\ \A i \in 1..l - p : p + 1 + i - 1 = p + i
        BY <1>1
    <2>3. /\ SubSeq(w, p + 1, l) \in Seq(S)
          /\ Len(SubSeq(w, p + 1, l)) = IF p + 1 <= l THEN l - (p + 1) + 1 ELSE 0
          /\ \A i \in 1..l - (p + 1) + 1 : SubSeq(w, p + 1, l)[i] = w[p + 1 + i - 1]
        BY <1>1, <2>1, SubSeqProperties
    <2>4. Len(SubSeq(w, p + 1, l)) = l - p
        BY <1>1, <2>3
    <2> QED
        BY <1>3, <2>2, <2>3, <2>4
<1>6. v = x \o <<n>> \o y
    <2>1. v = SubSeq(w, 1, q - 1) \o <<n>> \o SubSeq(w, q, l)
        BY <1>0, <1>1, InsertIs
    <2>2. SubSeq(w, 1, q - 1) = x /\ SubSeq(w, q, l) = y
        BY <1>1, <1>2, <1>3
    <2> QED
        BY <2>1, <2>2, Zenon
<1>7. PICK z : z = x \o <<n>>
    OBVIOUS
<1>8. /\ z \in Seq(S) /\ Len(z) = p + 1
      /\ \A i \in 1..p + 1 : z[i] = IF i <= p THEN w[i] ELSE n
    <2>1. <<n>> \in Seq(S) /\ Len(<<n>>) = 1 /\ <<n>>[1] = n
        OBVIOUS
    <2>2. PICK t : t = <<n>>
        OBVIOUS
    <2>3. t \in Seq(S) /\ Len(t) = 1 /\ t[1] = n /\ z = x \o t
        BY <2>1, <2>2, <1>7
    <2>4. /\ x \o t \in Seq(S) /\ Len(x \o t) = Len(x) + Len(t)
          /\ \A i \in 1..Len(x) + Len(t) : (x \o t)[i] = IF i <= Len(x) THEN x[i] ELSE t[i - Len(x)]
        BY <1>4, <2>3, ConcatProperties
    <2>5. \A i \in 1..p + 1 : (i <= p => i \in 1..p) /\ (~(i <= p) => i - p = 1)
        BY <1>1
    <2> QED
        BY <1>4, <2>3, <2>4, <2>5
<1>9. /\ v \in Seq(S) /\ Len(v) = l + 1
      /\ \A i \in 1..l + 1 : v[i] = IF i <= p + 1 THEN z[i] ELSE y[i - (p + 1)]
    <2>1. /\ z \o y \in Seq(S) /\ Len(z \o y) = Len(z) + Len(y)
          /\ \A i \in 1..Len(z) + Len(y) : (z \o y)[i] = IF i <= Len(z) THEN z[i] ELSE y[i - Len(z)]
        BY <1>5, <1>8, ConcatProperties
    <2>2. p + 1 + (l - p) = l + 1
        BY <1>1
    <2>3. v = z \o y
        BY <1>6, <1>7
    <2> QED
        BY <1>5, <1>8, <2>1, <2>2, <2>3
<1>10. ASSUME NEW i \in 1..l + 1
       PROVE  v[i] = IF i <= p THEN w[i] ELSE IF i = p + 1 THEN n ELSE w[i - 1]
    <2>1. CASE i <= p + 1
        <3>1. i \in 1..p + 1 /\ (~(i <= p) => i = p + 1)
            BY <1>1, <2>1
        <3> QED
            BY <2>1, <3>1, <1>8, <1>9
    <2>2. CASE ~(i <= p + 1)
        <3>1. /\ i - (p + 1) \in 1..l - p /\ p + (i - (p + 1)) = i - 1
              /\ ~(i <= p) /\ i # p + 1
            BY <1>1, <2>2
        <3> QED
            BY <2>2, <3>1, <1>5, <1>9
    <2> QED
        BY <2>1, <2>2
<1> WITNESS v
<1> QED
    BY <1>0, <1>9, <1>10

\* A branch that has the anchor goes through the new commit next.
LEMMA InsertedWalk ==
    ASSUME Undisturbed, Undisturbed', NEW c \in Clients, Commit(c), ~overtaken',
           req[c].op = "commit", NEW d \in branches, d # anchor[c],
           NEW p \in 1..Len(History[d]), History[d][p] = anchor[c], NEW q, q = p + 1
    PROVE  History'[d] = Abstract!InsertAt(History[d], q, New(c))
<1>0. PICK w, a, n : w = History[d] /\ a = anchor[c] /\ n = New(c)
    OBVIOUS
<1>1. /\ IInv /\ SeenInv(c) /\ LogLaws /\ LogLaws'
      /\ branches \subseteq branches' /\ commits' = commits \cup {n}
    BY <1>0, UndisturbedFacts, UndisturbedNext DEF Undisturbed, HistoryInv, LinearInv, Commit
<1>2. Follows(d, w) /\ w \in Seq(commits) /\ Len(w) \in Nat
    BY <1>0, <1>1, LenProperties DEF LogLaws, Follows
<1>3. p \in 1..Len(w) /\ w[p] = a /\ a \in commits /\ d # a
    BY <1>0, <1>2
<1>4. /\ \A m \in branches \cup commits : m # a => Succ(m)' = Succ(m)
      /\ Succ(a)' = {n} /\ Succ(n)' = Succ(a)
    BY <1>0, <1>1, CommitSucc
<1>5. w \in Seq(commits') /\ n \in commits'
    <2>1. \A i \in 1..Len(w) : w[i] \in commits'
        BY <1>1, <1>2
    <2> QED
        BY <2>1, <1>1, <1>2
<1>6. \A i \in 1..Len(w) : i # p => w[i] # a
    <2> SUFFICES ASSUME NEW i \in 1..Len(w), i # p PROVE w[i] # w[p]
        BY <1>3
    <2>1. i < p \/ p < i
        BY <1>2, <1>3
    <2> QED
        BY <2>1, <1>1, <1>2, <1>3, FollowsDown
<1>7. w \in Seq(commits') /\ p \in 1..Len(w) /\ n \in commits'
    BY <1>3, <1>5
<1>8. PICK v : /\ v = Abstract!InsertAt(w, q, n)
               /\ v \in Seq(commits') /\ Len(v) = Len(w) + 1
               /\ \A i \in 1..Len(v) :
                      v[i] = IF i <= p THEN w[i] ELSE IF i = p + 1 THEN n ELSE w[i - 1]
    BY <1>7, Inserted
<1> PICK l : l = Len(w)
    OBVIOUS
<1>9. l \in Nat /\ p \in Nat /\ 1 <= p /\ p <= l /\ Len(v) = l + 1
    BY <1>2, <1>3, <1>8
\* Up to the anchor it takes the old way, after the new commit too.
<1>10. ASSUME NEW i \in 1..p
       PROVE  Ahead(d, v, i) = Ahead(d, w, i) /\ Succ(Ahead(d, w, i))' = Succ(Ahead(d, w, i))
    <2>1. CASE i = 1
        BY <2>1, <1>3, <1>4 DEF Ahead
    <2>2. CASE i # 1
        <3> PICK j : j = i - 1
            OBVIOUS
        <3>1. j \in 1..Len(v) /\ j \in 1..Len(w) /\ j <= p /\ j # p
            BY <2>2, <1>9
        <3>2. w[j] \in commits /\ w[j] # a
            BY <3>1, <1>2, <1>6
        <3>3. v[j] = w[j]
            BY <3>1, <1>8
        <3> QED
            BY <2>2, <3>2, <3>3, <1>4 DEF Ahead
    <2> QED
        BY <2>1, <2>2
<1>11. ASSUME NEW i \in p + 2..l + 2
       PROVE  Succ(Ahead(d, v, i))' = Succ(Ahead(d, w, i - 1))
    <2> PICK j : j = i - 1
        OBVIOUS
    <2>1. j \in 1..Len(v) /\ i # 1 /\ j # 1 /\ j > p /\ ~(j <= p)
        BY <1>9
    <2>2. Ahead(d, v, i) = v[j] /\ Ahead(d, w, j) = w[j - 1]
        BY <2>1 DEF Ahead
    <2>3. CASE j = p + 1
        <3>1. j - 1 = p
            BY <1>9, <2>3
        <3>2. v[j] = n
            BY <2>1, <2>3, <1>8
        <3> QED
            BY <2>2, <3>1, <3>2, <1>3, <1>4
    <2>4. CASE j # p + 1
        <3>1. j - 1 \in 1..Len(w) /\ j - 1 # p
            BY <1>9, <2>1, <2>4
        <3>2. w[j - 1] \in commits /\ w[j - 1] # a
            BY <3>1, <1>2, <1>6
        <3>3. v[j] = w[j - 1]
            BY <2>1, <2>4, <1>8
        <3> QED
            BY <2>2, <3>2, <3>3, <1>4
    <2> QED
        BY <2>3, <2>4
<1>12. ASSUME NEW i \in 1..Len(v)
       PROVE  v[i] \in Succ(Ahead(d, v, i))'
    <2>1. CASE i <= p
        <3>1. i \in 1..p /\ i \in 1..Len(w)
            BY <2>1, <1>9
        <3>2. w[i] \in Succ(Ahead(d, w, i))
            BY <3>1, <1>2 DEF Follows
        <3> QED
            BY <2>1, <3>1, <3>2, <1>8, <1>10
    <2>2. CASE i = p + 1
        <3>1. i # 1 /\ i - 1 = p /\ p \in 1..Len(v) /\ p <= p /\ ~(i <= p)
            BY <2>2, <1>9
        <3>2. Ahead(d, v, i) = a
            BY <3>1, <1>3, <1>8 DEF Ahead
        <3> QED
            BY <2>2, <3>1, <3>2, <1>4, <1>8
    <2>3. CASE ~(i <= p) /\ i # p + 1
        <3> PICK j : j = i - 1
            OBVIOUS
        <3>1. i \in p + 2..l + 2 /\ j \in 1..Len(w)
            BY <2>3, <1>9
        <3>2. w[j] \in Succ(Ahead(d, w, j))
            BY <3>1, <1>2 DEF Follows
        <3> QED
            BY <2>3, <3>1, <3>2, <1>8, <1>11
    <2> QED
        BY <2>1, <2>2, <2>3
<1>13. Succ(Ahead(d, v, Len(v) + 1))' = {}
    <2>1. Len(v) + 1 \in p + 2..l + 2 /\ Len(v) + 1 - 1 = Len(w) + 1
        BY <1>9
    <2>2. Succ(Ahead(d, w, Len(w) + 1)) = {}
        BY <1>2 DEF Follows
    <2>3. Succ(Ahead(d, v, Len(v) + 1))' = Succ(Ahead(d, w, Len(v) + 1 - 1))
        BY <2>1, <1>11
    <2> QED
        BY <2>1, <2>2, <2>3
<1>14. Follows(d, v)'
    BY <1>8, <1>12, <1>13 DEF Follows, Ahead
<1>15. d \in branches' /\ \A b \in branches' : \A x : Follows(b, x)' => x = History'[b]
    BY <1>1 DEF LogLaws
<1> QED
    BY <1>0, <1>8, <1>14, <1>15

LEMMA InsertStep ==
    ASSUME Undisturbed, Undisturbed', NEW c \in Clients, Commit(c), ~overtaken',
           req[c].op = "commit", Inserts(c)
    PROVE  \E k \in Commits : /\ k.name = req[c].before
                              /\ Abstract!Has(req[c].branch, k)
                              /\ Abstract!InsertBefore(k, New(c))
<1>0. PICK b, a, n : b = req[c].branch /\ a = anchor[c] /\ n = New(c)
    OBVIOUS
<1>1. /\ IInv /\ SeenInv(c) /\ LogLaws /\ LogLaws' /\ FoundInv(c) /\ HistoryLinear /\ TypeOK
    BY UndisturbedFacts, UndisturbedNext
       DEF Undisturbed, HistoryInv, LinearInv, FoundAll, IInv
<1>2. /\ b \in Branches /\ n \notin commits /\ pc[c] = "commit"
      /\ branches' = branches \cup {b} /\ commits \subseteq Commits /\ branches \subseteq Branches
    BY <1>0, <1>1, CommitEffect DEF TypeOK
\* What it found is in its branch.
<1>3. /\ a \in commits /\ a.name = req[c].before /\ a \in Reach(b)
      /\ a \in Commits /\ a \notin Branches
    <2>1. a \in commits /\ a.name = req[c].before
        BY <1>0, <1>1, <1>2 DEF FoundInv, ShapeInv, Placed, Owning
    <2>2. a \in Reach(b)
        BY <1>0, <1>1, <1>2 DEF FoundInv, PlaceInv, Undisturbed
    <2> QED
        BY <1>2, <2>1, <2>2, HistoryAssumption
<1>4. b \in branches
    <2>1. ASSUME b \notin branches PROVE FALSE
        <3>1. b \notin branches \cup commits
            BY <1>2, <2>1, HistoryAssumption
        <3>2. Reach(b) = {b}
            BY <1>1, <3>1, ReachNowhere
        <3> QED
            BY <1>2, <1>3, <3>2
    <2> QED
        BY <2>1
<1>5. DOMAIN History' = branches /\ DOMAIN History = branches
    BY <1>1, <1>2, <1>4 DEF LogLaws
<1>6. Abstract!Has(b, a)
    BY <1>1, <1>3, <1>4, HasReached DEF Abstract!Has
<1>7. ASSUME NEW d \in branches
      PROVE  History'[d] = IF Abstract!Has(d, a)
                           THEN Abstract!InsertAt(History[d], Abstract!Position(History[d], a) + 1, n)
                           ELSE History[d]
    <2>0. d # a
        BY <1>2, <1>3
    <2>1. CASE Abstract!Has(d, a)
        <3>1. PICK p : p = Abstract!Position(History[d], a)
            OBVIOUS
        <3>2. p \in 1..Len(History[d]) /\ History[d][p] = a
            BY <2>1, <3>1 DEF Abstract!Has, Abstract!Position
        <3>3. PICK q : q = p + 1
            OBVIOUS
        <3>4. History'[d] = Abstract!InsertAt(History[d], q, n)
            BY <1>0, <2>0, <3>2, <3>3, InsertedWalk
        <3> QED
            BY <2>1, <3>1, <3>3, <3>4, Zenon
    <2>2. CASE ~Abstract!Has(d, a)
        <3>1. \A i \in 1..Len(History[d]) : History[d][i] # a
            BY <2>2 DEF Abstract!Has
        <3>2. History'[d] = History[d]
            BY <1>0, <2>0, <3>1, OthersLog
        <3> QED
            BY <2>2, <3>2
    <2> QED
        BY <2>1, <2>2
<1>8. History' = [d \in DOMAIN History |->
                     IF Abstract!Has(d, a)
                     THEN Abstract!InsertAt(History[d], Abstract!Position(History[d], a) + 1, n)
                     ELSE History[d]]
    <2>1. History' = [d \in DOMAIN History' |-> History'[d]]
        BY DEF History
    <2> QED
        BY <2>1, <1>5, <1>7, Zenon
<1>9. Abstract!Fresh(n)
    BY <1>1, <1>2, NewFresh
<1>10. Abstract!InsertBefore(a, n)
    BY <1>4, <1>5, <1>6, <1>8, <1>9 DEF Abstract!InsertBefore
<1> QED
    BY <1>0, <1>3, <1>6, <1>10

\* Any step of a client that changes the log is one of the three.
LEMMA LogSteps ==
    ASSUME Undisturbed, Undisturbed', NEW c \in Clients, Commit(c), ~overtaken'
    PROVE  pc[c] = "commit" /\ pc'[c] = "idle" /\ LogStep(c)
<1>1. IInv /\ SeenInv(c)
    BY DEF Undisturbed, HistoryInv, LinearInv
<1>2. pc[c] = "commit" /\ pc'[c] = "idle" /\ req[c].op \in {"commit", "branch"}
    BY <1>1, CommitEffect
<1>3. CASE req[c].op = "branch"
    BY <1>2, <1>3, ForkStep DEF LogStep
<1>4. CASE req[c].op = "commit" /\ ~Inserts(c)
    BY <1>2, <1>4, PrependStep DEF LogStep
<1>5. CASE req[c].op = "commit" /\ Inserts(c)
    BY <1>2, <1>5, InsertStep DEF LogStep
<1> QED
    BY <1>2, <1>3, <1>4, <1>5

\* Until one commit overtakes another the graph is a log of commits per branch: what
\* commit and create_branch do to it, over all their queries and among the other
\* clients, is one step of BranchLog, when the transaction commits.
THEOREM HistoryImplementsLog == Spec => ImplementsLog
<1>1. Init => Abstract!Init
    <2> SUFFICES ASSUME Init PROVE History = <<>>
        BY DEF Abstract!Init
    <2>1. DOMAIN History = {}
        BY DEF Init, History
    <2> QED
        BY DEF Init, History
<1>2. HistoryInv /\ HistoryInv' /\ [Next]_vars =>
          [branches' # branches \/ edges' # edges =>
              overtaken' \/ \E c \in Clients : pc[c] = "commit" /\ pc'[c] = "idle" /\ LogStep(c)]_vars
    <2> SUFFICES ASSUME HistoryInv, HistoryInv', Next, ~overtaken',
                        branches' # branches \/ edges' # edges
                 PROVE  \E c \in Clients : pc[c] = "commit" /\ pc'[c] = "idle" /\ LogStep(c)
        BY DEF vars
    <2>1. PICK c \in Clients : Client(c)
        BY DEF Next, Terminated, vars, database
    <2>2. Commit(c)
        BY <2>1, OnlyCommitWrites DEF database
    <2>3. Undisturbed /\ Undisturbed'
        BY <2>2 DEF Undisturbed, Commit
    <2> QED
        BY <2>2, <2>3, LogSteps
<1> QED
    BY <1>1, <1>2, FoundInvariant, PTL DEF Spec, ImplementsLog
=============================================================================
