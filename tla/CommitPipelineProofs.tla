------------------------ MODULE CommitPipelineProofs ------------------------
(***************************************************************************)
(* Proofs about CommitPipeline, for any directories, any number of upload  *)
(* workers, any number of commits and any set of faults.                   *)
(*                                                                         *)
(* IInv is the inductive invariant.  It follows the nodes of the walk down *)
(* the pipeline: what the visitor has produced is at every moment either   *)
(* in one of the places it can wait or where it belongs, and the two       *)
(* sentinels arrive last.                                                  *)
(***************************************************************************)
EXTENDS CommitPipeline, TLAPS, SequenceTheorems

-----------------------------------------------------------------------------
(* The inductive invariant *)

InLoop == pc \in {"take", "check", "merge"}

\* The sentinel of this commit has not been put in uq yet.
Open == InLoop \/ pc = "sentinel" \/ (pc = "unwind" /\ raised)

\* None can only be the last element of q.
NoneLast(q) == \A i \in 1..Len(q) : q[i] = None => i = Len(q)

\* The loop variable and the walk are what the position of main says.
MainInv ==
    /\ pc # "idle" => walk \in Walks
    /\ pc \in {"take", "check", "merge", "sentinel", "join", "root"} => ~raised
    /\ pc \in {"check", "merge"} => item \in Items
    /\ pc = "merge" => item.kind = "dir"
    /\ pc \in {"take", "sentinel"} /\ item # None /\ item.kind = "dir" => last = item

\* vq ends with what the visitor produced last; the sentinel comes after it.
VisitorInv ==
    /\ pc # "idle" => visitor # "off"
    /\ NoneLast(vq) /\ (visitor = "running" => None \notin Range(vq))
    /\ visitor = "done" => vpos = Len(walk)
    /\ pc \notin {"idle", "take", "check", "merge"} /\ ~raised =>
           visitor \in {"done", "failed"} /\ vq = <<>>
    /\ (InLoop \/ pc = "sentinel") /\ vpos > 0 =>
           /\ vq # <<>> /\ vq[Len(vq)] # None => vq[Len(vq)] = walk[vpos]
           /\ Len(vq) > 1 /\ vq[Len(vq)] = None => vq[Len(vq) - 1] = walk[vpos]
           /\ vq = <<>> \/ vq[1] = None => item = walk[vpos]

\* Every directory the visitor has produced is merged, or waits to be.
DirsInv ==
    InLoop \/ pc = "sentinel" =>
        \A k \in 1..vpos : walk[k].kind = "dir" =>
            \/ walk[k].hash \in txn
            \/ walk[k] \in Range(vq)
            \/ pc \in {"check", "merge"} /\ item = walk[k]

\* Nothing is merged that is not a directory of the walk.
OriginInv ==
    pc # "idle" =>
        /\ txn \subseteq DirsOf(walk)
        /\ \A x \in Range(vq) : x # None => x \in Range(walk)
        /\ item # None => item \in Range(walk)

\* Past the loop, with no exception, the root was the last one merged unless
\* the visitor failed; at the end that is known.
WholeInv ==
    /\ pc \in {"join", "root", "unwind", "shutdown", "exit_visitor", "finish"} /\ ~raised =>
           last # None /\ (visitor = "done" =>
                               last = walk[Len(walk)] /\ DirsOf(walk) \subseteq txn)
    /\ pc = "finish" /\ ~raised => visitor = "done"

\* Every file the visitor has produced is stored, or on its way.
BlobsInv ==
    pc # "idle" /\ clean /\ ~raised /\ ~exc =>
        \A k \in 1..vpos : walk[k].kind = "file" =>
            \/ walk[k].hash \in objects
            \/ walk[k].hash \in Range(pool)
            \/ \E w \in Workers : active[w] = walk[k].hash
            \/ walk[k] \in Range(uq)
            \/ walk[k] \in Range(vq)

\* If this commit found uq empty and puts one sentinel in it, uq ends with that
\* sentinel and the sentinel ends the submit thread.
QueueInv ==
    /\ pc # "idle" /\ clean =>
           /\ Open => None \notin Range(uq) /\ submitter = "running"
           /\ ~Open /\ submitter = "running" => uq # <<>> /\ uq[Len(uq)] = None /\ NoneLast(uq)
           /\ ~Open /\ submitter # "running" => uq = <<>>
    /\ QueueClean
    /\ "late" \notin Faults => clean

\* The submit thread is done when the pool is, and main waits for it.
ThreadsInv ==
    /\ pc # "idle" => submitter # "off"
    /\ submitter \in {"off", "done"} => pool = <<>> /\ \A w \in Workers : active[w] = None
    /\ pc \in {"idle", "exit_visitor", "finish", "root"} \/ (pc = "unwind" /\ ~raised) =>
           submitter \in {"off", "done"}
    /\ pc \in {"idle", "finish"} => visitor # "running"

IInv == /\ TypeOK /\ MainInv /\ VisitorInv /\ DirsInv /\ OriginInv /\ WholeInv
        /\ BlobsInv /\ QueueInv /\ ThreadsInv
        /\ SnapshotComplete /\ NoPartialTrees /\ StoredIfClean

-----------------------------------------------------------------------------
(* Sequences *)

\* An append adds its element to the range, at the end.
LEMMA AppendFacts ==
    ASSUME NEW S, NEW q \in Seq(S), NEW e \in S
    PROVE  /\ Append(q, e) \in Seq(S) /\ Append(q, e) # <<>>
           /\ Len(Append(q, e)) = Len(q) + 1
           /\ \A i \in 1..Len(q) : Append(q, e)[i] = q[i]
           /\ Append(q, e)[Len(q) + 1] = e
           /\ Range(Append(q, e)) = Range(q) \cup {e}
<1>1. /\ Append(q, e) \in Seq(S) /\ Append(q, e) # <<>>
      /\ Len(Append(q, e)) = Len(q) + 1
      /\ \A i \in 1..Len(q) : Append(q, e)[i] = q[i]
      /\ Append(q, e)[Len(q) + 1] = e
  OBVIOUS
<1>2. DOMAIN q = 1..Len(q) /\ DOMAIN Append(q, e) = 1..(Len(q) + 1)
  OBVIOUS
<1>3. Range(Append(q, e)) = Range(q) \cup {e}
  BY <1>1, <1>2, Len(q) \in Nat DEF Range
<1> QED  BY <1>1, <1>3

\* The tail keeps the order and all the range but the head.
LEMMA TailFacts ==
    ASSUME NEW S, NEW q \in Seq(S), q # <<>>
    PROVE  /\ Tail(q) \in Seq(S) /\ Head(q) \in S /\ Head(q) = q[1]
           /\ Len(Tail(q)) = Len(q) - 1 /\ Len(q) > 0
           /\ Tail(q) = <<>> <=> Len(q) = 1
           /\ \A i \in 1..Len(Tail(q)) : Tail(q)[i] = q[i + 1]
           /\ Range(q) = {Head(q)} \cup Range(Tail(q))
<1>1. /\ Tail(q) \in Seq(S) /\ Head(q) \in S /\ Head(q) = q[1]
      /\ Len(Tail(q)) = Len(q) - 1 /\ Len(q) > 0
      /\ \A i \in 1..Len(Tail(q)) : Tail(q)[i] = q[i + 1]
  OBVIOUS
<1>2. DOMAIN q = 1..Len(q) /\ DOMAIN Tail(q) = 1..(Len(q) - 1)
  OBVIOUS
<1>3. ASSUME NEW x \in Range(q) PROVE x = Head(q) \/ x \in Range(Tail(q))
  <2>1. PICK i \in 1..Len(q) : q[i] = x  BY <1>2, <1>3 DEF Range
  <2>2. CASE i = 1  BY <1>1, <2>1, <2>2
  <2>3. CASE i # 1
    <3>1. i - 1 \in 1..(Len(q) - 1)  BY <2>1, <2>3, Len(q) \in Nat
    <3>2. Tail(q)[i - 1] = x  BY <1>1, <2>1, <3>1
    <3> QED  BY <1>2, <3>1, <3>2 DEF Range
  <2> QED  BY <2>2, <2>3
<1>4. ASSUME NEW x \in Range(Tail(q)) PROVE x \in Range(q)
  <2>1. PICK i \in 1..(Len(q) - 1) : Tail(q)[i] = x  BY <1>2, <1>4 DEF Range
  <2>2. i + 1 \in 1..Len(q) /\ q[i + 1] = x  BY <1>1, <2>1, Len(q) \in Nat
  <2> QED  BY <1>2, <2>2 DEF Range
<1>5. Head(q) \in Range(q)
  <2>1. 1 \in 1..Len(q)  BY <1>1, Len(q) \in Nat
  <2> QED  BY <1>1, <1>2, <2>1 DEF Range
<1>6. Tail(q) = <<>> <=> Len(q) = 1
  BY <1>1, EmptySeq, Len(q) \in Nat
<1> QED  BY <1>1, <1>3, <1>4, <1>5, <1>6

\* The range of a sequence, by its indices
LEMMA RangeFacts ==
    ASSUME NEW S, NEW q \in Seq(S)
    PROVE  /\ \A i \in 1..Len(q) : q[i] \in Range(q) /\ q[i] \in S
           /\ \A x \in Range(q) : \E i \in 1..Len(q) : q[i] = x
           /\ Range(q) \subseteq S
           /\ q = <<>> => Range(q) = {}
<1>1. DOMAIN q = 1..Len(q) /\ \A i \in 1..Len(q) : q[i] \in S
  OBVIOUS
<1> QED  BY <1>1 DEF Range

\* A sentinel that is last in a queue is last until it is taken, alone.
LEMMA SentinelTail ==
    ASSUME NEW q \in Seq(Items \cup {None}), Len(q) > 0, NoneLast(q)
    PROVE  NoneLast(Tail(q)) /\ (Head(q) = None => Tail(q) = <<>>)
<1>0. q # <<>>
  BY EmptySeq
<1>1. Len(q) \in Nat /\ Len(Tail(q)) = Len(q) - 1 /\ Len(q) > 0
  BY <1>0, TailFacts
<1>2. ASSUME NEW i \in 1..Len(Tail(q)), Tail(q)[i] = None
      PROVE  i = Len(Tail(q))
  <2>1. i + 1 \in 1..Len(q)
    BY <1>1
  <2>2. q[i + 1] = None
    BY <1>0, <1>2, TailFacts
  <2>3. i + 1 = Len(q)
    BY <2>1, <2>2 DEF NoneLast
  <2> QED  BY <1>1, <2>3
<1>3. Head(q) = None => Tail(q) = <<>>
  <2>1. Head(q) = None => Len(q) = 1
    <3>1. 1 \in 1..Len(q) /\ Head(q) = q[1]
      BY <1>0, <1>1, TailFacts
    <3> QED  BY <3>1 DEF NoneLast
  <2> QED  BY <1>0, <2>1, TailFacts
<1> QED  BY <1>2, <1>3 DEF NoneLast

-----------------------------------------------------------------------------
(* Types *)

\* A walk that is being committed is a sequence of items that ends in a directory.
LEMMA WalkFacts ==
    ASSUME TypeOK
    PROVE  /\ walk \in Seq(Items) /\ vpos \in Nat /\ vpos <= Len(walk) /\ Len(walk) \in Nat
           /\ \A k \in 1..Len(walk) : walk[k] \in Items
<1>1. walk \in Seq(Items)
  <2>1. CASE walk = <<>>
    BY <2>1
  <2>2. CASE walk \in Walks
    BY <2>2, WalksAssumption
  <2> QED  BY <2>1, <2>2 DEF TypeOK
<1>2. Len(walk) \in Nat /\ \A k \in 1..Len(walk) : walk[k] \in Items
  BY <1>1
<1> QED  BY <1>1, <1>2 DEF TypeOK

\* Items, hashes and None are told apart.
LEMMA KindFacts ==
    ASSUME NEW i \in Items \cup {None}
    PROVE  i # None => i \in Items /\ i.hash \in Hashes /\ i.kind \in {"file", "dir"}
<1> SUFFICES ASSUME i # None PROVE i \in Items /\ i.hash \in Hashes /\ i.kind \in {"file", "dir"}
  OBVIOUS
<1>1. i \in Items
  OBVIOUS
<1> QED  BY <1>1 DEF Items

\* The values a commit and a process start with
LEMMA EmptyFacts ==
    /\ <<>> \in Seq(Items \cup {None}) /\ <<>> \in Seq(Hashes) /\ Len(<<>>) = 0
    /\ Range(<<>>) = {}
    /\ [w \in Workers |-> None] \in [Workers -> Hashes \cup {None}]
<1>1. /\ <<>> \in Seq(Items \cup {None}) /\ <<>> \in Seq(Hashes) /\ Len(<<>>) = 0
      /\ [w \in Workers |-> None] \in [Workers -> Hashes \cup {None}]
  OBVIOUS
<1> QED  BY <1>1, RangeFacts

LEMMA TypeInit == Init => TypeOK
<1> SUFFICES ASSUME Init PROVE TypeOK
  OBVIOUS
<1>1. runs \in 0..MaxRuns /\ vpos \in 0..Len(walk)
  BY MaxRunsAssumption, EmptyFacts DEF Init
<1> QED  BY <1>1, EmptyFacts DEF Init, TypeOK

\* Every step keeps the types.
LEMMA TypeStep == TypeOK /\ MainInv /\ WholeInv /\ [Next]_vars => TypeOK'
<1> SUFFICES ASSUME TypeOK, MainInv, WholeInv, [Next]_vars PROVE TypeOK'
  OBVIOUS
<1>w. walk \in Seq(Items) /\ vpos \in Nat /\ vpos <= Len(walk) /\ Len(walk) \in Nat
      /\ \A k \in 1..Len(walk) : walk[k] \in Items
  BY WalkFacts
<1> USE DEF mainVars, visitorVars, poolVars, dbVars
<1>1. CASE BeginCommit
  <2>1. walk' \in Walks /\ Len(walk') \in Nat
    BY <1>1, WalksAssumption DEF BeginCommit
  <2>2. runs' \in 0..MaxRuns /\ vpos' \in 0..Len(walk')
    BY <1>1, <2>1, MaxRunsAssumption DEF BeginCommit, TypeOK
  <2> QED  BY <1>1, <2>1, <2>2, EmptyFacts DEF BeginCommit, TypeOK
<1>2. CASE MainTake
  <2>1. Tail(vq) \in Seq(Items \cup {None}) /\ Head(vq) \in Items \cup {None}
    BY <1>2, TailFacts DEF MainTake, TypeOK
  <2>2. Append(uq, Head(vq)) \in Seq(Items \cup {None})
    BY <2>1, AppendFacts DEF TypeOK
  <2> QED  BY <1>2, <2>1, <2>2 DEF MainTake, TypeOK
<1>3. CASE MainCheck  BY <1>3 DEF MainCheck, Raise, TypeOK
<1>4. CASE MainMerge
  <2>1. item \in Items /\ item.hash \in Hashes
    BY <1>4, KindFacts, NoneAssumption DEF MainMerge, MainInv
  <2> QED  BY <1>4, <2>1 DEF MainMerge, Raise, TypeOK
<1>5. CASE MainSentinel
  <2>1. Append(uq, None) \in Seq(Items \cup {None})
    BY AppendFacts DEF TypeOK
  <2> QED  BY <1>5, <2>1 DEF MainSentinel, Raise, TypeOK
<1>6. CASE MainJoin  BY <1>6 DEF MainJoin, TypeOK
<1>7. CASE MainRoot  BY <1>7 DEF MainRoot, TypeOK
<1>8. CASE Interrupt  BY <1>8 DEF Interrupt, Raise, TypeOK
<1>9. CASE LateFault  BY <1>9 DEF LateFault, Raise, TypeOK
<1>10. CASE ExitUploader
  <2>1. Append(uq, None) \in Seq(Items \cup {None})
    BY AppendFacts DEF TypeOK
  <2> QED  BY <1>10, <2>1 DEF ExitUploader, TypeOK
<1>11. CASE ShutdownUploader  BY <1>11 DEF ShutdownUploader, TypeOK
<1>12. CASE ExitVisitor  BY <1>12 DEF ExitVisitor, TypeOK
<1>13. CASE Finish
  <2>1. ~raised => Snapshot \in [walk : Walks, root : Hashes, failed : BOOLEAN, clean : BOOLEAN]
    <3> SUFFICES ASSUME ~raised
                 PROVE  walk \in Walks /\ last.hash \in Hashes
      BY DEF Snapshot, TypeOK
    <3>1. walk \in Walks /\ last # None
      BY <1>13 DEF Finish, MainInv, WholeInv
    <3> QED  BY <3>1, KindFacts DEF TypeOK
  <2> QED  BY <1>13, <2>1 DEF Finish, TypeOK
<1>14. CASE VisitNode
  <2>1. walk[vpos + 1] \in Items
    BY <1>14, <1>w DEF VisitNode
  <2>2. Append(vq, walk[vpos + 1]) \in Seq(Items \cup {None})
    BY <2>1, AppendFacts DEF TypeOK
  <2> QED  BY <1>14, <1>w, <2>2 DEF VisitNode, TypeOK
<1>15. CASE VisitEnd
  <2>1. Append(vq, None) \in Seq(Items \cup {None})
    BY AppendFacts DEF TypeOK
  <2> QED  BY <1>15, <2>1 DEF VisitEnd, TypeOK
<1>16. CASE VisitFail
  <2>1. Append(vq, None) \in Seq(Items \cup {None})
    BY AppendFacts DEF TypeOK
  <2> QED  BY <1>16, <2>1 DEF VisitFail, TypeOK
<1>17. CASE SubmitGet
  <2>1. Tail(uq) \in Seq(Items \cup {None}) /\ Head(uq) \in Items \cup {None}
    BY <1>17, TailFacts DEF SubmitGet, TypeOK
  <2>2. Head(uq) # None => Append(pool, Head(uq).hash) \in Seq(Hashes)
    BY <2>1, KindFacts, AppendFacts DEF TypeOK
  <2>3. pool' \in Seq(Hashes) /\ submitter' \in {"off", "running", "waiting", "done"}
    BY <1>17, <2>2 DEF SubmitGet, TypeOK
  <2> QED  BY <1>17, <2>1, <2>3 DEF SubmitGet, TypeOK
<1>18. CASE SubmitWait  BY <1>18 DEF SubmitWait, TypeOK
<1>19. CASE \E w \in Workers : Worker(w)
  <2> PICK w \in Workers : Worker(w)
    BY <1>19
  <2>1. CASE WorkerTake(w)
    <3>1. Tail(pool) \in Seq(Hashes) /\ Head(pool) \in Hashes
      BY <2>1, TailFacts DEF WorkerTake, TypeOK
    <3> QED  BY <2>1, <3>1 DEF WorkerTake, TypeOK
  <2>2. CASE WorkerStore(w)  BY <2>2 DEF WorkerStore, TypeOK
  <2>3. CASE WorkerFail(w)  BY <2>3 DEF WorkerFail, TypeOK
  <2> QED  BY <2>1, <2>2, <2>3 DEF Worker
<1>20. CASE Crash
  <2>1. vpos' \in 0..Len(walk')
    BY <1>20, EmptyFacts DEF Crash
  <2> QED  BY <1>20, <2>1, EmptyFacts DEF Crash, TypeOK
<1>21. CASE UNCHANGED vars  BY <1>21 DEF vars, TypeOK
<1> QED
  BY <1>1, <1>2, <1>3, <1>4, <1>5, <1>6, <1>7, <1>8, <1>9, <1>10, <1>11, <1>12, <1>13,
     <1>14, <1>15, <1>16, <1>17, <1>18, <1>19, <1>20, <1>21
  DEF Next, Main, Visitor, Submitter, Terminated

-----------------------------------------------------------------------------
(* Every step preserves each part of the invariant. *)

\* The loop variable and the walk stay what the position of main says.
LEMMA MainStep == TypeOK /\ MainInv /\ [Next]_vars => MainInv'
<1> SUFFICES ASSUME TypeOK, MainInv, [Next]_vars PROVE MainInv'
  OBVIOUS
<1> USE DEF mainVars, visitorVars, poolVars, dbVars
<1>1. CASE BeginCommit  BY <1>1 DEF BeginCommit, MainInv
<1>2. CASE MainTake
  <2>1. Head(vq) \in Items \cup {None}
    BY <1>2, TailFacts DEF MainTake, TypeOK
  <2> QED  BY <1>2, <2>1 DEF MainTake, MainInv
<1>3. CASE MainCheck
  <2>1. item.kind \in {"file", "dir"}
    BY <1>3, KindFacts, NoneAssumption DEF MainCheck, MainInv
  <2> QED  BY <1>3, <2>1 DEF MainCheck, Raise, MainInv
<1>4. CASE MainMerge  BY <1>4 DEF MainMerge, Raise, MainInv
<1>5. CASE MainSentinel  BY <1>5 DEF MainSentinel, Raise, MainInv
<1>6. CASE MainJoin  BY <1>6 DEF MainJoin, MainInv
<1>7. CASE MainRoot  BY <1>7 DEF MainRoot, MainInv
<1>8. CASE Interrupt  BY <1>8 DEF Interrupt, Raise, MainInv
<1>9. CASE LateFault  BY <1>9 DEF LateFault, Raise, MainInv
<1>10. CASE ExitUploader  BY <1>10 DEF ExitUploader, MainInv
<1>11. CASE ShutdownUploader  BY <1>11 DEF ShutdownUploader, MainInv
<1>12. CASE ExitVisitor  BY <1>12 DEF ExitVisitor, MainInv
<1>13. CASE Finish  BY <1>13 DEF Finish, MainInv
<1>14. CASE Visitor  BY <1>14 DEF Visitor, VisitNode, VisitEnd, VisitFail, MainInv
<1>15. CASE Submitter  BY <1>15 DEF Submitter, SubmitGet, SubmitWait, MainInv
<1>16. CASE \E w \in Workers : Worker(w)
  BY <1>16 DEF Worker, WorkerTake, WorkerStore, WorkerFail, MainInv
<1>17. CASE Crash  BY <1>17 DEF Crash, MainInv
<1>18. CASE UNCHANGED vars  BY <1>18 DEF vars, MainInv
<1> QED
  BY <1>1, <1>2, <1>3, <1>4, <1>5, <1>6, <1>7, <1>8, <1>9, <1>10, <1>11, <1>12, <1>13,
     <1>14, <1>15, <1>16, <1>17, <1>18
  DEF Next, Main, Terminated

\* The sentinel stays behind all that the visitor produced.
LEMMA VisitorStep == TypeOK /\ MainInv /\ VisitorInv /\ [Next]_vars => VisitorInv'
<1> SUFFICES ASSUME TypeOK, MainInv, VisitorInv, [Next]_vars PROVE VisitorInv'
  OBVIOUS
<1>w. walk \in Seq(Items) /\ vpos \in Nat /\ vpos <= Len(walk) /\ Len(walk) \in Nat
      /\ \A k \in 1..Len(walk) : walk[k] \in Items
  BY WalkFacts
<1>q. vq \in Seq(Items \cup {None}) /\ Len(vq) \in Nat
      /\ \A i \in 1..Len(vq) : vq[i] \in Range(vq)
  BY RangeFacts DEF TypeOK
<1> USE DEF mainVars, visitorVars, poolVars, dbVars
<1>1. CASE BeginCommit
  BY <1>1, EmptyFacts DEF BeginCommit, VisitorInv, NoneLast, InLoop
<1>2. CASE MainTake
  <2>1. /\ Tail(vq) \in Seq(Items \cup {None}) /\ Head(vq) = vq[1] /\ Len(vq) > 0
        /\ Len(Tail(vq)) = Len(vq) - 1
        /\ Tail(vq) = <<>> <=> Len(vq) = 1
        /\ \A i \in 1..Len(Tail(vq)) : Tail(vq)[i] = vq[i + 1]
        /\ Range(vq) = {Head(vq)} \cup Range(Tail(vq))
    BY <1>2, TailFacts DEF MainTake, TypeOK
  <2>2. NoneLast(vq)' /\ (visitor' = "running" => None \notin Range(vq)')
    <3>1. NoneLast(Tail(vq))
      BY <1>q, <2>1, SentinelTail DEF VisitorInv
    <3>2. NoneLast(vq)'
      BY <1>2, <3>1 DEF MainTake, NoneLast
    <3>3. visitor' = "running" => None \notin Range(vq)'
      BY <1>2, <2>1 DEF MainTake, VisitorInv
    <3> QED  BY <3>2, <3>3
  <2>3. CASE Head(vq) = None
    <3>1. Len(vq) = 1 /\ Tail(vq) = <<>>
      BY <1>q, <2>1, <2>3, SentinelTail DEF VisitorInv
    <3>2. visitor \in {"done", "failed"}
      BY <1>2, <2>1, <2>3 DEF MainTake, VisitorInv, TypeOK
    <3> QED  BY <1>2, <2>1, <2>2, <2>3, <3>1, <3>2 DEF MainTake, VisitorInv, InLoop
  <2>4. CASE Head(vq) # None
    <3>1. vpos > 0 /\ Tail(vq) = <<>> => vq[1] = walk[vpos]
      <4>1. Tail(vq) = <<>> => Len(vq) = 1
        BY <2>1
      <4> QED  BY <1>2, <2>1, <2>4, <4>1 DEF MainTake, VisitorInv, InLoop
    <3>2. vpos > 0 /\ Len(Tail(vq)) > 0 /\ Tail(vq)[1] = None => vq[1] = walk[vpos]
      <4>1. SUFFICES ASSUME vpos > 0, Len(Tail(vq)) > 0, Tail(vq)[1] = None
                     PROVE  vq[1] = walk[vpos]
        OBVIOUS
      <4>2. 2 \in 1..Len(vq) /\ vq[2] = None /\ vq # <<>>
        BY <1>q, <2>1, <4>1, EmptyFacts
      <4>3. Len(vq) = 2
        BY <4>2 DEF VisitorInv, NoneLast
      <4>4. Len(vq) > 1 /\ Len(vq) - 1 = 1 /\ vq[Len(vq)] = None
        BY <4>2, <4>3
      <4> QED  BY <1>2, <4>1, <4>4 DEF MainTake, VisitorInv, InLoop
    <3>3. Len(Tail(vq)) > 0 => Tail(vq)[Len(Tail(vq))] = vq[Len(vq)]
      BY <1>q, <2>1
    <3>4. Len(Tail(vq)) > 1 => Tail(vq)[Len(Tail(vq)) - 1] = vq[Len(vq) - 1]
      BY <1>q, <2>1
    <3>5. Tail(vq) # <<>> => Len(Tail(vq)) > 0
      BY <2>1
    <3>6. ASSUME vpos > 0
          PROVE  /\ Tail(vq) # <<>> /\ Tail(vq)[Len(Tail(vq))] # None
                       => Tail(vq)[Len(Tail(vq))] = walk[vpos]
                 /\ Len(Tail(vq)) > 1 /\ Tail(vq)[Len(Tail(vq))] = None
                       => Tail(vq)[Len(Tail(vq)) - 1] = walk[vpos]
                 /\ Tail(vq) = <<>> \/ Tail(vq)[1] = None => Head(vq) = walk[vpos]
      <4>1. pc = "take"
        BY <1>2 DEF MainTake
      <4>2. Tail(vq) = <<>> \/ Tail(vq)[1] = None => Head(vq) = walk[vpos]
        BY <2>1, <3>1, <3>2, <3>5, <3>6
      <4> QED  BY <1>q, <2>1, <3>3, <3>4, <3>5, <3>6, <4>1, <4>2 DEF VisitorInv, InLoop
    <3>7. /\ vq' = Tail(vq) /\ item' = Head(vq) /\ pc' = "check"
          /\ UNCHANGED <<walk, vpos, visitor, raised>>
      BY <1>2, <2>4 DEF MainTake
    <3>8. visitor # "off" /\ (visitor = "done" => vpos = Len(walk))
      BY <1>2 DEF MainTake, VisitorInv
    <3> QED  BY <2>2, <3>6, <3>7, <3>8 DEF VisitorInv, InLoop
  <2> QED  BY <2>3, <2>4
<1>3. CASE MainCheck  BY <1>3 DEF MainCheck, Raise, VisitorInv, NoneLast, InLoop
<1>4. CASE MainMerge  BY <1>4 DEF MainMerge, Raise, VisitorInv, NoneLast, InLoop
<1>5. CASE MainSentinel  BY <1>5 DEF MainSentinel, Raise, VisitorInv, NoneLast, InLoop
<1>6. CASE MainJoin \/ MainRoot \/ ShutdownUploader \/ Interrupt \/ LateFault
  BY <1>6 DEF MainJoin, MainRoot, ShutdownUploader, Interrupt, LateFault, Raise, VisitorInv, NoneLast, InLoop
<1>7. CASE ExitUploader \/ ExitVisitor \/ Finish
  BY <1>7 DEF ExitUploader, ExitVisitor, Finish, VisitorInv, NoneLast, InLoop, TypeOK
<1>8. CASE VisitNode
  <2>1. walk[vpos + 1] \in Items
    BY <1>8, <1>w DEF VisitNode
  <2>2. /\ vq' # <<>> /\ Len(vq') = Len(vq) + 1 /\ vq'[Len(vq) + 1] = walk[vpos + 1]
        /\ \A i \in 1..Len(vq) : vq'[i] = vq[i]
        /\ Range(vq') = Range(vq) \cup {walk[vpos + 1]}
    <3>1. vq' = Append(vq, walk[vpos + 1]) /\ walk[vpos + 1] \in Items \cup {None}
      BY <1>8, <2>1 DEF VisitNode
    <3> QED  BY <1>q, <3>1, AppendFacts
  <2>3. None \notin Range(vq')
    BY <1>8, <2>1, <2>2, NoneAssumption DEF VisitNode, VisitorInv
  <2>4. \A i \in 1..Len(vq') : vq'[i] # None
    BY <1>8, <1>q, <2>1, <2>2, NoneAssumption DEF VisitNode, VisitorInv
  <2>5. Len(vq') \in Nat /\ Len(vq') > 0 /\ vq'[Len(vq')] = walk'[vpos'] /\ vq'[1] # None
    BY <1>8, <1>q, <2>2, <2>4 DEF VisitNode
  <2>6. UNCHANGED <<pc, item, raised, walk, visitor>> /\ visitor = "running"
    BY <1>8 DEF VisitNode
  <2>7. ~(pc \notin {"idle", "take", "check", "merge"} /\ ~raised)
    BY <2>6 DEF VisitorInv
  <2> QED  BY <2>2, <2>3, <2>4, <2>5, <2>6, <2>7 DEF VisitorInv, NoneLast, InLoop
<1>9. CASE VisitEnd \/ VisitFail
  <2>1. /\ vq' # <<>> /\ Len(vq') = Len(vq) + 1 /\ vq'[Len(vq) + 1] = None
        /\ \A i \in 1..Len(vq) : vq'[i] = vq[i]
    <3>1. vq' = Append(vq, None) /\ None \in Items \cup {None}
      BY <1>9 DEF VisitEnd, VisitFail
    <3> QED  BY <1>q, <3>1, AppendFacts
  <2>2. /\ UNCHANGED <<pc, item, raised, walk, vpos>>
        /\ visitor = "running" /\ visitor' \in {"done", "failed"}
        /\ visitor' = "done" => vpos = Len(walk)
    BY <1>9 DEF VisitEnd, VisitFail
  <2>3. \A i \in 1..Len(vq) : vq[i] # None
    BY <1>q, <2>2 DEF VisitorInv
  <2>4. NoneLast(vq')
    BY <1>q, <2>1, <2>3 DEF NoneLast
  <2>5. ~(pc \notin {"idle", "take", "check", "merge"} /\ ~raised)
    BY <2>2 DEF VisitorInv
  <2>6. ASSUME InLoop \/ pc = "sentinel", vpos > 0
        PROVE  /\ vq'[Len(vq')] = None
               /\ Len(vq') > 1 => vq'[Len(vq') - 1] = walk[vpos]
               /\ vq'[1] = None => item = walk[vpos]
    <3>1. Len(vq') > 1 => vq'[Len(vq') - 1] = vq[Len(vq)] /\ vq[Len(vq)] # None /\ vq # <<>>
      BY <1>q, <2>1, <2>3
    <3>2. vq'[1] = None => vq = <<>>
      <4>1. vq # <<>> => 1 \in 1..Len(vq)
        BY <1>q
      <4> QED  BY <4>1, <2>1, <2>3
    <3> QED  BY <1>q, <2>1, <2>6, <3>1, <3>2 DEF VisitorInv
  <2>7. NoneLast(vq)'
    BY <2>4 DEF NoneLast
  <2> QED  BY <2>1, <2>2, <2>5, <2>6, <2>7 DEF VisitorInv, InLoop
<1>10. CASE Submitter \/ \E w \in Workers : Worker(w)
  BY <1>10 DEF Submitter, SubmitGet, SubmitWait, Worker, WorkerTake, WorkerStore, WorkerFail,
               VisitorInv, NoneLast, InLoop
<1>11. CASE Crash  BY <1>11, EmptyFacts DEF Crash, VisitorInv, NoneLast, InLoop
<1>12. CASE UNCHANGED vars  BY <1>12 DEF vars, VisitorInv, NoneLast, InLoop
<1> QED
  BY <1>1, <1>2, <1>3, <1>4, <1>5, <1>6, <1>7, <1>8, <1>9, <1>10, <1>11, <1>12
  DEF Next, Main, Visitor, Terminated

\* Every directory the visitor produced stays merged or on its way.
LEMMA DirsStep == TypeOK /\ MainInv /\ VisitorInv /\ DirsInv /\ [Next]_vars => DirsInv'
<1> SUFFICES ASSUME TypeOK, MainInv, VisitorInv, DirsInv, [Next]_vars,
                    (InLoop \/ pc = "sentinel")',
                    NEW k \in 1..vpos', (walk[k].kind = "dir")'
             PROVE  (\/ walk[k].hash \in txn
                     \/ walk[k] \in Range(vq)
                     \/ pc \in {"check", "merge"} /\ item = walk[k])'
  BY DEF DirsInv
<1>w. walk \in Seq(Items) /\ vpos \in Nat /\ vpos <= Len(walk) /\ Len(walk) \in Nat
      /\ \A j \in 1..Len(walk) : walk[j] \in Items
  BY WalkFacts
<1> USE DEF mainVars, visitorVars, poolVars, dbVars
<1>1. CASE BeginCommit
  <2>1. vpos' = 0
    BY <1>1 DEF BeginCommit
  <2> QED  BY <2>1
<1>2. CASE MainTake
  <2>1. Range(vq) = {Head(vq)} \cup Range(Tail(vq))
    BY <1>2, TailFacts DEF MainTake, TypeOK
  <2>2. k \in 1..vpos /\ walk[k] # None /\ walk[k].kind = "dir"
    BY <1>2, <1>w, NoneAssumption DEF MainTake
  <2>3. walk[k].hash \in txn \/ walk[k] \in Range(vq)
    BY <1>2, <2>2 DEF MainTake, DirsInv, InLoop
  <2> QED  BY <1>2, <2>1, <2>2, <2>3 DEF MainTake
<1>3. CASE MainCheck
  <2>1. k \in 1..vpos /\ walk[k].kind = "dir" /\ pc = "check" /\ ~exc
    BY <1>3 DEF MainCheck, Raise, InLoop
  <2>2. \/ walk[k].hash \in txn \/ walk[k] \in Range(vq)
        \/ item = walk[k]
    BY <2>1 DEF DirsInv, InLoop
  <2> QED  BY <1>3, <2>1, <2>2 DEF MainCheck
<1>4. CASE MainMerge
  <2>1. k \in 1..vpos /\ walk[k].kind = "dir" /\ pc = "merge" /\ txn' = txn \cup {item.hash}
    BY <1>4 DEF MainMerge, Raise, InLoop
  <2>2. \/ walk[k].hash \in txn \/ walk[k] \in Range(vq)
        \/ item = walk[k]
    BY <2>1 DEF DirsInv, InLoop
  <2> QED  BY <1>4, <2>1, <2>2 DEF MainMerge
<1>5. CASE VisitNode
  <2>1. vq \in Seq(Items \cup {None}) /\ walk[vpos + 1] \in Items \cup {None}
    BY <1>5, <1>w DEF VisitNode, TypeOK
  <2>2. Range(vq') = Range(vq) \cup {walk[vpos + 1]}
    BY <1>5, <2>1, AppendFacts DEF VisitNode
  <2>3. CASE k = vpos + 1
    BY <1>5, <2>2, <2>3 DEF VisitNode
  <2>4. CASE k # vpos + 1
    <3>1. k \in 1..vpos
      BY <1>5, <1>w, <2>4 DEF VisitNode
    <3> QED  BY <1>5, <2>2, <3>1 DEF VisitNode, DirsInv, InLoop
  <2> QED  BY <2>3, <2>4
<1>6. CASE VisitEnd \/ VisitFail
  <2>1. vq \in Seq(Items \cup {None}) /\ None \in Items \cup {None} /\ vq' = Append(vq, None)
    BY <1>6 DEF VisitEnd, VisitFail, TypeOK
  <2>2. Range(vq') = Range(vq) \cup {None}
    BY <2>1, AppendFacts
  <2> QED  BY <1>6, <2>2 DEF VisitEnd, VisitFail, DirsInv, InLoop
<1>7. CASE Submitter \/ \E w \in Workers : Worker(w)
  <2>1. UNCHANGED <<mainVars, visitorVars, dbVars>>
    BY <1>7 DEF Submitter, SubmitGet, SubmitWait, Worker, WorkerTake, WorkerStore, WorkerFail
  <2> QED  BY <2>1 DEF DirsInv, InLoop
<1>8. CASE \/ MainSentinel \/ MainJoin \/ MainRoot \/ ExitUploader \/ ShutdownUploader \/ ExitVisitor
           \/ Finish \/ Interrupt \/ LateFault \/ Crash
  <2>1. ~(InLoop \/ pc = "sentinel")'
    BY <1>8 DEF MainSentinel, MainJoin, MainRoot, ExitUploader, ShutdownUploader, ExitVisitor,
                Finish, Interrupt, LateFault, Crash, Raise, InLoop
  <2> QED  BY <2>1
<1>9. CASE UNCHANGED vars  BY <1>9 DEF vars, DirsInv, InLoop
<1> QED
  BY <1>1, <1>2, <1>3, <1>4, <1>5, <1>6, <1>7, <1>8, <1>9
  DEF Next, Main, Visitor, Terminated

\* Nothing but the directories of the walk gets merged.
LEMMA OriginStep == TypeOK /\ MainInv /\ OriginInv /\ [Next]_vars => OriginInv'
<1> SUFFICES ASSUME TypeOK, MainInv, OriginInv, [Next]_vars PROVE OriginInv'
  OBVIOUS
<1>w. walk \in Seq(Items) /\ vpos \in Nat /\ vpos <= Len(walk) /\ Len(walk) \in Nat
      /\ \A j \in 1..Len(walk) : walk[j] \in Items
  BY WalkFacts
<1> USE DEF mainVars, visitorVars, poolVars, dbVars
<1>1. CASE BeginCommit
  BY <1>1, EmptyFacts DEF BeginCommit, OriginInv
<1>2. CASE MainTake
  <2>1. Range(vq) = {Head(vq)} \cup Range(Tail(vq))
    BY <1>2, TailFacts DEF MainTake, TypeOK
  <2> QED  BY <1>2, <2>1 DEF MainTake, OriginInv
<1>3. CASE MainMerge
  <2>1. item \in Range(walk) /\ item.kind = "dir"
    BY <1>3, NoneAssumption DEF MainMerge, MainInv, OriginInv
  <2>2. item.hash \in DirsOf(walk)
    BY <2>1 DEF Range, DirsOf
  <2> QED  BY <1>3, <2>2 DEF MainMerge, Raise, OriginInv
<1>4. CASE VisitNode
  <2>1. vq \in Seq(Items \cup {None}) /\ walk[vpos + 1] \in Items \cup {None}
    BY <1>4, <1>w DEF VisitNode, TypeOK
  <2>2. Range(vq') = Range(vq) \cup {walk[vpos + 1]}
    BY <1>4, <2>1, AppendFacts DEF VisitNode
  <2>3. vpos + 1 \in 1..Len(walk)
    BY <1>4, <1>w DEF VisitNode
  <2>4. walk[vpos + 1] \in Range(walk)
    BY <1>w, <2>3, RangeFacts
  <2> QED  BY <1>4, <2>2, <2>4 DEF VisitNode, OriginInv
<1>5. CASE VisitEnd \/ VisitFail
  <2>1. vq \in Seq(Items \cup {None}) /\ None \in Items \cup {None} /\ vq' = Append(vq, None)
    BY <1>5 DEF VisitEnd, VisitFail, TypeOK
  <2>2. Range(vq') = Range(vq) \cup {None}
    BY <2>1, AppendFacts
  <2> QED  BY <1>5, <2>2 DEF VisitEnd, VisitFail, OriginInv
<1>6. CASE \/ Submitter \/ (\E w \in Workers : Worker(w))
           \/ MainCheck \/ MainSentinel \/ MainJoin \/ MainRoot \/ ExitUploader \/ ShutdownUploader
           \/ ExitVisitor \/ Interrupt \/ LateFault
  <2>1. pc # "idle" => pc' # "idle"
    BY <1>6 DEF Submitter, SubmitGet, SubmitWait, Worker, WorkerTake, WorkerStore, WorkerFail,
                MainCheck, MainSentinel, MainJoin, MainRoot, ExitUploader, ShutdownUploader,
                ExitVisitor, Interrupt, LateFault, Raise
  <2>2. UNCHANGED <<txn, vq, item, walk>> /\ (pc' # "idle" => pc # "idle")
    BY <1>6 DEF Submitter, SubmitGet, SubmitWait, Worker, WorkerTake, WorkerStore, WorkerFail,
                MainCheck, MainSentinel, MainJoin, MainRoot, ExitUploader, ShutdownUploader,
                ExitVisitor, Interrupt, LateFault, Raise
  <2> QED  BY <2>2 DEF OriginInv
<1>7. CASE Finish \/ Crash
  BY <1>7 DEF Finish, Crash, OriginInv
<1>8. CASE UNCHANGED vars  BY <1>8 DEF vars, OriginInv
<1> QED
  BY <1>1, <1>2, <1>3, <1>4, <1>5, <1>6, <1>7, <1>8
  DEF Next, Main, Visitor, Terminated

\* When the loop has ended and the visitor has not failed, the transaction holds
\* all the directories and the root is the last one.
LEMMA WholeAtSentinel ==
    ASSUME TypeOK, MainInv, VisitorInv, DirsInv, pc = "sentinel", ~raised, visitor = "done"
    PROVE  last = walk[Len(walk)] /\ DirsOf(walk) \subseteq txn
<1>1. walk \in Walks /\ walk \in Seq(Items) /\ Len(walk) \in Nat /\ Len(walk) > 0
      /\ walk[Len(walk)].kind = "dir" /\ vpos = Len(walk) /\ vq = <<>>
  BY WalkFacts, WalksAssumption DEF MainInv, VisitorInv
<1>2. item = walk[Len(walk)]
  BY <1>1 DEF VisitorInv
<1>3. Len(walk) \in 1..Len(walk)
  BY <1>1
<1>4. item \in Items
  BY <1>2, <1>3, WalkFacts
<1>5. last = item
  BY <1>1, <1>2, <1>4, NoneAssumption DEF MainInv
<1>6. \A k \in 1..Len(walk) : walk[k].kind = "dir" => walk[k].hash \in txn
  BY <1>1, EmptyFacts DEF DirsInv
<1>7. DOMAIN walk = 1..Len(walk)
  BY <1>1
<1> QED  BY <1>2, <1>5, <1>6, <1>7 DEF DirsOf

\* What the loop has established lasts until the builder has been left.
LEMMA WholeStep ==
    TypeOK /\ MainInv /\ VisitorInv /\ DirsInv /\ WholeInv /\ [Next]_vars => WholeInv'
<1> SUFFICES ASSUME TypeOK, MainInv, VisitorInv, DirsInv, WholeInv, [Next]_vars PROVE WholeInv'
  OBVIOUS
<1> USE DEF mainVars, visitorVars, poolVars, dbVars
<1>1. CASE BeginCommit \/ MainTake \/ MainCheck \/ MainMerge
  BY <1>1 DEF BeginCommit, MainTake, MainCheck, MainMerge, Raise, WholeInv
<1>2. CASE MainSentinel
  <2>1. ~raised /\ visitor = "done" => last = walk[Len(walk)] /\ DirsOf(walk) \subseteq txn
    BY <1>2, WholeAtSentinel DEF MainSentinel
  <2> QED  BY <1>2, <2>1 DEF MainSentinel, Raise, WholeInv
<1>3. CASE MainJoin \/ MainRoot \/ ExitUploader \/ ShutdownUploader
  BY <1>3 DEF MainJoin, MainRoot, ExitUploader, ShutdownUploader, WholeInv
<1>4. CASE ExitVisitor
  <2>1. ~raised' => visitor = "done"
    BY <1>4 DEF ExitVisitor, VisitorInv, TypeOK
  <2> QED  BY <1>4, <2>1 DEF ExitVisitor, WholeInv
<1>5. CASE Finish \/ Interrupt \/ LateFault \/ Crash
  BY <1>5 DEF Finish, Interrupt, LateFault, Crash, Raise, WholeInv
<1>6. CASE Visitor
  <2>1. visitor = "running" /\ UNCHANGED <<pc, raised, last, walk, txn>>
    BY <1>6 DEF Visitor, VisitNode, VisitEnd, VisitFail
  <2>2. ~(pc \in {"join", "root", "unwind", "shutdown", "exit_visitor", "finish"} /\ ~raised)
    BY <2>1 DEF VisitorInv
  <2> QED  BY <2>1, <2>2 DEF WholeInv
<1>7. CASE Submitter \/ \E w \in Workers : Worker(w)
  <2>1. UNCHANGED <<mainVars, visitorVars, dbVars>>
    BY <1>7 DEF Submitter, SubmitGet, SubmitWait, Worker, WorkerTake, WorkerStore, WorkerFail
  <2> QED  BY <2>1 DEF WholeInv
<1>8. CASE UNCHANGED vars  BY <1>8 DEF vars, WholeInv
<1> QED
  BY <1>1, <1>2, <1>3, <1>4, <1>5, <1>6, <1>7, <1>8
  DEF Next, Main, Terminated

\* Every file the visitor produced stays stored or on its way.
LEMMA BlobsStep == TypeOK /\ BlobsInv /\ [Next]_vars => BlobsInv'
<1> SUFFICES ASSUME TypeOK, BlobsInv, [Next]_vars,
                    (pc # "idle" /\ clean /\ ~raised /\ ~exc)',
                    NEW k \in 1..vpos', (walk[k].kind = "file")'
             PROVE  (\/ walk[k].hash \in objects
                     \/ walk[k].hash \in Range(pool)
                     \/ \E w \in Workers : active[w] = walk[k].hash
                     \/ walk[k] \in Range(uq)
                     \/ walk[k] \in Range(vq))'
  BY DEF BlobsInv
<1>w. walk \in Seq(Items) /\ vpos \in Nat /\ vpos <= Len(walk) /\ Len(walk) \in Nat
      /\ \A j \in 1..Len(walk) : walk[j] \in Items
  BY WalkFacts
<1>q. /\ vq \in Seq(Items \cup {None}) /\ uq \in Seq(Items \cup {None}) /\ pool \in Seq(Hashes)
      /\ None \in Items \cup {None}
  BY DEF TypeOK
<1>r. ~raised' /\ ~exc' /\ clean' /\ pc' # "idle" /\ raised \in BOOLEAN
  BY DEF TypeOK
<1> DEFINE Placed == \/ walk[k].hash \in objects
                     \/ walk[k].hash \in Range(pool)
                     \/ \E w \in Workers : active[w] = walk[k].hash
                     \/ walk[k] \in Range(uq)
                     \/ walk[k] \in Range(vq)
<1> USE DEF mainVars, visitorVars, poolVars, dbVars
<1>1. CASE BeginCommit
  <2>1. vpos' = 0
    BY <1>1 DEF BeginCommit
  <2> QED  BY <2>1
<1>2. CASE MainTake
  <2>1. Range(vq) = {Head(vq)} \cup Range(Tail(vq)) /\ Head(vq) \in Items \cup {None}
    BY <1>2, <1>q, TailFacts DEF MainTake
  <2>2. Range(Append(uq, Head(vq))) = Range(uq) \cup {Head(vq)}
    BY <1>q, <2>1, AppendFacts
  <2>3. Placed /\ walk[k] # None
    BY <1>2, <1>w, NoneAssumption DEF MainTake, BlobsInv
  <2> QED  BY <1>2, <2>1, <2>2, <2>3 DEF MainTake
<1>3. CASE MainSentinel \/ ExitUploader
  <2>1. uq' = uq \/ uq' = Append(uq, None)
    BY <1>3 DEF MainSentinel, ExitUploader
  <2>2. Range(uq) \subseteq Range(uq')
    <3>1. Range(Append(uq, None)) = Range(uq) \cup {None}
      BY <1>q, AppendFacts
    <3> QED  BY <2>1, <3>1
  <2>3. pc # "idle" /\ ~raised /\ UNCHANGED <<clean, exc, walk, vpos, vq, pool, active, objects>>
    BY <1>3, <1>r DEF MainSentinel, ExitUploader, Raise
  <2> QED  BY <2>2, <2>3 DEF BlobsInv
<1>4. CASE MainCheck \/ MainMerge \/ MainJoin \/ MainRoot \/ ShutdownUploader \/ ExitVisitor
  <2>1. pc # "idle" /\ ~raised /\ UNCHANGED <<clean, exc, visitorVars, uq, pool, active, objects>>
    BY <1>4, <1>r DEF MainCheck, MainMerge, MainJoin, MainRoot, ShutdownUploader, ExitVisitor, Raise
  <2> QED  BY <2>1 DEF BlobsInv
<1>5. CASE Finish \/ Interrupt \/ LateFault \/ Crash
  <2>1. pc' = "idle" \/ raised'
    BY <1>5 DEF Finish, Interrupt, LateFault, Crash, Raise
  <2> QED  BY <2>1
<1>6. CASE VisitNode
  <2>1. walk[vpos + 1] \in Items \cup {None} /\ vq' = Append(vq, walk[vpos + 1])
    BY <1>6, <1>w DEF VisitNode
  <2>2. Range(vq') = Range(vq) \cup {walk[vpos + 1]}
    BY <1>q, <2>1, AppendFacts
  <2>3. CASE k = vpos + 1
    BY <1>6, <2>2, <2>3 DEF VisitNode
  <2>4. CASE k # vpos + 1
    <3>1. k \in 1..vpos
      BY <1>6, <1>w, <2>4 DEF VisitNode
    <3> QED  BY <1>6, <2>2, <3>1 DEF VisitNode, BlobsInv
  <2> QED  BY <2>3, <2>4
<1>7. CASE VisitEnd \/ VisitFail
  <2>1. vq' = Append(vq, None)
    BY <1>7 DEF VisitEnd, VisitFail
  <2>2. Range(vq') = Range(vq) \cup {None}
    BY <1>q, <2>1, AppendFacts
  <2> QED  BY <1>7, <2>2 DEF VisitEnd, VisitFail, BlobsInv
<1>8. CASE SubmitGet
  <2>1. Range(uq) = {Head(uq)} \cup Range(Tail(uq)) /\ Head(uq) \in Items \cup {None}
    BY <1>8, <1>q, TailFacts DEF SubmitGet
  <2>2. Placed /\ walk[k] # None /\ walk[k].kind = "file"
    BY <1>8, <1>w, NoneAssumption DEF SubmitGet, BlobsInv
  <2>3. UNCHANGED <<walk, vq, active, objects>> /\ uq' = Tail(uq)
    BY <1>8 DEF SubmitGet
  <2>4. CASE walk[k] = Head(uq)
    <3>1. pool' = Append(pool, walk[k].hash) /\ walk[k].hash \in Hashes
      BY <1>8, <2>1, <2>2, <2>4, KindFacts DEF SubmitGet
    <3>2. walk[k].hash \in Range(pool')
      BY <1>q, <3>1, AppendFacts
    <3> QED  BY <2>3, <3>2
  <2>5. CASE walk[k] # Head(uq)
    <3>1. pool' = pool \/ (pool' = Append(pool, Head(uq).hash) /\ Head(uq).hash \in Hashes)
      BY <1>8, <2>1, KindFacts DEF SubmitGet
    <3>2. Range(pool) \subseteq Range(pool')
      <4>1. CASE pool' = pool
        BY <4>1
      <4>2. CASE pool' = Append(pool, Head(uq).hash) /\ Head(uq).hash \in Hashes
        BY <1>q, <4>2, AppendFacts
      <4> QED  BY <3>1, <4>1, <4>2
    <3> QED  BY <2>1, <2>2, <2>3, <2>5, <3>2
  <2> QED  BY <2>4, <2>5
<1>9. CASE SubmitWait
  BY <1>9 DEF SubmitWait, BlobsInv
<1>10. CASE \E w \in Workers : Worker(w)
  <2> PICK w \in Workers : Worker(w)
    BY <1>10
  <2>1. /\ UNCHANGED <<pc, raised, clean, visitorVars, uq>>
        /\ exc' = FALSE => exc = FALSE
        /\ active \in [Workers -> Hashes \cup {None}]
    BY <1>10 DEF Worker, WorkerTake, WorkerStore, WorkerFail, TypeOK
  <2>2. Placed /\ walk[k].hash # None
    <3>1. walk[k].hash \in Hashes
      BY <1>w, <2>1, KindFacts, NoneAssumption
    <3> QED  BY <2>1, <3>1, NoneAssumption DEF BlobsInv, TypeOK
  <2>3. CASE WorkerTake(w)
    <3>1. Range(pool) = {Head(pool)} \cup Range(Tail(pool))
      BY <1>q, <2>3, TailFacts DEF WorkerTake
    <3>2. active'[w] = Head(pool) /\ \A v \in Workers : active[v] # None => active'[v] = active[v]
      BY <2>1, <2>3 DEF WorkerTake
    <3> QED  BY <2>1, <2>2, <2>3, <3>1, <3>2 DEF WorkerTake
  <2>4. CASE WorkerStore(w)
    <3>1. \A v \in Workers : v # w => active'[v] = active[v]
      BY <2>1, <2>4 DEF WorkerStore
    <3> QED  BY <2>1, <2>2, <2>4, <3>1 DEF WorkerStore
  <2>5. CASE WorkerFail(w)
    BY <2>5 DEF WorkerFail
  <2> QED  BY <2>3, <2>4, <2>5 DEF Worker
<1>11. CASE UNCHANGED vars  BY <1>11 DEF vars, BlobsInv
<1> QED
  BY <1>1, <1>2, <1>3, <1>4, <1>5, <1>6, <1>7, <1>8, <1>9, <1>10, <1>11
  DEF Next, Main, Visitor, Submitter, Terminated

\* The submit thread gets all its items and one sentinel.
LEMMA QueueStep ==
    TypeOK /\ MainInv /\ QueueInv /\ ThreadsInv /\ [Next]_vars => QueueInv'
<1> SUFFICES ASSUME TypeOK, MainInv, QueueInv, ThreadsInv, [Next]_vars PROVE QueueInv'
  OBVIOUS
<1>q. uq \in Seq(Items \cup {None}) /\ None \in Items \cup {None} /\ Len(uq) \in Nat
      /\ \A i \in 1..Len(uq) : uq[i] \in Range(uq)
  BY RangeFacts DEF TypeOK
<1>a. /\ Len(Append(uq, None)) = Len(uq) + 1 /\ Append(uq, None) # <<>>
      /\ Append(uq, None)[Len(uq) + 1] = None
      /\ \A i \in 1..Len(uq) : Append(uq, None)[i] = uq[i]
  BY <1>q, AppendFacts
<1>n. None \notin Range(uq) =>
        LET q == Append(uq, None) IN q # <<>> /\ q[Len(q)] = None /\ NoneLast(q)
  BY <1>q, <1>a DEF NoneLast
<1> USE DEF mainVars, visitorVars, poolVars, dbVars
<1>1. CASE BeginCommit
  BY <1>1, EmptyFacts DEF BeginCommit, QueueInv, QueueClean, Open, InLoop
<1>2. CASE MainTake
  <2>1. Head(vq) \in Items \cup {None}
    BY <1>2, TailFacts DEF MainTake, TypeOK
  <2>2. Head(vq) # None => Range(Append(uq, Head(vq))) = Range(uq) \cup {Head(vq)}
    BY <1>q, <2>1, AppendFacts
  <2> QED  BY <1>2, <2>2 DEF MainTake, QueueInv, QueueClean, Open, InLoop
<1>3. CASE MainCheck \/ MainMerge
  BY <1>3 DEF MainCheck, MainMerge, Raise, QueueInv, QueueClean, Open, InLoop
<1>4. CASE MainSentinel
  <2>1. CASE last = None
    BY <1>4, <2>1 DEF MainSentinel, Raise, QueueInv, QueueClean, Open, InLoop
  <2>2. CASE last # None
    <3>1. uq' = Append(uq, None) /\ UNCHANGED <<raised, clean, submitter>> /\ ~Open' /\ Open
          /\ pc # "idle" /\ pc' # "idle"
      BY <1>4, <2>2 DEF MainSentinel, Raise, Open, InLoop
    <3>2. clean' => None \notin Range(uq) /\ submitter = "running"
      BY <3>1 DEF QueueInv, QueueClean
    <3>3. clean' => uq' # <<>> /\ uq'[Len(uq')] = None /\ NoneLast(uq)'
      BY <1>n, <3>1, <3>2 DEF NoneLast
    <3> QED  BY <3>1, <3>2, <3>3 DEF QueueInv, QueueClean
  <2> QED  BY <2>1, <2>2
<1>5. CASE MainJoin \/ MainRoot \/ ShutdownUploader \/ ExitVisitor
  <2>1. /\ UNCHANGED <<clean, submitter, uq>> /\ (raised => raised') /\ pc # "idle" /\ pc' # "idle"
        /\ ~Open /\ ~Open'
    <3>1. CASE MainJoin \/ MainRoot \/ ShutdownUploader
      BY <3>1 DEF MainJoin, MainRoot, ShutdownUploader, MainInv, Open, InLoop
    <3>2. CASE ExitVisitor
      <4>1. raised' = (raised \/ visitor = "failed")
        BY <3>2 DEF ExitVisitor
      <4>2. raised => raised'
        BY <4>1
      <4>3. /\ UNCHANGED <<clean, submitter, uq>> /\ pc = "exit_visitor" /\ pc' = "finish"
            /\ ~Open /\ ~Open'
        BY <3>2 DEF ExitVisitor, Open, InLoop
      <4> QED  BY <4>2, <4>3
    <3> QED  BY <1>5, <3>1, <3>2
  <2>2. NoneLast(uq)' <=> NoneLast(uq)
    BY <2>1 DEF NoneLast
  <2> QED  BY <2>1, <2>2 DEF QueueInv, QueueClean
<1>6. CASE Interrupt
  BY <1>6 DEF Interrupt, Raise, QueueInv, QueueClean, Open, InLoop
<1>7. CASE LateFault
  BY <1>7 DEF LateFault, Raise, QueueInv, QueueClean, Open, InLoop
<1>8. CASE ExitUploader
  <2>1. UNCHANGED <<raised, clean, submitter>> /\ ~Open' /\ pc # "idle" /\ pc' # "idle" /\ pc = "unwind"
    BY <1>8 DEF ExitUploader, Open, InLoop
  <2>2. CASE raised
    <3>1. uq' = Append(uq, None) /\ Open
      BY <1>8, <2>1, <2>2 DEF ExitUploader, Open
    <3>2. clean' => None \notin Range(uq) /\ submitter = "running"
      BY <2>1, <3>1 DEF QueueInv, QueueClean
    <3>3. clean' => uq' # <<>> /\ uq'[Len(uq')] = None /\ NoneLast(uq)'
      BY <1>n, <3>1, <3>2 DEF NoneLast
    <3> QED  BY <2>1, <3>1, <3>2, <3>3 DEF QueueInv, QueueClean
  <2>3. CASE ~raised
    <3>1. uq' = uq /\ ~Open
      BY <1>8, <2>1, <2>3 DEF ExitUploader, Open, InLoop
    <3> QED  BY <2>1, <3>1 DEF QueueInv, QueueClean, NoneLast
  <2> QED  BY <2>2, <2>3
<1>9. CASE Finish
  <2>1. submitter # "running" /\ pc = "finish" /\ pc' = "idle" /\ ~Open
        /\ UNCHANGED <<raised, clean, submitter, uq>>
    BY <1>9 DEF Finish, ThreadsInv, Open, InLoop
  <2> QED  BY <2>1 DEF QueueInv, QueueClean
<1>10. CASE Crash  BY <1>10 DEF Crash, QueueInv, QueueClean
<1>11. CASE Visitor \/ (\E w \in Workers : Worker(w)) \/ SubmitWait
  <2>1. /\ UNCHANGED <<pc, raised, clean, uq>>
        /\ submitter' = submitter \/ (submitter = "waiting" /\ submitter' = "done")
    BY <1>11 DEF Visitor, VisitNode, VisitEnd, VisitFail, Worker, WorkerTake, WorkerStore, WorkerFail, SubmitWait
  <2> QED  BY <2>1 DEF QueueInv, QueueClean, Open, InLoop, NoneLast
<1>12. CASE SubmitGet
  <2>1. /\ uq' = Tail(uq) /\ uq # <<>> /\ submitter = "running"
        /\ UNCHANGED <<pc, raised, clean>>
        /\ submitter' = IF Head(uq) = None THEN "waiting" ELSE submitter
    BY <1>12 DEF SubmitGet
  <2>2. /\ Len(uq) > 0 /\ Len(Tail(uq)) = Len(uq) - 1 /\ (Tail(uq) = <<>> <=> Len(uq) = 1)
        /\ Range(uq) = {Head(uq)} \cup Range(Tail(uq)) /\ Head(uq) = uq[1]
        /\ \A i \in 1..Len(Tail(uq)) : Tail(uq)[i] = uq[i + 1]
    BY <1>q, <2>1, TailFacts
  <2>3. ASSUME clean, ~Open, pc # "idle"
        PROVE  /\ submitter' = "running" => uq' # <<>> /\ uq'[Len(uq')] = None /\ NoneLast(uq')
               /\ submitter' # "running" => uq' = <<>>
    <3>1. uq[Len(uq)] = None /\ NoneLast(uq)
      BY <2>1, <2>3 DEF QueueInv, QueueClean
    <3>2. NoneLast(Tail(uq)) /\ (Head(uq) = None => Tail(uq) = <<>>)
      BY <1>q, <2>2, <3>1, SentinelTail
    <3>3. CASE Head(uq) = None
      BY <2>1, <3>2, <3>3
    <3>4. CASE Head(uq) # None
      <4>1. Len(uq) # 1
        BY <2>2, <3>1, <3>4
      <4>2. Len(Tail(uq)) \in 1..Len(Tail(uq)) /\ Len(Tail(uq)) + 1 = Len(uq)
        BY <1>q, <2>2, <4>1
      <4>3. Tail(uq)[Len(Tail(uq))] = None
        BY <2>2, <3>1, <4>2
      <4> QED  BY <2>1, <2>2, <3>2, <3>4, <4>1, <4>3
    <3> QED  BY <3>3, <3>4
  <2>4. ASSUME clean, Open, pc # "idle"
        PROVE  None \notin Range(uq') /\ submitter' = "running"
    BY <2>1, <2>2, <2>4 DEF QueueInv, QueueClean
  <2>5. /\ clean' <=> clean
        /\ Open' <=> Open
        /\ NoneLast(uq)' <=> NoneLast(uq')
    BY <2>1 DEF Open, InLoop, NoneLast
  <2>6. pc # "idle" /\ pc' # "idle"
    BY <2>1 DEF ThreadsInv
  <2> QED  BY <2>1, <2>3, <2>4, <2>5, <2>6 DEF QueueInv, QueueClean
<1>13. CASE UNCHANGED vars  BY <1>13 DEF vars, QueueInv, QueueClean, Open, InLoop, NoneLast
<1> QED
  BY <1>1, <1>2, <1>3, <1>4, <1>5, <1>6, <1>7, <1>8, <1>9, <1>10, <1>11, <1>12, <1>13
  DEF Next, Main, Submitter, Terminated

\* Main gets past join and past the shutdown only when the pool has ended.
LEMMA ThreadsStep == TypeOK /\ ThreadsInv /\ [Next]_vars => ThreadsInv'
<1> SUFFICES ASSUME TypeOK, ThreadsInv, [Next]_vars PROVE ThreadsInv'
  OBVIOUS
<1> USE DEF mainVars, visitorVars, poolVars, dbVars
<1>1. CASE BeginCommit  BY <1>1 DEF BeginCommit, ThreadsInv
<1>2. CASE MainTake \/ MainCheck \/ MainMerge \/ MainSentinel
  BY <1>2 DEF MainTake, MainCheck, MainMerge, MainSentinel, Raise, ThreadsInv
<1>3. CASE MainJoin \/ MainRoot \/ ExitUploader \/ ShutdownUploader
  BY <1>3 DEF MainJoin, MainRoot, ExitUploader, ShutdownUploader, ThreadsInv
<1>4. CASE ExitVisitor \/ Finish \/ Interrupt \/ LateFault
  BY <1>4 DEF ExitVisitor, Finish, Interrupt, LateFault, Raise, ThreadsInv
<1>5. CASE Visitor
  BY <1>5 DEF Visitor, VisitNode, VisitEnd, VisitFail, ThreadsInv
<1>6. CASE SubmitGet
  BY <1>6 DEF SubmitGet, ThreadsInv
<1>7. CASE SubmitWait
  BY <1>7 DEF SubmitWait, ThreadsInv
<1>8. CASE \E w \in Workers : Worker(w)
  <2> PICK w \in Workers : Worker(w)
    BY <1>8
  <2>1. /\ UNCHANGED <<pc, raised, visitor, submitter>>
        /\ pool # <<>> \/ active[w] # None
    BY DEF Worker, WorkerTake, WorkerStore, WorkerFail
  <2> QED  BY <2>1 DEF ThreadsInv
<1>9. CASE Crash  BY <1>9 DEF Crash, ThreadsInv
<1>10. CASE UNCHANGED vars  BY <1>10 DEF vars, ThreadsInv
<1> QED
  BY <1>1, <1>2, <1>3, <1>4, <1>5, <1>6, <1>7, <1>8, <1>9, <1>10
  DEF Next, Main, Submitter, Terminated

\* At the end of a commit that neither raised nor lost an upload every blob is stored.
LEMMA StoredAtFinish ==
    ASSUME TypeOK, MainInv, VisitorInv, WholeInv, BlobsInv, QueueInv, ThreadsInv,
           pc = "finish", ~raised, clean, ~exc
    PROVE  BlobsOf(walk) \subseteq objects
<1>1. visitor = "done" /\ vpos = Len(walk) /\ vq = <<>>
  BY DEF VisitorInv, WholeInv
<1> SUFFICES ASSUME NEW k \in 1..Len(walk), walk[k].kind = "file"
             PROVE  walk[k].hash \in objects
  <2>1. DOMAIN walk = 1..Len(walk)
    BY WalkFacts
  <2> QED  BY <2>1 DEF BlobsOf
<1>2. uq = <<>> /\ pool = <<>> /\ \A w \in Workers : active[w] = None
  <2>1. submitter = "done"
    BY DEF ThreadsInv
  <2>2. clean /\ ~Open
    BY DEF Open, InLoop
  <2> QED  BY <2>1, <2>2 DEF QueueInv, ThreadsInv
<1>3. walk[k].hash # None
  BY WalkFacts, KindFacts, NoneAssumption
<1>4. \/ walk[k].hash \in objects
      \/ walk[k].hash \in Range(pool)
      \/ \E w \in Workers : active[w] = walk[k].hash
      \/ walk[k] \in Range(uq)
      \/ walk[k] \in Range(vq)
  BY <1>1 DEF BlobsInv
<1> QED  BY <1>1, <1>2, <1>3, <1>4, EmptyFacts

\* What is in the database stays whole: the only step that adds to it finds the
\* directories merged and the blobs stored.
LEMMA StoreStep ==
    /\ TypeOK /\ MainInv /\ VisitorInv /\ OriginInv /\ WholeInv /\ BlobsInv /\ QueueInv /\ ThreadsInv
    /\ SnapshotComplete /\ NoPartialTrees /\ StoredIfClean /\ [Next]_vars
    => (SnapshotComplete /\ NoPartialTrees /\ StoredIfClean)'
<1> SUFFICES ASSUME TypeOK, MainInv, VisitorInv, OriginInv, WholeInv, BlobsInv, QueueInv, ThreadsInv,
                    SnapshotComplete, NoPartialTrees, StoredIfClean, [Next]_vars
             PROVE  (SnapshotComplete /\ NoPartialTrees /\ StoredIfClean)'
  OBVIOUS
<1> USE DEF mainVars, visitorVars, poolVars, dbVars
<1>1. CASE Finish /\ ~raised /\ trees' = trees \cup txn /\ snapshots' = snapshots \cup {Snapshot}
  <2>1. /\ pc = "finish" /\ UNCHANGED <<objects, walk>>
        /\ visitor = "done" /\ vpos = Len(walk) /\ vq = <<>>
        /\ last = walk[Len(walk)] /\ DirsOf(walk) \subseteq txn /\ txn \subseteq DirsOf(walk)
    BY <1>1 DEF Finish, VisitorInv, OriginInv, WholeInv
  <2>2. Snapshot.walk = walk /\ Snapshot.root = last.hash /\ Snapshot.failed = exc /\ Snapshot.clean = clean
    BY DEF Snapshot
  <2>3. SnapshotComplete'
    BY <1>1, <2>1, <2>2 DEF SnapshotComplete
  <2>4. NoPartialTrees'
    BY <1>1, <2>1, <2>2 DEF NoPartialTrees
  <2>5. clean /\ ~exc => BlobsOf(walk) \subseteq objects
    BY <1>1, <2>1, StoredAtFinish
  <2>6. StoredIfClean'
    BY <1>1, <2>1, <2>2, <2>5 DEF StoredIfClean
  <2> QED  BY <2>3, <2>4, <2>6
<1>2. CASE UNCHANGED <<trees, snapshots>> /\ objects \subseteq objects'
  BY <1>2 DEF SnapshotComplete, NoPartialTrees, StoredIfClean
<1>3. CASE Finish
  BY <1>1, <1>2, <1>3 DEF Finish
<1>4. CASE BeginCommit \/ MainTake \/ MainCheck \/ MainMerge \/ MainSentinel \/ MainJoin \/ MainRoot
  BY <1>2, <1>4 DEF BeginCommit, MainTake, MainCheck, MainMerge, MainSentinel, MainJoin, MainRoot
<1>5. CASE ExitUploader \/ ShutdownUploader \/ ExitVisitor \/ Interrupt \/ LateFault \/ Crash
  BY <1>2, <1>5 DEF ExitUploader, ShutdownUploader, ExitVisitor, Interrupt, LateFault, Crash
<1>6. CASE Visitor \/ Submitter
  BY <1>2, <1>6 DEF Visitor, VisitNode, VisitEnd, VisitFail, Submitter, SubmitGet, SubmitWait
<1>7. CASE \E w \in Workers : Worker(w)
  BY <1>2, <1>7 DEF Worker, WorkerTake, WorkerStore, WorkerFail
<1>8. CASE UNCHANGED vars  BY <1>2, <1>8 DEF vars
<1> QED
  BY <1>3, <1>4, <1>5, <1>6, <1>7, <1>8
  DEF Next, Main, Terminated

-----------------------------------------------------------------------------
(* The theorems *)

\* The invariant holds at first ...
LEMMA InvInit == Init => IInv
<1> SUFFICES ASSUME Init PROVE IInv
  OBVIOUS
<1>1. TypeOK
  BY TypeInit
<1>2. MainInv /\ VisitorInv /\ DirsInv /\ OriginInv /\ WholeInv /\ BlobsInv
  BY EmptyFacts
  DEF Init, MainInv, VisitorInv, NoneLast, DirsInv, OriginInv, WholeInv, BlobsInv, InLoop
<1>3. QueueInv /\ ThreadsInv
  BY DEF Init, QueueInv, QueueClean, ThreadsInv
<1>4. SnapshotComplete /\ NoPartialTrees /\ StoredIfClean
  BY DEF Init, SnapshotComplete, NoPartialTrees, StoredIfClean
<1> QED  BY <1>1, <1>2, <1>3, <1>4 DEF IInv

\* ... and after every step.
LEMMA InvStep == IInv /\ [Next]_vars => IInv'
BY TypeStep, MainStep, VisitorStep, DirsStep, OriginStep, WholeStep, BlobsStep, QueueStep,
   ThreadsStep, StoreStep
DEF IInv

LEMMA Invariant == Spec => []IInv
BY InvInit, InvStep, PTL DEF Spec

\* The variables keep their types (TypeOK).
THEOREM TypeCorrect == Spec => []TypeOK
<1>1. IInv => TypeOK  BY DEF IInv
<1> QED  BY <1>1, Invariant, PTL

\* A published commit is the whole directory, whatever fails: run and the exit of
\* its contexts (visitor.py:37-64, node.py:69-82) publish nothing that the visitor
\* did not finish.
THEOREM PublishesWholeTrees == Spec => []SnapshotComplete
<1>1. IInv => SnapshotComplete  BY DEF IInv
<1> QED  BY <1>1, Invariant, PTL

\* Trees in the database belong to published commits: the merges of a commit that
\* fails or dies (neogit.py:132) leave nothing.
THEOREM LeavesNoPartialTrees == Spec => []NoPartialTrees
<1>1. IInv => NoPartialTrees  BY DEF IInv
<1> QED  BY <1>1, Invariant, PTL

\* When no upload failed and the queue was clean the blobs are all stored.
THEOREM PublishesStoredBlobs == Spec => []StoredIfClean
<1>1. IInv => StoredIfClean  BY DEF IInv
<1> QED  BY <1>1, Invariant, PTL

\* The builder leaves no thread and no upload behind, however it is left.
THEOREM LeavesNoThread == Spec => []NoOrphanThreads
<1>1. IInv => NoOrphanThreads
  BY DEF IInv, TypeOK, ThreadsInv, NoOrphanThreads
<1> QED  BY <1>1, Invariant, PTL

\* Without these faults every snapshot is sound.
SoundInv ==
    Faults \cap {"storage", "late"} = {} =>
        exc = FALSE /\ \A s \in snapshots : s.clean /\ ~s.failed

LEMMA Sound == Spec => []SoundInv
<1>1. Init => SoundInv
  BY DEF Init, SoundInv
<1>2. IInv /\ SoundInv /\ [Next]_vars => SoundInv'
  <2> SUFFICES ASSUME IInv, SoundInv, [Next]_vars, Faults \cap {"storage", "late"} = {}
               PROVE  exc' = FALSE /\ \A s \in snapshots' : s.clean /\ ~s.failed
    BY DEF SoundInv
  <2> USE DEF mainVars, visitorVars, poolVars, dbVars
  <2>1. exc = FALSE /\ (\A s \in snapshots : s.clean /\ ~s.failed) /\ clean
    BY DEF SoundInv, IInv, QueueInv
  <2>2. CASE Finish
    <3>1. Snapshot.clean = clean /\ Snapshot.failed = exc
      BY DEF Snapshot
    <3> QED  BY <2>1, <2>2, <3>1 DEF Finish
  <2>3. CASE UNCHANGED snapshots /\ exc' \in {exc, FALSE}
    BY <2>1, <2>3
  <2>4. CASE BeginCommit \/ MainTake \/ MainCheck \/ MainMerge \/ MainSentinel \/ MainJoin \/ MainRoot
    BY <2>3, <2>4 DEF BeginCommit, MainTake, MainCheck, MainMerge, MainSentinel, MainJoin, MainRoot
  <2>5. CASE ExitUploader \/ ShutdownUploader \/ ExitVisitor \/ Interrupt \/ LateFault \/ Crash
    BY <2>3, <2>5 DEF ExitUploader, ShutdownUploader, ExitVisitor, Interrupt, LateFault, Crash
  <2>6. CASE Visitor \/ Submitter
    BY <2>3, <2>6 DEF Visitor, VisitNode, VisitEnd, VisitFail, Submitter, SubmitGet, SubmitWait
  <2>7. CASE \E w \in Workers : Worker(w)
    BY <2>3, <2>7 DEF Worker, WorkerTake, WorkerStore, WorkerFail
  <2>8. CASE UNCHANGED vars  BY <2>3, <2>8 DEF vars
  <2> QED  BY <2>2, <2>4, <2>5, <2>6, <2>7, <2>8 DEF Next, Main, Terminated
<1> QED  BY <1>1, <1>2, Invariant, PTL DEF Spec

\* The shared queue is empty after a commit that found it empty, however the
\* commit ended, unless something raised after run had put its sentinel.
THEOREM QueueStaysClean == Spec => []QueueClean
<1>1. IInv => QueueClean
  BY DEF IInv, QueueInv
<1> QED  BY <1>1, Invariant, PTL

\* Without upload errors and without exceptions after the sentinel every blob of
\* every commit is stored: these two faults are all that breaks the promise.
THEOREM StoresEveryBlob ==
    Faults \cap {"storage", "late"} = {} => (Spec => []EveryBlobStored)
<1> SUFFICES ASSUME Faults \cap {"storage", "late"} = {} PROVE Spec => []EveryBlobStored
  OBVIOUS
<1>1. IInv /\ SoundInv => EveryBlobStored
  BY DEF IInv, StoredIfClean, SoundInv, EveryBlobStored
<1> QED  BY <1>1, Invariant, Sound, PTL

-----------------------------------------------------------------------------
(* The pipeline implements SnapshotStore *)

\* The blobs of the directories that may be committed
BlobHashes == UNION {BlobsOf(w) : w \in Walks}

\* What is on its way to the object storage is a blob.
CarriedInv ==
    /\ \A x \in Range(uq) : x # None /\ x.kind = "file" => x.hash \in BlobHashes
    /\ Range(pool) \subseteq BlobHashes
    /\ \A w \in Workers : active[w] # None => active[w] \in BlobHashes

LEMMA CarriedInit == Init => CarriedInv
BY EmptyFacts DEF Init, CarriedInv

LEMMA CarriedStep == TypeOK /\ MainInv /\ OriginInv /\ CarriedInv /\ [Next]_vars => CarriedInv'
<1> SUFFICES ASSUME TypeOK, MainInv, OriginInv, CarriedInv, [Next]_vars PROVE CarriedInv'
  OBVIOUS
<1>q. /\ vq \in Seq(Items \cup {None}) /\ uq \in Seq(Items \cup {None}) /\ pool \in Seq(Hashes)
      /\ None \in Items \cup {None} /\ active \in [Workers -> Hashes \cup {None}]
  BY DEF TypeOK
<1> USE DEF mainVars, visitorVars, poolVars, dbVars
<1>1. CASE BeginCommit
  BY <1>1, EmptyFacts DEF BeginCommit, CarriedInv
<1>2. CASE MainTake
  <2>1. Head(vq) \in Items \cup {None} /\ Head(vq) \in Range(vq)
    BY <1>2, <1>q, TailFacts DEF MainTake
  <2>2. Range(Append(uq, Head(vq))) = Range(uq) \cup {Head(vq)}
    BY <1>q, <2>1, AppendFacts
  <2>3. Head(vq) # None /\ Head(vq).kind = "file" => Head(vq).hash \in BlobHashes
    <3>1. walk \in Walks /\ (Head(vq) # None => Head(vq) \in Range(walk))
      BY <1>2, <2>1 DEF MainTake, MainInv, OriginInv
    <3>2. Head(vq) # None /\ Head(vq).kind = "file" => Head(vq).hash \in BlobsOf(walk)
      BY <3>1 DEF Range, BlobsOf
    <3> QED  BY <3>1, <3>2 DEF BlobHashes
  <2>4. /\ Range(uq') \subseteq Range(uq) \cup {Head(vq)}
        /\ UNCHANGED <<pool, active, exc>>
    BY <1>2, <2>2 DEF MainTake
  <2> QED  BY <2>3, <2>4 DEF CarriedInv
<1>3. CASE MainSentinel \/ ExitUploader
  <2>1. uq' = uq \/ uq' = Append(uq, None)
    BY <1>3 DEF MainSentinel, ExitUploader
  <2>2. Range(Append(uq, None)) = Range(uq) \cup {None}
    BY <1>q, AppendFacts
  <2>3. Range(uq') \subseteq Range(uq) \cup {None}
    BY <2>1, <2>2
  <2>4. UNCHANGED <<pool, active, exc>>
    BY <1>3 DEF MainSentinel, ExitUploader
  <2> QED  BY <2>3, <2>4 DEF CarriedInv
<1>4. CASE \/ MainCheck \/ MainMerge \/ MainJoin \/ MainRoot \/ ShutdownUploader \/ ExitVisitor
           \/ Finish \/ Interrupt \/ LateFault \/ Visitor \/ SubmitWait \/ UNCHANGED vars
  <2>1. UNCHANGED <<uq, pool, active, exc>>
    BY <1>4 DEF MainCheck, MainMerge, MainJoin, MainRoot, ShutdownUploader, ExitVisitor, Finish,
                Interrupt, LateFault, Visitor, VisitNode, VisitEnd, VisitFail, SubmitWait, vars
  <2> QED  BY <2>1 DEF CarriedInv
<1>5. CASE SubmitGet
  <2>1. Range(uq) = {Head(uq)} \cup Range(Tail(uq)) /\ Head(uq) \in Items \cup {None}
    BY <1>5, <1>q, TailFacts DEF SubmitGet
  <2>2. \/ pool' = pool
        \/ /\ Head(uq) # None /\ Head(uq).kind = "file" /\ Head(uq).hash \in Hashes
           /\ pool' = Append(pool, Head(uq).hash)
    BY <1>5, <2>1, KindFacts DEF SubmitGet
  <2>3. Range(pool') \subseteq BlobHashes
    <3>1. CASE pool' = pool
      BY <3>1 DEF CarriedInv
    <3>2. CASE /\ Head(uq) # None /\ Head(uq).kind = "file" /\ Head(uq).hash \in Hashes
               /\ pool' = Append(pool, Head(uq).hash)
      <4>1. Range(pool') = Range(pool) \cup {Head(uq).hash}
        BY <1>q, <3>2, AppendFacts
      <4> QED  BY <2>1, <3>2, <4>1 DEF CarriedInv
    <3> QED  BY <2>2, <3>1, <3>2
  <2> QED  BY <1>5, <2>1, <2>3 DEF SubmitGet, CarriedInv
<1>6. CASE \E w \in Workers : Worker(w)
  <2> PICK w \in Workers : Worker(w)
    BY <1>6
  <2>1. CASE WorkerTake(w)
    <3>1. Range(pool) = {Head(pool)} \cup Range(Tail(pool))
      BY <1>q, <2>1, TailFacts DEF WorkerTake
    <3> QED  BY <1>q, <2>1, <3>1 DEF WorkerTake, CarriedInv
  <2>2. CASE WorkerStore(w)  BY <1>q, <2>2 DEF WorkerStore, CarriedInv
  <2>3. CASE WorkerFail(w)  BY <1>q, <2>3 DEF WorkerFail, CarriedInv
  <2> QED  BY <2>1, <2>2, <2>3 DEF Worker
<1>7. CASE Crash  BY <1>7, EmptyFacts DEF Crash, CarriedInv
<1> QED
  BY <1>1, <1>2, <1>3, <1>4, <1>5, <1>6, <1>7
  DEF Next, Main, Submitter, Terminated

LEMMA Carried == Spec => []CarriedInv
<1>1. IInv /\ CarriedInv /\ [Next]_vars => CarriedInv'
  BY CarriedStep DEF IInv
<1> QED  BY <1>1, CarriedInit, Invariant, PTL DEF Spec

\* The snapshots and the sources as SnapshotStore sees them
SourceOf(w) == [root |-> w[Len(w)].hash, dirs |-> DirsOf(w), blobs |-> BlobsOf(w)]
Sources == {[root |-> w[Len(w)].hash, dirs |-> DirsOf(w), blobs |-> BlobsOf(w)] : w \in Walks}
Published == {[root |-> s.root, dirs |-> DirsOf(s.walk), blobs |-> BlobsOf(s.walk),
               sound |-> s.clean /\ ~s.failed] : s \in snapshots}

LEMMA StoreRefinement ==
    ASSUME IInv, CarriedInv, [Next]_vars
    PROVE  [Store!Next]_(Store!vars)
<1> USE DEF mainVars, visitorVars, poolVars, dbVars
<1>1. CASE Finish /\ ~raised /\ trees' = trees \cup txn /\ snapshots' = snapshots \cup {Snapshot}
  <2>1. /\ pc = "finish" /\ UNCHANGED objects /\ walk \in Walks
        /\ last = walk[Len(walk)] /\ txn = DirsOf(walk)
    BY <1>1 DEF Finish, IInv, MainInv, OriginInv, WholeInv
  <2> DEFINE src == SourceOf(walk)
             new == [root |-> src.root, dirs |-> src.dirs, blobs |-> src.blobs, sound |-> clean /\ ~exc]
  <2>2. clean /\ ~exc => BlobsOf(walk) \subseteq objects
    BY <1>1, <2>1, StoredAtFinish DEF IInv
  <2>3. src \in Sources /\ src.dirs = DirsOf(walk) /\ src.blobs = BlobsOf(walk)
        /\ src.root = walk[Len(walk)].hash
    BY <2>1 DEF SourceOf, Sources
  <2>4. Snapshot.root = src.root /\ Snapshot.walk = walk
        /\ Snapshot.clean = clean /\ Snapshot.failed = exc
    BY <2>1, <2>3 DEF Snapshot
  <2>5. Published' = Published \cup {new}
    BY <1>1, <2>3, <2>4 DEF Published
  <2>6. (clean /\ ~exc) \in BOOLEAN /\ ((clean /\ ~exc) => src.blobs \subseteq objects)
        /\ trees' = trees \cup src.dirs
    BY <1>1, <2>1, <2>2, <2>3
  <2> HIDE DEF src
  <2>7. Store!Publish
    BY <2>1, <2>3, <2>5, <2>6 DEF Store!Publish, Sources, Published
  <2> QED  BY <2>7 DEF Store!Next
<1>2. CASE UNCHANGED <<trees, snapshots, objects>>
  BY <1>2 DEF Store!vars
<1>3. CASE Finish
  BY <1>1, <1>2, <1>3 DEF Finish
<1>4. CASE BeginCommit \/ MainTake \/ MainCheck \/ MainMerge \/ MainSentinel \/ MainJoin \/ MainRoot
  BY <1>2, <1>4 DEF BeginCommit, MainTake, MainCheck, MainMerge, MainSentinel, MainJoin, MainRoot
<1>5. CASE ExitUploader \/ ShutdownUploader \/ ExitVisitor \/ Interrupt \/ LateFault \/ Crash
  BY <1>2, <1>5 DEF ExitUploader, ShutdownUploader, ExitVisitor, Interrupt, LateFault, Crash
<1>6. CASE Visitor \/ Submitter
  BY <1>2, <1>6 DEF Visitor, VisitNode, VisitEnd, VisitFail, Submitter, SubmitGet, SubmitWait
<1>7. CASE \E w \in Workers : Worker(w)
  <2> PICK w \in Workers : Worker(w)
    BY <1>7
  <2>1. CASE WorkerStore(w)
    <3>1. PICK v \in Walks : active[w] \in BlobsOf(v)
      BY <2>1 DEF WorkerStore, CarriedInv, BlobHashes
    <3>2. SourceOf(v) \in Sources /\ active[w] \in SourceOf(v).blobs
      BY <3>1 DEF SourceOf, Sources
    <3>3. objects' = objects \cup {active[w]} /\ UNCHANGED <<trees, snapshots>>
      BY <2>1 DEF WorkerStore
    <3>4. Store!PutObject
      BY <3>2, <3>3 DEF Store!PutObject, Sources
    <3> QED  BY <3>4 DEF Store!Next
  <2>2. CASE WorkerTake(w) \/ WorkerFail(w)
    BY <1>2, <2>2 DEF WorkerTake, WorkerFail
  <2> QED  BY <2>1, <2>2 DEF Worker
<1>8. CASE UNCHANGED vars  BY <1>2, <1>8 DEF vars
<1> QED
  BY <1>3, <1>4, <1>5, <1>6, <1>7, <1>8 DEF IInv, Next, Main, Terminated

\* The pipeline implements SnapshotStore, for any set of faults: what it
\* publishes appears in one step, whole, over stored blobs if it is sound.
THEOREM PipelineImplementsStore == Spec => ImplementsStore
<1>1. Init => Store!Init
  BY DEF Init, Store!Init
<1>2. IInv /\ CarriedInv /\ [Next]_vars => [Store!Next]_(Store!vars)
  BY StoreRefinement
<1> QED  BY <1>1, <1>2, Invariant, Carried, PTL DEF Spec, Store!Spec, ImplementsStore

=============================================================================
