-------------------------- MODULE MCObjectUploader --------------------------
(* Instances of ObjectUploader for TLC *)
EXTENDS ObjectUploader, TLC

CONSTANTS p1, p2, w1, w2, x, y, a, b

\* two processes of one worker each
TwoProcesses == w1 :> p1 @@ w2 :> p2
\* one process with two workers
OneProcess == w1 :> p1 @@ w2 :> p1

File(d)  == [data |-> d, bad |-> FALSE]
BadAt(d) == [data |-> d, bad |-> TRUE]

\* a file of two chunks and one of a single chunk, so that two paths may hold
\* the same content; an unreadable one and one that stops in the middle
Readable == {File(<<a, b>>), File(<<a>>)}
AllKinds == Readable \cup {BadAt(<<>>), BadAt(<<a>>)}

PathSymmetry == Permutations({x, y})
\* A process goes with its worker: TwoProcesses stays the same.
Symmetric == PathSymmetry \cup {p1 :> p2 @@ p2 :> p1 @@ w1 :> w2 @@ w2 :> w1}
=============================================================================
