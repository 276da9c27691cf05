-------------------------- MODULE MCCommitPipeline --------------------------
(* Instances of CommitPipeline for TLC *)
EXTENDS CommitPipeline, TLC

CONSTANTS f1, f2, d1, d2   \* hashes
CONSTANTS w1, w2           \* workers

File(h) == [kind |-> "file", hash |-> h]
Dir(h)  == [kind |-> "dir", hash |-> h]

MCHashes  == {f1, f2, d1, d2}
MCWorkers == {w1, w2}

\* d1/ holds f1; the directory that becomes d2 holds f2, d1/ and a second copy
\* of f1, visited after the subdirectory.
Flat   == <<File(f1), Dir(d1)>>
Nested == <<File(f2), File(f1), Dir(d1), File(f1), Dir(d2)>>
MCWalks  == {Flat, Nested}
=============================================================================
