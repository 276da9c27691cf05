--------------------------- MODULE MCObjectStorage ---------------------------
(* Instances of ObjectStorage for TLC *)
EXTENDS ObjectStorage, TLC

CONSTANTS t1, t2, t3, k1, k2

Symmetric == Permutations(Threads) \cup Permutations(Keys)
=============================================================================
