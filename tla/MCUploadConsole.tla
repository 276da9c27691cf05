-------------------------- MODULE MCUploadConsole --------------------------
(* Instances of UploadConsole for TLC *)
EXTENDS UploadConsole, TLC

CONSTANTS p1, w1, w2, x, y, a, main, i1, i2

OneProcess == w1 :> p1 @@ w2 :> p1

Readable == {[data |-> <<a>>, bad |-> FALSE], [data |-> <<>>, bad |-> FALSE]}

Symmetric == Permutations({x, y}) \cup Permutations({w1, w2}) \cup Permutations({i1, i2})
=============================================================================
