------------------------------ MODULE BranchLog ------------------------------
(***************************************************************************)
(* What the history of neogit is to someone who is alone with it: a log of *)
(* commits per branch, newest first.  A commit goes in front of its        *)
(* branch, or right behind the commit it is to come before, in every       *)
(* branch that has that one.                                               *)
(***************************************************************************)
EXTENDS Integers, Sequences, SequencesExt

CONSTANTS Branches, Commits

VARIABLE log   \* branch -> its commits, newest first

Init == log = <<>>

Has(b, x) == \E i \in 1..Len(log[b]) : log[b][i] = x

Fresh(n) == \A b \in DOMAIN log : ~Has(b, n)

Position(s, x) == CHOOSE i \in 1..Len(s) : s[i] = x

\* A commit in front of a branch, which need not exist yet
Prepend(b, n) ==
    /\ Fresh(n)
    /\ log' = [d \in DOMAIN log \cup {b} |->
                  IF d # b THEN log[d] ELSE IF b \in DOMAIN log THEN <<n>> \o log[b] ELSE <<n>>]

\* A commit behind x
InsertBefore(x, n) ==
    /\ Fresh(n) /\ \E b \in DOMAIN log : Has(b, x)
    /\ log' = [d \in DOMAIN log |->
                  IF Has(d, x) THEN InsertAt(log[d], Position(log[d], x) + 1, n) ELSE log[d]]

\* A branch that starts with the history of x
Fork(b, x) ==
    /\ b \notin DOMAIN log
    /\ \E d \in DOMAIN log :
           /\ Has(d, x)
           /\ log' = [e \in DOMAIN log \cup {b} |->
                         IF e # b THEN log[e]
                         ELSE SubSeq(log[d], Position(log[d], x), Len(log[d]))]

Next ==
    \/ \E b \in Branches, n \in Commits : Prepend(b, n)
    \/ \E x, n \in Commits : InsertBefore(x, n)
    \/ \E b \in Branches, x \in Commits : Fork(b, x)

Spec == Init /\ [][Next]_log
=============================================================================
