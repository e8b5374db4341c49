------------------------------- MODULE Arrays -------------------------------
(***************************************************************************)
(* filter and sort of JavaScript arrays.  The sort is stable: what neither *)
(* comes before the other keeps its order, where SortSeq of the standard   *)
(* module TLC leaves open what comes out.  Both are in closed form, by the *)
(* rank of each index that comes out.                                      *)
(***************************************************************************)
EXTENDS Integers, FiniteSets

\* The members of K, each at the place the order R gives it.
ByRank(K, R) ==
    [k \in 1..Cardinality(K) |->
        CHOOSE i \in K : Cardinality({j \in K : <<j, i>> \in R}) = k]

UpTo(K) == {p \in K \X K : p[1] <= p[2]}

Filtered(s, Test(_)) ==
    LET kept == {i \in DOMAIN s : Test(s[i])}
        q    == ByRank(kept, UpTo(kept))
    IN  [k \in DOMAIN q |-> s[q[k]]]

\* What comes before what, and what neither does, as it stood.
Stably(K, R) == {p \in K \X K : p \in R \/ (<<p[2], p[1]>> \notin R
                                              /\ p[1] <= p[2])}

Sorted(s, Before(_, _)) ==
    LET K == DOMAIN s
        R == {p \in K \X K : Before(s[p[1]], s[p[2]])}
        q == ByRank(K, Stably(K, R))
    IN  [k \in DOMAIN q |-> s[q[k]]]
=============================================================================
