------------------------------- MODULE Lists -------------------------------
(* Lists from which elements are erased: the elements that stay, in their
   order.  (The same as SelectSeq, by positions instead of by recursion, so
   that it can be reasoned about.) *)
EXTENDS Naturals, Sequences, FiniteSets

(* The number of positions of K up to i, and the n-th position of K. *)
Rank(K, i) == Cardinality({j \in K : j <= i})
Nth(K, n) == CHOOSE i \in K : Rank(K, i) = n

(* list with only the elements at the positions K. *)
Only(list, K) == [n \in 1..Cardinality(K) |-> list[Nth(K, n)]]

(* The first of a set of positions, 0 if there is none. *)
First(S) == IF S = {} THEN 0 ELSE CHOOSE i \in S : \A m \in S : i <= m
=============================================================================
