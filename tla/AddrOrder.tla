----------------------------- MODULE AddrOrder ------------------------------
(* The order in which every RBTREE_FOR over addresses visits its elements:  *)
(* rbtree_compare_by_inetaddr, with addresses as natural numbers.           *)
EXTENDS Naturals, FiniteSets

(* The first element of a tree of addresses. *)
FirstOf(S) == CHOOSE a \in S : \A b \in S : a <= b

(* What a loop that stops after its first k elements does not reach. *)
AfterFirst(S, k) == {a \in S : Cardinality({b \in S : b < a}) >= k}
=============================================================================
