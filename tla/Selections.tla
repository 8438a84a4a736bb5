----------------------------- MODULE Selections -----------------------------
(***************************************************************************)
(* What `retain`, `filter` and `drain` leave of a list, by the ranks of the*)
(* indices that stay: SelectSeq computes the same by recursion, which the  *)
(* proofs could not follow.                                                *)
(***************************************************************************)
EXTENDS Naturals, FiniteSets

\* The k-th index in I.
Nth(I, k) == CHOOSE i \in I : Cardinality({j \in I : j <= i}) = k

\* The elements of q at the indices in I, in their order.
Only(q, I) == [k \in 1..Cardinality(I) |-> q[Nth(I, k)]]
=============================================================================
