----------------------------- MODULE Ascending -----------------------------
(***************************************************************************)
(* A finite set of integers as the ascending sequence of its elements:     *)
(* Python's sorted() of distinct keys, and the order of the positions that *)
(* a loop over a list keeps.                                               *)
(***************************************************************************)
EXTENDS Integers, FiniteSets

\* How many elements of S come up to a.
Rank(S, a) == Cardinality({b \in S : b <= a})

\* The element in position k is the one of rank k.
InOrder(S) ==
  [k \in 1..Cardinality(S) |-> CHOOSE a \in S : Rank(S, a) = k]
=============================================================================
