------------------------------ MODULE Ordering ------------------------------
(***************************************************************************)
(* What Vec::retain and sort_by of the standard library leave, said of the *)
(* places and of the order instead of element by element.                  *)
(***************************************************************************)
EXTENDS Integers, FiniteSets

\* retain: what is at the places of I, in the order of the places.
Nth(I, n) == CHOOSE i \in I : Cardinality({k \in I : k <= i}) = n
Retain(s, I) == [n \in 1..Cardinality(I) |-> s[Nth(I, n)]]

\* sort_by: the members of S, where Before is the set of pairs <<x, y>> of
\* which x comes before y; the n-th is the one that n - 1 come before.
SortBy(S, Before) ==
    [n \in 1..Cardinality(S) |->
        CHOOSE x \in S : Cardinality({y \in S : <<y, x>> \in Before}) = n - 1]
=============================================================================
