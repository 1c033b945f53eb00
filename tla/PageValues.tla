----------------------------- MODULE PageValues -----------------------------
(***************************************************************************)
(* What the modules of the page's views have in common.                    *)
(***************************************************************************)
EXTENDS Naturals, FiniteSets

CONSTANT None    \* null in the code

\* The one sequence that has the numbers of S in their order: what a filter
\* keeps of a list's positions, what a query sorts.
InOrder(S) ==
    {q \in [1 .. Cardinality(S) -> S] : \A i, j \in DOMAIN q : i < j => q[i] < q[j]}
=============================================================================
