------------------------------ MODULE Sublists ------------------------------
(***************************************************************************)
(* What the stores do with their queues: entries are filtered out of one   *)
(* and the rest keeps its order, and the sizes of the first ones are added *)
(* up.                                                                     *)
(***************************************************************************)
EXTENDS Naturals, FiniteSets

\* How many of the positions in `at' are no later than i.
Rank(at, i) == Cardinality({j \in at : j <= i})

\* The entries of seq at these positions, in their order (retain, filter).
Sublist(seq, at) == [n \in 1..Cardinality(at) |-> seq[CHOOSE i \in at : Rank(at, i) = n]]

\* The sum of the first n sizes.
Total(sizes, n) ==
    LET sum[i \in 0..n] == IF i = 0 THEN 0 ELSE sum[i - 1] + sizes[i]
    IN  sum[n]
=============================================================================
