----------------------------- MODULE Selection ------------------------------
(***************************************************************************)
(* Sorting a set and filtering a sequence, by positions: the definitions   *)
(* of Filter and SelectSeq agree, but the prover knows nothing of the      *)
(* latter.                                                                 *)
(***************************************************************************)
EXTENDS Integers, Sequences, FiniteSets

\* The elements of S in the strict total order R, a set of pairs.
Arranged(S, R) ==
    LET rank == [x \in S |-> Cardinality({y \in S : <<y, x>> \in R})]
    IN  [i \in 1..Cardinality(S) |-> CHOOSE x \in S : rank[x] = i - 1]

\* The elements of S in the strict total order Before.
Sorted(S, Before(_, _)) == Arranged(S, {p \in S \X S : Before(p[1], p[2])})

\* A set of numbers in their order.
Ascending(S) == Arranged(S, {p \in S \X S : p[1] < p[2]})

\* The elements of s at some positions, in their order.
Picked(s, at) ==
    LET order == Ascending(at) IN [i \in 1..Cardinality(at) |-> s[order[i]]]

\* The elements of s that pass the test, in their order.
Filter(s, Test(_)) == Picked(s, {i \in 1..Len(s) : Test(s[i])})
=============================================================================
