------------------------------- MODULE Lists -------------------------------
(***************************************************************************)
(* What several modules do with lists and sets of numbers: sums, the items *)
(* at chosen positions, sorting, and joining lists one after another.      *)
(***************************************************************************)
EXTENDS Integers, Sequences, FiniteSets

SumOf(v) == LET upTo[n \in 0..Len(v)] == IF n = 0 THEN 0 ELSE upTo[n - 1] + v[n]
            IN  upTo[Len(v)]

Flat(ss) == LET upTo[n \in 0..Len(ss)] == IF n = 0 THEN <<>> ELSE upTo[n - 1] \o ss[n]
            IN  upTo[Len(ss)]

(* The k-th position of a set, and the items of a list at those positions. *)
Nth(S, k) == CHOOSE x \in S : Cardinality({y \in S : y < x}) = k - 1
Chosen(s, kept) == [k \in 1..Cardinality(kept) |-> s[Nth(kept, k)]]

(* slices.SortFunc: the element at k has k - 1 others before it.           *)
Sorted(S, before) ==
  [k \in 1..Cardinality(S) |-> CHOOSE x \in S : Cardinality({y \in S : <<y, x>> \in before}) = k - 1]
=============================================================================
