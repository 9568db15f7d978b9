------------------------- MODULE LongestIncreasing -------------------------
(***************************************************************************)
(* fndiff.LongestIncreasing (src/internal/fndiff/diff.go): the indices of  *)
(* a longest strictly increasing subsequence, by patience.  Indices are    *)
(* counted from 0 as in the code, and a run of length k+1 of the code is a *)
(* run of length k here.                                                   *)
(***************************************************************************)
EXTENDS Integers, Sequences, FiniteSets

CONSTANT Inputs  \* lists of numbers

ASSUME IncreasingAssumption == Inputs \subseteq Seq(Int)

VARIABLES values,  \* the input
          i,       \* values read
          tails,   \* tails[n] indexes the smallest value that ends a run of length n
          prev,    \* the index before each one in the run it extends, or -1
          out      \* the result, filled from its end

vars == <<values, i, tails, prev, out>>

At(x) == values[x + 1]

(* sort.Search finds the first tail that is not smaller, provided that the *)
(* smaller ones come first.                                                *)

Search(v) == CHOOSE n \in 1..(Len(tails) + 1) :
               /\ n = Len(tails) + 1 \/ At(tails[n]) >= v
               /\ \A j \in 1..(n - 1) : At(tails[j]) < v

Init == /\ values \in Inputs
        /\ i = 0
        /\ tails = <<>>
        /\ prev = [x \in 0..(Len(values) - 1) |-> -1]
        /\ out = <<>>

(* A value ends a run one longer than the longest one that ends below it.  *)
Extend ==
  /\ i < Len(values)
  /\ LET n == Search(At(i))
     IN  /\ prev' = [prev EXCEPT ![i] = IF n > 1 THEN tails[n - 1] ELSE -1]
         /\ tails' = IF n = Len(tails) + 1 THEN Append(tails, i) ELSE [tails EXCEPT ![n] = i]
  /\ i' = i + 1
  /\ UNCHANGED <<values, out>>

(* A seeded defect stands before the action it replaces; no specification  *)
(* uses it.                                                                *)
DefectLinkTails == /\ i = Len(values)
                   /\ Len(out) < Len(tails)
                   /\ out' = <<tails[Len(tails) - Len(out)]>> \o out
                   /\ UNCHANGED <<values, i, tails, prev>>

(* The run that the last tail ends, from its end.                          *)
Link == /\ i = Len(values)
        /\ Len(out) < Len(tails)
        /\ out' = <<IF out = <<>> THEN tails[Len(tails)] ELSE prev[out[1]]>> \o out
        /\ UNCHANGED <<values, i, tails, prev>>

Next == Extend \/ Link

Spec == Init /\ [][Next]_vars

-----------------------------------------------------------------------------
Index == 0..(Len(values) - 1)

TypeOK == /\ values \in Seq(Int)
          /\ i \in 0..Len(values)
          /\ tails \in Seq(0..(i - 1))
          /\ prev \in [Index -> Index \cup {-1}]
          /\ out \in Seq(Index)

(* Strictly increasing subsequences, as sets of indices below n.           *)
Increasing(S) == \A x, y \in S : x < y => At(x) < At(y)

(* The binary search is sound: tails grow with the length of their run.    *)
TailsIncrease == \A m, n \in DOMAIN tails : m < n => At(tails[m]) < At(tails[n])

(* The patience invariant: no run of the values read so far is longer than *)
(* the tails, nor ends in a smaller value than the tail of its length.     *)
TailsAreBest ==
  \A S \in SUBSET (0..(i - 1)) : Increasing(S) /\ S # {} =>
    /\ Cardinality(S) <= Len(tails)
    /\ \E x \in S : At(x) >= At(tails[Cardinality(S)])

(* diff.go:144-145: the result is an increasing subsequence, in order, and *)
(* none is longer.                                                         *)
ResultIsLongest ==
  i = Len(values) /\ Len(out) = Len(tails) =>
    /\ \A m, n \in DOMAIN out : m < n => out[m] < out[n] /\ At(out[m]) < At(out[n])
    /\ \A S \in SUBSET Index : Increasing(S) => Cardinality(S) <= Len(out)
=============================================================================
