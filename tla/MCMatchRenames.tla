--------------------------- MODULE MCMatchRenames ---------------------------
(* Model-checking instance of MatchRenames: up to three removed and four   *)
(* added functions around a changed one, every subset of them; canonical   *)
(* names that are unique, ambiguous and empty; 128 similarity relations    *)
(* and no callback.  Three candidates on one side and more on the other    *)
(* are beyond the cap.                                                     *)
EXTENDS MatchRenames

MCName == 1..8
MCRemoved == {2, 5, 7}
MCCanon == <<"f", "f", "g", "h", "g", "g", "", "">>
StateOfName(n) == IF n = 4 THEN "changed" ELSE IF n \in MCRemoved THEN "removed" ELSE "added"

All == [n \in MCName |-> FreshPair(n, StateOfName(n))]
ListOf(S) == SelectSeq(All, LAMBDA p : p.name \in S)
MCInputs == {ListOf(S) : S \in {S \in SUBSET MCName : 4 \in S}}
MCSimilarities == SUBSET (MCRemoved \X {3, 6} \cup {<<5, 1>>}) \cup {NoCallback}
=============================================================================
