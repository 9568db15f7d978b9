---------------------------- MODULE BodySimilar ----------------------------
(***************************************************************************)
(* ixdiff.bodySimilar (src/ixdiff/compare.go): whether a removed and an    *)
(* added function are one renamed function, by their normalised bodies,    *)
(* which are the two lists of LineDiff.  The edit script is costly, so two *)
(* cheap bounds come before it.                                            *)
(***************************************************************************)
EXTENDS LineDiff, FiniteSetsExt, SequencesExt

CONSTANTS similarNum, similarDen,  \* the share of lines that must be equal, 9 in 10
          Functions               \* the rest of a function: its size, package, and whether it decodes

ASSUME SimilarAssumption == /\ similarNum \in Nat /\ similarDen \in Nat \ {0}
                            /\ similarNum <= similarDen
                            /\ \A f \in Functions : f.size \in Nat

(* How often each line of the first list is still without a partner, and   *)
(* the partners found, after n lines of the second.                        *)
Matched(st, l) == IF l \in DOMAIN st.counts /\ st.counts[l] > 0
                  THEN [counts |-> [st.counts EXCEPT ![l] = @ - 1], common |-> st.common + 1]
                  ELSE st

(* commonLines: the lines in common, each as often as it has a partner.    *)
DefectCommonLines ==
  Cardinality({k \in DOMAIN b : \E j \in DOMAIN a : j = k /\ a[j] = b[k]})

CommonLines ==
  LET counts == [l \in Range(a) |-> Cardinality({k \in DOMAIN a : a[k] = l})]
      after[n \in 0..Len(b)] == IF n = 0 THEN [counts |-> counts, common |-> 0]
                                ELSE Matched(after[n - 1], b[n])
  IN  after[Len(b)].common

Enough(n) == n * similarDen >= Maximum(Len(a), Len(b)) * similarNum

SizesClose(f, g) == Minimum(f.size, g.size) * 5 >= Maximum(f.size, g.size) * 4

Similar(f, g) == /\ SizesClose(f, g) /\ f.pkg = g.pkg
                 /\ f.decodes /\ g.decodes
                 /\ Enough(Minimum(Len(a), Len(b))) /\ Enough(CommonLines)
                 /\ Enough(KeptLines)

-----------------------------------------------------------------------------
(* compare.go:397-401: the answer is what the edit script says of two      *)
(* decodable functions of one package whose sizes are within a fifth of the*)
(* larger; the bounds that save most scripts reject none it would accept.  *)
BoundsRejectNothing ==
  Finished =>
    \A f, g \in Functions :
      Similar(f, g) <=> /\ f.pkg = g.pkg /\ f.decodes /\ g.decodes
                        /\ 5 * (Maximum(f.size, g.size) - Minimum(f.size, g.size)) <= Maximum(f.size, g.size)
                        /\ Enough(Cardinality({k \in DOMAIN lines : lines[k].op = "equal"}))
=============================================================================
