----------------------------- MODULE MCLineDiff -----------------------------
(***************************************************************************)
(* Lists of at most four lines over four texts.  The texts are numbered in *)
(* the order in which the first list mentions them; other lists only rename*)
(* them.  The bound is low, so that regions of eight cells and more are     *)
(* split at anchors, of which there may be none, one or several.  And six  *)
(* different lines of which any are dropped, replaced or followed by one   *)
(* more: scripts of several hunks.                                         *)
(***************************************************************************)
EXTENDS BodySimilar, Report

MCText == 1..7
Lists == UNION {[1..n -> 1..4] : n \in 0..4}
FirstSeen(s) == \A k \in DOMAIN s : \A x \in 1..(s[k] - 1) : \E j \in 1..(k - 1) : s[j] = x

Edited(change) ==
  FlattenSeq([k \in 1..6 |-> CASE change[k] = "none" -> <<k>>
                               [] change[k] = "drop" -> <<>>
                               [] change[k] = "replace" -> <<7>>
                               [] change[k] = "insert" -> <<k, 7>>])
Scripts == {<<[k \in 1..6 |-> k], Edited(c)>> : c \in [1..6 -> {"none", "drop", "replace", "insert"}]}

MCInputs == ({s \in Lists : FirstSeen(s)} \X Lists) \cup Scripts

MCFunctions == [size : {4, 5, 6}, pkg : {1, 2}, decodes : BOOLEAN]
=============================================================================
