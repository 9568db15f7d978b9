--------------------------- MODULE MCAlignLabels ---------------------------
(***************************************************************************)
(* Sides of at most three instructions, two plain ones and a branch to any *)
(* of them.                                                                *)
(***************************************************************************)
EXTENDS AlignLabels

CONSTANTS move, ret, jump

MCText == {move, ret, jump}
SideOf(n) == [1..n -> [text : {move, ret}, target : {None}]
                        \cup [text : {jump}, target : 0..(n - 1)]]
MCInputs == LET sides == SideOf(1) \cup SideOf(2) \cup SideOf(3) IN sides \X sides
=============================================================================
