---------------------------- MODULE AlignLabels ----------------------------
(***************************************************************************)
(* fndiff.AlignLabels (src/internal/fndiff/align.go): names for the branch *)
(* targets of the two sides of a changed function, from an alignment of    *)
(* their instructions.  A line is its masked text and the instruction that *)
(* it branches to.  Diff stands here for its contract (see LineDiff): any  *)
(* script from one side to the other, and one that keeps every line when   *)
(* the two sides are equal.                                                *)
(***************************************************************************)
EXTENDS Integers, Sequences, FiniteSets

CONSTANTS Text,   \* masked lines
          Inputs  \* the pairs of sides that are aligned

None == -1  \* no target, no aligned instruction

Line == [text : Text, target : Nat \cup {None}]
Positions(side) == 0..(Len(side) - 1)
At(side, k) == side[k + 1]

(* Targets are instructions of the same function (norm.indexAt).           *)
ASSUME AlignAssumption ==
  /\ Inputs \subseteq Seq(Line) \X Seq(Line)
  /\ \A pair \in Inputs, n \in {1, 2} :
       \A k \in DOMAIN pair[n] : pair[n][k].target \in Positions(pair[n]) \cup {None}

VARIABLES old, new,   \* the input
          oi, ni,     \* the cursors of the walk along the script
          oldToNew,   \* the instruction each old one is aligned with, or None
          oldNumber,  \* the number of each old target, 0 before it has one
          last        \* the last number given out

alignVars == <<old, new, oi, ni, oldToNew, oldNumber, last>>
input == <<old, new>>

Targets(side) == {At(side, k).target : k \in Positions(side)} \ {None}
Masked(side) == [k \in Positions(side) |-> At(side, k).text]

(* targetNumbers: new targets are numbered from 1 in address order.        *)
NewNumber(u) == Cardinality({v \in Targets(new) : v <= u})

-----------------------------------------------------------------------------
AlignInit == /\ \E pair \in Inputs : old = pair[1] /\ new = pair[2]
             /\ oi = 0 /\ ni = 0
             /\ oldToNew = [k \in Positions(old) |-> None]
             /\ oldNumber = [t \in Targets(old) |-> 0]
             /\ last = Cardinality(Targets(new))

(* One edit of the script.                                                 *)
Delete == /\ oi < Len(old)
          /\ Masked(old) # Masked(new)
          /\ oi' = oi + 1
          /\ UNCHANGED <<input, ni, oldToNew, oldNumber, last>>

Insert == /\ ni < Len(new)
          /\ Masked(old) # Masked(new)
          /\ ni' = ni + 1
          /\ UNCHANGED <<input, oi, oldToNew, oldNumber, last>>

Keep == /\ oi < Len(old) /\ ni < Len(new)
        /\ At(old, oi).text = At(new, ni).text
        /\ oldToNew' = [oldToNew EXCEPT ![oi] = ni]
        /\ oi' = oi + 1 /\ ni' = ni + 1
        /\ UNCHANGED <<input, oldNumber, last>>

Aligned == oi = Len(old) /\ ni = Len(new)

(* The old target to be numbered: sortedTargets has them in address order. *)
Numbered == {t \in Targets(old) : oldNumber[t] # 0}
IsNext(t) == /\ t \in Targets(old) \ Numbered
             /\ \A u \in Targets(old) \ Numbered : t <= u

(* Seeded defects stand before the definitions they replace; no            *)
(* specification uses one.                                                 *)
DefectNumberByRank ==
  /\ Aligned
  /\ \E t \in Targets(old) :
       /\ IsNext(t)
       /\ oldNumber' = [oldNumber EXCEPT ![t] = Cardinality(Numbered) + 1]
       /\ UNCHANGED <<input, oi, ni, oldToNew, last>>

DefectNumberUnaligned ==
  /\ Aligned
  /\ \E t \in Targets(old) :
       /\ IsNext(t)
       /\ IF oldToNew[t] # None
          THEN /\ oldNumber' = [oldNumber EXCEPT ![t] = oldToNew[t] + 1]
               /\ UNCHANGED last
          ELSE /\ last' = last + 1
               /\ oldNumber' = [oldNumber EXCEPT ![t] = last']
  /\ UNCHANGED <<input, oi, ni, oldToNew>>

(* A target that is aligned with a target takes its number, any other one a*)
(* fresh number.                                                           *)
Number ==
  /\ Aligned
  /\ \E t \in Targets(old) :
       /\ IsNext(t)
       /\ IF oldToNew[t] \in Targets(new)
          THEN /\ oldNumber' = [oldNumber EXCEPT ![t] = NewNumber(oldToNew[t])]
               /\ UNCHANGED last
          ELSE /\ last' = last + 1
               /\ oldNumber' = [oldNumber EXCEPT ![t] = last']
  /\ UNCHANGED <<input, oi, ni, oldToNew>>

AlignNext == Delete \/ Insert \/ Keep \/ Number

AlignSpec == AlignInit /\ [][AlignNext]_alignVars

-----------------------------------------------------------------------------
(* Render: a label stands for the number of the target, 0 for no label.    *)
OldLabel(t) == IF t = None THEN 0 ELSE oldNumber[t]
NewLabel(t) == IF t = None THEN 0 ELSE NewNumber(t)
OldLines == [k \in Positions(old) |-> <<At(old, k).text, OldLabel(At(old, k).target)>>]
NewLines == [k \in Positions(new) |-> <<At(new, k).text, NewLabel(At(new, k).target)>>]

AllNumbered == Aligned /\ Numbered = Targets(old)

AlignTypeOK == /\ <<old, new>> \in Inputs
               /\ oi \in 0..Len(old) /\ ni \in 0..Len(new)
               /\ oldToNew \in [Positions(old) -> Positions(new) \cup {None}]
               /\ oldNumber \in [Targets(old) -> Nat]
               /\ last \in Nat

(* align.go:10-13: a target has the same label on both sides if and only if*)
(* its instructions are aligned, so a branch that was retargeted shows and *)
(* one that was not does not.                                              *)
LabelsMeanAlignment ==
  \A t \in Numbered, u \in Targets(new) :
    oldNumber[t] = NewNumber(u) <=> oldToNew[t] = u

(* align.go:38-40: on each side different targets have different labels.   *)
LabelsAreDistinct ==
  /\ \A t, u \in Numbered : oldNumber[t] = oldNumber[u] => t = u
  /\ \A t, u \in Targets(new) : NewNumber(t) = NewNumber(u) => t = u

(* analyze calls a changed pair noise when the rendered sides are equal    *)
(* (compare.go:380).  That is so exactly when the masked lines are equal   *)
(* and every branch goes to the same instruction, whatever the numbering   *)
(* makes of it.                                                            *)
NoiseIsSameFlow == AllNumbered => (OldLines = NewLines <=> old = new)
=============================================================================
