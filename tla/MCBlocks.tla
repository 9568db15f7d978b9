------------------------------ MODULE MCBlocks ------------------------------
(***************************************************************************)
(* Two families of sides.  Functions of up to three instructions: a plain  *)
(* one (0), a return (1) or a branch to any of them, whose text has the    *)
(* label of its target; new labels follow the targets' order, old ones are *)
(* either of two.  And up to five blocks of one instruction on the old     *)
(* side, numbered as they first occur, against any four or less.           *)
(***************************************************************************)
EXTENDS Blocks

Jump(label) == 10 + label
MCText == 0..12
MCUnconditional == 1..5

SameLabelSameTarget(s) ==
  \A j, k \in DOMAIN s : s[j].target # 0 /\ s[k].target # 0 =>
    (s[j].text = s[k].text <=> s[j].target = s[k].target)
Ranked(s) ==
  \A k \in DOMAIN s : s[k].target # 0 =>
    s[k].text = Jump(Cardinality({t \in {s[j].target : j \in DOMAIN s} : 0 < t /\ t <= s[k].target}))

Inst(n) == [text : {0, 1}, target : {0}] \cup [text : {Jump(1), Jump(2)}, target : 1..n]
Flow == {s \in UNION {[1..n -> Inst(n)] : n \in 1..3} : SameLabelSameTarget(s)}

Row(s) == [k \in DOMAIN s |-> [text |-> s[k], target |-> 0]]
Rows(n, T) == UNION {[1..m -> T] : m \in 0..n}
FirstSeen(s) == \A k \in DOMAIN s : \A x \in 1..(s[k] - 1) : \E j \in 1..(k - 1) : s[j] = x

MCSides == (Flow \X {s \in Flow : Ranked(s)})
           \cup ({Row(s) : s \in {t \in Rows(5, 1..4) : FirstSeen(t)}} \X {Row(s) : s \in Rows(4, 1..4)})

MCInputs == {s \in UNION {[1..n -> -5..-1] : n \in 0..5} : \A j, k \in DOMAIN s : s[j] = s[k] => j = k}
=============================================================================
