------------------------------ MODULE LineDiff ------------------------------
(***************************************************************************)
(* fndiff.Diff and fndiff.ResolveLines (src/internal/fndiff/diff.go): an   *)
(* edit script from one list of lines to another, and the addresses of its *)
(* lines.  The recursion of appendDiff and appendAnchored is a stack of    *)
(* regions still to be diffed, in the order in which the calls append.     *)
(* LongestIncreasing stands here for its contract (see LongestIncreasing). *)
(***************************************************************************)
EXTENDS Integers, Sequences, FiniteSetsExt

CONSTANTS Text,        \* lines
          maxLCSCells,
          Inputs       \* the pairs of lists that are compared

ASSUME DiffAssumption == /\ maxLCSCells \in Nat
                         /\ Inputs \subseteq Seq(Text) \X Seq(Text)

Op == {"equal", "delete", "insert"}
Edit == [op : Op, text : Text]

(* a[a1:a2] and b[b1:b2], half open and counted from 0 as in the code, and *)
(* what is to be done with them.                                           *)
Task == {"diff", "keep", "anchored", "lcs", "replace"}
Region == [task : Task, a1 : Nat, a2 : Nat, b1 : Nat, b2 : Nat]

VARIABLES a, b,   \* the input
          todo,   \* a stack of regions
          edits,  \* the script so far
          lines,  \* the resolved lines so far
          oi, ni  \* the cursors of ResolveLines

vars == <<a, b, todo, edits, lines, oi, ni>>
input == <<a, b>>

At(s, k) == s[k + 1]
Minimum(x, y) == IF x < y THEN x ELSE y
Maximum(x, y) == IF x < y THEN y ELSE x

Slice(task, a1, a2, b1, b2) == [task |-> task, a1 |-> a1, a2 |-> a2, b1 |-> b1, b2 |-> b2]
Width(g) == g.a2 - g.a1
Height(g) == g.b2 - g.b1
Edits(op, s, from, to) == [k \in 1..(to - from) |-> [op |-> op, text |-> At(s, from + k - 1)]]

Copied(a1, a2, b1, b2) == IF a1 = a2 THEN <<>> ELSE <<Slice("keep", a1, a2, b1, b2)>>

Top == Head(todo)
Pending(task) == todo # <<>> /\ Top.task = task
Push(regions) == todo' = regions \o Tail(todo)

-----------------------------------------------------------------------------
Init == /\ \E pair \in Inputs : a = pair[1] /\ b = pair[2]
        /\ todo = <<Slice("diff", 0, Len(a), 0, Len(b))>>
        /\ edits = <<>> /\ lines = <<>>
        /\ oi = 0 /\ ni = 0

(* The longest common prefix, and the longest common suffix of the rest.   *)
Prefix(g) == CHOOSE n \in 0..Minimum(Width(g), Height(g)) :
  /\ \A k \in 0..(n - 1) : At(a, g.a1 + k) = At(b, g.b1 + k)
  /\ n < Width(g) /\ n < Height(g) => At(a, g.a1 + n) # At(b, g.b1 + n)

Suffix(g, p) == CHOOSE n \in 0..(Minimum(Width(g), Height(g)) - p) :
  /\ \A k \in 0..(n - 1) : At(a, g.a2 - 1 - k) = At(b, g.b2 - 1 - k)
  /\ n < Width(g) - p /\ n < Height(g) - p => At(a, g.a2 - 1 - n) # At(b, g.b2 - 1 - n)

(* appendDiff: trim, and choose the way to diff the middle by its size.    *)
Trim ==
  /\ Pending("diff")
  /\ LET p == Prefix(Top)
         q == Suffix(Top, p)
         mid == Slice("lcs", Top.a1 + p, Top.a2 - q, Top.b1 + p, Top.b2 - q)
     IN  Push(Copied(Top.a1, Top.a1 + p, Top.b1, Top.b1 + p)
                \o <<IF Width(mid) * Height(mid) <= maxLCSCells THEN mid
                     ELSE [mid EXCEPT !.task = "anchored"]>>
                \o Copied(Top.a2 - q, Top.a2, Top.b2 - q, Top.b2))
  /\ UNCHANGED <<input, edits, lines, oi, ni>>

(* The lines of a common part are copied.                                  *)
Keep == /\ Pending("keep")
        /\ edits' = edits \o Edits("equal", a, Top.a1, Top.a2)
        /\ Push(<<>>)
        /\ UNCHANGED <<input, lines, oi, ni>>

(* Pairs of indices of a line that occurs exactly once on each side, and   *)
(* the longest runs of them in the order of both sides.                    *)
OnceIn(s, from, to, k) == \A j \in from..(to - 1) : At(s, j) = At(s, k) => j = k

Candidates(g) == {c \in (g.a1..(g.a2 - 1)) \X (g.b1..(g.b2 - 1)) :
                    /\ At(a, c[1]) = At(b, c[2])
                    /\ OnceIn(a, g.a1, g.a2, c[1])
                    /\ OnceIn(b, g.b1, g.b2, c[2])}

InOrder(cs) == \A c, d \in cs : c[1] < d[1] => c[2] < d[2]

Anchors(g) == {cs \in SUBSET Candidates(g) :
                 /\ InOrder(cs)
                 /\ \A ds \in SUBSET Candidates(g) : InOrder(ds) => Cardinality(ds) <= Cardinality(cs)}

Ranked(cs, n) == CHOOSE c \in cs : Cardinality({d \in cs : d[1] < c[1]}) = n - 1

(* The gap before each anchor, the anchor itself, and the gap after the    *)
(* last one.                                                               *)
Gaps(g, cs) ==
  LET n == Cardinality(cs)
      end(k) == IF k > n THEN <<g.a2, g.b2>> ELSE Ranked(cs, k)
      start(k) == IF k = 1 THEN <<g.a1, g.b1>> ELSE <<Ranked(cs, k - 1)[1] + 1, Ranked(cs, k - 1)[2] + 1>>
      gap(k) == Slice("diff", start(k)[1], end(k)[1], start(k)[2], end(k)[2])
      anchor(k) == Slice("keep", end(k)[1], end(k)[1] + 1, end(k)[2], end(k)[2] + 1)
  IN  [k \in 1..(2 * n + 1) |-> IF k % 2 = 1 THEN gap((k + 1) \div 2) ELSE anchor(k \div 2)]

(* Seeded defects stand before the definitions they replace; no            *)
(* specification uses one.                                                 *)
DefectSplitNoFallback ==
  /\ Pending("anchored")
  /\ \E cs \in Anchors(Top) : Push(Gaps(Top, cs))
  /\ UNCHANGED <<input, edits, lines, oi, ni>>

(* appendAnchored: without anchors the region is replaced wholesale.       *)
Split ==
  /\ Pending("anchored")
  /\ \E cs \in Anchors(Top) :
       Push(IF cs = {} THEN <<[Top EXCEPT !.task = "replace"]>> ELSE Gaps(Top, cs))
  /\ UNCHANGED <<input, edits, lines, oi, ni>>

Replace == /\ Pending("replace")
           /\ edits' = edits \o Edits("delete", a, Top.a1, Top.a2)
                             \o Edits("insert", b, Top.b1, Top.b2)
           /\ Push(<<>>)
           /\ UNCHANGED <<input, lines, oi, ni>>

-----------------------------------------------------------------------------
DefectTable(g) ==
  LET lcs[c \in (g.a1..g.a2) \X (g.b1..g.b2)] ==
        LET i == c[1]
            j == c[2]
        IN  IF i = g.a2 \/ j = g.b2 THEN 0
            ELSE IF At(a, i) = At(b, j) THEN lcs[<<i + 1, j + 1>>]
            ELSE Maximum(lcs[<<i + 1, j>>], lcs[<<i, j + 1>>])
  IN  lcs

(* appendLCS: lcs[<<i, j>>] is the length of a longest common subsequence  *)
(* of a[i:a2] and b[j:b2].                                                 *)
Table(g) ==
  LET lcs[c \in (g.a1..g.a2) \X (g.b1..g.b2)] ==
        LET i == c[1]
            j == c[2]
        IN  IF i = g.a2 \/ j = g.b2 THEN 0
            ELSE IF At(a, i) = At(b, j) THEN lcs[<<i + 1, j + 1>>] + 1
            ELSE Maximum(lcs[<<i + 1, j>>], lcs[<<i, j + 1>>])
  IN  lcs

Emit(op, text) == edits' = Append(edits, [op |-> op, text |-> text])

DefectDeletesNext(g) == Table(g)[<<g.a1 + 1, g.b1>>] > Table(g)[<<g.a1, g.b1 + 1>>]

DeletesNext(g) == Table(g)[<<g.a1 + 1, g.b1>>] >= Table(g)[<<g.a1, g.b1 + 1>>]

(* One iteration of its walk; the region shrinks from the front.           *)
Walk ==
  /\ Pending("lcs")
  /\ Width(Top) > 0 /\ Height(Top) > 0
  /\ LET x == At(a, Top.a1)
         y == At(b, Top.b1)
     IN  \/ /\ x = y
            /\ Emit("equal", x)
            /\ Push(<<Slice("lcs", Top.a1 + 1, Top.a2, Top.b1 + 1, Top.b2)>>)
         \/ /\ x # y /\ DeletesNext(Top)
            /\ Emit("delete", x)
            /\ Push(<<[Top EXCEPT !.a1 = @ + 1]>>)
         \/ /\ x # y /\ ~DeletesNext(Top)
            /\ Emit("insert", y)
            /\ Push(<<[Top EXCEPT !.b1 = @ + 1]>>)
  /\ UNCHANGED <<input, lines, oi, ni>>

(* What is left of one side, when the other is used up.                    *)
Flush == /\ Pending("lcs")
         /\ Width(Top) = 0 \/ Height(Top) = 0
         /\ Push(<<[Top EXCEPT !.task = "replace"]>>)
         /\ UNCHANGED <<input, edits, lines, oi, ni>>

-----------------------------------------------------------------------------
(* ResolveLines, after Diff.  An instruction's address is its index, and   *)
(* the zero address of the code is -1.                                     *)
NoAddr == -1
Line == [op : Op, old : Nat \cup {NoAddr}, new : Nat \cup {NoAddr}, text : Text]

DefectResolve ==
  /\ todo = <<>>
  /\ Len(lines) < Len(edits)
  /\ LET e == edits[Len(lines) + 1]
         old == IF e.op = "insert" THEN NoAddr ELSE oi
         new == IF e.op = "delete" THEN NoAddr ELSE ni
     IN  /\ lines' = Append(lines, [op |-> e.op, old |-> old, new |-> new, text |-> e.text])
         /\ oi' = IF e.op = "delete" THEN oi + 1 ELSE oi
         /\ ni' = IF e.op = "delete" THEN ni ELSE ni + 1
  /\ UNCHANGED <<input, todo, edits>>

Resolve ==
  /\ todo = <<>>
  /\ Len(lines) < Len(edits)
  /\ LET e == edits[Len(lines) + 1]
         old == IF e.op = "insert" THEN NoAddr ELSE oi
         new == IF e.op = "delete" THEN NoAddr ELSE ni
     IN  /\ lines' = Append(lines, [op |-> e.op, old |-> old, new |-> new, text |-> e.text])
         /\ oi' = IF e.op = "insert" THEN oi ELSE oi + 1
         /\ ni' = IF e.op = "delete" THEN ni ELSE ni + 1
  /\ UNCHANGED <<input, todo, edits>>

Next == Trim \/ Keep \/ Split \/ Replace \/ Walk \/ Flush \/ Resolve

Spec == Init /\ [][Next]_vars /\ WF_vars(Next)

-----------------------------------------------------------------------------
TypeOK == /\ <<a, b>> \in Inputs
          /\ todo \in Seq(Region)
          /\ \A k \in DOMAIN todo : /\ todo[k].a1 <= todo[k].a2 /\ todo[k].a2 <= Len(a)
                                    /\ todo[k].b1 <= todo[k].b2 /\ todo[k].b2 <= Len(b)
          /\ edits \in Seq(Edit)
          /\ lines \in Seq(Line)
          /\ oi \in 0..Len(a) /\ ni \in 0..Len(b)

Finished == todo = <<>> /\ Len(lines) = Len(edits)

(* The script rebuilds both sides, and every line that is shown carries the*)
(* addresses of the very instructions it shows, each instruction once and  *)
(* in order: ResolveLines only counts, so it relies on Diff for that; no   *)
(* region that is still to be done overlaps itself or leaves its side.     *)
ShownOld == {k \in DOMAIN lines : lines[k].op # "insert"}
ShownNew == {k \in DOMAIN lines : lines[k].op # "delete"}
LinesMatchInstructions ==
  /\ TypeOK
  /\ Finished =>
       /\ {lines[k].old : k \in ShownOld} = 0..(Len(a) - 1)
       /\ {lines[k].new : k \in ShownNew} = 0..(Len(b) - 1)
       /\ \A j, k \in ShownOld : j < k => lines[j].old < lines[k].old
       /\ \A j, k \in ShownNew : j < k => lines[j].new < lines[k].new
       /\ \A k \in ShownOld : lines[k].text = At(a, lines[k].old)
       /\ \A k \in ShownNew : lines[k].text = At(b, lines[k].new)

(* diff.go:61-62: where the exact table fits, the diff is minimal; there is*)
(* no common subsequence longer than the lines it keeps.                   *)
CommonTo(is, js) ==
  \A i \in is, j \in js :
    Cardinality({k \in is : k < i}) = Cardinality({k \in js : k < j}) => a[i] = b[j]

KeptLines == Cardinality({k \in DOMAIN edits : edits[k].op = "equal"})
FitsTable == LET g == Slice("diff", 0, Len(a), 0, Len(b))
                 p == Prefix(g)
                 q == Suffix(g, p)
             IN  (Len(a) - p - q) * (Len(b) - p - q) <= maxLCSCells

MinimalWhereExact ==
  Finished /\ FitsTable =>
    LET Longer(side) == kSubset(KeptLines + 1, DOMAIN side)
    IN  \A is \in Longer(a), js \in Longer(b) : ~CommonTo(is, js)

(* diff.go:176-177: deletes come before inserts wherever the sides diverge,*)
(* across the ways in which the regions were diffed.                       *)
DeletesBeforeInserts ==
  \A k \in 1..(Len(edits) - 1) : ~(edits[k].op = "insert" /\ edits[k + 1].op = "delete")

(* Regions shrink, so the recursion ends.                                  *)
DiffEnds == <>Finished
=============================================================================
