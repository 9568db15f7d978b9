------------------------------- MODULE Report -------------------------------
(***************************************************************************)
(* How the report shows the resolved lines of LineDiff (src/report.go):    *)
(* hunks of changes with context, their headers, and the rows of the       *)
(* two-column layout.  A line is its index in `lines`, and 0 is none.      *)
(***************************************************************************)
EXTENDS LineDiff, Functions

CONSTANT hunkContext  \* equal lines kept around each change; 3

ASSUME ReportAssumption == hunkContext \in Nat \ {0}

OpOf(k) == lines[k].op
Beginning(s) == SubSeq(s, 1, Minimum(Len(s), hunkContext))
Ending(s) == SubSeq(s, Maximum(1, Len(s) - hunkContext + 1), Len(s))

(* hunks, line by line: `pending` is the equal run since the last change,  *)
(* and a run too long for the context of both its ends splits the hunk.    *)
(* Defects are seeded before the definitions they replace; no              *)
(* specification uses one.                                                 *)
DefectGroup(h, k) ==
  IF OpOf(k) = "equal" THEN [h EXCEPT !.pending = Append(@, k)]
  ELSE LET split == h.cur # <<>> /\ Len(h.pending) > hunkContext
           lead == IF h.cur = <<>> \/ split THEN Ending(h.pending) ELSE h.pending
       IN  [out     |-> IF split THEN Append(h.out, h.cur \o Beginning(h.pending)) ELSE h.out,
            cur     |-> (IF split THEN <<>> ELSE h.cur) \o lead \o <<k>>,
            pending |-> <<>>]

Group(h, k) ==
  IF OpOf(k) = "equal" THEN [h EXCEPT !.pending = Append(@, k)]
  ELSE LET split == h.cur # <<>> /\ Len(h.pending) > 2 * hunkContext
           lead == IF h.cur = <<>> \/ split THEN Ending(h.pending) ELSE h.pending
       IN  [out     |-> IF split THEN Append(h.out, h.cur \o Beginning(h.pending)) ELSE h.out,
            cur     |-> (IF split THEN <<>> ELSE h.cur) \o lead \o <<k>>,
            pending |-> <<>>]

Hunks ==
  LET after[n \in 0..Len(lines)] ==
        IF n = 0 THEN [out |-> <<>>, cur |-> <<>>, pending |-> <<>>] ELSE Group(after[n - 1], n)
      h == after[Len(lines)]
  IN  IF h.cur = <<>> THEN h.out ELSE Append(h.out, h.cur \o Beginning(h.pending))

(* hunkRange: the first address of each side, found by the kind of line.   *)
Own(h, other) == {m \in DOMAIN h : OpOf(h[m]) # other}
FirstOwn(h, other) == h[Min(Own(h, other))]

HunkRange(h) ==
  [old |-> IF Own(h, "insert") = {} THEN 0 ELSE lines[FirstOwn(h, "insert")].old,
   new |-> IF Own(h, "delete") = {} THEN 0 ELSE lines[FirstOwn(h, "delete")].new]

-----------------------------------------------------------------------------
(* sideRows: equal lines share a row, deletes zip with the inserts after.  *)
RunEnd(h, k, op) == CHOOSE j \in k..(Len(h) + 1) :
                      /\ j = Len(h) + 1 \/ OpOf(h[j]) # op
                      /\ \A m \in k..(j - 1) : OpOf(h[m]) = op

DefectZipRows(dels, inss) ==
  [j \in 1..Minimum(Len(dels), Len(inss)) |-> [old |-> dels[j], new |-> inss[j]]]

ZipRows(dels, inss) ==
  [j \in 1..Maximum(Len(dels), Len(inss)) |->
     [old |-> IF j <= Len(dels) THEN dels[j] ELSE 0, new |-> IF j <= Len(inss) THEN inss[j] ELSE 0]]

Row(h, st) ==
  LET k == st.next
      d == RunEnd(h, k, "delete")
      e == RunEnd(h, d, "insert")
  IN  IF k > Len(h) THEN st
      ELSE IF OpOf(h[k]) = "equal"
      THEN [next |-> k + 1, rows |-> Append(st.rows, [old |-> h[k], new |-> h[k]])]
      ELSE [next |-> e, rows |-> st.rows \o ZipRows(SubSeq(h, k, d - 1), SubSeq(h, d, e - 1))]

SideRows(h) ==
  LET after[n \in 0..Len(h)] ==
        IF n = 0 THEN [next |-> 1, rows |-> <<>>] ELSE Row(h, after[n - 1])
  IN  after[Len(h)].rows

(* writeHunksSide's column between the two sides.                          *)
Marker(row) == IF row.old # 0 /\ OpOf(row.old) = "delete" THEN IF row.new # 0 THEN "|" ELSE "<"
               ELSE IF row.new # 0 /\ OpOf(row.new) = "insert" THEN ">" ELSE " "

-----------------------------------------------------------------------------
(* A hunk's header tells where it is on both sides, so headers ascend, and *)
(* a side is only blank (0) when the hunk has no line of it, even where    *)
(* addresses start at 0.                                                   *)
Sided(h, other) == {k \in Range(h) : OpOf(k) # other}

HeadersLocateHunks ==
  Finished =>
    \A n \in DOMAIN Hunks :
      LET r == HunkRange(Hunks[n])
          os == Sided(Hunks[n], "insert")
          ns == Sided(Hunks[n], "delete")
      IN  /\ os # {} => (\A k \in os : r.old <= lines[k].old) /\ (\E k \in os : r.old = lines[k].old)
          /\ ns # {} => (\A k \in ns : r.new <= lines[k].new) /\ (\E k \in ns : r.new = lines[k].new)
          /\ n > 1 => HunkRange(Hunks[n - 1]).old < r.old /\ HunkRange(Hunks[n - 1]).new < r.new

(* report.go:211-212: a line is shown if and only if it is a change or one *)
(* of at most hunkContext lines beside one, once and in order; lines are in*)
(* one hunk exactly if none between them is elided; headers locate them.   *)
NearChange == {k \in DOMAIN lines : \E c \in DOMAIN lines :
                 OpOf(c) # "equal" /\ k - c <= hunkContext /\ c - k <= hunkContext}

HunksShowTheChanges ==
  /\ HeadersLocateHunks
  /\ Finished =>
       /\ UNION {Range(Hunks[n]) : n \in DOMAIN Hunks} = NearChange
       /\ \A n \in DOMAIN Hunks :
            LET h == Hunks[n]
            IN  /\ h # <<>>
                /\ \A k \in 1..(Len(h) - 1) : h[k + 1] = h[k] + 1
                /\ n < Len(Hunks) => h[Len(h)] + 1 < Hunks[n + 1][1]

(* report.go:374-376 and 409-412: each column shows the lines of its side, *)
(* once and in order; and as Diff lists deletes before inserts wherever the*)
(* sides diverge, no row of a divergence is left without a partner while   *)
(* another one beside it has none on the other side.                       *)
ShowsOnce(column, own) ==
  LET shown == {k \in DOMAIN column : column[k] # 0}
  IN  /\ {column[k] : k \in shown} = own
      /\ \A j, k \in shown : j < k => column[j] < column[k]

Lone(row) == Marker(row) \in {"<", ">"}

RowsShowEachSideOnce ==
  Finished =>
    \A h \in Range(Hunks) :
      LET rows == SideRows(h)
      IN  /\ ShowsOnce([k \in DOMAIN rows |-> rows[k].old], Sided(h, "insert"))
          /\ ShowsOnce([k \in DOMAIN rows |-> rows[k].new], Sided(h, "delete"))
          /\ \A j, k \in DOMAIN rows :
               j < k /\ Lone(rows[j]) /\ Lone(rows[k]) /\ Marker(rows[j]) # Marker(rows[k]) =>
                 \E m \in j..k : Marker(rows[m]) = " "
=============================================================================
