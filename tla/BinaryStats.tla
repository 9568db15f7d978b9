---------------------------- MODULE BinaryStats ----------------------------
(***************************************************************************)
(* What a report on one binary counts (Funcs, TextBytes and Padding in     *)
(* src/ixdiff/ixdiff.go, writeStats in src/single.go).  A symbol table is  *)
(* in the order of addresses; its symbols may overlap, share an address or *)
(* repeat a name.  The spill and slot counts are summed as insts is.       *)
(***************************************************************************)
EXTENDS NameMatch

CONSTANTS smallGap,      \* 64: the largest gap that is alignment
          pkgRollupCap   \* the most packages listed

(* Binary.init: the first definition of each name.                         *)
Funcs(table) ==
  Chosen(table, {k \in DOMAIN table : \A j \in 1..(k - 1) : table[j].name # table[k].name})

Total(fs, field) == SumOf([k \in DOMAIN fs |-> fs[k][field]])
TextBytes(bin) == Total(Funcs(bin.table), "size")

(* Padding: the gaps between the end reached so far and the next function. *)
EndOf(f) == f.addr + f.size
Gap(s, f) == IF s.first \/ f.addr <= s.end THEN 0 ELSE f.addr - s.end

Reach(s, f) == IF EndOf(f) > s.end THEN EndOf(f) ELSE s.end

PadStep(s, f) ==
  LET gap == Gap(s, f)
      small == gap <= smallGap
  IN  [first |-> FALSE,
       end   |-> Reach(s, f),
       align |-> s.align + IF small THEN gap ELSE 0,
       large |-> s.large + IF small THEN 0 ELSE gap]

Padding(bin) ==
  LET fs == IF bin.noLayout THEN <<>> ELSE Funcs(bin.table)
      after[n \in 0..Len(fs)] == IF n = 0 THEN [first |-> TRUE, end |-> 0, align |-> 0, large |-> 0]
                                 ELSE PadStep(after[n - 1], fs[n])
  IN  [align |-> after[Len(fs)].align, large |-> after[Len(fs)].large]

(* writeStats: the packages, and the functions, by falling size.           *)
Share(fs, p, field) == SumOf([k \in DOMAIN fs |-> IF fs[k].pkg = p THEN fs[k][field] ELSE 0])
RollUp(fs) ==
  {[pkg |-> p, funcs |-> Cardinality({k \in DOMAIN fs : fs[k].pkg = p}),
    size |-> Share(fs, p, "size"), insts |-> Share(fs, p, "insts")] : p \in {fs[k].pkg : k \in DOMAIN fs}}

(* A seeded defect stands before the definition it replaces.               *)
DefectCapped(s, n) == IF Len(s) > n THEN SubSeq(s, Len(s) - n + 1, Len(s)) ELSE s
Capped(s, n) == IF Len(s) > n THEN SubSeq(s, 1, n) ELSE s

Packages(fs) ==
  LET rollup == RollUp(fs)
      Ahead(p, q) == p.size > q.size \/ (p.size = q.size /\ p.pkg < q.pkg)
  IN  Capped(Sorted(rollup, {e \in rollup \X rollup : Ahead(e[1], e[2])}), pkgRollupCap)

Largest(fs, top) ==
  LET Ahead(f, g) == f.size > g.size \/ (f.size = g.size /\ Before(f.name, g.name))
      ranked == Sorted(DOMAIN fs, {e \in (DOMAIN fs) \X DOMAIN fs : Ahead(fs[e[1]], fs[e[2]])})
  IN  Capped([k \in DOMAIN ranked |-> fs[ranked[k]]], top)
=============================================================================
