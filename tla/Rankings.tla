------------------------------ MODULE Rankings ------------------------------
(***************************************************************************)
(* What the reports show of a Diff beside its totals (src/report.go,       *)
(* src/json.go, Diff.Lines in src/ixdiff/compare.go): the ranking tables,  *)
(* the numbers of functions in each state, the listing of a pair.          *)
(***************************************************************************)
EXTENDS Comparison

SortKey == {"size", "insts", "spills", "slots"}
SortBy == SortKey \cup {"name"}

(* rankPairs: no identical pair, none outside the states asked for, none   *)
(* whose delta is zero.  Defects are seeded before the definitions they    *)
(* replace; no specification uses one.                                     *)
Delta(p, key) == CASE key = "insts"  -> p.count.inst
                   [] key = "spills" -> p.count.spill
                   [] key = "slots"  -> p.count.slot
                   [] OTHER          -> p.size

DefectKeeps(p, sortBy) == IF sortBy = "name" THEN p.size # 0 ELSE Delta(p, sortBy) # 0
Keeps(p, sortBy) == IF sortBy = "name" THEN \E key \in SortKey : Delta(p, key) # 0
                    ELSE Delta(p, sortBy) # 0

Order(p, q, sortBy) ==
  CASE sortBy = "name" -> 0
    [] sortBy = "size" -> BySize(p.size, q.size)
    [] OTHER           -> Magnitude(Delta(q, sortBy)) - Magnitude(Delta(p, sortBy))

RankPairs(ps, top, sortBy, states) ==
  LET ranked == {k \in DOMAIN ps : /\ ps[k].state # "identical" /\ ps[k].state \in states
                                   /\ Keeps(ps[k], sortBy)}
      Before(p, q) == LET d == Order(p, q, sortBy) IN d < 0 \/ (d = 0 /\ p.name < q.name)
      order == Sorted(ranked, {e \in ranked \X ranked : Before(ps[e[1]], ps[e[2]])})
  IN  [k \in 1..(IF Len(order) > top THEN top ELSE Len(order)) |-> ps[order[k]]]

(* The numbers of functions that writeSummary and writeJSONSummary print.  *)
StateCounts(ps) == [s \in DiffState |-> Cardinality({k \in DOMAIN ps : ps[k].state = s})]

-----------------------------------------------------------------------------
(* Diff.Lines: by the bodies whose lines a script deletes and inserts.     *)
(* Listings of one side are decoded anew, which can fail.                  *)
NoScript == [fails |-> FALSE, deletes |-> NoFunc, inserts |-> NoFunc]
Script(o, n) == [fails |-> FALSE, deletes |-> o, inserts |-> n]

Listing(p) ==
  LET fn == IF p.state = "removed" THEN p.old ELSE p.new
  IN  IF fn.code \in Undecodable THEN [NoScript EXCEPT !.fails = TRUE]
      ELSE IF p.state = "removed" THEN Script(fn.code, NoFunc) ELSE Script(NoFunc, fn.code)

LinesOf(p) == CASE p.state = "changed" -> Script(lines[p.name][1], lines[p.name][2])
                [] p.state \in {"added", "removed"} -> Listing(p)
                [] OTHER -> NoScript

(* funcReport, for a pair whose script and statistics are asked for.       *)
FuncReport(p) ==
  LET shown == p.state \in CodeStates
  IN  [name           |-> p.name,
       from           |-> p.from,
       state          |-> IF p.state = "relocation-only" THEN "changed" ELSE p.state,
       size           |-> p.size,
       relocationOnly |-> p.state = "relocation-only",
       count          |-> IF shown THEN p.count ELSE NoCount,
       diff           |-> IF shown THEN LinesOf(p) ELSE NoScript]

-----------------------------------------------------------------------------
(* report.go:110-112: the table has the functions asked for that changed   *)
(* in what it ranks by; what it leaves out for want of room comes after all*)
(* it shows, by magnitude and then by name, also where the host's int is as*)
(* narrow as the sizes allow.                                              *)
Ahead(p, q, sortBy) ==
  \/ sortBy # "name" /\ Magnitude(Delta(p, sortBy)) > Magnitude(Delta(q, sortBy))
  \/ /\ sortBy = "name" \/ Magnitude(Delta(p, sortBy)) = Magnitude(Delta(q, sortBy))
     /\ p.name < q.name

RankingShowsTheTop ==
  Done =>
    \A sortBy \in SortBy, top \in 0..2, states \in {DiffState, {"added"}, {"changed", "relocation-only"}} :
      LET table == RankPairs(result, top, sortBy, states)
          asked == {p \in Range(result) : /\ p.state \in states
                                          /\ \E key \in SortKey \cap {sortBy} : Delta(p, key) # 0}
      IN  /\ \A j, k \in DOMAIN table : j < k => Ahead(table[j], table[k], sortBy)
          /\ sortBy # "name" => /\ Range(table) \subseteq asked
                                /\ Len(table) = IF Cardinality(asked) > top THEN top ELSE Cardinality(asked)
                                /\ \A p \in Range(table), q \in asked \ Range(table) : Ahead(p, q, sortBy)

(* The states count every function of each binary once, renames included.  *)
CountsMatchBinaries ==
  Done =>
    LET n == StateCounts(result)
        both == n["identical"] + n["changed"] + n["relocation-only"]
    IN  /\ both + n["removed"] = Cardinality(Names(old))
        /\ both + n["added"] = Cardinality(Names(new))

(* A table with room for all accounts for the whole of each total that is  *)
(* printed above it, and the tables of single states add up to it; sorted  *)
(* by name it accounts for every total at once.  The counts above it count *)
(* the functions of the two binaries.                                      *)
ColumnSum(ps, key) == SumOf([k \in DOMAIN ps |-> Delta(ps[k], key)])
AllStates == <<"identical", "relocation-only", "changed", "added", "removed">>
Totals == [key \in SortKey |-> IF key = "size" THEN SizeTotal(result)
                               ELSE SummaryCount(result)[CASE key = "insts" -> "inst"
                                                           [] key = "spills" -> "spill"
                                                           [] key = "slots" -> "slot"]]

RankingsAccountForTotals ==
  /\ CountsMatchBinaries
  /\ Done => \A key \in SortKey :
       LET all == Len(result)
       IN  /\ ColumnSum(RankPairs(result, all, key, DiffState), key) = Totals[key]
           /\ ColumnSum(RankPairs(result, all, "name", DiffState), key) = Totals[key]
           /\ SumOf([k \in 1..5 |-> ColumnSum(RankPairs(result, all, key, {AllStates[k]}), key)])
                = Totals[key]

(* After a successful Compare the script of a pair is there without error, *)
(* it is that of the pair's own sides, and the lines it adds are the       *)
(* instruction delta reported beside it and the BYTE lines, which the delta*)
(* leaves out.                                                             *)
Side(f) == IF f = NoFunc THEN NoFunc ELSE f.code
LineCount(c) == IF c = NoFunc THEN 0 ELSE Len(Insts[c])
Padding(c) == IF c = NoFunc THEN 0 ELSE Cardinality({k \in DOMAIN Insts[c] : Insts[c][k] = NoOp})

ScriptsExplainDeltas ==
  Done =>
    \A k \in DOMAIN result :
      LET p == result[k]
          r == FuncReport(p)
      IN  /\ ~r.diff.fails
          /\ r.diff = IF p.state \in CodeStates THEN Script(Side(p.old), Side(p.new)) ELSE NoScript
          /\ LineCount(r.diff.inserts) - LineCount(r.diff.deletes)
               = r.count.inst + (Padding(r.diff.inserts) - Padding(r.diff.deletes))
=============================================================================
