----------------------------- MODULE Comparison -----------------------------
(***************************************************************************)
(* ixdiff.Compare (src/ixdiff/compare.go) from two function tables to the  *)
(* Diff, and the totals taken of it.  Pairing runs as FuncPairing has it;  *)
(* MatchRenames and analyze are taken by what MatchRenames and PairAnalysis*)
(* promise, each in one step; the loop that joins them is one step a pair. *)
(* A body is known by its mnemonics, line by line, a BYTE line having none.*)
(***************************************************************************)
EXTENDS FuncPairing, SequencesExt

CONSTANTS NoName,       \* "": no rename
          PkgOf,        \* the package of a name; a number, in the names' order
          Text,         \* the normalised text of a body
          Insts,        \* its mnemonics, line by line
          Traffic,      \* its spill and slot counts
          Provable,     \* the old and new bodies RelocOnly is sure of
          Undecodable,  \* bodies that do not disassemble
          intBits       \* the width of an int on the host, 32 or 64

Counter == {"inst", "spill", "slot"}

ASSUME ComparisonAssumption ==
  /\ Insts \in [Code -> Seq(STRING)]
  /\ Traffic \in [Code -> [{"spill", "slot"} -> Nat]]
  /\ DOMAIN Text = Code
  /\ \A p \in Provable : CodeSize[p[1]] = CodeSize[p[2]]
  /\ Undecodable \subseteq Code
  /\ NoName \notin Name /\ NoFunc \notin Code
  /\ intBits \in Nat \ {0}
  /\ \A bin \in OldBinaries \cup NewBinaries :
       TextBytes(bin) < 2^(intBits - 1) /\ \A n \in Names(bin) : PkgOf[n] \in Nat

VARIABLES sameArch,  \* the two binaries have one instruction set
          stage,     \* the stage of Compare
          list,      \* the pairs after MatchRenames
          byName,    \* the analyses of the pairs that are not identical
          result,    \* Diff.pairs
          lines      \* Diff.lines: by name, the two bodies a script was made of

compareVars == <<vars, sameArch, stage, list, byName, result, lines>>

PM == INSTANCE PairModel

-----------------------------------------------------------------------------
(* OpCount: Delta, Add and Compact (src/ixdiff/opcount.go).  Delta leaves  *)
(* zeros out, Add may bring them back, Compact removes them.  Defects are  *)
(* seeded before the definitions they replace; no specification uses one.  *)
At(c, op) == IF op \in DOMAIN c THEN c[op] ELSE 0

OpDelta(o, n) ==
  [op \in {op \in DOMAIN n : n[op] # At(o, op)} \cup (DOMAIN o \ DOMAIN n) |-> At(n, op) - At(o, op)]

Add(c, other) == [op \in DOMAIN c \cup DOMAIN other |-> At(c, op) + At(other, op)]

DefectCompactNothing(c) == c
Compact(c) == [op \in {op \in DOMAIN c : c[op] # 0} |-> c[op]]

(* ops and countInsts pass over BYTE lines, which have no mnemonic.        *)
NoOp == ""
DefectCountsPadding(c) == DOMAIN Insts[c]
Counted(c) == {k \in DOMAIN Insts[c] : Insts[c][k] # NoOp}
Ops == [c \in Code |-> [op \in {Insts[c][k] : k \in Counted(c)} |->
                         Cardinality({k \in Counted(c) : Insts[c][k] = op})]]
Count == [c \in Code |-> [k \in Counter |-> IF k = "inst" THEN Cardinality(Counted(c))
                                            ELSE Traffic[c][k]]]

NoOps == <<>>
NoCount == [c \in Counter |-> 0]
OpsOf(f) == IF f = NoFunc THEN NoOps ELSE Ops[f.code]
CountOf(f) == IF f = NoFunc THEN NoCount ELSE Count[f.code]

-----------------------------------------------------------------------------
(* MatchRenames merges a removed into an added name, one to one.           *)
NamesIn(s) == {pairs[k].name : k \in {j \in DOMAIN pairs : pairs[j].state = s}}
Matches == UNION {Injection(S, NamesIn("added")) : S \in SUBSET NamesIn("removed")}

Merged(m, p) ==
  IF p.name \in Range(m)
  THEN LET from == CHOOSE r \in DOMAIN m : m[r] = p.name
       IN  [name |-> p.name, from |-> from, state |-> "changed",
            old |-> FirstDef(old, from), new |-> p.new]
  ELSE [name |-> p.name, from |-> NoName, state |-> p.state, old |-> p.old, new |-> p.new]

(* The matched removed pairs are left out.                                 *)
Folded(m) ==
  LET kept == {k \in DOMAIN pairs : pairs[k].name \notin DOMAIN m}
  IN  [k \in 1..Cardinality(kept) |-> Merged(m, pairs[Nth(kept, k)])]

(* What analyze reads of a pair, and what it makes of it.                  *)
Kind(p) ==
  [state   |-> p.state,
   oldSize |-> SizeOf(p.old),
   newSize |-> SizeOf(p.new),
   fast    |-> p.old # NoFunc /\ p.new # NoFunc /\ <<p.old.code, p.new.code>> \in Provable,
   oldOK   |-> p.old # NoFunc => p.old.code \notin Undecodable,
   newOK   |-> p.new # NoFunc => p.new.code \notin Undecodable,
   equal   |-> p.old # NoFunc /\ p.new # NoFunc /\ Text[p.old.code] = Text[p.new.code]]

Analysed(p) ==
  LET a == PM!AnalysisOf(Kind(p))
  IN  [noise |-> a.noise,
       ops   |-> IF a.counted THEN OpDelta(OpsOf(p.old), OpsOf(p.new)) ELSE NoOps,
       count |-> IF a.counted
                 THEN [c \in Counter |-> CountOf(p.new)[c] - CountOf(p.old)[c]] ELSE NoCount,
       edits |-> IF a.script THEN <<p.old.code, p.new.code>> ELSE <<>>]

NonIdentical == {k \in DOMAIN list : list[k].state # "identical"}
Named(n) == {k \in NonIdentical : list[k].name = n}
Put(f, k, v) == [x \in DOMAIN f \cup {k} |-> IF x = k THEN v ELSE f[x]]

-----------------------------------------------------------------------------
CompareInit == /\ Init
               /\ sameArch \in BOOLEAN
               /\ stage = "start"
               /\ list = <<>> /\ byName = <<>> /\ result = <<>> /\ lines = <<>>

Start == /\ stage = "start"
         /\ stage' = IF sameArch THEN "pairing" ELSE "error"
         /\ UNCHANGED <<vars, sameArch, list, byName, result, lines>>

PairUp == /\ stage = "pairing"
          /\ Next
          /\ stage' = IF pc' = "done" THEN "rename" ELSE "pairing"
          /\ UNCHANGED <<sameArch, list, byName, result, lines>>

Rename == /\ stage = "rename"
          /\ \E m \in Matches : list' = Folded(m)
          /\ stage' = "analyze"
          /\ UNCHANGED <<vars, sameArch, byName, result, lines>>

(* analyze returns the analyses of all, indexed by name, or an error.      *)
Analyze ==
  /\ stage = "analyze"
  /\ IF \E k \in NonIdentical : PM!FailingSide(Kind(list[k])) # "none"
     THEN stage' = "error" /\ UNCHANGED byName
     ELSE /\ stage' = "assemble"
          /\ byName' = [n \in {list[k].name : k \in NonIdentical} |-> Analysed(list[Max(Named(n))])]
  /\ UNCHANGED <<vars, sameArch, list, result, lines>>

-----------------------------------------------------------------------------
DefectFreshForgetsRename(fp) ==
  [name  |-> fp.name,
   from  |-> fp.from,
   old   |-> IF fp.old = NoFunc THEN NoFunc ELSE FirstDef(old, fp.name),
   new   |-> IF fp.new = NoFunc THEN NoFunc ELSE FirstDef(new, fp.name),
   state |-> fp.state,
   size  |-> SizeDelta(fp),
   ops   |-> NoOps,
   count |-> NoCount]

Fresh(fp) ==
  [name  |-> fp.name,
   from  |-> fp.from,
   old   |-> IF fp.old = NoFunc THEN NoFunc
             ELSE FirstDef(old, IF fp.from # NoName THEN fp.from ELSE fp.name),
   new   |-> IF fp.new = NoFunc THEN NoFunc ELSE FirstDef(new, fp.name),
   state |-> fp.state,
   size  |-> SizeDelta(fp),
   ops   |-> NoOps,
   count |-> NoCount]

(* The pair of the result: an analysis of noise only changes its state.    *)
Joined(fp) ==
  IF fp.name \notin DOMAIN byName THEN Fresh(fp)
  ELSE LET a == byName[fp.name]
       IN  IF a.noise THEN [Fresh(fp) EXCEPT !.state = "relocation-only"]
           ELSE [Fresh(fp) EXCEPT !.ops = a.ops, !.count = a.count]

DefectAssembleScriptOfNoise ==
  /\ stage = "assemble"
  /\ Len(result) < Len(list)
  /\ LET fp == list[Len(result) + 1]
     IN  /\ result' = Append(result, Joined(fp))
         /\ lines' = IF fp.name \in DOMAIN byName /\ fp.state = "changed"
                     THEN Put(lines, fp.name, byName[fp.name].edits) ELSE lines
  /\ UNCHANGED <<vars, sameArch, stage, list, byName>>

Assemble ==
  /\ stage = "assemble"
  /\ Len(result) < Len(list)
  /\ LET fp == list[Len(result) + 1]
     IN  /\ result' = Append(result, Joined(fp))
         /\ lines' = IF fp.name \in DOMAIN byName /\ ~byName[fp.name].noise /\ fp.state = "changed"
                     THEN Put(lines, fp.name, byName[fp.name].edits) ELSE lines
  /\ UNCHANGED <<vars, sameArch, stage, list, byName>>

Return == /\ stage = "assemble"
          /\ Len(result) = Len(list)
          /\ stage' = "done"
          /\ UNCHANGED <<vars, sameArch, list, byName, result, lines>>

CompareNext == Start \/ PairUp \/ Rename \/ Analyze \/ Assemble \/ Return

CompareSpec == CompareInit /\ [][CompareNext]_compareVars

-----------------------------------------------------------------------------
(* Diff.SizeDelta, Diff.OpDelta and PackageDeltas; writeSummary and        *)
(* writeJSONSummary sum the size and the mnemonics of every pair.          *)
SizeTotal(ps) == SumOf([k \in DOMAIN ps |-> ps[k].size])
OpTotal(ps) ==
  LET after[n \in 0..Len(ps)] ==
        IF n = 0 THEN NoOps
        ELSE IF ps[n].state # "relocation-only" THEN Add(after[n - 1], ps[n].ops) ELSE after[n - 1]
  IN  Compact(after[Len(ps)])
SummaryOps(ps) ==
  LET after[n \in 0..Len(ps)] == IF n = 0 THEN NoOps ELSE Add(after[n - 1], ps[n].ops)
  IN  Compact(after[Len(ps)])
SummaryCount(ps) == [c \in Counter |-> SumOf([k \in DOMAIN ps |-> ps[k].count[c]])]

CodeStates == {"changed", "added", "removed"}
EmptyPackage == [size |-> 0, count |-> NoCount, number |-> [s \in CodeStates |-> 0]]

DefectAccumulateOnce(d, p) ==
  [size   |-> d.size + p.size,
   count  |-> [c \in Counter |-> d.count[c] + p.count[c]],
   number |-> [d.number EXCEPT ![p.state] = 1]]

Accumulate(d, p) ==
  [size   |-> d.size + p.size,
   count  |-> [c \in Counter |-> d.count[c] + p.count[c]],
   number |-> [d.number EXCEPT ![p.state] = @ + 1]]

Gather(f, p) ==
  IF p.state \notin CodeStates THEN f
  ELSE Put(f, PkgOf[p.name],
           Accumulate(IF PkgOf[p.name] \in DOMAIN f THEN f[PkgOf[p.name]] ELSE EmptyPackage, p))

ByPackage(ps) ==
  LET after[n \in 0..Len(ps)] == IF n = 0 THEN <<>> ELSE Gather(after[n - 1], ps[n])
  IN  after[Len(ps)]

(* The packages by falling magnitude of their size change, then by name.   *)
(* Sizes are 64 bits wide; their difference is cut to the host's int.      *)
Magnitude(n) == IF n < 0 THEN -n ELSE n
Cut(n) == LET half == 2^(intBits - 1) IN ((n + half) % (2 * half)) - half

DefectBySize(x, y) == Cut(y - x)
BySize(x, y) == Cut(Magnitude(y) - Magnitude(x))

PackageDeltas(ps) ==
  LET f == ByPackage(ps)
      Before(x, y) == IF Magnitude(f[x].size) # Magnitude(f[y].size) THEN BySize(f[x].size, f[y].size) < 0
                      ELSE x < y
      order == Sorted(DOMAIN f, {e \in (DOMAIN f) \X DOMAIN f : Before(e[1], e[2])})
  IN  [k \in DOMAIN order |-> [pkg |-> order[k], delta |-> f[order[k]]]]

-----------------------------------------------------------------------------
MaybeFunc == Func \cup {NoFunc}
DiffState == {"identical", "relocation-only", "changed", "added", "removed"}

CompareTypeOK ==
  /\ TypeOK
  /\ stage \in {"start", "pairing", "rename", "analyze", "assemble", "done", "error"}
  /\ stage \notin {"start", "pairing", "error"} => pc = "done"
  /\ \A k \in DOMAIN result :
       LET p == result[k]
       IN  /\ p.state \in DiffState
           /\ p.old \in MaybeFunc /\ p.new \in MaybeFunc
           /\ \A op \in DOMAIN p.ops : p.ops[op] \in Int \ {0}
  /\ \A n \in DOMAIN lines : lines[n] \in Seq(Code)
  /\ stage = "error" => result = <<>>

Done == stage = "done"
SameText(o, n) == Text[o.code] = Text[n.code]
Proven(o, n) == <<o.code, n.code>> \in Provable

(* The states of a returned Diff mean what compare.go says of them, of the *)
(* functions the pair shows: added and removed ones have one side, a rename*)
(* shows the old function under its old name, identical ones have one name *)
(* and one body.  A pair is relocation-only iff RelocOnly, right or wrong  *)
(* (RelocWalk), is sure of it or the normalised texts agree, else changed. *)
(* The functions shown are the first of their names, in both binaries, as  *)
(* fndiff.go:75 has it; README.md:138-139 says the last.                   *)
StatesMatchFunctions ==
  /\ CompareTypeOK
  /\ Done => \A k \in DOMAIN result :
       LET p == result[k]
           oldName == IF p.from = NoName THEN p.name ELSE p.from
       IN  /\ p.old = IF p.state = "added" THEN NoFunc ELSE FirstDef(old, oldName)
           /\ p.new = IF p.state = "removed" THEN NoFunc ELSE FirstDef(new, p.name)
           /\ p.old # NoFunc \/ p.new # NoFunc
           /\ (p.old = NoFunc) = (p.state = "added")
           /\ (p.new = NoFunc) = (p.state = "removed")
           /\ p.state = "identical" => p.old = p.new
           /\ p.state = "relocation-only" => SameText(p.old, p.new) \/ Proven(p.old, p.new)
           /\ p.state = "changed" => ~SameText(p.old, p.new) /\ ~Proven(p.old, p.new)

(* A pair carries the deltas of its own two functions, though analyses are *)
(* joined to pairs by name and after renames; only changed pairs have an   *)
(* edit script, and it is of their own bodies; noise has neither.          *)
DeltasAreOwn ==
  Done =>
    /\ \A k \in DOMAIN result :
         LET p == result[k]
         IN  /\ p.size = SizeOf(p.new) - SizeOf(p.old)
             /\ \A op \in UNION {DOMAIN Ops[c] : c \in Code} :
                  At(p.ops, op) = IF p.state \in CodeStates
                                  THEN At(OpsOf(p.new), op) - At(OpsOf(p.old), op) ELSE 0
             /\ \A c \in Counter :
                  p.count[c] = IF p.state \in CodeStates
                               THEN CountOf(p.new)[c] - CountOf(p.old)[c] ELSE 0
             /\ p.state = "changed" =>
                  p.name \in DOMAIN lines /\ lines[p.name] = <<p.old.code, p.new.code>>
    /\ DOMAIN lines = {result[k].name : k \in {j \in DOMAIN result : result[j].state = "changed"}}

(* The views of one Diff agree: its size change is that of the two texts,  *)
(* also after renames; the packages account for all of it that is not      *)
(* relocation; Diff.OpDelta, which leaves relocations out, and the report, *)
(* which does not, list the same mnemonics, none of them at zero; packages *)
(* and report count the same instructions, spills and slots.               *)
RelocatedSize(ps) == SumOf([k \in DOMAIN ps |-> IF ps[k].state = "relocation-only" THEN ps[k].size ELSE 0])
PackageSum(F(_)) == LET ds == PackageDeltas(result) IN SumOf([k \in DOMAIN ds |-> F(ds[k].delta)])

TotalsAgree ==
  Done =>
    /\ SizeTotal(result) = TextBytes(new) - TextBytes(old)
    /\ SizeTotal(result) = PackageSum(LAMBDA d : d.size) + RelocatedSize(result)
    /\ OpTotal(result) = SummaryOps(result)
    /\ \A op \in DOMAIN OpTotal(result) : OpTotal(result)[op] # 0
    /\ \A c \in Counter : SummaryCount(result)[c] = PackageSum(LAMBDA d : d.count[c])

(* Packages come by falling magnitude, ties by name, each once, though they*)
(* are ranged over in a map; their functions are those with a code change. *)
PackagesInOrder ==
  Done =>
    LET ds == PackageDeltas(result)
    IN  /\ \A j, k \in DOMAIN ds : j < k =>
             \/ Magnitude(ds[j].delta.size) > Magnitude(ds[k].delta.size)
             \/ Magnitude(ds[j].delta.size) = Magnitude(ds[k].delta.size) /\ ds[j].pkg < ds[k].pkg
        /\ \A s \in CodeStates :
             PackageSum(LAMBDA d : d.number[s]) = Cardinality({k \in DOMAIN result : result[k].state = s})

-----------------------------------------------------------------------------
(* What README.md says of relocations: "they are not real changes and are  *)
(* excluded from all statistics".                                          *)
RelocationsAreNotCounted ==
  Done => SizeTotal(result) = PackageSum(LAMBDA d : d.size)
=============================================================================
