---------------------------- MODULE FuncPairing ----------------------------
(***************************************************************************)
(* fndiff.Compare (src/internal/fndiff/fndiff.go): pairing the functions of*)
(* two binaries by name, one step per iteration of its loops.              *)
(* A function is its name and its code; names are numbers, ordered as the  *)
(* strings are.  Names repeat within a binary (ABI wrappers): the first    *)
(* definition counts, as it does for objfile's Binary.Func.                *)
(***************************************************************************)
EXTENDS Lists, FiniteSetsExt, Functions

CONSTANTS Code,        \* the bodies a function can have
          CodeSize,    \* the size of each in bytes
          OldBinaries, \* the function tables to compare
          NewBinaries,
          NoFunc       \* a nil function

Name == Nat
Func == [name : Name, code : Code]

ASSUME PairingAssumption == /\ CodeSize \in [Code -> Nat]
                            /\ OldBinaries \subseteq Seq(Func)
                            /\ NewBinaries \subseteq Seq(Func)
                            /\ NoFunc \notin Func

VARIABLES old, new,  \* the function tables
          pc,        \* the loop that runs: "new", "old", then "done"
          i,         \* its position
          seen,      \* names already paired
          pairs      \* the result

vars == <<old, new, pc, i, seen, pairs>>

Names(bin) == {bin[k].name : k \in DOMAIN bin}

(* objfile.Binary.Func: the first definition of a name, nil without one.   *)
FirstDef(bin, n) ==
  IF n \in Names(bin)
  THEN bin[CHOOSE k \in DOMAIN bin : bin[k].name = n /\ \A j \in 1..(k - 1) : bin[j].name # n]
  ELSE NoFunc

State == {"identical", "changed", "added", "removed"}
Pair == [name : Name, state : State, old : Func \cup {NoFunc}, new : Func \cup {NoFunc}]

TriageState(o, n) == IF o = NoFunc THEN "added"
                     ELSE IF n = NoFunc THEN "removed"
                     ELSE IF o.code = n.code THEN "identical" ELSE "changed"

MakePair(nm, o, n) == [name |-> nm, state |-> TriageState(o, n), old |-> o, new |-> n]

-----------------------------------------------------------------------------
Init == /\ old \in OldBinaries
        /\ new \in NewBinaries
        /\ pc = "new"
        /\ i = 1
        /\ seen = {}
        /\ pairs = <<>>

(* A seeded defect, used by no specification: repeated names paired again. *)
DefectPairNewRepeats ==
  /\ pc = "new"
  /\ i <= Len(new)
  /\ i' = i + 1
  /\ seen' = seen \cup {new[i].name}
  /\ pairs' = Append(pairs, MakePair(new[i].name, FirstDef(old, new[i].name), new[i]))
  /\ UNCHANGED <<old, new, pc>>

(* An iteration of the first loop: a name of the new binary not met before *)
(* is paired with the old binary's first definition of it.                 *)
PairNew == /\ pc = "new"
           /\ i <= Len(new)
           /\ i' = i + 1
           /\ IF new[i].name \in seen
              THEN UNCHANGED <<seen, pairs>>
              ELSE /\ seen' = seen \cup {new[i].name}
                   /\ pairs' = Append(pairs, MakePair(new[i].name, FirstDef(old, new[i].name), new[i]))
           /\ UNCHANGED <<old, new, pc>>

EndNew == /\ pc = "new"
          /\ i > Len(new)
          /\ pc' = "old"
          /\ i' = 1
          /\ UNCHANGED <<old, new, seen, pairs>>

(* An iteration of the second: what only the old binary has was removed.   *)
PairOld == /\ pc = "old"
           /\ i <= Len(old)
           /\ i' = i + 1
           /\ IF FirstDef(new, old[i].name) = NoFunc /\ old[i].name \notin seen
              THEN /\ seen' = seen \cup {old[i].name}
                   /\ pairs' = Append(pairs, MakePair(old[i].name, old[i], NoFunc))
              ELSE UNCHANGED <<seen, pairs>>
           /\ UNCHANGED <<old, new, pc>>

(* slices.SortFunc by name: some reordering of the list in which no name   *)
(* comes before a smaller one.                                             *)
Ascending(s) == \A j, k \in DOMAIN s : j < k => s[j].name <= s[k].name
Reorderings(s) == {[k \in DOMAIN s |-> s[f[k]]] : f \in Bijection(DOMAIN s, DOMAIN s)}

SortByName == /\ pc = "old"
              /\ i > Len(old)
              /\ pairs' \in {s \in Reorderings(pairs) : Ascending(s)}
              /\ pc' = "done"
              /\ UNCHANGED <<old, new, i, seen>>

Next == PairNew \/ EndNew \/ PairOld \/ SortByName

Spec == Init /\ [][Next]_vars /\ WF_vars(Next)

-----------------------------------------------------------------------------
(* Pair.SizeDelta and Binary.TextBytes.                                    *)
SizeOf(f) == IF f = NoFunc THEN 0 ELSE CodeSize[f.code]
SizeDelta(p) == SizeOf(p.new) - SizeOf(p.old)
TextBytes(bin) == SumOf([k \in DOMAIN bin |-> IF \E j \in 1..(k - 1) : bin[j].name = bin[k].name
                                              THEN 0 ELSE CodeSize[bin[k].code]])

TypeOK == /\ old \in OldBinaries
          /\ new \in NewBinaries
          /\ pc \in {"new", "old", "done"}
          /\ i \in Nat \ {0}
          /\ seen \subseteq Names(old) \cup Names(new)
          /\ pairs \in Seq(Pair)

(* The result lists every name of either binary exactly once, in order,    *)
(* with the first definition on both sides and the state the two deserve,  *)
(* however often and in whatever order the tables repeat names.  Compare's *)
(* callers key their maps by these names.  The first is what fndiff.go:75  *)
(* and ixdiff.go:74 say; README.md:138-139 has the last kept, which the    *)
(* code does not do.                                                       *)
PairsByName ==
  pc = "done" =>
    /\ \A j, k \in DOMAIN pairs : j < k => pairs[j].name < pairs[k].name
    /\ {pairs[k].name : k \in DOMAIN pairs} = Names(old) \cup Names(new)
    /\ \A k \in DOMAIN pairs :
         LET n == pairs[k].name
         IN  pairs[k] = MakePair(n, FirstDef(old, n), FirstDef(new, n))
=============================================================================
