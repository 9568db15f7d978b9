---------------------------- MODULE MatchRenames ----------------------------
(***************************************************************************)
(* fndiff.MatchRenames (src/internal/fndiff/rename.go): added and removed  *)
(* functions that are likely renames become one changed pair.  One step per*)
(* iteration of its loops; Go ranges over a map in any order, so the pass  *)
(* over canonical names takes its entries in any order.                    *)
(* The code keys its maps by *Pair; a name stands for its pair here.       *)
(***************************************************************************)
EXTENDS Renamings

CONSTANTS Name,           \* function names
          Canon,          \* canonicalName
          NoCanon,        \* the empty canonical name
          MaxCandidates,  \* maxRenameCandidates
          Inputs,         \* the lists of pairs MatchRenames may be given
          Similarities,   \* what the similar callback may hold to be similar
          NoCallback      \* a nil callback

State == {"identical", "changed", "added", "removed"}
Side == Name \cup {NoName}
Pair == [name : Name, from : Side, state : State, old : Side, new : Side]

ASSUME RenameAssumption == /\ NoName \notin Name
                           /\ MaxCandidates \in Nat
                           /\ Inputs \subseteq Seq(Pair)
                           /\ \A ps \in Inputs : FreshList(ps)
                           /\ \A s \in Similarities \ {NoCallback} : s \subseteq Name \X Name

VARIABLES pairs, similar, \* the input
          pc,             \* the pass that runs
          todo,           \* canonical names of removed functions still to look up
          r, a,           \* positions in pairs of the removed and added function tried
          matched,        \* from removed to added names
          taken,          \* added names already matched
          renamed,        \* from added names to the removed name merged in
          m,              \* position in pairs
          out             \* the result

vars == <<pairs, similar, pc, todo, r, a, matched, taken, renamed, m, out>>
input == <<pairs, similar>>

(* The code's lists of added and removed pairs, as the names in them; the  *)
(* lists are in the order of pairs.                                        *)
InState(s) == {pairs[k].name : k \in {j \in DOMAIN pairs : pairs[j].state = s}}
Added == InState("added")
Removed == InState("removed")
Candidates == Cardinality(Added) * Cardinality(Removed)

(* The names of one side that no other name of it shares its canon with.   *)
UniqueByCanon(side) == {x \in side : \A y \in side : Canon[y] = Canon[x] => y = x}

Empty == <<>>
Put(f, k, v) == [x \in DOMAIN f \cup {k} |-> IF x = k THEN v ELSE f[x]]

-----------------------------------------------------------------------------
Init == /\ pairs \in Inputs
        /\ similar \in Similarities
        /\ pc = "split"
        /\ todo = {}
        /\ r = 1 /\ a = 1 /\ m = 1
        /\ matched = Empty /\ taken = {} /\ renamed = Empty
        /\ out = <<>>

(* Without candidates on both sides the pairs are returned as they are.    *)
Split == /\ pc = "split"
         /\ IF Added = {} \/ Removed = {}
            THEN pc' = "done" /\ out' = pairs /\ UNCHANGED todo
            ELSE pc' = "canon" /\ todo' = UniqueByCanon(Removed) /\ UNCHANGED out
         /\ UNCHANGED <<input, r, a, matched, taken, renamed, m>>

(* Seeded defects stand before the actions they replace; no specification  *)
(* uses one.                                                               *)
Match(rem, add) == /\ matched' = Put(matched, rem, add)
                   /\ taken' = taken \cup {add}

(* One entry of the map of unambiguous removed names.                      *)
CanonStep ==
  /\ pc = "canon"
  /\ \E rem \in todo :
       /\ todo' = todo \ {rem}
       /\ IF Canon[rem] # NoCanon /\ \E x \in UniqueByCanon(Added) : Canon[x] = Canon[rem]
          THEN \E add \in UniqueByCanon(Added) : Canon[add] = Canon[rem] /\ Match(rem, add)
          ELSE UNCHANGED <<matched, taken>>
  /\ UNCHANGED <<input, pc, r, a, renamed, m, out>>

DefectEndCanonNoCap == /\ pc = "canon"
                       /\ todo = {}
                       /\ pc' = IF similar # NoCallback THEN "bodies" ELSE "merge"
                       /\ UNCHANGED <<input, todo, r, a, matched, taken, renamed, m, out>>

(* The quadratic pass is skipped without a callback and beyond the cap.    *)
EndCanon ==
  /\ pc = "canon"
  /\ todo = {}
  /\ pc' = IF similar # NoCallback /\ Candidates <= MaxCandidates
           THEN "bodies" ELSE "merge"
  /\ UNCHANGED <<input, todo, r, a, matched, taken, renamed, m, out>>

NextRemoved == r' = r + 1 /\ a' = 1

(* The outer loop: a function that was not removed is no candidate, a      *)
(* matched one is skipped, and one without a similar body is given up.     *)
SkipRemoved ==
  /\ pc = "bodies"
  /\ r <= Len(pairs)
  /\ \/ pairs[r].name \notin Removed
     \/ pairs[r].name \in DOMAIN matched
     \/ a > Len(pairs)
  /\ NextRemoved
  /\ UNCHANGED <<input, pc, todo, matched, taken, renamed, m, out>>

DefectTryBodyIgnoresTaken ==
  /\ pc = "bodies"
  /\ r <= Len(pairs)
  /\ a <= Len(pairs)
  /\ pairs[r].name \in Removed \ DOMAIN matched
  /\ IF pairs[a].name \in Added /\ <<pairs[r].name, pairs[a].name>> \in similar
     THEN Match(pairs[r].name, pairs[a].name) /\ NextRemoved
     ELSE a' = a + 1 /\ UNCHANGED <<r, matched, taken>>
  /\ UNCHANGED <<input, pc, todo, renamed, m, out>>

DefectTryBodyRematches ==
  /\ pc = "bodies"
  /\ r <= Len(pairs)
  /\ a <= Len(pairs)
  /\ pairs[r].name \in Removed
  /\ IF pairs[a].name \in Added \ taken /\ <<pairs[r].name, pairs[a].name>> \in similar
     THEN Match(pairs[r].name, pairs[a].name) /\ NextRemoved
     ELSE a' = a + 1 /\ UNCHANGED <<r, matched, taken>>
  /\ UNCHANGED <<input, pc, todo, renamed, m, out>>

(* The inner loop: the callback is asked about an added function nobody    *)
(* took; the first one it finds similar ends the loop.                     *)
TryBody ==
  /\ pc = "bodies"
  /\ r <= Len(pairs)
  /\ a <= Len(pairs)
  /\ pairs[r].name \in Removed \ DOMAIN matched
  /\ IF pairs[a].name \in Added \ taken /\ <<pairs[r].name, pairs[a].name>> \in similar
     THEN Match(pairs[r].name, pairs[a].name) /\ NextRemoved
     ELSE a' = a + 1 /\ UNCHANGED <<r, matched, taken>>
  /\ UNCHANGED <<input, pc, todo, renamed, m, out>>

EndBodies == /\ pc = "bodies"
             /\ r > Len(pairs)
             /\ pc' = "merge"
             /\ UNCHANGED <<input, todo, r, a, matched, taken, renamed, m, out>>

(* renamed inverts matched; were a name matched twice, the map's order     *)
(* would decide which removed function survives.                           *)
Targets == {matched[x] : x \in DOMAIN matched}
Inversions == {g \in [Targets -> DOMAIN matched] : \A x \in Targets : matched[g[x]] = x}

Merge == /\ pc = "merge"
         /\ IF matched = Empty
            THEN pc' = "done" /\ out' = pairs /\ UNCHANGED renamed
            ELSE pc' = "fold" /\ renamed' \in Inversions /\ UNCHANGED out
         /\ UNCHANGED <<input, todo, r, a, matched, taken, m>>

(* A seeded defect: a removed half that stays in the list.                 *)
DefectFoldKeepsRemoved ==
  /\ pc = "fold"
  /\ m <= Len(pairs)
  /\ m' = m + 1
  /\ LET n == pairs[m].name
     IN  out' = IF n \in DOMAIN renamed THEN Append(out, MergedPair(n, renamed[n]))
                ELSE Append(out, pairs[m])
  /\ UNCHANGED <<input, pc, todo, r, a, matched, taken, renamed>>

(* The removed half of a match is dropped, the added half replaced.        *)
FoldStep ==
  /\ pc = "fold"
  /\ m <= Len(pairs)
  /\ m' = m + 1
  /\ LET n == pairs[m].name
     IN  out' = IF n \in DOMAIN matched THEN out
                ELSE IF n \in DOMAIN renamed THEN Append(out, MergedPair(n, renamed[n]))
                ELSE Append(out, pairs[m])
  /\ UNCHANGED <<input, pc, todo, r, a, matched, taken, renamed>>

EndFold == /\ pc = "fold"
           /\ m > Len(pairs)
           /\ pc' = "done"
           /\ UNCHANGED <<input, todo, r, a, matched, taken, renamed, m, out>>

Next == \/ Split \/ CanonStep \/ EndCanon
        \/ SkipRemoved \/ TryBody \/ EndBodies
        \/ Merge \/ FoldStep \/ EndFold

Spec == Init /\ [][Next]_vars /\ WF_vars(Next)

-----------------------------------------------------------------------------
TypeOK == /\ pairs \in Inputs
          /\ similar \in Similarities
          /\ pc \in {"split", "canon", "bodies", "merge", "fold", "done"}
          /\ todo \subseteq Name
          /\ r \in Nat /\ a \in Nat /\ m \in Nat
          /\ DOMAIN matched \subseteq Name /\ \A x \in DOMAIN matched : matched[x] \in Name
          /\ taken \subseteq Name
          /\ DOMAIN renamed \subseteq Name /\ \A x \in DOMAIN renamed : renamed[x] \in Name
          /\ out \in Seq(Pair)

(* A match joins a removed function with an added one, no function is in   *)
(* two matches, and taken never falls behind matched, in either pass.      *)
MatchesAreOneToOne ==
  /\ \A x \in DOMAIN matched : x \in Removed /\ matched[x] \in Added
  /\ \A x, y \in DOMAIN matched : matched[x] = matched[y] => x = y
  /\ taken = Targets

(* No function is lost or shown twice: the result has the same functions on*)
(* the old and on the new side as its input, each once, and its names are  *)
(* unique and in the input's order.                                        *)
OldSides(ps) == {ps[k].old : k \in DOMAIN ps} \ {NoName}
NewSides(ps) == {ps[k].new : k \in DOMAIN ps} \ {NoName}
Position(n) == CHOOSE k \in DOMAIN pairs : pairs[k].name = n

NothingLost ==
  pc = "done" =>
    /\ OldSides(out) = OldSides(pairs) /\ NewSides(out) = NewSides(pairs)
    /\ \A j, k \in DOMAIN out : j < k =>
         /\ out[j].old # NoName => out[j].old # out[k].old
         /\ out[j].new # NoName => out[j].new # out[k].new
         /\ Position(out[j].name) < Position(out[k].name)

(* Unambiguous canonical names decide first, and the same way in whatever  *)
(* order the map is walked: no body match takes their place.               *)
CanonicalMatches ==
  {x \in UniqueByCanon(Removed) \X UniqueByCanon(Added) :
     Canon[x[1]] = Canon[x[2]] /\ Canon[x[1]] # NoCanon}

CanonicalNamesDecide ==
  pc \in {"bodies", "merge", "fold"} =>
    \A x \in CanonicalMatches : x[1] \in DOMAIN matched /\ matched[x[1]] = x[2]

(* The body pass is first fit: a removed function goes to the first added  *)
(* one similar to it that neither a canonical match nor an earlier removed *)
(* function has, and is left over only when there is none.                 *)
BodyPassRuns == similar # NoCallback /\ Candidates <= MaxCandidates
TakenBefore(y, x) ==
  \E z \in DOMAIN matched : /\ matched[z] = y
                            /\ <<z, y>> \in CanonicalMatches \/ Position(z) < Position(x)
Fitting(x) == {y \in Added : <<x, y>> \in similar /\ ~TakenBefore(y, x)}

BodyMatchesAreFirstFit ==
  /\ TypeOK
  /\ pc \in {"merge", "fold"} =>
       \A x \in Removed \ {c[1] : c \in CanonicalMatches} :
         IF x \in DOMAIN matched
         THEN /\ BodyPassRuns
              /\ matched[x] \in Fitting(x)
              /\ \A y \in Fitting(x) : Position(matched[x]) <= Position(y)
         ELSE BodyPassRuns => Fitting(x) = {}
=============================================================================
