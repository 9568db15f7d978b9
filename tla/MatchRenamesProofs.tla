------------------------- MODULE MatchRenamesProofs -------------------------
(***************************************************************************)
(* Rename matching loses nothing, matches one to one, lets canonical names *)
(* decide first, is first fit on bodies and comes to what Renamings allows,*)
(* for every list of pairs, every canonical naming and every callback.     *)
(***************************************************************************)
EXTENDS MatchRenames, ListProofs

Shape == /\ pairs \in Seq(Pair)
         /\ FreshList(pairs)
         /\ pc \in {"split", "canon", "bodies", "merge", "fold", "done"}
         /\ m \in Nat \ {0}
         /\ out \in Seq(Pair)

(* In the canonical pass matches are between unambiguous names of the same *)
(* canonical name, and the names still to look up have none.               *)
CanonInv ==
  /\ pc = "split" => matched = Empty /\ todo = {}
  /\ pc = "canon" =>
       /\ todo \subseteq UniqueByCanon(Removed)
       /\ \A x \in DOMAIN matched : /\ x \in UniqueByCanon(Removed) \ todo
                                    /\ matched[x] \in UniqueByCanon(Added)
                                    /\ Canon[matched[x]] = Canon[x]

(* The list so far is the image of the kept pairs before position m.       *)
Image(p) == IF p.name \in DOMAIN renamed THEN MergedPair(p.name, renamed[p.name]) ELSE p
Kept(k) == pairs[k].name \notin DOMAIN matched

Folded(o, n) ==
  /\ \A j \in DOMAIN o : \E k \in 1..n : Kept(k) /\ o[j] = Image(pairs[k])
  /\ \A k \in 1..n : Kept(k) => \E j \in DOMAIN o : o[j] = Image(pairs[k])
  /\ \A j, k \in DOMAIN o : j < k => Position(o[j].name) < Position(o[k].name)

FoldInv ==
  /\ pc \notin {"fold", "done"} => out = <<>> /\ m = 1
  /\ pc = "fold" => renamed \in Inversions /\ m <= Len(pairs) + 1 /\ Folded(out, m - 1)

IInv == Shape /\ MatchesAreOneToOne /\ CanonInv /\ FoldInv /\ NothingLost

-----------------------------------------------------------------------------
(* Names are unique, so a name has one position and one state.             *)
LEMMA PositionIs ==
  ASSUME FreshList(pairs), NEW k \in DOMAIN pairs
  PROVE  Position(pairs[k].name) = k
BY DEF FreshList, Position

LEMMA FreshSides ==
  ASSUME FreshList(pairs), NEW k \in DOMAIN pairs
  PROVE  /\ pairs[k].old \in {pairs[k].name, NoName}
         /\ pairs[k].new \in {pairs[k].name, NoName}
<1>1. pairs[k] = FreshPair(pairs[k].name, pairs[k].state)
  BY DEF FreshList
<1> QED
  BY <1>1 DEF FreshPair

LEMMA AddedNotRemoved ==
  ASSUME FreshList(pairs), NEW x \in Added PROVE x \notin Removed
<1>1. PICK k \in DOMAIN pairs : pairs[k].name = x /\ pairs[k].state = "added"
  BY DEF Added, InState
<1>2. ASSUME NEW j \in DOMAIN pairs, pairs[j].name = x PROVE pairs[j].state # "removed"
  BY <1>1, <1>2 DEF FreshList
<1> QED
  BY <1>2 DEF Removed, InState

LEMMA RemovedPair ==
  ASSUME FreshList(pairs), NEW x \in Removed
  PROVE  \E k \in DOMAIN pairs : pairs[k] = FreshPair(x, "removed")
BY DEF Removed, InState, FreshList

LEMMA AddedPair ==
  ASSUME FreshList(pairs), NEW x \in Added
  PROVE  \E k \in DOMAIN pairs : pairs[k] = FreshPair(x, "added")
BY DEF Added, InState, FreshList

(* A new match between a removed and an added function that have none      *)
(* keeps the matches one to one.                                           *)
LEMMA MatchKeepsOneToOne ==
  ASSUME MatchesAreOneToOne, NEW x \in Removed, NEW y \in Added \ taken, x \notin DOMAIN matched,
         Match(x, y), pairs' = pairs
  PROVE  MatchesAreOneToOne'
<1>1. /\ DOMAIN matched' = DOMAIN matched \cup {x}
      /\ \A z \in DOMAIN matched : matched'[z] = matched[z]
      /\ matched'[x] = y /\ taken' = taken \cup {y}
  BY DEF Match, Put
<1>2. Added' = Added /\ Removed' = Removed
  BY DEF Added, Removed, InState
<1>3. Targets' = Targets \cup {y}
  BY <1>1 DEF Targets
<1>4. \A z \in DOMAIN matched : matched[z] # y
  BY DEF MatchesAreOneToOne, Targets
<1> QED
  BY <1>1, <1>2, <1>3, <1>4 DEF MatchesAreOneToOne

-----------------------------------------------------------------------------
(* With nothing matched the input itself loses nothing.                    *)
LEMMA InputLosesNothing ==
  ASSUME Shape, out' = pairs, pairs' = pairs PROVE NothingLost'
<1>1. OldSides(out)' = OldSides(pairs)' /\ NewSides(out)' = NewSides(pairs)'
  BY DEF OldSides, NewSides
<1>2. ASSUME NEW j \in DOMAIN pairs, NEW k \in DOMAIN pairs, j < k
      PROVE  /\ pairs[j].old # NoName => pairs[j].old # pairs[k].old
             /\ pairs[j].new # NoName => pairs[j].new # pairs[k].new
             /\ Position(pairs[j].name) < Position(pairs[k].name)
  <2>1. Position(pairs[j].name) = j /\ Position(pairs[k].name) = k
    BY PositionIs DEF Shape
  <2>2. pairs[j].name # pairs[k].name
    BY <1>2, <2>1, LenProperties DEF Shape
  <2>3. /\ pairs[j].old \in {pairs[j].name, NoName} /\ pairs[j].new \in {pairs[j].name, NoName}
        /\ pairs[k].old \in {pairs[k].name, NoName} /\ pairs[k].new \in {pairs[k].name, NoName}
    BY FreshSides DEF Shape
  <2> QED
    BY <1>2, <2>1, <2>2, <2>3
<1>3. \A n : Position(n)' = Position(n)
  BY DEF Position
<1> QED
  BY <1>1, <1>2, <1>3 DEF NothingLost

(* A finished fold loses nothing.                                          *)
LEMMA FoldLosesNothing ==
  ASSUME Shape, MatchesAreOneToOne, FoldInv, pc = "fold", m > Len(pairs)
  PROVE  /\ OldSides(out) = OldSides(pairs) /\ NewSides(out) = NewSides(pairs)
         /\ \A j, k \in DOMAIN out : j < k =>
              /\ out[j].old # NoName => out[j].old # out[k].old
              /\ out[j].new # NoName => out[j].new # out[k].new
              /\ Position(out[j].name) < Position(out[k].name)
<1>0. DOMAIN pairs = 1..Len(pairs) /\ Len(pairs) \in Nat
      /\ DOMAIN out = 1..Len(out) /\ Len(out) \in Nat
  BY LenProperties DEF Shape
<1>1. 1..(m - 1) = DOMAIN pairs
  BY <1>0 DEF FoldInv, Folded, Shape
<1>2. /\ renamed \in [Targets -> DOMAIN matched]
      /\ \A x \in Targets : matched[renamed[x]] = x
  BY DEF FoldInv, Folded, Inversions
<1>3. ASSUME NEW k \in DOMAIN pairs
      PROVE  /\ pairs[k] = FreshPair(pairs[k].name, pairs[k].state)
             /\ pairs[k].name \in DOMAIN matched => pairs[k].state = "removed"
             /\ pairs[k].name \in DOMAIN renamed => pairs[k].state = "added"
  <2>1. pairs[k].name \in Removed => pairs[k].state = "removed"
    BY DEF Removed, InState, Shape, FreshList
  <2>2. pairs[k].name \in Added => pairs[k].state = "added"
    BY DEF Added, InState, Shape, FreshList
  <2> QED
    BY <1>2, <2>1, <2>2 DEF MatchesAreOneToOne, Targets, Shape, FreshList
<1>4. ASSUME NEW k \in DOMAIN pairs
      PROVE  /\ Image(pairs[k]).name = pairs[k].name
             /\ Image(pairs[k]).new = pairs[k].new
             /\ pairs[k].name \notin DOMAIN renamed => Image(pairs[k]).old = pairs[k].old
             /\ pairs[k].name \in DOMAIN renamed => Image(pairs[k]).old = renamed[pairs[k].name]
  BY <1>3 DEF Image, MergedPair, FreshPair
<1>5. NewSides(out) = NewSides(pairs)
  <2>1. ASSUME NEW j \in DOMAIN out PROVE out[j].new \in {pairs[k].new : k \in DOMAIN pairs}
    <3>1. PICK k \in DOMAIN pairs : out[j] = Image(pairs[k])
      BY <1>1 DEF FoldInv, Folded
    <3> QED
      BY <1>4, <3>1
  <2>2. ASSUME NEW k \in DOMAIN pairs, pairs[k].new # NoName
        PROVE  pairs[k].new \in {out[j].new : j \in DOMAIN out}
    <3>1. Kept(k)
      BY <1>3, <2>2 DEF Kept, FreshPair
    <3>2. PICK j \in DOMAIN out : out[j] = Image(pairs[k])
      BY <1>1, <3>1 DEF FoldInv, Folded
    <3> QED
      BY <1>4, <3>2
  <2> QED
    BY <2>1, <2>2 DEF NewSides
<1>6. OldSides(out) = OldSides(pairs)
  <2>1. ASSUME NEW j \in DOMAIN out, out[j].old # NoName
        PROVE  out[j].old \in {pairs[k].old : k \in DOMAIN pairs}
    <3>1. PICK k \in DOMAIN pairs : out[j] = Image(pairs[k])
      BY <1>1 DEF FoldInv, Folded
    <3>2. CASE pairs[k].name \notin DOMAIN renamed
      BY <1>4, <3>1, <3>2
    <3>3. CASE pairs[k].name \in DOMAIN renamed
      <4>1. out[j].old \in Removed
        BY <1>2, <1>4, <3>1, <3>3 DEF MatchesAreOneToOne
      <4>2. PICK l \in DOMAIN pairs : pairs[l] = FreshPair(out[j].old, "removed")
        BY <4>1, RemovedPair DEF Shape
      <4> QED
        BY <4>2 DEF FreshPair
    <3> QED
      BY <3>2, <3>3
  <2>2. ASSUME NEW k \in DOMAIN pairs, pairs[k].old # NoName
        PROVE  pairs[k].old \in {out[j].old : j \in DOMAIN out}
    <3>1. pairs[k].name \notin DOMAIN renamed /\ pairs[k].old = pairs[k].name
      BY <1>3, <2>2 DEF FreshPair
    <3>2. CASE Kept(k)
      <4>1. PICK j \in DOMAIN out : out[j] = Image(pairs[k])
        BY <1>1, <3>2 DEF FoldInv, Folded
      <4> QED
        BY <1>4, <3>1, <4>1
    <3>3. CASE ~Kept(k)
      <4> DEFINE x == pairs[k].name
                 y == matched[x]
      <4>1. x \in DOMAIN matched /\ y \in Targets /\ y \in Added
        BY <3>3 DEF Kept, Targets, MatchesAreOneToOne
      <4>2. renamed[y] = x /\ y \in DOMAIN renamed
        BY <1>2, <4>1 DEF MatchesAreOneToOne
      <4>3. PICK l \in DOMAIN pairs : pairs[l] = FreshPair(y, "added")
        BY <4>1, AddedPair DEF Shape
      <4>4. pairs[l].name = y
        BY <4>3 DEF FreshPair
      <4>5. Kept(l)
        BY <4>1, <4>4, AddedNotRemoved DEF Kept, MatchesAreOneToOne, Shape
      <4>6. PICK j \in DOMAIN out : out[j] = Image(pairs[l])
        BY <1>1, <4>5 DEF FoldInv, Folded
      <4> QED
        BY <1>4, <3>1, <4>2, <4>4, <4>6
    <3> QED
      BY <3>2, <3>3
  <2> QED
    BY <2>1, <2>2 DEF OldSides
<1>7. ASSUME NEW j \in DOMAIN out, NEW k \in DOMAIN out, j < k
      PROVE  /\ out[j].old # NoName => out[j].old # out[k].old
             /\ out[j].new # NoName => out[j].new # out[k].new
             /\ Position(out[j].name) < Position(out[k].name)
  <2>1. PICK p \in DOMAIN pairs : Kept(p) /\ out[j] = Image(pairs[p])
    BY <1>1 DEF FoldInv, Folded
  <2>2. PICK q \in DOMAIN pairs : Kept(q) /\ out[k] = Image(pairs[q])
    BY <1>1 DEF FoldInv, Folded
  <2>3. Position(out[j].name) < Position(out[k].name)
    BY <1>7 DEF FoldInv, Folded
  <2>4. p # q /\ pairs[p].name # pairs[q].name
    <3>1. Position(out[j].name) = p /\ Position(out[k].name) = q
      BY <1>4, <2>1, <2>2, PositionIs DEF Shape
    <3>2. p # q
      BY <1>0, <2>3, <3>1
    <3> QED
      BY <3>2 DEF Shape, FreshList
  <2>5. out[j].new # NoName => out[j].new # out[k].new
    BY <1>3, <1>4, <2>1, <2>2, <2>4 DEF FreshPair
  <2>6. out[j].old # NoName => out[j].old # out[k].old
    <3>1. \A l \in DOMAIN pairs : Kept(l) /\ pairs[l].name \notin DOMAIN renamed
            => pairs[l].old \in {pairs[l].name, NoName} \ DOMAIN matched \/ pairs[l].old = NoName
      BY <1>3 DEF Kept, FreshPair
    <3>2. CASE pairs[p].name \in DOMAIN renamed /\ pairs[q].name \in DOMAIN renamed
      BY <1>2, <1>4, <2>1, <2>2, <2>4, <3>2
    <3>3. CASE pairs[p].name \notin DOMAIN renamed /\ pairs[q].name \notin DOMAIN renamed
      BY <1>4, <2>1, <2>2, <2>4, <3>1, <3>3
    <3>4. CASE pairs[p].name \in DOMAIN renamed /\ pairs[q].name \notin DOMAIN renamed
      BY <1>2, <1>4, <2>1, <2>2, <3>1, <3>4
    <3>5. CASE pairs[p].name \notin DOMAIN renamed /\ pairs[q].name \in DOMAIN renamed
      BY <1>2, <1>4, <2>1, <2>2, <3>1, <3>5
    <3> QED
      BY <3>2, <3>3, <3>4, <3>5
  <2> QED
    BY <2>3, <2>5, <2>6
<1> QED
  BY <1>5, <1>6, <1>7

-----------------------------------------------------------------------------
LEMMA InitIInv == Init => IInv
<1> SUFFICES ASSUME Init PROVE IInv
  OBVIOUS
<1>1. DOMAIN matched = {} /\ Targets = {}
  BY DEF Init, Empty, Targets
<1>2. Shape /\ FreshList(pairs)
  BY RenameAssumption DEF Init, Shape
<1> QED
  BY <1>1, <1>2 DEF Init, IInv, MatchesAreOneToOne, CanonInv, FoldInv, NothingLost

LEMMA StutterIInv == IInv /\ UNCHANGED vars => IInv'
<1> SUFFICES ASSUME IInv, UNCHANGED vars PROVE IInv'
  OBVIOUS
<1> USE DEF vars, input, IInv
<1>1. /\ UniqueByCanon(Added)' = UniqueByCanon(Added)
      /\ UniqueByCanon(Removed)' = UniqueByCanon(Removed)
      /\ Added' = Added /\ Removed' = Removed /\ Targets' = Targets
  BY DEF UniqueByCanon, Added, Removed, InState, Targets
<1>2. Shape' /\ MatchesAreOneToOne' /\ CanonInv'
  BY <1>1 DEF Shape, MatchesAreOneToOne, CanonInv
<1>3. FoldInv'
  BY <1>1 DEF FoldInv, Folded, Inversions, Kept, Image, Position
<1>4. NothingLost'
  <2>1. /\ OldSides(out)' = OldSides(out) /\ OldSides(pairs)' = OldSides(pairs)
        /\ NewSides(out)' = NewSides(out) /\ NewSides(pairs)' = NewSides(pairs)
    BY DEF OldSides, NewSides
  <2>2. \A n : Position(n)' = Position(n)
    BY DEF Position
  <2>3. NothingLost /\ pc' = pc /\ out' = out
    OBVIOUS
  <2> QED
    BY <2>1, <2>2, <2>3 DEF NothingLost
<1> QED
  BY <1>2, <1>3, <1>4

(* The passes that only move a position or change pass leave the matches   *)
(* alone and the list empty.                                               *)
LEMMA MatchingGoesOn ==
  ASSUME IInv, UNCHANGED <<pairs, matched, taken, m, out>>, pc \in {"split", "canon", "bodies"},
         pc' \in {"bodies", "merge"}
  PROVE  IInv'
<1> USE DEF IInv
<1>1. Shape'
  BY DEF Shape
<1>2. MatchesAreOneToOne'
  BY DEF MatchesAreOneToOne, Targets, Added, Removed, InState
<1> QED
  BY <1>1, <1>2 DEF CanonInv, FoldInv, NothingLost

LEMMA SplitStep == IInv /\ Split => IInv'
<1> SUFFICES ASSUME IInv, Split PROVE IInv'
  OBVIOUS
<1> USE DEF IInv, input
<1>1. /\ pc = "split" /\ UNCHANGED <<pairs, r, a, matched, taken, renamed, m>>
      /\ \/ pc' = "done" /\ out' = pairs
         \/ pc' = "canon" /\ todo' = UniqueByCanon(Removed) /\ out' = out
  BY DEF Split
<1>2. MatchesAreOneToOne'
  BY <1>1 DEF MatchesAreOneToOne, Targets, Added, Removed, InState
<1>3. CASE pc' = "done" /\ out' = pairs
  <2>1. NothingLost'
    BY <1>1, <1>3, InputLosesNothing
  <2> QED
    BY <1>1, <1>2, <1>3, <2>1 DEF Shape, CanonInv, FoldInv
<1>4. CASE pc' = "canon" /\ todo' = UniqueByCanon(Removed) /\ out' = out
  <2>1. CanonInv'
    <3>1. DOMAIN matched = {}
      BY <1>1 DEF CanonInv, Empty
    <3> QED
      BY <1>1, <1>4, <3>1 DEF CanonInv, UniqueByCanon, Removed, InState
  <2> QED
    BY <1>1, <1>2, <1>4, <2>1 DEF Shape, FoldInv, NothingLost
<1> QED
  BY <1>1, <1>3, <1>4

LEMMA CanonStepKeeps == IInv /\ CanonStep => IInv'
<1> SUFFICES ASSUME IInv, CanonStep PROVE IInv'
  OBVIOUS
<1> USE DEF IInv, input
<1>1. pc = "canon" /\ UNCHANGED <<pairs, pc, m, out>>
  BY DEF CanonStep
<1>2. PICK rem \in todo :
        /\ todo' = todo \ {rem}
        /\ \/ UNCHANGED <<matched, taken>>
           \/ \E add \in UniqueByCanon(Added) : Canon[add] = Canon[rem] /\ Match(rem, add)
  BY DEF CanonStep
<1>3. /\ UniqueByCanon(Added)' = UniqueByCanon(Added)
      /\ UniqueByCanon(Removed)' = UniqueByCanon(Removed)
      /\ Added' = Added /\ Removed' = Removed
  BY <1>1 DEF UniqueByCanon, Added, Removed, InState
<1>4. rem \in UniqueByCanon(Removed) /\ rem \notin DOMAIN matched
  BY <1>1, <1>2 DEF CanonInv
<1>5. CASE UNCHANGED <<matched, taken>>
  <2>1. MatchesAreOneToOne' /\ CanonInv'
    BY <1>1, <1>2, <1>3, <1>5 DEF MatchesAreOneToOne, Targets, CanonInv
  <2> QED
    BY <1>1, <2>1 DEF Shape, FoldInv, NothingLost
<1>6. ASSUME NEW add \in UniqueByCanon(Added), Canon[add] = Canon[rem], Match(rem, add)
      PROVE  IInv'
  <2>1. \A x \in DOMAIN matched : matched[x] # add
    <3> SUFFICES ASSUME NEW x \in DOMAIN matched, matched[x] = add PROVE FALSE
      OBVIOUS
    <3>1. x \in UniqueByCanon(Removed) /\ Canon[x] = Canon[rem] /\ x # rem
      BY <1>1, <1>4, <1>6 DEF CanonInv
    <3> QED
      BY <1>4, <3>1 DEF UniqueByCanon
  <2>2. add \in Added \ taken /\ rem \in Removed
    BY <1>4, <2>1 DEF UniqueByCanon, MatchesAreOneToOne, Targets
  <2>3. MatchesAreOneToOne'
    BY <1>1, <1>4, <1>6, <2>2, MatchKeepsOneToOne
  <2>4. CanonInv'
    BY <1>1, <1>2, <1>3, <1>4, <1>6 DEF CanonInv, Match, Put
  <2> QED
    BY <1>1, <2>3, <2>4 DEF Shape, FoldInv, NothingLost
<1> QED
  BY <1>2, <1>5, <1>6

LEMMA TryBodyKeeps == IInv /\ TryBody => IInv'
<1> SUFFICES ASSUME IInv, TryBody PROVE IInv'
  OBVIOUS
<1> USE DEF IInv, input
<1>1. /\ pc = "bodies" /\ UNCHANGED <<pairs, pc, m, out>>
      /\ pairs[r].name \in Removed /\ pairs[r].name \notin DOMAIN matched
      /\ \/ UNCHANGED <<matched, taken>>
         \/ pairs[a].name \in Added \ taken /\ Match(pairs[r].name, pairs[a].name)
  BY DEF TryBody
<1>2. CASE UNCHANGED <<matched, taken>>
  BY <1>1, <1>2, MatchingGoesOn
<1>3. CASE pairs[a].name \in Added \ taken /\ Match(pairs[r].name, pairs[a].name)
  <2>1. MatchesAreOneToOne'
    BY <1>1, <1>3, MatchKeepsOneToOne
  <2> QED
    BY <1>1, <2>1 DEF Shape, CanonInv, FoldInv, NothingLost
<1> QED
  BY <1>1, <1>2, <1>3

LEMMA MergeStep == IInv /\ Merge => IInv'
<1> SUFFICES ASSUME IInv, Merge PROVE IInv'
  OBVIOUS
<1> USE DEF IInv, input
<1>1. /\ pc = "merge" /\ UNCHANGED <<pairs, matched, taken, m>>
      /\ out = <<>> /\ m = 1
  BY DEF Merge, FoldInv
<1>2. MatchesAreOneToOne'
  BY <1>1 DEF MatchesAreOneToOne, Targets, Added, Removed, InState
<1>3. CASE pc' = "done" /\ out' = pairs
  <2>1. NothingLost'
    BY <1>1, <1>3, InputLosesNothing
  <2> QED
    BY <1>1, <1>2, <1>3, <2>1 DEF Shape, CanonInv, FoldInv
<1>4. CASE pc' = "fold" /\ renamed' \in Inversions /\ out' = out
  <2>1. Inversions' = Inversions
    BY <1>1 DEF Inversions, Targets
  <2>2. Len(pairs) \in Nat /\ Shape'
    BY <1>1, <1>4, LenProperties DEF Shape
  <2>3. FoldInv'
    BY <1>1, <1>4, <2>1, <2>2 DEF FoldInv, Folded
  <2> QED
    BY <1>1, <1>2, <1>4, <2>2, <2>3 DEF CanonInv, NothingLost
<1> QED
  BY <1>3, <1>4 DEF Merge

LEMMA EndFoldStep == IInv /\ EndFold => IInv'
<1> SUFFICES ASSUME IInv, EndFold PROVE IInv'
  OBVIOUS
<1> USE DEF IInv, input
<1>1. pc = "fold" /\ m > Len(pairs) /\ pc' = "done" /\ UNCHANGED <<pairs, matched, taken, m, out>>
  BY DEF EndFold
<1>2. NothingLost'
  <2>1. Shape /\ MatchesAreOneToOne /\ FoldInv
    OBVIOUS
  <2>2. /\ OldSides(out)' = OldSides(out) /\ OldSides(pairs)' = OldSides(pairs)
        /\ NewSides(out)' = NewSides(out) /\ NewSides(pairs)' = NewSides(pairs)
    BY <1>1 DEF OldSides, NewSides
  <2>3. \A n : Position(n)' = Position(n)
    BY <1>1 DEF Position
  <2> QED
    BY <1>1, <2>1, <2>2, <2>3, FoldLosesNothing DEF NothingLost
<1>3. MatchesAreOneToOne'
  BY <1>1 DEF MatchesAreOneToOne, Targets, Added, Removed, InState
<1> QED
  BY <1>1, <1>2, <1>3 DEF Shape, CanonInv, FoldInv

LEMMA FoldStepKeeps == IInv /\ FoldStep => IInv'
<1> SUFFICES ASSUME IInv, FoldStep PROVE IInv'
  OBVIOUS
<1> DEFINE p == pairs[m]
<1> USE DEF IInv, input
<1>1. /\ pc = "fold" /\ pc' = "fold" /\ m \in 1..Len(pairs) /\ m' = m + 1
      /\ UNCHANGED <<pairs, matched, taken, renamed>>
      /\ Len(pairs) \in Nat /\ DOMAIN pairs = 1..Len(pairs) /\ p \in Pair
      /\ Len(out) \in Nat /\ DOMAIN out = 1..Len(out)
  <2>1. pc = "fold" /\ m <= Len(pairs) /\ m' = m + 1
        /\ UNCHANGED <<pairs, pc, matched, taken, renamed>>
    BY DEF FoldStep
  <2>2. Len(pairs) \in Nat /\ DOMAIN pairs = 1..Len(pairs)
        /\ Len(out) \in Nat /\ DOMAIN out = 1..Len(out) /\ m \in 1..Len(pairs)
    BY <2>1, LenProperties DEF Shape
  <2> QED
    BY <2>1, <2>2, ElementOfSeq DEF Shape
<1>2. MatchesAreOneToOne'
  BY <1>1 DEF MatchesAreOneToOne, Targets, Added, Removed, InState
<1>3. /\ renamed \in Inversions
      /\ \A j \in DOMAIN out : \E k \in 1..(m - 1) : Kept(k) /\ out[j] = Image(pairs[k])
      /\ \A k \in 1..(m - 1) : Kept(k) => \E j \in DOMAIN out : out[j] = Image(pairs[k])
      /\ \A j, k \in DOMAIN out : j < k => Position(out[j].name) < Position(out[k].name)
  BY <1>1 DEF FoldInv, Folded
<1>4. /\ \A k : Kept(k)' = Kept(k) /\ Image(pairs[k])' = Image(pairs[k])
      /\ \A n : Position(n)' = Position(n)
      /\ Inversions' = Inversions
      /\ \A o, n : Folded(o, n)' = Folded(o, n)
  BY <1>1 DEF Kept, Image, Position, Inversions, Targets, Folded
<1>5. 1..(m' - 1) = 1..(m - 1) \cup {m} /\ m' <= Len(pairs') + 1 /\ m' \in Nat \ {0}
  BY <1>1
<1>6. CASE ~Kept(m)
  <2>1. out' = out
    BY <1>6 DEF FoldStep, Kept
  <2>3. Folded(out, m' - 1)
    BY <1>3, <1>5, <1>6 DEF Folded
  <2>2. FoldInv'
    BY <1>1, <1>3, <1>4, <1>5, <2>1, <2>3 DEF FoldInv
  <2> QED
    BY <1>1, <1>2, <1>5, <2>1, <2>2 DEF Shape, CanonInv, NothingLost
<1>7. CASE Kept(m)
  <2>1. out' = Append(out, Image(p))
    BY <1>7 DEF FoldStep, Kept, Image
  <2>2. Image(p).name = p.name
    BY DEF Image, MergedPair
  <2>3. Image(p) \in Pair
    <3>1. renamed \in [Targets -> DOMAIN matched]
      BY <1>3 DEF Inversions
    <3>2. p.name \in Name /\ \A x \in DOMAIN matched : x \in Name
      <4>1. \A k \in DOMAIN pairs : pairs[k] \in Pair
        BY <1>1, ElementOfSeq DEF Shape
      <4> QED
        BY <1>1, <4>1 DEF Pair, MatchesAreOneToOne, Removed, InState
    <3>3. p.name \in DOMAIN renamed => renamed[p.name] \in Name
      BY <3>1, <3>2
    <3> QED
      BY <1>1, <3>2, <3>3 DEF Image, MergedPair, Pair, Side, State
  <2>4. /\ out' \in Seq(Pair) /\ Len(out') = Len(out) + 1
        /\ \A j \in 1..Len(out) : out'[j] = out[j]
        /\ out'[Len(out) + 1] = Image(p)
    BY <2>1, <2>3, AppendProperties DEF Shape
  <2>5. DOMAIN out' = DOMAIN out \cup {Len(out) + 1}
    BY <1>1, <2>4, LenProperties
  <2>6. ASSUME NEW j \in DOMAIN out'
        PROVE  \E k \in 1..(m' - 1) : Kept(k) /\ out'[j] = Image(pairs[k])
    BY <1>1, <1>3, <1>5, <1>7, <2>4, <2>5
  <2>7. ASSUME NEW k \in 1..(m' - 1), Kept(k)
        PROVE  \E j \in DOMAIN out' : out'[j] = Image(pairs[k])
    BY <1>1, <1>3, <1>5, <2>4, <2>5, <2>7
  <2>8. ASSUME NEW j \in DOMAIN out', NEW k \in DOMAIN out', j < k
        PROVE  Position(out'[j].name) < Position(out'[k].name)
    <3>1. j \in DOMAIN out
      BY <1>1, <2>5, <2>8
    <3>2. CASE k \in DOMAIN out
      BY <1>1, <1>3, <2>4, <2>8, <3>1, <3>2
    <3>3. CASE k = Len(out) + 1
      <4>1. PICK l \in 1..(m - 1) : out[j] = Image(pairs[l])
        BY <1>3, <3>1
      <4>2. l \in DOMAIN pairs /\ l < m
        BY <1>1, <4>1
      <4>3. Image(pairs[l]).name = pairs[l].name
        BY DEF Image, MergedPair
      <4>4. Position(pairs[l].name) = l /\ Position(p.name) = m
        BY <1>1, <4>2, PositionIs DEF Shape
      <4> QED
        BY <1>1, <2>2, <2>4, <3>1, <3>3, <4>1, <4>2, <4>3, <4>4
    <3> QED
      BY <2>5, <3>2, <3>3
  <2>10. Folded(out', m' - 1)
    BY <2>6, <2>7, <2>8 DEF Folded
  <2>9. FoldInv'
    BY <1>1, <1>3, <1>4, <1>5, <2>10 DEF FoldInv
  <2> QED
    BY <1>1, <1>2, <1>5, <2>4, <2>9 DEF Shape, CanonInv, NothingLost
<1> QED
  BY <1>6, <1>7

THEOREM Invariance == Spec => []IInv
<1>1. ASSUME IInv, EndCanon \/ SkipRemoved \/ EndBodies PROVE IInv'
  <2>1. /\ UNCHANGED <<pairs, matched, taken, m, out>>
        /\ pc \in {"split", "canon", "bodies"} /\ pc' \in {"bodies", "merge"}
    BY <1>1 DEF EndCanon, SkipRemoved, EndBodies, input
  <2> QED
    BY <1>1, <2>1, MatchingGoesOn
<1>2. IInv /\ [Next]_vars => IInv'
  BY <1>1, SplitStep, CanonStepKeeps, TryBodyKeeps, MergeStep, FoldStepKeeps, EndFoldStep,
     StutterIInv DEF Next
<1> QED
  BY InitIInv, <1>2, PTL DEF Spec

(* No function is matched twice, in whichever pass and map order.          *)
THEOREM RenamesAreOneToOne == Spec => []MatchesAreOneToOne
<1>1. IInv => MatchesAreOneToOne
  BY DEF IInv
<1> QED
  BY <1>1, Invariance, PTL

(* MatchRenames returns every function of its input once, in order.        *)
THEOREM RenamesLoseNothing == Spec => []NothingLost
<1>1. IInv => NothingLost
  BY DEF IInv
<1> QED
  BY <1>1, Invariance, PTL

-----------------------------------------------------------------------------
(* What the matching of names rests on: the input never changes.           *)
LEMMA InputStays ==
  ASSUME UNCHANGED input
  PROVE  /\ Added' = Added /\ Removed' = Removed
         /\ UniqueByCanon(Added)' = UniqueByCanon(Added)
         /\ UniqueByCanon(Removed)' = UniqueByCanon(Removed)
         /\ CanonicalMatches' = CanonicalMatches
         /\ BodyPassRuns' <=> BodyPassRuns
         /\ \A n : Position(n)' = Position(n)
<1>1. /\ Added' = Added /\ Removed' = Removed
      /\ UniqueByCanon(Added)' = UniqueByCanon(Added)
      /\ UniqueByCanon(Removed)' = UniqueByCanon(Removed)
  BY DEF input, Added, Removed, InState, UniqueByCanon
<1>2. CanonicalMatches' = CanonicalMatches
  BY <1>1 DEF CanonicalMatches
<1>3. BodyPassRuns' <=> BodyPassRuns
  BY <1>1 DEF BodyPassRuns, Candidates, input
<1> QED
  BY <1>1, <1>2, <1>3 DEF Position, input

(* A canonical match is made as soon as its removed name is looked up.     *)
CanonDone ==
  /\ pc \in {"bodies", "merge", "fold"} => todo = {}
  /\ pc \in {"canon", "bodies", "merge", "fold"} =>
       \A x \in CanonicalMatches :
         x[1] \in todo \/ (x[1] \in DOMAIN matched /\ matched[x[1]] = x[2])

(* A match made keeps those there are.                                     *)
LEMMA MatchKeepsCanonDone ==
  ASSUME CanonDone, UNCHANGED <<input, pc, todo>>, NEW x, NEW y, x \notin DOMAIN matched, Match(x, y)
  PROVE  CanonDone'
<1>1. /\ DOMAIN matched' = DOMAIN matched \cup {x}
      /\ \A z \in DOMAIN matched : matched'[z] = matched[z]
  BY DEF Match, Put
<1>2. CanonicalMatches' = CanonicalMatches
  BY InputStays
<1> QED
  BY <1>1, <1>2 DEF CanonDone

LEMMA CanonLookupDone ==
  ASSUME IInv, CanonDone, CanonStep PROVE CanonDone'
<1>1. UNCHANGED <<input, pc>> /\ pc = "canon"
  BY DEF CanonStep
<1>2. CanonicalMatches' = CanonicalMatches
  BY <1>1, InputStays
<1>3. PICK rem \in todo :
        /\ todo' = todo \ {rem}
        /\ IF Canon[rem] # NoCanon /\ \E x \in UniqueByCanon(Added) : Canon[x] = Canon[rem]
           THEN \E add \in UniqueByCanon(Added) : Canon[add] = Canon[rem] /\ Match(rem, add)
           ELSE UNCHANGED <<matched, taken>>
  BY DEF CanonStep
<1>4. rem \notin DOMAIN matched
  BY <1>1 DEF IInv, CanonInv
<1>5. CASE UNCHANGED <<matched, taken>> /\ \A x \in CanonicalMatches : x[1] # rem
  BY <1>1, <1>2, <1>3, <1>5 DEF CanonDone
<1>6. ASSUME NEW add \in UniqueByCanon(Added), Canon[add] = Canon[rem], Match(rem, add)
      PROVE  CanonDone'
  <2>1. /\ DOMAIN matched' = DOMAIN matched \cup {rem} /\ matched'[rem] = add
        /\ \A z \in DOMAIN matched : matched'[z] = matched[z]
    BY <1>4, <1>6 DEF Match, Put
  <2>2. \A x \in CanonicalMatches : x[1] = rem => x[2] = add
    BY <1>6 DEF CanonicalMatches, UniqueByCanon
  <2> QED
    BY <1>1, <1>2, <1>3, <1>4, <2>1, <2>2 DEF CanonDone
<1>7. (\A x \in UniqueByCanon(Added) : Canon[rem] = NoCanon \/ Canon[x] # Canon[rem])
        => \A x \in CanonicalMatches : x[1] # rem
  BY DEF CanonicalMatches
<1> QED
  BY <1>3, <1>5, <1>6, <1>7

LEMMA CanonDoneHolds == Spec => []CanonDone
<1>1. Init => CanonDone
  BY DEF Init, CanonDone
<1>2. IInv /\ CanonDone /\ [Next]_vars => CanonDone'
  <2> SUFFICES ASSUME IInv, CanonDone, [Next]_vars PROVE CanonDone'
    OBVIOUS
  <2>1. CASE Split
    <3>1. UNCHANGED input /\ pc' \in {"done", "canon"}
          /\ (pc' = "canon" => todo' = UniqueByCanon(Removed))
      BY <2>1 DEF Split
    <3> QED
      BY <3>1, InputStays DEF CanonDone, CanonicalMatches
  <2>2. CASE CanonStep
    BY <2>2, CanonLookupDone
  <2>3. CASE TryBody
    <3>1. UNCHANGED <<input, pc, todo>> /\ pairs[r].name \notin DOMAIN matched
          /\ (UNCHANGED <<matched, taken>> \/ Match(pairs[r].name, pairs[a].name))
      BY <2>3 DEF TryBody
    <3>2. CASE Match(pairs[r].name, pairs[a].name)
      BY <3>1, <3>2, MatchKeepsCanonDone
    <3>3. CASE UNCHANGED <<matched, taken>>
      BY <3>1, <3>3, InputStays DEF CanonDone
    <3> QED
      BY <3>1, <3>2, <3>3
  <2>4. CASE EndCanon
    <3>1. UNCHANGED <<input, todo, matched>> /\ todo = {} /\ pc = "canon"
      BY <2>4 DEF EndCanon
    <3> QED
      BY <3>1, InputStays DEF CanonDone
  <2>5. CASE SkipRemoved \/ EndBodies \/ Merge \/ FoldStep \/ EndFold \/ UNCHANGED vars
    <3>1. UNCHANGED <<input, todo, matched>>
      BY <2>5 DEF SkipRemoved, EndBodies, Merge, FoldStep, EndFold, vars, input
    <3>2. \/ pc' = "done" \/ pc' = pc
          \/ pc \in {"bodies", "merge", "fold"} /\ pc' \in {"bodies", "merge", "fold"}
      BY <2>5 DEF SkipRemoved, EndBodies, Merge, FoldStep, EndFold, vars
    <3> QED
      BY <3>1, <3>2, InputStays DEF CanonDone
  <2> QED
    BY <2>1, <2>2, <2>3, <2>4, <2>5 DEF Next
<1> QED
  BY <1>1, <1>2, Invariance, PTL DEF Spec

(* Unambiguous canonical names decide before bodies, in any map order.     *)
THEOREM CanonicalNamesAlwaysDecide == Spec => []CanonicalNamesDecide
<1>1. CanonDone => CanonicalNamesDecide
  BY DEF CanonDone, CanonicalNamesDecide
<1> QED
  BY <1>1, CanonDoneHolds, PTL

-----------------------------------------------------------------------------
(* Names have positions, and a position its name.                          *)
LEMMA NamePosition ==
  ASSUME Shape, NEW x \in Added \cup Removed
  PROVE  Position(x) \in 1..Len(pairs) /\ pairs[Position(x)].name = x /\ Len(pairs) \in Nat
<1>1. PICK k \in DOMAIN pairs : pairs[k].name = x
  BY DEF Added, Removed, InState
<1>2. Position(x) = k
  BY <1>1, PositionIs DEF Shape
<1> QED
  BY <1>1, <1>2, LenProperties DEF Shape

(* The removed functions that no canonical match decides.                  *)
Undecided == Removed \ {c[1] : c \in CanonicalMatches}

FirstFitAt(x) == IF x \in DOMAIN matched
                 THEN /\ matched[x] \in Fitting(x)
                      /\ \A y \in Fitting(x) : Position(matched[x]) <= Position(y)
                 ELSE Fitting(x) = {}

(* The body pass has settled the removed functions before r, and found none*)
(* before a that fits the one at r; other matches are canonical.           *)
FirstFitInv ==
  /\ pc \in {"split", "canon"} => r = 1 /\ a = 1
  /\ pc = "canon" => \A z \in DOMAIN matched : <<z, matched[z]>> \in CanonicalMatches
  /\ pc = "bodies" =>
       /\ BodyPassRuns /\ r # 0 /\ a # 0
       /\ \A z \in DOMAIN matched : <<z, matched[z]>> \in CanonicalMatches \/ Position(z) < r
       /\ \A x \in Undecided : /\ Position(x) < r => FirstFitAt(x)
                               /\ Position(x) = r => \A y \in Fitting(x) : a <= Position(y)
  /\ pc \in {"merge", "fold"} =>
       \A x \in Undecided : IF x \in DOMAIN matched THEN BodyPassRuns /\ FirstFitAt(x)
                            ELSE BodyPassRuns => FirstFitAt(x)

LEMMA MatchesStay ==
  ASSUME UNCHANGED <<input, matched>>
  PROVE  /\ Undecided' = Undecided
         /\ \A x : FirstFitAt(x)' <=> FirstFitAt(x)
         /\ \A x : Fitting(x)' = Fitting(x)
<1>1. \A x, y : TakenBefore(y, x)' <=> TakenBefore(y, x)
  <2>1. CanonicalMatches' = CanonicalMatches /\ \A n : Position(n)' = Position(n)
    BY InputStays
  <2> SUFFICES ASSUME NEW x, NEW y PROVE TakenBefore(y, x)' <=> TakenBefore(y, x)
    OBVIOUS
  <2>2. \A z : (<<z, y>> \in CanonicalMatches)' <=> <<z, y>> \in CanonicalMatches
    BY <2>1
  <2>3. \A z : (Position(z) < Position(x))' <=> Position(z) < Position(x)
    BY <2>1
  <2> QED
    BY <2>2, <2>3 DEF TakenBefore
<1>2. \A x : Fitting(x)' = Fitting(x)
  BY <1>1, InputStays DEF Fitting, input
<1> QED
  BY <1>2, InputStays DEF Undecided, FirstFitAt

(* A match of the function at r changes nothing for those up to it.        *)
LEMMA LaterMatch ==
  ASSUME UNCHANGED input, NEW x, NEW y, x \notin DOMAIN matched, Match(x, y),
         \A c \in CanonicalMatches : c[1] # x, NEW z, ~(Position(x) < Position(z))
  PROVE  Fitting(z)' = Fitting(z)
<1>1. /\ DOMAIN matched' = DOMAIN matched \cup {x}
      /\ \A u \in DOMAIN matched : matched'[u] = matched[u]
  BY DEF Match, Put
<1>2. \A u : TakenBefore(u, z)' <=> TakenBefore(u, z)
  <2>1. CanonicalMatches' = CanonicalMatches /\ \A n : Position(n)' = Position(n)
    BY InputStays
  <2> SUFFICES ASSUME NEW u PROVE TakenBefore(u, z)' <=> TakenBefore(u, z)
    OBVIOUS
  <2>2. \A v : (<<v, u>> \in CanonicalMatches)' <=> <<v, u>> \in CanonicalMatches
    BY <2>1
  <2>3. \A v : (Position(v) < Position(z))' <=> Position(v) < Position(z)
    BY <2>1
  <2>4. <<x, u>> \notin CanonicalMatches
    OBVIOUS
  <2> QED
    BY <1>1, <2>2, <2>3, <2>4 DEF TakenBefore
<1> QED
  BY <1>2, InputStays DEF Fitting, input

(* In the body pass everything taken was taken before the function at r.   *)
LEMMA TakenIsBefore ==
  ASSUME IInv, FirstFitInv, pc = "bodies", NEW x \in Removed, Position(x) = r, NEW y \in Added
  PROVE  y \in taken <=> TakenBefore(y, x)
BY DEF IInv, FirstFitInv, MatchesAreOneToOne, Targets, TakenBefore

LEMMA BodyStepKeepsFit ==
  ASSUME IInv, TypeOK, CanonDone, FirstFitInv, TryBody PROVE FirstFitInv'
<1> DEFINE x == pairs[r].name
           y == pairs[a].name
<1>1. /\ UNCHANGED <<input, pc>> /\ pc = "bodies" /\ r <= Len(pairs) /\ a <= Len(pairs)
      /\ x \in Removed /\ x \notin DOMAIN matched
      /\ IF y \in Added \ taken /\ <<x, y>> \in similar
         THEN Match(x, y) /\ NextRemoved
         ELSE a' = a + 1 /\ UNCHANGED <<r, matched, taken>>
  BY DEF TryBody
<1>2. /\ BodyPassRuns /\ BodyPassRuns'
      /\ \A z \in DOMAIN matched : <<z, matched[z]>> \in CanonicalMatches \/ Position(z) < r
      /\ \A z \in Undecided : /\ Position(z) < r => FirstFitAt(z)
                              /\ Position(z) = r => \A u \in Fitting(z) : a <= Position(u)
  BY <1>1, InputStays DEF FirstFitInv
<1>3. \A c \in CanonicalMatches : c[1] # x
  BY <1>1 DEF CanonDone
<1>4. x \in Undecided
  BY <1>1, <1>3 DEF Undecided
<1>5. Shape /\ r \in Nat /\ a \in Nat /\ \A z \in Removed \cup Added : Position(z) \in Nat \ {0}
  BY NamePosition DEF IInv, TypeOK
<1>6. /\ r # 0 /\ a # 0 /\ r \in DOMAIN pairs /\ a \in DOMAIN pairs
      /\ Position(x) = r /\ Position(y) = a
  <2>1. r # 0 /\ a # 0
    BY <1>1 DEF FirstFitInv
  <2>2. r \in DOMAIN pairs /\ a \in DOMAIN pairs
    BY <1>1, <1>5, <2>1, LenProperties DEF Shape
  <2> QED
    BY <1>5, <2>1, <2>2, PositionIs DEF Shape
<1>7. \A z \in Removed \cup Added : /\ Position(z) = r => z = x
                                    /\ Position(z) = a => z = y
  BY <1>5, NamePosition
<1>8. \A z : Fitting(z) \subseteq Added
  BY DEF Fitting
<1>9. CASE y \in Added \ taken /\ <<x, y>> \in similar
  <2>1. Match(x, y) /\ r' = r + 1 /\ a' = 1
    BY <1>1, <1>9 DEF NextRemoved
  <2>2. /\ DOMAIN matched' = DOMAIN matched \cup {x} /\ matched'[x] = y
        /\ \A z \in DOMAIN matched : matched'[z] = matched[z]
    BY <1>1, <2>1 DEF Match, Put
  <2>3. \A z \in DOMAIN matched' : <<z, matched'[z]>> \in CanonicalMatches \/ Position(z) < r + 1
    BY <1>2, <1>5, <1>6, <2>2 DEF IInv, MatchesAreOneToOne
  <2>4. ASSUME NEW z \in Undecided, Position(z) < r + 1 PROVE FirstFitAt(z)'
    <3>1. z \in Removed /\ Position(z) \in Nat
      BY <1>5 DEF Undecided
    <3>2. Fitting(z)' = Fitting(z)
      BY <1>1, <1>3, <1>5, <1>6, <2>1, <2>4, <3>1, LaterMatch
    <3>3. CASE Position(z) < r
      <4>1. FirstFitAt(z) /\ z # x
        BY <1>2, <1>5, <1>6, <3>3
      <4> QED
        BY <2>2, <3>2, <4>1, <1>1, InputStays DEF FirstFitAt
    <3>4. CASE z = x
      <4>1. y \in Fitting(x)
        BY <1>1, <1>6, <1>9, TakenIsBefore DEF Fitting
      <4>2. \A u \in Fitting(x) : Position(y) <= Position(u)
        BY <1>2, <1>4, <1>6
      <4> QED
        BY <1>1, <2>2, <3>2, <3>4, <4>1, <4>2, InputStays DEF FirstFitAt
    <3> QED
      BY <1>5, <1>7, <2>4, <3>1, <3>3, <3>4
  <2>5. ASSUME NEW z, NEW u \in Fitting(z)' PROVE 1 <= Position(u)
    <3>1. u \in Added
      BY <1>1, <2>5, InputStays DEF Fitting
    <3> QED
      BY <1>5, <3>1
  <2> QED
    BY <1>1, <1>2, <1>5, <2>1, <2>3, <2>4, <2>5, InputStays DEF FirstFitInv, Undecided
<1>10. CASE ~(y \in Added \ taken /\ <<x, y>> \in similar)
  <2>1. a' = a + 1 /\ UNCHANGED <<r, matched>>
    BY <1>1, <1>10
  <2>2. y \notin Fitting(x)
    BY <1>1, <1>6, <1>10, TakenIsBefore DEF Fitting
  <2>3. \A z \in Undecided : Position(z) = r => \A u \in Fitting(z) : a + 1 <= Position(u)
    <3> SUFFICES ASSUME NEW z \in Undecided, Position(z) = r, NEW u \in Fitting(z)
                 PROVE  a + 1 <= Position(u)
      OBVIOUS
    <3>1. z = x /\ u \in Added /\ a <= Position(u)
      BY <1>2, <1>7, <1>8 DEF Undecided
    <3>2. Position(u) # a
      BY <1>7, <2>2, <3>1
    <3> QED
      BY <1>5, <3>1, <3>2
  <2> QED
    BY <1>1, <1>2, <1>5, <1>6, <2>1, <2>3, MatchesStay, InputStays DEF FirstFitInv
<1> QED
  BY <1>9, <1>10

LEMMA SkipKeepsFit ==
  ASSUME IInv, TypeOK, CanonDone, FirstFitInv, SkipRemoved PROVE FirstFitInv'
<1> DEFINE x == pairs[r].name
<1>1. /\ UNCHANGED <<input, pc, matched>> /\ pc = "bodies" /\ r <= Len(pairs)
      /\ r' = r + 1 /\ a' = 1
      /\ x \notin Removed \/ x \in DOMAIN matched \/ a > Len(pairs)
  BY DEF SkipRemoved, NextRemoved
<1>2. /\ BodyPassRuns /\ BodyPassRuns'
      /\ \A z \in DOMAIN matched : <<z, matched[z]>> \in CanonicalMatches \/ Position(z) < r
      /\ \A z \in Undecided : /\ Position(z) < r => FirstFitAt(z)
                              /\ Position(z) = r => \A u \in Fitting(z) : a <= Position(u)
  BY <1>1, InputStays DEF FirstFitInv
<1>3. /\ Shape /\ r \in Nat /\ a \in Nat /\ Len(pairs) \in Nat
      /\ \A z \in Removed \cup Added : Position(z) \in 1..Len(pairs) /\ pairs[Position(z)].name = z
  BY NamePosition, LenProperties DEF IInv, TypeOK, Shape
<1>4. \A z : Fitting(z) \subseteq Added
  BY DEF Fitting
<1>5. ASSUME NEW z \in Undecided, Position(z) = r PROVE FirstFitAt(z)
  <2>1. z \in Removed /\ z = x /\ \A c \in CanonicalMatches : c[1] # z
    BY <1>3, <1>5 DEF Undecided
  <2>2. z \notin DOMAIN matched
    <3> SUFFICES ASSUME z \in DOMAIN matched, <<z, matched[z]>> \in CanonicalMatches PROVE FALSE
      BY <1>2, <1>3, <1>5
    <3> QED
      BY <2>1
  <2>3. \A u \in Fitting(z) : a <= Position(u) /\ Position(u) \in 1..Len(pairs) /\ a > Len(pairs)
    BY <1>1, <1>2, <1>3, <1>4, <1>5, <2>1, <2>2
  <2> QED
    BY <1>3, <2>2, <2>3 DEF FirstFitAt
<1>6. \A z \in Undecided : Position(z) < r + 1 => FirstFitAt(z)
  <2>1. \A z \in Undecided : Position(z) \in 1..Len(pairs)
    BY <1>3 DEF Undecided
  <2> QED
    BY <1>2, <1>3, <1>5, <2>1
<1>7. \A z : \A u \in Fitting(z) : 1 <= Position(u)
  BY <1>3, <1>4
<1>8. \A z \in DOMAIN matched : <<z, matched[z]>> \in CanonicalMatches \/ Position(z) < r + 1
  BY <1>2, <1>3 DEF IInv, MatchesAreOneToOne
<1> QED
  BY <1>1, <1>2, <1>3, <1>6, <1>7, <1>8, MatchesStay, InputStays DEF FirstFitInv

LEMMA CanonKeepsFit ==
  ASSUME IInv, FirstFitInv, CanonStep PROVE FirstFitInv'
<1>1. UNCHANGED <<input, pc, r, a>> /\ pc = "canon"
  BY DEF CanonStep
<1>2. PICK rem \in todo :
        \/ UNCHANGED matched
        \/ \E add \in UniqueByCanon(Added) :
             Canon[add] = Canon[rem] /\ Canon[rem] # NoCanon /\ Match(rem, add)
  BY DEF CanonStep
<1>3. rem \in UniqueByCanon(Removed) /\ rem \notin DOMAIN matched
  BY <1>1 DEF IInv, CanonInv
<1>4. CASE UNCHANGED matched
  BY <1>1, <1>4, InputStays DEF FirstFitInv
<1>5. ASSUME NEW add \in UniqueByCanon(Added), Canon[add] = Canon[rem], Canon[rem] # NoCanon,
             Match(rem, add)
      PROVE  FirstFitInv'
  <2>1. /\ DOMAIN matched' = DOMAIN matched \cup {rem} /\ matched'[rem] = add
        /\ \A z \in DOMAIN matched : matched'[z] = matched[z]
    BY <1>3, <1>5 DEF Match, Put
  <2>2. <<rem, add>> \in CanonicalMatches
    BY <1>3, <1>5 DEF CanonicalMatches
  <2> QED
    BY <1>1, <2>1, <2>2, InputStays DEF FirstFitInv
<1> QED
  BY <1>2, <1>4, <1>5

LEMMA EndCanonKeepsFit ==
  ASSUME IInv, FirstFitInv, EndCanon PROVE FirstFitInv'
<1>1. /\ UNCHANGED <<input, r, a, matched>> /\ pc = "canon" /\ r = 1 /\ a = 1
      /\ pc' = IF BodyPassRuns THEN "bodies" ELSE "merge"
      /\ \A z \in DOMAIN matched : <<z, matched[z]>> \in CanonicalMatches
  BY DEF EndCanon, BodyPassRuns, FirstFitInv
<1>2. \A z \in Removed \cup Added : Position(z) \in 1..Len(pairs) /\ Len(pairs) \in Nat
  BY NamePosition DEF IInv
<1>3. ASSUME NEW z \in Undecided PROVE z \in Removed /\ z \notin DOMAIN matched
  <2>1. z \in Removed /\ \A c \in CanonicalMatches : c[1] # z
    BY DEF Undecided
  <2>2. <<z, matched[z]>> \notin CanonicalMatches
    BY <2>1
  <2> QED
    BY <1>1, <2>1, <2>2
<1>4. \A z : \A u \in Fitting(z) : 1 <= Position(u)
  BY <1>2 DEF Fitting
<1>5. \A z \in Undecided : ~(Position(z) < 1)
  BY <1>2, <1>3
<1> QED
  BY <1>1, <1>3, <1>4, <1>5, MatchesStay, InputStays DEF FirstFitInv

LEMMA EndBodiesKeepsFit ==
  ASSUME IInv, FirstFitInv, TypeOK, EndBodies PROVE FirstFitInv'
<1>1. /\ UNCHANGED <<input, matched>> /\ pc = "bodies" /\ pc' = "merge" /\ r > Len(pairs)
  BY DEF EndBodies
<1>2. \A z \in Undecided : Position(z) \in 1..Len(pairs) /\ Len(pairs) \in Nat /\ r \in Nat
  BY NamePosition DEF IInv, Undecided, TypeOK
<1>3. BodyPassRuns /\ \A z \in Undecided : FirstFitAt(z)
  BY <1>1, <1>2 DEF FirstFitInv
<1> QED
  BY <1>1, <1>3, MatchesStay, InputStays DEF FirstFitInv

LEMMA TypesStay == IInv /\ IInv' /\ TypeOK /\ [Next]_vars => TypeOK'
<1> SUFFICES ASSUME IInv, IInv', TypeOK, [Next]_vars PROVE TypeOK'
  OBVIOUS
<1>1. UNCHANGED input /\ pairs' \in Inputs /\ similar' \in Similarities
  BY DEF TypeOK, Next, Split, CanonStep, EndCanon, SkipRemoved, TryBody, EndBodies, Merge,
         FoldStep, EndFold, vars, input
<1>2. \A x \in Removed \cup Added : x \in Name
  <2>1. \A k \in DOMAIN pairs : pairs[k] \in Pair
    BY ElementOfSeq, LenProperties DEF IInv, Shape
  <2> QED
    BY <2>1 DEF Removed, Added, InState, Pair
<1>3. Removed' = Removed /\ Added' = Added
  BY <1>1, InputStays
<1>4. DOMAIN matched' \subseteq Name /\ \A x \in DOMAIN matched' : matched'[x] \in Name
  BY <1>2, <1>3 DEF IInv, MatchesAreOneToOne
<1>5. taken' \subseteq Name
  BY <1>4 DEF IInv, MatchesAreOneToOne, Targets
<1>6. todo' \subseteq Name
  <2>1. todo' \subseteq todo \cup Removed
    BY DEF Next, Split, CanonStep, EndCanon, SkipRemoved, TryBody, EndBodies, Merge,
           FoldStep, EndFold, vars, UniqueByCanon
  <2> QED
    BY <1>2, <2>1 DEF TypeOK
<1>7. r' \in Nat /\ a' \in Nat
  BY DEF TypeOK, Next, Split, CanonStep, EndCanon, SkipRemoved, TryBody, EndBodies, Merge,
         FoldStep, EndFold, vars, NextRemoved
<1>8. DOMAIN renamed' \subseteq Name /\ \A x \in DOMAIN renamed' : renamed'[x] \in Name
  <2>1. renamed' = renamed \/ renamed' \in [Targets -> DOMAIN matched]
    BY DEF Next, Split, CanonStep, EndCanon, SkipRemoved, TryBody, EndBodies, Merge,
           FoldStep, EndFold, vars, Inversions
  <2>2. DOMAIN matched \subseteq Name /\ Targets \subseteq Name
    BY DEF TypeOK, Targets
  <2> QED
    BY <2>1, <2>2 DEF TypeOK
<1> QED
  BY <1>1, <1>4, <1>5, <1>6, <1>7, <1>8 DEF TypeOK, IInv, Shape

LEMMA FirstFitHolds == Spec => [](TypeOK /\ FirstFitInv)
<1>1. Init => TypeOK /\ FirstFitInv
  <2> SUFFICES ASSUME Init PROVE TypeOK /\ FirstFitInv
    OBVIOUS
  <2>1. DOMAIN matched = {} /\ DOMAIN renamed = {} /\ <<>> \in Seq(Pair)
    BY DEF Init, Empty
  <2> QED
    BY <2>1 DEF Init, TypeOK, FirstFitInv
<1>2. IInv /\ IInv' /\ CanonDone /\ (TypeOK /\ FirstFitInv) /\ [Next]_vars => (TypeOK /\ FirstFitInv)'
  <2> SUFFICES ASSUME IInv, IInv', CanonDone, TypeOK, FirstFitInv, [Next]_vars PROVE FirstFitInv'
    BY TypesStay
  <2>1. CASE Split
    <3>1. pc = "split" /\ UNCHANGED <<r, a, matched>> /\ pc' \in {"done", "canon"}
      BY <2>1 DEF Split
    <3>2. DOMAIN matched = {}
      BY <3>1 DEF IInv, CanonInv, Empty
    <3> QED
      BY <3>1, <3>2 DEF FirstFitInv
  <2>2. CASE Merge \/ FoldStep \/ EndFold
    <3>1. /\ UNCHANGED <<input, matched>> /\ pc \in {"merge", "fold"}
          /\ pc' \in {"merge", "fold", "done"}
      BY <2>2 DEF Merge, FoldStep, EndFold
    <3> QED
      BY <3>1, MatchesStay, InputStays DEF FirstFitInv
  <2>3. CASE UNCHANGED vars
    <3>1. UNCHANGED <<input, matched>> /\ UNCHANGED <<pc, r, a>>
      BY <2>3 DEF vars, input
    <3> QED
      BY <3>1, MatchesStay, InputStays DEF FirstFitInv
  <2> QED
    BY <2>1, <2>2, <2>3, CanonKeepsFit, EndCanonKeepsFit, SkipKeepsFit, BodyStepKeepsFit,
       EndBodiesKeepsFit DEF Next
<1> QED
  BY <1>1, <1>2, Invariance, CanonDoneHolds, PTL DEF Spec

(* Every removed function that canonical names leave open goes to the first*)
(* added one that fits it, for every callback; beyond the cap to none.     *)
THEOREM RenamesAreFirstFit == Spec => []BodyMatchesAreFirstFit
<1>1. TypeOK /\ FirstFitInv => BodyMatchesAreFirstFit
  BY DEF FirstFitInv, FirstFitAt, Undecided, BodyMatchesAreFirstFit
<1> QED
  BY <1>1, FirstFitHolds, PTL

-----------------------------------------------------------------------------
(* What Comparison takes the renaming to be, one step there: a one-to-one  *)
(* matching of removed with added names decides the whole list.            *)
ComesToRenaming == pc = "done" => \E f \in Matchings(pairs) : out = Renaming(pairs, f)

IsFunction == matched = [x \in DOMAIN matched |-> matched[x]]
Decided == IsFunction /\ (pc = "done" => out = Renaming(pairs, matched))

(* A list that climbs through the pairs left is the renaming.              *)
LEMMA ClimbIsRenaming ==
  ASSUME Shape, NEW ps \in Seq(Pair), NEW g, Climbs(KeptBy(pairs, matched), Len(ps), g),
         \A k \in DOMAIN ps : ps[k] = MergedBy(matched, pairs[g[k]])
  PROVE  ps = Renaming(pairs, matched)
<1> DEFINE kept == KeptBy(pairs, matched)
<1>1. /\ DOMAIN ps = 1..Len(ps) /\ Len(ps) \in Nat
      /\ DOMAIN pairs = 1..Len(pairs) /\ Len(pairs) \in Nat
  BY LenProperties DEF Shape
<1>2. kept \in SUBSET Nat
  BY <1>1 DEF KeptBy
<1>3. Cardinality(kept) = Len(ps) /\ \A k \in 1..Len(ps) : g[k] = Nth(kept, k)
  BY <1>1, <1>2, ClimbIsNth
<1>4. ps = [k \in 1..Len(ps) |-> ps[k]]
  BY <1>1, SeqDef
<1>5. \A k \in 1..Len(ps) : ps[k] = MergedBy(matched, pairs[Nth(kept, k)])
  BY <1>1, <1>3
<1> QED
  BY <1>3, <1>4, <1>5 DEF Renaming

(* Without a match all the pairs are left as they are.                     *)
LEMMA NoRenaming ==
  ASSUME Shape, matched = Empty PROVE pairs = Renaming(pairs, matched)
<1> DEFINE g == [k \in 1..Len(pairs) |-> k]
<1>1. DOMAIN pairs = 1..Len(pairs) /\ Len(pairs) \in Nat /\ pairs \in Seq(Pair)
  BY LenProperties DEF Shape
<1>2. DOMAIN matched = {}
  BY DEF Empty
<1>3. KeptBy(pairs, matched) = 1..Len(pairs)
  BY <1>1, <1>2 DEF KeptBy
<1>4. Climbs(KeptBy(pairs, matched), Len(pairs), g)
  BY <1>1, <1>3 DEF Climbs
<1>5. \A k \in DOMAIN pairs : pairs[k] = MergedBy(matched, pairs[g[k]])
  BY <1>1, <1>2 DEF MergedBy, Range
<1> HIDE DEF g
<1> QED
  BY <1>1, <1>4, <1>5, ClimbIsRenaming

(* A finished fold has made the list of the matching.                      *)
LEMMA FoldIsRenaming ==
  ASSUME Shape, MatchesAreOneToOne, FoldInv, pc = "fold", m > Len(pairs)
  PROVE  out = Renaming(pairs, matched)
<1> DEFINE g == [k \in 1..Len(out) |-> Position(out[k].name)]
<1>1. /\ DOMAIN out = 1..Len(out) /\ Len(out) \in Nat
      /\ DOMAIN pairs = 1..Len(pairs) /\ Len(pairs) \in Nat
  BY LenProperties DEF Shape
<1>2. 1..(m - 1) = DOMAIN pairs /\ Folded(out, m - 1) /\ renamed \in Inversions
  BY <1>1 DEF FoldInv, Shape
<1>3. /\ \A j \in DOMAIN out : \E k \in DOMAIN pairs : Kept(k) /\ out[j] = Image(pairs[k])
      /\ \A k \in DOMAIN pairs : Kept(k) => \E j \in DOMAIN out : out[j] = Image(pairs[k])
      /\ \A j, k \in DOMAIN out : j < k => Position(out[j].name) < Position(out[k].name)
  BY <1>2 DEF Folded
<1>4. ASSUME NEW k \in DOMAIN pairs
      PROVE  /\ Position(Image(pairs[k]).name) = k
             /\ Image(pairs[k]) = MergedBy(matched, pairs[k])
  <2> DEFINE p == pairs[k]
  <2>1. Image(p).name = p.name
    BY DEF Image, MergedPair
  <2>2. Position(p.name) = k
    BY PositionIs DEF Shape
  <2>3. DOMAIN renamed = Targets
    BY <1>2 DEF Inversions
  <2>4. CASE p.name \in Targets
    <3>1. renamed[p.name] \in DOMAIN matched /\ matched[renamed[p.name]] = p.name
      BY <1>2, <2>4 DEF Inversions
    <3>2. \A x \in DOMAIN matched : matched[x] = p.name => x = renamed[p.name]
      BY <3>1 DEF MatchesAreOneToOne
    <3>3. (CHOOSE x \in DOMAIN matched : matched[x] = p.name) = renamed[p.name]
      BY <3>1, <3>2
    <3> QED
      BY <2>1, <2>2, <2>3, <2>4, <3>3 DEF Image, MergedBy, Targets, Range
  <2>5. CASE p.name \notin Targets
    BY <2>1, <2>2, <2>3, <2>5 DEF Image, MergedBy, Targets, Range
  <2> QED
    BY <2>4, <2>5
<1>5. ASSUME NEW j \in DOMAIN out
      PROVE  /\ g[j] \in KeptBy(pairs, matched)
             /\ out[j] = MergedBy(matched, pairs[g[j]])
  <2>1. PICK k \in DOMAIN pairs : Kept(k) /\ out[j] = Image(pairs[k])
    BY <1>3
  <2>2. g[j] = k
    BY <1>1, <1>4, <2>1
  <2> QED
    BY <1>4, <2>1, <2>2 DEF Kept, KeptBy
<1>6. Climbs(KeptBy(pairs, matched), Len(out), g)
  <2>1. g \in [1..Len(out) -> KeptBy(pairs, matched)]
    BY <1>1, <1>5
  <2>2. \A j, k \in 1..Len(out) : j < k => g[j] < g[k]
    BY <1>1, <1>3
  <2>3. ASSUME NEW k \in KeptBy(pairs, matched) PROVE \E j \in 1..Len(out) : g[j] = k
    <3>1. k \in DOMAIN pairs /\ Kept(k)
      BY DEF Kept, KeptBy
    <3>2. PICK j \in DOMAIN out : out[j] = Image(pairs[k])
      BY <1>3, <3>1
    <3> QED
      BY <1>1, <1>4, <3>1, <3>2
  <2> HIDE DEF g
  <2> QED
    BY <2>1, <2>2, <2>3 DEF Climbs
<1>7. out \in Seq(Pair)
  BY DEF Shape
<1> HIDE DEF g
<1> QED
  BY <1>5, <1>6, <1>7, ClimbIsRenaming

LEMMA RenamingStays ==
  ASSUME UNCHANGED <<pairs, matched>>
  PROVE  Renaming(pairs, matched)' = Renaming(pairs, matched)
BY DEF Renaming, KeptBy, MergedBy

LEMMA DecidedStep == IInv /\ Decided /\ [Next]_vars => Decided'
<1> SUFFICES ASSUME IInv, Decided, [Next]_vars PROVE Decided'
  OBVIOUS
<1> USE DEF input
<1>0. Shape /\ MatchesAreOneToOne /\ FoldInv /\ CanonInv
  BY DEF IInv
<1>1. ASSUME UNCHANGED <<pairs, matched>>, pc' = "done" => out' = Renaming(pairs, matched) PROVE Decided'
  BY <1>1, RenamingStays DEF Decided, IsFunction
<1>2. ASSUME pc' # "done", UNCHANGED matched PROVE Decided'
  BY <1>2 DEF Decided, IsFunction
<1>3. ASSUME pc' # "done", NEW x, NEW y, Match(x, y) PROVE Decided'
  <2>1. matched' = [z \in DOMAIN matched \cup {x} |-> IF z = x THEN y ELSE matched[z]]
    BY <1>3 DEF Match, Put
  <2>2. IsFunction'
    BY <2>1 DEF IsFunction
  <2> QED
    BY <1>3, <2>2 DEF Decided
<1>4. CASE Split
  <2>1. matched = Empty /\ UNCHANGED <<pairs, matched>> /\ (pc' = "done" => out' = pairs)
    BY <1>0, <1>4 DEF Split, CanonInv
  <2> QED
    BY <1>0, <1>1, <2>1, NoRenaming
<1>5. CASE CanonStep
  <2>1. pc' # "done"
    BY <1>5 DEF CanonStep
  <2>2. UNCHANGED matched \/ \E x, y : Match(x, y)
    BY <1>5 DEF CanonStep
  <2> QED
    BY <1>2, <1>3, <2>1, <2>2
<1>6. CASE TryBody
  <2>1. pc' # "done"
    BY <1>6 DEF TryBody
  <2>2. UNCHANGED matched \/ \E x, y : Match(x, y)
    BY <1>6 DEF TryBody
  <2> QED
    BY <1>2, <1>3, <2>1, <2>2
<1>7. CASE EndCanon \/ SkipRemoved \/ EndBodies \/ FoldStep
  <2>1. pc' # "done" /\ UNCHANGED matched
    BY <1>7 DEF EndCanon, SkipRemoved, EndBodies, FoldStep
  <2> QED
    BY <1>2, <2>1
<1>8. CASE Merge
  <2>1. UNCHANGED <<pairs, matched>> /\ (pc' = "done" => matched = Empty /\ out' = pairs)
    BY <1>8 DEF Merge
  <2> QED
    BY <1>0, <1>1, <2>1, NoRenaming
<1>9. CASE EndFold
  <2>1. UNCHANGED <<pairs, matched, out>> /\ pc = "fold" /\ m > Len(pairs)
    BY <1>9 DEF EndFold
  <2> QED
    BY <1>0, <1>1, <2>1, FoldIsRenaming
<1>10. CASE UNCHANGED vars
  BY <1>1, <1>10 DEF vars, Decided
<1> QED
  BY <1>4, <1>5, <1>6, <1>7, <1>8, <1>9, <1>10 DEF Next

(* MatchRenames is what Comparison's renaming step takes it for: its result*)
(* is the list that some one-to-one matching of removed with added names   *)
(* makes of the pairs.                                                     *)
THEOREM RenamesAreARenaming == Spec => []ComesToRenaming
<1>1. Init => Decided
  BY DEF Init, Decided, IsFunction, Empty
<1>2. Spec => []Decided
  <2>1. IInv /\ Decided /\ [Next]_vars => Decided'
    BY DecidedStep
  <2> QED
    BY <1>1, <2>1, Invariance, PTL DEF Spec
<1>3. IInv /\ Decided => ComesToRenaming
  <2> SUFFICES ASSUME IInv, Decided, pc = "done" PROVE \E f \in Matchings(pairs) : out = Renaming(pairs, f)
    BY DEF ComesToRenaming
  <2>1. /\ \A x \in DOMAIN matched : x \in Removed /\ matched[x] \in Added
        /\ \A x, y \in DOMAIN matched : matched[x] = matched[y] => x = y
    BY DEF IInv, MatchesAreOneToOne
  <2>2. matched \in [DOMAIN matched -> Added]
    BY <2>1 DEF Decided, IsFunction
  <2>3. matched \in Injection(DOMAIN matched, Added)
    BY <2>1, <2>2 DEF Injection, IsInjective
  <2>4. matched \in Matchings(pairs)
    <3>1. NamesIn(pairs, "added") = Added /\ NamesIn(pairs, "removed") = Removed
      BY DEF NamesIn, Added, Removed, InState
    <3> QED
      BY <2>1, <2>3, <3>1 DEF Matchings
  <2> QED
    BY <2>4 DEF Decided
<1> QED
  BY <1>2, <1>3, Invariance, PTL
=============================================================================
