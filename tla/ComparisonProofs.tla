-------------------------- MODULE ComparisonProofs --------------------------
(***************************************************************************)
(* Proofs about Comparison, the pairing it begins with, and the scripts and*)
(* tables that Rankings reads of it: whatever the two function tables and  *)
(* whichever renames are found, functions are paired right by name, the    *)
(* Diff that Compare returns tells the truth of each pair, and all that is *)
(* summed, counted and sorted of it agrees.                                *)
(***************************************************************************)
EXTENDS Rankings, ListProofs

-----------------------------------------------------------------------------
(* Pairing by name.                                                        *)

(* Position k holds the first definition of its name.                      *)
IsFirst(bin, k) == \A j \in 1..(k - 1) : bin[j].name # bin[k].name

Shape == /\ old \in Seq(Func)
         /\ new \in Seq(Func)
         /\ pc \in {"new", "old", "done"}
         /\ i \in Nat \ {0}
         /\ pairs \in Seq(Pair)

(* seen is the set of names paired, and the loops have seen all before i.  *)
SeenInv == /\ seen = {pairs[k].name : k \in DOMAIN pairs}
           /\ pc = "new" => seen = {new[k].name : k \in 1..(i - 1)} /\ i <= Len(new) + 1
           /\ pc = "old" => /\ seen = Names(new) \cup {old[k].name : k \in 1..(i - 1)}
                            /\ i <= Len(old) + 1
           /\ pc = "done" => seen = Names(new) \cup Names(old)

(* A name is paired once, and with the first definitions of it.            *)
OnceInv == \A j, k \in DOMAIN pairs : pairs[j].name = pairs[k].name => j = k
SidesInv == \A k \in DOMAIN pairs :
              pairs[k] = MakePair(pairs[k].name, FirstDef(old, pairs[k].name),
                                  FirstDef(new, pairs[k].name))
OrderInv == pc = "done" => Ascending(pairs)

IInv == Shape /\ SeenInv /\ OnceInv /\ SidesInv /\ OrderInv

-----------------------------------------------------------------------------
(* FirstDef is the definition no earlier one has the name of.              *)
LEMMA FirstDefIs ==
  ASSUME NEW bin \in Seq(Func), NEW k \in 1..Len(bin), IsFirst(bin, k)
  PROVE  FirstDef(bin, bin[k].name) = bin[k]
<1> DEFINE n == bin[k].name
           P(l) == l \in DOMAIN bin /\ bin[l].name = n /\ \A j \in 1..(l - 1) : bin[j].name # n
<1>1. DOMAIN bin = 1..Len(bin) /\ Len(bin) \in Nat
  BY LenProperties
<1>2. P(k)
  BY <1>1 DEF IsFirst
<1>3. ASSUME NEW l, P(l) PROVE l = k
  <2>1. ~(l < k) /\ ~(k < l)
    BY <1>1, <1>2, <1>3
  <2> QED
    BY <1>1, <1>3, <2>1
<1>4. (CHOOSE l \in DOMAIN bin : bin[l].name = n /\ \A j \in 1..(l - 1) : bin[j].name # n) = k
  BY <1>2, <1>3
<1>5. n \in Names(bin)
  BY <1>1 DEF Names
<1> QED
  BY <1>4, <1>5 DEF FirstDef

(* It is a function with that name, or nil when the binary has none.       *)
LEMMA FirstDefType ==
  ASSUME NEW bin \in Seq(Func), NEW n
  PROVE  IF n \in Names(bin) THEN FirstDef(bin, n) \in Func /\ FirstDef(bin, n).name = n
         ELSE FirstDef(bin, n) = NoFunc
<1>0. DOMAIN bin = 1..Len(bin) /\ Len(bin) \in Nat
  BY LenProperties
<1>1. CASE n \notin Names(bin)
  BY <1>1 DEF FirstDef
<1>2. CASE n \in Names(bin)
  <2> DEFINE S == {k \in 1..Len(bin) : bin[k].name = n}
  <2>1. S \in SUBSET Nat /\ S # {}
    BY <1>0, <1>2 DEF Names
  <2>2. PICK k \in S : \A m \in S : k <= m
    BY <2>1, LeastElement
  <2>3. k \in 1..Len(bin) /\ bin[k].name = n
    BY <2>2
  <2>4. IsFirst(bin, k)
    BY <1>0, <2>2, <2>3 DEF IsFirst
  <2>5. FirstDef(bin, n) = bin[k]
    BY <2>3, <2>4, FirstDefIs
  <2> QED
    BY <1>2, <2>3, <2>5, ElementOfSeq
<1> QED
  BY <1>1, <1>2

(* The pair made of the two first definitions of a name is a pair.         *)
LEMMA MakePairType ==
  ASSUME NEW n \in Nat, NEW o \in Func \cup {NoFunc}, NEW f \in Func \cup {NoFunc}
  PROVE  MakePair(n, o, f) \in Pair /\ MakePair(n, o, f).name = n
BY DEF MakePair, Pair, TriageState, State, Name

(* Appending the right pair of a name not yet seen keeps the invariants.   *)
LEMMA AppendPair ==
  ASSUME Shape, OnceInv, SidesInv, seen = {pairs[k].name : k \in DOMAIN pairs},
         NEW n \in Nat, n \notin seen, old' = old, new' = new, seen' = seen \cup {n},
         pairs' = Append(pairs, MakePair(n, FirstDef(old, n), FirstDef(new, n)))
  PROVE  /\ pairs' \in Seq(Pair)
         /\ seen' = {pairs'[k].name : k \in DOMAIN pairs'}
         /\ OnceInv' /\ SidesInv'
<1> DEFINE p == MakePair(n, FirstDef(old, n), FirstDef(new, n))
<1>1. FirstDef(old, n) \in Func \cup {NoFunc} /\ FirstDef(new, n) \in Func \cup {NoFunc}
  BY FirstDefType DEF Shape
<1>2. p \in Pair /\ p.name = n
  BY <1>1, MakePairType
<1> HIDE DEF p
<1>3. pairs' = Append(pairs, p)
  BY DEF p
<1>4. /\ pairs' \in Seq(Pair)
      /\ Len(pairs') = Len(pairs) + 1
      /\ \A k \in 1..Len(pairs) : pairs'[k] = pairs[k]
      /\ pairs'[Len(pairs) + 1] = p
  BY <1>2, <1>3, AppendProperties DEF Shape
<1>5. /\ DOMAIN pairs = 1..Len(pairs) /\ Len(pairs) \in Nat
      /\ DOMAIN pairs' = 1..Len(pairs')
  BY <1>4, LenProperties DEF Shape
<1>6. DOMAIN pairs' = DOMAIN pairs \cup {Len(pairs) + 1}
  BY <1>4, <1>5
<1>7. seen' = {pairs'[k].name : k \in DOMAIN pairs'}
  BY <1>2, <1>4, <1>5, <1>6
<1>8. OnceInv'
  BY <1>2, <1>4, <1>5, <1>6 DEF OnceInv
<1>9. SidesInv'
  <2> SUFFICES ASSUME NEW k \in DOMAIN pairs'
               PROVE  pairs'[k] = MakePair(pairs'[k].name, FirstDef(old, pairs'[k].name),
                                           FirstDef(new, pairs'[k].name))
    BY DEF SidesInv
  <2>1. CASE k = Len(pairs) + 1
    BY <1>2, <1>4, <2>1 DEF p
  <2>2. CASE k \in DOMAIN pairs
    BY <1>4, <1>5, <2>2 DEF SidesInv
  <2> QED
    BY <1>6, <2>1, <2>2
<1> QED
  BY <1>4, <1>7, <1>8, <1>9

-----------------------------------------------------------------------------
LEMMA InitIInv == Init => IInv
<1> SUFFICES ASSUME Init PROVE IInv
  OBVIOUS
<1>1. Len(new) \in Nat /\ Shape
  BY PairingAssumption DEF Init, Shape
<1> QED
  BY <1>1 DEF Init, IInv, SeenInv, OnceInv, SidesInv, OrderInv

LEMMA PairNewStep == IInv /\ PairNew => IInv'
<1> SUFFICES ASSUME IInv, PairNew PROVE IInv'
  OBVIOUS
<1> DEFINE n == new[i].name
<1>0. Shape /\ SeenInv /\ OnceInv /\ SidesInv
  BY DEF IInv
<1>1. /\ pc = "new" /\ pc' = "new" /\ i \in 1..Len(new) /\ i' = i + 1
      /\ old' = old /\ new' = new /\ Len(new) \in Nat /\ n \in Nat
  <2>1. pc = "new" /\ i <= Len(new) /\ i' = i + 1 /\ UNCHANGED <<old, new, pc>>
    BY DEF PairNew
  <2>2. Len(new) \in Nat /\ i \in 1..Len(new)
    BY <1>0, <2>1, LenProperties DEF Shape
  <2>3. new[i] \in Func
    BY <1>0, <2>2, ElementOfSeq DEF Shape
  <2> QED
    BY <2>1, <2>2, <2>3 DEF Func, Name
<1>2. {new[k].name : k \in 1..(i' - 1)} = {new[k].name : k \in 1..(i - 1)} \cup {n}
  BY <1>1
<1>3. CASE n \in seen
  <2>1. seen' = seen /\ pairs' = pairs
    BY <1>3 DEF PairNew
  <2> QED
    BY <1>0, <1>1, <1>2, <1>3, <2>1 DEF IInv, Shape, SeenInv, OnceInv, SidesInv, OrderInv
<1>4. CASE n \notin seen
  <2>1. IsFirst(new, i)
    BY <1>0, <1>1, <1>4 DEF SeenInv, IsFirst
  <2>2. FirstDef(new, n) = new[i]
    BY <1>0, <1>1, <2>1, FirstDefIs DEF Shape
  <2>3. /\ seen' = seen \cup {n}
        /\ pairs' = Append(pairs, MakePair(n, FirstDef(old, n), FirstDef(new, n)))
    BY <1>4, <2>2 DEF PairNew
  <2>4. /\ pairs' \in Seq(Pair)
        /\ seen' = {pairs'[k].name : k \in DOMAIN pairs'}
        /\ OnceInv' /\ SidesInv'
    BY <1>0, <1>1, <1>4, <2>3, AppendPair DEF SeenInv
  <2>5. Shape'
    BY <1>0, <1>1, <2>4 DEF Shape
  <2>6. seen' = {new'[k].name : k \in 1..(i' - 1)}
    BY <1>0, <1>1, <1>2, <2>3 DEF SeenInv
  <2>7. SeenInv'
    <3>1. pc' # "done" /\ i' <= Len(new') + 1
      BY <1>1
    <3> QED
      BY <1>1, <2>4, <2>6, <3>1 DEF SeenInv
  <2> QED
    BY <1>1, <2>4, <2>5, <2>7 DEF IInv, OrderInv
<1> QED
  BY <1>3, <1>4

LEMMA EndNewStep == IInv /\ EndNew => IInv'
<1> SUFFICES ASSUME IInv, EndNew PROVE IInv'
  OBVIOUS
<1>0. Shape /\ SeenInv /\ OnceInv /\ SidesInv
  BY DEF IInv
<1>1. DOMAIN new = 1..Len(new) /\ Len(new) \in Nat /\ Len(old) \in Nat
  BY <1>0, LenProperties DEF Shape
<1>2. pc = "new" /\ pc' = "old" /\ i' = 1 /\ i = Len(new) + 1
      /\ UNCHANGED <<old, new, seen, pairs>>
  BY <1>0, <1>1 DEF EndNew, SeenInv, Shape
<1>3. seen = Names(new)
  BY <1>0, <1>1, <1>2 DEF SeenInv, Names
<1> QED
  BY <1>0, <1>1, <1>2, <1>3 DEF IInv, Shape, SeenInv, OnceInv, SidesInv, OrderInv

LEMMA PairOldStep == IInv /\ PairOld => IInv'
<1> SUFFICES ASSUME IInv, PairOld PROVE IInv'
  OBVIOUS
<1> DEFINE n == old[i].name
<1>0. Shape /\ SeenInv /\ OnceInv /\ SidesInv
  BY DEF IInv
<1>1. /\ pc = "old" /\ pc' = "old" /\ i \in 1..Len(old) /\ i' = i + 1
      /\ old' = old /\ new' = new /\ Len(old) \in Nat /\ n \in Nat
  <2>1. pc = "old" /\ i <= Len(old) /\ i' = i + 1 /\ UNCHANGED <<old, new, pc>>
    BY DEF PairOld
  <2>2. Len(old) \in Nat /\ i \in 1..Len(old)
    BY <1>0, <2>1, LenProperties DEF Shape
  <2>3. old[i] \in Func
    BY <1>0, <2>2, ElementOfSeq DEF Shape
  <2> QED
    BY <2>1, <2>2, <2>3 DEF Func, Name
<1>2. {old[k].name : k \in 1..(i' - 1)} = {old[k].name : k \in 1..(i - 1)} \cup {n}
  BY <1>1
<1>3. CASE n \in seen
  <2>1. seen' = seen /\ pairs' = pairs
    BY <1>3 DEF PairOld
  <2> QED
    BY <1>0, <1>1, <1>2, <1>3, <2>1 DEF IInv, Shape, SeenInv, OnceInv, SidesInv, OrderInv, Names
<1>4. CASE n \notin seen
  <2>1. IsFirst(old, i) /\ n \notin Names(new)
    BY <1>0, <1>1, <1>4 DEF SeenInv, IsFirst
  <2>2. FirstDef(old, n) = old[i] /\ FirstDef(new, n) = NoFunc
    BY <1>0, <1>1, <2>1, FirstDefIs, FirstDefType DEF Shape
  <2>3. /\ seen' = seen \cup {n}
        /\ pairs' = Append(pairs, MakePair(n, FirstDef(old, n), FirstDef(new, n)))
    BY <1>4, <2>2 DEF PairOld
  <2>4. /\ pairs' \in Seq(Pair)
        /\ seen' = {pairs'[k].name : k \in DOMAIN pairs'}
        /\ OnceInv' /\ SidesInv'
    BY <1>0, <1>1, <1>4, <2>3, AppendPair DEF SeenInv
  <2>5. Shape'
    BY <1>0, <1>1, <2>4 DEF Shape
  <2>6. seen' = Names(new') \cup {old'[k].name : k \in 1..(i' - 1)}
    BY <1>0, <1>1, <1>2, <2>3 DEF SeenInv, Names
  <2>7. SeenInv'
    <3>1. pc' # "done" /\ i' <= Len(old') + 1
      BY <1>1
    <3> QED
      BY <1>1, <2>4, <2>6, <3>1 DEF SeenInv
  <2> QED
    BY <1>1, <2>4, <2>5, <2>7 DEF IInv, OrderInv
<1> QED
  BY <1>3, <1>4

LEMMA SortStep == IInv /\ SortByName => IInv'
<1> SUFFICES ASSUME IInv, SortByName PROVE IInv'
  OBVIOUS
<1>0. Shape /\ SeenInv /\ OnceInv /\ SidesInv
  BY DEF IInv
<1>1. /\ pc = "old" /\ i > Len(old) /\ pc' = "done" /\ UNCHANGED <<old, new, i, seen>>
      /\ Ascending(pairs')
  BY DEF SortByName
<1>2. PICK f \in Bijection(DOMAIN pairs, DOMAIN pairs) : pairs' = [k \in DOMAIN pairs |-> pairs[f[k]]]
  BY DEF SortByName, Reorderings
<1>3. /\ f \in [DOMAIN pairs -> DOMAIN pairs]
      /\ \A j, k \in DOMAIN pairs : f[j] = f[k] => j = k
      /\ \A t \in DOMAIN pairs : \E s \in DOMAIN pairs : f[s] = t
  BY DEF Bijection, Injection, Surjection, IsInjective
<1>4. DOMAIN pairs = 1..Len(pairs) /\ Len(pairs) \in Nat /\ DOMAIN old = 1..Len(old) /\ Len(old) \in Nat
  BY <1>0, LenProperties DEF Shape
<1>5. DOMAIN pairs' = DOMAIN pairs /\ \A k \in DOMAIN pairs : pairs'[k] = pairs[f[k]] /\ f[k] \in DOMAIN pairs
  BY <1>2, <1>3
<1>6. pairs' \in Seq(Pair)
  <2>1. \A k \in DOMAIN pairs : pairs[f[k]] \in Pair
    BY <1>0, <1>3, <1>4, ElementOfSeq DEF Shape
  <2> QED
    BY <1>2, <1>4, <2>1, IsASeq
<1>7. {pairs'[k].name : k \in DOMAIN pairs'} = {pairs[k].name : k \in DOMAIN pairs}
  BY <1>3, <1>5
<1>8. OnceInv'
  BY <1>0, <1>3, <1>5 DEF OnceInv
<1>9. SidesInv'
  BY <1>0, <1>1, <1>5 DEF SidesInv
<1>10. seen = Names(new) \cup Names(old)
  <2>1. i = Len(old) + 1
    BY <1>0, <1>1, <1>4 DEF SeenInv, Shape
  <2> QED
    BY <1>0, <1>1, <1>4, <2>1 DEF SeenInv, Names
<1> QED
  BY <1>0, <1>1, <1>6, <1>7, <1>8, <1>9, <1>10 DEF IInv, Shape, SeenInv, OrderInv

LEMMA StutterStep == IInv /\ UNCHANGED vars => IInv'
BY DEF vars, IInv, Shape, SeenInv, OnceInv, SidesInv, OrderInv

LEMMA PairingStep == IInv /\ [Next]_vars => IInv'
BY PairNewStep, EndNewStep, PairOldStep, SortStep, StutterStep DEF Next

LEMMA PairedByName == IInv => PairsByName
<1> SUFFICES ASSUME IInv, pc = "done"
    PROVE /\ \A j, k \in DOMAIN pairs : j < k => pairs[j].name < pairs[k].name
          /\ {pairs[k].name : k \in DOMAIN pairs} = Names(old) \cup Names(new)
          /\ \A k \in DOMAIN pairs :
               pairs[k] = MakePair(pairs[k].name, FirstDef(old, pairs[k].name),
                                   FirstDef(new, pairs[k].name))
  BY DEF PairsByName
<1>0. Shape /\ SeenInv /\ OnceInv /\ SidesInv /\ OrderInv
  BY DEF IInv
<1>1. DOMAIN pairs = 1..Len(pairs) /\ Len(pairs) \in Nat
      /\ \A k \in DOMAIN pairs : pairs[k].name \in Nat
  <2>1. DOMAIN pairs = 1..Len(pairs) /\ Len(pairs) \in Nat
    BY <1>0, LenProperties DEF Shape
  <2>2. \A k \in DOMAIN pairs : pairs[k] \in Pair
    BY <1>0, <2>1, ElementOfSeq DEF Shape
  <2> QED
    BY <2>1, <2>2 DEF Pair, Name
<1>2. ASSUME NEW j \in DOMAIN pairs, NEW k \in DOMAIN pairs, j < k
      PROVE  pairs[j].name < pairs[k].name
  <2>1. pairs[j].name <= pairs[k].name /\ pairs[j].name # pairs[k].name
    BY <1>0, <1>1, <1>2 DEF OnceInv, OrderInv, Ascending
  <2> QED
    BY <1>1, <2>1
<1> QED
  BY <1>0, <1>2 DEF SeenInv, SidesInv

(* fndiff.Compare lists every name of either binary exactly once, in order,*)
(* with its first definitions and the right state.                         *)
THEOREM ComparePairsByName == Spec => []PairsByName
BY InitIInv, PairingStep, PairedByName, PTL DEF Spec
-----------------------------------------------------------------------------
(* What a pair of the list means, before it is analysed: its sides are the *)
(* first definitions of its names, and its state says which there are.     *)
OldName(p) == IF p.from = NoName THEN p.name ELSE p.from

Told(p) == /\ p.name \in Name
           /\ p.state \in State
           /\ p.old = IF p.state = "added" THEN NoFunc ELSE FirstDef(old, OldName(p))
           /\ p.new = IF p.state = "removed" THEN NoFunc ELSE FirstDef(new, p.name)
           /\ p.old \in MaybeFunc /\ p.new \in MaybeFunc
           /\ (p.old = NoFunc) = (p.state = "added")
           /\ (p.new = NoFunc) = (p.state = "removed")
           /\ p.state = "identical" => p.old = p.new

NamesApart(s) == \A j, k \in DOMAIN s : s[j].name = s[k].name => j = k

InputInv == old \in OldBinaries /\ new \in NewBinaries

StageInv == /\ stage \in {"start", "pairing", "rename", "analyze", "assemble", "done", "error"}
            /\ stage \notin {"start", "pairing", "error"} => pc = "done"

Listed == {"analyze", "assemble", "done"}
ListFacts(ls) == /\ Len(ls) \in Nat /\ DOMAIN ls = 1..Len(ls)
                 /\ NamesApart(ls)
                 /\ \A k \in DOMAIN ls : Told(ls[k])
ListInv == stage \in Listed => ListFacts(list)

(* An analysis is found under the name of its own pair, and none failed.   *)
ByNameInv == /\ DOMAIN byName = {list[k].name : k \in NonIdentical}
             /\ \A k \in NonIdentical : byName[list[k].name] = Analysed(list[k])
             /\ \A k \in NonIdentical : PM!FailingSide(Kind(list[k])) = "none"

(* What is assembled so far.                                               *)
JoinedRows == {Joined(list[k]) : k \in DOMAIN list}
Scripted == {k \in DOMAIN result : /\ list[k].name \in DOMAIN byName
                                   /\ ~byName[list[k].name].noise
                                   /\ list[k].state = "changed"}
ResultInv == /\ result \in Seq(JoinedRows)
             /\ Len(result) <= Len(list)
             /\ \A k \in DOMAIN result : result[k] = Joined(list[k])
             /\ DOMAIN lines = {list[k].name : k \in Scripted}
             /\ \A k \in Scripted : lines[list[k].name] = byName[list[k].name].edits

Assembling == {"assemble", "done"}
AssembleInv == IF stage \in Assembling
               THEN /\ ByNameInv /\ ResultInv
                    /\ stage = "done" => Len(result) = Len(list)
               ELSE result = <<>> /\ lines = <<>>

CInv == IInv /\ InputInv /\ StageInv /\ ListInv /\ AssembleInv

-----------------------------------------------------------------------------
(* Matching renames.                                                       *)
LEMMA PairFacts ==
  ASSUME IInv, pc = "done", NEW k \in DOMAIN pairs
  PROVE  LET p == pairs[k]
         IN  /\ p.name \in Nat
             /\ p.old = FirstDef(old, p.name) /\ p.new = FirstDef(new, p.name)
             /\ p.old \in MaybeFunc /\ p.new \in MaybeFunc
             /\ p.old # NoFunc => p.old.name = p.name
             /\ p.new # NoFunc => p.new.name = p.name
             /\ p.old # NoFunc \/ p.new # NoFunc
             /\ p.state = TriageState(p.old, p.new)
<1> DEFINE n == pairs[k].name
           o == FirstDef(old, n)
           f == FirstDef(new, n)
<1>0. Shape /\ SidesInv /\ PairsByName /\ old \in Seq(Func) /\ new \in Seq(Func)
  BY PairedByName DEF IInv, Shape
<1>1. n \in Nat
  <2>1. DOMAIN pairs = 1..Len(pairs)
    BY <1>0, LenProperties DEF Shape
  <2>2. pairs[k] \in Pair
    BY <1>0, <2>1, ElementOfSeq DEF Shape
  <2> QED
    BY <2>2 DEF Pair, Name
<1>2. n \in Names(old) \cup Names(new)
  BY <1>0 DEF PairsByName
<1>3. IF n \in Names(old) THEN o \in Func /\ o.name = n ELSE o = NoFunc
  BY <1>0, FirstDefType
<1>4. IF n \in Names(new) THEN f \in Func /\ f.name = n ELSE f = NoFunc
  BY <1>0, FirstDefType
<1>5. pairs[k] = MakePair(n, o, f)
  BY <1>0 DEF SidesInv
<1>6. /\ o \in MaybeFunc /\ f \in MaybeFunc
      /\ o # NoFunc => o.name = n
      /\ f # NoFunc => f.name = n
      /\ o # NoFunc \/ f # NoFunc
  BY <1>2, <1>3, <1>4, PairingAssumption DEF MaybeFunc
<1> HIDE DEF n, o, f
<1>7. pairs[k].old = o /\ pairs[k].new = f /\ pairs[k].state = TriageState(o, f)
  BY <1>5 DEF MakePair
<1> QED
  BY <1>1, <1>6, <1>7 DEF n, o, f

LEMMA UnmatchedTold ==
  ASSUME IInv, pc = "done", NEW k \in DOMAIN pairs, NEW q,
         q = [name |-> pairs[k].name, from |-> NoName, state |-> pairs[k].state,
              old |-> pairs[k].old, new |-> pairs[k].new]
  PROVE  Told(q)
<1> DEFINE p == pairs[k]
<1>1. /\ p.name \in Nat
      /\ p.old = FirstDef(old, p.name) /\ p.new = FirstDef(new, p.name)
      /\ p.old \in MaybeFunc /\ p.new \in MaybeFunc
      /\ p.old # NoFunc => p.old.name = p.name
      /\ p.new # NoFunc => p.new.name = p.name
      /\ p.old # NoFunc \/ p.new # NoFunc
      /\ p.state = TriageState(p.old, p.new)
  BY PairFacts
<1>2. /\ q.name = p.name /\ q.from = NoName /\ q.state = p.state
      /\ q.old = p.old /\ q.new = p.new /\ OldName(q) = p.name
  BY DEF OldName
<1> HIDE DEF p
<1>3. p.state = "identical" => p.old = p.new
  <2> HAVE p.state = "identical"
  <2>1. p.old # NoFunc /\ p.new # NoFunc /\ p.old.code = p.new.code
    BY <1>1 DEF TriageState
  <2>2. p.old \in Func /\ p.new \in Func /\ p.old.name = p.new.name
    BY <1>1, <2>1 DEF MaybeFunc
  <2> QED
    BY <2>1, <2>2 DEF Func
<1>4. /\ p.state \in State
      /\ (p.old = NoFunc) = (p.state = "added")
      /\ (p.new = NoFunc) = (p.state = "removed")
  BY <1>1 DEF TriageState, State
<1> QED
  BY <1>1, <1>2, <1>3, <1>4 DEF Told, Name

LEMMA MergedTold ==
  ASSUME IInv, pc = "done", NEW m \in Matches, NEW k \in DOMAIN pairs
  PROVE  Told(Merged(m, pairs[k])) /\ Merged(m, pairs[k]).name = pairs[k].name
<1> DEFINE p == pairs[k]
<1>1. CASE p.name \notin Range(m)
  <2>1. Merged(m, p) = [name |-> p.name, from |-> NoName, state |-> p.state, old |-> p.old, new |-> p.new]
    BY <1>1 DEF Merged
  <2> QED
    BY <2>1, UnmatchedTold
<1>2. CASE p.name \in Range(m)
  <2>1. PICK S \in SUBSET NamesIn("removed") : m \in Injection(S, NamesIn("added"))
    BY DEF Matches
  <2>2. DOMAIN m = S /\ \A r \in S : m[r] \in NamesIn("added")
    BY <2>1 DEF Injection
  <2> DEFINE from == CHOOSE r \in DOMAIN m : m[r] = p.name
  <2>3. from \in DOMAIN m /\ m[from] = p.name
    BY <1>2 DEF Range
  <2>4. PICK j \in DOMAIN pairs : pairs[j].name = from /\ pairs[j].state = "removed"
    BY <2>2, <2>3 DEF NamesIn
  <2>5. p.state = "added"
    <3>1. PICK l \in DOMAIN pairs : pairs[l].name = p.name /\ pairs[l].state = "added"
      BY <2>2, <2>3 DEF NamesIn
    <3>2. l = k
      BY <3>1 DEF IInv, OnceInv
    <3> QED
      BY <3>1, <3>2
  <2>6. Merged(m, p) = [name |-> p.name, from |-> from, state |-> "changed",
                        old |-> FirstDef(old, from), new |-> p.new]
    BY <1>2 DEF Merged
  <2> HIDE DEF from
  <2>7. from \in Nat /\ FirstDef(old, from) \in MaybeFunc /\ FirstDef(old, from) # NoFunc
    <3>1. /\ pairs[j].name \in Nat /\ pairs[j].old = FirstDef(old, pairs[j].name)
          /\ pairs[j].old \in MaybeFunc /\ (pairs[j].old # NoFunc \/ pairs[j].new # NoFunc)
          /\ pairs[j].state = TriageState(pairs[j].old, pairs[j].new)
      BY PairFacts
    <3> QED
      BY <2>4, <3>1 DEF TriageState
  <2>8. p.name \in Nat /\ p.new = FirstDef(new, p.name) /\ p.new \in MaybeFunc /\ p.new # NoFunc
    <3>1. /\ p.name \in Nat /\ p.new = FirstDef(new, p.name)
          /\ p.new \in MaybeFunc /\ (p.old # NoFunc \/ p.new # NoFunc)
          /\ p.state = TriageState(p.old, p.new)
      BY PairFacts
    <3> QED
      BY <2>5, <3>1 DEF TriageState
  <2> DEFINE q == Merged(m, p)
  <2>9. /\ q.name = p.name /\ q.from = from /\ q.state = "changed"
        /\ q.old = FirstDef(old, from) /\ q.new = p.new
    BY <2>6
  <2>10. OldName(q) = from
    BY <2>7, <2>9, ComparisonAssumption DEF OldName, Name
  <2> HIDE DEF p, q
  <2>11. Told(q) /\ q.name = p.name
    BY <2>7, <2>8, <2>9, <2>10 DEF Told, State, Name
  <2> QED
    BY <2>11 DEF p, q
<1> QED
  BY <1>1, <1>2

LEMMA ListStable ==
  ASSUME UNCHANGED <<old, new>>, NEW ls, list' = ls
  PROVE  ListFacts(list)' <=> ListFacts(ls)
BY DEF ListFacts, NamesApart, Told, OldName, FirstDef, Names

LEMMA FoldedFacts ==
  ASSUME IInv, pc = "done", NEW m \in Matches
  PROVE  ListFacts(Folded(m))
<1> DEFINE kept == {k \in DOMAIN pairs : pairs[k].name \notin DOMAIN m}
           n == Cardinality(kept)
           ls == Folded(m)
<1>1. kept \in SUBSET Nat /\ IsFiniteSet(kept) /\ kept \subseteq DOMAIN pairs
  <2>1. DOMAIN pairs = 1..Len(pairs) /\ Len(pairs) \in Nat
    BY LenProperties DEF IInv, Shape
  <2>2. IsFiniteSet(1..Len(pairs))
    BY <2>1, FS_Interval
  <2>3. kept \in SUBSET (1..Len(pairs))
    BY <2>1
  <2> HIDE DEF kept
  <2>4. IsFiniteSet(kept)
    BY <2>2, <2>3, FS_Subset
  <2> QED
    BY <2>1, <2>3, <2>4
<1>2. ls = [k \in 1..n |-> Merged(m, pairs[Nth(kept, k)])]
  BY DEF Folded
<1> HIDE DEF kept, ls
<1>3. /\ n \in Nat
      /\ \A k \in 1..n : Nth(kept, k) \in DOMAIN pairs
      /\ \A k, l \in 1..n : Nth(kept, k) = Nth(kept, l) => k = l
  BY <1>1, NthFacts
<1> HIDE DEF n
<1>4. Len(ls) = n /\ DOMAIN ls = 1..n
  <2>1. ls \in [1..n -> {ls[k] : k \in 1..n}]
    BY <1>2
  <2>2. ls \in Seq({ls[k] : k \in 1..n})
    BY <1>2, <1>3, IsASeq
  <2> QED
    BY <1>3, <2>1, <2>2, LenProperties
<1>5. ASSUME NEW k \in 1..n
      PROVE  Told(ls[k]) /\ ls[k].name = pairs[Nth(kept, k)].name
  <2>1. ls[k] = Merged(m, pairs[Nth(kept, k)])
    BY <1>2
  <2> QED
    BY <1>3, <2>1, MergedTold
<1>6. NamesApart(ls)
  <2> SUFFICES ASSUME NEW j \in 1..n, NEW k \in 1..n, ls[j].name = ls[k].name PROVE j = k
    BY <1>4 DEF NamesApart
  <2>1. pairs[Nth(kept, j)].name = pairs[Nth(kept, k)].name
    BY <1>5
  <2>2. Nth(kept, j) = Nth(kept, k)
    BY <1>3, <2>1 DEF IInv, OnceInv
  <2> QED
    BY <1>3, <2>2
<1>7. ListFacts(ls)
  BY <1>3, <1>4, <1>5, <1>6 DEF ListFacts
<1> QED
  BY <1>7 DEF ls

LEMMA InitC == CompareInit => CInv
<1> SUFFICES ASSUME CompareInit PROVE CInv
  OBVIOUS
<1>1. IInv
  BY InitIInv DEF CompareInit
<1> QED
  BY <1>1 DEF CompareInit, Init, CInv, InputInv, StageInv, ListInv, Listed, AssembleInv, Assembling

LEMMA StartKeeps == CInv /\ Start => CInv'
<1> SUFFICES ASSUME CInv, Start PROVE CInv'
  OBVIOUS
<1>1. UNCHANGED vars /\ stage' \in {"pairing", "error"} /\ stage = "start"
      /\ result' = result /\ lines' = lines
  BY DEF Start
<1>2. IInv'
  BY <1>1, PairingStep DEF CInv
<1>3. InputInv' /\ StageInv'
  BY <1>1 DEF CInv, InputInv, StageInv, vars
<1> QED
  BY <1>1, <1>2, <1>3 DEF CInv, ListInv, Listed, AssembleInv, Assembling

LEMMA PairUpKeeps == CInv /\ PairUp => CInv'
<1> SUFFICES ASSUME CInv, PairUp PROVE CInv'
  OBVIOUS
<1>1. Next /\ stage = "pairing" /\ stage' = (IF pc' = "done" THEN "rename" ELSE "pairing")
      /\ result' = result /\ lines' = lines
  BY DEF PairUp
<1>2. IInv'
  BY <1>1, PairingStep DEF CInv
<1>3. old' = old /\ new' = new
  BY <1>1 DEF Next, PairNew, EndNew, PairOld, SortByName
<1>4. InputInv' /\ StageInv'
  BY <1>1, <1>3 DEF CInv, InputInv, StageInv
<1> QED
  BY <1>1, <1>2, <1>4 DEF CInv, ListInv, Listed, AssembleInv, Assembling

LEMMA RenameKeeps == CInv /\ Rename => CInv'
<1> SUFFICES ASSUME CInv, Rename PROVE CInv'
  OBVIOUS
<1>1. UNCHANGED vars /\ stage = "rename" /\ stage' = "analyze"
      /\ result' = result /\ lines' = lines
  BY DEF Rename
<1>2. UNCHANGED <<old, new, pc>>
  BY <1>1 DEF vars
<1>3. IInv'
  BY <1>1, PairingStep DEF CInv
<1>4. InputInv' /\ StageInv' /\ pc = "done"
  BY <1>1, <1>2 DEF CInv, InputInv, StageInv
<1>5. PICK m \in Matches : list' = Folded(m)
  BY DEF Rename
<1>6. ListFacts(Folded(m))
  BY <1>4, FoldedFacts DEF CInv
<1>7. ListFacts(list)'
  BY <1>2, <1>5, <1>6, ListStable
<1> QED
  BY <1>1, <1>3, <1>4, <1>7 DEF CInv, ListInv, Listed, AssembleInv, Assembling

-----------------------------------------------------------------------------
(* Analysing and assembling.                                               *)
LEMMA AnalyzeKeeps == CInv /\ Analyze => CInv'
<1> SUFFICES ASSUME CInv, Analyze PROVE CInv'
  OBVIOUS
<1>1. /\ UNCHANGED vars /\ list' = list /\ result' = result /\ lines' = lines
      /\ stage = "analyze" /\ stage' \in {"error", "assemble"}
  BY DEF Analyze
<1>2. UNCHANGED <<old, new, pc>>
  BY <1>1 DEF vars
<1>3. IInv'
  BY <1>1, PairingStep DEF CInv
<1>4. InputInv' /\ StageInv'
  BY <1>1, <1>2 DEF CInv, InputInv, StageInv
<1>5. ListFacts(list) /\ ListFacts(list)'
  <2>1. ListFacts(list)
    BY <1>1 DEF CInv, ListInv, Listed
  <2> QED
    BY <1>1, <1>2, <2>1, ListStable
<1>6. result = <<>> /\ lines = <<>>
  BY <1>1 DEF CInv, AssembleInv, Assembling
<1>7. AssembleInv'
  <2>1. CASE stage' = "error"
    BY <1>1, <1>6, <2>1 DEF AssembleInv, Assembling
  <2>2. CASE stage' = "assemble"
    <3>1. byName' = [n \in {list[k].name : k \in NonIdentical} |-> Analysed(list[Max(Named(n))])]
      BY <2>2 DEF Analyze
    <3>2. ASSUME NEW k \in NonIdentical PROVE byName'[list[k].name] = Analysed(list[k])
      <4>1. k \in Nat /\ k \in DOMAIN list
        BY <1>5 DEF NonIdentical, ListFacts
      <4>2. Named(list[k].name) = {k}
        BY <1>5, <4>1 DEF Named, NonIdentical, ListFacts, NamesApart
      <4>3. Max({k}) = k
        BY <4>1 DEF Max
      <4> QED
        BY <3>1, <4>2, <4>3
    <3>3. NonIdentical' = NonIdentical
      BY <1>1 DEF NonIdentical
    <3>4. ByNameInv'
      <4>1. DOMAIN byName' = {list[k].name : k \in NonIdentical}
        BY <3>1
      <4>2. \A k \in NonIdentical : PM!FailingSide(Kind(list[k])) = "none"
        BY <2>2 DEF Analyze
      <4> QED
        BY <1>1, <3>2, <3>3, <4>1, <4>2 DEF ByNameInv
    <3>5. result' = <<>> /\ lines' = <<>> /\ Len(list') \in Nat
      BY <1>1, <1>5, <1>6 DEF ListFacts
    <3>6. ResultInv'
      BY <3>5 DEF ResultInv, Scripted
    <3> QED
      BY <2>2, <3>4, <3>6 DEF AssembleInv, Assembling
  <2> QED
    BY <1>1, <2>1, <2>2
<1> QED
  BY <1>3, <1>4, <1>5, <1>7 DEF CInv, ListInv

LEMMA JoinedStable ==
  ASSUME UNCHANGED <<old, new, list, byName>>
  PROVE  /\ JoinedRows' = JoinedRows
         /\ \A k \in DOMAIN list : Joined(list[k])' = Joined(list[k])
<1>1. ASSUME NEW k \in DOMAIN list PROVE Joined(list[k])' = Joined(list[k])
  BY DEF Joined, Fresh, FirstDef, Names, SizeDelta, SizeOf
<1> QED
  BY <1>1 DEF JoinedRows

LEMMA AssembleKeeps == CInv /\ Assemble => CInv'
<1> SUFFICES ASSUME CInv, Assemble PROVE CInv'
  OBVIOUS
<1> DEFINE n == Len(result) + 1
           fp == list[n]
           Here == fp.name \in DOMAIN byName /\ ~byName[fp.name].noise /\ fp.state = "changed"
<1>1. /\ UNCHANGED vars /\ UNCHANGED <<stage, list, byName>>
      /\ stage = "assemble" /\ Len(result) < Len(list)
      /\ result' = Append(result, Joined(fp))
      /\ lines' = IF Here THEN Put(lines, fp.name, byName[fp.name].edits) ELSE lines
  BY DEF Assemble
<1>2. UNCHANGED <<old, new, pc>>
  BY <1>1 DEF vars
<1>3. IInv'
  BY <1>1, PairingStep DEF CInv
<1>4. InputInv' /\ StageInv'
  BY <1>1, <1>2 DEF CInv, InputInv, StageInv
<1>5. ListFacts(list) /\ ListFacts(list)'
  <2>1. ListFacts(list)
    BY <1>1 DEF CInv, ListInv, Listed
  <2> QED
    BY <1>1, <1>2, <2>1, ListStable
<1>6. ByNameInv /\ ResultInv
  BY <1>1 DEF CInv, AssembleInv, Assembling
<1>7. ByNameInv'
  BY <1>1, <1>6 DEF ByNameInv, NonIdentical
<1>8. /\ Len(result) \in Nat /\ DOMAIN result = 1..Len(result)
      /\ n \in DOMAIN list /\ n \notin DOMAIN result /\ DOMAIN result \subseteq DOMAIN list
  <2>1. Len(result) \in Nat /\ DOMAIN result = 1..Len(result)
    BY <1>6, LenProperties DEF ResultInv
  <2> QED
    BY <1>1, <1>5, <1>6, <2>1 DEF ResultInv, ListFacts
<1>9. /\ JoinedRows' = JoinedRows
      /\ \A k \in DOMAIN list : Joined(list[k])' = Joined(list[k])
  BY <1>1, <1>2, JoinedStable
<1>10. /\ result' \in Seq(JoinedRows) /\ Len(result') = n /\ DOMAIN result' = DOMAIN result \cup {n}
       /\ \A k \in DOMAIN result : result'[k] = result[k]
       /\ result'[n] = Joined(fp)
  <2>1. Joined(fp) \in JoinedRows
    BY <1>8 DEF JoinedRows
  <2>2. /\ result' \in Seq(JoinedRows) /\ Len(result') = Len(result) + 1
        /\ \A k \in 1..Len(result) : result'[k] = result[k]
        /\ result'[Len(result) + 1] = Joined(fp)
    BY <1>1, <1>6, <2>1, AppendProperties DEF ResultInv
  <2>3. DOMAIN result' = 1..(Len(result) + 1)
    BY <2>2, LenProperties
  <2> QED
    BY <1>8, <2>2, <2>3
<1>11. \A k \in DOMAIN result' : result'[k] = Joined(list[k])'
  <2> SUFFICES ASSUME NEW k \in DOMAIN result' PROVE result'[k] = Joined(list[k])'
    OBVIOUS
  <2>1. CASE k = n
    BY <1>8, <1>9, <1>10, <2>1
  <2>2. CASE k \in DOMAIN result
    BY <1>6, <1>8, <1>9, <1>10, <2>2 DEF ResultInv
  <2> QED
    BY <1>10, <2>1, <2>2
<1>12. Scripted' = Scripted \cup (IF Here THEN {n} ELSE {})
  BY <1>1, <1>10 DEF Scripted
<1>13. /\ DOMAIN lines' = {list[k].name : k \in Scripted'}
       /\ \A k \in Scripted' : lines'[list[k].name] = byName[list[k].name].edits
  <2>1. /\ DOMAIN lines = {list[k].name : k \in Scripted}
        /\ \A k \in Scripted : lines[list[k].name] = byName[list[k].name].edits
        /\ \A k \in Scripted : k \in DOMAIN list /\ k # n
    BY <1>6, <1>8 DEF ResultInv, Scripted
  <2>2. CASE ~Here
    <3>1. lines' = lines /\ Scripted' = Scripted
      BY <1>1, <1>12, <2>2
    <3> QED
      BY <2>1, <3>1
  <2>3. CASE Here
    <3> HIDE DEF n
    <3>1. /\ lines' = [x \in DOMAIN lines \cup {fp.name} |->
                         IF x = fp.name THEN byName[fp.name].edits ELSE lines[x]]
          /\ Scripted' = Scripted \cup {n}
      BY <1>1, <1>12, <2>3 DEF Put
    <3>2. ASSUME NEW k \in Scripted PROVE list[k].name # fp.name
      BY <1>5, <1>8, <2>1 DEF ListFacts, NamesApart
    <3> HIDE DEF Here
    <3> QED
      BY <2>1, <3>1, <3>2
  <2> QED
    BY <2>2, <2>3
<1>14. ResultInv'
  <2>1. Len(result') <= Len(list')
    BY <1>1, <1>5, <1>8, <1>10 DEF ListFacts
  <2>2. \A k \in Scripted' : list'[k] = list[k] /\ byName' = byName
    BY <1>1
  <2> HIDE DEF n, fp, Here
  <2> QED
    BY <1>1, <1>9, <1>10, <1>11, <1>13, <2>1 DEF ResultInv
<1> QED
  BY <1>1, <1>3, <1>4, <1>5, <1>7, <1>14 DEF CInv, ListInv, AssembleInv, Assembling

LEMMA FrameKeeps ==
  ASSUME CInv, UNCHANGED <<vars, list, byName, result, lines>>,
         \/ UNCHANGED stage
         \/ stage = "assemble" /\ stage' = "done" /\ Len(result) = Len(list)
  PROVE  CInv'
<1>1. UNCHANGED vars /\ UNCHANGED <<old, new, pc, list, byName, result, lines>>
  BY DEF vars
<1>2. IInv'
  BY <1>1, PairingStep DEF CInv
<1>3. InputInv' /\ StageInv'
  BY <1>1 DEF CInv, InputInv, StageInv
<1>4. ListInv'
  <2>1. stage' \in Listed => ListFacts(list)
    BY DEF CInv, ListInv, Listed
  <2> QED
    BY <1>1, <2>1, ListStable DEF ListInv
<1>5. ByNameInv => ByNameInv'
  BY <1>1 DEF ByNameInv, NonIdentical
<1>6. ASSUME ResultInv, stage' \in Assembling PROVE ResultInv'
  <2>1. JoinedRows' = JoinedRows /\ \A k \in DOMAIN list : Joined(list[k])' = Joined(list[k])
    BY <1>1, JoinedStable
  <2>2. Scripted' = Scripted
    BY <1>1 DEF Scripted
  <2>3. ListFacts(list)
    BY <1>6 DEF CInv, ListInv, Listed, Assembling
  <2>4. DOMAIN result \subseteq DOMAIN list
    BY <1>6, <2>3, LenProperties DEF ResultInv, ListFacts
  <2> QED
    BY <1>1, <1>6, <2>1, <2>2, <2>4 DEF ResultInv
<1>7. AssembleInv'
  BY <1>1, <1>5, <1>6 DEF CInv, AssembleInv, Assembling
<1> QED
  BY <1>2, <1>3, <1>4, <1>7 DEF CInv

(* The invariant of Compare, for every input and every choice of renames.  *)
LEMMA CompareInvariant == CompareSpec => []CInv
<1>1. ASSUME CInv, [CompareNext]_compareVars PROVE CInv'
  <2>1. CASE Return
    <3>1. UNCHANGED <<vars, list, byName, result, lines>>
          /\ stage = "assemble" /\ stage' = "done" /\ Len(result) = Len(list)
      BY <2>1 DEF Return
    <3> QED
      BY <1>1, <3>1, FrameKeeps
  <2>2. CASE UNCHANGED compareVars
    <3>1. UNCHANGED <<vars, list, byName, result, lines>> /\ UNCHANGED stage
      BY <2>2 DEF compareVars
    <3> QED
      BY <1>1, <3>1, FrameKeeps
  <2> QED
    BY <1>1, <2>1, <2>2, StartKeeps, PairUpKeeps, RenameKeeps, AnalyzeKeeps, AssembleKeeps
       DEF CompareNext
<1> QED
  BY InitC, <1>1, PTL DEF CompareSpec

-----------------------------------------------------------------------------
(* What is returned.                                                       *)
Noise(p) == Analysed(p).noise

LEMMA NoiseIs ==
  ASSUME NEW p, Told(p)
  PROVE  /\ Noise(p) => p.state = "changed"
         /\ p.state = "changed" => (Noise(p) <=> SameText(p.old, p.new) \/ Proven(p.old, p.new))
<1>1. Noise(p) <=> Kind(p).state = "changed" /\ (Kind(p).fast \/ Kind(p).equal)
  BY DEF Noise, Analysed, PM!AnalysisOf
<1>2. /\ Kind(p).state = p.state
      /\ Kind(p).fast <=> p.old # NoFunc /\ p.new # NoFunc /\ <<p.old.code, p.new.code>> \in Provable
      /\ Kind(p).equal <=> p.old # NoFunc /\ p.new # NoFunc /\ Text[p.old.code] = Text[p.new.code]
  BY DEF Kind
<1>3. p.state = "changed" => p.old # NoFunc /\ p.new # NoFunc
  BY DEF Told
<1> QED
  BY <1>1, <1>2, <1>3 DEF SameText, Proven

(* The pair of the result that a pair of the list becomes.                 *)
Becomes(p, q) ==
  /\ q.name = p.name /\ q.from = p.from /\ q.old = p.old /\ q.new = p.new
  /\ q.size = SizeDelta(p)
  /\ q.state = IF Noise(p) THEN "relocation-only" ELSE p.state
  /\ p.state = "identical" \/ Noise(p) => q.ops = NoOps /\ q.count = NoCount
  /\ p.state # "identical" /\ ~Noise(p) =>
       q.ops = Analysed(p).ops /\ q.count = Analysed(p).count

LEMMA JoinedFacts ==
  ASSUME ListFacts(list), ByNameInv, NEW k \in DOMAIN list
  PROVE  /\ Becomes(list[k], Joined(list[k]))
         /\ list[k].name \in DOMAIN byName <=> k \in NonIdentical
<1> DEFINE p == list[k]
           fr == Fresh(p)
<1>1. Told(p)
  BY DEF ListFacts
<1>2. p.name \in DOMAIN byName <=> k \in NonIdentical
  BY DEF ListFacts, NamesApart, ByNameInv, NonIdentical
<1>3. k \in NonIdentical <=> p.state # "identical"
  BY DEF NonIdentical
<1>4. k \in NonIdentical => byName[p.name] = Analysed(p)
  BY DEF ByNameInv
<1> HIDE DEF p
<1>5. /\ fr.name = p.name /\ fr.from = p.from /\ fr.old = p.old /\ fr.new = p.new
      /\ fr.size = SizeDelta(p) /\ fr.state = p.state
      /\ fr.ops = NoOps /\ fr.count = NoCount
  BY <1>1 DEF Fresh, Told, OldName
<1>6. fr = [name |-> fr.name, from |-> fr.from, old |-> fr.old, new |-> fr.new,
            state |-> fr.state, size |-> fr.size, ops |-> fr.ops, count |-> fr.count]
  BY DEF Fresh
<1>7. Joined(p) = IF p.name \notin DOMAIN byName THEN fr
                  ELSE IF byName[p.name].noise THEN [fr EXCEPT !.state = "relocation-only"]
                  ELSE [fr EXCEPT !.ops = byName[p.name].ops, !.count = byName[p.name].count]
  BY DEF Joined
<1> HIDE DEF fr
<1>8. Noise(p) => p.state = "changed"
  BY <1>1, NoiseIs
<1>9. CASE p.name \notin DOMAIN byName
  <2>1. p.state = "identical" /\ ~Noise(p)
    BY <1>2, <1>3, <1>8, <1>9
  <2>2. Joined(p) = fr
    BY <1>7, <1>9
  <2> QED
    BY <1>2, <1>5, <2>1, <2>2 DEF Becomes, p
<1>10. CASE p.name \in DOMAIN byName /\ Noise(p)
  <2>1. Joined(p) = [fr EXCEPT !.state = "relocation-only"]
    BY <1>2, <1>4, <1>7, <1>10 DEF Noise
  <2>2. Becomes(p, Joined(p))
    BY <1>5, <1>6, <1>10, <2>1 DEF Becomes
  <2> QED
    BY <1>2, <2>2 DEF p
<1>11. CASE p.name \in DOMAIN byName /\ ~Noise(p)
  <2>1. Joined(p) = [fr EXCEPT !.ops = Analysed(p).ops, !.count = Analysed(p).count]
    BY <1>2, <1>4, <1>7, <1>11 DEF Noise
  <2>2. Becomes(p, Joined(p))
    BY <1>2, <1>3, <1>5, <1>6, <1>11, <2>1 DEF Becomes
  <2> QED
    BY <1>2, <2>2 DEF p
<1> QED
  BY <1>9, <1>10, <1>11

(* What StatesMatchFunctions says of a pair.                               *)
StateMeans(p) ==
  LET oldName == IF p.from = NoName THEN p.name ELSE p.from
  IN  /\ p.old = IF p.state = "added" THEN NoFunc ELSE FirstDef(old, oldName)
      /\ p.new = IF p.state = "removed" THEN NoFunc ELSE FirstDef(new, p.name)
      /\ p.old # NoFunc \/ p.new # NoFunc
      /\ (p.old = NoFunc) = (p.state = "added")
      /\ (p.new = NoFunc) = (p.state = "removed")
      /\ p.state = "identical" => p.old = p.new
      /\ p.state = "relocation-only" => SameText(p.old, p.new) \/ Proven(p.old, p.new)
      /\ p.state = "changed" => ~SameText(p.old, p.new) /\ ~Proven(p.old, p.new)

LEMMA BecomesMeans ==
  ASSUME NEW p, NEW q, Told(p), Becomes(p, q)
  PROVE  StateMeans(q)
<1>1. /\ Noise(p) => p.state = "changed"
      /\ p.state = "changed" => (Noise(p) <=> SameText(p.old, p.new) \/ Proven(p.old, p.new))
  BY NoiseIs
<1>2. /\ q.name = p.name /\ q.from = p.from /\ q.old = p.old /\ q.new = p.new
      /\ q.state = IF Noise(p) THEN "relocation-only" ELSE p.state
  BY DEF Becomes
<1>3. /\ p.old = IF p.state = "added" THEN NoFunc ELSE FirstDef(old, OldName(p))
      /\ p.new = IF p.state = "removed" THEN NoFunc ELSE FirstDef(new, p.name)
      /\ (p.old = NoFunc) = (p.state = "added")
      /\ (p.new = NoFunc) = (p.state = "removed")
      /\ p.state = "identical" => p.old = p.new
      /\ p.state \in {"identical", "changed", "added", "removed"}
  BY DEF Told, State
<1>4. OldName(p) = IF q.from = NoName THEN q.name ELSE q.from
  BY <1>2 DEF OldName
<1>5. CASE Noise(p)
  BY <1>1, <1>2, <1>3, <1>4, <1>5 DEF StateMeans
<1>6. CASE ~Noise(p)
  BY <1>1, <1>2, <1>3, <1>4, <1>6 DEF StateMeans
<1> QED
  BY <1>5, <1>6

(* opcount.go: Delta has no zeros and is the difference at every mnemonic. *)
Counts(c) == \A op \in DOMAIN c : c[op] \in Nat \ {0}

LEMMA OpDeltaFacts ==
  ASSUME NEW o, NEW n, Counts(o), Counts(n)
  PROVE  /\ \A op \in DOMAIN OpDelta(o, n) : OpDelta(o, n)[op] \in Int \ {0}
         /\ \A op : At(OpDelta(o, n), op) = At(n, op) - At(o, op)
<1> DEFINE D == {op \in DOMAIN n : n[op] # At(o, op)} \cup (DOMAIN o \ DOMAIN n)
           d == OpDelta(o, n)
<1>1. d = [op \in D |-> At(n, op) - At(o, op)]
  BY DEF OpDelta
<1>2. ASSUME NEW op
      PROVE  /\ At(o, op) \in Nat /\ At(n, op) \in Nat
             /\ op \in D => At(n, op) # At(o, op)
             /\ op \notin D => At(n, op) = At(o, op)
  <2>1. op \in DOMAIN o => o[op] \in Nat \ {0}
    BY DEF Counts
  <2>2. op \in DOMAIN n => n[op] \in Nat \ {0}
    BY DEF Counts
  <2> QED
    BY <2>1, <2>2 DEF At
<1> HIDE DEF D, d
<1>3. ASSUME NEW op \in DOMAIN d PROVE d[op] \in Int \ {0}
  <2>1. op \in D /\ d[op] = At(n, op) - At(o, op)
    BY <1>1
  <2> QED
    BY <1>2, <2>1
<1>4. ASSUME NEW op PROVE At(d, op) = At(n, op) - At(o, op)
  <2>1. CASE op \in D
    BY <1>1, <2>1 DEF At
  <2>2. CASE op \notin D
    <3>1. At(d, op) = 0
      BY <1>1, <2>2 DEF At
    <3> QED
      BY <1>2, <2>2, <3>1
  <2> QED
    BY <2>1, <2>2
<1> QED
  BY <1>3, <1>4 DEF d

(* The lines of a body are counted, but for the BYTE lines.                *)
LEMMA LinesAreCounted ==
  ASSUME NEW c \in Code
  PROVE  /\ IsFiniteSet(Counted(c)) /\ Cardinality(Counted(c)) \in Nat
         /\ LineCount(c) = Cardinality(Counted(c)) + Padding(c)
         /\ Padding(c) \in Nat
<1> DEFINE D == DOMAIN Insts[c]
           P == {k \in D : Insts[c][k] = NoOp}
<1>1. c # NoFunc /\ Insts[c] \in Seq(STRING)
  BY ComparisonAssumption
<1>2. D = 1..Len(Insts[c]) /\ Len(Insts[c]) \in Nat
  BY <1>1, LenProperties
<1>3. IsFiniteSet(1..Len(Insts[c])) /\ Cardinality(1..Len(Insts[c])) = Len(Insts[c])
  BY <1>2, FS_Interval
<1>4. IsFiniteSet(D) /\ Cardinality(D) = Len(Insts[c])
  BY <1>2, <1>3
<1>5. Counted(c) \in SUBSET D /\ P \in SUBSET D /\ Counted(c) \cup P = D /\ Counted(c) \cap P = {}
  BY DEF Counted
<1>6. LineCount(c) = Len(Insts[c]) /\ Padding(c) = Cardinality(P)
  BY <1>1 DEF LineCount, Padding
<1> HIDE DEF D, P
<1>7. IsFiniteSet(Counted(c)) /\ IsFiniteSet(P)
  BY <1>4, <1>5, FS_Subset
<1> QED
  BY <1>4, <1>5, <1>6, <1>7, DisjointCount

LEMMA CountsOfBodies ==
  ASSUME NEW c \in Code
  PROVE  Counts(Ops[c]) /\ Count[c] \in [Counter -> Nat]
<1> DEFINE M == {Insts[c][k] : k \in Counted(c)}
           Those(op) == {k \in Counted(c) : Insts[c][k] = op}
<1>1. Ops[c] = [op \in M |-> Cardinality(Those(op))]
  BY DEF Ops
<1>2. ASSUME NEW op \in M PROVE Cardinality(Those(op)) \in Nat \ {0}
  <2>1. Those(op) \in SUBSET Counted(c) /\ Those(op) # {}
    OBVIOUS
  <2>2. IsFiniteSet(Those(op))
    BY <2>1, LinesAreCounted, FS_Subset
  <2> QED
    BY <2>1, <2>2, FS_EmptySet, FS_CardinalityType
<1>3. Counts(Ops[c])
  BY <1>1, <1>2 DEF Counts
<1>4. Cardinality(Counted(c)) \in Nat
  BY LinesAreCounted
<1>5. Traffic[c]["spill"] \in Nat /\ Traffic[c]["slot"] \in Nat
  BY ComparisonAssumption
<1>6. Count[c] = [k \in Counter |-> IF k = "inst" THEN Cardinality(Counted(c)) ELSE Traffic[c][k]]
  BY DEF Count
<1>7. Count[c] \in [Counter -> Nat]
  BY <1>4, <1>5, <1>6 DEF Counter
<1> QED
  BY <1>3, <1>7

LEMMA CountsOfOps ==
  ASSUME NEW f \in MaybeFunc
  PROVE  Counts(OpsOf(f)) /\ \A c \in Counter : CountOf(f)[c] \in Nat
<1>1. CASE f = NoFunc
  <2>1. OpsOf(f) = <<>> /\ CountOf(f) = [c \in Counter |-> 0]
    BY <1>1 DEF OpsOf, NoOps, CountOf, NoCount
  <2> QED
    BY <2>1 DEF Counts
<1>2. CASE f # NoFunc
  <2>1. f.code \in Code
    BY <1>2 DEF MaybeFunc, Func
  <2>2. OpsOf(f) = Ops[f.code] /\ CountOf(f) = Count[f.code]
    BY <1>2 DEF OpsOf, CountOf
  <2>3. Counts(Ops[f.code]) /\ Count[f.code] \in [Counter -> Nat]
    BY <2>1, CountsOfBodies
  <2> QED
    BY <2>2, <2>3
<1> QED
  BY <1>1, <1>2

(* What DeltasAreOwn says of a pair, and of what it counts.                *)
DeltaOwn(p) ==
  /\ p.size = SizeOf(p.new) - SizeOf(p.old)
  /\ \A op \in UNION {DOMAIN Ops[c] : c \in Code} :
       At(p.ops, op) = IF p.state \in CodeStates
                       THEN At(OpsOf(p.new), op) - At(OpsOf(p.old), op) ELSE 0
  /\ \A c \in Counter :
       p.count[c] = IF p.state \in CodeStates
                    THEN CountOf(p.new)[c] - CountOf(p.old)[c] ELSE 0
NoZeros(p) == \A op \in DOMAIN p.ops : p.ops[op] \in Int \ {0}

LEMMA BecomesOwn ==
  ASSUME NEW p, NEW q, Told(p), Becomes(p, q)
  PROVE  DeltaOwn(q) /\ NoZeros(q)
<1>1. /\ q.old = p.old /\ q.new = p.new /\ q.size = SizeDelta(p)
      /\ q.state = IF Noise(p) THEN "relocation-only" ELSE p.state
      /\ p.state = "identical" \/ Noise(p) => q.ops = NoOps /\ q.count = NoCount
      /\ p.state # "identical" /\ ~Noise(p) =>
           q.ops = Analysed(p).ops /\ q.count = Analysed(p).count
  BY DEF Becomes
<1>2. p.state \in State /\ p.old \in MaybeFunc /\ p.new \in MaybeFunc
  BY DEF Told
<1>3. q.size = SizeOf(q.new) - SizeOf(q.old)
  BY <1>1 DEF SizeDelta
<1>4. CASE p.state = "identical" \/ Noise(p)
  <2>1. q.ops = <<>> /\ q.count = [c \in Counter |-> 0] /\ q.state \notin CodeStates
    BY <1>1, <1>4 DEF NoOps, NoCount, CodeStates
  <2>2. \A op : At(q.ops, op) = 0
    BY <2>1 DEF At
  <2>3. NoZeros(q)
    BY <2>1 DEF NoZeros
  <2> QED
    BY <1>3, <2>1, <2>2, <2>3 DEF DeltaOwn
<1>5. CASE p.state # "identical" /\ ~Noise(p)
  <2>1. ~PM!FastPath(Kind(p))
    BY <1>5 DEF PM!FastPath, Noise, Analysed, PM!AnalysisOf
  <2>2. /\ Analysed(p).ops = OpDelta(OpsOf(p.old), OpsOf(p.new))
        /\ Analysed(p).count = [c \in Counter |-> CountOf(p.new)[c] - CountOf(p.old)[c]]
    BY <2>1 DEF Analysed, PM!AnalysisOf
  <2>3. q.state \in CodeStates
    BY <1>1, <1>2, <1>5 DEF State, CodeStates
  <2>4. Counts(OpsOf(p.old)) /\ Counts(OpsOf(p.new))
    BY <1>2, CountsOfOps
  <2>5. /\ \A op : At(q.ops, op) = At(OpsOf(p.new), op) - At(OpsOf(p.old), op)
        /\ NoZeros(q)
    BY <1>1, <1>5, <2>2, <2>4, OpDeltaFacts DEF NoZeros
  <2>6. \A c \in Counter : q.count[c] = CountOf(q.new)[c] - CountOf(q.old)[c]
    BY <1>1, <1>5, <2>2
  <2> QED
    BY <1>1, <1>3, <2>3, <2>5, <2>6 DEF DeltaOwn
<1> QED
  BY <1>4, <1>5

LEMMA ResultFacts ==
  ASSUME CInv, stage \in Assembling, NEW k \in DOMAIN result
  PROVE  /\ k \in DOMAIN list /\ Told(list[k]) /\ Becomes(list[k], result[k])
         /\ k \in Scripted <=> result[k].state = "changed"
         /\ k \in Scripted => /\ lines[list[k].name] = <<list[k].old.code, list[k].new.code>>
                              /\ lines[list[k].name] \in Seq(Code)
<1> DEFINE p == list[k]
           q == result[k]
<1>1. ByNameInv /\ ResultInv /\ ListFacts(list)
  BY DEF CInv, AssembleInv, ListInv, Listed, Assembling
<1>2. k \in DOMAIN list
  <2>1. DOMAIN result = 1..Len(result) /\ Len(result) \in Nat
    BY <1>1, LenProperties DEF ResultInv
  <2> QED
    BY <1>1, <2>1 DEF ResultInv, ListFacts
<1>3. Told(p)
  BY <1>1, <1>2 DEF ListFacts
<1>4. Becomes(p, q) /\ (p.name \in DOMAIN byName <=> k \in NonIdentical)
  BY <1>1, <1>2, JoinedFacts DEF ResultInv
<1>5. k \in NonIdentical => byName[p.name] = Analysed(p)
  BY <1>1 DEF ByNameInv
<1>6. k \in NonIdentical <=> p.state # "identical"
  BY <1>2 DEF NonIdentical
<1>7. Noise(p) => p.state = "changed"
  BY <1>3, NoiseIs
<1>8. k \in Scripted <=> p.state = "changed" /\ ~Noise(p)
  BY <1>4, <1>5, <1>6 DEF Scripted, Noise
<1>9. k \in Scripted <=> q.state = "changed"
  BY <1>4, <1>8 DEF Becomes
<1>10. ASSUME k \in Scripted
       PROVE  lines[p.name] = <<p.old.code, p.new.code>> /\ lines[p.name] \in Seq(Code)
  <2>1. p.state = "changed" /\ ~Noise(p) /\ k \in NonIdentical
    BY <1>6, <1>8, <1>10
  <2>2. Kind(p).state = "changed"
    BY <2>1 DEF Kind
  <2>3. Analysed(p).edits = <<p.old.code, p.new.code>>
    BY <2>1, <2>2 DEF Noise, Analysed, PM!AnalysisOf
  <2>4. lines[p.name] = byName[p.name].edits
    BY <1>1, <1>10 DEF ResultInv
  <2>5. lines[p.name] = <<p.old.code, p.new.code>>
    BY <1>5, <2>1, <2>3, <2>4
  <2>6. p.old \in Func /\ p.new \in Func
    BY <1>3, <2>1 DEF Told, MaybeFunc
  <2>7. p.old.code \in Code /\ p.new.code \in Code
    BY <2>6 DEF Func
  <2> QED
    BY <2>5, <2>7
<1> QED
  BY <1>2, <1>3, <1>4, <1>9, <1>10

LEMMA TypesHold == CInv => CompareTypeOK
<1> SUFFICES ASSUME CInv PROVE CompareTypeOK
  OBVIOUS
<1>0. Shape /\ SeenInv /\ InputInv /\ StageInv /\ AssembleInv
  BY DEF CInv, IInv
<1>1. TypeOK
  <2>1. DOMAIN new = 1..Len(new) /\ Len(new) \in Nat /\ DOMAIN old = 1..Len(old) /\ Len(old) \in Nat
    BY <1>0, LenProperties DEF Shape
  <2>2. CASE pc = "new"
    <3>1. 1..(i - 1) \subseteq DOMAIN new
      BY <1>0, <2>1, <2>2 DEF SeenInv, Shape
    <3> QED
      BY <1>0, <2>2, <3>1 DEF SeenInv, Shape, InputInv, TypeOK, Names
  <2>3. CASE pc = "old"
    <3>1. 1..(i - 1) \subseteq DOMAIN old
      BY <1>0, <2>1, <2>3 DEF SeenInv, Shape
    <3> QED
      BY <1>0, <2>3, <3>1 DEF SeenInv, Shape, InputInv, TypeOK, Names
  <2>4. CASE pc = "done"
    BY <1>0, <2>4 DEF SeenInv, Shape, InputInv, TypeOK
  <2> QED
    BY <1>0, <2>2, <2>3, <2>4 DEF Shape
<1>2. CASE stage \notin Assembling
  <2>1. result = <<>> /\ lines = <<>>
    BY <1>0, <1>2 DEF AssembleInv
  <2>2. DOMAIN result = {} /\ DOMAIN lines = {}
    BY <2>1
  <2> QED
    BY <1>0, <1>1, <2>1, <2>2 DEF StageInv, CompareTypeOK
<1>3. CASE stage \in Assembling
  <2>1. ASSUME NEW k \in DOMAIN result
        PROVE  /\ result[k].state \in DiffState
               /\ result[k].old \in MaybeFunc /\ result[k].new \in MaybeFunc
               /\ NoZeros(result[k])
    <3>1. Told(list[k]) /\ Becomes(list[k], result[k])
      BY <1>3, ResultFacts
    <3>2. NoZeros(result[k])
      BY <3>1, BecomesOwn
    <3> QED
      BY <3>1, <3>2 DEF Told, Becomes, State, DiffState
  <2>2. ASSUME NEW n \in DOMAIN lines PROVE lines[n] \in Seq(Code)
    <3>1. PICK k \in Scripted : n = list[k].name
      BY <1>0, <1>3 DEF AssembleInv, ResultInv
    <3>2. k \in DOMAIN result
      BY DEF Scripted
    <3> QED
      BY <1>3, <3>1, <3>2, ResultFacts
  <2>3. stage # "error"
    BY <1>3 DEF Assembling
  <2> QED
    BY <1>0, <1>1, <2>1, <2>2, <2>3 DEF StageInv, CompareTypeOK, NoZeros
<1> QED
  BY <1>2, <1>3

(* compare.go: whatever Compare returns, the state of each pair is true of *)
(* the two functions it shows, also after renames and for repeated names,  *)
(* where relocation-only is what the text or the fast path made it: of the *)
(* fast path's verdicts nothing is assumed but that the sizes agree.       *)
THEOREM StatesTellTheTruth == CompareSpec => []StatesMatchFunctions
<1>1. CInv => StatesMatchFunctions
  <2> SUFFICES ASSUME CInv PROVE StatesMatchFunctions
    OBVIOUS
  <2>1. CompareTypeOK
    BY TypesHold
  <2>2. ASSUME Done, NEW k \in DOMAIN result PROVE StateMeans(result[k])
    <3>1. Told(list[k]) /\ Becomes(list[k], result[k])
      BY <2>2, ResultFacts DEF Done, Assembling
    <3> QED
      BY <3>1, BecomesMeans
  <2> QED
    BY <2>1, <2>2 DEF StatesMatchFunctions, StateMeans
<1> QED
  BY <1>1, CompareInvariant, PTL

(* Compare joins analyses to pairs by name, after renames: every pair gets *)
(* the deltas of its own two functions, a changed one the script of its own*)
(* bodies, and no other pair a script.                                     *)
THEOREM PairsHaveTheirOwnDeltas == CompareSpec => []DeltasAreOwn
<1>1. CInv => DeltasAreOwn
  <2> SUFFICES ASSUME CInv, Done PROVE DeltasAreOwn
    BY DEF DeltasAreOwn
  <2>1. stage \in Assembling
    BY DEF Done, Assembling
  <2>2. ASSUME NEW k \in DOMAIN result
        PROVE  /\ DeltaOwn(result[k])
               /\ result[k].state = "changed" =>
                    /\ result[k].name \in DOMAIN lines
                    /\ lines[result[k].name] = <<result[k].old.code, result[k].new.code>>
    <3>1. /\ Told(list[k]) /\ Becomes(list[k], result[k])
          /\ k \in Scripted <=> result[k].state = "changed"
          /\ k \in Scripted => lines[list[k].name] = <<list[k].old.code, list[k].new.code>>
      BY <2>1, ResultFacts
    <3>2. DeltaOwn(result[k])
      BY <3>1, BecomesOwn
    <3>3. DOMAIN lines = {list[j].name : j \in Scripted}
      BY <2>1 DEF CInv, AssembleInv, ResultInv
    <3> QED
      BY <3>1, <3>2, <3>3 DEF Becomes
  <2>3. DOMAIN lines = {result[k].name : k \in {j \in DOMAIN result : result[j].state = "changed"}}
    <3>1. Scripted = {j \in DOMAIN result : result[j].state = "changed"}
      <4>1. Scripted \subseteq DOMAIN result
        BY DEF Scripted
      <4> QED
        BY <2>1, <4>1, ResultFacts
    <3>2. ASSUME NEW k \in Scripted PROVE list[k].name = result[k].name
      <4>1. k \in DOMAIN result
        BY DEF Scripted
      <4> QED
        BY <2>1, <4>1, ResultFacts DEF Becomes
    <3>3. DOMAIN lines = {list[j].name : j \in Scripted}
      BY <2>1 DEF CInv, AssembleInv, ResultInv
    <3> QED
      BY <3>1, <3>2, <3>3
  <2> QED
    BY <2>2, <2>3 DEF DeltasAreOwn, DeltaOwn
<1> QED
  BY <1>1, CompareInvariant, PTL

(* What Rankings' reader is told of one pair of a returned Diff.           *)
LEMMA ScriptExplains ==
  ASSUME CInv, Done, NEW k \in DOMAIN result
  PROVE  LET p == result[k]
             r == FuncReport(p)
         IN  /\ ~r.diff.fails
             /\ r.diff = IF p.state \in CodeStates THEN Script(Side(p.old), Side(p.new)) ELSE NoScript
             /\ LineCount(r.diff.inserts) - LineCount(r.diff.deletes)
                  = r.count.inst + (Padding(r.diff.inserts) - Padding(r.diff.deletes))
<1> DEFINE p == result[k]
           l == list[k]
           d == FuncReport(p).diff
           c == FuncReport(p).count
<1>1. /\ k \in DOMAIN list /\ Told(l) /\ Becomes(l, p)
      /\ p.state = "changed" => lines[l.name] = <<l.old.code, l.new.code>>
  BY ResultFacts DEF Done, Assembling
<1>2. p.state \in DiffState /\ p.old \in MaybeFunc /\ p.new \in MaybeFunc
  BY TypesHold DEF CompareTypeOK
<1>3. StateMeans(p) /\ DeltaOwn(p) /\ p.name = l.name /\ p.old = l.old /\ p.new = l.new
  BY <1>1, BecomesMeans, BecomesOwn DEF Becomes
<1>4. p.state \in {"added", "removed"} => Kind(l).state = p.state /\ PM!FailingSide(Kind(l)) = "none"
  <2>1. p.state \in {"added", "removed"} => l.state = p.state
    BY <1>1 DEF Becomes
  <2>2. l.state # "identical" => k \in NonIdentical
    BY <1>1 DEF NonIdentical
  <2>3. \A j \in NonIdentical : PM!FailingSide(Kind(list[j])) = "none"
    BY DEF CInv, AssembleInv, Assembling, Done, ByNameInv
  <2> QED
    BY <2>1, <2>2, <2>3 DEF Kind
<1>5. /\ p.state = "added" => p.new.code \notin Undecodable
      /\ p.state = "removed" => p.old.code \notin Undecodable
  <2>1. /\ Kind(l).oldOK <=> (l.old # NoFunc => l.old.code \notin Undecodable)
        /\ Kind(l).newOK <=> (l.new # NoFunc => l.new.code \notin Undecodable)
    BY DEF Kind
  <2>2. /\ p.state = "added" => p.new # NoFunc /\ Kind(l).newOK
        /\ p.state = "removed" => p.old # NoFunc /\ Kind(l).oldOK
    BY <1>3, <1>4 DEF StateMeans, PM!FailingSide, PM!FastPath, PM!HasOld, PM!HasNew
  <2> QED
    BY <1>3, <2>1, <2>2
<1>6. ASSUME NEW f \in MaybeFunc
      PROVE  /\ LineCount(Side(f)) = CountOf(f)["inst"] + Padding(Side(f))
             /\ CountOf(f)["inst"] \in Nat /\ Padding(Side(f)) \in Nat
  <2>1. CASE f = NoFunc
    BY <2>1 DEF LineCount, Padding, Side, CountOf, NoCount, Counter
  <2>2. CASE f # NoFunc
    <3>1. f.code \in Code /\ Side(f) = f.code /\ CountOf(f) = Count[f.code]
      BY <2>2 DEF MaybeFunc, Func, Side, CountOf
    <3>2. Count[f.code]["inst"] = Cardinality(Counted(f.code))
      BY <3>1 DEF Count, Counter
    <3> QED
      BY <3>1, <3>2, LinesAreCounted
  <2> QED
    BY <2>1, <2>2
<1>7. LineCount(NoFunc) = 0 /\ Padding(NoFunc) = 0
  BY DEF LineCount, Padding
<1>8. d = (IF p.state \in CodeStates THEN LinesOf(p) ELSE NoScript)
      /\ c = (IF p.state \in CodeStates THEN p.count ELSE NoCount)
  BY DEF FuncReport
<1>9. p.state \in CodeStates => c["inst"] = CountOf(p.new)["inst"] - CountOf(p.old)["inst"]
  BY <1>3, <1>8 DEF DeltaOwn, Counter
<1> HIDE DEF p, l, d, c
<1>10. CASE p.state \notin CodeStates
  BY <1>7, <1>8, <1>10 DEF CodeStates, NoScript, NoCount, Counter, p, d, c
<1>11. CASE p.state \in CodeStates
  <2>1. d = Script(Side(p.old), Side(p.new))
    <3>1. CASE p.state = "changed"
      BY <1>1, <1>3, <1>8, <3>1 DEF LinesOf, CodeStates, StateMeans, Side
    <3>2. CASE p.state = "added"
      BY <1>3, <1>5, <1>8, <3>2 DEF LinesOf, Listing, CodeStates, StateMeans, Side
    <3>3. CASE p.state = "removed"
      BY <1>3, <1>5, <1>8, <3>3 DEF LinesOf, Listing, CodeStates, StateMeans, Side
    <3> QED
      BY <1>11, <3>1, <3>2, <3>3 DEF CodeStates
  <2>2. d.fails = FALSE /\ d.deletes = Side(p.old) /\ d.inserts = Side(p.new)
    BY <2>1 DEF Script
  <2>3. LineCount(d.inserts) - LineCount(d.deletes) = c["inst"] + (Padding(d.inserts) - Padding(d.deletes))
    BY <1>2, <1>6, <1>9, <1>11, <2>2
  <2> QED
    BY <1>11, <2>1, <2>2, <2>3 DEF p, d, c
<1> QED
  BY <1>10, <1>11

(* compare.go:236-239: a changed pair has the script that Compare kept, an *)
(* added or removed one is decoded anew, which cannot fail any more; each  *)
(* is of its pair's own sides, and the lines it adds are the instruction   *)
(* delta of its pair and the BYTE lines, which that delta passes over      *)
(* (ixdiff.go:257-266).                                                    *)
THEOREM ScriptsAreTheirPairs == CompareSpec => []ScriptsExplainDeltas
<1>1. CInv => ScriptsExplainDeltas
  BY ScriptExplains DEF ScriptsExplainDeltas
<1> QED
  BY <1>1, CompareInvariant, PTL

-----------------------------------------------------------------------------
(* The list has each function of either binary on one side of one pair,    *)
(* also after renames.                                                     *)
Whole(ls) ==
  /\ \A n \in Names(old) : \E k \in DOMAIN ls : ls[k].state # "added" /\ OldName(ls[k]) = n
  /\ \A n \in Names(new) : \E k \in DOMAIN ls : ls[k].state # "removed" /\ ls[k].name = n
  /\ \A j, k \in DOMAIN ls :
       ls[j].state # "added" /\ ls[k].state # "added" /\ OldName(ls[j]) = OldName(ls[k]) => j = k
  /\ \A k \in DOMAIN ls : ls[k].state = "removed" => ls[k].from = NoName

WInv == stage \in Listed => Whole(list)

(* What a pair becomes under the matches m, by cases.                      *)
LEMMA MergedCases ==
  ASSUME IInv, pc = "done", NEW m \in Matches, NEW k \in DOMAIN pairs
  PROVE  LET p == pairs[k]
             q == Merged(m, p)
         IN  /\ q.name = p.name
             /\ p.name \in Range(m) =>
                  /\ q.from \in DOMAIN m /\ m[q.from] = p.name
                  /\ q.state = "changed" /\ OldName(q) = q.from /\ p.state = "added"
             /\ p.name \notin Range(m) =>
                  q.from = NoName /\ q.state = p.state /\ OldName(q) = p.name
<1> DEFINE p == pairs[k]
           q == Merged(m, p)
           from == CHOOSE r \in DOMAIN m : m[r] = p.name
<1>1. PICK S \in SUBSET NamesIn("removed") : m \in Injection(S, NamesIn("added"))
  BY DEF Matches
<1>2. DOMAIN m = S /\ \A r \in S : m[r] \in NamesIn("added")
  BY <1>1 DEF Injection
<1>3. CASE p.name \in Range(m)
  <2>1. from \in DOMAIN m /\ m[from] = p.name
    BY <1>3 DEF Range
  <2>2. q = [name |-> p.name, from |-> from, state |-> "changed",
             old |-> FirstDef(old, from), new |-> p.new]
    BY <1>3 DEF Merged
  <2> HIDE DEF from, q
  <2>3. PICK j \in DOMAIN pairs : pairs[j].name = from
    BY <1>2, <2>1 DEF NamesIn
  <2>4. from \in Nat
    BY <2>3, PairFacts
  <2>5. q.name = p.name /\ q.from = from /\ q.state = "changed"
    BY <2>2
  <2>6. OldName(q) = from
    BY <2>4, <2>5, ComparisonAssumption DEF OldName, Name
  <2>7. p.state = "added"
    <3>1. PICK l \in DOMAIN pairs : pairs[l].name = p.name /\ pairs[l].state = "added"
      BY <1>2, <2>1 DEF NamesIn
    <3>2. l = k
      BY <3>1 DEF IInv, OnceInv
    <3> QED
      BY <3>1, <3>2
  <2> HIDE DEF p
  <2> QED
    BY <1>3, <2>1, <2>5, <2>6, <2>7 DEF p, q
<1>4. CASE p.name \notin Range(m)
  <2>1. q = [name |-> p.name, from |-> NoName, state |-> p.state, old |-> p.old, new |-> p.new]
    BY <1>4 DEF Merged
  <2> HIDE DEF q
  <2>2. q.name = p.name /\ q.from = NoName /\ q.state = p.state /\ OldName(q) = p.name
    BY <2>1 DEF OldName
  <2> HIDE DEF p
  <2> QED
    BY <1>4, <2>2 DEF p, q
<1> QED
  BY <1>3, <1>4

(* The matches are one to one, between names that were removed and added.  *)
LEMMA MatchFacts ==
  ASSUME IInv, pc = "done", NEW m \in Matches
  PROVE  /\ \A r, s \in DOMAIN m : m[r] = m[s] => r = s
         /\ \A r \in DOMAIN m : /\ \E k \in DOMAIN pairs : pairs[k].name = r /\ pairs[k].state = "removed"
                                /\ \E k \in DOMAIN pairs : pairs[k].name = m[r] /\ pairs[k].state = "added"
                                /\ m[r] \in Range(m)
<1>1. PICK S \in SUBSET NamesIn("removed") : m \in Injection(S, NamesIn("added"))
  BY DEF Matches
<1>2. /\ DOMAIN m = S /\ \A r \in S : m[r] \in NamesIn("added")
      /\ \A r, s \in S : m[r] = m[s] => r = s
  BY <1>1 DEF Injection, IsInjective
<1>3. \A r \in DOMAIN m : m[r] \in Range(m)
  BY DEF Range
<1> QED
  BY <1>2, <1>3 DEF NamesIn

LEMMA NamedSides ==
  ASSUME IInv, pc = "done", NEW n
  PROVE  /\ n \in Names(old) => \E k \in DOMAIN pairs : pairs[k].name = n /\ pairs[k].state # "added"
         /\ n \in Names(new) => \E k \in DOMAIN pairs : pairs[k].name = n /\ pairs[k].state # "removed"
<1>0. old \in Seq(Func) /\ new \in Seq(Func) /\ PairsByName
  BY PairedByName DEF IInv, Shape
<1>1. \A q \in Func : q # NoFunc
  BY PairingAssumption
<1>2. ASSUME n \in Names(old)
      PROVE  \E k \in DOMAIN pairs : pairs[k].name = n /\ pairs[k].state # "added"
  <2>1. PICK k \in DOMAIN pairs : pairs[k].name = n
    BY <1>0, <1>2 DEF PairsByName
  <2>2. FirstDef(old, n) # NoFunc
    BY <1>0, <1>1, <1>2, FirstDefType
  <2>3. pairs[k].old = FirstDef(old, n) /\ pairs[k].state = TriageState(pairs[k].old, pairs[k].new)
    BY <2>1, PairFacts
  <2> QED
    BY <2>1, <2>2, <2>3 DEF TriageState
<1>3. ASSUME n \in Names(new)
      PROVE  \E k \in DOMAIN pairs : pairs[k].name = n /\ pairs[k].state # "removed"
  <2>1. PICK k \in DOMAIN pairs : pairs[k].name = n
    BY <1>0, <1>3 DEF PairsByName
  <2>2. FirstDef(new, n) # NoFunc
    BY <1>0, <1>1, <1>3, FirstDefType
  <2>3. pairs[k].new = FirstDef(new, n) /\ pairs[k].state = TriageState(pairs[k].old, pairs[k].new)
    BY <2>1, PairFacts
  <2> QED
    BY <2>1, <2>2, <2>3 DEF TriageState
<1> QED
  BY <1>2, <1>3

LEMMA FoldedWhole ==
  ASSUME IInv, pc = "done", NEW m \in Matches
  PROVE  Whole(Folded(m))
<1> DEFINE kept == {k \in DOMAIN pairs : pairs[k].name \notin DOMAIN m}
           n == Cardinality(kept)
           ls == Folded(m)
           at(k) == Nth(kept, k)
<1>1. kept \in SUBSET Nat /\ IsFiniteSet(kept)
  <2>1. DOMAIN pairs = 1..Len(pairs) /\ Len(pairs) \in Nat
    BY LenProperties DEF IInv, Shape
  <2>2. IsFiniteSet(1..Len(pairs))
    BY <2>1, FS_Interval
  <2>3. kept \in SUBSET (1..Len(pairs))
    BY <2>1
  <2> HIDE DEF kept
  <2>4. IsFiniteSet(kept)
    BY <2>2, <2>3, FS_Subset
  <2> QED
    BY <2>1, <2>3, <2>4
<1>2. ls = [k \in 1..n |-> Merged(m, pairs[at(k)])] /\ DOMAIN ls = 1..n
  BY DEF Folded
<1>3. ASSUME NEW k \in kept PROVE k \in DOMAIN pairs /\ pairs[k].name \notin DOMAIN m
  OBVIOUS
<1>4. ASSUME NEW k \in DOMAIN pairs, pairs[k].name \notin DOMAIN m PROVE k \in kept
  BY <1>4
<1> HIDE DEF kept, ls
<1>5. /\ \A k \in 1..n : at(k) \in kept
      /\ \A k, l \in 1..n : at(k) = at(l) => k = l
      /\ \A x \in kept : \E k \in 1..n : at(k) = x
  BY <1>1, NthFacts, NthIsOnto
<1> HIDE DEF n, at
<1>6. ASSUME NEW k \in 1..n
      PROVE  LET p == pairs[at(k)]
                 q == ls[k]
             IN  /\ q.name = p.name /\ p.name \notin DOMAIN m
                 /\ p.name \in Range(m) =>
                      /\ q.from \in DOMAIN m /\ m[q.from] = p.name
                      /\ q.state = "changed" /\ OldName(q) = q.from /\ p.state = "added"
                 /\ p.name \notin Range(m) =>
                      q.from = NoName /\ q.state = p.state /\ OldName(q) = p.name
  <2>1. at(k) \in DOMAIN pairs /\ pairs[at(k)].name \notin DOMAIN m /\ ls[k] = Merged(m, pairs[at(k)])
    BY <1>2, <1>3, <1>5
  <2> QED
    BY <2>1, MergedCases
<1>7. ASSUME NEW j \in DOMAIN pairs, NEW k \in DOMAIN pairs, pairs[j].name = pairs[k].name PROVE j = k
  BY <1>7 DEF IInv, OnceInv
<1>8. ASSUME NEW x \in Names(old)
      PROVE  \E k \in 1..n : ls[k].state # "added" /\ OldName(ls[k]) = x
  <2>1. PICK j \in DOMAIN pairs : pairs[j].name = x /\ pairs[j].state # "added"
    BY NamedSides
  <2>2. CASE x \notin DOMAIN m
    <3>1. PICK k \in 1..n : at(k) = j
      BY <1>4, <1>5, <2>1, <2>2
    <3> QED
      BY <1>6, <2>1, <3>1
  <2>3. CASE x \in DOMAIN m
    <3>1. PICK l \in DOMAIN pairs : pairs[l].name = m[x] /\ pairs[l].state = "added"
      BY <2>3, MatchFacts
    <3>2. m[x] \notin DOMAIN m
      <4> SUFFICES ASSUME m[x] \in DOMAIN m PROVE FALSE
        OBVIOUS
      <4>1. PICK r \in DOMAIN pairs : pairs[r].name = m[x] /\ pairs[r].state = "removed"
        BY MatchFacts
      <4> QED
        BY <1>7, <3>1, <4>1
    <3>3. PICK k \in 1..n : at(k) = l
      BY <1>4, <1>5, <3>1, <3>2
    <3>4. m[x] \in Range(m)
      BY <2>3, MatchFacts
    <3>5. ls[k].from \in DOMAIN m /\ m[ls[k].from] = m[x] /\ ls[k].state = "changed"
          /\ OldName(ls[k]) = ls[k].from
      BY <1>6, <3>1, <3>3, <3>4
    <3>6. ls[k].from = x
      BY <2>3, <3>5, MatchFacts
    <3> QED
      BY <3>5, <3>6
  <2> QED
    BY <2>2, <2>3
<1>9. ASSUME NEW x \in Names(new)
      PROVE  \E k \in 1..n : ls[k].state # "removed" /\ ls[k].name = x
  <2>1. PICK j \in DOMAIN pairs : pairs[j].name = x /\ pairs[j].state # "removed"
    BY NamedSides
  <2>2. x \notin DOMAIN m
    <3> SUFFICES ASSUME x \in DOMAIN m PROVE FALSE
      OBVIOUS
    <3>1. PICK r \in DOMAIN pairs : pairs[r].name = x /\ pairs[r].state = "removed"
      BY MatchFacts
    <3> QED
      BY <1>7, <2>1, <3>1
  <2>3. PICK k \in 1..n : at(k) = j
    BY <1>4, <1>5, <2>1, <2>2
  <2>4. /\ ls[k].name = pairs[j].name
        /\ pairs[j].name \in Range(m) => ls[k].state = "changed"
        /\ pairs[j].name \notin Range(m) => ls[k].state = pairs[j].state
    BY <1>6, <2>3
  <2> QED
    BY <2>1, <2>4
<1>10. ASSUME NEW j \in 1..n, NEW k \in 1..n, ls[j].state # "added", ls[k].state # "added",
              OldName(ls[j]) = OldName(ls[k])
       PROVE  j = k
  <2>1. at(j) \in DOMAIN pairs /\ at(k) \in DOMAIN pairs
    BY <1>3, <1>5
  <2> DEFINE p == pairs[at(j)].name
             r == pairs[at(k)].name
  <2>2. /\ p \notin DOMAIN m
        /\ p \in Range(m) => OldName(ls[j]) \in DOMAIN m /\ m[OldName(ls[j])] = p
        /\ p \notin Range(m) => OldName(ls[j]) = p
    BY <1>6
  <2>3. /\ r \notin DOMAIN m
        /\ r \in Range(m) => OldName(ls[k]) \in DOMAIN m /\ m[OldName(ls[k])] = r
        /\ r \notin Range(m) => OldName(ls[k]) = r
    BY <1>6
  <2>4. p = r
    <3> HIDE DEF p, r
    <3> QED
      BY <1>10, <2>2, <2>3
  <2>5. at(j) = at(k)
    BY <1>7, <2>1, <2>4
  <2> QED
    BY <1>5, <2>5
<1>11. ASSUME NEW k \in 1..n, ls[k].state = "removed" PROVE ls[k].from = NoName
  <2>1. /\ pairs[at(k)].name \in Range(m) => ls[k].state = "changed"
        /\ pairs[at(k)].name \notin Range(m) => ls[k].from = NoName
    BY <1>6
  <2> QED
    BY <1>11, <2>1
<1>12. Whole(ls)
  BY <1>2, <1>8, <1>9, <1>10, <1>11 DEF Whole
<1> QED
  BY <1>12 DEF ls

LEMMA WholeStable ==
  ASSUME UNCHANGED <<old, new>>, NEW ls, list' = ls
  PROVE  Whole(list)' <=> Whole(ls)
BY DEF Whole, OldName, Names

LEMMA WholeInvariant == CompareSpec => [](CInv /\ WInv)
<1>1. CompareInit => WInv
  BY DEF CompareInit, WInv, Listed
<1>2. ASSUME CInv, WInv, [CompareNext]_compareVars PROVE WInv'
  <2>1. CASE Rename
    <3>1. UNCHANGED <<old, new>> /\ stage = "rename"
      BY <2>1 DEF Rename, vars
    <3>2. PICK m \in Matches : list' = Folded(m)
      BY <2>1 DEF Rename
    <3>3. IInv /\ pc = "done"
      BY <1>2, <3>1 DEF CInv, StageInv
    <3>4. Whole(Folded(m))
      BY <3>3, FoldedWhole
    <3> QED
      BY <3>1, <3>2, <3>4, WholeStable DEF WInv
  <2>2. CASE Start \/ PairUp
    BY <2>2 DEF Start, PairUp, WInv, Listed
  <2>3. CASE Analyze \/ Assemble \/ Return \/ UNCHANGED compareVars
    <3>1. UNCHANGED <<old, new>> /\ list' = list /\ (stage' \in Listed => stage \in Listed)
      BY <2>3 DEF Analyze, Assemble, Return, compareVars, vars, Listed
    <3> QED
      BY <1>2, <3>1, WholeStable DEF WInv
  <2> QED
    BY <1>2, <2>1, <2>2, <2>3 DEF CompareNext
<1> QED
  BY <1>1, <1>2, CompareInvariant, PTL DEF CompareSpec

-----------------------------------------------------------------------------
(* Every name has a first position, and FirstDef is what is there.         *)
LEMMA FirstPosition ==
  ASSUME NEW bin \in Seq(Func), NEW n \in Names(bin)
  PROVE  \E k \in 1..Len(bin) : bin[k].name = n /\ IsFirst(bin, k) /\ FirstDef(bin, n) = bin[k]
<1>0. DOMAIN bin = 1..Len(bin) /\ Len(bin) \in Nat
  BY LenProperties
<1> DEFINE S == {k \in 1..Len(bin) : bin[k].name = n}
<1>1. S \in SUBSET Nat /\ S # {}
  BY <1>0 DEF Names
<1>2. PICK k \in S : \A m \in S : k <= m
  BY <1>1, LeastElement
<1>3. k \in 1..Len(bin) /\ bin[k].name = n
  BY <1>2
<1>4. IsFirst(bin, k)
  BY <1>0, <1>2, <1>3 DEF IsFirst
<1>5. FirstDef(bin, n) = bin[k]
  BY <1>3, <1>4, FirstDefIs
<1> QED
  BY <1>3, <1>4, <1>5

(* v has in each place of `has` the size of one function of bin, each      *)
(* function once.                                                          *)
SizesOf(bin, n, has, nm, v) ==
  /\ \A k \in has : nm[k] \in Names(bin) /\ v[k] = SizeOf(FirstDef(bin, nm[k]))
  /\ \A k \in (1..n) \ has : v[k] = 0
  /\ \A x \in Names(bin) : \E k \in has : nm[k] = x
  /\ \A j, k \in has : nm[j] = nm[k] => j = k

LEMMA TextIsSum ==
  ASSUME NEW bin \in Seq(Func), NEW n \in Nat, NEW has \in SUBSET (1..n), NEW nm,
         NEW v \in [1..n -> Int], SizesOf(bin, n, has, nm, v)
  PROVE  SumOf(v) = TextBytes(bin) /\ TextBytes(bin) \in Nat
<1> DEFINE m == Len(bin)
           w == [k \in 1..m |-> IF \E j \in 1..(k - 1) : bin[j].name = bin[k].name
                                THEN 0 ELSE CodeSize[bin[k].code]]
           R == {e \in has \X (1..m) : IsFirst(bin, e[2]) /\ bin[e[2]].name = nm[e[1]]}
<1>1. m \in Nat /\ DOMAIN bin = 1..m
  BY LenProperties
<1>2. \A k \in 1..m : bin[k] \in Func
  BY ElementOfSeq
<1>3. \A k \in 1..m : CodeSize[bin[k].code] \in Nat
  <2> SUFFICES ASSUME NEW k \in 1..m PROVE CodeSize[bin[k].code] \in Nat
    OBVIOUS
  <2>1. bin[k].code \in Code
    BY <1>2 DEF Func
  <2> QED
    BY <2>1, PairingAssumption
<1>4. w \in [1..m -> Int] /\ \A k \in 1..m : w[k] >= 0
  BY <1>3
<1>5. \A k \in 1..m : w[k] = IF IsFirst(bin, k) THEN CodeSize[bin[k].code] ELSE 0
  BY DEF IsFirst
<1>6. TextBytes(bin) = SumOf(w)
  BY <1>1 DEF TextBytes
<1>7. \A j, k : <<j, k>> \in R <=> /\ j \in has /\ k \in 1..m
                                   /\ IsFirst(bin, k) /\ bin[k].name = nm[j]
  OBVIOUS
<1> HIDE DEF w, R, m
<1>8. ASSUME NEW j \in has PROVE \E k \in 1..m : <<j, k>> \in R
  <2>1. nm[j] \in Names(bin)
    BY DEF SizesOf
  <2>2. PICK k \in 1..m : bin[k].name = nm[j] /\ IsFirst(bin, k)
    BY <2>1, FirstPosition DEF m
  <2> QED
    BY <1>7, <2>2
<1>9. ASSUME NEW j, NEW k, <<j, k>> \in R PROVE v[j] = w[k]
  <2>1. j \in has /\ k \in 1..m /\ IsFirst(bin, k) /\ bin[k].name = nm[j]
    BY <1>7, <1>9
  <2>2. FirstDef(bin, nm[j]) = bin[k]
    BY <2>1, FirstDefIs DEF m
  <2>3. bin[k] # NoFunc
    BY <1>2, <2>1, PairingAssumption
  <2>4. v[j] = CodeSize[bin[k].code]
    BY <2>1, <2>2, <2>3 DEF SizesOf, SizeOf
  <2> QED
    BY <1>5, <2>1, <2>4
<1>10. ASSUME NEW j, NEW k, NEW l, <<j, k>> \in R, <<j, l>> \in R PROVE k = l
  <2>1. k \in 1..m /\ l \in 1..m /\ IsFirst(bin, k) /\ IsFirst(bin, l) /\ bin[k].name = bin[l].name
    BY <1>7, <1>10
  <2>2. ~(k < l) /\ ~(l < k)
    BY <1>1, <2>1 DEF IsFirst
  <2> QED
    BY <1>1, <2>1, <2>2
<1>11. ASSUME NEW j, NEW l, NEW k, <<j, k>> \in R, <<l, k>> \in R PROVE j = l
  <2>1. j \in has /\ l \in has /\ nm[j] = nm[l]
    BY <1>7, <1>11
  <2> QED
    BY <2>1 DEF SizesOf
<1>12. ASSUME NEW k \in 1..m, w[k] # 0 PROVE \E j \in 1..n : <<j, k>> \in R
  <2>1. IsFirst(bin, k) /\ bin[k].name \in Names(bin)
    BY <1>1, <1>5, <1>12 DEF Names
  <2>2. PICK j \in has : nm[j] = bin[k].name
    BY <2>1 DEF SizesOf
  <2> QED
    BY <1>7, <2>1, <2>2
<1>13. \A j \in 1..n : v[j] # 0 => j \in has
  BY DEF SizesOf
<1>14. m \in Nat /\ w \in [1..m -> Int]
  BY <1>1, <1>4
<1>15. Matching(R, v, n, w, m)
  <2>1. \A j \in 1..n : v[j] # 0 => \E k \in 1..m : <<j, k>> \in R
    BY <1>8, <1>13
  <2>2. \A k \in 1..m : w[k] # 0 => \E j \in 1..n : <<j, k>> \in R
    BY <1>12
  <2>3. \A j \in 1..n, k \in 1..m : <<j, k>> \in R => v[j] = w[k]
    BY <1>9
  <2>4. \A j \in 1..n, k, l \in 1..m : <<j, k>> \in R /\ <<j, l>> \in R => k = l
    BY <1>10
  <2>5. \A j, l \in 1..n, k \in 1..m : <<j, k>> \in R /\ <<l, k>> \in R => j = l
    BY <1>11
  <2> QED
    BY <1>14, <2>1, <2>2, <2>3, <2>4, <2>5, Zenon DEF Matching
<1>16. SumOf(v) = SumOf(w)
  BY <1>15, SumMatch
<1>17. SumOf(w) \in Int /\ SumOf(w) >= 0
  BY <1>4, <1>14, SumType, SumNat
<1> QED
  BY <1>6, <1>16, <1>17

-----------------------------------------------------------------------------
(* What is known of the pairs of a returned Diff.                          *)
RowOK(p) == /\ p.name \in Nat
            /\ p.state \in DiffState
            /\ p.size = SizeOf(p.new) - SizeOf(p.old)
            /\ SizeOf(p.new) \in Nat /\ SizeOf(p.old) \in Nat
            /\ \A c \in Counter : p.count[c] \in Int
            /\ p.state = "identical" => p.size = 0
            /\ p.state \notin CodeStates => p.ops = NoOps /\ \A c \in Counter : p.count[c] = 0
            /\ \A op \in DOMAIN p.ops : p.ops[op] \in Int
            /\ p.state \in CodeStates => PkgOf[p.name] \in Nat

LEMMA SizeType ==
  ASSUME NEW f \in MaybeFunc
  PROVE  SizeOf(f) \in Nat
<1>1. CASE f = NoFunc
  BY <1>1 DEF SizeOf
<1>2. CASE f # NoFunc
  <2>1. f.code \in Code
    BY <1>2 DEF MaybeFunc, Func
  <2> QED
    BY <1>2, <2>1, PairingAssumption DEF SizeOf
<1> QED
  BY <1>1, <1>2

LEMMA ResultShape ==
  ASSUME CInv, Done
  PROVE  /\ Len(result) \in Nat /\ DOMAIN result = 1..Len(result)
         /\ DOMAIN list = 1..Len(result)
         /\ result = [k \in 1..Len(result) |-> result[k]]
<1>1. ResultInv /\ ListFacts(list) /\ Len(result) = Len(list)
  BY DEF CInv, AssembleInv, ListInv, Listed, Assembling, Done
<1> QED
  BY <1>1, LenProperties DEF ResultInv, ListFacts

LEMMA ResultRow ==
  ASSUME CInv, WInv, Done, NEW k \in 1..Len(result)
  PROVE  RowOK(result[k]) /\ StateMeans(result[k]) /\ Told(list[k]) /\ Becomes(list[k], result[k])
<1> DEFINE p == list[k]
           q == result[k]
<1>1. k \in DOMAIN result /\ k \in DOMAIN list /\ stage \in Assembling
  BY ResultShape DEF Done, Assembling
<1>2. Told(p) /\ Becomes(p, q)
  BY <1>1, ResultFacts
<1>3. DeltaOwn(q) /\ NoZeros(q) /\ StateMeans(q)
  BY <1>2, BecomesOwn, BecomesMeans
<1>4. old \in Seq(Func) /\ new \in Seq(Func) /\ old \in OldBinaries /\ new \in NewBinaries
  BY DEF CInv, IInv, Shape, InputInv
<1>5. p.state = "removed" => p.from = NoName
  BY <1>1 DEF WInv, Whole, Listed, Done
<1> HIDE DEF p, q
<1>6. /\ q.name = p.name /\ q.from = p.from /\ q.old = p.old /\ q.new = p.new
      /\ q.state = IF Noise(p) THEN "relocation-only" ELSE p.state
      /\ p.state = "identical" \/ Noise(p) => q.ops = NoOps /\ q.count = NoCount
  BY <1>2 DEF Becomes
<1>7. /\ p.name \in Nat /\ p.state \in State /\ p.old \in MaybeFunc /\ p.new \in MaybeFunc
      /\ p.old = IF p.state = "added" THEN NoFunc ELSE FirstDef(old, OldName(p))
      /\ p.new = IF p.state = "removed" THEN NoFunc ELSE FirstDef(new, p.name)
      /\ (p.old = NoFunc) = (p.state = "added")
      /\ (p.new = NoFunc) = (p.state = "removed")
      /\ p.state = "identical" => p.old = p.new
  BY <1>2 DEF Told, Name
<1>8. Noise(p) => p.state = "changed"
  BY <1>2, NoiseIs
<1>9. q.name \in Nat /\ q.state \in DiffState
  BY <1>6, <1>7 DEF State, DiffState
<1>10. SizeOf(q.new) \in Nat /\ SizeOf(q.old) \in Nat /\ q.size = SizeOf(q.new) - SizeOf(q.old)
  BY <1>3, <1>6, <1>7, SizeType DEF DeltaOwn
<1>11. q.state = "identical" => q.size = 0
  BY <1>6, <1>7, <1>10
<1>12. q.state \notin CodeStates => q.ops = NoOps /\ q.count = NoCount
  BY <1>6, <1>7 DEF CodeStates, State
<1>13. \A c \in Counter : q.count[c] \in Int
  <2> SUFFICES ASSUME NEW c \in Counter PROVE q.count[c] \in Int
    OBVIOUS
  <2>1. q.count[c] = IF q.state \in CodeStates
                     THEN CountOf(q.new)[c] - CountOf(q.old)[c] ELSE 0
    BY <1>3 DEF DeltaOwn
  <2>2. CountOf(q.new)[c] \in Nat /\ CountOf(q.old)[c] \in Nat
    BY <1>6, <1>7, CountsOfOps
  <2> QED
    BY <2>1, <2>2
<1>14. p.name \in Names(old) \cup Names(new)
  <2>1. CASE p.state = "removed"
    <3>1. OldName(p) = p.name /\ p.old # NoFunc /\ p.old = FirstDef(old, p.name)
      BY <1>5, <1>7, <2>1 DEF OldName
    <3> QED
      BY <3>1 DEF FirstDef
  <2>2. CASE p.state # "removed"
    <3>1. p.new # NoFunc /\ p.new = FirstDef(new, p.name)
      BY <1>7, <2>2
    <3> QED
      BY <3>1 DEF FirstDef
  <2> QED
    BY <2>1, <2>2
<1>15. PkgOf[q.name] \in Nat
  <2>1. \A bin \in OldBinaries \cup NewBinaries : \A n \in Names(bin) : PkgOf[n] \in Nat
    BY ComparisonAssumption
  <2> QED
    BY <1>4, <1>6, <1>14, <2>1
<1>16. \A op \in DOMAIN q.ops : q.ops[op] \in Int
  BY <1>3 DEF NoZeros
<1>17. q.count = NoCount => \A c \in Counter : q.count[c] = 0
  BY DEF NoCount
<1>18. RowOK(q)
  BY <1>9, <1>10, <1>11, <1>12, <1>13, <1>15, <1>16, <1>17 DEF RowOK
<1> QED
  BY <1>2, <1>3, <1>18 DEF p, q

(* The sizes of the new sides are those of the new text, and of the old    *)
(* sides those of the old text.                                            *)
LEMMA TextsOfResult ==
  ASSUME CInv, WInv, Done
  PROVE  /\ TextBytes(new) \in Nat /\ TextBytes(old) \in Nat
         /\ SumOf([k \in 1..Len(result) |-> SizeOf(result[k].new)]) = TextBytes(new)
         /\ SumOf([k \in 1..Len(result) |-> SizeOf(result[k].old)]) = TextBytes(old)
<1> DEFINE n == Len(result)
           v == [k \in 1..n |-> SizeOf(result[k].new)]
           w == [k \in 1..n |-> SizeOf(result[k].old)]
           newer == {k \in 1..n : list[k].state # "removed"}
           older == {k \in 1..n : list[k].state # "added"}
           nm == [k \in 1..n |-> list[k].name]
           om == [k \in 1..n |-> OldName(list[k])]
<1>1. n \in Nat /\ DOMAIN list = 1..n
  BY ResultShape
<1>2. old \in Seq(Func) /\ new \in Seq(Func) /\ Whole(list) /\ NamesApart(list)
  BY DEF CInv, IInv, Shape, WInv, ListInv, ListFacts, Listed, Done
<1>3. ASSUME NEW k \in 1..n
      PROVE  /\ SizeOf(result[k].new) \in Nat /\ SizeOf(result[k].old) \in Nat
             /\ result[k].new = list[k].new /\ result[k].old = list[k].old
             /\ list[k].old = IF list[k].state = "added" THEN NoFunc ELSE FirstDef(old, OldName(list[k]))
             /\ list[k].new = IF list[k].state = "removed" THEN NoFunc ELSE FirstDef(new, list[k].name)
             /\ (list[k].old = NoFunc) = (list[k].state = "added")
             /\ (list[k].new = NoFunc) = (list[k].state = "removed")
  BY ResultRow DEF RowOK, Becomes, Told
<1>4. v \in [1..n -> Int] /\ w \in [1..n -> Int]
  BY <1>3
<1> HIDE DEF n
<1>5. SizesOf(new, n, newer, nm, v)
  <2>1. ASSUME NEW k \in newer PROVE nm[k] \in Names(new) /\ v[k] = SizeOf(FirstDef(new, nm[k]))
    <3>1. k \in 1..n /\ list[k].new # NoFunc /\ list[k].new = FirstDef(new, list[k].name)
      BY <1>3
    <3>2. list[k].name \in Names(new)
      BY <3>1 DEF FirstDef
    <3> QED
      BY <1>3, <3>1, <3>2
  <2>2. ASSUME NEW k \in (1..n) \ newer PROVE v[k] = 0
    BY <1>3 DEF SizeOf
  <2>3. ASSUME NEW x \in Names(new) PROVE \E k \in newer : nm[k] = x
    <3>1. PICK k \in 1..n : list[k].state # "removed" /\ list[k].name = x
      BY <1>1, <1>2 DEF Whole
    <3> QED
      BY <3>1
  <2>4. ASSUME NEW j \in newer, NEW k \in newer, nm[j] = nm[k] PROVE j = k
    BY <1>1, <1>2, <2>4 DEF NamesApart
  <2> HIDE DEF newer, nm, v
  <2> QED
    BY <2>1, <2>2, <2>3, <2>4 DEF SizesOf
<1>6. SizesOf(old, n, older, om, w)
  <2>1. ASSUME NEW k \in older PROVE om[k] \in Names(old) /\ w[k] = SizeOf(FirstDef(old, om[k]))
    <3>1. k \in 1..n /\ list[k].old # NoFunc /\ list[k].old = FirstDef(old, OldName(list[k]))
      BY <1>3
    <3>2. OldName(list[k]) \in Names(old)
      BY <3>1 DEF FirstDef
    <3> QED
      BY <1>3, <3>1, <3>2
  <2>2. ASSUME NEW k \in (1..n) \ older PROVE w[k] = 0
    BY <1>3 DEF SizeOf
  <2>3. ASSUME NEW x \in Names(old) PROVE \E k \in older : om[k] = x
    <3>1. PICK k \in 1..n : list[k].state # "added" /\ OldName(list[k]) = x
      BY <1>1, <1>2 DEF Whole
    <3> QED
      BY <3>1
  <2>4. ASSUME NEW j \in older, NEW k \in older, om[j] = om[k] PROVE j = k
    BY <1>1, <1>2, <2>4 DEF Whole
  <2> HIDE DEF older, om, w
  <2> QED
    BY <2>1, <2>2, <2>3, <2>4 DEF SizesOf
<1>7. newer \in SUBSET (1..n) /\ older \in SUBSET (1..n)
  OBVIOUS
<1> HIDE DEF newer, older, nm, om, v, w
<1>8. SumOf(v) = TextBytes(new) /\ TextBytes(new) \in Nat
  BY <1>1, <1>2, <1>4, <1>5, <1>7, TextIsSum
<1>9. SumOf(w) = TextBytes(old) /\ TextBytes(old) \in Nat
  BY <1>1, <1>2, <1>4, <1>6, <1>7, TextIsSum
<1> QED
  BY <1>8, <1>9 DEF v, w, n

LEMMA SizeTotalIsText ==
  ASSUME CInv, WInv, Done
  PROVE  SizeTotal(result) = TextBytes(new) - TextBytes(old)
<1> DEFINE n == Len(result)
           v == [k \in 1..n |-> SizeOf(result[k].new)]
           w == [k \in 1..n |-> SizeOf(result[k].old)]
<1>1. n \in Nat /\ DOMAIN result = 1..n
  BY ResultShape
<1>2. ASSUME NEW k \in 1..n
      PROVE  /\ SizeOf(result[k].new) \in Nat /\ SizeOf(result[k].old) \in Nat
             /\ result[k].size = SizeOf(result[k].new) - SizeOf(result[k].old)
  BY ResultRow DEF RowOK
<1>3. v \in [1..n -> Int] /\ w \in [1..n -> Int]
  BY <1>2
<1>4. [k \in DOMAIN result |-> result[k].size] = [k \in 1..n |-> v[k] - w[k]]
  BY <1>1, <1>2
<1>5. SumOf(v) = TextBytes(new) /\ SumOf(w) = TextBytes(old)
  BY TextsOfResult
<1> HIDE DEF v, w, n
<1> QED
  BY <1>1, <1>3, <1>4, <1>5, SumSub DEF SizeTotal

-----------------------------------------------------------------------------
(* The loop over the pairs that fills the packages: what each field of a   *)
(* package is the sum of.                                                  *)
PackType == [size : Int, count : [Counter -> Int], number : [CodeStates -> Int]]
Field == {"size"} \cup Counter \cup CodeStates
Val(d, x) == IF x = "size" THEN d.size ELSE IF x \in Counter THEN d.count[x] ELSE d.number[x]
Adds(p, x) == IF x = "size" THEN p.size ELSE IF x \in Counter THEN p.count[x]
              ELSE IF p.state = x THEN 1 ELSE 0
Share(ps, g, x, k) == IF ps[k].state \in CodeStates /\ PkgOf[ps[k].name] = g THEN Adds(ps[k], x) ELSE 0
CodeShare(ps, x, k) == IF ps[k].state \in CodeStates THEN Adds(ps[k], x) ELSE 0

Rows(ps, n) == /\ n \in Nat /\ DOMAIN ps = 1..n /\ Len(ps) = n
               /\ \A k \in 1..n : RowOK(ps[k])

Folders == UNION {[D -> PackType] : D \in SUBSET Nat}
Gathered(ps, f, n) ==
  /\ f \in Folders
  /\ IsFiniteSet(DOMAIN f)
  /\ \A g \in Nat : g \in DOMAIN f <=> \E k \in 1..n : ps[k].state \in CodeStates /\ PkgOf[ps[k].name] = g
  /\ \A g \in DOMAIN f, x \in Field : Val(f[g], x) = SumOf([k \in 1..n |-> Share(ps, g, x, k)])

LEMMA AddsType ==
  ASSUME NEW p, RowOK(p), NEW x \in Field
  PROVE  Adds(p, x) \in Int
<1>1. CASE x = "size"
  BY <1>1 DEF Adds, RowOK
<1>2. CASE x \in Counter
  BY <1>2 DEF Adds, RowOK, Counter
<1>3. CASE x \in CodeStates
  BY <1>3 DEF Adds, CodeStates, Counter
<1> QED
  BY <1>1, <1>2, <1>3 DEF Field

LEMMA ShareType ==
  ASSUME NEW n, NEW ps, Rows(ps, n), NEW g, NEW x \in Field, NEW k \in 1..n
  PROVE  Share(ps, g, x, k) \in Int /\ CodeShare(ps, x, k) \in Int
<1>1. Adds(ps[k], x) \in Int
  BY AddsType DEF Rows
<1> QED
  BY <1>1 DEF Share, CodeShare

LEMMA EmptyVal ==
  EmptyPackage \in PackType /\ \A x \in Field : Val(EmptyPackage, x) = 0
<1>1. NoCount \in [Counter -> Int] /\ \A c \in Counter : NoCount[c] = 0
  BY DEF NoCount
<1>2. [s \in CodeStates |-> 0] \in [CodeStates -> Int]
  OBVIOUS
<1>3. EmptyPackage \in PackType
  BY <1>1, <1>2 DEF EmptyPackage, PackType
<1>4. EmptyPackage.size = 0 /\ EmptyPackage.count = NoCount
      /\ \A s \in CodeStates : EmptyPackage.number[s] = 0
  BY DEF EmptyPackage
<1>5. \A x \in Field : Val(EmptyPackage, x) = 0
  BY <1>1, <1>4 DEF Val, Field
<1> QED
  BY <1>3, <1>5

LEMMA AccumulateVal ==
  ASSUME NEW d \in PackType, NEW p, RowOK(p), p.state \in CodeStates
  PROVE  /\ Accumulate(d, p) \in PackType
         /\ \A x \in Field : Val(Accumulate(d, p), x) = Val(d, x) + Adds(p, x)
<1> DEFINE a == Accumulate(d, p)
           cs == [c \in Counter |-> d.count[c] + p.count[c]]
           ns == [d.number EXCEPT ![p.state] = @ + 1]
<1>1. d.size \in Int /\ d.count \in [Counter -> Int] /\ d.number \in [CodeStates -> Int]
  BY DEF PackType
<1>2. p.size \in Int /\ \A c \in Counter : p.count[c] \in Int
  BY DEF RowOK
<1>3. a = [size |-> d.size + p.size, count |-> cs, number |-> ns]
  BY DEF Accumulate
<1>4. cs \in [Counter -> Int] /\ \A c \in Counter : cs[c] = d.count[c] + p.count[c]
  BY <1>1, <1>2
<1>5. ns \in [CodeStates -> Int]
      /\ \A s \in CodeStates : ns[s] = d.number[s] + IF p.state = s THEN 1 ELSE 0
  BY <1>1
<1> HIDE DEF a, cs, ns
<1>6. a \in PackType /\ a.size = d.size + p.size /\ a.count = cs /\ a.number = ns
  BY <1>1, <1>2, <1>3, <1>4, <1>5 DEF PackType
<1>7. ASSUME NEW x \in Field PROVE Val(a, x) = Val(d, x) + Adds(p, x)
  <2>1. CASE x = "size"
    BY <1>6, <2>1 DEF Val, Adds
  <2>2. CASE x \in Counter
    BY <1>4, <1>6, <2>2 DEF Val, Adds, Counter
  <2>3. CASE x \in CodeStates
    BY <1>5, <1>6, <2>3 DEF Val, Adds, Counter, CodeStates
  <2> QED
    BY <2>1, <2>2, <2>3 DEF Field
<1> QED
  BY <1>6, <1>7 DEF a

LEMMA GatherType ==
  ASSUME NEW f \in Folders, NEW p, RowOK(p)
  PROVE  Gather(f, p) \in Folders
<1>1. CASE p.state \notin CodeStates
  BY <1>1 DEF Gather
<1>2. CASE p.state \in CodeStates
  <2> DEFINE g == PkgOf[p.name]
             d == IF g \in DOMAIN f THEN f[g] ELSE EmptyPackage
             a == Accumulate(d, p)
  <2>1. g \in Nat
    BY <1>2 DEF RowOK
  <2>2. PICK D \in SUBSET Nat : f \in [D -> PackType]
    BY DEF Folders
  <2>3. d \in PackType
    BY <2>2, EmptyVal
  <2>4. Gather(f, p) = Put(f, g, a)
    BY <1>2 DEF Gather
  <2> HIDE DEF d, g
  <2>5. a \in PackType
    BY <1>2, <2>3, AccumulateVal
  <2> HIDE DEF a
  <2>6. Put(f, g, a) \in [D \cup {g} -> PackType]
    BY <2>2, <2>5 DEF Put
  <2>7. D \cup {g} \in SUBSET Nat
    BY <2>1, <2>2
  <2> QED
    BY <2>4, <2>6, <2>7 DEF Folders
<1> QED
  BY <1>1, <1>2

LEMMA GatherStep ==
  ASSUME NEW n, NEW ps, Rows(ps, n), NEW m \in 1..n, NEW f, Gathered(ps, f, m - 1)
  PROVE  Gathered(ps, Gather(f, ps[m]), m)
<1> DEFINE p == ps[m]
           h == Gather(f, p)
           sum(g, x, q) == SumOf([k \in 1..q |-> Share(ps, g, x, k)])
<1>0. m - 1 \in Nat /\ m \in Nat /\ n \in Nat /\ RowOK(p)
  BY DEF Rows
<1>1. PICK D \in SUBSET Nat : f \in [D -> PackType]
  BY DEF Gathered, Folders
<1>2. h \in Folders
  BY <1>0, GatherType DEF Gathered
<1>3. ASSUME NEW g, NEW x \in Field PROVE sum(g, x, m) = sum(g, x, m - 1) + Share(ps, g, x, m)
  <2> DEFINE v == [k \in 1..m |-> Share(ps, g, x, k)]
             q == m - 1
  <2>1. \A k \in 1..m : Share(ps, g, x, k) \in Int
    <3> SUFFICES ASSUME NEW k \in 1..m PROVE Share(ps, g, x, k) \in Int
      OBVIOUS
    <3>1. k \in 1..n
      BY <1>0
    <3> QED
      BY <3>1, ShareType
  <2>2. q \in Nat /\ m = q + 1 /\ v \in [1..(q + 1) -> Int] /\ v[q + 1] = Share(ps, g, x, m)
    BY <1>0, <2>1
  <2>3. [k \in 1..q |-> v[k]] = [k \in 1..q |-> Share(ps, g, x, k)]
    BY <1>0
  <2> HIDE DEF v, q
  <2>4. SumOf(v) = SumOf([k \in 1..q |-> v[k]]) + v[q + 1]
    BY <2>2, SumStep
  <2> QED
    BY <2>2, <2>3, <2>4 DEF v, q
<1>4. ASSUME NEW g \in DOMAIN f, NEW x \in Field
      PROVE  Val(f[g], x) = sum(g, x, m - 1)
  BY DEF Gathered
<1>5. ASSUME NEW g \in Nat, g \notin DOMAIN f, NEW x \in Field
      PROVE  sum(g, x, m - 1) = 0
  <2>1. ASSUME NEW k \in 1..(m - 1) PROVE Share(ps, g, x, k) = 0
    BY <1>5 DEF Gathered, Share
  <2> DEFINE v == [k \in 1..(m - 1) |-> Share(ps, g, x, k)]
  <2>2. v \in [1..(m - 1) -> Int] /\ \A k \in 1..(m - 1) : v[k] = 0
    BY <2>1
  <2> HIDE DEF v
  <2>3. SumOf(v) = 0
    BY <1>0, <2>2, SumNone
  <2> QED
    BY <2>3 DEF v
<1>6. CASE p.state \notin CodeStates
  <2>1. h = f
    BY <1>6 DEF Gather
  <2>2. ASSUME NEW g \in DOMAIN f, NEW x \in Field PROVE Val(f[g], x) = sum(g, x, m)
    <3>1. Share(ps, g, x, m) = 0 /\ sum(g, x, m) = sum(g, x, m - 1) + 0
      BY <1>3, <1>6 DEF Share
    <3>2. Val(f[g], x) = sum(g, x, m - 1)
      BY <1>4
    <3>3. sum(g, x, m - 1) \in Int
      <4>1. \A k \in 1..(m - 1) : k \in 1..n
        BY <1>0
      <4>2. [k \in 1..(m - 1) |-> Share(ps, g, x, k)] \in [1..(m - 1) -> Int]
        BY <4>1, ShareType
      <4> QED
        BY <1>0, <4>2, SumType
    <3> HIDE DEF sum
    <3> QED
      BY <3>1, <3>2, <3>3
  <2>3. ASSUME NEW g \in Nat
        PROVE  g \in DOMAIN f <=> \E k \in 1..m : ps[k].state \in CodeStates /\ PkgOf[ps[k].name] = g
    <3>1. \A k \in 1..m : k # m => k \in 1..(m - 1)
      BY <1>0
    <3>2. \A k \in 1..(m - 1) : k \in 1..m
      BY <1>0
    <3> QED
      BY <1>6, <3>1, <3>2 DEF Gathered
  <2> QED
    BY <1>2, <2>1, <2>2, <2>3 DEF Gathered
<1>7. CASE p.state \in CodeStates
  <2> DEFINE e == PkgOf[p.name]
             d == IF e \in DOMAIN f THEN f[e] ELSE EmptyPackage
             a == Accumulate(d, p)
  <2>1. e \in Nat
    BY <1>0, <1>7 DEF RowOK
  <2>2. d \in PackType
    BY <1>1, EmptyVal
  <2>3. h = Put(f, e, a)
    BY <1>7 DEF Gather
  <2>4. ASSUME NEW x \in Field PROVE Val(d, x) = sum(e, x, m - 1)
    <3> HIDE DEF sum
    <3>1. CASE e \in DOMAIN f
      BY <1>4, <3>1
    <3>2. CASE e \notin DOMAIN f
      BY <1>5, <2>1, <3>2, EmptyVal
    <3> QED
      BY <3>1, <3>2
  <2> HIDE DEF d
  <2>5. \A x \in Field : Val(a, x) = Val(d, x) + Adds(p, x)
    BY <1>0, <1>7, <2>2, AccumulateVal
  <2> HIDE DEF a
  <2>6. DOMAIN h = DOMAIN f \cup {e} /\ \A g \in DOMAIN h : h[g] = IF g = e THEN a ELSE f[g]
    BY <2>3 DEF Put
  <2>7. IsFiniteSet(DOMAIN h)
    <3>1. IsFiniteSet(DOMAIN f)
      BY DEF Gathered
    <3>2. IsFiniteSet(DOMAIN f \cup {e})
      BY <3>1, FS_AddElement
    <3> QED
      BY <2>6, <3>2
  <2>8. ASSUME NEW g \in DOMAIN h, NEW x \in Field PROVE Val(h[g], x) = sum(g, x, m)
    <3>1. sum(g, x, m) = sum(g, x, m - 1) + Share(ps, g, x, m)
      BY <1>3
    <3>2. CASE g = e
      <4>1. Share(ps, g, x, m) = Adds(p, x)
        BY <1>7, <3>2 DEF Share
      <4>2. h[g] = a /\ Val(d, x) = sum(g, x, m - 1)
        BY <2>4, <2>6, <3>2
      <4> HIDE DEF sum, h, p
      <4> QED
        BY <2>5, <3>1, <4>1, <4>2
    <3>3. CASE g # e
      <4>1. Share(ps, g, x, m) = 0 /\ g \in DOMAIN f /\ h[g] = f[g]
        BY <2>6, <3>3 DEF Share
      <4>2. Val(h[g], x) = sum(g, x, m - 1)
        BY <1>4, <4>1
      <4>3. sum(g, x, m - 1) \in Int
        <5>1. \A k \in 1..(m - 1) : k \in 1..n
          BY <1>0
        <5>2. [k \in 1..(m - 1) |-> Share(ps, g, x, k)] \in [1..(m - 1) -> Int]
          BY <5>1, ShareType
        <5> QED
          BY <1>0, <5>2, SumType
      <4> HIDE DEF sum, h, p
      <4> QED
        BY <3>1, <4>1, <4>2, <4>3
    <3> QED
      BY <3>2, <3>3
  <2>9. ASSUME NEW g \in Nat
        PROVE  g \in DOMAIN h <=> \E k \in 1..m : ps[k].state \in CodeStates /\ PkgOf[ps[k].name] = g
    <3>1. \A k \in 1..m : k # m => k \in 1..(m - 1)
      BY <1>0
    <3>2. \A k \in 1..(m - 1) : k \in 1..m
      BY <1>0
    <3>3. m \in 1..m
      BY <1>0
    <3>4. g \in DOMAIN f <=> \E k \in 1..(m - 1) : ps[k].state \in CodeStates /\ PkgOf[ps[k].name] = g
      BY DEF Gathered
    <3> HIDE DEF h
    <3>5. g \in DOMAIN h <=> g \in DOMAIN f \/ g = e
      BY <2>6
    <3> QED
      BY <1>7, <3>1, <3>2, <3>3, <3>4, <3>5
  <2> HIDE DEF h
  <2>10. Gathered(ps, h, m)
    BY <1>2, <2>7, <2>8, <2>9 DEF Gathered
  <2> QED
    BY <2>10 DEF h, p
<1> QED
  BY <1>6, <1>7

LEMMA PackagesAre ==
  ASSUME NEW n, NEW ps, Rows(ps, n)
  PROVE  Gathered(ps, ByPackage(ps), n)
<1> DEFINE F == [k \in 1..n |-> [f \in Folders |-> Gather(f, ps[k])]]
           up == CHOOSE up : up = [m \in 0..n |-> IF m = 0 THEN <<>> ELSE Gather(up[m - 1], ps[m])]
<1>1. n \in Nat /\ Len(ps) = n
  BY DEF Rows
<1>2. ASSUME NEW k \in 1..n, NEW f \in Folders PROVE F[k][f] = Gather(f, ps[k]) /\ F[k][f] \in Folders
  <2>1. RowOK(ps[k])
    BY DEF Rows
  <2> QED
    BY <2>1, GatherType
<1> HIDE DEF F
<1>3. Within(F, n, Folders)
  BY <1>2 DEF Within
<1>4. <<>> \in Folders
  <2>1. <<>> \in [{} -> PackType]
    OBVIOUS
  <2>2. {} \in SUBSET Nat
    OBVIOUS
  <2> QED
    BY <2>1, <2>2 DEF Folders
<1>5. PICK f \in [0..n -> Folders] : Follows(f, <<>>, n, F)
  BY <1>1, <1>3, <1>4, Recursion
<1>6. f[0] = <<>> /\ \A k \in 1..n : f[k] = Gather(f[k - 1], ps[k])
  <2> SUFFICES ASSUME NEW k \in 1..n PROVE f[k] = Gather(f[k - 1], ps[k])
    BY <1>5 DEF Follows
  <2>1. k - 1 \in 0..n
    BY <1>1
  <2>2. f[k - 1] \in Folders
    BY <2>1
  <2> QED
    BY <1>2, <1>5, <2>2 DEF Follows
<1>7. f = [m \in 0..n |-> IF m = 0 THEN <<>> ELSE Gather(f[m - 1], ps[m])]
  <2>1. \A m \in 0..n : m # 0 => m \in 1..n
    BY <1>1
  <2> QED
    BY <1>6, <2>1
<1>8. up = [m \in 0..n |-> IF m = 0 THEN <<>> ELSE Gather(up[m - 1], ps[m])]
  BY <1>7
<1>9. ByPackage(ps) = up[n]
  BY <1>1 DEF ByPackage
<1> HIDE DEF up
<1>10. \A m \in 0..n : up[m] = IF m = 0 THEN <<>> ELSE Gather(up[m - 1], ps[m])
  BY <1>8
<1>11. Gathered(ps, <<>>, 0)
  <2>1. DOMAIN <<>> = {} /\ 1..0 = {}
    OBVIOUS
  <2> QED
    BY <1>4, <2>1, FS_EmptySet DEF Gathered
<1> DEFINE Bad == {m \in 0..n : ~Gathered(ps, up[m], m)}
<1>12. Bad = {}
  <2> SUFFICES ASSUME Bad # {} PROVE FALSE
    OBVIOUS
  <2>1. PICK m \in Bad : \A q \in Bad : m <= q
    <3>1. Bad \in SUBSET Nat
      OBVIOUS
    <3> HIDE DEF Bad
    <3> QED
      BY <3>1, LeastElement
  <2>2. m \in 0..n /\ ~Gathered(ps, up[m], m)
    OBVIOUS
  <2>3. m # 0
    BY <1>10, <1>11, <2>2
  <2>4. m - 1 \in 0..n /\ ~(m <= m - 1) /\ m \in 1..n
    BY <1>1, <2>2, <2>3
  <2>5. Gathered(ps, up[m - 1], m - 1)
    BY <2>1, <2>4
  <2> HIDE DEF Bad
  <2>6. Gathered(ps, Gather(up[m - 1], ps[m]), m)
    BY <2>4, <2>5, GatherStep
  <2> QED
    BY <1>10, <2>2, <2>3, <2>6
<1>13. n \in 0..n
  BY <1>1
<1> QED
  BY <1>9, <1>12, <1>13

-----------------------------------------------------------------------------
(* The rows of a returned Diff.                                            *)
LEMMA RowsOfResult ==
  ASSUME CInv, WInv, Done
  PROVE  Rows(result, Len(result))
BY ResultShape, ResultRow DEF Rows

(* Cut changes nothing that fits.                                          *)
Half == 2^(intBits - 1)

LEMMA HalfType == Half \in Int
BY ComparisonAssumption DEF Half

LEMMA CutIs ==
  ASSUME NEW n \in Int, -Half <= n, n < Half
  PROVE  Cut(n) = n
<1>1. Half \in Int
  BY HalfType
<1>2. ((n + Half) % (2 * Half)) - Half = n
  <2>1. 0 <= n + Half /\ n + Half < 2 * Half /\ n + Half \in Int /\ 2 * Half \in Int
    BY <1>1
  <2>2. (n + Half) % (2 * Half) = n + Half
    BY <2>1
  <2> QED
    BY <1>1, <2>2
<1>3. Cut(n) = ((n + Half) % (2 * Half)) - Half
  BY DEF Cut, Half
<1> QED
  BY <1>2, <1>3

Fits(x) == x \in Int /\ Magnitude(x) < Half

LEMMA BySizeIs ==
  ASSUME NEW x, NEW y, Fits(x), Fits(y)
  PROVE  /\ BySize(x, y) = Magnitude(y) - Magnitude(x)
         /\ Magnitude(x) \in Nat /\ Magnitude(y) \in Nat
<1> DEFINE a == Magnitude(x)
           b == Magnitude(y)
<1>1. Half \in Int /\ a < Half /\ b < Half
  BY HalfType DEF Fits
<1>2. a \in Nat /\ b \in Nat
  BY DEF Fits, Magnitude
<1> HIDE DEF a, b
<1>3. b - a \in Int /\ -Half <= b - a /\ b - a < Half
  BY <1>1, <1>2
<1>4. Cut(b - a) = b - a
  BY <1>3, CutIs
<1> QED
  BY <1>2, <1>4 DEF BySize, a, b

LEMMA TextsFit ==
  ASSUME CInv
  PROVE  TextBytes(old) < Half /\ TextBytes(new) < Half
<1>1. old \in OldBinaries \cup NewBinaries /\ new \in OldBinaries \cup NewBinaries
  BY DEF CInv, IInv, Shape, InputInv
<1> QED
  BY <1>1, ComparisonAssumption DEF Half

(* A sum over some pairs of their size changes stays within the two texts. *)
SomeSizes(v, n) == /\ v \in [1..n -> Int]
                   /\ \A k \in 1..n : v[k] = result[k].size \/ v[k] = 0

LEMMA SizesFit ==
  ASSUME CInv, WInv, Done, NEW v, SomeSizes(v, Len(result))
  PROVE  Fits(SumOf(v))
<1> DEFINE n == Len(result)
           a == [k \in 1..n |-> SizeOf(result[k].new)]
           b == [k \in 1..n |-> SizeOf(result[k].old)]
           s == [k \in 1..n |-> v[k] + b[k]]
<1>1. n \in Nat /\ v \in [1..n -> Int]
  BY ResultShape DEF SomeSizes
<1>2. ASSUME NEW k \in 1..n
      PROVE  /\ SizeOf(result[k].new) \in Nat /\ SizeOf(result[k].old) \in Nat
             /\ v[k] = 0 \/ v[k] = SizeOf(result[k].new) - SizeOf(result[k].old)
  BY ResultRow DEF RowOK, SomeSizes
<1>3. SumOf(a) = TextBytes(new) /\ SumOf(b) = TextBytes(old)
      /\ TextBytes(new) \in Nat /\ TextBytes(old) \in Nat
  BY TextsOfResult
<1>4. TextBytes(new) < Half /\ TextBytes(old) < Half /\ Half \in Int
  BY TextsFit, HalfType
<1> HIDE DEF n
<1>5. a \in [1..n -> Int] /\ b \in [1..n -> Int] /\ \A k \in 1..n : v[k] <= a[k]
  BY <1>2
<1>6. s \in [1..n -> Int] /\ \A k \in 1..n : s[k] >= 0
  <2> SUFFICES ASSUME NEW k \in 1..n PROVE v[k] + b[k] \in Int /\ v[k] + b[k] >= 0
    OBVIOUS
  <2> QED
    BY <1>2
<1>7. SumOf(s) = SumOf(v) + SumOf(b)
  <2> HIDE DEF b
  <2> QED
    BY <1>1, <1>5, SumAdd
<1> HIDE DEF a, b, s
<1>8. SumOf(v) \in Int /\ SumOf(v) <= SumOf(a) /\ SumOf(s) >= 0
  BY <1>1, <1>5, <1>6, SumType, SumMono, SumNat
<1>9. SumOf(v) <= TextBytes(new) /\ -TextBytes(old) <= SumOf(v)
  BY <1>3, <1>7, <1>8
<1> QED
  BY <1>3, <1>4, <1>8, <1>9 DEF Fits, Magnitude

LEMMA PackagesFit ==
  ASSUME CInv, WInv, Done, NEW g \in DOMAIN ByPackage(result)
  PROVE  Fits(ByPackage(result)[g].size)
<1> DEFINE n == Len(result)
           v == [k \in 1..n |-> Share(result, g, "size", k)]
<1>1. Rows(result, n)
  BY RowsOfResult
<1>2. "size" \in Field
  BY DEF Field
<1>3. Val(ByPackage(result)[g], "size") = SumOf(v)
  BY <1>1, <1>2, PackagesAre DEF Gathered
<1>4. Val(ByPackage(result)[g], "size") = ByPackage(result)[g].size
  BY DEF Val
<1>5. SomeSizes(v, n)
  <2>1. v \in [1..n -> Int]
    BY <1>1, <1>2, ShareType
  <2>2. ASSUME NEW k \in 1..n PROVE v[k] = result[k].size \/ v[k] = 0
    BY DEF Share, Adds
  <2> QED
    BY <2>1, <2>2 DEF SomeSizes
<1>6. Fits(SumOf(v))
  BY <1>5, SizesFit
<1> QED
  BY <1>3, <1>4, <1>6

-----------------------------------------------------------------------------
(* The sorted packages.                                                    *)
PackageBefore(f, x, y) == \/ Magnitude(f[x].size) > Magnitude(f[y].size)
                          \/ Magnitude(f[x].size) = Magnitude(f[y].size) /\ x < y

Packed(f, ds, d) ==
  /\ d \in Nat /\ DOMAIN ds = 1..d
  /\ \A k \in 1..d : ds[k].pkg \in DOMAIN f /\ ds[k].delta = f[ds[k].pkg]
  /\ \A j, k \in 1..d : ds[j].pkg = ds[k].pkg => j = k
  /\ \A g \in DOMAIN f : \E k \in 1..d : ds[k].pkg = g
  /\ \A j, k \in 1..d : j < k => PackageBefore(f, ds[j].pkg, ds[k].pkg)

LEMMA PackagesSorted ==
  ASSUME CInv, WInv, Done
  PROVE  \E d : Packed(ByPackage(result), PackageDeltas(result), d)
<1> DEFINE f == ByPackage(result)
           S == DOMAIN f
           Before(x, y) == IF Magnitude(f[x].size) # Magnitude(f[y].size)
                           THEN BySize(f[x].size, f[y].size) < 0 ELSE x < y
           R == {e \in S \X S : Before(e[1], e[2])}
           s == Sorted(S, R)
           d == Cardinality(S)
           ds == PackageDeltas(result)
<1>1. Gathered(result, f, Len(result))
  BY RowsOfResult, PackagesAre
<1>2. IsFiniteSet(S) /\ S \in SUBSET Nat
  BY <1>1 DEF Gathered, Folders
<1>3. \A x \in S : Fits(f[x].size)
  BY PackagesFit
<1>4. ds = [k \in DOMAIN s |-> [pkg |-> s[k], delta |-> f[s[k]]]]
  BY DEF PackageDeltas
<1>5. \A x, y : <<x, y>> \in R <=> x \in S /\ y \in S /\ Before(x, y)
  OBVIOUS
<1> HIDE DEF f, R, S
<1>6. ASSUME NEW x \in S, NEW y \in S
      PROVE  /\ x \in Nat /\ y \in Nat
             /\ Magnitude(f[x].size) \in Nat /\ Magnitude(f[y].size) \in Nat
             /\ <<x, y>> \in R <=> PackageBefore(f, x, y)
  <2>1. Fits(f[x].size) /\ Fits(f[y].size)
    BY <1>3
  <2>2. /\ BySize(f[x].size, f[y].size) = Magnitude(f[y].size) - Magnitude(f[x].size)
        /\ Magnitude(f[x].size) \in Nat /\ Magnitude(f[y].size) \in Nat
    BY <2>1, BySizeIs
  <2>3. x \in Nat /\ y \in Nat
    BY <1>2
  <2> QED
    BY <1>5, <2>2, <2>3 DEF PackageBefore
<1>7. StrictOrder(S, R)
  <2>1. ASSUME NEW x \in S PROVE <<x, x>> \notin R
    BY <1>6 DEF PackageBefore
  <2>2. ASSUME NEW x \in S, NEW y \in S, NEW z \in S, <<x, y>> \in R, <<y, z>> \in R
        PROVE  <<x, z>> \in R
    <3>1. PackageBefore(f, x, y) /\ PackageBefore(f, y, z)
      BY <1>6, <2>2
    <3>2. /\ x \in Nat /\ y \in Nat /\ z \in Nat
          /\ Magnitude(f[x].size) \in Nat /\ Magnitude(f[y].size) \in Nat /\ Magnitude(f[z].size) \in Nat
      BY <1>6
    <3>3. PackageBefore(f, x, z)
      BY <3>1, <3>2 DEF PackageBefore
    <3> QED
      BY <1>6, <3>3
  <2>3. ASSUME NEW x \in S, NEW y \in S, x # y PROVE <<x, y>> \in R \/ <<y, x>> \in R
    <3>1. /\ x \in Nat /\ y \in Nat
          /\ Magnitude(f[x].size) \in Nat /\ Magnitude(f[y].size) \in Nat
      BY <1>6
    <3>2. PackageBefore(f, x, y) \/ PackageBefore(f, y, x)
      BY <2>3, <3>1 DEF PackageBefore
    <3> QED
      BY <1>6, <3>2
  <2> QED
    BY <2>1, <2>2, <2>3 DEF StrictOrder
<1> HIDE DEF s, d, ds
<1>8. d \in Nat /\ InOrder(S, R, s)
  BY <1>2, <1>7, SortedFacts DEF s, d
<1>9. /\ s \in [1..d -> S]
      /\ \A j, k \in 1..d : s[j] = s[k] => j = k
      /\ \A x \in S : \E k \in 1..d : s[k] = x
      /\ \A j, k \in 1..d : j < k => <<s[j], s[k]>> \in R
  BY <1>8 DEF InOrder, d
<1>10. DOMAIN ds = 1..d /\ \A k \in 1..d : ds[k].pkg = s[k] /\ ds[k].delta = f[s[k]] /\ s[k] \in S
  BY <1>4, <1>9
<1>11. ASSUME NEW j \in 1..d, NEW k \in 1..d, j < k PROVE PackageBefore(f, ds[j].pkg, ds[k].pkg)
  BY <1>6, <1>9, <1>10, <1>11
<1>12. Packed(f, ds, d)
  BY <1>8, <1>9, <1>10, <1>11 DEF Packed, S
<1> QED
  BY <1>12 DEF f, ds

(* Each field summed over the packages is its sum over the pairs with code.*)
LEMMA PackagesSum ==
  ASSUME CInv, WInv, Done, NEW x \in Field
  PROVE  SumOf([k \in DOMAIN PackageDeltas(result) |-> Val(PackageDeltas(result)[k].delta, x)])
           = SumOf([k \in 1..Len(result) |-> CodeShare(result, x, k)])
<1> DEFINE n == Len(result)
           f == ByPackage(result)
           ds == PackageDeltas(result)
<1>1. Rows(result, n) /\ n \in Nat
  BY RowsOfResult DEF Rows
<1>2. Gathered(result, f, n)
  BY <1>1, PackagesAre
<1>3. PICK d : Packed(f, ds, d)
  BY PackagesSorted
<1> HIDE DEF n, f, ds
<1>4. d \in Nat /\ DOMAIN ds = 1..d
  BY <1>3 DEF Packed
<1> DEFINE M == [j \in 1..d |-> [k \in 1..n |-> Share(result, ds[j].pkg, x, k)]]
<1>5. \A j \in 1..d, k \in 1..n : Share(result, ds[j].pkg, x, k) \in Int
  BY <1>1, ShareType
<1>6. M \in Table(d, n)
  BY <1>5 DEF Table
<1>7. ASSUME NEW j \in 1..d PROVE Val(ds[j].delta, x) = SumOf([k \in 1..n |-> M[j][k]])
  <2>1. ds[j].pkg \in DOMAIN f /\ ds[j].delta = f[ds[j].pkg]
    BY <1>3 DEF Packed
  <2>2. Val(f[ds[j].pkg], x) = SumOf([k \in 1..n |-> Share(result, ds[j].pkg, x, k)])
    BY <1>2, <2>1 DEF Gathered
  <2>3. [k \in 1..n |-> Share(result, ds[j].pkg, x, k)] = [k \in 1..n |-> M[j][k]]
    OBVIOUS
  <2> QED
    BY <2>1, <2>2, <2>3
<1>8. ASSUME NEW k \in 1..n PROVE CodeShare(result, x, k) = SumOf([j \in 1..d |-> M[j][k]])
  <2> DEFINE v == [j \in 1..d |-> M[j][k]]
             g == PkgOf[result[k].name]
  <2>1. v \in [1..d -> Int] /\ \A j \in 1..d : v[j] = Share(result, ds[j].pkg, x, k)
    BY <1>5
  <2> HIDE DEF v, M
  <2>2. CASE result[k].state \in CodeStates
    <3>1. g \in Nat
      BY <1>1, <2>2 DEF Rows, RowOK
    <3>2. g \in DOMAIN f
      BY <1>2, <2>2, <3>1 DEF Gathered
    <3>3. PICK j \in 1..d : ds[j].pkg = g
      BY <1>3, <3>2 DEF Packed
    <3>4. v[j] = CodeShare(result, x, k)
      BY <2>1, <2>2, <3>3 DEF Share, CodeShare
    <3>5. ASSUME NEW l \in 1..d, l # j PROVE v[l] = 0
      <4>1. ds[l].pkg # g
        BY <1>3, <3>3, <3>5 DEF Packed
      <4> QED
        BY <2>1, <4>1 DEF Share
    <3>6. SumOf(v) = v[j]
      BY <1>4, <2>1, <3>5, SumOne
    <3> QED
      BY <3>4, <3>6 DEF v
  <2>3. CASE result[k].state \notin CodeStates
    <3>1. CodeShare(result, x, k) = 0 /\ \A j \in 1..d : v[j] = 0
      BY <2>1, <2>3 DEF Share, CodeShare
    <3>2. SumOf(v) = 0
      BY <1>4, <2>1, <3>1, SumNone
    <3> QED
      BY <3>1, <3>2 DEF v
  <2> QED
    BY <2>2, <2>3
<1> HIDE DEF M
<1>9. ByRows(M, d, n) = ByColumns(M, d, n)
  BY <1>1, <1>4, <1>6, SumSwap
<1>10. [j \in DOMAIN ds |-> Val(ds[j].delta, x)] = [j \in 1..d |-> SumOf([k \in 1..n |-> M[j][k]])]
  BY <1>4, <1>7
<1>11. [k \in 1..n |-> CodeShare(result, x, k)] = [k \in 1..n |-> SumOf([j \in 1..d |-> M[j][k]])]
  BY <1>8
<1>12. SumOf([j \in DOMAIN ds |-> Val(ds[j].delta, x)]) = SumOf([k \in 1..n |-> CodeShare(result, x, k)])
  BY <1>9, <1>10, <1>11 DEF ByRows, ByColumns
<1> QED
  BY <1>12 DEF n, ds

-----------------------------------------------------------------------------
(* The two totals of the mnemonics.                                        *)
OpFuns(U) == UNION {[D -> Int] : D \in SUBSET U}

LEMMA AddNothing ==
  ASSUME NEW U, NEW t \in OpFuns(U)
  PROVE  Add(t, NoOps) = t
<1>1. PICK D \in SUBSET U : t \in [D -> Int]
  BY DEF OpFuns
<1>2. DOMAIN NoOps = {}
  BY DEF NoOps
<1>3. \A op \in DOMAIN t : At(t, op) + At(NoOps, op) = t[op]
  BY <1>1, <1>2 DEF At
<1>4. Add(t, NoOps) = [op \in DOMAIN t |-> At(t, op) + At(NoOps, op)]
  BY <1>2 DEF Add
<1> QED
  BY <1>1, <1>3, <1>4

LEMMA AddType ==
  ASSUME NEW U, NEW t \in OpFuns(U), NEW u, DOMAIN u \subseteq U, \A op \in DOMAIN u : u[op] \in Int
  PROVE  Add(t, u) \in OpFuns(U)
<1>1. PICK D \in SUBSET U : t \in [D -> Int]
  BY DEF OpFuns
<1>2. D \cup DOMAIN u \in SUBSET U
  BY <1>1
<1>3. \A op : At(t, op) \in Int /\ At(u, op) \in Int
  BY <1>1 DEF At
<1>4. Add(t, u) \in [D \cup DOMAIN u -> Int]
  BY <1>1, <1>3 DEF Add
<1> QED
  BY <1>2, <1>4 DEF OpFuns

LEMMA OpTotalsAgree ==
  ASSUME NEW n, NEW ps, Rows(ps, n)
  PROVE  OpTotal(ps) = SummaryOps(ps)
<1> DEFINE U == UNION {DOMAIN ps[k].ops : k \in 1..n}
           F == [k \in 1..n |-> [t \in OpFuns(U) |-> Add(t, ps[k].ops)]]
           some(t, k) == IF ps[k].state # "relocation-only" THEN Add(t, ps[k].ops) ELSE t
           up == CHOOSE up : up = [m \in 0..n |-> IF m = 0 THEN NoOps ELSE Add(up[m - 1], ps[m].ops)]
           un == CHOOSE un : un = [m \in 0..n |-> IF m = 0 THEN NoOps
                                                  ELSE IF ps[m].state # "relocation-only"
                                                       THEN Add(un[m - 1], ps[m].ops) ELSE un[m - 1]]
<1>1. n \in Nat /\ Len(ps) = n /\ \A k \in 1..n : RowOK(ps[k])
  BY DEF Rows
<1>2. ASSUME NEW k \in 1..n, NEW t \in OpFuns(U)
      PROVE  /\ F[k][t] = Add(t, ps[k].ops) /\ F[k][t] \in OpFuns(U)
             /\ some(t, k) = Add(t, ps[k].ops)
  <2>1. \A op \in DOMAIN ps[k].ops : ps[k].ops[op] \in Int
    BY <1>1 DEF RowOK
  <2>2. DOMAIN ps[k].ops \subseteq U
    OBVIOUS
  <2>3. F[k][t] = Add(t, ps[k].ops)
    OBVIOUS
  <2>4. ps[k].state = "relocation-only" => ps[k].ops = NoOps
    BY <1>1 DEF RowOK, CodeStates
  <2> HIDE DEF U, F
  <2>5. Add(t, ps[k].ops) \in OpFuns(U)
    BY <2>1, <2>2, AddType
  <2>6. Add(t, NoOps) = t
    BY AddNothing
  <2> QED
    BY <2>3, <2>4, <2>5, <2>6
<1>3. NoOps \in OpFuns(U)
  <2>1. <<>> \in [{} -> Int] /\ {} \in SUBSET U
    OBVIOUS
  <2> HIDE DEF U
  <2> QED
    BY <2>1 DEF OpFuns, NoOps
<1> HIDE DEF F, U, some
<1>4. Within(F, n, OpFuns(U))
  BY <1>2 DEF Within
<1>5. PICK f \in [0..n -> OpFuns(U)] : Follows(f, NoOps, n, F)
  BY <1>1, <1>3, <1>4, Recursion
<1>6. f[0] = NoOps /\ \A k \in 1..n : f[k] = Add(f[k - 1], ps[k].ops) /\ f[k] = some(f[k - 1], k)
  <2> SUFFICES ASSUME NEW k \in 1..n
               PROVE  f[k] = Add(f[k - 1], ps[k].ops) /\ f[k] = some(f[k - 1], k)
    BY <1>5 DEF Follows
  <2>1. k - 1 \in 0..n
    BY <1>1
  <2>2. f[k - 1] \in OpFuns(U)
    BY <2>1
  <2> QED
    BY <1>2, <1>5, <2>2 DEF Follows
<1>7. \A m \in 0..n : m # 0 => m \in 1..n
  BY <1>1
<1>8. f = [m \in 0..n |-> IF m = 0 THEN NoOps ELSE Add(f[m - 1], ps[m].ops)]
  BY <1>6, <1>7
<1>9. f = [m \in 0..n |-> IF m = 0 THEN NoOps
                          ELSE IF ps[m].state # "relocation-only"
                               THEN Add(f[m - 1], ps[m].ops) ELSE f[m - 1]]
  BY <1>6, <1>7 DEF some
<1>10. up = [m \in 0..n |-> IF m = 0 THEN NoOps ELSE Add(up[m - 1], ps[m].ops)]
  BY <1>8
<1>11. un = [m \in 0..n |-> IF m = 0 THEN NoOps
                            ELSE IF ps[m].state # "relocation-only"
                                 THEN Add(un[m - 1], ps[m].ops) ELSE un[m - 1]]
  BY <1>9
<1>12. SummaryOps(ps) = Compact(up[n])
  BY <1>1 DEF SummaryOps
<1>13. OpTotal(ps) = Compact(un[n])
  BY <1>1 DEF OpTotal
<1> HIDE DEF up, un
<1>14. \A m \in 0..n : up[m] = IF m = 0 THEN NoOps ELSE Add(up[m - 1], ps[m].ops)
  BY <1>10
<1>15. \A m \in 0..n : un[m] = IF m = 0 THEN NoOps ELSE some(un[m - 1], m)
  BY <1>11 DEF some
<1> DEFINE Bad == {m \in 0..n : ~(up[m] = f[m] /\ un[m] = f[m])}
<1>16. Bad = {}
  <2> SUFFICES ASSUME Bad # {} PROVE FALSE
    OBVIOUS
  <2>1. PICK m \in Bad : \A q \in Bad : m <= q
    <3>1. Bad \in SUBSET Nat
      OBVIOUS
    <3> HIDE DEF Bad
    <3> QED
      BY <3>1, LeastElement
  <2>2. m \in 0..n /\ ~(up[m] = f[m] /\ un[m] = f[m])
    OBVIOUS
  <2>3. m # 0
    BY <1>6, <1>14, <1>15, <2>2
  <2>4. m - 1 \in 0..n /\ ~(m <= m - 1) /\ m \in 1..n
    BY <1>1, <2>2, <2>3
  <2>5. up[m - 1] = f[m - 1] /\ un[m - 1] = f[m - 1]
    BY <2>1, <2>4
  <2> QED
    BY <1>6, <1>14, <1>15, <2>2, <2>3, <2>4, <2>5
<1>17. n \in 0..n
  BY <1>1
<1> QED
  BY <1>12, <1>13, <1>16, <1>17

LEMMA CompactHasNoZeros ==
  ASSUME NEW c
  PROVE  \A op \in DOMAIN Compact(c) : Compact(c)[op] # 0
BY DEF Compact

-----------------------------------------------------------------------------
LEMMA SizesAddUp ==
  ASSUME CInv, WInv, Done
  PROVE  SizeTotal(result) = PackageSum(LAMBDA d : d.size) + RelocatedSize(result)
<1> DEFINE n == Len(result)
           ds == PackageDeltas(result)
           v == [k \in 1..n |-> CodeShare(result, "size", k)]
           w == [k \in 1..n |-> IF result[k].state = "relocation-only" THEN result[k].size ELSE 0]
<1>1. Rows(result, n) /\ n \in Nat /\ DOMAIN result = 1..n /\ \A k \in 1..n : RowOK(result[k])
  BY RowsOfResult DEF Rows
<1>2. "size" \in Field
  BY DEF Field
<1>3. PackageSum(LAMBDA d : d.size) = SumOf([k \in DOMAIN ds |-> ds[k].delta.size])
  BY DEF PackageSum
<1>4. [k \in DOMAIN ds |-> ds[k].delta.size] = [k \in DOMAIN ds |-> Val(ds[k].delta, "size")]
  BY DEF Val
<1>5. SumOf([k \in DOMAIN ds |-> Val(ds[k].delta, "size")]) = SumOf(v)
  BY <1>2, PackagesSum
<1>6. v \in [1..n -> Int]
  BY <1>1, <1>2, ShareType
<1>7. w \in [1..n -> Int]
  BY <1>1 DEF RowOK
<1>8. ASSUME NEW k \in 1..n PROVE result[k].size = v[k] + w[k]
  <2>1. RowOK(result[k])
    BY <1>1
  <2>2. /\ result[k].size \in Int /\ result[k].state \in DiffState
        /\ result[k].state = "identical" => result[k].size = 0
    BY <2>1 DEF RowOK
  <2> QED
    BY <2>2 DEF CodeShare, Adds, CodeStates, DiffState
<1>9. [k \in DOMAIN result |-> result[k].size] = [k \in 1..n |-> v[k] + w[k]]
  BY <1>1, <1>8
<1>10. RelocatedSize(result) = SumOf(w)
  BY <1>1 DEF RelocatedSize
<1> HIDE DEF v, w, n, ds
<1>11. SumOf([k \in 1..n |-> v[k] + w[k]]) = SumOf(v) + SumOf(w)
  BY <1>1, <1>6, <1>7, SumAdd
<1> QED
  BY <1>3, <1>4, <1>5, <1>9, <1>10, <1>11 DEF SizeTotal

LEMMA CountsAddUp ==
  ASSUME CInv, WInv, Done, NEW c \in Counter
  PROVE  SummaryCount(result)[c] = PackageSum(LAMBDA d : d.count[c])
<1> DEFINE n == Len(result)
           ds == PackageDeltas(result)
           v == [k \in 1..n |-> CodeShare(result, c, k)]
<1>1. Rows(result, n) /\ n \in Nat /\ DOMAIN result = 1..n /\ \A k \in 1..n : RowOK(result[k])
  BY RowsOfResult DEF Rows
<1>2. c \in Field /\ c # "size"
  BY DEF Field, Counter
<1>3. PackageSum(LAMBDA d : d.count[c]) = SumOf([k \in DOMAIN ds |-> ds[k].delta.count[c]])
  BY DEF PackageSum
<1>4. [k \in DOMAIN ds |-> ds[k].delta.count[c]] = [k \in DOMAIN ds |-> Val(ds[k].delta, c)]
  BY <1>2 DEF Val
<1>5. SumOf([k \in DOMAIN ds |-> Val(ds[k].delta, c)]) = SumOf(v)
  BY <1>2, PackagesSum
<1>6. ASSUME NEW k \in 1..n PROVE result[k].count[c] = v[k]
  <2>1. RowOK(result[k])
    BY <1>1
  <2> QED
    BY <1>2, <2>1 DEF RowOK, CodeShare, Adds
<1>7. [k \in DOMAIN result |-> result[k].count[c]] = v
  BY <1>1, <1>6
<1> HIDE DEF v, n, ds
<1> QED
  BY <1>3, <1>4, <1>5, <1>7 DEF SummaryCount

LEMMA NumbersAddUp ==
  ASSUME CInv, WInv, Done, NEW s \in CodeStates
  PROVE  PackageSum(LAMBDA d : d.number[s]) = Cardinality({k \in DOMAIN result : result[k].state = s})
<1> DEFINE n == Len(result)
           ds == PackageDeltas(result)
           v == [k \in 1..n |-> CodeShare(result, s, k)]
           S == {k \in 1..n : result[k].state = s}
<1>1. n \in Nat /\ DOMAIN result = 1..n
  BY ResultShape
<1>2. s \in Field /\ s # "size" /\ s \notin Counter
  BY DEF Field, Counter, CodeStates
<1>3. PackageSum(LAMBDA d : d.number[s]) = SumOf([k \in DOMAIN ds |-> ds[k].delta.number[s]])
  BY DEF PackageSum
<1>4. [k \in DOMAIN ds |-> ds[k].delta.number[s]] = [k \in DOMAIN ds |-> Val(ds[k].delta, s)]
  BY <1>2 DEF Val
<1>5. SumOf([k \in DOMAIN ds |-> Val(ds[k].delta, s)]) = SumOf(v)
  BY <1>2, PackagesSum
<1>6. v = [k \in 1..n |-> IF k \in S THEN 1 ELSE 0]
  BY <1>2 DEF CodeShare, Adds
<1>7. S \in SUBSET (1..n) /\ S = {k \in DOMAIN result : result[k].state = s}
  BY <1>1
<1> HIDE DEF v, n, ds, S
<1>8. SumOf([k \in 1..n |-> IF k \in S THEN 1 ELSE 0]) = Cardinality(S)
  BY <1>1, <1>7, SumCount
<1> QED
  BY <1>3, <1>4, <1>5, <1>6, <1>7, <1>8

(* The views of one Diff agree, whatever the tables hold and whichever     *)
(* renames MatchRenames folded: the size change is that of the two texts,  *)
(* packages and relocations account for it, and the two totals of the      *)
(* mnemonics and the counts are the same.                                  *)
THEOREM ViewsAgree == CompareSpec => []TotalsAgree
<1>1. ASSUME CInv, WInv PROVE TotalsAgree
  <2> SUFFICES ASSUME Done
               PROVE  /\ SizeTotal(result) = TextBytes(new) - TextBytes(old)
                      /\ SizeTotal(result) = PackageSum(LAMBDA d : d.size) + RelocatedSize(result)
                      /\ OpTotal(result) = SummaryOps(result)
                      /\ \A op \in DOMAIN OpTotal(result) : OpTotal(result)[op] # 0
                      /\ \A c \in Counter : SummaryCount(result)[c] = PackageSum(LAMBDA d : d.count[c])
    BY DEF TotalsAgree
  <2>1. SizeTotal(result) = TextBytes(new) - TextBytes(old)
    BY <1>1, SizeTotalIsText
  <2>2. SizeTotal(result) = PackageSum(LAMBDA d : d.size) + RelocatedSize(result)
    BY <1>1, SizesAddUp
  <2>3. OpTotal(result) = SummaryOps(result)
    BY <1>1, RowsOfResult, OpTotalsAgree
  <2>4. \A op \in DOMAIN OpTotal(result) : OpTotal(result)[op] # 0
    BY CompactHasNoZeros DEF OpTotal
  <2>5. ASSUME NEW c \in Counter PROVE SummaryCount(result)[c] = PackageSum(LAMBDA d : d.count[c])
    BY <1>1, CountsAddUp
  <2> QED
    BY <2>1, <2>2, <2>3, <2>4, <2>5
<1> QED
  BY <1>1, WholeInvariant, PTL

(* The packages come in the documented order, each once, and their numbers *)
(* of changed, added and removed functions are those of the Diff.          *)
THEOREM PackagesAreInOrder == CompareSpec => []PackagesInOrder
<1>1. ASSUME CInv, WInv PROVE PackagesInOrder
  <2> DEFINE ds == PackageDeltas(result)
             f == ByPackage(result)
  <2> SUFFICES ASSUME Done
               PROVE  /\ \A j, k \in DOMAIN ds : j < k =>
                           \/ Magnitude(ds[j].delta.size) > Magnitude(ds[k].delta.size)
                           \/ /\ Magnitude(ds[j].delta.size) = Magnitude(ds[k].delta.size)
                              /\ ds[j].pkg < ds[k].pkg
                      /\ \A s \in CodeStates :
                           PackageSum(LAMBDA d : d.number[s])
                             = Cardinality({k \in DOMAIN result : result[k].state = s})
    BY DEF PackagesInOrder
  <2>1. PICK q : Packed(f, ds, q)
    BY <1>1, PackagesSorted
  <2>2. ASSUME NEW s \in CodeStates
        PROVE  PackageSum(LAMBDA d : d.number[s]) = Cardinality({k \in DOMAIN result : result[k].state = s})
    BY <1>1, NumbersAddUp
  <2> HIDE DEF ds, f
  <2>3. ASSUME NEW j \in DOMAIN ds, NEW k \in DOMAIN ds, j < k
        PROVE  \/ Magnitude(ds[j].delta.size) > Magnitude(ds[k].delta.size)
               \/ /\ Magnitude(ds[j].delta.size) = Magnitude(ds[k].delta.size)
                  /\ ds[j].pkg < ds[k].pkg
    <3>1. j \in 1..q /\ k \in 1..q
      BY <2>1 DEF Packed
    <3>2. /\ PackageBefore(f, ds[j].pkg, ds[k].pkg)
          /\ ds[j].delta = f[ds[j].pkg] /\ ds[k].delta = f[ds[k].pkg]
      BY <2>1, <2>3, <3>1 DEF Packed
    <3> QED
      BY <3>2 DEF PackageBefore
  <2> QED
    BY <2>2, <2>3
<1> QED
  BY <1>1, WholeInvariant, PTL

-----------------------------------------------------------------------------
(* The ranking tables.                                                     *)
Key(key) == CASE key = "insts" -> "inst" [] key = "spills" -> "spill" [] OTHER -> "slot"

LEMMA DeltaIs ==
  ASSUME NEW p, NEW key \in SortKey
  PROVE  /\ Delta(p, key) = IF key = "size" THEN p.size ELSE p.count[Key(key)]
         /\ Key(key) \in Counter
         /\ RowOK(p) => Delta(p, key) \in Int
         /\ RowOK(p) /\ p.state = "identical" => Delta(p, key) = 0
<1>1. Delta(p, key) = IF key = "size" THEN p.size ELSE p.count[Key(key)]
  BY DEF Delta, Key, SortKey
<1>2. Key(key) \in Counter
  BY DEF Key, Counter
<1>3. RowOK(p) => Delta(p, key) \in Int
  BY <1>1, <1>2 DEF RowOK
<1>4. RowOK(p) /\ p.state = "identical" => Delta(p, key) = 0
  BY <1>1, <1>2 DEF RowOK, CodeStates
<1> QED
  BY <1>1, <1>2, <1>3, <1>4

LEMMA NamesOfResult ==
  ASSUME CInv, Done, NEW j \in 1..Len(result), NEW k \in 1..Len(result),
         result[j].name = result[k].name
  PROVE  j = k
<1>1. NamesApart(list) /\ DOMAIN list = 1..Len(result) /\ stage \in Assembling
  BY ResultShape DEF CInv, ListInv, ListFacts, Listed, Done, Assembling
<1>2. j \in DOMAIN result /\ k \in DOMAIN result
  BY ResultShape
<1>3. Becomes(list[j], result[j]) /\ Becomes(list[k], result[k])
  BY <1>1, <1>2, ResultFacts
<1>4. list[j].name = list[k].name
  BY <1>3 DEF Becomes
<1> QED
  BY <1>1, <1>4 DEF NamesApart

LEMMA PairFits ==
  ASSUME CInv, WInv, Done, NEW j \in 1..Len(result)
  PROVE  Fits(result[j].size)
<1> DEFINE n == Len(result)
           v == [k \in 1..n |-> IF k = j THEN result[k].size ELSE 0]
<1>1. n \in Nat
  BY ResultShape
<1>2. \A k \in 1..n : result[k].size \in Int
  BY ResultRow DEF RowOK
<1>3. v \in [1..n -> Int] /\ v[j] = result[j].size /\ \A k \in 1..n : k # j => v[k] = 0
  BY <1>2
<1>4. \A k \in 1..n : v[k] = result[k].size \/ v[k] = 0
  OBVIOUS
<1> HIDE DEF v
<1>5. SomeSizes(v, n)
  BY <1>3, <1>4 DEF SomeSizes
<1>6. SumOf(v) = v[j]
  BY <1>1, <1>3, SumOne
<1>7. Fits(SumOf(v))
  BY <1>5, SizesFit
<1> QED
  BY <1>3, <1>6, <1>7

LEMMA MagnitudeType ==
  ASSUME NEW n \in Int
  PROVE  Magnitude(n) \in Nat /\ (Magnitude(n) = 0 <=> n = 0)
BY DEF Magnitude

(* The order rankPairs sorts by is the documented one.                     *)
Before(p, q, sortBy) == LET d == Order(p, q, sortBy) IN d < 0 \/ (d = 0 /\ p.name < q.name)

LEMMA OrderIsAhead ==
  ASSUME CInv, WInv, Done, NEW sortBy \in SortBy,
         NEW j \in 1..Len(result), NEW k \in 1..Len(result)
  PROVE  Before(result[j], result[k], sortBy) <=> Ahead(result[j], result[k], sortBy)
<1> DEFINE p == result[j]
           q == result[k]
<1>1. RowOK(p) /\ RowOK(q)
  BY ResultRow
<1>2. p.name \in Nat /\ q.name \in Nat
  BY <1>1 DEF RowOK
<1>3. Fits(p.size) /\ Fits(q.size)
  BY PairFits
<1> HIDE DEF p, q
<1>4. CASE sortBy = "name"
  <2>1. Order(p, q, sortBy) = 0
    BY <1>4 DEF Order
  <2> QED
    BY <1>4, <2>1 DEF Before, Ahead, p, q
<1>5. CASE sortBy # "name"
  <2> DEFINE a == Magnitude(Delta(p, sortBy))
             b == Magnitude(Delta(q, sortBy))
  <2>1. sortBy \in SortKey
    BY <1>5 DEF SortBy
  <2>2. Delta(p, sortBy) \in Int /\ Delta(q, sortBy) \in Int
    BY <1>1, <2>1, DeltaIs
  <2>3. a \in Nat /\ b \in Nat
    BY <2>2, MagnitudeType
  <2>4. Order(p, q, sortBy) = b - a
    <3>1. CASE sortBy = "size"
      <4>1. Delta(p, sortBy) = p.size /\ Delta(q, sortBy) = q.size
        BY <2>1, <3>1, DeltaIs
      <4>2. Order(p, q, sortBy) = BySize(p.size, q.size)
        BY <3>1 DEF Order
      <4> QED
        BY <1>3, <4>1, <4>2, BySizeIs
    <3>2. CASE sortBy # "size"
      BY <1>5, <3>2 DEF Order
    <3> QED
      BY <3>1, <3>2
  <2>5. Ahead(p, q, sortBy) <=> a > b \/ (a = b /\ p.name < q.name)
    BY <1>5 DEF Ahead
  <2>6. Before(p, q, sortBy) <=> b - a < 0 \/ (b - a = 0 /\ p.name < q.name)
    BY <2>4 DEF Before
  <2> HIDE DEF a, b
  <2> QED
    BY <2>3, <2>5, <2>6 DEF p, q
<1> QED
  BY <1>4, <1>5

Ranked(sortBy, states) ==
  {k \in 1..Len(result) : /\ result[k].state # "identical" /\ result[k].state \in states
                          /\ Keeps(result[k], sortBy)}

(* The table t shows the first of the pairs S, in their order s.           *)
Tabled(S, s, sortBy, top, t) ==
  /\ s \in [1..Cardinality(S) -> S]
  /\ \A j, k \in 1..Cardinality(S) : s[j] = s[k] => j = k
  /\ \A x \in S : \E k \in 1..Cardinality(S) : s[k] = x
  /\ \A j, k \in 1..Cardinality(S) : j < k => Ahead(result[s[j]], result[s[k]], sortBy)
  /\ Cardinality(S) \in Nat
  /\ t = [k \in 1..(IF Cardinality(S) > top THEN top ELSE Cardinality(S)) |-> result[s[k]]]

LEMMA TableFacts ==
  ASSUME CInv, WInv, Done, NEW sortBy \in SortBy, NEW top \in Nat, NEW states
  PROVE  \E s : Tabled(Ranked(sortBy, states), s, sortBy, top, RankPairs(result, top, sortBy, states))
<1> DEFINE n == Len(result)
           S == Ranked(sortBy, states)
           R == {e \in S \X S : Before(result[e[1]], result[e[2]], sortBy)}
           s == Sorted(S, R)
           d == Cardinality(S)
           t == RankPairs(result, top, sortBy, states)
<1>1. n \in Nat /\ DOMAIN result = 1..n
  BY ResultShape
<1>2. S \in SUBSET (1..n) /\ IsFiniteSet(S)
  <2>1. S \in SUBSET (1..n)
    BY DEF Ranked
  <2>2. IsFiniteSet(1..n)
    BY <1>1, FS_Interval
  <2> HIDE DEF S, n
  <2> QED
    BY <2>1, <2>2, FS_Subset
<1>3. t = [k \in 1..(IF Len(s) > top THEN top ELSE Len(s)) |-> result[s[k]]]
  BY <1>1 DEF RankPairs, Ranked, Before
<1>4. \A x, y : <<x, y>> \in R <=> x \in S /\ y \in S /\ Before(result[x], result[y], sortBy)
  OBVIOUS
<1> HIDE DEF R, S, t
<1>5. ASSUME NEW x \in S, NEW y \in S
      PROVE  /\ <<x, y>> \in R <=> Ahead(result[x], result[y], sortBy)
             /\ result[x].name \in Nat
             /\ sortBy # "name" => Magnitude(Delta(result[x], sortBy)) \in Nat
             /\ result[x].name = result[y].name => x = y
  <2>1. x \in 1..n /\ y \in 1..n
    BY <1>2
  <2>2. <<x, y>> \in R <=> Ahead(result[x], result[y], sortBy)
    BY <1>4, <2>1, OrderIsAhead
  <2>3. RowOK(result[x])
    BY <2>1, ResultRow
  <2>4. result[x].name \in Nat
    BY <2>3 DEF RowOK
  <2>5. sortBy # "name" => Magnitude(Delta(result[x], sortBy)) \in Nat
    BY <2>3, DeltaIs, MagnitudeType DEF SortBy
  <2>6. result[x].name = result[y].name => x = y
    BY <2>1, NamesOfResult
  <2> QED
    BY <2>2, <2>4, <2>5, <2>6
<1>6. StrictOrder(S, R)
  <2>1. ASSUME NEW x \in S PROVE <<x, x>> \notin R
    BY <1>5 DEF Ahead
  <2>2. ASSUME NEW x \in S, NEW y \in S, NEW z \in S, <<x, y>> \in R, <<y, z>> \in R
        PROVE  <<x, z>> \in R
    <3>1. Ahead(result[x], result[y], sortBy) /\ Ahead(result[y], result[z], sortBy)
      BY <1>5, <2>2
    <3>2. /\ result[x].name \in Nat /\ result[y].name \in Nat /\ result[z].name \in Nat
          /\ sortBy # "name" => /\ Magnitude(Delta(result[x], sortBy)) \in Nat
                                /\ Magnitude(Delta(result[y], sortBy)) \in Nat
                                /\ Magnitude(Delta(result[z], sortBy)) \in Nat
      BY <1>5
    <3>3. Ahead(result[x], result[z], sortBy)
      BY <3>1, <3>2 DEF Ahead
    <3> QED
      BY <1>5, <3>3
  <2>3. ASSUME NEW x \in S, NEW y \in S, x # y PROVE <<x, y>> \in R \/ <<y, x>> \in R
    <3>1. /\ result[x].name \in Nat /\ result[y].name \in Nat /\ result[x].name # result[y].name
          /\ sortBy # "name" => /\ Magnitude(Delta(result[x], sortBy)) \in Nat
                                /\ Magnitude(Delta(result[y], sortBy)) \in Nat
      BY <1>5, <2>3
    <3>2. Ahead(result[x], result[y], sortBy) \/ Ahead(result[y], result[x], sortBy)
      BY <3>1 DEF Ahead
    <3> QED
      BY <1>5, <3>2
  <2> QED
    BY <2>1, <2>2, <2>3 DEF StrictOrder
<1> HIDE DEF s, d
<1>7. d \in Nat /\ InOrder(S, R, s)
  BY <1>2, <1>6, SortedFacts DEF s, d
<1>8. /\ s \in [1..d -> S]
      /\ \A j, k \in 1..d : s[j] = s[k] => j = k
      /\ \A x \in S : \E k \in 1..d : s[k] = x
      /\ \A j, k \in 1..d : j < k => <<s[j], s[k]>> \in R
  BY <1>7 DEF InOrder, d
<1>9. Len(s) = d
  BY <1>7, <1>8, LenOf
<1>10. ASSUME NEW j \in 1..d, NEW k \in 1..d, j < k PROVE Ahead(result[s[j]], result[s[k]], sortBy)
  BY <1>5, <1>8, <1>10
<1>11. Tabled(S, s, sortBy, top, t)
  BY <1>3, <1>7, <1>8, <1>9, <1>10 DEF Tabled, d
<1> QED
  BY <1>11 DEF S, t

(* What a table shows, which room it needs and what it leaves out.         *)
TableIsTop(sortBy, top, states) ==
  LET table == RankPairs(result, top, sortBy, states)
      asked == {p \in Range(result) : /\ p.state \in states
                                      /\ \E key \in SortKey \cap {sortBy} : Delta(p, key) # 0}
  IN  /\ \A j, k \in DOMAIN table : j < k => Ahead(table[j], table[k], sortBy)
      /\ sortBy # "name" => /\ Range(table) \subseteq asked
                            /\ Len(table) = IF Cardinality(asked) > top THEN top ELSE Cardinality(asked)
                            /\ \A p \in Range(table), q \in asked \ Range(table) : Ahead(p, q, sortBy)

LEMMA TableShowsTheTop ==
  ASSUME CInv, WInv, Done, NEW sortBy \in SortBy, NEW top \in Nat, NEW states
  PROVE  TableIsTop(sortBy, top, states)
<1> DEFINE n == Len(result)
           S == Ranked(sortBy, states)
           d == Cardinality(S)
           t == RankPairs(result, top, sortBy, states)
           m == IF d > top THEN top ELSE d
           asked == {p \in Range(result) : /\ p.state \in states
                                           /\ \E key \in SortKey \cap {sortBy} : Delta(p, key) # 0}
<1>1. n \in Nat /\ DOMAIN result = 1..n /\ S \in SUBSET (1..n)
  BY ResultShape DEF Ranked
<1>2. PICK s : Tabled(S, s, sortBy, top, t)
  BY TableFacts
<1> HIDE DEF t
<1>3. /\ s \in [1..d -> S] /\ d \in Nat
      /\ \A j, k \in 1..d : s[j] = s[k] => j = k
      /\ \A x \in S : \E k \in 1..d : s[k] = x
      /\ \A j, k \in 1..d : j < k => Ahead(result[s[j]], result[s[k]], sortBy)
      /\ t = [k \in 1..m |-> result[s[k]]]
  BY <1>2 DEF Tabled
<1>4. m \in Nat /\ \A k \in 1..m : k \in 1..d
  BY <1>3
<1>5. DOMAIN t = 1..m /\ \A k \in 1..m : t[k] = result[s[k]] /\ s[k] \in S
  BY <1>3, <1>4
<1>6. ASSUME NEW j \in DOMAIN t, NEW k \in DOMAIN t, j < k PROVE Ahead(t[j], t[k], sortBy)
  BY <1>3, <1>4, <1>5, <1>6
<1>7. Len(t) = m
  <2>1. t = [k \in 1..m |-> t[k]]
    BY <1>3, <1>5
  <2> DEFINE T == {t[k] : k \in 1..m}
  <2>2. \A k \in 1..m : t[k] \in T
    OBVIOUS
  <2> HIDE DEF m, T
  <2> QED
    BY <1>4, <1>5, <2>1, <2>2, LenOf
<1>8. ASSUME sortBy # "name"
      PROVE  /\ Range(t) \subseteq asked
             /\ Len(t) = IF Cardinality(asked) > top THEN top ELSE Cardinality(asked)
             /\ \A p \in Range(t), q \in asked \ Range(t) : Ahead(p, q, sortBy)
  <2>1. sortBy \in SortKey
    BY <1>8 DEF SortBy
  <2>2. \A p : p \in asked <=> p \in Range(result) /\ p.state \in states /\ Delta(p, sortBy) # 0
    BY <2>1
  <2>3. ASSUME NEW k \in 1..n PROVE k \in S <=> result[k] \in asked
    <3>1. Keeps(result[k], sortBy) <=> Delta(result[k], sortBy) # 0
      BY <1>8 DEF Keeps
    <3>2. result[k].state = "identical" => Delta(result[k], sortBy) = 0
      BY <2>1, ResultRow, DeltaIs
    <3>3. result[k] \in Range(result)
      BY <1>1 DEF Range
    <3> QED
      BY <2>2, <3>1, <3>2, <3>3 DEF Ranked
  <2>4. ASSUME NEW p \in asked PROVE \E k \in S : result[k] = p
    <3>1. PICK k \in 1..n : result[k] = p
      BY <1>1 DEF Range
    <3> QED
      BY <2>3, <3>1
  <2> HIDE DEF asked, S, m
  <2>5. ASSUME NEW p \in Range(t) PROVE \E k \in 1..m : p = t[k]
    BY <1>5 DEF Range
  <2>6. Range(t) \subseteq asked
    <3> SUFFICES ASSUME NEW p \in Range(t) PROVE p \in asked
      OBVIOUS
    <3>1. PICK k \in 1..m : p = t[k]
      BY <2>5
    <3> QED
      BY <1>1, <1>5, <2>3, <3>1
  <2>7. Cardinality(asked) = d
    <3> DEFINE f == [k \in S |-> result[k]]
    <3>1. f \in [S -> asked]
      BY <1>1, <2>3
    <3>2. \A j, k \in S : f[j] = f[k] => j = k
      BY <1>1, NamesOfResult
    <3>3. \A p \in asked : \E k \in S : f[k] = p
      BY <2>4
    <3> HIDE DEF f
    <3>4. f \in Bijection(S, asked)
      BY <3>1, <3>2, <3>3 DEF Bijection, Injection, Surjection, IsInjective
    <3>5. IsFiniteSet(S)
      <4>1. IsFiniteSet(1..n)
        BY <1>1, FS_Interval
      <4> HIDE DEF n
      <4> QED
        BY <1>1, <4>1, FS_Subset
    <3> QED
      BY <3>4, <3>5, FS_Bijection DEF ExistsBijection
  <2>8. ASSUME NEW p \in Range(t), NEW q \in asked \ Range(t) PROVE Ahead(p, q, sortBy)
    <3>1. PICK j \in 1..m : p = t[j]
      BY <2>5
    <3>2. PICK l \in S : result[l] = q
      BY <2>4
    <3>3. PICK k \in 1..d : s[k] = l
      BY <1>3, <3>2
    <3>4. k \notin 1..m
      <4> SUFFICES ASSUME k \in 1..m PROVE FALSE
        OBVIOUS
      <4>1. t[k] = q
        BY <1>5, <3>2, <3>3
      <4> QED
        BY <1>5, <4>1 DEF Range
    <3>5. j < k /\ j \in 1..d
      BY <1>3, <1>4, <3>4
    <3>6. Ahead(result[s[j]], result[s[k]], sortBy)
      BY <1>3, <3>5
    <3> QED
      BY <1>5, <3>1, <3>2, <3>3, <3>6
  <2>9. Len(t) = IF Cardinality(asked) > top THEN top ELSE Cardinality(asked)
    BY <1>7, <2>7 DEF m
  <2> QED
    BY <2>6, <2>8, <2>9
<1> HIDE DEF asked
<1> QED
  BY <1>6, <1>8 DEF TableIsTop, t, asked

(* The tables show the functions asked for that changed in what they rank  *)
(* by, the largest changes first and ties by name, for every Diff.         *)
THEOREM TablesShowTheTop == CompareSpec => []RankingShowsTheTop
<1>1. ASSUME CInv, WInv PROVE RankingShowsTheTop
  <2> SUFFICES ASSUME Done, NEW sortBy \in SortBy, NEW top \in 0..2,
                      NEW states \in {DiffState, {"added"}, {"changed", "relocation-only"}}
               PROVE  TableIsTop(sortBy, top, states)
    BY DEF RankingShowsTheTop, TableIsTop
  <2>1. top \in Nat
    OBVIOUS
  <2> QED
    BY <1>1, <2>1, TableShowsTheTop
<1> QED
  BY <1>1, WholeInvariant, PTL

-----------------------------------------------------------------------------
(* A table with room for all adds up to the pairs of the states it shows.  *)
Part(key, states, k) == IF result[k].state \in states THEN Delta(result[k], key) ELSE 0

LEMMA PartType ==
  ASSUME CInv, WInv, Done, NEW key \in SortKey, NEW states
  PROVE  \A k \in 1..Len(result) : Part(key, states, k) \in Int
<1> SUFFICES ASSUME NEW k \in 1..Len(result) PROVE Part(key, states, k) \in Int
  OBVIOUS
<1>1. RowOK(result[k])
  BY ResultRow
<1>2. Delta(result[k], key) \in Int
  BY <1>1, DeltaIs
<1> QED
  BY <1>2 DEF Part

LEMMA TableAddsUp ==
  ASSUME CInv, WInv, Done, NEW key \in SortKey, NEW sortBy \in {key, "name"}, NEW states
  PROVE  ColumnSum(RankPairs(result, Len(result), sortBy, states), key)
           = SumOf([k \in 1..Len(result) |-> Part(key, states, k)])
<1> DEFINE n == Len(result)
           S == Ranked(sortBy, states)
           d == Cardinality(S)
           t == RankPairs(result, n, sortBy, states)
           w == [k \in 1..n |-> Part(key, states, k)]
<1>1. n \in Nat /\ S \in SUBSET (1..n) /\ sortBy \in SortBy
  BY ResultShape DEF Ranked, SortBy
<1>2. PICK s : Tabled(S, s, sortBy, n, t)
  BY <1>1, TableFacts
<1>3. IsFiniteSet(1..n) /\ Cardinality(1..n) = n
  <2>1. IsFiniteSet(1..n) /\ Cardinality(1..n) = IF 1 > n THEN 0 ELSE n - 1 + 1
    BY <1>1, FS_Interval
  <2> HIDE DEF n
  <2> QED
    BY <1>1, <2>1
<1>4. ASSUME NEW k \in 1..n PROVE k \in S <=> /\ result[k].state # "identical"
                                              /\ result[k].state \in states
                                              /\ Keeps(result[k], sortBy)
  BY DEF Ranked
<1>5. \A k \in 1..n : w[k] = Part(key, states, k)
  OBVIOUS
<1>6. w \in [1..n -> Int]
  BY PartType
<1> HIDE DEF S, t, w, n
<1>7. d <= n
  BY <1>1, <1>3, FS_Subset
<1>8. /\ s \in [1..d -> S] /\ d \in Nat
      /\ \A j, k \in 1..d : s[j] = s[k] => j = k
      /\ \A x \in S : \E k \in 1..d : s[k] = x
      /\ t = [k \in 1..(IF d > n THEN n ELSE d) |-> result[s[k]]]
  BY <1>2 DEF Tabled
<1>9. t = [k \in 1..d |-> result[s[k]]]
  BY <1>1, <1>7, <1>8
<1> DEFINE v == [k \in 1..d |-> Delta(result[s[k]], key)]
           R == {e \in (1..d) \X (1..n) : s[e[1]] = e[2]}
<1>10. ColumnSum(t, key) = SumOf(v)
  BY <1>9 DEF ColumnSum
<1>11. ASSUME NEW j \in 1..d
       PROVE  s[j] \in 1..n /\ s[j] \in S /\ Delta(result[s[j]], key) = w[s[j]]
  <2>1. s[j] \in S /\ s[j] \in 1..n
    BY <1>1, <1>8
  <2>2. result[s[j]].state \in states
    BY <1>4, <2>1
  <2> QED
    BY <1>5, <2>1, <2>2 DEF Part
<1>12. v \in [1..d -> Int] /\ \A j \in 1..d : v[j] = w[s[j]]
  BY <1>6, <1>11
<1>13. \A j, k : <<j, k>> \in R <=> j \in 1..d /\ k \in 1..n /\ s[j] = k
  OBVIOUS
<1> HIDE DEF v, R, d
<1>14. ASSUME NEW k \in 1..n, w[k] # 0 PROVE \E j \in 1..d : <<j, k>> \in R
  <2>1. result[k].state \in states /\ Delta(result[k], key) # 0
    BY <1>5, <1>14 DEF Part
  <2>2. result[k].state # "identical"
    BY <2>1, ResultRow, DeltaIs DEF n
  <2>3. Keeps(result[k], sortBy)
    BY <2>1 DEF Keeps
  <2>4. k \in S
    BY <1>4, <2>1, <2>2, <2>3
  <2>5. PICK j \in 1..d : s[j] = k
    BY <1>8, <2>4
  <2> QED
    BY <1>13, <2>5
<1>15. ASSUME NEW j \in 1..d PROVE \E k \in 1..n : <<j, k>> \in R
  BY <1>11, <1>13
<1>16. d \in Nat /\ n \in Nat /\ v \in [1..d -> Int]
  BY <1>1, <1>8, <1>12
<1>17. Matching(R, v, d, w, n)
  <2>1. \A j \in 1..d : v[j] # 0 => \E k \in 1..n : <<j, k>> \in R
    BY <1>15
  <2>2. \A k \in 1..n : w[k] # 0 => \E j \in 1..d : <<j, k>> \in R
    BY <1>14
  <2>3. \A j \in 1..d, k \in 1..n : <<j, k>> \in R => v[j] = w[k]
    BY <1>12, <1>13
  <2>4. \A j \in 1..d, k, l \in 1..n : <<j, k>> \in R /\ <<j, l>> \in R => k = l
    BY <1>13
  <2>5. \A j, l \in 1..d, k \in 1..n : <<j, k>> \in R /\ <<l, k>> \in R => j = l
    BY <1>8, <1>13
  <2> QED
    BY <1>6, <1>16, <2>1, <2>2, <2>3, <2>4, <2>5, Zenon DEF Matching
<1>18. SumOf(v) = SumOf(w)
  BY <1>17, SumMatch
<1> QED
  BY <1>10, <1>18 DEF t, w, n

(* The totals printed above the tables, as sums over all pairs.            *)
LEMMA TotalIs ==
  ASSUME CInv, WInv, Done, NEW key \in SortKey
  PROVE  Totals[key] = SumOf([k \in 1..Len(result) |-> Part(key, DiffState, k)])
<1> DEFINE n == Len(result)
<1>1. DOMAIN result = 1..n
  BY ResultShape
<1>2. ASSUME NEW k \in 1..n
      PROVE  Part(key, DiffState, k) = IF key = "size" THEN result[k].size ELSE result[k].count[Key(key)]
  <2>1. RowOK(result[k])
    BY ResultRow
  <2>2. result[k].state \in DiffState
    BY <2>1 DEF RowOK
  <2>3. Delta(result[k], key) = IF key = "size" THEN result[k].size ELSE result[k].count[Key(key)]
    BY DeltaIs
  <2> QED
    BY <2>2, <2>3 DEF Part
<1>3. CASE key = "size"
  <2>1. Totals[key] = SizeTotal(result)
    BY <1>3 DEF Totals
  <2>2. [k \in DOMAIN result |-> result[k].size] = [k \in 1..n |-> Part(key, DiffState, k)]
    BY <1>1, <1>2, <1>3
  <2> QED
    BY <2>1, <2>2 DEF SizeTotal
<1>4. CASE key # "size"
  <2>1. Totals[key] = SummaryCount(result)[Key(key)]
    BY <1>4 DEF Totals, Key, SortKey
  <2>2. Key(key) \in Counter
    BY DeltaIs
  <2>3. SummaryCount(result)[Key(key)] = SumOf([k \in DOMAIN result |-> result[k].count[Key(key)]])
    BY <2>2 DEF SummaryCount
  <2>4. [k \in DOMAIN result |-> result[k].count[Key(key)]] = [k \in 1..n |-> Part(key, DiffState, k)]
    BY <1>1, <1>2, <1>4
  <2> QED
    BY <2>1, <2>3, <2>4
<1> QED
  BY <1>3, <1>4

(* The tables of the single states add up to the table of all.             *)
LEMMA StatesAddUp ==
  ASSUME CInv, WInv, Done, NEW key \in SortKey
  PROVE  SumOf([j \in 1..5 |-> SumOf([k \in 1..Len(result) |-> Part(key, {AllStates[j]}, k)])])
           = SumOf([k \in 1..Len(result) |-> Part(key, DiffState, k)])
<1> DEFINE n == Len(result)
           M == [j \in 1..5 |-> [k \in 1..n |-> Part(key, {AllStates[j]}, k)]]
<1>1. n \in Nat /\ \A k \in 1..n : RowOK(result[k])
  BY ResultShape, ResultRow
<1>2. ASSUME NEW j \in 1..5, NEW k \in 1..n PROVE Part(key, {AllStates[j]}, k) \in Int
  BY PartType
<1> HIDE DEF n
<1>3. M \in Table(5, n)
  BY <1>2 DEF Table
<1>4. /\ AllStates[1] = "identical" /\ AllStates[2] = "relocation-only" /\ AllStates[3] = "changed"
      /\ AllStates[4] = "added" /\ AllStates[5] = "removed"
  BY DEF AllStates
<1>5. \A st \in DiffState : \E j \in 1..5 : AllStates[j] = st
  <2> SUFFICES ASSUME NEW st \in DiffState PROVE \E j \in 1..5 : AllStates[j] = st
    OBVIOUS
  <2>1. 1 \in 1..5 /\ 2 \in 1..5 /\ 3 \in 1..5 /\ 4 \in 1..5 /\ 5 \in 1..5
    OBVIOUS
  <2>2. st \in {"identical", "relocation-only", "changed", "added", "removed"}
    BY DEF DiffState
  <2> QED
    BY <1>4, <2>1, <2>2, Zenon
<1>6. \A j, k \in 1..5 : AllStates[j] = AllStates[k] => j = k
  <2> SUFFICES ASSUME NEW j \in 1..5, NEW k \in 1..5, AllStates[j] = AllStates[k] PROVE j = k
    OBVIOUS
  <2>1. j \in {1, 2, 3, 4, 5} /\ k \in {1, 2, 3, 4, 5}
    OBVIOUS
  <2> QED
    BY <1>4, <2>1
<1>7. ASSUME NEW k \in 1..n PROVE SumOf([j \in 1..5 |-> M[j][k]]) = Part(key, DiffState, k)
  <2> DEFINE v == [j \in 1..5 |-> M[j][k]]
  <2>1. v \in [1..5 -> Int] /\ \A j \in 1..5 : v[j] = Part(key, {AllStates[j]}, k)
    BY <1>2
  <2>2. result[k].state \in DiffState
    BY <1>1 DEF RowOK
  <2>3. PICK j \in 1..5 : AllStates[j] = result[k].state
    BY <1>5, <2>2
  <2> HIDE DEF v, M
  <2>4. v[j] = Part(key, DiffState, k)
    BY <2>1, <2>2, <2>3 DEF Part
  <2>5. ASSUME NEW l \in 1..5, l # j PROVE v[l] = 0
    <3>1. AllStates[l] # result[k].state
      BY <1>6, <2>3, <2>5
    <3> QED
      BY <2>1, <3>1 DEF Part
  <2>6. SumOf(v) = v[j]
    BY <2>1, <2>5, SumOne
  <2> QED
    BY <2>4, <2>6 DEF v
<1>8. ASSUME NEW j \in 1..5
      PROVE  SumOf([k \in 1..n |-> M[j][k]]) = SumOf([k \in 1..n |-> Part(key, {AllStates[j]}, k)])
  <2>1. [k \in 1..n |-> M[j][k]] = [k \in 1..n |-> Part(key, {AllStates[j]}, k)]
    OBVIOUS
  <2> QED
    BY <2>1
<1> HIDE DEF M
<1>9. ByRows(M, 5, n) = ByColumns(M, 5, n)
  BY <1>1, <1>3, SumSwap
<1>10. [j \in 1..5 |-> SumOf([k \in 1..n |-> M[j][k]])]
         = [j \in 1..5 |-> SumOf([k \in 1..n |-> Part(key, {AllStates[j]}, k)])]
  BY <1>8
<1>11. [k \in 1..n |-> SumOf([j \in 1..5 |-> M[j][k]])] = [k \in 1..n |-> Part(key, DiffState, k)]
  BY <1>7
<1> QED
  BY <1>9, <1>10, <1>11 DEF ByRows, ByColumns, n

-----------------------------------------------------------------------------
(* Counting the functions by state.                                        *)
InState(s) == {k \in 1..Len(result) : result[k].state = s}

LEMMA FourStates ==
  ASSUME CInv, Done, NEW s \in {"added", "removed"}
  PROVE  LET S == InState("identical") \cup InState("changed")
                  \cup InState("relocation-only") \cup InState(s)
         IN  /\ IsFiniteSet(S)
             /\ Cardinality(S) = Cardinality(InState("identical")) + Cardinality(InState("changed"))
                                 + Cardinality(InState("relocation-only")) + Cardinality(InState(s))
<1> DEFINE A == InState("identical")
           B == InState("changed")
           C == InState("relocation-only")
           D == InState(s)
<1>1. IsFiniteSet(A) /\ IsFiniteSet(B) /\ IsFiniteSet(C) /\ IsFiniteSet(D)
  <2>1. Len(result) \in Nat
    BY ResultShape
  <2>2. IsFiniteSet(1..Len(result))
    BY <2>1, FS_Interval
  <2>3. ASSUME NEW st PROVE IsFiniteSet(InState(st))
    <3>1. InState(st) \in SUBSET (1..Len(result))
      BY DEF InState
    <3> QED
      BY <2>2, <3>1, FS_Subset
  <2> QED
    BY <2>3
<1>2. A \cap B = {} /\ (A \cup B) \cap C = {} /\ (A \cup B \cup C) \cap D = {}
  BY DEF InState
<1> HIDE DEF A, B, C, D
<1>3. IsFiniteSet(A \cup B) /\ Cardinality(A \cup B) = Cardinality(A) + Cardinality(B)
  BY <1>1, <1>2, DisjointCount
<1>4. IsFiniteSet(A \cup B \cup C)
      /\ Cardinality(A \cup B \cup C) = Cardinality(A \cup B) + Cardinality(C)
  BY <1>1, <1>2, <1>3, DisjointCount
<1>5. IsFiniteSet(A \cup B \cup C \cup D)
      /\ Cardinality(A \cup B \cup C \cup D) = Cardinality(A \cup B \cup C) + Cardinality(D)
  BY <1>1, <1>2, <1>4, DisjointCount
<1> QED
  BY <1>3, <1>4, <1>5 DEF A, B, C, D

LEMMA SidesOfResult ==
  ASSUME CInv, WInv, Done
  PROVE  /\ OneToOne({k \in 1..Len(result) : result[k].state # "added"}, Names(old),
                     [k \in {j \in 1..Len(result) : result[j].state # "added"} |-> OldName(list[k])])
         /\ OneToOne({k \in 1..Len(result) : result[k].state # "removed"}, Names(new),
                     [k \in {j \in 1..Len(result) : result[j].state # "removed"} |-> list[k].name])
<1> DEFINE n == Len(result)
           S == {k \in 1..n : result[k].state # "added"}
           T == {k \in 1..n : result[k].state # "removed"}
           f == [k \in S |-> OldName(list[k])]
           g == [k \in T |-> list[k].name]
<1>1. DOMAIN list = 1..n /\ Whole(list) /\ NamesApart(list)
  BY ResultShape DEF CInv, WInv, ListInv, ListFacts, Listed, Done
<1>2. ASSUME NEW k \in 1..n
      PROVE  /\ result[k].state = "added" <=> list[k].state = "added"
             /\ result[k].state = "removed" <=> list[k].state = "removed"
             /\ result[k].state # "added" => OldName(list[k]) \in Names(old)
             /\ result[k].state # "removed" => list[k].name \in Names(new)
  <2> DEFINE p == list[k]
             q == result[k]
  <2>1. Told(p) /\ Becomes(p, q)
    BY ResultRow
  <2> HIDE DEF p, q
  <2>2. /\ q.state = IF Noise(p) THEN "relocation-only" ELSE p.state
        /\ Noise(p) => p.state = "changed"
    BY <2>1, NoiseIs DEF Becomes
  <2>3. /\ p.old = IF p.state = "added" THEN NoFunc ELSE FirstDef(old, OldName(p))
        /\ p.new = IF p.state = "removed" THEN NoFunc ELSE FirstDef(new, p.name)
        /\ (p.old = NoFunc) = (p.state = "added")
        /\ (p.new = NoFunc) = (p.state = "removed")
    BY <2>1 DEF Told
  <2>4. p.state # "added" => OldName(p) \in Names(old)
    BY <2>3 DEF FirstDef
  <2>5. p.state # "removed" => p.name \in Names(new)
    BY <2>3 DEF FirstDef
  <2> QED
    BY <2>2, <2>4, <2>5 DEF p, q
<1> HIDE DEF n
<1>3. OneToOne(S, Names(old), f)
  <2>1. f \in [S -> Names(old)]
    BY <1>2
  <2>2. ASSUME NEW j \in S, NEW k \in S, f[j] = f[k] PROVE j = k
    BY <1>1, <1>2, <2>2 DEF Whole
  <2>3. ASSUME NEW x \in Names(old) PROVE \E k \in S : f[k] = x
    <3>1. PICK k \in 1..n : list[k].state # "added" /\ OldName(list[k]) = x
      BY <1>1 DEF Whole
    <3> QED
      BY <1>2, <3>1
  <2> HIDE DEF f, S
  <2> QED
    BY <2>1, <2>2, <2>3 DEF OneToOne
<1>4. OneToOne(T, Names(new), g)
  <2>1. g \in [T -> Names(new)]
    BY <1>2
  <2>2. ASSUME NEW j \in T, NEW k \in T, g[j] = g[k] PROVE j = k
    BY <1>1, <2>2 DEF NamesApart
  <2>3. ASSUME NEW x \in Names(new) PROVE \E k \in T : g[k] = x
    <3>1. PICK k \in 1..n : list[k].state # "removed" /\ list[k].name = x
      BY <1>1 DEF Whole
    <3> QED
      BY <1>2, <3>1
  <2> HIDE DEF g, T
  <2> QED
    BY <2>1, <2>2, <2>3 DEF OneToOne
<1> QED
  BY <1>3, <1>4 DEF n

LEMMA CountsMatch == CInv /\ WInv => CountsMatchBinaries
<1> SUFFICES ASSUME CInv, WInv, Done PROVE CountsMatchBinaries
  BY DEF CountsMatchBinaries
<1> DEFINE count == StateCounts(result)
<1>1. \A s \in DiffState : count[s] = Cardinality(InState(s))
  BY ResultShape DEF StateCounts, InState
<1>2. \A k \in 1..Len(result) : result[k].state \in DiffState
  BY ResultRow DEF RowOK
<1>3. {k \in 1..Len(result) : result[k].state # "added"}
        = InState("identical") \cup InState("changed") \cup InState("relocation-only") \cup InState("removed")
  BY <1>2 DEF InState, DiffState
<1>4. {k \in 1..Len(result) : result[k].state # "removed"}
        = InState("identical") \cup InState("changed") \cup InState("relocation-only") \cup InState("added")
  BY <1>2 DEF InState, DiffState
<1>5. Cardinality(Names(old))
        = Cardinality(InState("identical")) + Cardinality(InState("changed"))
          + Cardinality(InState("relocation-only")) + Cardinality(InState("removed"))
  BY <1>3, FourStates, SidesOfResult, SameCount
<1>6. Cardinality(Names(new))
        = Cardinality(InState("identical")) + Cardinality(InState("changed"))
          + Cardinality(InState("relocation-only")) + Cardinality(InState("added"))
  BY <1>4, FourStates, SidesOfResult, SameCount
<1>7. /\ count["identical"] = Cardinality(InState("identical"))
      /\ count["changed"] = Cardinality(InState("changed"))
      /\ count["relocation-only"] = Cardinality(InState("relocation-only"))
      /\ count["removed"] = Cardinality(InState("removed"))
      /\ count["added"] = Cardinality(InState("added"))
  BY <1>1 DEF DiffState
<1> HIDE DEF count
<1>8. /\ count["identical"] + count["changed"] + count["relocation-only"] + count["removed"]
           = Cardinality(Names(old))
      /\ count["identical"] + count["changed"] + count["relocation-only"] + count["added"]
           = Cardinality(Names(new))
  BY <1>5, <1>6, <1>7
<1> QED
  BY <1>8 DEF count, CountsMatchBinaries

(* A table with room for all adds up to the total printed above it, sorted *)
(* by its own key or by name or split by state, and the counts of states   *)
(* are those of the functions of the two binaries.                         *)
THEOREM TablesAccountForTotals == CompareSpec => []RankingsAccountForTotals
<1>1. ASSUME CInv, WInv PROVE RankingsAccountForTotals
  <2> DEFINE all == Len(result)
  <2> SUFFICES ASSUME Done, NEW key \in SortKey
               PROVE  /\ ColumnSum(RankPairs(result, all, key, DiffState), key) = Totals[key]
                      /\ ColumnSum(RankPairs(result, all, "name", DiffState), key) = Totals[key]
                      /\ SumOf([k \in 1..5 |-> ColumnSum(RankPairs(result, all, key, {AllStates[k]}), key)])
                           = Totals[key]
    BY <1>1, CountsMatch DEF RankingsAccountForTotals
  <2>1. Totals[key] = SumOf([k \in 1..all |-> Part(key, DiffState, k)])
    BY <1>1, TotalIs
  <2>2. ColumnSum(RankPairs(result, all, key, DiffState), key) = Totals[key]
    BY <1>1, <2>1, TableAddsUp
  <2>3. ColumnSum(RankPairs(result, all, "name", DiffState), key) = Totals[key]
    BY <1>1, <2>1, TableAddsUp
  <2>4. ASSUME NEW j \in 1..5
        PROVE  ColumnSum(RankPairs(result, all, key, {AllStates[j]}), key)
                 = SumOf([k \in 1..all |-> Part(key, {AllStates[j]}, k)])
    BY <1>1, TableAddsUp
  <2>5. [k \in 1..5 |-> ColumnSum(RankPairs(result, all, key, {AllStates[k]}), key)]
          = [j \in 1..5 |-> SumOf([k \in 1..all |-> Part(key, {AllStates[j]}, k)])]
    BY <2>4
  <2>6. SumOf([k \in 1..5 |-> ColumnSum(RankPairs(result, all, key, {AllStates[k]}), key)]) = Totals[key]
    BY <1>1, <2>1, <2>5, StatesAddUp
  <2> QED
    BY <2>2, <2>3, <2>6
<1> QED
  BY <1>1, WholeInvariant, PTL

-----------------------------------------------------------------------------
(* The renaming step against the matching of renames itself: the pairs as  *)
(* MatchRenames sees them, a side by the name of the function on it.       *)
RM == INSTANCE Renamings

Sides(p) == [name |-> p.name, from |-> p.from, state |-> p.state,
             old |-> IF p.old = NoFunc THEN NoName ELSE OldName(p),
             new |-> IF p.new = NoFunc THEN NoName ELSE p.name]
Unmatched(p) == [name |-> p.name, from |-> NoName, state |-> p.state, old |-> p.old, new |-> p.new]
Given == [k \in DOMAIN pairs |-> Sides(Unmatched(pairs[k]))]
Seen(ls) == [k \in DOMAIN ls |-> Sides(ls[k])]

RenameIsMatchRenames ==
  stage = "rename" => /\ RM!FreshList(Given)
                      /\ Matches = RM!Matchings(Given)
                      /\ \A f \in Matches : Seen(Folded(f)) = RM!Renaming(Given, f)

(* The libraries mean the same there.                                      *)
LEMMA SameLibrary ==
  /\ \A S : RM!Cardinality(S) = Cardinality(S)
  /\ \A f : RM!Range(f) = Range(f)
  /\ \A S, T : RM!Injection(S, T) = Injection(S, T)
  /\ \A S, k : RM!Nth(S, k) = Nth(S, k)
<1>1. \A S : RM!Cardinality(S) = Cardinality(S)
  BY DEF RM!Cardinality, Cardinality, RM!IsFiniteSet, IsFiniteSet
<1>2. \A f : RM!Range(f) = Range(f)
  BY DEF RM!Range, Range
<1>3. \A S, T : RM!Injection(S, T) = Injection(S, T)
  BY DEF RM!Injection, Injection, RM!IsInjective, IsInjective
<1>4. \A S, k : RM!Nth(S, k) = Nth(S, k)
  BY <1>1 DEF RM!Nth, Nth
<1> QED
  BY <1>1, <1>2, <1>3, <1>4

LEMMA GivenIs ==
  ASSUME IInv, pc = "done", NEW k \in DOMAIN pairs
  PROVE  /\ Given[k] = RM!FreshPair(pairs[k].name, pairs[k].state)
         /\ Given[k].name = pairs[k].name /\ Given[k].state = pairs[k].state
<1> DEFINE q == Unmatched(pairs[k])
<1>1. /\ q.name = pairs[k].name /\ q.from = NoName /\ q.state = pairs[k].state
      /\ q.old = pairs[k].old /\ q.new = pairs[k].new
  BY DEF Unmatched
<1>2. Told(q)
  BY UnmatchedTold DEF Unmatched
<1>3. OldName(q) = q.name
  BY <1>1 DEF OldName
<1>4. Given[k] = Sides(q)
  BY DEF Given
<1> HIDE DEF q
<1>5. (q.old = NoFunc <=> q.state = "added") /\ (q.new = NoFunc <=> q.state = "removed")
  BY <1>2 DEF Told
<1> QED
  BY <1>1, <1>3, <1>4, <1>5 DEF Sides, RM!FreshPair

(* A merged pair, seen so, is the merged pair of the two names.            *)
LEMMA MergedSeen ==
  ASSUME IInv, pc = "done", NEW f \in Matches, NEW k \in DOMAIN pairs
  PROVE  Sides(Merged(f, pairs[k])) = RM!MergedBy(f, Given[k])
<1> DEFINE p == pairs[k]
           q == Merged(f, p)
           from == CHOOSE r \in DOMAIN f : f[r] = p.name
<1>1. Given[k] = Sides(Unmatched(p)) /\ Given[k].name = p.name
  BY GivenIs DEF Given
<1>2. CASE p.name \notin Range(f)
  <2>1. q = Unmatched(p)
    BY <1>2 DEF Merged, Unmatched
  <2>2. RM!MergedBy(f, Given[k]) = Given[k]
    BY <1>1, <1>2, SameLibrary DEF RM!MergedBy
  <2> QED
    BY <1>1, <2>1, <2>2
<1>3. CASE p.name \in Range(f)
  <2>1. q.from = from /\ q.name = p.name
    BY <1>3 DEF Merged
  <2>2. Told(q)
    BY MergedTold
  <2>3. q.state = "changed" /\ OldName(q) = q.from
    BY <1>3, MergedCases
  <2>4. RM!MergedBy(f, Given[k]) = RM!MergedPair(p.name, from)
    BY <1>1, <1>3, SameLibrary DEF RM!MergedBy
  <2> HIDE DEF q, from, p
  <2>5. q.old # NoFunc /\ q.new # NoFunc
    BY <2>2, <2>3 DEF Told
  <2>6. Sides(q) = RM!MergedPair(p.name, from)
    BY <2>1, <2>3, <2>5 DEF Sides, RM!MergedPair
  <2> QED
    BY <2>4, <2>6 DEF q, p
<1> QED
  BY <1>2, <1>3

LEMMA RenamingSeen ==
  ASSUME IInv, pc = "done", NEW f \in Matches
  PROVE  Seen(Folded(f)) = RM!Renaming(Given, f)
<1> DEFINE kept == {k \in DOMAIN pairs : pairs[k].name \notin DOMAIN f}
           n == Cardinality(kept)
           ls == Folded(f)
<1>1. kept = RM!KeptBy(Given, f)
  <2>1. DOMAIN Given = DOMAIN pairs
    BY DEF Given
  <2> QED
    BY <2>1, GivenIs DEF RM!KeptBy
<1>2. RM!Renaming(Given, f) = [k \in 1..n |-> RM!MergedBy(f, Given[Nth(kept, k)])]
  <2> HIDE DEF kept
  <2> QED
    BY <1>1, SameLibrary DEF RM!Renaming
<1>3. ls = [k \in 1..n |-> Merged(f, pairs[Nth(kept, k)])]
  BY DEF Folded
<1>4. \A k \in 1..n : Nth(kept, k) \in DOMAIN pairs
  <2>1. DOMAIN pairs = 1..Len(pairs) /\ Len(pairs) \in Nat
    BY LenProperties DEF IInv, Shape
  <2>2. kept \in SUBSET (1..Len(pairs)) /\ kept \subseteq DOMAIN pairs
    BY <2>1
  <2> HIDE DEF kept
  <2>3. kept \in SUBSET Nat /\ IsFiniteSet(kept)
    BY <2>1, <2>2, Positions
  <2> QED
    BY <2>2, <2>3, NthFacts
<1> HIDE DEF kept, ls, n
<1>5. Seen(ls) = [k \in 1..n |-> Sides(ls[k])]
  BY <1>3 DEF Seen
<1>6. \A k \in 1..n : Sides(ls[k]) = RM!MergedBy(f, Given[Nth(kept, k)])
  BY <1>3, <1>4, MergedSeen
<1> QED
  BY <1>2, <1>5, <1>6 DEF ls

(* The pairs that pairing by name comes to are a list MatchRenames may be  *)
(* given, and what the renaming step makes of them is what it may make.    *)
THEOREM RenamesAsMatchRenames == CompareSpec => []RenameIsMatchRenames
<1>1. CInv => RenameIsMatchRenames
  <2> SUFFICES ASSUME CInv, stage = "rename"
               PROVE  /\ RM!FreshList(Given)
                      /\ Matches = RM!Matchings(Given)
                      /\ \A f \in Matches : Seen(Folded(f)) = RM!Renaming(Given, f)
    BY DEF RenameIsMatchRenames
  <2>1. IInv /\ pc = "done"
    BY DEF CInv, StageInv
  <2>2. DOMAIN Given = DOMAIN pairs
    BY DEF Given
  <2>3. RM!FreshList(Given)
    <3>1. \A k \in DOMAIN Given : Given[k] = RM!FreshPair(Given[k].name, Given[k].state)
      BY <2>1, <2>2, GivenIs
    <3>2. \A j, k \in DOMAIN Given : Given[j].name = Given[k].name => j = k
      BY <2>1, <2>2, GivenIs DEF IInv, OnceInv
    <3> QED
      BY <3>1, <3>2 DEF RM!FreshList
  <2>4. \A s : NamesIn(s) = RM!NamesIn(Given, s)
    BY <2>1, <2>2, GivenIs DEF NamesIn, RM!NamesIn
  <2>5. Matches = RM!Matchings(Given)
    BY <2>4, SameLibrary DEF Matches, RM!Matchings
  <2> QED
    BY <2>1, <2>3, <2>5, RenamingSeen
<1> QED
  BY <1>1, CompareInvariant, PTL
=============================================================================
