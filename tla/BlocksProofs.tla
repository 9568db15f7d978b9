---------------------------- MODULE BlocksProofs ----------------------------
(***************************************************************************)
(* LongestIncreasing returns a longest increasing subsequence of every     *)
(* list, and of several the latest; and matchBlocks, for all pairs of      *)
(* functions, cuts basic blocks, pairs equal ones, moves as few as it can, *)
(* the later ones, and shows every instruction once.  The order: the       *)
(* search by itself; sets in ascending order and loops as recursive        *)
(* functions; how blocks lie; what the pairing keeps; then the invariant   *)
(* of the whole and what its last stage says.                              *)
(***************************************************************************)
EXTENDS Blocks, FiniteSetTheorems, SequenceTheorems, TLAPS

Read == 0..(i - 1)

(* rank[x] is the length of the run that the algorithm ended at x when it  *)
(* read x: that of the run before x and one more.  It grows along every    *)
(* increasing pair, so an increasing subsequence has an element of each of *)
(* its ranks, and no element of a rank lies below the tail of that rank.   *)
RankOf(rank) ==
  /\ \A x \in Read : rank[x] \in 1..Len(tails)
  /\ \A n \in 1..Len(tails) : rank[tails[n]] = n
  /\ \A x \in Read : rank[x] > 1 =>
       prev[x] \in 0..(x - 1) /\ rank[prev[x]] = rank[x] - 1 /\ At(prev[x]) < At(x)
  /\ \A x, y \in Read : y < x /\ At(y) < At(x) => rank[y] < rank[x]
  /\ \A y \in Read : At(tails[rank[y]]) <= At(y)

(* out ends in the last tail and goes down by one rank at a time.          *)
OutOf(rank) ==
  /\ \A k \in 1..Len(out) : out[k] \in Read /\ rank[out[k]] = Len(tails) - Len(out) + k
  /\ \A m, n \in 1..Len(out) : m < n => out[m] < out[n] /\ At(out[m]) < At(out[n])

(* Each tail is the latest of its rank, and prev goes to the latest one of *)
(* the rank below: out keeps the latest elements that it can.              *)
LatestOf(rank) ==
  /\ \A y \in Read : y <= tails[rank[y]]
  /\ \A x, y \in Read : y < x /\ rank[y] = rank[x] - 1 => y <= prev[x]
  /\ Len(out) > 0 => out[Len(out)] = tails[Len(tails)]
  /\ \A k \in 1..(Len(out) - 1) : out[k] = prev[out[k + 1]]

Shape == /\ TypeOK
         /\ Len(out) <= Len(tails)
         /\ i < Len(values) => out = <<>>

IInv == /\ Shape
        /\ TailsIncrease
        /\ \E rank \in [Read -> Nat] : RankOf(rank) /\ OutOf(rank) /\ LatestOf(rank)

-----------------------------------------------------------------------------
(* The types that the steps below rely on.                                 *)
LEMMA Types ==
  ASSUME Shape
  PROVE  /\ values \in Seq(Int) /\ Len(values) \in Nat /\ i \in Nat /\ i <= Len(values)
         /\ Len(tails) \in Nat /\ DOMAIN tails = 1..Len(tails)
         /\ \A n \in 1..Len(tails) : tails[n] \in Read
         /\ Read \subseteq Index /\ Read \subseteq Nat
         /\ \A x \in Index : At(x) \in Int
         /\ Len(out) \in Nat /\ DOMAIN out = 1..Len(out)
         /\ \A k \in 1..Len(out) : out[k] \in Index
<1>1. values \in Seq(Int)
  BY DEF Shape, TypeOK
<1>2. Len(values) \in Nat /\ i \in Nat /\ i <= Len(values)
  BY <1>1 DEF Shape, TypeOK
<1>3. tails \in Seq(Read) /\ out \in Seq(Index)
  BY DEF Shape, TypeOK, Read
<1>4. \A x \in Index : At(x) \in Int
  <2> SUFFICES ASSUME NEW x \in Index PROVE At(x) \in Int
    OBVIOUS
  <2>1. x + 1 \in 1..Len(values)
    BY <1>2 DEF Index
  <2> QED
    BY <1>1, <2>1, ElementOfSeq DEF At
<1> QED
  BY <1>1, <1>2, <1>3, <1>4, LenProperties, ElementOfSeq DEF Read, Index

LEMMA LeastElement ==
  ASSUME NEW S \in SUBSET Nat, S # {}
  PROVE  \E k \in S : \A m \in S : k <= m
<1> DEFINE R == OpToRel(<, Nat)
<1>1. R = {ss \in Nat \X Nat : ss[1] < ss[2]}
  BY DEF OpToRel
<1>2. IsWellFoundedOn(R, Nat)
  BY NatLessThanWellFounded
<1> HIDE DEF R
<1>3. PICK k \in S : \A m \in S : ~(<<m, k>> \in R)
  BY <1>2, WFMin
<1>4. ASSUME NEW m \in S PROVE k <= m
  <2>1. ~(m < k)
    BY <1>1, <1>3
  <2> QED
    BY <2>1
<1> QED
  BY <1>4

LEMMA GreatestElement ==
  ASSUME NEW b \in Nat, NEW S \in SUBSET (0..b), S # {}
  PROVE  \E k \in S : \A m \in S : m <= k
<1> DEFINE T == {b - s : s \in S}
<1>1. T \in SUBSET Nat /\ T # {}
  <2>1. \A s \in S : b - s \in Nat
    OBVIOUS
  <2>2. PICK s \in S : TRUE
    OBVIOUS
  <2>3. b - s \in T
    OBVIOUS
  <2> QED
    BY <2>1, <2>3
<1>2. PICK t \in T : \A m \in T : t <= m
  <2> HIDE DEF T
  <2> QED
    BY <1>1, LeastElement
<1>3. PICK k \in S : t = b - k
  OBVIOUS
<1>4. \A m \in S : b - k <= b - m
  BY <1>2, <1>3
<1> QED
  BY <1>4

(* What sort.Search finds, on tails that increase.                         *)
LEMMA SearchFinds ==
  ASSUME Shape, NEW v \in Int
  PROVE  LET n == Search(v) IN
         /\ n \in 1..(Len(tails) + 1)
         /\ n = Len(tails) + 1 \/ At(tails[n]) >= v
         /\ \A j \in 1..(n - 1) : At(tails[j]) < v
<1> DEFINE S == {n \in 1..(Len(tails) + 1) : n = Len(tails) + 1 \/ At(tails[n]) >= v}
           P(n) == /\ n = Len(tails) + 1 \/ At(tails[n]) >= v
                   /\ \A j \in 1..(n - 1) : At(tails[j]) < v
<1>1. Len(tails) \in Nat
  BY Types
<1>2. S \in SUBSET Nat /\ S # {}
  BY <1>1
<1>3. PICK n \in S : \A m \in S : n <= m
  <2> HIDE DEF S
  <2> QED
    BY <1>2, LeastElement
<1>4. \A j \in 1..(n - 1) : At(tails[j]) < v
  <2> SUFFICES ASSUME NEW j \in 1..(n - 1) PROVE At(tails[j]) < v
    OBVIOUS
  <2>1. j \notin S /\ j \in 1..Len(tails)
    BY <1>1, <1>3
  <2>2. At(tails[j]) \in Int
    BY <2>1, Types
  <2> QED
    BY <1>1, <2>1, <2>2
<1>5. n \in 1..(Len(tails) + 1) /\ P(n)
  BY <1>3, <1>4
<1>6. (CHOOSE m \in 1..(Len(tails) + 1) : P(m)) \in 1..(Len(tails) + 1)
      /\ P(CHOOSE m \in 1..(Len(tails) + 1) : P(m))
  <2> HIDE DEF P
  <2> QED
    BY <1>5
<1> QED
  BY <1>6 DEF Search

-----------------------------------------------------------------------------
Start == /\ values \in Seq(Int) /\ prev = [x \in Index |-> -1]
         /\ i = 0 /\ tails = <<>> /\ out = <<>>

LEMMA StartEstablishes == Start => IInv
<1> SUFFICES ASSUME Start PROVE IInv
  OBVIOUS
<1>1. values \in Seq(Int) /\ Len(values) \in Nat
  BY DEF Start
<1>2. tails = <<>> /\ out = <<>> /\ Len(tails) = 0 /\ Len(out) = 0 /\ DOMAIN tails = {}
  BY DEF Start
<1>3. TypeOK
  BY <1>1, <1>2 DEF Start, TypeOK, Index
<1>4. Read = {}
  BY DEF Start, Read
<1>5. [x \in Read |-> 0] \in [Read -> Nat]
  OBVIOUS
<1>6. RankOf([x \in Read |-> 0]) /\ OutOf([x \in Read |-> 0]) /\ LatestOf([x \in Read |-> 0])
  BY <1>2, <1>4 DEF RankOf, OutOf, LatestOf
<1>7. Shape /\ TailsIncrease
  BY <1>2, <1>3 DEF Shape, TailsIncrease
<1> QED
  BY <1>5, <1>6, <1>7 DEF IInv

(* After Extend, tail n is the value read, and the other tails are as they *)
(* were.                                                                   *)
LEMMA Extended ==
  ASSUME Shape, Extend
  PROVE  LET n == Search(At(i))
             l == IF n = Len(tails) + 1 THEN n ELSE Len(tails)
         IN  /\ Len(tails') = l /\ DOMAIN tails' = 1..l
             /\ \A k \in 1..l : tails'[k] = IF k = n THEN i ELSE tails[k]
             /\ tails' \in Seq(0..i)
<1> DEFINE n == Search(At(i))
           l == IF n = Len(tails) + 1 THEN n ELSE Len(tails)
<1>1. i \in Index /\ i \in Nat
  BY Types DEF Extend, Index
<1>2. /\ n \in 1..(Len(tails) + 1) /\ Len(tails) \in Nat
      /\ DOMAIN tails = 1..Len(tails)
  BY <1>1, Types, SearchFinds
<1>3. tails \in Seq(0..i)
  <2>1. tails \in Seq(Read)
    BY DEF Shape, TypeOK, Read
  <2>2. Read \subseteq 0..i
    BY <1>1 DEF Read
  <2>3. tails \in [1..Len(tails) -> 0..i]
    BY <1>2, <2>1, <2>2, ElementOfSeq, LenProperties
  <2> QED
    BY <1>2, <2>3, SeqDef
<1>4. tails' = IF n = Len(tails) + 1 THEN Append(tails, i) ELSE [tails EXCEPT ![n] = i]
  BY DEF Extend
<1> DEFINE Goal == /\ Len(tails') = l /\ DOMAIN tails' = 1..l
                   /\ \A k \in 1..l : tails'[k] = IF k = n THEN i ELSE tails[k]
                   /\ tails' \in Seq(0..i)
<1> HIDE DEF n
<1>5. ASSUME n = Len(tails) + 1 PROVE Goal
  <2>1. tails' = Append(tails, i) /\ i \in 0..i
    BY <1>1, <1>4, <1>5
  <2>2. tails' \in Seq(0..i) /\ Len(tails') = n /\ DOMAIN tails' = 1..n
    BY <1>2, <1>3, <1>5, <2>1, AppendProperties, LenProperties
  <2>3. \A k \in 1..n : tails'[k] = IF k = n THEN i ELSE tails[k]
    BY <1>2, <1>3, <1>5, <2>1, AppendProperties
  <2> QED
    BY <1>5, <2>2, <2>3
<1>6. ASSUME n # Len(tails) + 1 PROVE Goal
  <2>1. tails' = [tails EXCEPT ![n] = i] /\ i \in 0..i /\ n \in 1..Len(tails)
    BY <1>1, <1>2, <1>4, <1>6
  <2>2. tails' \in Seq(0..i) /\ Len(tails') = Len(tails) /\ DOMAIN tails' = 1..Len(tails)
    BY <1>2, <1>3, <2>1, ExceptSeq
  <2>3. \A k \in 1..Len(tails) : tails'[k] = IF k = n THEN i ELSE tails[k]
    BY <1>2, <2>1
  <2> QED
    BY <1>6, <2>2, <2>3
<1> QED
  BY <1>5, <1>6 DEF n

LEMMA ExtendPreserves == IInv /\ Extend => IInv'
<1> SUFFICES ASSUME IInv, Extend PROVE IInv'
  OBVIOUS
<1> DEFINE n == Search(At(i))
           l == IF n = Len(tails) + 1 THEN n ELSE Len(tails)
<1>1. Shape /\ TailsIncrease
      /\ \A j, k \in DOMAIN tails : j < k => At(tails[j]) < At(tails[k])
  BY DEF IInv, TailsIncrease
<1>2. PICK rank \in [Read -> Nat] : RankOf(rank) /\ OutOf(rank) /\ LatestOf(rank)
  BY DEF IInv
<1>3. /\ i \in Nat /\ i \in Index /\ Len(values) \in Nat /\ i + 1 <= Len(values)
      /\ Len(tails) \in Nat /\ DOMAIN tails = 1..Len(tails)
      /\ \A k \in 1..Len(tails) : tails[k] \in Read
      /\ Read \subseteq Index /\ Read \subseteq Nat
      /\ \A x \in Index : At(x) \in Int
      /\ \A k \in 1..Len(tails) : At(tails[k]) \in Int
      /\ At(i) \in Int
  BY <1>1, Types DEF Extend, Index
<1>4. /\ n \in 1..(Len(tails) + 1)
      /\ n = Len(tails) + 1 \/ At(tails[n]) >= At(i)
      /\ \A j \in 1..(n - 1) : At(tails[j]) < At(i)
  BY <1>1, <1>3, SearchFinds
<1>5. /\ Len(tails') = l /\ DOMAIN tails' = 1..l
      /\ \A k \in 1..l : tails'[k] = IF k = n THEN i ELSE tails[k]
      /\ tails' \in Seq(0..i)
  BY <1>1, Extended
<1>6. /\ prev' = [prev EXCEPT ![i] = IF n > 1 THEN tails[n - 1] ELSE -1]
      /\ i' = i + 1 /\ values' = values /\ out' = out
  BY DEF Extend
<1> HIDE DEF n
<1>7. Read' = 0..i /\ Read' = Read \cup {i} /\ i \notin Read /\ Index' = Index
  BY <1>3, <1>6 DEF Read, Index
<1>8. \A x : At(x)' = At(x)
  BY <1>6 DEF At
<1>9. out = <<>> /\ Len(out) = 0
  BY <1>1, <1>3 DEF Shape, Extend
<1>10. Shape'
  <2>1. n > 1 => tails[n - 1] \in Index
    <3>1. n > 1 => n - 1 \in 1..Len(tails)
      BY <1>3, <1>4
    <3> QED
      BY <1>3, <3>1
  <2>2. prev' \in [Index -> Index \cup {-1}]
    BY <1>1, <1>3, <1>6, <2>1 DEF Shape, TypeOK
  <2>3. tails' \in Seq(0..(i' - 1))
    BY <1>3, <1>5, <1>6
  <2>4. TypeOK'
    BY <1>1, <1>3, <1>6, <1>7, <2>2, <2>3 DEF Shape, TypeOK
  <2> QED
    BY <1>3, <1>4, <1>5, <1>6, <1>9, <2>4 DEF Shape
<1>11. l \in Nat /\ Len(tails) <= l /\ n \in 1..l
  BY <1>3, <1>4
<1>12. TailsIncrease'
  <2>1. \A j, k \in 1..l : j < k => At(tails'[j]) < At(tails'[k])
    <3> SUFFICES ASSUME NEW j \in 1..l, NEW k \in 1..l, j < k
                 PROVE  At(tails'[j]) < At(tails'[k])
      OBVIOUS
    <3>1. \A m \in 1..Len(tails) : At(tails[m]) \in Int
      BY <1>3
    <3>2. CASE j # n /\ k # n
      <4>1. j \in DOMAIN tails /\ k \in DOMAIN tails
        BY <1>3, <1>11, <3>2
      <4>2. tails'[j] = tails[j] /\ tails'[k] = tails[k]
        BY <1>5, <3>2
      <4> QED
        BY <1>1, <4>1, <4>2
    <3>3. CASE k = n
      <4>1. j \in 1..(n - 1) /\ tails'[j] = tails[j] /\ tails'[k] = i
        BY <1>3, <1>4, <1>5, <3>3
      <4> QED
        BY <1>4, <4>1
    <3>4. CASE j = n
      <4>1. n # Len(tails) + 1 /\ k \in 1..Len(tails) /\ n \in 1..Len(tails)
        BY <1>3, <1>4, <3>4
      <4>2. tails'[j] = i /\ tails'[k] = tails[k]
        BY <1>5, <3>4
      <4>3. At(tails[n]) < At(tails[k])
        BY <1>1, <1>3, <3>4, <4>1
      <4> QED
        BY <1>3, <1>4, <3>1, <4>1, <4>2, <4>3
    <3> QED
      BY <3>2, <3>3, <3>4
  <2> QED
    BY <1>5, <1>6, <2>1 DEF TailsIncrease, At
<1>13. PICK ranks \in [Read' -> Nat] : \A x \in Read' : ranks[x] = IF x = i THEN n ELSE rank[x]
  <2> DEFINE f == [x \in Read' |-> IF x = i THEN n ELSE rank[x]]
  <2>1. f \in [Read' -> Nat] /\ \A x \in Read' : f[x] = IF x = i THEN n ELSE rank[x]
    BY <1>2, <1>4, <1>7
  <2> QED
    BY <2>1
<1>14. \A x \in Read : ranks[x] = rank[x] /\ rank[x] \in 1..Len(tails)
  BY <1>2, <1>7, <1>13 DEF RankOf
<1>15. ranks[i] = n
  BY <1>7, <1>13
<1>16. \A x \in Read' : ranks[x] \in 1..l
  <2>1. \A x \in Read : ranks[x] \in 1..l
    BY <1>3, <1>11, <1>14
  <2> QED
    BY <1>7, <1>11, <1>15, <2>1
<1>17. \A k \in 1..l : ranks[tails'[k]] = k
  <2> SUFFICES ASSUME NEW k \in 1..l PROVE ranks[tails'[k]] = k
    OBVIOUS
  <2>1. CASE k = n
    BY <1>5, <1>15, <2>1
  <2>2. CASE k # n
    <3>1. k \in 1..Len(tails) /\ tails'[k] = tails[k]
      BY <1>3, <1>5, <2>2
    <3> QED
      BY <1>2, <1>3, <1>14, <3>1 DEF RankOf
  <2> QED
    BY <2>1, <2>2
<1>18. ASSUME NEW x \in Read', ranks[x] > 1
       PROVE  prev'[x] \in 0..(x - 1) /\ ranks[prev'[x]] = ranks[x] - 1 /\ At(prev'[x]) < At(x)
  <2>1. prev \in [Index -> Index \cup {-1}]
    BY <1>1 DEF Shape, TypeOK
  <2>2. CASE x = i
    <3>1. n > 1 /\ n - 1 \in 1..Len(tails) /\ n - 1 \in 1..(n - 1)
      BY <1>3, <1>4, <1>15, <1>18, <2>2
    <3>2. prev'[x] = tails[n - 1]
      BY <1>3, <1>6, <2>1, <2>2, <3>1
    <3>3. tails[n - 1] \in Read /\ rank[tails[n - 1]] = n - 1 /\ At(tails[n - 1]) < At(i)
      BY <1>2, <1>3, <1>4, <3>1 DEF RankOf
    <3> QED
      BY <1>3, <1>14, <1>15, <2>2, <3>2, <3>3 DEF Read
  <2>3. CASE x # i
    <3>1. x \in Read /\ prev'[x] = prev[x] /\ rank[x] > 1
      BY <1>3, <1>6, <1>7, <1>14, <1>18, <2>1, <2>3
    <3>2. prev[x] \in 0..(x - 1) /\ rank[prev[x]] = rank[x] - 1 /\ At(prev[x]) < At(x)
      BY <1>2, <3>1 DEF RankOf
    <3>3. prev[x] \in Read
      BY <1>3, <3>1, <3>2 DEF Read
    <3> QED
      BY <1>14, <3>1, <3>2, <3>3
  <2> QED
    BY <2>2, <2>3
<1>19. ASSUME NEW x \in Read', NEW y \in Read', y < x, At(y) < At(x)
       PROVE  ranks[y] < ranks[x]
  <2>1. y \in Read /\ x \in Nat
    <3>1. x \in 0..i /\ y \in 0..i /\ Read = 0..(i - 1)
      BY <1>7 DEF Read
    <3> QED
      BY <1>3, <1>19, <3>1
  <2>2. CASE x \in Read
    BY <1>2, <1>14, <1>19, <2>1, <2>2 DEF RankOf
  <2>3. CASE x = i
    <3>1. At(tails[rank[y]]) <= At(y) /\ rank[y] \in 1..Len(tails) /\ At(tails[rank[y]]) \in Int
      BY <1>2, <1>3, <1>14, <2>1 DEF RankOf
    <3>2. At(tails[rank[y]]) < At(i)
      BY <1>3, <1>19, <2>1, <2>3, <3>1
    <3>3. ASSUME n <= rank[y] PROVE FALSE
      <4>1. n \in 1..Len(tails) /\ At(tails[n]) >= At(i) /\ At(tails[n]) \in Int
        BY <1>3, <1>4, <3>1, <3>3
      <4>2. At(tails[n]) <= At(tails[rank[y]])
        <5>1. CASE n = rank[y]
          BY <4>1, <5>1
        <5>2. CASE n < rank[y]
          <6>1. n \in DOMAIN tails /\ rank[y] \in DOMAIN tails
            BY <1>3, <3>1, <4>1
          <6>2. At(tails[n]) < At(tails[rank[y]])
            BY <1>1, <5>2, <6>1
          <6> QED
            BY <3>1, <4>1, <6>2
        <5> QED
          BY <1>3, <3>1, <3>3, <4>1, <5>1, <5>2
      <4> QED
        BY <1>3, <3>1, <3>2, <4>1, <4>2
    <3> QED
      BY <1>3, <1>4, <1>14, <1>15, <2>1, <2>3, <3>1, <3>3
  <2> QED
    BY <1>7, <2>2, <2>3
<1>20. ASSUME NEW y \in Read' PROVE At(tails'[ranks[y]]) <= At(y)
  <2>1. CASE y = i
    BY <1>3, <1>5, <1>11, <1>15, <2>1
  <2>2. CASE y \in Read
    <3>1. At(tails[rank[y]]) <= At(y) /\ rank[y] \in 1..Len(tails) /\ At(y) \in Int
      BY <1>2, <1>3, <1>14, <2>2 DEF RankOf
    <3>2. CASE rank[y] # n
      BY <1>5, <1>11, <1>14, <2>2, <3>1, <3>2
    <3>3. CASE rank[y] = n
      <4>1. tails'[ranks[y]] = i
        BY <1>5, <1>11, <1>14, <2>2, <3>3
      <4>2. At(i) <= At(tails[n]) /\ At(tails[n]) \in Int
        BY <1>3, <1>4, <3>1, <3>3
      <4> QED
        BY <1>3, <3>1, <3>3, <4>1, <4>2
    <3> QED
      BY <3>2, <3>3
  <2> QED
    BY <1>7, <2>1, <2>2
<1>21. RankOf(ranks)'
  <2>1. \A x : At(x)' = At(x)
    BY <1>8
  <2> QED
    BY <1>5, <1>16, <1>17, <1>18, <1>19, <1>20, <2>1 DEF RankOf
<1>22. OutOf(ranks)'
  BY <1>6, <1>9 DEF OutOf
<1>23. \A y \in Read : y <= tails[rank[y]]
  BY <1>2 DEF LatestOf
<1>24. ASSUME NEW y \in Read' PROVE y <= tails'[ranks[y]]
  <2>1. CASE y = i
    BY <1>3, <1>5, <1>11, <1>15, <2>1
  <2>2. CASE y \in Read
    <3>1. y <= tails[rank[y]] /\ rank[y] \in 1..Len(tails) /\ y \in 0..i /\ rank[y] \in 1..l
      BY <1>3, <1>7, <1>11, <1>14, <1>23, <2>2
    <3>2. tails'[ranks[y]] = IF rank[y] = n THEN i ELSE tails[rank[y]]
      BY <1>5, <1>14, <2>2, <3>1
    <3> QED
      BY <1>3, <3>1, <3>2
  <2> QED
    BY <1>7, <2>1, <2>2
<1>25. ASSUME NEW x \in Read', NEW y \in Read', y < x, ranks[y] = ranks[x] - 1
       PROVE  y <= prev'[x]
  <2>1. prev \in [Index -> Index \cup {-1}]
    BY <1>1 DEF Shape, TypeOK
  <2>2. y \in Read
    <3>1. x \in 0..i /\ y \in 0..i /\ Read = 0..(i - 1)
      BY <1>7 DEF Read
    <3> QED
      BY <1>3, <1>25, <3>1
  <2>3. CASE x = i
    <3>1. rank[y] = n - 1 /\ rank[y] \in 1..Len(tails)
      BY <1>14, <1>15, <1>25, <2>2, <2>3
    <3>2. prev'[i] = tails[n - 1]
      <4>1. n > 1
        BY <1>3, <1>4, <3>1
      <4> QED
        BY <1>3, <1>6, <2>1, <4>1
    <3>3. y <= tails[rank[y]]
      BY <1>23, <2>2
    <3> QED
      BY <2>3, <3>1, <3>2, <3>3
  <2>4. CASE x # i
    <3>1. x \in Read /\ prev'[x] = prev[x] /\ rank[y] = rank[x] - 1
      BY <1>3, <1>6, <1>7, <1>14, <1>25, <2>1, <2>2, <2>4
    <3> QED
      BY <1>2, <1>25, <2>2, <3>1 DEF LatestOf
  <2> QED
    BY <2>3, <2>4
<1>26. LatestOf(ranks)'
  BY <1>6, <1>9, <1>24, <1>25 DEF LatestOf
<1> QED
  BY <1>10, <1>12, <1>13, <1>21, <1>22, <1>26 DEF IInv

(* After Link, the new element comes first.                                *)
LEMMA Linked ==
  ASSUME Shape, NEW e \in Index, out' = <<e>> \o out
  PROVE  /\ out' \in Seq(Index) /\ Len(out') = Len(out) + 1
         /\ out'[1] = e
         /\ \A k \in 2..(Len(out) + 1) : out'[k] = out[k - 1]
<1>1. out \in Seq(Index) /\ <<e>> \in Seq(Index) /\ Len(<<e>>) = 1 /\ <<e>>[1] = e
  BY DEF Shape, TypeOK
<1>2. Len(out) \in Nat
  BY <1>1, LenProperties
<1>3. /\ <<e>> \o out \in Seq(Index) /\ Len(<<e>> \o out) = 1 + Len(out)
      /\ \A k \in 1..(1 + Len(out)) :
           (<<e>> \o out)[k] = IF k <= 1 THEN <<e>>[k] ELSE out[k - 1]
  BY <1>1, ConcatProperties
<1>4. \A k \in 2..(Len(out) + 1) : out'[k] = out[k - 1]
  <2> TAKE k \in 2..(Len(out) + 1)
  <2>1. k \in 1..(1 + Len(out)) /\ ~(k <= 1)
    BY <1>2
  <2> QED
    BY <1>3, <2>1
<1>5. out'[1] = e
  BY <1>1, <1>2, <1>3
<1> QED
  BY <1>2, <1>3, <1>4, <1>5

LEMMA LinkPreserves == IInv /\ Link => IInv'
<1> SUFFICES ASSUME IInv, Link PROVE IInv'
  OBVIOUS
<1> DEFINE e == IF out = <<>> THEN tails[Len(tails)] ELSE prev[out[1]]
<1>1. Shape /\ TailsIncrease
  BY DEF IInv
<1>2. PICK rank \in [Read -> Nat] : RankOf(rank) /\ OutOf(rank) /\ LatestOf(rank)
  BY DEF IInv
<1>3. /\ i \in Nat /\ Len(tails) \in Nat
      /\ \A k \in 1..Len(tails) : tails[k] \in Read
      /\ Read \subseteq Index /\ Read \subseteq Nat
      /\ \A x \in Index : At(x) \in Int
      /\ Len(out) \in Nat /\ out \in Seq(Index)
  BY <1>1, Types DEF Shape, TypeOK
<1>4. /\ out' = <<e>> \o out /\ Len(out) < Len(tails) /\ i = Len(values)
      /\ values' = values /\ i' = i /\ tails' = tails /\ prev' = prev
  BY DEF Link
<1>5. Read' = Read /\ Index' = Index /\ \A x : At(x)' = At(x)
  BY <1>4 DEF Read, Index, At
<1>6. /\ e \in Read /\ rank[e] = Len(tails) - Len(out)
      /\ \A k \in 1..Len(out) : e < out[k] /\ At(e) < At(out[k])
  <2>1. CASE out = <<>>
    <3>1. e = tails[Len(tails)] /\ Len(out) = 0 /\ Len(tails) \in 1..Len(tails)
      BY <1>3, <1>4, <2>1
    <3> QED
      BY <1>2, <1>3, <3>1 DEF RankOf
  <2>2. CASE out # <<>>
    <3>1. 1 \in 1..Len(out) /\ e = prev[out[1]]
      BY <1>3, <2>2, EmptySeq, LenProperties
    <3>2. /\ out[1] \in Read /\ rank[out[1]] = Len(tails) - Len(out) + 1
          /\ rank[out[1]] > 1
      BY <1>2, <1>3, <1>4, <3>1 DEF OutOf
    <3>3. e \in 0..(out[1] - 1) /\ rank[e] = rank[out[1]] - 1 /\ At(e) < At(out[1])
      BY <1>2, <3>1, <3>2 DEF RankOf
    <3> HIDE DEF e
    <3>4. e \in Read /\ e < out[1]
      BY <1>3, <3>2, <3>3 DEF Read
    <3>5. \A k \in 1..Len(out) : out[k] \in Read /\ (1 < k => out[1] < out[k] /\ At(out[1]) < At(out[k]))
      BY <1>2, <3>1 DEF OutOf
    <3>6. ASSUME NEW k \in 1..Len(out) PROVE e < out[k] /\ At(e) < At(out[k])
      <4>1. /\ e \in Nat /\ out[1] \in Nat /\ out[k] \in Nat
            /\ At(e) \in Int /\ At(out[1]) \in Int /\ At(out[k]) \in Int
        BY <1>3, <3>2, <3>4, <3>5
      <4>2. CASE k = 1
        BY <3>3, <3>4, <4>2
      <4>3. CASE 1 < k
        BY <3>3, <3>4, <3>5, <4>1, <4>3
      <4> QED
        BY <1>3, <4>2, <4>3
    <3> QED
      BY <1>3, <3>2, <3>3, <3>4, <3>6
  <2> QED
    BY <2>1, <2>2
<1> HIDE DEF e
<1>7. /\ out' \in Seq(Index) /\ Len(out') = Len(out) + 1
      /\ out'[1] = e
      /\ \A k \in 2..(Len(out) + 1) : out'[k] = out[k - 1]
  BY <1>1, <1>3, <1>4, <1>6, Linked
<1>8. \A k \in 1..Len(out') : (k = 1 /\ out'[k] = e)
                               \/ (k - 1 \in 1..Len(out) /\ out'[k] = out[k - 1])
  <2> TAKE k \in 1..Len(out')
  <2>1. k = 1 \/ (k \in 2..(Len(out) + 1) /\ k - 1 \in 1..Len(out))
    BY <1>3, <1>7
  <2> QED
    BY <1>7, <2>1
<1>9. Shape'
  BY <1>1, <1>3, <1>4, <1>5, <1>7 DEF Shape, TypeOK
<1>10. TailsIncrease'
  BY <1>1, <1>4 DEF TailsIncrease, At
<1>11. RankOf(rank)'
  BY <1>2, <1>4, <1>5 DEF RankOf
<1>12. OutOf(rank)'
  <2>1. \A k \in 1..Len(out') : out'[k] \in Read /\ rank[out'[k]] = Len(tails) - Len(out') + k
    <3> TAKE k \in 1..Len(out')
    <3>1. CASE k = 1 /\ out'[k] = e
      BY <1>3, <1>6, <1>7, <3>1
    <3>2. CASE k - 1 \in 1..Len(out) /\ out'[k] = out[k - 1]
      <4>1. out[k - 1] \in Read /\ rank[out[k - 1]] = Len(tails) - Len(out) + (k - 1)
        BY <1>2, <3>2 DEF OutOf
      <4> QED
        BY <1>3, <1>7, <3>2, <4>1
    <3> QED
      BY <1>8, <3>1, <3>2
  <2>2. \A m, n \in 1..Len(out') : m < n => out'[m] < out'[n] /\ At(out'[m]) < At(out'[n])
    <3> SUFFICES ASSUME NEW m \in 1..Len(out'), NEW n \in 1..Len(out'), m < n
                 PROVE  out'[m] < out'[n] /\ At(out'[m]) < At(out'[n])
      OBVIOUS
    <3>1. n - 1 \in 1..Len(out) /\ out'[n] = out[n - 1]
      BY <1>8
    <3>2. CASE m = 1 /\ out'[m] = e
      BY <1>6, <3>1, <3>2
    <3>3. CASE m - 1 \in 1..Len(out) /\ out'[m] = out[m - 1]
      <4>1. m - 1 < n - 1
        OBVIOUS
      <4> QED
        BY <1>2, <3>1, <3>3, <4>1 DEF OutOf
    <3> QED
      BY <1>8, <3>2, <3>3
  <2> QED
    BY <1>4, <1>5, <2>1, <2>2 DEF OutOf, At
<1>13. /\ Len(out) = 0 => e = tails[Len(tails)]
       /\ Len(out) > 0 => e = prev[out[1]] /\ out[Len(out)] = tails[Len(tails)]
       /\ \A k \in 1..(Len(out) - 1) : out[k] = prev[out[k + 1]]
  BY <1>2, <1>3, EmptySeq, LenProperties DEF LatestOf, e
<1>14. Len(out') > 0 => out'[Len(out')] = tails[Len(tails)]
  <2>1. CASE Len(out) = 0
    BY <1>7, <1>13, <2>1
  <2>2. CASE Len(out) > 0
    <3>1. Len(out) + 1 \in 2..(Len(out) + 1) /\ (Len(out) + 1) - 1 = Len(out)
      BY <1>3, <2>2
    <3>2. out'[Len(out) + 1] = out[Len(out)]
      BY <1>7, <3>1
    <3> QED
      BY <1>7, <1>13, <2>2, <3>2
  <2> QED
    BY <1>3, <2>1, <2>2
<1>15. ASSUME NEW k \in 1..(Len(out') - 1) PROVE out'[k] = prev[out'[k + 1]]
  <2> DEFINE m == k + 1
  <2>1. m \in 2..(Len(out) + 1) /\ m - 1 = k /\ k \in 1..Len(out)
    BY <1>3, <1>7
  <2> HIDE DEF m
  <2>2. out'[m] = out[k]
    BY <1>7, <2>1
  <2>3. CASE k = 1
    BY <1>3, <1>7, <1>13, <2>1, <2>2, <2>3
  <2>4. CASE k # 1
    <3> DEFINE h == k - 1
    <3>1. k \in 2..(Len(out) + 1) /\ h \in 1..(Len(out) - 1) /\ h + 1 = k
      BY <1>3, <2>1, <2>4
    <3>2. out'[k] = out[h]
      BY <1>7, <3>1
    <3> HIDE DEF h
    <3>3. out[h] = prev[out[k]]
      BY <1>13, <3>1
    <3> QED
      BY <2>2, <3>2, <3>3 DEF m
  <2> QED
    BY <2>2, <2>3, <2>4 DEF m
<1>16. LatestOf(rank)'
  BY <1>2, <1>4, <1>5, <1>14, <1>15 DEF LatestOf
<1> QED
  BY <1>2, <1>5, <1>9, <1>10, <1>11, <1>12, <1>16 DEF IInv

LEMMA StutterPreserves == IInv /\ UNCHANGED vars => IInv'
<1> SUFFICES ASSUME IInv, UNCHANGED vars PROVE IInv'
  OBVIOUS
<1>1. Shape' /\ TailsIncrease'
  BY DEF IInv, vars, Shape, TypeOK, Index, TailsIncrease, At
<1>2. PICK rank \in [Read -> Nat] : RankOf(rank) /\ OutOf(rank) /\ LatestOf(rank)
  BY DEF IInv
<1>3. Read' = Read /\ RankOf(rank)' /\ OutOf(rank)' /\ LatestOf(rank)'
  BY <1>2 DEF vars, Read, RankOf, OutOf, LatestOf, At
<1> QED
  BY <1>1, <1>2, <1>3 DEF IInv

LEMMA Invariance == Spec => []IInv
<1>1. Init => IInv
  BY IncreasingAssumption, StartEstablishes DEF Init, Start, Index
<1>2. IInv /\ [Next]_vars => IInv'
  BY ExtendPreserves, LinkPreserves, StutterPreserves DEF Next
<1> QED
  BY <1>1, <1>2, PTL DEF Spec

(* The first n positive numbers are n.                                     *)
LEMMA IntervalSize ==
  ASSUME NEW n \in Nat
  PROVE  IsFiniteSet(1..n) /\ Cardinality(1..n) = n
<1>1. 1 \in Int /\ n \in Int /\ (IF 1 > n THEN 0 ELSE n - 1 + 1) = n
  OBVIOUS
<1> QED
  BY <1>1, FS_Interval

-----------------------------------------------------------------------------
(* The ranks of an increasing subsequence are different, and none exceeds  *)
(* that of its last element.                                               *)
LEMMA RunsAreShort ==
  ASSUME IInv, NEW S \in SUBSET Read, Increasing(S), S # {}
  PROVE  /\ Cardinality(S) <= Len(tails)
         /\ \E x \in S : At(x) >= At(tails[Cardinality(S)])
<1>1. Shape
  BY DEF IInv
<1>2. PICK rank \in [Read -> Nat] : RankOf(rank)
  BY DEF IInv
<1>3. /\ i \in Nat /\ Len(tails) \in Nat /\ DOMAIN tails = 1..Len(tails)
      /\ \A k \in 1..Len(tails) : At(tails[k]) \in Int
      /\ \A x \in Read : At(x) \in Int /\ x \in Nat
  BY <1>1, Types
<1>4. \E x \in S : \A y \in S : y <= x
  <2>1. PICK s \in S : s \in 0..(i - 1)
    BY DEF Read
  <2>2. i - 1 \in Nat
    BY <1>3, <2>1
  <2> QED
    BY <2>2, GreatestElement DEF Read
<1>5. PICK x \in S : \A y \in S : y <= x
  BY <1>4
<1>6. \A y, z \in S : y < z => rank[y] < rank[z]
  BY <1>2 DEF RankOf, Increasing
<1>7. \A y \in S : rank[y] \in 1..rank[x]
  <2> TAKE y \in S
  <2>1. rank[y] \in 1..Len(tails) /\ rank[x] \in 1..Len(tails)
    BY <1>2 DEF RankOf
  <2>2. y = x \/ y < x
    BY <1>3, <1>5
  <2> QED
    BY <1>3, <1>6, <2>1, <2>2
<1> DEFINE f == [y \in S |-> rank[y]]
<1>8. f \in Injection(S, 1..rank[x])
  <2>1. f \in [S -> 1..rank[x]]
    BY <1>7
  <2>2. \A y, z \in S : f[y] = f[z] => y = z
    <3> TAKE y, z \in S
    <3>1. y \in Nat /\ z \in Nat /\ rank[y] \in Nat /\ rank[z] \in Nat
      BY <1>3, <1>7
    <3> QED
      BY <1>6, <3>1
  <2> QED
    BY <2>1, <2>2 DEF Injection, IsInjective
<1>9. rank[x] \in 1..Len(tails) /\ At(tails[rank[x]]) <= At(x) /\ At(x) \in Int
  BY <1>2, <1>3 DEF RankOf
<1>10. IsFiniteSet(1..rank[x]) /\ Cardinality(1..rank[x]) = rank[x]
  <2>1. rank[x] \in Nat
    BY <1>3, <1>9
  <2> QED
    BY <2>1, IntervalSize
<1>11. IsFiniteSet(S) /\ Cardinality(S) <= rank[x]
  BY <1>8, <1>10, FS_Injection
<1>12. Cardinality(S) \in Nat /\ Cardinality(S) # 0
  BY <1>11, FS_CardinalityType, FS_EmptySet
<1>13. At(tails[Cardinality(S)]) <= At(tails[rank[x]])
  <2>1. Cardinality(S) \in DOMAIN tails /\ rank[x] \in DOMAIN tails
    BY <1>3, <1>9, <1>11, <1>12
  <2>2. Cardinality(S) < rank[x] => At(tails[Cardinality(S)]) < At(tails[rank[x]])
    BY <2>1 DEF IInv, TailsIncrease
  <2>3. At(tails[Cardinality(S)]) \in Int /\ At(tails[rank[x]]) \in Int
    BY <1>3, <2>1
  <2> QED
    BY <1>9, <1>11, <1>12, <2>2, <2>3
<1>14. At(tails[Cardinality(S)]) \in Int /\ At(tails[rank[x]]) \in Int
  BY <1>3, <1>9, <1>11, <1>12
<1>15. At(x) >= At(tails[Cardinality(S)])
  BY <1>9, <1>13, <1>14
<1> QED
  BY <1>3, <1>9, <1>11, <1>12, <1>15

(* The tails are sorted at every search.                                   *)
THEOREM SearchIsSound == Spec => []TailsIncrease
<1>1. IInv => TailsIncrease
  BY DEF IInv
<1> QED
  BY Invariance, <1>1, PTL

(* No increasing subsequence of what was read is longer than the tails, or *)
(* ends lower than the tail of its length.                                 *)
THEOREM PatienceIsBest == Spec => []TailsAreBest
<1>1. IInv => TailsAreBest
  BY RunsAreShort DEF TailsAreBest, Read
<1> QED
  BY Invariance, <1>1, PTL

LEMMA LongestWhenDone == IInv => ResultIsLongest
<1>1. ASSUME IInv, i = Len(values), Len(out) = Len(tails)
      PROVE  /\ \A m, n \in DOMAIN out : m < n => out[m] < out[n] /\ At(out[m]) < At(out[n])
             /\ \A S \in SUBSET Index : Increasing(S) => Cardinality(S) <= Len(out)
  <2>1. Shape
    BY <1>1 DEF IInv
  <2>2. PICK rank \in [Read -> Nat] : OutOf(rank)
    BY <1>1 DEF IInv
  <2>3. DOMAIN out = 1..Len(out) /\ Len(out) \in Nat
    BY <2>1, Types
  <2>4. \A S \in SUBSET Index : Increasing(S) => Cardinality(S) <= Len(out)
    <3> SUFFICES ASSUME NEW S \in SUBSET Index, Increasing(S) PROVE Cardinality(S) <= Len(out)
      OBVIOUS
    <3>1. CASE S = {}
      BY <2>3, <3>1, FS_EmptySet
    <3>2. CASE S # {}
      <4>1. S \in SUBSET Read
        BY <1>1 DEF Read, Index
      <4> QED
        BY <1>1, <3>2, <4>1, RunsAreShort
    <3> QED
      BY <3>1, <3>2
  <2> QED
    BY <2>2, <2>3, <2>4 DEF OutOf
<1> QED
  BY <1>1 DEF ResultIsLongest

(* The result is a longest increasing subsequence, for every list.         *)
THEOREM LongestIsLongest == Spec => []ResultIsLongest
  BY Invariance, LongestWhenDone, PTL

(* A longest one has an element of each rank, in the order of the ranks.   *)
LEMMA LongestHasAllRanks ==
  ASSUME IInv, NEW rank \in [Read -> Nat], RankOf(rank),
         NEW S \in SUBSET Read, Increasing(S), IsFiniteSet(S), Cardinality(S) = Len(tails)
  PROVE  /\ \A y \in S : rank[y] \in 1..Len(tails) /\ y \in Nat
         /\ \A r \in 1..Len(tails) : \E y \in S : rank[y] = r
         /\ \A y, z \in S : y < z <=> rank[y] < rank[z]
<1>1. Shape
  BY DEF IInv
<1>2. Len(tails) \in Nat /\ \A y \in S : y \in Nat
  BY <1>1, Types
<1>3. ASSUME NEW y \in S PROVE rank[y] \in 1..Len(tails)
  BY DEF RankOf
<1>4. ASSUME NEW y \in S, NEW z \in S PROVE y < z <=> rank[y] < rank[z]
  <2>1. /\ y < z => rank[y] < rank[z]
        /\ z < y => rank[z] < rank[y]
    BY DEF RankOf, Increasing
  <2>2. y \in Nat /\ z \in Nat /\ rank[y] \in Nat /\ rank[z] \in Nat
    BY <1>2, <1>3
  <2> QED
    BY <2>1, <2>2
<1> DEFINE f == [y \in S |-> rank[y]]
           R == 1..Len(tails)
<1>5. f \in Injection(S, R)
  <2>1. f \in [S -> R]
    BY <1>3
  <2>2. ASSUME NEW y \in S, NEW z \in S, f[y] = f[z] PROVE y = z
    <3>1. y \in Nat /\ z \in Nat /\ rank[y] = rank[z] /\ rank[y] \in Nat
      BY <1>2, <1>3, <2>2
    <3> QED
      BY <1>4, <3>1
  <2> HIDE DEF f
  <2> QED
    BY <2>1, <2>2 DEF Injection, IsInjective
<1>6. IsFiniteSet(R) /\ Cardinality(R) = Len(tails)
  BY <1>2, IntervalSize
<1>7. f \in Surjection(S, R)
  <2> HIDE DEF f, R
  <2> QED
    BY <1>5, <1>6, FS_Injection
<1>8. ASSUME NEW r \in R PROVE \E y \in S : rank[y] = r
  <2>1. \E y \in S : f[y] = r
    <3> HIDE DEF f, R
    <3> QED
      BY <1>7 DEF Surjection
  <2> QED
    BY <2>1
<1> QED
  BY <1>2, <1>3, <1>4, <1>8

(* Of the longest increasing subsequences the result is the latest: where  *)
(* it first differs from another, seen from the end, it has the later one. *)
LEMMA LatestIsPicked ==
  ASSUME IInv, i = Len(values), Len(out) = Len(tails),
         NEW S \in SUBSET Index, Increasing(S), IsFiniteSet(S), Cardinality(S) = Len(out),
         S # Range(out)
  PROVE  \E x \in Range(out) \ S : \A y \in S \ Range(out) : y < x
<1>1. PICK rank \in [Read -> Nat] : RankOf(rank) /\ OutOf(rank) /\ LatestOf(rank)
  BY DEF IInv
<1> DEFINE L == Len(tails)
<1>2. /\ Shape /\ L \in Nat /\ Read = Index /\ DOMAIN out = 1..L
      /\ \A x \in Index : x \in Nat
  BY Types DEF IInv, Read, Index
<1>3. \A r \in 1..L : out[r] \in Index /\ rank[out[r]] = r
  BY <1>1, <1>2 DEF OutOf
<1>4. /\ \A y \in S : rank[y] \in 1..L /\ y \in Nat
      /\ \A r \in 1..L : \E y \in S : rank[y] = r
      /\ \A y, z \in S : y < z <=> rank[y] < rank[z]
  BY <1>1, <1>2, LongestHasAllRanks
<1>5. \A y, z \in S : rank[y] = rank[z] => y = z
  <2> SUFFICES ASSUME NEW y \in S, NEW z \in S, rank[y] = rank[z] PROVE y = z
    OBVIOUS
  <2>1. y \in Nat /\ z \in Nat /\ rank[y] \in Nat
    BY <1>4
  <2> QED
    BY <1>4, <2>1
<1>6. \A y : y \in Range(out) <=> \E r \in 1..L : y = out[r]
  BY <1>2 DEF Range
<1> HIDE DEF L
<1> DEFINE D == {r \in 1..L : \E y \in S : rank[y] = r /\ y # out[r]}
<1>7. D # {}
  <2> SUFFICES ASSUME D = {} PROVE S = Range(out)
    OBVIOUS
  <2>1. ASSUME NEW y \in S PROVE y \in Range(out)
    <3>1. rank[y] \in 1..L
      BY <1>4
    <3>2. y = out[rank[y]]
      BY <3>1
    <3> QED
      BY <1>6, <3>1, <3>2
  <2>2. ASSUME NEW r \in 1..L PROVE out[r] \in S
    <3>1. PICK y \in S : rank[y] = r
      BY <1>4
    <3> QED
      BY <3>1
  <2> HIDE DEF D
  <2>3. \A y : y \in Range(out) => y \in S
    BY <1>6, <2>2
  <2> QED
    BY <2>1, <2>3
<1>8. PICK r \in D : \A q \in D : q <= r
  <2>1. D \in SUBSET (0..L)
    BY <1>2 DEF L
  <2> HIDE DEF D
  <2> QED
    BY <1>2, <1>7, <2>1, GreatestElement DEF L
<1>9. PICK s \in S : rank[s] = r /\ s # out[r]
  OBVIOUS
<1>10. r \in 1..L /\ L \in Nat
  BY <1>2 DEF L
<1>11. ASSUME NEW q \in 1..L, q > r, NEW y \in S, rank[y] = q PROVE y = out[q]
  <2>1. q \notin D
    <3> HIDE DEF D
    <3> QED
      BY <1>8, <1>10, <1>11
  <2> QED
    BY <1>11, <2>1
<1> HIDE DEF D
<1>12. s <= out[r]
  <2>1. CASE r = L
    <3>1. s <= tails[L]
      BY <1>1, <1>2, <1>9, <2>1 DEF LatestOf
    <3>2. out[L] = tails[L]
      BY <1>1, <1>10, <2>1 DEF LatestOf, L
    <3> QED
      BY <2>1, <3>1, <3>2
  <2>2. CASE r # L
    <3> DEFINE q == r + 1
    <3>1. q \in 1..L /\ q > r /\ r = q - 1 /\ r \in 1..(L - 1)
      BY <1>10, <2>2
    <3>2. out[r] = prev[out[q]]
      BY <1>1, <3>1 DEF LatestOf, L
    <3> HIDE DEF q
    <3>3. PICK t \in S : rank[t] = q
      BY <1>4, <3>1
    <3>4. t = out[q]
      BY <1>11, <3>1, <3>3
    <3>5. s < t
      BY <1>4, <1>9, <3>1, <3>3
    <3>6. s <= prev[t]
      BY <1>1, <1>2, <1>9, <3>1, <3>3, <3>5 DEF LatestOf
    <3> QED
      BY <3>2, <3>4, <3>6
  <2> QED
    BY <2>1, <2>2
<1>13. out[r] \in Nat /\ s \in Nat /\ s < out[r]
  BY <1>2, <1>3, <1>4, <1>9, <1>10, <1>12
<1>14. out[r] \in Range(out) /\ out[r] \notin S
  BY <1>3, <1>5, <1>6, <1>9, <1>10
<1>15. ASSUME NEW y \in S, y \notin Range(out) PROVE y < out[r]
  <2>1. rank[y] \in 1..L /\ y \in Nat
    BY <1>4
  <2>2. ~(rank[y] > r)
    BY <1>6, <1>11, <1>15, <2>1
  <2>3. rank[s] = r /\ (rank[y] = rank[s] \/ rank[y] < rank[s])
    BY <1>9, <1>10, <2>1, <2>2
  <2>4. y = s \/ y < s
    <3>1. CASE rank[y] = rank[s]
      BY <1>5, <1>9, <3>1
    <3>2. CASE rank[y] < rank[s]
      BY <1>4, <1>9, <3>2
    <3> QED
      BY <2>3, <3>1, <3>2
  <2> QED
    BY <1>13, <2>1, <2>4
<1> QED
  BY <1>14, <1>15

-----------------------------------------------------------------------------
(* Sets of numbers in ascending order.                                     *)
Rank(S, k) == Cardinality({l \in S : l < k})

LEMMA RankFacts ==
  ASSUME NEW S \in SUBSET Nat, IsFiniteSet(S)
  PROVE  /\ Cardinality(S) \in Nat
         /\ \A k \in S : Rank(S, k) \in 0..(Cardinality(S) - 1)
         /\ \A k, l \in S : k < l <=> Rank(S, k) < Rank(S, l)
         /\ \A r \in 0..(Cardinality(S) - 1) : \E k \in S : Rank(S, k) = r
<1> DEFINE B(k) == {l \in S : l < k}
           n == Cardinality(S)
<1>1. n \in Nat
  BY FS_CardinalityType
<1>2. ASSUME NEW k \in S PROVE IsFiniteSet(B(k)) /\ Cardinality(B(k)) \in 0..(n - 1)
  <2>1. B(k) \in SUBSET S /\ B(k) # S
    <3>1. k \notin B(k)
      OBVIOUS
    <3> QED
      BY <3>1
  <2> HIDE DEF B
  <2>2. IsFiniteSet(B(k)) /\ Cardinality(B(k)) <= n /\ Cardinality(B(k)) # n
    BY <2>1, FS_Subset
  <2>3. Cardinality(B(k)) \in Nat
    BY <2>2, FS_CardinalityType
  <2> QED
    BY <1>1, <2>2, <2>3
<1>3. ASSUME NEW k \in S, NEW l \in S, k < l PROVE Cardinality(B(k)) < Cardinality(B(l))
  <2>1. B(k) \in SUBSET B(l) /\ B(k) # B(l)
    <3>1. k \in B(l) /\ k \notin B(k)
      BY <1>3
    <3>2. ASSUME NEW m \in S, m < k PROVE m < l
      BY <1>3, <3>2
    <3> QED
      BY <3>1, <3>2
  <2>2. IsFiniteSet(B(l)) /\ Cardinality(B(l)) \in Nat /\ Cardinality(B(k)) \in Nat
    BY <1>1, <1>2
  <2> HIDE DEF B
  <2>3. Cardinality(B(k)) <= Cardinality(B(l)) /\ Cardinality(B(k)) # Cardinality(B(l))
    BY <2>1, <2>2, FS_Subset
  <2> QED
    BY <2>2, <2>3
<1>4. ASSUME NEW k \in S, NEW l \in S PROVE k < l <=> Cardinality(B(k)) < Cardinality(B(l))
  <2>1. Cardinality(B(k)) \in Nat /\ Cardinality(B(l)) \in Nat /\ k \in Nat /\ l \in Nat
    BY <1>1, <1>2
  <2>2. k < l => Cardinality(B(k)) < Cardinality(B(l))
    BY <1>3
  <2>3. l < k => Cardinality(B(l)) < Cardinality(B(k))
    BY <1>3
  <2> HIDE DEF B
  <2>4. k = l \/ k < l \/ l < k
    BY <2>1
  <2> QED
    BY <2>1, <2>2, <2>3, <2>4
<1> DEFINE f == [k \in S |-> Cardinality(B(k))]
           R == 0..(n - 1)
<1> HIDE DEF B
<1>5. f \in Injection(S, R)
  <2>1. f \in [S -> R]
    BY <1>2
  <2>2. ASSUME NEW k \in S, NEW l \in S, f[k] = f[l] PROVE k = l
    <3>1. Cardinality(B(k)) = Cardinality(B(l)) /\ Cardinality(B(k)) \in Nat
      BY <1>1, <1>2, <2>2
    <3>2. ~(k < l) /\ ~(l < k) /\ k \in Nat /\ l \in Nat
      BY <1>4, <3>1
    <3> QED
      BY <3>2
  <2> HIDE DEF f
  <2> QED
    BY <2>1, <2>2 DEF Injection, IsInjective
<1>6. IsFiniteSet(R) /\ Cardinality(R) = n
  <2>1. 0 \in Int /\ n - 1 \in Int
    BY <1>1
  <2>2. IsFiniteSet(R) /\ Cardinality(R) = IF 0 > n - 1 THEN 0 ELSE (n - 1) - 0 + 1
    BY <2>1, FS_Interval
  <2> HIDE DEF R
  <2> QED
    BY <1>1, <2>2
<1>7. f \in Surjection(S, R)
  <2> HIDE DEF f, R, n
  <2> QED
    BY <1>5, <1>6, FS_Injection DEF n
<1>8. ASSUME NEW r \in R PROVE \E k \in S : Cardinality(B(k)) = r
  <2>1. \E k \in S : f[k] = r
    <3> HIDE DEF f, R
    <3> QED
      BY <1>7 DEF Surjection
  <2> QED
    BY <2>1
<1> QED
  BY <1>1, <1>2, <1>4, <1>8 DEF Rank, B

(* Two sets of one size: a function from one to the other that is one to   *)
(* one and leaves nothing out.                                             *)
LEMMA SameSize ==
  ASSUME NEW S, IsFiniteSet(S), NEW T, NEW g \in [S -> T],
         \A x, y \in S : g[x] = g[y] => x = y,
         \A t \in T : \E x \in S : g[x] = t
  PROVE  IsFiniteSet(T) /\ Cardinality(T) = Cardinality(S)
<1>1. g \in Injection(S, T)
  BY DEF Injection, IsInjective
<1>2. g \in Surjection(S, T)
  BY DEF Surjection
<1> QED
  BY <1>1, <1>2, FS_Surjection

AscendingIs(S, s) ==
  /\ s \in Seq(S) /\ Len(s) = Cardinality(S) /\ DOMAIN s = 1..Cardinality(S)
  /\ \A k \in 1..Cardinality(S) : s[k] \in S /\ s[k] \in Nat /\ Rank(S, s[k]) = k - 1
  /\ \A x \in S : \E k \in 1..Cardinality(S) : s[k] = x
  /\ \A j, k \in 1..Cardinality(S) : j < k <=> s[j] < s[k]
  /\ \A j, k \in 1..Cardinality(S) : s[j] = s[k] => j = k

LEMMA AscendingFacts ==
  ASSUME NEW S \in SUBSET Nat, IsFiniteSet(S)
  PROVE  AscendingIs(S, Ascending(S)) /\ Cardinality(S) \in Nat
<1> DEFINE n == Cardinality(S)
           s == Ascending(S)
<1>1. /\ n \in Nat
      /\ \A x \in S : Rank(S, x) \in 0..(n - 1)
      /\ \A x, y \in S : x < y <=> Rank(S, x) < Rank(S, y)
      /\ \A r \in 0..(n - 1) : \E x \in S : Rank(S, x) = r
  BY RankFacts
<1>2. s = [k \in 1..n |-> CHOOSE x \in S : Rank(S, x) = k - 1]
  BY DEF Ascending, Rank
<1> HIDE DEF n, s
<1>3. ASSUME NEW k \in 1..n PROVE s[k] \in S /\ s[k] \in Nat /\ Rank(S, s[k]) = k - 1
  <2>1. k - 1 \in 0..(n - 1)
    BY <1>1
  <2>2. \E x \in S : Rank(S, x) = k - 1
    BY <1>1, <2>1
  <2>3. s[k] = CHOOSE x \in S : Rank(S, x) = k - 1
    BY <1>2
  <2>4. s[k] \in S /\ Rank(S, s[k]) = k - 1
    BY <2>2, <2>3
  <2> QED
    BY <2>4
<1>4. ASSUME NEW x \in S PROVE \E k \in 1..n : s[k] = x
  <2> DEFINE k == Rank(S, x) + 1
  <2>1. k \in 1..n /\ k - 1 = Rank(S, x)
    BY <1>1
  <2> HIDE DEF k
  <2>2. s[k] \in S /\ Rank(S, s[k]) = Rank(S, x)
    BY <1>3, <2>1
  <2>3. Rank(S, x) \in Nat /\ s[k] \in Nat /\ x \in Nat
    <3>1. Rank(S, x) \in 0..(n - 1)
      BY <1>1
    <3>2. Rank(S, x) \in Nat
      BY <3>1
    <3>3. x \in Nat /\ s[k] \in Nat
      BY <2>2
    <3> QED
      BY <3>2, <3>3
  <2>4. ~(s[k] < x) /\ ~(x < s[k])
    <3>1. ~(Rank(S, s[k]) < Rank(S, x)) /\ ~(Rank(S, x) < Rank(S, s[k]))
      BY <2>2, <2>3
    <3> QED
      BY <1>1, <2>2, <3>1
  <2>5. s[k] = x
    BY <2>3, <2>4
  <2> QED
    BY <2>1, <2>5
<1>5. ASSUME NEW j \in 1..n, NEW k \in 1..n
      PROVE  (j < k <=> s[j] < s[k]) /\ (s[j] = s[k] => j = k)
  <2>1. /\ s[j] \in S /\ s[k] \in S /\ Rank(S, s[j]) = j - 1 /\ Rank(S, s[k]) = k - 1
        /\ j \in Nat /\ k \in Nat
    BY <1>1, <1>3
  <2>2. s[j] < s[k] <=> Rank(S, s[j]) < Rank(S, s[k])
    BY <1>1, <2>1
  <2> QED
    BY <2>1, <2>2
<1>6. s \in [1..n -> S]
  BY <1>2, <1>3
<1>7. s \in Seq(S) /\ Len(s) = n /\ DOMAIN s = 1..n
  <2>1. s \in Seq(S)
    BY <1>1, <1>6, SeqDef
  <2>2. DOMAIN s = 1..n
    BY <1>6
  <2> QED
    BY <1>1, <2>1, <2>2, LenProperties
<1> QED
  BY <1>1, <1>3, <1>4, <1>5, <1>7 DEF AscendingIs, n, s

(* A function that keeps the order between two sets keeps the places.      *)
LEMMA SamePlaces ==
  ASSUME NEW S \in SUBSET Nat, IsFiniteSet(S), NEW T \in SUBSET Nat,
         NEW f \in [S -> T],
         \A x, y \in S : x < y <=> f[x] < f[y],
         \A t \in T : \E x \in S : f[x] = t
  PROVE  /\ IsFiniteSet(T) /\ Cardinality(T) = Cardinality(S)
         /\ \A k \in 1..Cardinality(S) : Ascending(T)[k] = f[Ascending(S)[k]]
<1>1. ASSUME NEW x \in S, NEW y \in S, f[x] = f[y] PROVE x = y
  <2>1. x \in Nat /\ y \in Nat /\ f[x] \in Nat
    OBVIOUS
  <2> QED
    BY <1>1, <2>1
<1>2. IsFiniteSet(T) /\ Cardinality(T) = Cardinality(S)
  BY <1>1, SameSize
<1>3. ASSUME NEW x \in S PROVE Rank(T, f[x]) = Rank(S, x)
  <2> DEFINE P == {y \in S : y < x}
             Q == {t \in T : t < f[x]}
             g == [y \in P |-> f[y]]
  <2>1. g \in [P -> Q]
    OBVIOUS
  <2>2. \A y, z \in P : g[y] = g[z] => y = z
    BY <1>1
  <2>3. \A t \in Q : \E y \in P : g[y] = t
    OBVIOUS
  <2>4. P \in SUBSET S
    OBVIOUS
  <2>5. IsFiniteSet(P)
    BY <2>4, FS_Subset
  <2> HIDE DEF P, Q, g
  <2>6. Cardinality(Q) = Cardinality(P)
    BY <2>1, <2>2, <2>3, <2>5, SameSize
  <2> QED
    BY <2>6 DEF Rank, P, Q
<1>4. ASSUME NEW k \in 1..Cardinality(S) PROVE Ascending(T)[k] = f[Ascending(S)[k]]
  <2> DEFINE x == Ascending(S)[k]
             t == Ascending(T)[k]
  <2>1. x \in S /\ Rank(S, x) = k - 1 /\ t \in T /\ Rank(T, t) = k - 1 /\ k \in Nat
    BY <1>2, AscendingFacts DEF AscendingIs
  <2> HIDE DEF x, t
  <2>2. f[x] \in T /\ Rank(T, f[x]) = Rank(T, t) /\ Rank(T, t) \in Nat /\ f[x] \in Nat /\ t \in Nat
    <3>1. f[x] \in T /\ f[x] \in Nat /\ t \in Nat
      BY <2>1
    <3>2. k - 1 \in Nat
      BY <2>1
    <3> QED
      BY <1>3, <2>1, <3>1, <3>2
  <2>3. ~(f[x] < t) /\ ~(t < f[x])
    BY <1>2, <2>1, <2>2, RankFacts
  <2>4. f[x] = t
    BY <2>2, <2>3
  <2> QED
    BY <2>4 DEF x, t
<1> QED
  BY <1>2, <1>4

-----------------------------------------------------------------------------
(* What a loop computes in n rounds: the states it passes exist.           *)
Within(F, n, S) == \A k \in 1..n : \A x \in S : F[k][x] \in S
Passes(f, start, n, F) == f[0] = start /\ \A k \in 1..n : f[k] = F[k][f[k - 1]]

LEMMA Recursion ==
  ASSUME NEW S, NEW start \in S, NEW n \in Nat, NEW F, Within(F, n, S)
  PROVE  \E f \in [0..n -> S] : Passes(f, start, n, F)
<1> USE DEF Within, Passes
<1> DEFINE Runs(m) == {f \in [0..m -> S] : f[0] = start /\ \A k \in 1..m : f[k] = F[k][f[k - 1]]}
           Bad == {m \in 0..n : Runs(m) = {}}
<1>1. Bad = {}
  <2> SUFFICES ASSUME Bad # {} PROVE FALSE
    OBVIOUS
  <2>1. PICK m \in Bad : \A q \in Bad : m <= q
    <3>1. Bad \in SUBSET Nat
      OBVIOUS
    <3> HIDE DEF Bad
    <3> QED
      BY <3>1, LeastElement
  <2>2. m \in 0..n /\ m \in Nat /\ Runs(m) = {}
    OBVIOUS
  <2>3. CASE m = 0
    <3> DEFINE f == [k \in 0..0 |-> start]
    <3>1. f \in [0..0 -> S] /\ f[0] = start /\ 1..0 = {}
      OBVIOUS
    <3> HIDE DEF f
    <3>2. f \in Runs(0)
      BY <3>1
    <3> QED
      BY <2>2, <2>3, <3>2
  <2>4. CASE m # 0
    <3> DEFINE q == m - 1
    <3>1. q \in 0..n /\ q \in Nat /\ m = q + 1 /\ ~(m <= q)
      BY <2>2, <2>4
    <3> HIDE DEF q
    <3>2. Runs(q) # {}
      BY <2>1, <3>1
    <3>3. PICK f \in [0..q -> S] : f[0] = start /\ \A k \in 1..q : f[k] = F[k][f[k - 1]]
      BY <3>2
    <3> DEFINE g == [k \in 0..m |-> IF k = m THEN F[m][f[q]] ELSE f[k]]
    <3>4. m \in 1..n /\ f[q] \in S
      BY <2>2, <3>1
    <3>5. F[m][f[q]] \in S
      BY <3>4
    <3>6. g \in [0..m -> S]
      <4> SUFFICES ASSUME NEW k \in 0..m PROVE (IF k = m THEN F[m][f[q]] ELSE f[k]) \in S
        OBVIOUS
      <4>1. k # m => k \in 0..q
        BY <3>1
      <4> QED
        BY <3>5, <4>1
    <3>7. g[0] = start
      BY <2>2, <2>4, <3>3
    <3>8. ASSUME NEW k \in 1..m PROVE g[k] = F[k][g[k - 1]]
      <4>1. k \in 0..m /\ k - 1 \in 0..m /\ k - 1 # m /\ k - 1 \in 0..q
        BY <3>1
      <4>2. g[k - 1] = f[k - 1]
        BY <4>1
      <4>3. CASE k = m
        <5>1. g[k] = F[m][f[q]] /\ k - 1 = q
          BY <3>1, <4>1, <4>3
        <5> QED
          BY <4>2, <4>3, <5>1
      <4>4. CASE k # m
        <5>1. g[k] = f[k] /\ k \in 1..q
          BY <3>1, <4>1, <4>4
        <5> QED
          BY <3>3, <4>2, <5>1
      <4> QED
        BY <4>3, <4>4
    <3> HIDE DEF g
    <3>9. g \in Runs(m)
      BY <3>6, <3>7, <3>8
    <3> QED
      BY <2>2, <3>9
  <2> QED
    BY <2>3, <2>4
<1>2. Runs(n) # {}
  <2>1. n \in 0..n
    OBVIOUS
  <2> QED
    BY <1>1, <2>1
<1> QED
  BY <1>2

(* The lines lo + 1 to hi.                                                 *)
Run(lo, hi) == [k \in 1..(hi - lo) |-> lo + k]

LEMMA RunFacts ==
  ASSUME NEW lo \in Nat, NEW hi \in Nat, lo <= hi
  PROVE  /\ Run(lo, hi) \in Seq((lo + 1)..hi) /\ Len(Run(lo, hi)) = hi - lo
         /\ DOMAIN Run(lo, hi) = 1..(hi - lo)
         /\ \A k \in 1..(hi - lo) : Run(lo, hi)[k] = lo + k
         /\ Run(lo, hi) = <<>> <=> lo = hi
         /\ \A x : x \in Range(Run(lo, hi)) <=> x \in (lo + 1)..hi
<1>1. hi - lo \in Nat
  OBVIOUS
<1>2. Run(lo, hi) \in [1..(hi - lo) -> (lo + 1)..hi]
  BY DEF Run
<1>3. Run(lo, hi) \in Seq((lo + 1)..hi)
  BY <1>1, <1>2, SeqDef
<1>4. DOMAIN Run(lo, hi) = 1..(hi - lo)
  BY DEF Run
<1>5. \A k \in 1..(hi - lo) : Run(lo, hi)[k] = lo + k
  BY DEF Run
<1>6. Len(Run(lo, hi)) = hi - lo
  BY <1>1, <1>3, <1>4, LenProperties
<1>7. Run(lo, hi) = <<>> <=> lo = hi
  BY <1>3, <1>6, EmptySeq
<1>8. ASSUME NEW x PROVE x \in Range(Run(lo, hi)) <=> x \in (lo + 1)..hi
  <2>1. ASSUME x \in (lo + 1)..hi PROVE \E k \in 1..(hi - lo) : lo + k = x
    <3>1. x - lo \in 1..(hi - lo) /\ lo + (x - lo) = x
      BY <2>1
    <3> QED
      BY <3>1
  <2>2. x \in Range(Run(lo, hi)) <=> \E k \in 1..(hi - lo) : lo + k = x
    BY <1>4, <1>5 DEF Range
  <2>3. \A k \in 1..(hi - lo) : lo + k \in (lo + 1)..hi
    OBVIOUS
  <2> QED
    BY <2>1, <2>2, <2>3
<1> QED
  BY <1>3, <1>4, <1>5, <1>6, <1>7, <1>8

LEMMA RunGrows ==
  ASSUME NEW lo \in Nat, NEW k \in Nat, lo < k
  PROVE  Append(Run(lo, k - 1), k) = Run(lo, k)
<1> DEFINE a == Append(Run(lo, k - 1), k)
           b == Run(lo, k)
<1>1. k - 1 \in Nat /\ lo <= k - 1 /\ lo <= k
  OBVIOUS
<1>2. /\ Run(lo, k - 1) \in Seq((lo + 1)..(k - 1)) /\ Len(Run(lo, k - 1)) = k - 1 - lo
      /\ \A j \in 1..(k - 1 - lo) : Run(lo, k - 1)[j] = lo + j
  BY <1>1, RunFacts
<1>3. Run(lo, k - 1) \in Seq(Nat) /\ k \in Nat
  <2>1. (lo + 1)..(k - 1) \subseteq Nat
    OBVIOUS
  <2> QED
    BY <1>2, <2>1, SeqMonotonic
<1>4. b \in Seq((lo + 1)..k) /\ Len(b) = k - lo /\ \A j \in 1..(k - lo) : b[j] = lo + j
  BY <1>1, RunFacts
<1>5. /\ a \in Seq(Nat) /\ Len(a) = k - lo
      /\ \A j \in 1..(k - 1 - lo) : a[j] = Run(lo, k - 1)[j]
      /\ a[k - lo] = k
  <2>1. /\ a \in Seq(Nat) /\ Len(a) = Len(Run(lo, k - 1)) + 1
        /\ \A j \in 1..Len(Run(lo, k - 1)) : a[j] = Run(lo, k - 1)[j]
        /\ a[Len(Run(lo, k - 1)) + 1] = k
    BY <1>3, AppendProperties
  <2>2. Len(Run(lo, k - 1)) + 1 = k - lo
    BY <1>2
  <2> QED
    BY <1>2, <2>1, <2>2
<1>6. b \in Seq(Nat)
  <2>1. (lo + 1)..k \subseteq Nat
    OBVIOUS
  <2> QED
    BY <1>4, <2>1, SeqMonotonic
<1>7. ASSUME NEW j \in 1..(k - lo) PROVE a[j] = b[j]
  <2>1. CASE j = k - lo
    BY <1>4, <1>5, <2>1
  <2>2. CASE j # k - lo
    <3>1. j \in 1..(k - 1 - lo)
      BY <2>2
    <3> QED
      BY <1>2, <1>4, <1>5, <3>1
  <2> QED
    BY <2>1, <2>2
<1> HIDE DEF a, b
<1>8. a = b
  BY <1>4, <1>5, <1>6, <1>7, SeqEqual
<1> QED
  BY <1>8 DEF a, b

-----------------------------------------------------------------------------
(* How the blocks of a side lie: block n has the lines after e[n - 1] up to*)
(* e[n], nothing enters or leaves it between, and each cut but the last is *)
(* due to a jump or a leader.                                              *)
Whole(s, lo, hi) == /\ \A k \in (lo + 2)..hi : k \notin Leaders(s)
                    /\ \A k \in (lo + 1)..(hi - 1) : k \notin Ends(s)
Due(s, k) == k \in Ends(s) \/ k + 1 \in Leaders(s)

CutAt(s, blocks, n, e, k) ==
  /\ e[0] = 0 /\ e[n] = k
  /\ blocks = [b \in 1..n |-> Run(e[b - 1], e[b])]
  /\ \A b \in 1..n : e[b - 1] < e[b] /\ Whole(s, e[b - 1], e[b])
  /\ \A b \in 1..(n - 1) : Due(s, e[b])
Layout(s, blocks, k) == \E n \in Nat : \E e \in [0..n -> 0..k] : CutAt(s, blocks, n, e, k)

LEMMA LayoutGrows ==
  ASSUME NEW s, NEW blocks, NEW j \in Nat, NEW k \in Nat, j < k,
         Layout(s, blocks, j), j > 0 => Due(s, j), Whole(s, j, k)
  PROVE  Layout(s, Append(blocks, Run(j, k)), k)
<1>0. PICK n \in Nat : \E e \in [0..n -> 0..j] : CutAt(s, blocks, n, e, j)
  BY DEF Layout
<1>1. PICK e \in [0..n -> 0..j] : CutAt(s, blocks, n, e, j)
  BY <1>0
<1> DEFINE m == n + 1
           g == [b \in 0..m |-> IF b = m THEN k ELSE e[b]]
           more == Append(blocks, Run(j, k))
<1>2. m \in Nat /\ n \in 0..m /\ n # m /\ n \in 0..n /\ m \in 0..m /\ m # 0 /\ 0 \in 0..n
  OBVIOUS
<1>3. e[0] = 0 /\ e[n] = j /\ blocks = [b \in 1..n |-> Run(e[b - 1], e[b])]
  BY <1>1 DEF CutAt
<1>4. g \in [0..m -> 0..k]
  <2> SUFFICES ASSUME NEW b \in 0..m PROVE (IF b = m THEN k ELSE e[b]) \in 0..k
    OBVIOUS
  <2>1. CASE b = m
    BY <2>1
  <2>2. CASE b # m
    <3>1. b \in 0..n
      BY <2>2
    <3>2. e[b] \in 0..j
      BY <3>1
    <3> QED
      BY <2>2, <3>2
  <2> QED
    BY <2>1, <2>2
<1>5. g[m] = k /\ \A b \in 0..n : g[b] = e[b]
  <2>1. ASSUME NEW b \in 0..n PROVE b \in 0..m /\ b # m
    BY <2>1
  <2> QED
    BY <1>2, <2>1
<1> HIDE DEF g
<1>6. g[0] = 0
  BY <1>2, <1>3, <1>5
<1>7. ASSUME NEW b \in 1..m
      PROVE  \/ b \in 1..n /\ g[b - 1] = e[b - 1] /\ g[b] = e[b] /\ b # m
             \/ b = m /\ g[b - 1] = j /\ g[b] = k
  <2>1. CASE b = m
    <3>1. b - 1 = n
      BY <2>1
    <3> QED
      BY <1>2, <1>3, <1>5, <2>1, <3>1
  <2>2. CASE b # m
    <3>1. b \in 1..n /\ b \in 0..n /\ b - 1 \in 0..n
      BY <2>2
    <3> QED
      BY <1>5, <2>2, <3>1
  <2> QED
    BY <2>1, <2>2
<1>8. ASSUME NEW b \in 1..m PROVE g[b - 1] < g[b] /\ Whole(s, g[b - 1], g[b])
  <2>1. CASE b \in 1..n /\ g[b - 1] = e[b - 1] /\ g[b] = e[b]
    BY <1>1, <2>1 DEF CutAt
  <2>2. CASE b = m /\ g[b - 1] = j /\ g[b] = k
    BY <2>2
  <2> QED
    BY <1>7, <2>1, <2>2
<1>9. ASSUME NEW b \in 1..(m - 1) PROVE Due(s, g[b])
  <2>1. b \in 0..n /\ b \in 1..n /\ b - 1 \in 0..n
    OBVIOUS
  <2>2. g[b] = e[b]
    BY <1>5, <2>1
  <2>3. CASE b = n
    <3>1. e[b - 1] < e[b] /\ e[b - 1] \in 0..j
      BY <1>1, <2>1 DEF CutAt
    <3>2. e[b] = j
      BY <1>3, <2>3
    <3>3. j > 0
      BY <3>1, <3>2
    <3> QED
      BY <2>2, <3>2, <3>3
  <2>4. CASE b # n
    <3>1. b \in 1..(n - 1)
      BY <2>1, <2>4
    <3> QED
      BY <1>1, <2>2, <3>1 DEF CutAt
  <2> QED
    BY <2>3, <2>4
<1>10. more = [b \in 1..m |-> Run(g[b - 1], g[b])]
  <2> DEFINE R == {blocks[b] : b \in 1..n} \cup {Run(j, k)}
             cut == [b \in 1..m |-> Run(g[b - 1], g[b])]
  <2>1. blocks \in [1..n -> R]
    <3>1. DOMAIN blocks = 1..n /\ \A b \in 1..n : blocks[b] \in R
      BY <1>3
    <3>2. blocks = [b \in 1..n |-> blocks[b]]
      BY <1>3
    <3> HIDE DEF R
    <3> QED
      BY <3>1, <3>2
  <2>2. Run(j, k) \in R
    OBVIOUS
  <2> HIDE DEF R
  <2>3. blocks \in Seq(R)
    BY <2>1, SeqDef
  <2>4. Len(blocks) = n
    BY <2>1, <2>3, LenProperties
  <2>5. /\ more \in Seq(R) /\ Len(more) = m
        /\ \A b \in 1..n : more[b] = blocks[b]
        /\ more[m] = Run(j, k)
    BY <2>2, <2>3, <2>4, AppendProperties
  <2>6. ASSUME NEW b \in 1..m PROVE more[b] = Run(g[b - 1], g[b]) /\ more[b] \in R
    <3>1. CASE b \in 1..n /\ g[b - 1] = e[b - 1] /\ g[b] = e[b]
      BY <1>3, <2>1, <2>5, <3>1
    <3>2. CASE b = m /\ g[b - 1] = j /\ g[b] = k
      BY <2>2, <2>5, <3>2
    <3> QED
      BY <1>7, <3>1, <3>2
  <2>7. more = [b \in 1..m |-> more[b]]
    <3>1. more \in [1..m -> R]
      BY <2>5, LenProperties
    <3> HIDE DEF more
    <3> QED
      BY <3>1
  <2> QED
    BY <2>6, <2>7
<1> HIDE DEF more
<1>11. CutAt(s, more, m, g, k)
  BY <1>5, <1>6, <1>8, <1>9, <1>10 DEF CutAt
<1>12. Layout(s, more, k)
  BY <1>2, <1>4, <1>11 DEF Layout
<1> QED
  BY <1>12 DEF more

(* What splitBlocks has when it has met the first k lines: blocks up to a  *)
(* line j, and a block still open.                                         *)
Open(s, j, k) == /\ \A l \in (j + 2)..k : l \notin Leaders(s)
                 /\ \A l \in (j + 1)..k : l \notin Ends(s)
Held(s, st, j, k) == /\ j \in 0..k
                     /\ Layout(s, st.blocks, j) /\ (j > 0 => Due(s, j))
                     /\ st.cur = Run(j, k) /\ Open(s, j, k)
Parts(s, st, k) == \E j \in Nat : Held(s, st, j, k)

LEMMA NoBlocksYet ==
  ASSUME NEW s
  PROVE  Parts(s, [blocks |-> <<>>, cur |-> <<>>], 0)
<1>1. Run(0, 0) = <<>>
  BY RunFacts
<1> DEFINE e == [b \in 0..0 |-> 0]
<1>2. e \in [0..0 -> 0..0] /\ e[0] = 0 /\ 1..0 = {} /\ 1..(0 - 1) = {}
  OBVIOUS
<1>3. <<>> = [b \in 1..0 |-> Run(e[b - 1], e[b])]
  BY <1>2
<1> HIDE DEF e
<1>4. CutAt(s, <<>>, 0, e, 0)
  BY <1>2, <1>3 DEF CutAt
<1>5. Layout(s, <<>>, 0)
  BY <1>2, <1>4 DEF Layout
<1>6. Open(s, 0, 0)
  BY DEF Open
<1> QED
  BY <1>1, <1>5, <1>6 DEF Parts, Held

LEMMA FlushKeeps ==
  ASSUME NEW s, NEW st, NEW j \in Nat, NEW k \in Nat, Held(s, st, j, k), j < k => Whole(s, j, k)
  PROVE  Layout(s, Flush(st).blocks, k) /\ Flush(st).cur = <<>>
<1>1. j <= k /\ st.cur = Run(j, k) /\ Layout(s, st.blocks, j)
  BY DEF Held
<1>2. st.cur = <<>> <=> j = k
  BY <1>1, RunFacts
<1>3. CASE j = k
  BY <1>1, <1>2, <1>3 DEF Flush
<1>4. CASE j # k
  <2>1. Flush(st) = [blocks |-> Append(st.blocks, Run(j, k)), cur |-> <<>>]
    BY <1>1, <1>2, <1>4 DEF Flush
  <2>2. j < k /\ (j > 0 => Due(s, j))
    BY <1>1, <1>4 DEF Held
  <2>3. Layout(s, Append(st.blocks, Run(j, k)), k)
    BY <1>1, <2>2, LayoutGrows
  <2> QED
    BY <2>1, <2>3
<1> QED
  BY <1>3, <1>4

LEMMA GrowKeeps ==
  ASSUME NEW s, NEW st, NEW k \in Nat, k > 0, Parts(s, st, k - 1)
  PROVE  Parts(s, Grow(s, st, k), k)
<1> DEFINE p == k - 1
<1>1. p \in Nat /\ k = p + 1 /\ p < k
  OBVIOUS
<1>2. PICK i0 \in Nat : Held(s, st, i0, p)
  BY DEF Parts
<1> HIDE DEF p
<1> DEFINE led == IF k \in Leaders(s) THEN Flush(st) ELSE st
           grown == [blocks |-> led.blocks, cur |-> Append(led.cur, k)]
<1>3. \E j \in Nat : /\ j <= p /\ Layout(s, led.blocks, j) /\ (j > 0 => Due(s, j))
                     /\ led.cur = Run(j, p) /\ Open(s, j, p) /\ (k \in Leaders(s) => j = p)
  <2>1. CASE k \in Leaders(s)
    <3>1. i0 < p => Whole(s, i0, p)
      BY <1>1, <1>2 DEF Held, Open, Whole
    <3>2. Layout(s, led.blocks, p) /\ led.cur = <<>>
      BY <1>1, <1>2, <2>1, <3>1, FlushKeeps
    <3>3. Due(s, p)
      BY <1>1, <2>1 DEF Due
    <3>4. Run(p, p) = <<>>
      BY <1>1, RunFacts
    <3>5. Open(s, p, p)
      BY <1>1 DEF Open
    <3> QED
      BY <1>1, <3>2, <3>3, <3>4, <3>5
  <2>2. CASE k \notin Leaders(s)
    BY <1>2, <2>2 DEF Held
  <2> QED
    BY <2>1, <2>2
<1> HIDE DEF led
<1>4. PICK j \in Nat : /\ j <= p /\ Layout(s, led.blocks, j) /\ (j > 0 => Due(s, j))
                       /\ led.cur = Run(j, p) /\ Open(s, j, p) /\ (k \in Leaders(s) => j = p)
  BY <1>3
<1>5. j < k /\ j \in 0..k
  BY <1>1, <1>4
<1>6. grown.blocks = led.blocks /\ grown.cur = Run(j, k)
  <2>1. Append(Run(j, k - 1), k) = Run(j, k)
    BY <1>5, RunGrows
  <2> QED
    BY <1>4, <2>1 DEF p
<1>7. Whole(s, j, k)
  <2>1. ASSUME NEW l \in (j + 2)..k PROVE l \notin Leaders(s)
    <3>1. CASE l = k
      BY <1>1, <1>4, <2>1, <3>1
    <3>2. CASE l # k
      <4>1. l \in (j + 2)..p
        BY <1>1, <3>2
      <4> QED
        BY <1>4, <4>1 DEF Open
    <3> QED
      BY <3>1, <3>2
  <2>2. ASSUME NEW l \in (j + 1)..(k - 1) PROVE l \notin Ends(s)
    BY <1>1, <1>4 DEF Open
  <2> QED
    BY <2>1, <2>2 DEF Whole
<1> HIDE DEF grown
<1>8. Grow(s, st, k) = IF k \in Ends(s) THEN Flush(grown) ELSE grown
  BY DEF Grow, grown, led
<1>9. CASE k \in Ends(s)
  <2>1. grown.cur # <<>>
    <3>1. j <= k /\ j # k
      BY <1>5
    <3>2. Run(j, k) # <<>>
      BY <3>1, RunFacts
    <3> QED
      BY <1>6, <3>2
  <2>2. Flush(grown) = [blocks |-> Append(led.blocks, Run(j, k)), cur |-> <<>>]
    BY <1>6, <2>1 DEF Flush
  <2>3. Layout(s, Append(led.blocks, Run(j, k)), k)
    BY <1>4, <1>5, <1>7, LayoutGrows
  <2>4. Run(k, k) = <<>>
    BY RunFacts
  <2>5. Open(s, k, k) /\ Due(s, k)
    BY <1>9 DEF Open, Due
  <2>6. Grow(s, st, k).blocks = Append(led.blocks, Run(j, k)) /\ Grow(s, st, k).cur = Run(k, k)
    BY <1>8, <1>9, <2>2, <2>4
  <2> QED
    BY <2>3, <2>5, <2>6 DEF Parts, Held
<1>10. CASE k \notin Ends(s)
  <2>1. Grow(s, st, k) = grown
    BY <1>8, <1>10
  <2>2. Open(s, j, k)
    <3>1. \A l \in (j + 2)..k : l \notin Leaders(s)
      BY <1>7 DEF Whole
    <3>2. ASSUME NEW l \in (j + 1)..k PROVE l \notin Ends(s)
      <4>1. l = k \/ l \in (j + 1)..p
        BY <1>1
      <4> QED
        BY <1>4, <1>10, <4>1 DEF Open
    <3> QED
      BY <3>1, <3>2 DEF Open
  <2>3. Held(s, grown, j, k)
    BY <1>4, <1>5, <1>6, <2>2 DEF Held
  <2> QED
    BY <2>1, <2>3 DEF Parts
<1> QED
  BY <1>9, <1>10

Cuts == [blocks : Seq(Seq(Nat)), cur : Seq(Nat)]

LEMMA FlushType ==
  ASSUME NEW st \in Cuts
  PROVE  Flush(st) \in Cuts
<1>1. st.blocks \in Seq(Seq(Nat)) /\ st.cur \in Seq(Nat) /\ <<>> \in Seq(Nat)
  BY EmptySeq DEF Cuts
<1>2. Append(st.blocks, st.cur) \in Seq(Seq(Nat))
  BY <1>1, AppendProperties
<1> QED
  BY <1>1, <1>2 DEF Flush, Cuts

LEMMA GrowType ==
  ASSUME NEW s, NEW st \in Cuts, NEW k \in Nat
  PROVE  Grow(s, st, k) \in Cuts
<1> DEFINE led == IF k \in Leaders(s) THEN Flush(st) ELSE st
           grown == [blocks |-> led.blocks, cur |-> Append(led.cur, k)]
<1>1. led \in Cuts
  BY FlushType
<1> HIDE DEF led
<1>2. led.blocks \in Seq(Seq(Nat)) /\ led.cur \in Seq(Nat)
  BY <1>1 DEF Cuts
<1>3. Append(led.cur, k) \in Seq(Nat)
  BY <1>2, AppendProperties
<1>4. grown \in Cuts
  BY <1>2, <1>3 DEF Cuts
<1> HIDE DEF grown
<1>5. Grow(s, st, k) = IF k \in Ends(s) THEN Flush(grown) ELSE grown
  BY DEF Grow, grown, led
<1> QED
  BY <1>4, <1>5, FlushType

(* The blocks of every function lie end to end, each one basic.            *)
LEMMA SplitIsLaid ==
  ASSUME NEW s \in Seq(Instruction)
  PROVE  Layout(s, SplitBlocks(s), Len(s))
<1> DEFINE D == 0..Len(s)
           start == [blocks |-> <<>>, cur |-> <<>>]
           Body(f, k) == IF k = 0 THEN start ELSE Grow(s, f[k - 1], k)
           t == CHOOSE f : f = [k \in D |-> Body(f, k)]
           F == [k \in 1..Len(s) |-> [x \in Cuts |-> Grow(s, x, k)]]
<1>1. SplitBlocks(s) = Flush(t[Len(s)]).blocks
  BY DEF SplitBlocks
<1>2. Len(s) \in Nat
  BY LenProperties
<1>3. start \in Cuts
  BY EmptySeq DEF Cuts
<1>4. ASSUME NEW k \in 1..Len(s), NEW x \in Cuts PROVE F[k][x] = Grow(s, x, k) /\ F[k][x] \in Cuts
  <2>1. k \in Nat
    BY <1>2
  <2> QED
    BY <2>1, GrowType
<1> HIDE DEF F, start
<1>5. PICK f \in [D -> Cuts] : f[0] = start /\ \A k \in 1..Len(s) : f[k] = F[k][f[k - 1]]
  <2>1. Within(F, Len(s), Cuts)
    BY <1>4 DEF Within
  <2>2. \E f \in [0..Len(s) -> Cuts] : Passes(f, start, Len(s), F)
    BY <1>2, <1>3, <2>1, Recursion
  <2> QED
    BY <2>2 DEF Passes
<1>6. ASSUME NEW k \in D PROVE f[k] = Body(f, k)
  <2>1. CASE k = 0
    BY <1>5, <2>1
  <2>2. CASE k # 0
    <3>1. k \in 1..Len(s) /\ k - 1 \in D
      BY <1>2, <2>2
    <3>2. f[k - 1] \in Cuts
      BY <3>1
    <3> QED
      BY <1>4, <1>5, <2>2, <3>1, <3>2
  <2> QED
    BY <2>1, <2>2
<1>7. f = [k \in D |-> Body(f, k)]
  <2>1. f = [k \in D |-> f[k]]
    OBVIOUS
  <2> HIDE DEF Body, D
  <2> QED
    BY <1>6, <2>1
<1>8. t = [k \in D |-> Body(t, k)]
  <2> HIDE DEF Body, D
  <2> QED
    BY <1>7
<1> HIDE DEF t
<1>9. ASSUME NEW k \in D PROVE t[k] = Body(t, k)
  <2> HIDE DEF Body, D
  <2> QED
    BY <1>8
<1> DEFINE Bad == {k \in D : ~Parts(s, t[k], k)}
<1>10. Bad = {}
  <2> SUFFICES ASSUME Bad # {} PROVE FALSE
    OBVIOUS
  <2>1. Bad \in SUBSET Nat
    BY <1>2
  <2>2. PICK k \in Bad : \A q \in Bad : k <= q
    <3> HIDE DEF Bad
    <3> QED
      BY <2>1, LeastElement
  <2>3. k \in D /\ k \in Nat /\ ~Parts(s, t[k], k) /\ k \in Bad
    BY <2>1
  <2>4. CASE k = 0
    BY <1>9, <2>3, <2>4, NoBlocksYet DEF start
  <2>5. CASE k # 0
    <3>1. k - 1 \in D /\ ~(k <= k - 1) /\ k > 0
      BY <1>2, <2>3, <2>5
    <3>2. Parts(s, t[k - 1], k - 1)
      BY <2>2, <3>1
    <3>3. t[k] = Grow(s, t[k - 1], k)
      BY <1>9, <2>3, <2>5
    <3>4. Parts(s, Grow(s, t[k - 1], k), k)
      BY <2>3, <3>1, <3>2, GrowKeeps
    <3> QED
      BY <2>3, <3>3, <3>4
  <2> QED
    BY <2>4, <2>5
<1>11. Parts(s, t[Len(s)], Len(s))
  <2>1. Len(s) \in D
    BY <1>2
  <2> QED
    BY <1>10, <2>1
<1>12. PICK j \in Nat : Held(s, t[Len(s)], j, Len(s))
  BY <1>11 DEF Parts
<1>13. Whole(s, j, Len(s))
  BY <1>2, <1>12 DEF Held, Open, Whole
<1>14. Layout(s, Flush(t[Len(s)]).blocks, Len(s))
  BY <1>2, <1>12, <1>13, FlushKeeps
<1> QED
  BY <1>1, <1>14

(* The cuts ascend.                                                        *)
LEMMA CutsAscend ==
  ASSUME NEW s, NEW blocks, NEW n \in Nat, NEW k \in Nat, NEW e \in [0..n -> 0..k], CutAt(s, blocks, n, e, k)
  PROVE  \A b, c \in 0..n : b < c => e[b] < e[c]
<1>1. \A b \in 1..n : e[b - 1] < e[b]
  BY DEF CutAt
<1>2. \A b \in 0..n : e[b] \in Nat
  <2> SUFFICES ASSUME NEW b \in 0..n PROVE e[b] \in Nat
    OBVIOUS
  <2>1. e[b] \in 0..k
    OBVIOUS
  <2> QED
    BY <2>1
<1> SUFFICES ASSUME NEW b \in 0..n PROVE \A c \in 0..n : b < c => e[b] < e[c]
  OBVIOUS
<1> DEFINE Bad == {c \in 0..n : b < c /\ ~(e[b] < e[c])}
<1>3. Bad = {}
  <2> SUFFICES ASSUME Bad # {} PROVE FALSE
    OBVIOUS
  <2>1. Bad \in SUBSET Nat
    OBVIOUS
  <2>2. PICK c \in Bad : \A q \in Bad : c <= q
    <3> HIDE DEF Bad
    <3> QED
      BY <2>1, LeastElement
  <2> DEFINE q == c - 1
  <2>3. c \in 0..n /\ b < c /\ ~(e[b] < e[c])
    OBVIOUS
  <2>4. q \in 0..n /\ c \in 1..n /\ q = c - 1 /\ ~(c <= q) /\ (q = b \/ b < q)
    BY <2>3
  <2> HIDE DEF q
  <2>5. q \notin Bad
    <3> HIDE DEF Bad
    <3> QED
      BY <2>2, <2>4
  <2>6. q = b \/ e[b] < e[q]
    BY <2>4, <2>5
  <2>7. e[q] < e[c]
    BY <1>1, <2>4
  <2>8. e[b] \in Nat /\ e[q] \in Nat /\ e[c] \in Nat
    BY <1>2, <2>3, <2>4
  <2> QED
    BY <2>3, <2>6, <2>7, <2>8
<1> QED
  BY <1>3

(* What the cuts say of a single block.                                    *)
LiesAt(s, c, lo, hi, l) ==
  /\ lo \in Nat /\ hi \in Nat /\ lo < hi /\ hi <= l
  /\ c \in Seq((lo + 1)..hi) /\ Len(c) = hi - lo /\ DOMAIN c = 1..(hi - lo)
  /\ \A k \in 1..(hi - lo) : c[k] = lo + k
  /\ \A x : x \in Range(c) <=> x \in (lo + 1)..hi
  /\ Whole(s, lo, hi)

LEMMA BlockIsRun ==
  ASSUME NEW s, NEW blocks, NEW n \in Nat, NEW l \in Nat, NEW e \in [0..n -> 0..l],
         CutAt(s, blocks, n, e, l), NEW b \in 1..n
  PROVE  LiesAt(s, blocks[b], e[b - 1], e[b], l) /\ (b < n => Due(s, e[b]))
<1>1. b - 1 \in 0..n /\ b \in 0..n /\ (b < n => b \in 1..(n - 1))
  OBVIOUS
<1>2. e[b - 1] \in 0..l /\ e[b] \in 0..l
  BY <1>1
<1>3. e[b - 1] < e[b] /\ Whole(s, e[b - 1], e[b]) /\ blocks[b] = Run(e[b - 1], e[b])
  BY DEF CutAt
<1>4. b < n => Due(s, e[b])
  BY <1>1 DEF CutAt
<1> DEFINE lo == e[b - 1]
           hi == e[b]
<1>5. lo \in Nat /\ hi \in Nat /\ lo <= hi /\ lo < hi /\ hi <= l
  BY <1>2, <1>3
<1>6. Whole(s, lo, hi) /\ blocks[b] = Run(lo, hi)
  BY <1>3
<1> HIDE DEF lo, hi
<1>7. /\ Run(lo, hi) \in Seq((lo + 1)..hi) /\ Len(Run(lo, hi)) = hi - lo
      /\ DOMAIN Run(lo, hi) = 1..(hi - lo)
      /\ \A k \in 1..(hi - lo) : Run(lo, hi)[k] = lo + k
      /\ \A x : x \in Range(Run(lo, hi)) <=> x \in (lo + 1)..hi
  BY <1>5, RunFacts
<1>8. LiesAt(s, Run(lo, hi), lo, hi, l)
  BY <1>5, <1>6, <1>7 DEF LiesAt
<1> QED
  BY <1>4, <1>6, <1>8 DEF lo, hi

Entered(s, c) == \A k \in 2..Len(c) : \A j \in DOMAIN s : s[j].target # c[k]
Straight(s, c) == \A k \in 1..(Len(c) - 1) : Successors(s, c[k]) = {c[k] + 1}

LEMMA RunIsBasic ==
  ASSUME NEW s, NEW c, NEW lo, NEW hi, NEW l \in Nat, LiesAt(s, c, lo, hi, l), DOMAIN s = 1..l
  PROVE  /\ c \in Seq(DOMAIN s) \ {<<>>} /\ c[1] \in Range(c) /\ Last(c) = hi
         /\ \A j, k \in DOMAIN c : j < k => c[j] < c[k]
         /\ \A k \in DOMAIN c : c[k] = lo + k
         /\ Entered(s, c) /\ Straight(s, c)
<1>1. lo \in Nat /\ hi \in Nat /\ lo < hi /\ hi <= l
  BY DEF LiesAt
<1>2. c \in Seq((lo + 1)..hi) /\ Len(c) = hi - lo /\ DOMAIN c = 1..(hi - lo)
  BY DEF LiesAt
<1>3. \A k \in 1..(hi - lo) : c[k] = lo + k
  BY DEF LiesAt
<1>4. (lo + 1)..hi \subseteq 1..l
  BY <1>1
<1>5. c \in Seq(DOMAIN s)
  BY <1>2, <1>4, SeqMonotonic
<1>6. 1 \in DOMAIN c
  BY <1>1, <1>2
<1>7. c # <<>>
  BY <1>6
<1>8. c[1] \in Range(c)
  BY <1>6 DEF Range
<1>9. Last(c) = hi
  <2>1. hi - lo \in 1..(hi - lo) /\ lo + (hi - lo) = hi
    BY <1>1
  <2> QED
    BY <1>2, <1>3, <2>1 DEF Last
<1>10. \A j, k \in DOMAIN c : j < k => c[j] < c[k]
  BY <1>1, <1>2, <1>3
<1>11. ASSUME NEW k \in 2..Len(c), NEW j \in DOMAIN s PROVE s[j].target # c[k]
  <2>1. k \in 1..(hi - lo) /\ lo + k \in (lo + 2)..hi /\ lo + k # 0
    BY <1>1, <1>2
  <2>2. lo + k \notin Leaders(s)
    BY <2>1 DEF LiesAt, Whole
  <2> QED
    BY <1>3, <2>1, <2>2 DEF Leaders
<1>12. ASSUME NEW k \in 1..(Len(c) - 1) PROVE Successors(s, c[k]) = {c[k] + 1}
  <2>1. k \in 1..(hi - lo) /\ lo + k \in (lo + 1)..(hi - 1) /\ lo + k \in DOMAIN s
    BY <1>1, <1>2
  <2>2. lo + k \notin Ends(s)
    BY <2>1 DEF LiesAt, Whole
  <2> QED
    BY <1>3, <2>1, <2>2 DEF Ends, Successors
<1> QED
  BY <1>2, <1>3, <1>5, <1>7, <1>8, <1>9, <1>10, <1>11, <1>12 DEF Entered, Straight

LEMMA LaidSize ==
  ASSUME NEW s, NEW blocks, NEW n \in Nat, NEW l \in Nat, NEW e \in [0..n -> 0..l],
         CutAt(s, blocks, n, e, l)
  PROVE  /\ DOMAIN blocks = 1..n
         /\ \A S : (\A b \in 1..n : blocks[b] \in S) => blocks \in Seq(S) /\ Len(blocks) = n
<1>1. blocks = [b \in 1..n |-> Run(e[b - 1], e[b])]
  BY DEF CutAt
<1>2. ASSUME NEW S, \A b \in 1..n : blocks[b] \in S PROVE blocks \in Seq(S) /\ Len(blocks) = n
  <2>1. blocks \in [1..n -> S]
    BY <1>1, <1>2
  <2>2. blocks \in Seq(S)
    BY <2>1, SeqDef
  <2> QED
    BY <2>1, <2>2, LenProperties
<1> QED
  BY <1>1, <1>2

(* Blocks that do not overlap, each in order and all of them in order.     *)
Apart(blocks) ==
  /\ \A b, c \in DOMAIN blocks : b < c => \A x \in Range(blocks[b]), y \in Range(blocks[c]) : x < y
  /\ \A b \in DOMAIN blocks : \A j, k \in DOMAIN blocks[b] : j < k => blocks[b][j] < blocks[b][k]
EndToEnd(s, blocks) ==
  /\ blocks \in Seq(Seq(DOMAIN s)) /\ DOMAIN blocks = 1..Len(blocks) /\ Len(blocks) \in Nat
  /\ \A b \in DOMAIN blocks : blocks[b] \in Seq(DOMAIN s) \ {<<>>} /\ blocks[b][1] \in Range(blocks[b])
  /\ Apart(blocks)

LEMMA LaidApart ==
  ASSUME NEW s \in Seq(Instruction), NEW blocks, Layout(s, blocks, Len(s))
  PROVE  EndToEnd(s, blocks)
<1> DEFINE l == Len(s)
<1>1. l \in Nat /\ DOMAIN s = 1..l
  BY LenProperties
<1> HIDE DEF l
<1>2. PICK n \in Nat : \E e \in [0..n -> 0..l] : CutAt(s, blocks, n, e, l)
  BY DEF Layout, l
<1>3. PICK e \in [0..n -> 0..l] : CutAt(s, blocks, n, e, l)
  BY <1>2
<1>4. ASSUME NEW b \in 1..n PROVE LiesAt(s, blocks[b], e[b - 1], e[b], l)
  BY <1>1, <1>3, BlockIsRun
<1>5. ASSUME NEW b \in 1..n PROVE blocks[b] \in Seq(DOMAIN s) \ {<<>>} /\ blocks[b][1] \in Range(blocks[b])
  BY <1>1, <1>4, RunIsBasic
<1>6. DOMAIN blocks = 1..n /\ blocks \in Seq(Seq(DOMAIN s)) /\ Len(blocks) = n
  <2>1. \A b \in 1..n : blocks[b] \in Seq(DOMAIN s)
    BY <1>5
  <2>2. /\ DOMAIN blocks = 1..n
        /\ \A S : (\A b \in 1..n : blocks[b] \in S) => blocks \in Seq(S) /\ Len(blocks) = n
    BY <1>1, <1>3, LaidSize
  <2> QED
    BY <2>1, <2>2
<1>7. ASSUME NEW b \in 1..n, NEW c \in 1..n, b < c, NEW x \in Range(blocks[b]), NEW y \in Range(blocks[c])
      PROVE  x < y
  <2> DEFINE p == c - 1
  <2>1. p \in 0..n /\ b \in 0..n /\ (b = p \/ b < p) /\ p = c - 1
    BY <1>7
  <2> HIDE DEF p
  <2>2. \A q, r \in 0..n : q < r => e[q] < e[r]
    BY <1>1, <1>3, CutsAscend
  <2>3. x \in (e[b - 1] + 1)..e[b] /\ y \in (e[c - 1] + 1)..e[c]
    BY <1>4 DEF LiesAt
  <2>4. e[b] = e[p] \/ e[b] < e[p]
    BY <2>1, <2>2
  <2>5. e[b] \in Nat /\ e[p] \in Nat /\ e[b - 1] \in Nat /\ e[c] \in Nat /\ e[c - 1] = e[p]
    BY <1>4, <2>1 DEF LiesAt
  <2>6. x \in Nat /\ x <= e[b] /\ y \in Nat /\ e[p] < y
    BY <2>3, <2>5
  <2> QED
    BY <2>4, <2>5, <2>6
<1>8. ASSUME NEW b \in 1..n, NEW j \in DOMAIN blocks[b], NEW k \in DOMAIN blocks[b], j < k
      PROVE  blocks[b][j] < blocks[b][k]
  BY <1>1, <1>4, <1>8, RunIsBasic
<1>9. Apart(blocks)
  BY <1>6, <1>7, <1>8 DEF Apart
<1> QED
  BY <1>5, <1>6, <1>9 DEF EndToEnd

LEMMA LaidBasic ==
  ASSUME NEW s \in Seq(Instruction), NEW blocks, Layout(s, blocks, Len(s))
  PROVE  Basic(s, blocks)
<1> DEFINE l == Len(s)
<1>1. l \in Nat /\ DOMAIN s = 1..l /\ (s = <<>> <=> l = 0)
  <2>1. l \in Nat /\ DOMAIN s = 1..l
    BY LenProperties
  <2>2. s # <<>> => l \in Nat \ {0}
    BY EmptySeq
  <2> QED
    BY <2>1, <2>2, EmptySeq
<1> HIDE DEF l
<1>2. PICK n \in Nat : \E e \in [0..n -> 0..l] : CutAt(s, blocks, n, e, l)
  BY DEF Layout, l
<1>3. PICK e \in [0..n -> 0..l] : CutAt(s, blocks, n, e, l)
  BY <1>2
<1>4. ASSUME NEW b \in 1..n
      PROVE  /\ LiesAt(s, blocks[b], e[b - 1], e[b], l) /\ (b < n => Due(s, e[b]))
             /\ e[b - 1] \in Nat /\ e[b] \in Nat /\ e[b - 1] < e[b]
  <2>1. LiesAt(s, blocks[b], e[b - 1], e[b], l) /\ (b < n => Due(s, e[b]))
    BY <1>1, <1>3, BlockIsRun
  <2> QED
    BY <2>1 DEF LiesAt
<1>5. e[0] = 0 /\ e[n] = l
  BY <1>3 DEF CutAt
<1>6. EndToEnd(s, blocks)
  BY LaidApart DEF l
<1>7. DOMAIN blocks = 1..n /\ Len(blocks) = n
  <2>1. DOMAIN blocks = 1..n
    BY <1>3, <1>1, LaidSize
  <2>2. DOMAIN blocks = 1..Len(blocks) /\ Len(blocks) \in Nat
    BY <1>6 DEF EndToEnd
  <2> QED
    BY <2>1, <2>2
<1>8. blocks = <<>> <=> n = 0
  <2>1. blocks \in Seq(Seq(DOMAIN s))
    BY <1>6 DEF EndToEnd
  <2> QED
    BY <1>7, <2>1, EmptySeq
<1>9. n = 0 <=> l = 0
  <2>1. n = 0 => l = 0
    BY <1>5
  <2>2. n # 0 => n \in 1..n
    OBVIOUS
  <2> QED
    BY <1>4, <1>5, <2>1, <2>2
<1>10. ASSUME NEW b \in 1..n
       PROVE  /\ Last(blocks[b]) = e[b] /\ \A k \in DOMAIN blocks[b] : blocks[b][k] = e[b - 1] + k
              /\ Entered(s, blocks[b]) /\ Straight(s, blocks[b])
  BY <1>1, <1>4, RunIsBasic
<1>11. s # <<>> => Last(Last(blocks)) = Len(s)
  <2> SUFFICES ASSUME s # <<>> PROVE Last(Last(blocks)) = l
    BY DEF l
  <2>1. n \in 1..n
    BY <1>1, <1>9
  <2> QED
    BY <1>5, <1>7, <1>10, <2>1 DEF Last
<1>12. ASSUME NEW b \in 1..n PROVE (IF b = 1 THEN 0 ELSE Last(blocks[b - 1])) = e[b - 1]
  <2>1. b # 1 => b - 1 \in 1..n
    OBVIOUS
  <2>2. b = 1 => b - 1 = 0
    OBVIOUS
  <2> QED
    BY <1>5, <1>10, <2>1, <2>2
<1>13. ASSUME NEW b \in 1..n, b < n
       PROVE  \/ Successors(s, Last(blocks[b])) # {Last(blocks[b]) + 1}
              \/ \E j \in DOMAIN s : s[j].target = Last(blocks[b]) + 1
  <2>1. Due(s, e[b]) /\ e[b] \in Nat /\ e[b] # 0
    BY <1>4, <1>13
  <2>2. CASE e[b] \in Ends(s)
    <3>1. CASE s[e[b]].target # 0
      <4>1. CASE s[e[b]].target = e[b] + 1
        BY <1>10, <2>2, <4>1 DEF Ends
      <4>2. CASE s[e[b]].target # e[b] + 1
        <5>1. s[e[b]].target \in Successors(s, e[b])
          BY <3>1 DEF Successors
        <5>2. s[e[b]].target \notin {e[b] + 1}
          BY <4>2
        <5>3. Successors(s, e[b]) # {e[b] + 1}
          BY <5>1, <5>2
        <5> QED
          BY <1>10, <5>3
      <4> QED
        BY <4>1, <4>2
    <3>2. CASE s[e[b]].target = 0
      <4>1. s[e[b]].text \in Unconditional
        BY <2>2, <3>2 DEF Ends
      <4> QED
        BY <1>10, <3>2, <4>1 DEF Successors
    <3> QED
      BY <3>1, <3>2
  <2>3. CASE e[b] + 1 \in Leaders(s)
    <3>1. e[b] + 1 # 1
      BY <2>1
    <3> QED
      BY <1>10, <2>3, <3>1 DEF Leaders
  <2> QED
    BY <2>1, <2>2, <2>3 DEF Due
<1>14. ASSUME NEW b \in DOMAIN blocks
       PROVE  LET c == blocks[b]
                  before == IF b = 1 THEN 0 ELSE Last(blocks[b - 1])
              IN  /\ \A k \in DOMAIN c : c[k] = before + k
                  /\ \A k \in 2..Len(c) : \A j \in DOMAIN s : s[j].target # c[k]
                  /\ \A k \in 1..(Len(c) - 1) : Successors(s, c[k]) = {c[k] + 1}
                  /\ b < Len(blocks) => \/ Successors(s, Last(c)) # {Last(c) + 1}
                                        \/ \E j \in DOMAIN s : s[j].target = Last(c) + 1
  <2>1. b \in 1..n
    BY <1>7
  <2>2. \A k \in DOMAIN blocks[b] : blocks[b][k] = (IF b = 1 THEN 0 ELSE Last(blocks[b - 1])) + k
    BY <1>10, <1>12, <2>1
  <2> QED
    BY <1>7, <1>10, <1>13, <2>1, <2>2 DEF Entered, Straight
<1>15. (blocks = <<>>) = (s = <<>>)
  BY <1>1, <1>8, <1>9
<1> QED
  BY <1>11, <1>14, <1>15 DEF Basic

-----------------------------------------------------------------------------
(* Appending later numbers to earlier ones.                                *)
LEMMA ConcatRises ==
  ASSUME NEW S \in SUBSET Nat, NEW x \in Seq(S), NEW c \in Seq(S), Rises(x), Rises(c),
         \A p \in Range(x), q \in Range(c) : p < q
  PROVE  /\ x \o c \in Seq(S) /\ Rises(x \o c)
         /\ \A y : y \in Range(x \o c) <=> y \in Range(x) \/ y \in Range(c)
<1> DEFINE m == Len(x)
           n == Len(c)
           r == x \o c
<1>1. m \in Nat /\ n \in Nat /\ DOMAIN x = 1..m /\ DOMAIN c = 1..n
  BY LenProperties
<1>2. /\ r \in Seq(S) /\ Len(r) = m + n
      /\ \A k \in 1..(m + n) : r[k] = IF k <= m THEN x[k] ELSE c[k - m]
  BY ConcatProperties
<1>3. DOMAIN r = 1..(m + n)
  BY <1>2, LenProperties
<1> HIDE DEF m, n, r
<1>4. ASSUME NEW k \in 1..(m + n)
      PROVE  \/ k \in 1..m /\ k <= m /\ r[k] = x[k] /\ r[k] \in Range(x) /\ r[k] \in S
             \/ k - m \in 1..n /\ k > m /\ r[k] = c[k - m] /\ r[k] \in Range(c) /\ r[k] \in S
  <2>1. CASE k <= m
    <3>1. k \in 1..m /\ r[k] = x[k]
      BY <1>1, <1>2, <2>1
    <3>2. x[k] \in S /\ x[k] \in Range(x)
      BY <1>1, <3>1, ElementOfSeq DEF Range, m
    <3> QED
      BY <2>1, <3>1, <3>2
  <2>2. CASE ~(k <= m)
    <3>1. k - m \in 1..n /\ k > m /\ r[k] = c[k - m]
      BY <1>1, <1>2, <2>2
    <3>2. c[k - m] \in S /\ c[k - m] \in Range(c)
      BY <1>1, <3>1, ElementOfSeq DEF Range, n
    <3> QED
      BY <3>1, <3>2
  <2> QED
    BY <2>1, <2>2
<1>5. ASSUME NEW j \in 1..(m + n), NEW k \in 1..(m + n), j < k PROVE r[j] < r[k]
  <2>1. CASE k \in 1..m /\ r[k] = x[k]
    <3>1. j \in 1..m /\ ~(j > m)
      BY <1>1, <1>5, <2>1
    <3>2. r[j] = x[j]
      BY <1>4, <3>1
    <3> QED
      BY <1>1, <1>5, <2>1, <3>1, <3>2 DEF Rises
  <2>2. CASE k - m \in 1..n /\ r[k] = c[k - m] /\ r[k] \in Range(c)
    <3>1. CASE j \in 1..m /\ r[j] \in Range(x)
      BY <2>2, <3>1
    <3>2. CASE j - m \in 1..n /\ r[j] = c[j - m]
      <4>1. j - m < k - m
        BY <1>1, <1>5
      <4> QED
        BY <1>1, <2>2, <3>2, <4>1 DEF Rises
    <3> QED
      BY <1>4, <3>1, <3>2
  <2> QED
    BY <1>4, <2>1, <2>2
<1>6. ASSUME NEW y PROVE y \in Range(r) <=> y \in Range(x) \/ y \in Range(c)
  <2>1. y \in Range(r) <=> \E k \in 1..(m + n) : r[k] = y
    BY <1>3 DEF Range
  <2>2. ASSUME NEW k \in 1..(m + n), r[k] = y PROVE y \in Range(x) \/ y \in Range(c)
    BY <1>4, <2>2
  <2>3. ASSUME y \in Range(x) PROVE \E k \in 1..(m + n) : r[k] = y
    <3>1. PICK k \in 1..m : x[k] = y
      BY <1>1, <2>3 DEF Range
    <3>2. k \in 1..(m + n) /\ k <= m
      BY <1>1
    <3> QED
      BY <1>2, <3>1, <3>2
  <2>4. ASSUME y \in Range(c) PROVE \E k \in 1..(m + n) : r[k] = y
    <3>1. PICK k \in 1..n : c[k] = y
      BY <1>1, <2>4 DEF Range
    <3> DEFINE q == m + k
    <3>2. q \in 1..(m + n) /\ ~(q <= m) /\ q - m = k
      BY <1>1
    <3> HIDE DEF q
    <3>3. r[q] = c[k]
      BY <1>2, <3>2
    <3> QED
      BY <3>1, <3>2, <3>3
  <2> QED
    BY <2>1, <2>2, <2>3, <2>4
<1>7. Rises(r)
  BY <1>3, <1>5 DEF Rises
<1> QED
  BY <1>2, <1>6, <1>7 DEF r

(* What leftover lists after the first m blocks.                           *)
RestOf(blocks, taken, m, x) ==
  /\ Rises(x)
  /\ \A y : y \in Range(x) <=> \E b \in (1..m) \ taken : y \in Range(blocks[b])

LEMMA RestStep ==
  ASSUME NEW S \in SUBSET Nat, NEW blocks \in Seq(Seq(S)), Apart(blocks), NEW taken,
         NEW k \in 1..Len(blocks), NEW x \in Seq(S), RestOf(blocks, taken, k - 1, x)
  PROVE  RestOf(blocks, taken, k, IF k \in taken THEN x ELSE x \o blocks[k])
<1>1. Len(blocks) \in Nat /\ DOMAIN blocks = 1..Len(blocks) /\ k \in Nat
  BY LenProperties
<1>2. ASSUME NEW b PROVE b \in (1..k) \ taken <=> b \in (1..(k - 1)) \ taken \/ (b = k /\ k \notin taken)
  BY <1>1
<1>3. Rises(x) /\ \A y : y \in Range(x) <=> \E b \in (1..(k - 1)) \ taken : y \in Range(blocks[b])
  BY DEF RestOf
<1>4. CASE k \in taken
  <2>1. \A y : y \in Range(x) <=> \E b \in (1..k) \ taken : y \in Range(blocks[b])
    BY <1>2, <1>3, <1>4
  <2> QED
    BY <1>3, <1>4, <2>1 DEF RestOf
<1>5. CASE k \notin taken
  <2> DEFINE c == blocks[k]
  <2>1. c \in Seq(S)
    BY ElementOfSeq
  <2>2. Rises(c)
    BY <1>1 DEF Apart, Rises
  <2>3. ASSUME NEW p \in Range(x), NEW q \in Range(c) PROVE p < q
    <3>1. PICK b \in (1..(k - 1)) \ taken : p \in Range(blocks[b])
      BY <1>3
    <3>2. b \in DOMAIN blocks /\ k \in DOMAIN blocks /\ b < k
      BY <1>1
    <3> QED
      BY <3>1, <3>2 DEF Apart
  <2> HIDE DEF c
  <2>4. /\ Rises(x \o c)
        /\ \A y : y \in Range(x \o c) <=> y \in Range(x) \/ y \in Range(c)
    BY <1>3, <2>1, <2>2, <2>3, ConcatRises
  <2>5. \A y : y \in Range(x \o c) <=> \E b \in (1..k) \ taken : y \in Range(blocks[b])
    BY <1>2, <1>3, <1>5, <2>4 DEF c
  <2> QED
    BY <1>5, <2>4, <2>5 DEF RestOf, c
<1> QED
  BY <1>4, <1>5

LEMMA LeftoverIsRest ==
  ASSUME NEW S \in SUBSET Nat, NEW blocks \in Seq(Seq(S)), Apart(blocks), NEW taken
  PROVE  Leftover(blocks, taken) \in Seq(S) /\ RestOf(blocks, taken, Len(blocks), Leftover(blocks, taken))
<1> DEFINE n == Len(blocks)
           D == 0..n
           Body(f, k) == IF k = 0 THEN <<>> ELSE IF k \in taken THEN f[k - 1] ELSE f[k - 1] \o blocks[k]
           t == CHOOSE f : f = [k \in D |-> Body(f, k)]
           F == [k \in 1..n |-> [x \in Seq(S) |-> IF k \in taken THEN x ELSE x \o blocks[k]]]
<1>1. Leftover(blocks, taken) = t[n]
  BY DEF Leftover
<1>2. n \in Nat
  BY LenProperties
<1>3. <<>> \in Seq(S)
  BY EmptySeq
<1>4. ASSUME NEW k \in 1..n, NEW x \in Seq(S)
      PROVE  F[k][x] = (IF k \in taken THEN x ELSE x \o blocks[k]) /\ F[k][x] \in Seq(S)
  <2>1. blocks[k] \in Seq(S)
    BY ElementOfSeq
  <2>2. x \o blocks[k] \in Seq(S)
    BY <2>1, ConcatProperties
  <2> QED
    BY <2>2
<1> HIDE DEF F, n
<1>5. PICK f \in [D -> Seq(S)] : f[0] = <<>> /\ \A k \in 1..n : f[k] = F[k][f[k - 1]]
  <2>1. Within(F, n, Seq(S))
    BY <1>4 DEF Within
  <2>2. \E f \in [0..n -> Seq(S)] : Passes(f, <<>>, n, F)
    BY <1>2, <1>3, <2>1, Recursion
  <2> QED
    BY <2>2 DEF Passes
<1>6. ASSUME NEW k \in D PROVE f[k] = Body(f, k)
  <2>1. CASE k = 0
    BY <1>5, <2>1
  <2>2. CASE k # 0
    <3>1. k \in 1..n /\ k - 1 \in D
      BY <1>2, <2>2
    <3>2. f[k - 1] \in Seq(S)
      BY <3>1
    <3> QED
      BY <1>4, <1>5, <2>2, <3>1, <3>2
  <2> QED
    BY <2>1, <2>2
<1>7. f = [k \in D |-> Body(f, k)]
  <2>1. f = [k \in D |-> f[k]]
    OBVIOUS
  <2> HIDE DEF Body, D
  <2> QED
    BY <1>6, <2>1
<1>8. t = [k \in D |-> Body(t, k)]
  <2> HIDE DEF Body, D
  <2> QED
    BY <1>7
<1> HIDE DEF t
<1>9. ASSUME NEW k \in D PROVE t[k] = Body(t, k)
  <2> HIDE DEF Body, D
  <2> QED
    BY <1>8
<1> DEFINE Bad == {k \in D : ~(t[k] \in Seq(S) /\ RestOf(blocks, taken, k, t[k]))}
<1>10. Bad = {}
  <2> SUFFICES ASSUME Bad # {} PROVE FALSE
    OBVIOUS
  <2>1. Bad \in SUBSET Nat
    BY <1>2
  <2>2. PICK k \in Bad : \A q \in Bad : k <= q
    <3> HIDE DEF Bad
    <3> QED
      BY <2>1, LeastElement
  <2>3. k \in D /\ k \in Nat /\ ~(t[k] \in Seq(S) /\ RestOf(blocks, taken, k, t[k]))
    BY <2>1
  <2>4. CASE k = 0
    <3>1. t[k] = <<>>
      BY <1>9, <2>3, <2>4
    <3>2. DOMAIN <<>> = {} /\ (1..k) \ taken = {}
      BY <2>4
    <3>3. RestOf(blocks, taken, k, <<>>)
      BY <3>2 DEF RestOf, Rises, Range
    <3> QED
      BY <1>3, <2>3, <3>1, <3>3
  <2>5. CASE k # 0
    <3>1. k - 1 \in D /\ ~(k <= k - 1) /\ k \in 1..n
      BY <1>2, <2>3, <2>5
    <3>2. t[k - 1] \in Seq(S) /\ RestOf(blocks, taken, k - 1, t[k - 1])
      BY <2>2, <3>1
    <3>3. t[k] = IF k \in taken THEN t[k - 1] ELSE t[k - 1] \o blocks[k]
      BY <1>9, <2>3, <2>5
    <3>4. RestOf(blocks, taken, k, t[k])
      <4> DEFINE x == t[k - 1]
      <4>1. k \in 1..Len(blocks) /\ x \in Seq(S) /\ RestOf(blocks, taken, k - 1, x)
        BY <3>1, <3>2 DEF n
      <4> HIDE DEF x
      <4>2. RestOf(blocks, taken, k, IF k \in taken THEN x ELSE x \o blocks[k])
        BY <4>1, RestStep
      <4> QED
        BY <3>3, <4>2 DEF x
    <3>5. t[k] \in Seq(S)
      <4>1. F[k][t[k - 1]] \in Seq(S)
        BY <1>4, <3>1, <3>2
      <4> QED
        BY <1>4, <3>1, <3>2, <3>3, <4>1
    <3> QED
      BY <2>3, <3>4, <3>5
  <2> QED
    BY <2>4, <2>5
<1>11. n \in D
  BY <1>2
<1>12. t[n] \in Seq(S) /\ RestOf(blocks, taken, n, t[n])
  BY <1>10, <1>11
<1> QED
  BY <1>1, <1>12 DEF n

-----------------------------------------------------------------------------
(* What the matching loop keeps: a new block has an equal old one that no  *)
(* other new block has, or none, and then no equal old one is free.        *)
MatchingOf(m, o, ob, n, nb) ==
  /\ m \in Seq(0..Len(ob)) /\ Len(m) <= Len(nb)
  /\ \A k \in DOMAIN m : m[k] # 0 => Content(o, ob[m[k]]) = Content(n, nb[k])
  /\ \A j, k \in DOMAIN m : m[j] = m[k] /\ m[j] # 0 => j = k
  /\ \A k \in DOMAIN m, l \in DOMAIN ob :
       m[k] = 0 /\ Content(o, ob[l]) = Content(n, nb[k]) => l \in Range(m)

LEMMA MatchOne ==
  ASSUME NEW m, NEW o, NEW ob, NEW n, NEW nb, MatchingOf(m, o, ob, n, nb),
         DOMAIN ob = 1..Len(ob), Len(ob) \in Nat, Len(nb) \in Nat, Len(m) < Len(nb),
         NEW free, free = {k \in DOMAIN ob : Content(o, ob[k]) = Content(n, nb[Len(m) + 1]) /\ k \notin Range(m)}
  PROVE  MatchingOf(Append(m, IF free = {} THEN 0 ELSE Min(free)), o, ob, n, nb)
<1> DEFINE v == IF free = {} THEN 0 ELSE Min(free)
           p == Len(m) + 1
           more == Append(m, v)
<1>1. m \in Seq(0..Len(ob)) /\ Len(m) \in Nat /\ DOMAIN m = 1..Len(m) /\ p \in Nat /\ p <= Len(nb)
  <2>1. m \in Seq(0..Len(ob))
    BY DEF MatchingOf
  <2> QED
    BY <2>1, LenProperties
<1>2. free # {} => v \in free
  <2>1. free \in SUBSET Nat
    OBVIOUS
  <2>2. free # {} => \E x \in free : \A y \in free : x <= y
    BY <2>1, LeastElement
  <2> QED
    BY <2>2 DEF Min
<1>3. free = {} => v = 0
  OBVIOUS
<1>4. /\ v \in 0..Len(ob)
      /\ v # 0 => Content(o, ob[v]) = Content(n, nb[p]) /\ v \notin Range(m)
      /\ v = 0 => \A l \in DOMAIN ob : Content(o, ob[l]) = Content(n, nb[p]) => l \in Range(m)
  <2>1. CASE free = {}
    BY <1>3, <2>1
  <2>2. CASE free # {}
    <3>1. v \in 1..Len(ob) /\ Content(o, ob[v]) = Content(n, nb[p]) /\ v \notin Range(m)
      BY <1>2, <2>2
    <3> HIDE DEF v
    <3> QED
      BY <3>1
  <2> QED
    BY <2>1, <2>2
<1> HIDE DEF v
<1>5. /\ more \in Seq(0..Len(ob)) /\ Len(more) = p
      /\ \A k \in 1..Len(m) : more[k] = m[k]
      /\ more[p] = v
  BY <1>1, <1>4, AppendProperties
<1>6. DOMAIN more = 1..p
  BY <1>5, LenProperties
<1>7. \A k \in 1..p : k = p \/ (k \in 1..Len(m) /\ k \in DOMAIN m /\ more[k] = m[k] /\ m[k] \in Range(m) /\ k # p)
  <2> SUFFICES ASSUME NEW k \in 1..p, k # p
               PROVE  k \in 1..Len(m) /\ k \in DOMAIN m /\ more[k] = m[k] /\ m[k] \in Range(m)
    OBVIOUS
  <2>1. k \in 1..Len(m)
    BY <1>1
  <2> QED
    BY <1>1, <1>5, <2>1 DEF Range
<1>8. Range(m) \subseteq Range(more)
  <2> SUFFICES ASSUME NEW k \in 1..Len(m) PROVE m[k] \in Range(more)
    BY <1>1 DEF Range
  <2>1. k \in 1..p
    BY <1>1
  <2> QED
    BY <1>5, <1>6, <2>1 DEF Range
<1> HIDE DEF more, p
<1>9. ASSUME NEW k \in 1..p, more[k] # 0 PROVE Content(o, ob[more[k]]) = Content(n, nb[k])
  BY <1>4, <1>5, <1>7, <1>9 DEF MatchingOf
<1>10. ASSUME NEW j \in 1..p, NEW k \in 1..p, more[j] = more[k], more[j] # 0 PROVE j = k
  <2>1. CASE j = p /\ k # p
    BY <1>4, <1>5, <1>7, <1>10, <2>1
  <2>2. CASE j # p /\ k = p
    BY <1>4, <1>5, <1>7, <1>10, <2>2
  <2>3. CASE j # p /\ k # p
    BY <1>7, <1>10, <2>3 DEF MatchingOf
  <2> QED
    BY <2>1, <2>2, <2>3
<1>11. ASSUME NEW k \in 1..p, NEW l \in DOMAIN ob, more[k] = 0, Content(o, ob[l]) = Content(n, nb[k])
       PROVE  l \in Range(more)
  <2>1. CASE k = p
    BY <1>4, <1>5, <1>8, <1>11, <2>1
  <2>2. CASE k # p
    BY <1>7, <1>8, <1>11, <2>2 DEF MatchingOf
  <2> QED
    BY <2>1, <2>2
<1>12. MatchingOf(more, o, ob, n, nb)
  BY <1>1, <1>5, <1>6, <1>9, <1>10, <1>11 DEF MatchingOf
<1> QED
  BY <1>12 DEF more, v

(* pairedNew lists the new blocks that have a partner.                     *)
HavePartner(m) == {k \in DOMAIN m : m[k] # 0}

PairsInOrder(m, ob, pn) ==
  /\ Len(pn) \in Nat /\ DOMAIN pn = 1..Len(pn) /\ Len(pn) = Cardinality(HavePartner(m))
  /\ \A p \in 1..Len(pn) : pn[p] \in DOMAIN m /\ pn[p] \in Nat /\ m[pn[p]] \in 1..Len(ob)
  /\ \A k \in HavePartner(m) : \E p \in 1..Len(pn) : pn[p] = k
  /\ \A j, k \in 1..Len(pn) : j < k <=> pn[j] < pn[k]
  /\ \A j, k \in 1..Len(pn) : pn[j] = pn[k] => j = k

LEMMA PairFacts ==
  ASSUME matched \in Seq(0..Len(oldBlocks)), Len(oldBlocks) \in Nat
  PROVE  /\ PairsInOrder(matched, oldBlocks, PairedNew)
         /\ HavePartner(matched) \in SUBSET Nat /\ IsFiniteSet(HavePartner(matched))
<1> DEFINE H == HavePartner(matched)
<1>1. Len(matched) \in Nat /\ DOMAIN matched = 1..Len(matched)
  BY LenProperties
<1>2. IsFiniteSet(1..Len(matched))
  BY <1>1, IntervalSize
<1>3. H \in SUBSET (1..Len(matched)) /\ H \in SUBSET Nat
  BY <1>1 DEF HavePartner
<1>4. IsFiniteSet(H)
  BY <1>2, <1>3, FS_Subset
<1>5. PairedNew = Ascending(H)
  BY DEF PairedNew, HavePartner
<1> HIDE DEF H
<1>6. AscendingIs(H, PairedNew) /\ Cardinality(H) \in Nat
  BY <1>3, <1>4, <1>5, AscendingFacts
<1>7. Len(PairedNew) = Cardinality(H) /\ DOMAIN PairedNew = 1..Cardinality(H)
  BY <1>6 DEF AscendingIs
<1>8. ASSUME NEW p \in 1..Cardinality(H)
      PROVE  PairedNew[p] \in DOMAIN matched /\ PairedNew[p] \in Nat /\ matched[PairedNew[p]] \in 1..Len(oldBlocks)
  <2>1. PairedNew[p] \in H /\ PairedNew[p] \in Nat
    BY <1>6 DEF AscendingIs
  <2>2. PairedNew[p] \in 1..Len(matched) /\ matched[PairedNew[p]] # 0
    BY <1>1, <2>1 DEF H, HavePartner
  <2>3. matched[PairedNew[p]] \in 0..Len(oldBlocks)
    BY <2>2, ElementOfSeq
  <2> QED
    BY <1>1, <2>1, <2>2, <2>3
<1>9. /\ \A k \in H : \E p \in 1..Cardinality(H) : PairedNew[p] = k
      /\ \A j, k \in 1..Cardinality(H) : j < k <=> PairedNew[j] < PairedNew[k]
      /\ \A j, k \in 1..Cardinality(H) : PairedNew[j] = PairedNew[k] => j = k
  BY <1>6 DEF AscendingIs
<1> QED
  BY <1>3, <1>4, <1>6, <1>7, <1>8, <1>9 DEF PairsInOrder, H

(* The values searched: the old blocks of the pairs, from the last one.    *)
LEMMA ReversedIs ==
  ASSUME matched \in Seq(0..Len(oldBlocks)), Len(oldBlocks) \in Nat
  PROVE  /\ Reversed \in Seq(Int) /\ Len(Reversed) = Len(PairedNew) /\ Len(PairedNew) \in Nat
         /\ \A p \in 1..Len(PairedNew) : Reversed[p] = -matched[PairedNew[Len(PairedNew) + 1 - p]]
<1> DEFINE n == Len(PairedNew)
<1>1. PairsInOrder(matched, oldBlocks, PairedNew)
  BY PairFacts
<1>2. /\ n \in Nat /\ DOMAIN PairedNew = 1..n
      /\ \A p \in 1..n : matched[PairedNew[p]] \in 1..Len(oldBlocks)
  BY <1>1 DEF PairsInOrder
<1>3. Reversed = [k \in 1..n |-> -matched[PairedNew[n + 1 - k]]]
  BY <1>2 DEF Reversed
<1> HIDE DEF n
<1>4. ASSUME NEW k \in 1..n PROVE -matched[PairedNew[n + 1 - k]] \in Int
  <2>1. n + 1 - k \in 1..n
    BY <1>2
  <2>2. matched[PairedNew[n + 1 - k]] \in 1..Len(oldBlocks)
    BY <1>2, <2>1
  <2> QED
    BY <2>2
<1>5. Reversed \in [1..n -> Int]
  BY <1>3, <1>4
<1>6. Reversed \in Seq(Int)
  BY <1>2, <1>5, SeqDef
<1>7. Len(Reversed) = n
  BY <1>2, <1>5, <1>6, LenProperties
<1> QED
  BY <1>2, <1>3, <1>6, <1>7 DEF n

-----------------------------------------------------------------------------
SidesAre == /\ old \in Seq(Instruction) /\ new \in Seq(Instruction)
            /\ \A s \in {old, new} : \A k \in DOMAIN s : s[k].target \in 0..Len(s)

(* What each stage has.                                                    *)
BeforeSplit == oldBlocks = <<>> /\ newBlocks = <<>> /\ matched = <<>>
AfterSplit == Layout(old, oldBlocks, Len(old)) /\ Layout(new, newBlocks, Len(new))
BeforeSearch == values = <<>> /\ i = 0 /\ tails = <<>> /\ out = <<>>
AfterOrder == Len(matched) = Len(newBlocks) /\ values = Reversed
BeforeFinish == moves = <<>> /\ restOld = <<>> /\ restNew = <<>>
AfterFinish == /\ i = Len(values) /\ Len(out) = Len(tails)
               /\ moves = [k \in DOMAIN Moved |-> Move(PairedNew[Moved[k]])]
               /\ restOld = Leftover(oldBlocks, Range(matched))
               /\ restNew = Leftover(newBlocks, Range(PairedNew))

BInv == /\ IInv
        /\ SidesAre
        /\ stage \in {"split", "match", "search", "done"}
        /\ MatchingOf(matched, old, oldBlocks, new, newBlocks)
        /\ IF stage = "split" THEN BeforeSplit ELSE AfterSplit
        /\ IF stage \in {"split", "match"} THEN BeforeSearch ELSE AfterOrder
        /\ IF stage = "done" THEN AfterFinish ELSE BeforeFinish

LEMMA BlocksStart == BlocksInit => BInv
<1> SUFFICES ASSUME BlocksInit PROVE BInv
  OBVIOUS
<1>1. SidesAre
  <2>1. PICK pair \in Sides : old = pair[1] /\ new = pair[2]
    BY DEF BlocksInit
  <2>2. pair \in Seq(Instruction) \X Seq(Instruction)
    BY BlocksAssumption
  <2>3. pair[1] \in Seq(Instruction) /\ pair[2] \in Seq(Instruction)
    BY <2>2
  <2>4. \A side \in {1, 2} : \A k \in DOMAIN pair[side] : pair[side][k].target \in 0..Len(pair[side])
    BY BlocksAssumption
  <2> QED
    BY <2>1, <2>3, <2>4 DEF SidesAre
<1>2. values = <<>> /\ i = 0 /\ tails = <<>> /\ out = <<>> /\ prev = [x \in {} |-> -1]
  BY DEF BlocksInit
<1>3. Start
  <2>1. values \in Seq(Int)
    BY <1>2, EmptySeq
  <2>2. Index = {}
    BY <1>2 DEF Index
  <2> QED
    BY <1>2, <2>1, <2>2 DEF Start
<1>4. IInv
  BY <1>3, StartEstablishes
<1>5. oldBlocks = <<>> /\ newBlocks = <<>> /\ matched = <<>> /\ stage = "split"
      /\ moves = <<>> /\ restOld = <<>> /\ restNew = <<>>
  BY DEF BlocksInit
<1>6. MatchingOf(matched, old, oldBlocks, new, newBlocks)
  <2>1. <<>> \in Seq(0..Len(oldBlocks)) /\ Len(<<>>) = 0 /\ DOMAIN <<>> = {}
    BY EmptySeq
  <2> QED
    BY <1>5, <2>1 DEF MatchingOf
<1> QED
  BY <1>1, <1>2, <1>4, <1>5, <1>6 DEF BInv, BeforeSplit, BeforeSearch, BeforeFinish

(* The blocks of both sides, wherever splitting is done.                   *)
LEMMA BlocksAreApart ==
  ASSUME SidesAre, AfterSplit
  PROVE  EndToEnd(old, oldBlocks) /\ EndToEnd(new, newBlocks)
<1>1. EndToEnd(old, oldBlocks)
  BY LaidApart DEF SidesAre, AfterSplit
<1>2. EndToEnd(new, newBlocks)
  BY LaidApart DEF SidesAre, AfterSplit
<1> QED
  BY <1>1, <1>2

LEMMA SplitPreserves == BInv /\ Split => BInv'
<1> SUFFICES ASSUME BInv, Split PROVE BInv'
  OBVIOUS
<1>1. /\ stage = "split" /\ stage' = "match"
      /\ oldBlocks' = SplitBlocks(old) /\ newBlocks' = SplitBlocks(new)
      /\ UNCHANGED <<old, new, matched, moves, restOld, restNew, values, i, tails, prev, out>>
  BY DEF Split, sides, results, vars
<1>2. IInv'
  BY <1>1, StutterPreserves DEF BInv, vars
<1>3. SidesAre /\ SidesAre'
  BY <1>1 DEF BInv, SidesAre
<1>4. AfterSplit'
  BY <1>1, <1>3, SplitIsLaid DEF SidesAre, AfterSplit
<1>5. matched = <<>>
  BY <1>1 DEF BInv, BeforeSplit
<1>6. MatchingOf(matched, old, oldBlocks, new, newBlocks)'
  <2>1. <<>> \in Seq(0..Len(oldBlocks')) /\ Len(<<>>) = 0 /\ DOMAIN <<>> = {}
    BY EmptySeq
  <2>2. EndToEnd(new', newBlocks')
    BY <1>3, <1>4, LaidApart DEF SidesAre, AfterSplit
  <2>3. Len(newBlocks') \in Nat
    BY <2>2 DEF EndToEnd
  <2> QED
    BY <1>1, <1>5, <2>1, <2>3 DEF MatchingOf
<1>7. BeforeSearch' /\ BeforeFinish'
  BY <1>1 DEF BInv, BeforeSearch, BeforeFinish
<1> QED
  BY <1>1, <1>2, <1>3, <1>4, <1>6, <1>7 DEF BInv

LEMMA MatchPreserves == BInv /\ MatchBlock => BInv'
<1> SUFFICES ASSUME BInv, MatchBlock PROVE BInv'
  OBVIOUS
<1> DEFINE free == {k \in DOMAIN oldBlocks : /\ Content(old, oldBlocks[k]) = Content(new, newBlocks[Len(matched) + 1])
                                             /\ k \notin Range(matched)}
<1>1. /\ stage = "match" /\ stage' = stage /\ Len(matched) < Len(newBlocks)
      /\ matched' = Append(matched, IF free = {} THEN 0 ELSE Min(free))
      /\ UNCHANGED <<old, new, oldBlocks, newBlocks, moves, restOld, restNew, values, i, tails, prev, out>>
  BY DEF MatchBlock, sides, results, vars
<1>2. IInv'
  BY <1>1, StutterPreserves DEF BInv, vars
<1>3. SidesAre /\ AfterSplit /\ SidesAre' /\ AfterSplit'
  BY <1>1 DEF BInv, SidesAre, AfterSplit
<1>4. /\ DOMAIN oldBlocks = 1..Len(oldBlocks) /\ Len(oldBlocks) \in Nat /\ Len(newBlocks) \in Nat
  BY <1>3, BlocksAreApart DEF EndToEnd
<1>5. MatchingOf(matched, old, oldBlocks, new, newBlocks)
  BY DEF BInv
<1>6. MatchingOf(matched', old, oldBlocks, new, newBlocks)
  BY <1>1, <1>4, <1>5, MatchOne
<1>7. MatchingOf(matched, old, oldBlocks, new, newBlocks)'
  BY <1>1, <1>6
<1>8. BeforeSearch' /\ BeforeFinish'
  BY <1>1 DEF BInv, BeforeSearch, BeforeFinish
<1> QED
  BY <1>1, <1>2, <1>3, <1>7, <1>8 DEF BInv

LEMMA OrderPreserves == BInv /\ OrderPairs => BInv'
<1> SUFFICES ASSUME BInv, OrderPairs PROVE BInv'
  OBVIOUS
<1>1. /\ stage = "match" /\ stage' = "search" /\ Len(matched) = Len(newBlocks)
      /\ values' = Reversed /\ prev' = [x \in 0..(Len(PairedNew) - 1) |-> -1]
      /\ UNCHANGED <<old, new, oldBlocks, newBlocks, matched, moves, restOld, restNew, i, tails, out>>
  BY DEF OrderPairs, sides, results
<1>2. SidesAre /\ AfterSplit /\ SidesAre' /\ AfterSplit'
  BY <1>1 DEF BInv, SidesAre, AfterSplit
<1>3. MatchingOf(matched, old, oldBlocks, new, newBlocks)
  BY DEF BInv
<1>4. Len(oldBlocks) \in Nat
  BY <1>2, BlocksAreApart DEF EndToEnd
<1>5. matched \in Seq(0..Len(oldBlocks))
  BY <1>3 DEF MatchingOf
<1>6. Reversed \in Seq(Int) /\ Len(Reversed) = Len(PairedNew)
  BY <1>4, <1>5, ReversedIs
<1>7. i = 0 /\ tails = <<>> /\ out = <<>>
  BY <1>1 DEF BInv, BeforeSearch
<1>8. Start'
  BY <1>1, <1>6, <1>7 DEF Start, Index
<1>9. IInv'
  <2>1. Start' => IInv'
    BY StartEstablishes, PTL
  <2> QED
    BY <1>8, <2>1
<1>10. AfterOrder'
  <2>1. Reversed' = Reversed
    BY <1>1 DEF Reversed, PairedNew
  <2> QED
    BY <1>1, <2>1 DEF AfterOrder
<1>11. BeforeFinish'
  BY <1>1 DEF BInv, BeforeFinish
<1>12. MatchingOf(matched, old, oldBlocks, new, newBlocks)'
  BY <1>1, <1>3
<1> QED
  BY <1>1, <1>2, <1>9, <1>10, <1>11, <1>12 DEF BInv

LEMMA SearchPreserves == BInv /\ SearchRun => BInv'
<1> SUFFICES ASSUME BInv, SearchRun PROVE BInv'
  OBVIOUS
<1>1. /\ stage = "search" /\ stage' = stage /\ Next
      /\ UNCHANGED <<old, new, oldBlocks, newBlocks, matched, moves, restOld, restNew>>
  BY DEF SearchRun, blocksVars, sides, results
<1>2. IInv' /\ values' = values
  BY <1>1, ExtendPreserves, LinkPreserves DEF BInv, Next, Extend, Link
<1>3. SidesAre' /\ AfterSplit'
  BY <1>1 DEF BInv, SidesAre, AfterSplit
<1>4. MatchingOf(matched, old, oldBlocks, new, newBlocks)'
  BY <1>1 DEF BInv
<1>5. AfterOrder'
  <2>1. Reversed' = Reversed
    BY <1>1 DEF Reversed, PairedNew
  <2> QED
    BY <1>1, <1>2, <2>1 DEF BInv, AfterOrder
<1>6. BeforeFinish'
  BY <1>1 DEF BInv, BeforeFinish
<1> QED
  BY <1>1, <1>2, <1>3, <1>4, <1>5, <1>6 DEF BInv

LEMMA FinishPreserves == BInv /\ Finish => BInv'
<1> SUFFICES ASSUME BInv, Finish PROVE BInv'
  OBVIOUS
<1>1. /\ stage = "search" /\ stage' = "done"
      /\ UNCHANGED <<values, i, tails, prev, out, old, new, oldBlocks, newBlocks, matched>>
  BY DEF Finish, sides, vars
<1>2. IInv'
  BY <1>1, StutterPreserves DEF BInv, vars
<1>3. SidesAre' /\ AfterSplit'
  BY <1>1 DEF BInv, SidesAre, AfterSplit
<1>4. MatchingOf(matched, old, oldBlocks, new, newBlocks)'
  BY <1>1 DEF BInv
<1>5. PairedNew' = PairedNew /\ Reversed' = Reversed /\ InPlace' = InPlace
  BY <1>1 DEF Reversed, PairedNew, InPlace
<1>6. AfterOrder'
  BY <1>1, <1>5 DEF BInv, AfterOrder
<1>7. AfterFinish'
  <2>1. Moved' = Moved /\ \A n : Move(n)' = Move(n)
    BY <1>1, <1>5 DEF Moved, Move
  <2>2. /\ i = Len(values) /\ Len(out) = Len(tails)
        /\ moves' = [k \in DOMAIN Moved |-> Move(PairedNew[Moved[k]])]
        /\ restOld' = Leftover(oldBlocks, Range(matched))
        /\ restNew' = Leftover(newBlocks, Range(PairedNew))
    BY DEF Finish
  <2> QED
    BY <1>1, <1>5, <2>1, <2>2 DEF AfterFinish, Move
<1> QED
  BY <1>1, <1>2, <1>3, <1>4, <1>6, <1>7 DEF BInv

LEMMA BlocksQuiet == BInv /\ UNCHANGED <<vars, blocksVars>> => BInv'
<1> SUFFICES ASSUME BInv, UNCHANGED <<vars, blocksVars>> PROVE BInv'
  OBVIOUS
<1>1. UNCHANGED <<values, i, tails, prev, out, old, new, oldBlocks, newBlocks, matched,
                  moves, restOld, restNew, stage>>
  BY DEF vars, blocksVars, sides, results
<1>2. IInv'
  BY <1>1, StutterPreserves DEF BInv, vars
<1>3. SidesAre' = SidesAre /\ AfterSplit' = AfterSplit /\ BeforeSplit' = BeforeSplit
      /\ BeforeSearch' = BeforeSearch /\ BeforeFinish' = BeforeFinish
  BY <1>1 DEF SidesAre, AfterSplit, BeforeSplit, BeforeSearch, BeforeFinish
<1>4. PairedNew' = PairedNew /\ Reversed' = Reversed /\ InPlace' = InPlace
  BY <1>1 DEF Reversed, PairedNew, InPlace
<1>5. AfterOrder' = AfterOrder
  BY <1>1, <1>4 DEF AfterOrder
<1>6. AfterFinish' = AfterFinish
  BY <1>1, <1>4 DEF AfterFinish, Moved, Move
<1>7. MatchingOf(matched, old, oldBlocks, new, newBlocks)'
  BY <1>1 DEF BInv
<1> QED
  BY <1>1, <1>2, <1>3, <1>5, <1>6, <1>7 DEF BInv

LEMMA BlocksInvariance == BlocksSpec => []BInv
<1>1. BInv /\ [BlocksNext]_<<vars, blocksVars>> => BInv'
  BY SplitPreserves, MatchPreserves, OrderPreserves, SearchPreserves, FinishPreserves, BlocksQuiet DEF BlocksNext
<1> QED
  BY BlocksStart, <1>1, PTL DEF BlocksSpec

-----------------------------------------------------------------------------
(* A block is known by its first line.                                     *)
LEMMA FirstLineTells ==
  ASSUME NEW s, NEW blocks, EndToEnd(s, blocks), DOMAIN s \in SUBSET Nat
  PROVE  /\ \A b \in DOMAIN blocks : BlockAt(blocks, blocks[b][1]) = b
         /\ \A b, c \in DOMAIN blocks : \A x : x \in Range(blocks[b]) /\ x \in Range(blocks[c]) => b = c
<1>1. /\ DOMAIN blocks \in SUBSET Nat
      /\ \A b \in DOMAIN blocks : blocks[b] \in Seq(DOMAIN s) /\ blocks[b][1] \in Range(blocks[b])
      /\ \A b, c \in DOMAIN blocks : b < c => \A x \in Range(blocks[b]), y \in Range(blocks[c]) : x < y
  BY DEF EndToEnd, Apart
<1>2. ASSUME NEW b \in DOMAIN blocks, NEW x \in Range(blocks[b]) PROVE x \in Nat
  <2>1. blocks[b] \in [1..Len(blocks[b]) -> DOMAIN s]
    BY <1>1, LenProperties
  <2> QED
    BY <2>1 DEF Range
<1>3. ASSUME NEW b \in DOMAIN blocks, NEW c \in DOMAIN blocks, NEW x, x \in Range(blocks[b]), x \in Range(blocks[c])
      PROVE  b = c
  <2>1. b \in Nat /\ c \in Nat /\ x \in Nat /\ ~(x < x)
    BY <1>1, <1>2, <1>3
  <2>2. ~(b < c) /\ ~(c < b)
    BY <1>1, <1>3, <2>1
  <2> QED
    BY <2>1, <2>2
<1>4. ASSUME NEW b \in DOMAIN blocks PROVE BlockAt(blocks, blocks[b][1]) = b
  <2> DEFINE c == CHOOSE k \in DOMAIN blocks : blocks[k][1] = blocks[b][1]
  <2>1. c \in DOMAIN blocks /\ blocks[c][1] = blocks[b][1]
    OBVIOUS
  <2> HIDE DEF c
  <2>2. blocks[b][1] \in Range(blocks[b]) /\ blocks[b][1] \in Range(blocks[c])
    BY <1>1, <2>1
  <2>3. c = b
    BY <1>3, <2>1, <2>2
  <2> QED
    BY <2>3 DEF BlockAt, c
<1> QED
  BY <1>3, <1>4

(* Where the search's index x is among the new blocks.                     *)
Spot(x) == PairedNew[Len(PairedNew) - x]

SpotsMirror ==
  /\ Len(values) = Len(PairedNew) /\ Len(values) \in Nat
  /\ \A x \in Index : /\ Spot(x) \in Paired /\ Spot(x) \in Nat
                      /\ At(x) = -matched[Spot(x)] /\ matched[Spot(x)] \in Nat
  /\ \A y \in Paired : \E x \in Index : Spot(x) = y
  /\ \A x, z \in Index : x < z <=> Spot(z) < Spot(x)
  /\ \A x, z \in Index : Spot(x) = Spot(z) => x = z

LEMMA SpotFacts ==
  ASSUME matched \in Seq(0..Len(oldBlocks)), Len(oldBlocks) \in Nat, values = Reversed
  PROVE  SpotsMirror
<1> DEFINE n == Len(PairedNew)
<1>1. PairsInOrder(matched, oldBlocks, PairedNew)
  BY PairFacts
<1>2. /\ n \in Nat /\ DOMAIN PairedNew = 1..n
      /\ \A p \in 1..n : PairedNew[p] \in Nat /\ matched[PairedNew[p]] \in 1..Len(oldBlocks)
      /\ \A j, k \in 1..n : j < k <=> PairedNew[j] < PairedNew[k]
      /\ \A j, k \in 1..n : PairedNew[j] = PairedNew[k] => j = k
  BY <1>1 DEF PairsInOrder
<1>3. Len(values) = n /\ \A p \in 1..n : values[p] = -matched[PairedNew[n + 1 - p]]
  BY ReversedIs
<1>4. \A x : Spot(x) = PairedNew[n - x]
  BY DEF Spot
<1> HIDE DEF n
<1>5. Index = 0..(n - 1)
  BY <1>3 DEF Index
<1>6. ASSUME NEW x \in Index
      PROVE  /\ Spot(x) \in Paired /\ Spot(x) \in Nat
             /\ At(x) = -matched[Spot(x)] /\ matched[Spot(x)] \in Nat
  <2>1. n - x \in 1..n /\ x + 1 \in 1..n /\ n + 1 - (x + 1) = n - x
    BY <1>2, <1>5
  <2>2. values[x + 1] = -matched[PairedNew[n - x]]
    BY <1>3, <2>1
  <2>3. PairedNew[n - x] \in Range(PairedNew)
    BY <1>2, <2>1 DEF Range
  <2>4. matched[PairedNew[n - x]] \in Nat /\ PairedNew[n - x] \in Nat
    BY <1>2, <2>1
  <2> QED
    BY <1>4, <2>2, <2>3, <2>4 DEF At, Paired
<1>7. ASSUME NEW y \in Paired PROVE \E x \in Index : Spot(x) = y
  <2>1. PICK p \in 1..n : PairedNew[p] = y
    BY <1>2 DEF Paired, Range
  <2> DEFINE x == n - p
  <2>2. x \in Index /\ n - x = p
    BY <1>2, <1>5
  <2> HIDE DEF x
  <2> QED
    BY <1>4, <2>1, <2>2
<1>8. ASSUME NEW x \in Index, NEW z \in Index
      PROVE  (x < z <=> Spot(z) < Spot(x)) /\ (Spot(x) = Spot(z) => x = z)
  <2> DEFINE j == n - x
             k == n - z
  <2>1. j \in 1..n /\ k \in 1..n /\ (x < z <=> k < j) /\ (j = k => x = z)
    BY <1>2, <1>5
  <2>2. Spot(x) = PairedNew[j] /\ Spot(z) = PairedNew[k]
    BY <1>4
  <2> HIDE DEF j, k
  <2> QED
    BY <1>2, <2>1, <2>2
<1> QED
  BY <1>2, <1>3, <1>6, <1>7, <1>8 DEF SpotsMirror, n

-----------------------------------------------------------------------------
(* What the last stage has: the blocks, the pairs, and the moves.          *)
Done == BInv /\ stage = "done"

Away == DOMAIN PairedNew \ InPlace
Staying == {Spot(x) : x \in Range(out)}

MovesAre ==
  /\ DOMAIN moves = 1..Len(moves) /\ Len(moves) = Cardinality(Away) /\ Len(moves) \in Nat
  /\ \A k \in DOMAIN moves : \E p \in Away : moves[k] = Move(PairedNew[p])
  /\ \A p \in Away : \E k \in DOMAIN moves : moves[k] = Move(PairedNew[p])

LEMMA DoneHas ==
  ASSUME Done
  PROVE  /\ IInv /\ SidesAre /\ EndToEnd(old, oldBlocks) /\ EndToEnd(new, newBlocks)
         /\ DOMAIN old \in SUBSET Nat /\ DOMAIN new \in SUBSET Nat
         /\ MatchingOf(matched, old, oldBlocks, new, newBlocks)
         /\ matched \in Seq(0..Len(oldBlocks)) /\ DOMAIN matched = DOMAIN newBlocks
         /\ Len(oldBlocks) \in Nat /\ DOMAIN oldBlocks = 1..Len(oldBlocks)
         /\ values = Reversed /\ AfterFinish
<1>1. /\ IInv /\ SidesAre /\ AfterSplit /\ AfterOrder /\ AfterFinish
      /\ MatchingOf(matched, old, oldBlocks, new, newBlocks)
  BY DEF Done, BInv
<1>2. EndToEnd(old, oldBlocks) /\ EndToEnd(new, newBlocks)
  BY <1>1, BlocksAreApart
<1>3. matched \in Seq(0..Len(oldBlocks))
  BY <1>1 DEF MatchingOf
<1>4. DOMAIN matched = 1..Len(matched)
  BY <1>3, LenProperties
<1>5. /\ Len(oldBlocks) \in Nat /\ DOMAIN oldBlocks = 1..Len(oldBlocks)
      /\ DOMAIN newBlocks = 1..Len(newBlocks)
  BY <1>2 DEF EndToEnd
<1>6. DOMAIN old \in SUBSET Nat /\ DOMAIN new \in SUBSET Nat
  <2>1. DOMAIN old = 1..Len(old) /\ DOMAIN new = 1..Len(new)
    BY <1>1, LenProperties DEF SidesAre
  <2> QED
    BY <2>1
<1> QED
  BY <1>1, <1>2, <1>3, <1>4, <1>5, <1>6 DEF AfterOrder

LEMMA MovesFacts ==
  ASSUME Done
  PROVE  MovesAre
<1>1. moves = [k \in DOMAIN Moved |-> Move(PairedNew[Moved[k]])]
  BY DoneHas DEF AfterFinish
<1>2. matched \in Seq(0..Len(oldBlocks)) /\ Len(oldBlocks) \in Nat
  BY DoneHas
<1>3. DOMAIN PairedNew = 1..Len(PairedNew) /\ Len(PairedNew) \in Nat
  BY <1>2, PairFacts DEF PairsInOrder
<1>4. Away \in SUBSET (1..Len(PairedNew)) /\ Away \in SUBSET Nat
  BY <1>3 DEF Away
<1>5. IsFiniteSet(Away)
  BY <1>3, <1>4, IntervalSize, FS_Subset
<1>6. Moved = Ascending(Away)
  BY DEF Moved, Away
<1>7. AscendingIs(Away, Moved) /\ Cardinality(Away) \in Nat
  BY <1>4, <1>5, <1>6, AscendingFacts
<1>8. /\ DOMAIN Moved = 1..Cardinality(Away)
      /\ \A k \in 1..Cardinality(Away) : Moved[k] \in Away
      /\ \A p \in Away : \E k \in 1..Cardinality(Away) : Moved[k] = p
  BY <1>7 DEF AscendingIs
<1>9. DOMAIN moves = 1..Cardinality(Away)
  BY <1>1, <1>8
<1>10. Len(moves) = Cardinality(Away)
  <2> DEFINE R == {moves[k] : k \in 1..Cardinality(Away)}
             c == Cardinality(Away)
  <2>1. moves \in [1..c -> R]
    <3>1. moves = [k \in 1..c |-> moves[k]]
      BY <1>1, <1>9
    <3> QED
      BY <3>1
  <2> HIDE DEF R
  <2>2. moves \in Seq(R)
    BY <1>7, <2>1, SeqDef
  <2>3. DOMAIN moves = 1..Len(moves) /\ Len(moves) \in Nat
    BY <2>2, LenProperties
  <2> QED
    BY <1>7, <1>9, <2>3
<1>11. ASSUME NEW k \in DOMAIN moves PROVE \E p \in Away : moves[k] = Move(PairedNew[p])
  BY <1>1, <1>8, <1>9
<1>12. ASSUME NEW p \in Away PROVE \E k \in DOMAIN moves : moves[k] = Move(PairedNew[p])
  BY <1>1, <1>8, <1>9
<1> QED
  BY <1>7, <1>9, <1>10, <1>11, <1>12 DEF MovesAre

(* The blocks that moved, and those that stayed, of either side.           *)
MovedNew == {PairedNew[p] : p \in Away}
MovedOld == {matched[PairedNew[p]] : p \in Away}

LEMMA MovedAre ==
  ASSUME Done
  PROVE  /\ MovedBlocks(newBlocks, LAMBDA m : m.newAddr) = MovedNew
         /\ MovedBlocks(oldBlocks, LAMBDA m : m.oldAddr) = MovedOld
         /\ MovedNew \subseteq DOMAIN newBlocks /\ MovedOld \subseteq DOMAIN oldBlocks
         /\ Away \subseteq 1..Len(PairedNew)
<1>1. /\ matched \in Seq(0..Len(oldBlocks)) /\ Len(oldBlocks) \in Nat
      /\ DOMAIN oldBlocks = 1..Len(oldBlocks) /\ DOMAIN matched = DOMAIN newBlocks
  BY DoneHas
<1>2. /\ DOMAIN PairedNew = 1..Len(PairedNew)
      /\ \A p \in 1..Len(PairedNew) : PairedNew[p] \in DOMAIN matched /\ matched[PairedNew[p]] \in 1..Len(oldBlocks)
  BY <1>1, PairFacts DEF PairsInOrder
<1>3. /\ Away \subseteq 1..Len(PairedNew)
      /\ \A p \in Away : PairedNew[p] \in DOMAIN newBlocks /\ matched[PairedNew[p]] \in DOMAIN oldBlocks
  BY <1>1, <1>2 DEF Away
<1>4. /\ \A b \in DOMAIN newBlocks : BlockAt(newBlocks, newBlocks[b][1]) = b
      /\ \A b \in DOMAIN oldBlocks : BlockAt(oldBlocks, oldBlocks[b][1]) = b
  BY DoneHas, FirstLineTells
<1>5. ASSUME NEW p \in Away
      PROVE  /\ BlockAt(newBlocks, Move(PairedNew[p]).newAddr) = PairedNew[p]
             /\ BlockAt(oldBlocks, Move(PairedNew[p]).oldAddr) = matched[PairedNew[p]]
  <2>1. /\ Move(PairedNew[p]).newAddr = newBlocks[PairedNew[p]][1]
        /\ Move(PairedNew[p]).oldAddr = oldBlocks[matched[PairedNew[p]]][1]
    BY DEF Move
  <2> QED
    BY <1>3, <1>4, <2>1
<1>6. /\ \A k \in DOMAIN moves : \E p \in Away : moves[k] = Move(PairedNew[p])
      /\ \A p \in Away : \E k \in DOMAIN moves : moves[k] = Move(PairedNew[p])
  BY MovesFacts DEF MovesAre
<1>7. MovedBlocks(newBlocks, LAMBDA m : m.newAddr) = {BlockAt(newBlocks, moves[k].newAddr) : k \in DOMAIN moves}
  BY DEF MovedBlocks
<1>8. MovedBlocks(oldBlocks, LAMBDA m : m.oldAddr) = {BlockAt(oldBlocks, moves[k].oldAddr) : k \in DOMAIN moves}
  BY DEF MovedBlocks
<1>9. {BlockAt(newBlocks, moves[k].newAddr) : k \in DOMAIN moves} = MovedNew
  BY <1>5, <1>6 DEF MovedNew
<1>10. {BlockAt(oldBlocks, moves[k].oldAddr) : k \in DOMAIN moves} = MovedOld
  BY <1>5, <1>6 DEF MovedOld
<1> QED
  BY <1>3, <1>7, <1>8, <1>9, <1>10 DEF MovedNew, MovedOld

LEMMA DoneMirrors ==
  ASSUME Done
  PROVE  SpotsMirror /\ Range(out) \subseteq Index /\ IsFiniteSet(Index) /\ Index \in SUBSET Nat
<1>1. SpotsMirror
  BY DoneHas, SpotFacts
<1>2. out \in Seq(Index)
  BY DoneHas DEF IInv, Shape, TypeOK
<1>3. Range(out) \subseteq Index
  <2>1. out \in [1..Len(out) -> Index]
    BY <1>2, LenProperties
  <2> QED
    BY <2>1 DEF Range
<1>4. Len(values) \in Nat
  BY <1>1 DEF SpotsMirror
<1>5. IsFiniteSet(Index)
  <2>1. 0 \in Int /\ Len(values) - 1 \in Int
    BY <1>4
  <2> QED
    BY <2>1, FS_Interval DEF Index
<1>6. Index \in SUBSET Nat
  BY <1>4 DEF Index
<1> QED
  BY <1>1, <1>3, <1>5, <1>6

LEMMA PairedIs ==
  ASSUME Done
  PROVE  /\ Paired = HavePartner(matched)
         /\ \A y : y \in Paired <=> \E p \in 1..Len(PairedNew) : PairedNew[p] = y
         /\ \A y \in Paired : y \in DOMAIN newBlocks /\ matched[y] \in DOMAIN oldBlocks /\ matched[y] \in Nat
         /\ IsFiniteSet(Paired) /\ Paired \in SUBSET Nat
<1>1. /\ matched \in Seq(0..Len(oldBlocks)) /\ Len(oldBlocks) \in Nat
      /\ DOMAIN oldBlocks = 1..Len(oldBlocks) /\ DOMAIN matched = DOMAIN newBlocks
  BY DoneHas
<1>2. /\ DOMAIN PairedNew = 1..Len(PairedNew)
      /\ \A p \in 1..Len(PairedNew) : PairedNew[p] \in DOMAIN matched /\ matched[PairedNew[p]] \in 1..Len(oldBlocks)
      /\ \A k \in HavePartner(matched) : \E p \in 1..Len(PairedNew) : PairedNew[p] = k
  BY <1>1, PairFacts DEF PairsInOrder
<1>3. \A y : y \in Paired <=> \E p \in 1..Len(PairedNew) : PairedNew[p] = y
  BY <1>2 DEF Paired, Range
<1>4. \A y \in Paired : y \in DOMAIN newBlocks /\ matched[y] \in DOMAIN oldBlocks /\ matched[y] \in Nat /\ matched[y] # 0
  BY <1>1, <1>2, <1>3
<1>5. \A y : y \in Paired <=> y \in HavePartner(matched)
  BY <1>1, <1>2, <1>3, <1>4 DEF HavePartner
<1>6. Paired = HavePartner(matched)
  BY <1>5
<1>7. HavePartner(matched) \in SUBSET Nat /\ IsFiniteSet(HavePartner(matched))
  BY <1>1, PairFacts
<1> QED
  BY <1>3, <1>4, <1>6, <1>7

LEMMA StayingAre ==
  ASSUME Done
  PROVE  Staying = Paired \ MovedNew /\ Staying \subseteq Paired /\ Uncrossed(Staying)
<1> DEFINE n == Len(PairedNew)
<1>1. SpotsMirror /\ Range(out) \subseteq Index
  BY DoneMirrors
<1>2. /\ Len(values) = n
      /\ \A x \in Index : Spot(x) \in Paired /\ Spot(x) \in Nat /\ At(x) = -matched[Spot(x)] /\ matched[Spot(x)] \in Nat
      /\ \A x, z \in Index : x < z <=> Spot(z) < Spot(x)
      /\ \A x, z \in Index : Spot(x) = Spot(z) => x = z
  BY <1>1 DEF SpotsMirror
<1>3. n \in Nat /\ \A x : Spot(x) = PairedNew[n - x]
  BY <1>1 DEF SpotsMirror, Spot
<1>4. /\ DOMAIN PairedNew = 1..n
      /\ \A j, k \in 1..n : PairedNew[j] = PairedNew[k] => j = k
  BY DoneHas, PairFacts DEF PairsInOrder
<1>5. \A y : y \in Paired <=> \E p \in 1..n : PairedNew[p] = y
  BY PairedIs
<1> HIDE DEF n
<1>6. Index = 0..(n - 1)
  BY <1>2 DEF Index
<1>7. \A p : p \in Away <=> p \in 1..n /\ \A x \in Range(out) : p # n - x
  BY <1>2, <1>4 DEF Away, InPlace
<1>8. Staying \subseteq Paired
  BY <1>1, <1>2 DEF Staying
<1>9. ASSUME NEW y \in Staying PROVE y \notin MovedNew
  <2>1. PICK x \in Range(out) : y = PairedNew[n - x]
    BY <1>3 DEF Staying
  <2>2. n - x \in 1..n
    BY <1>1, <1>3, <1>6
  <2> SUFFICES ASSUME NEW p \in Away, y = PairedNew[p] PROVE FALSE
    BY DEF MovedNew
  <2> QED
    BY <1>4, <1>7, <2>1, <2>2
<1>10. ASSUME NEW y \in Paired, y \notin MovedNew PROVE y \in Staying
  <2>1. PICK p \in 1..n : PairedNew[p] = y
    BY <1>5
  <2>2. p \notin Away
    BY <1>10, <2>1 DEF MovedNew
  <2>3. PICK x \in Range(out) : p = n - x
    BY <1>7, <2>2
  <2> QED
    BY <1>3, <2>1, <2>3 DEF Staying
<1>11. Staying = Paired \ MovedNew
  BY <1>8, <1>9, <1>10
<1>12. ASSUME NEW a \in Staying, NEW b \in Staying, a < b PROVE matched[a] < matched[b]
  <2>1. PICK x \in Range(out) : a = Spot(x)
    BY DEF Staying
  <2>2. PICK z \in Range(out) : b = Spot(z)
    BY DEF Staying
  <2>3. z < x
    BY <1>1, <1>2, <1>12, <2>1, <2>2
  <2>4. \A j, k \in DOMAIN out : j < k => out[j] < out[k] /\ At(out[j]) < At(out[k])
    BY DoneHas, LongestWhenDone DEF ResultIsLongest, AfterFinish
  <2>5. PICK j \in DOMAIN out : out[j] = x
    BY DEF Range
  <2>6. PICK k \in DOMAIN out : out[k] = z
    BY DEF Range
  <2>7. DOMAIN out \in SUBSET Nat
    <3>1. out \in Seq(Index)
      BY DoneHas DEF IInv, Shape, TypeOK
    <3> QED
      BY <3>1, LenProperties
  <2>8. k < j
    <3>1. j \in Nat /\ k \in Nat /\ x \in Nat /\ z \in Nat
      BY <1>1, <1>6, <2>7
    <3>2. ~(j < k) /\ j # k
      BY <2>3, <2>4, <2>5, <2>6, <3>1
    <3> QED
      BY <3>1, <3>2
  <2>9. At(z) < At(x)
    BY <2>4, <2>5, <2>6, <2>8
  <2>10. At(z) = -matched[b] /\ At(x) = -matched[a] /\ matched[a] \in Nat /\ matched[b] \in Nat
    BY <1>1, <1>2, <2>1, <2>2
  <2> QED
    BY <2>9, <2>10
<1> QED
  BY <1>8, <1>11, <1>12 DEF Uncrossed

(* Sets of new blocks as sets of the search's indices.                     *)
Spots(S) == {x \in Index : Spot(x) \in S}

LEMMA SpotsSize ==
  ASSUME Done, NEW S \in SUBSET Paired
  PROVE  /\ Spots(S) \in SUBSET Index /\ IsFiniteSet(Spots(S)) /\ IsFiniteSet(S)
         /\ Cardinality(S) = Cardinality(Spots(S))
         /\ \A y \in S : \E x \in Spots(S) : Spot(x) = y
<1> DEFINE T == Spots(S)
           g == [x \in T |-> Spot(x)]
<1>1. SpotsMirror /\ IsFiniteSet(Index)
  BY DoneMirrors
<1>2. T \in SUBSET Index /\ \A x \in T : Spot(x) \in S
  BY DEF Spots
<1>3. IsFiniteSet(T)
  BY <1>1, <1>2, FS_Subset
<1>4. \A y \in S : \E x \in T : Spot(x) = y
  BY <1>1 DEF SpotsMirror, Spots
<1> HIDE DEF T
<1>5. g \in [T -> S]
  BY <1>2
<1>6. \A x, z \in T : g[x] = g[z] => x = z
  BY <1>1, <1>2 DEF SpotsMirror
<1>7. \A y \in S : \E x \in T : g[x] = y
  BY <1>4
<1> HIDE DEF g
<1>8. IsFiniteSet(S) /\ Cardinality(S) = Cardinality(T)
  BY <1>3, <1>5, <1>6, <1>7, SameSize
<1> QED
  BY <1>2, <1>3, <1>4, <1>8 DEF T

LEMMA SpotsIncrease ==
  ASSUME Done, NEW S \in SUBSET Paired, Uncrossed(S)
  PROVE  Increasing(Spots(S))
<1>1. SpotsMirror
  BY DoneMirrors
<1> SUFFICES ASSUME NEW x \in Spots(S), NEW z \in Spots(S), x < z PROVE At(x) < At(z)
  BY DEF Increasing
<1>2. x \in Index /\ z \in Index /\ Spot(x) \in S /\ Spot(z) \in S
  BY DEF Spots
<1>3. /\ Spot(z) < Spot(x)
      /\ At(x) = -matched[Spot(x)] /\ At(z) = -matched[Spot(z)]
      /\ matched[Spot(x)] \in Nat /\ matched[Spot(z)] \in Nat
  BY <1>1, <1>2 DEF SpotsMirror
<1>4. matched[Spot(z)] < matched[Spot(x)]
  BY <1>2, <1>3 DEF Uncrossed
<1> QED
  BY <1>3, <1>4

LEMMA StayingSpots ==
  ASSUME Done
  PROVE  /\ Spots(Staying) = Range(out) /\ Cardinality(Staying) = Len(out) /\ Len(out) \in Nat
         /\ \A S \in SUBSET Paired : Spots(S) = Range(out) => S = Staying
<1>1. SpotsMirror /\ Range(out) \subseteq Index
  BY DoneMirrors
<1>2. Staying \in SUBSET Paired
  BY StayingAre
<1>3. Spots(Staying) = Range(out)
  <2>1. ASSUME NEW x \in Index PROVE Spot(x) \in Staying <=> x \in Range(out)
    BY <1>1 DEF Staying, SpotsMirror
  <2>2. \A x : x \in Spots(Staying) <=> x \in Range(out)
    BY <1>1, <2>1 DEF Spots
  <2> QED
    BY <2>2
<1>4. out \in Seq(Index)
  BY DoneHas DEF IInv, Shape, TypeOK
<1>5. Len(out) \in Nat /\ DOMAIN out = 1..Len(out) /\ out \in [1..Len(out) -> Index]
  BY <1>4, LenProperties
<1>6. Cardinality(Range(out)) = Len(out)
  <2>1. \A j, k \in DOMAIN out : j < k => out[j] < out[k]
    BY DoneHas, LongestWhenDone DEF ResultIsLongest, AfterFinish
  <2>2. ASSUME NEW j \in 1..Len(out), NEW k \in 1..Len(out), out[j] = out[k] PROVE j = k
    <3>1. out[j] \in Nat /\ ~(out[j] < out[j]) /\ j \in Nat /\ k \in Nat
      <4>1. out[j] \in Index
        BY <1>5
      <4> QED
        BY <1>5, <4>1, DoneMirrors
    <3>2. ~(j < k) /\ ~(k < j)
      BY <1>5, <2>1, <2>2, <3>1
    <3> QED
      BY <3>1, <3>2
  <2>3. out \in [1..Len(out) -> Range(out)]
    BY <1>5 DEF Range
  <2>4. \A t \in Range(out) : \E k \in 1..Len(out) : out[k] = t
    BY <1>5 DEF Range
  <2>5. IsFiniteSet(1..Len(out)) /\ Cardinality(1..Len(out)) = Len(out)
    BY <1>5, IntervalSize
  <2>6. Cardinality(Range(out)) = Cardinality(1..Len(out))
    BY <2>2, <2>3, <2>4, <2>5, SameSize
  <2> QED
    BY <2>5, <2>6
<1>7. Cardinality(Staying) = Len(out)
  BY <1>2, <1>3, <1>6, SpotsSize
<1>8. ASSUME NEW S \in SUBSET Paired, Spots(S) = Range(out) PROVE S = Staying
  <2>1. \A y \in S : \E x \in Range(out) : Spot(x) = y
    BY <1>8, SpotsSize
  <2>2. \A x \in Range(out) : Spot(x) \in S
    BY <1>8 DEF Spots
  <2>3. \A y : y \in S <=> y \in Staying
    BY <2>1, <2>2 DEF Staying
  <2> QED
    BY <2>3
<1> QED
  BY <1>3, <1>5, <1>7, <1>8

(* Of the largest uncrossed sets of pairs, the one that stays is the       *)
(* earliest.                                                               *)
LEMMA StayingIsBest ==
  ASSUME Done, NEW S \in SUBSET Paired, Uncrossed(S)
  PROVE  \/ Cardinality(S) < Cardinality(Staying)
         \/ S = Staying
         \/ (Cardinality(S) = Cardinality(Staying) /\ Earlier(Staying, S))
<1> DEFINE T == Spots(S)
<1>1. /\ T \in SUBSET Index /\ IsFiniteSet(T) /\ Cardinality(S) = Cardinality(T)
      /\ \A y \in S : \E x \in T : Spot(x) = y
  BY SpotsSize
<1>2. Increasing(T)
  BY SpotsIncrease
<1>3. IInv /\ i = Len(values) /\ Len(out) = Len(tails)
  BY DoneHas DEF AfterFinish
<1>4. /\ Spots(Staying) = Range(out) /\ Cardinality(Staying) = Len(out) /\ Len(out) \in Nat
      /\ T = Range(out) => S = Staying
  BY StayingSpots
<1>5. SpotsMirror /\ Range(out) \subseteq Index
  BY DoneMirrors
<1>6. \A x \in T : Spot(x) \in S
  BY DEF Spots
<1>7. \A x \in Index : Spot(x) \in S => x \in T
  BY DEF Spots
<1> HIDE DEF T
<1>8. Cardinality(T) <= Len(out) /\ Cardinality(T) \in Nat
  BY <1>1, <1>2, <1>3, LongestWhenDone, FS_CardinalityType DEF ResultIsLongest
<1>9. CASE Cardinality(T) < Len(out)
  BY <1>1, <1>4, <1>9
<1>10. CASE Cardinality(T) = Len(out) /\ T # Range(out)
  <2>1. PICK x \in Range(out) \ T : \A y \in T \ Range(out) : y < x
    BY <1>1, <1>2, <1>3, <1>10, LatestIsPicked
  <2>2. Spot(x) \in Staying \ S
    BY <1>5, <1>7, <2>1 DEF Staying
  <2>3. ASSUME NEW t \in S \ Staying PROVE Spot(x) < t
    <3>1. PICK z \in T : Spot(z) = t
      BY <1>1
    <3>2. z \notin Range(out)
      BY <3>1 DEF Staying
    <3>3. z < x /\ z \in Index /\ x \in Index
      BY <1>1, <1>5, <2>1, <3>2
    <3> QED
      BY <1>5, <3>1, <3>3 DEF SpotsMirror
  <2>4. Earlier(Staying, S)
    BY <2>2, <2>3 DEF Earlier
  <2> QED
    BY <1>1, <1>4, <1>10, <2>4
<1>11. CASE Cardinality(T) = Len(out) /\ T = Range(out)
  BY <1>4, <1>11
<1> QED
  BY <1>8, <1>9, <1>10, <1>11

(* Of the ways to keep as many blocks in place as can be kept, the blocks  *)
(* that stay are the earliest in new order: of two swapped blocks, the     *)
(* later one is the move, for all pairs of functions.                      *)
THEOREM LaterBlocksMove == BlocksSpec => []TiesBlameTheLater
<1>1. ASSUME Done
      PROVE  LET kept == Paired \ MovedBlocks(newBlocks, LAMBDA m : m.newAddr)
             IN  /\ Uncrossed(kept)
                 /\ \A S \in SUBSET Paired :
                      Uncrossed(S) => \/ Cardinality(S) < Cardinality(kept)
                                      \/ S = kept
                                      \/ (Cardinality(S) = Cardinality(kept) /\ Earlier(kept, S))
  <2>1. MovedBlocks(newBlocks, LAMBDA m : m.newAddr) = MovedNew
    BY <1>1, MovedAre
  <2>2. Paired \ MovedNew = Staying /\ Uncrossed(Staying)
    BY <1>1, StayingAre
  <2>3. \A S \in SUBSET Paired :
          Uncrossed(S) => \/ Cardinality(S) < Cardinality(Staying)
                          \/ S = Staying
                          \/ (Cardinality(S) = Cardinality(Staying) /\ Earlier(Staying, S))
    BY <1>1, StayingIsBest
  <2> QED
    BY <2>1, <2>2, <2>3
<1>2. BInv => TiesBlameTheLater
  BY <1>1 DEF TiesBlameTheLater, Done
<1> QED
  BY BlocksInvariance, <1>2, PTL

(* The result is a longest increasing subsequence where matchBlocks uses   *)
(* it, too: as many blocks stay as can.                                    *)
THEOREM LongestInBlocks == BlocksSpec => []ResultIsLongest
<1>1. BInv => IInv
  BY DEF BInv
<1> QED
  BY BlocksInvariance, <1>1, LongestWhenDone, PTL

-----------------------------------------------------------------------------
LEMMA MoveType ==
  ASSUME Done
  PROVE  moves \in Seq([oldAddr : DOMAIN old, newAddr : DOMAIN new, insts : Nat \ {0}])
<1> DEFINE M == [oldAddr : DOMAIN old, newAddr : DOMAIN new, insts : Nat \ {0}]
<1>1. /\ DOMAIN moves = 1..Len(moves) /\ Len(moves) \in Nat
      /\ \A k \in DOMAIN moves : \E p \in Away : moves[k] = Move(PairedNew[p])
  BY MovesFacts DEF MovesAre
<1>2. \A p \in Away : PairedNew[p] \in DOMAIN newBlocks /\ matched[PairedNew[p]] \in DOMAIN oldBlocks
  BY MovedAre DEF MovedNew, MovedOld
<1>3. EndToEnd(old, oldBlocks) /\ EndToEnd(new, newBlocks)
  BY DoneHas
<1>4. ASSUME NEW s, NEW blocks, EndToEnd(s, blocks), NEW b \in DOMAIN blocks
      PROVE  blocks[b][1] \in DOMAIN s /\ Len(blocks[b]) \in Nat \ {0}
  <2>1. blocks[b] \in Seq(DOMAIN s) \ {<<>>}
    BY <1>4 DEF EndToEnd
  <2>2. Len(blocks[b]) \in Nat \ {0}
    BY <2>1, EmptySeq
  <2>3. 1 \in 1..Len(blocks[b])
    BY <2>2
  <2> QED
    BY <2>1, <2>2, <2>3, ElementOfSeq
<1>5. ASSUME NEW p \in Away PROVE Move(PairedNew[p]) \in M
  <2>1. oldBlocks[matched[PairedNew[p]]][1] \in DOMAIN old
    BY <1>2, <1>3, <1>4
  <2>2. newBlocks[PairedNew[p]][1] \in DOMAIN new /\ Len(newBlocks[PairedNew[p]]) \in Nat \ {0}
    BY <1>2, <1>3, <1>4
  <2> QED
    BY <2>1, <2>2 DEF Move
<1> HIDE DEF M
<1>6. \A k \in DOMAIN moves : moves[k] \in M
  BY <1>1, <1>5
<1>7. moves = [k \in DOMAIN Moved |-> moves[k]]
  <2>1. moves = [k \in DOMAIN Moved |-> Move(PairedNew[Moved[k]])]
    BY DoneHas DEF AfterFinish
  <2> QED
    BY <2>1
<1>8. DOMAIN Moved = 1..Len(moves)
  BY <1>1, <1>7
<1>9. moves \in [1..Len(moves) -> M]
  BY <1>1, <1>6, <1>7, <1>8
<1>10. moves \in Seq(M)
  BY <1>1, <1>9, SeqDef
<1> QED
  BY <1>10 DEF M

(* What is left over of a side: the blocks that are not taken, whole.      *)
LEMMA RestTells ==
  ASSUME NEW s, NEW blocks, EndToEnd(s, blocks), DOMAIN s \in SUBSET Nat, NEW taken,
         NEW r, r = Leftover(blocks, taken)
  PROVE  /\ r \in Seq(DOMAIN s) /\ Rises(r)
         /\ \A b \in DOMAIN blocks : \A x \in Range(blocks[b]) : x \in Range(r) <=> b \notin taken
         /\ \A b \in DOMAIN blocks : Range(blocks[b]) \cap Range(r) \in {{}, Range(blocks[b])}
<1>1. blocks \in Seq(Seq(DOMAIN s)) /\ Apart(blocks) /\ DOMAIN blocks = 1..Len(blocks)
  BY DEF EndToEnd
<1>2. r \in Seq(DOMAIN s) /\ RestOf(blocks, taken, Len(blocks), r)
  BY <1>1, LeftoverIsRest
<1>3. Rises(r) /\ \A y : y \in Range(r) <=> \E b \in (DOMAIN blocks) \ taken : y \in Range(blocks[b])
  BY <1>1, <1>2 DEF RestOf
<1>4. \A b, c \in DOMAIN blocks : \A x : x \in Range(blocks[b]) /\ x \in Range(blocks[c]) => b = c
  BY FirstLineTells
<1>5. ASSUME NEW b \in DOMAIN blocks, NEW x \in Range(blocks[b]) PROVE x \in Range(r) <=> b \notin taken
  BY <1>3, <1>4
<1>6. ASSUME NEW b \in DOMAIN blocks PROVE Range(blocks[b]) \cap Range(r) \in {{}, Range(blocks[b])}
  BY <1>5
<1> QED
  BY <1>2, <1>3, <1>5, <1>6

LEMMA RestsAre ==
  ASSUME Done
  PROVE  /\ restOld \in Seq(DOMAIN old) /\ Rises(restOld)
         /\ restNew \in Seq(DOMAIN new) /\ Rises(restNew)
         /\ \A b \in DOMAIN oldBlocks : oldBlocks[b][1] \in Range(restOld) <=> b \notin Range(matched)
         /\ \A b \in DOMAIN newBlocks : newBlocks[b][1] \in Range(restNew) <=> b \notin Paired
         /\ \A b \in DOMAIN oldBlocks : Range(oldBlocks[b]) \cap Range(restOld) \in {{}, Range(oldBlocks[b])}
         /\ \A b \in DOMAIN newBlocks : Range(newBlocks[b]) \cap Range(restNew) \in {{}, Range(newBlocks[b])}
<1>1. /\ EndToEnd(old, oldBlocks) /\ EndToEnd(new, newBlocks)
      /\ DOMAIN old \in SUBSET Nat /\ DOMAIN new \in SUBSET Nat
  BY DoneHas
<1>2. restOld = Leftover(oldBlocks, Range(matched)) /\ restNew = Leftover(newBlocks, Paired)
  BY DoneHas DEF AfterFinish, Paired
<1>3. /\ restOld \in Seq(DOMAIN old) /\ Rises(restOld)
      /\ \A b \in DOMAIN oldBlocks : \A x \in Range(oldBlocks[b]) : x \in Range(restOld) <=> b \notin Range(matched)
      /\ \A b \in DOMAIN oldBlocks : Range(oldBlocks[b]) \cap Range(restOld) \in {{}, Range(oldBlocks[b])}
  BY <1>1, <1>2, RestTells
<1>4. /\ restNew \in Seq(DOMAIN new) /\ Rises(restNew)
      /\ \A b \in DOMAIN newBlocks : \A x \in Range(newBlocks[b]) : x \in Range(restNew) <=> b \notin Paired
      /\ \A b \in DOMAIN newBlocks : Range(newBlocks[b]) \cap Range(restNew) \in {{}, Range(newBlocks[b])}
  BY <1>1, <1>2, RestTells
<1>5. /\ \A b \in DOMAIN oldBlocks : oldBlocks[b][1] \in Range(oldBlocks[b])
      /\ \A b \in DOMAIN newBlocks : newBlocks[b][1] \in Range(newBlocks[b])
  BY <1>1 DEF EndToEnd
<1>6. \A b \in DOMAIN oldBlocks : oldBlocks[b][1] \in Range(restOld) <=> b \notin Range(matched)
  BY <1>3, <1>5
<1>7. \A b \in DOMAIN newBlocks : newBlocks[b][1] \in Range(restNew) <=> b \notin Paired
  BY <1>4, <1>5
<1> QED
  BY <1>3, <1>4, <1>6, <1>7

(* Blocks are basic blocks, for all functions.                             *)
THEOREM BlocksAreCutRight == BlocksSpec => []BlocksAreBasic
<1>1. ASSUME BInv PROVE BlocksTypeOK
  <2>1. TypeOK
    BY <1>1 DEF BInv, IInv, Shape
  <2>2. \A s \in {old, new} : \A k \in DOMAIN s : s[k].target \in 0..Len(s)
    BY <1>1 DEF BInv, SidesAre
  <2>3. stage \in {"split", "match", "search", "done"} /\ matched \in Seq(0..Len(oldBlocks))
    BY <1>1 DEF BInv, MatchingOf
  <2>4. /\ \A k \in DOMAIN oldBlocks : oldBlocks[k] \in Seq(DOMAIN old) \ {<<>>}
        /\ \A k \in DOMAIN newBlocks : newBlocks[k] \in Seq(DOMAIN new) \ {<<>>}
    <3>1. CASE stage = "split"
      <4>1. oldBlocks = <<>> /\ newBlocks = <<>> /\ DOMAIN <<>> = {}
        BY <1>1, <3>1 DEF BInv, BeforeSplit
      <4> QED
        BY <4>1
    <3>2. CASE stage # "split"
      <4>1. EndToEnd(old, oldBlocks) /\ EndToEnd(new, newBlocks)
        BY <1>1, <3>2, BlocksAreApart DEF BInv
      <4> QED
        BY <4>1 DEF EndToEnd
    <3> QED
      BY <3>1, <3>2
  <2>5. /\ moves \in Seq([oldAddr : DOMAIN old, newAddr : DOMAIN new, insts : Nat \ {0}])
        /\ restOld \in Seq(DOMAIN old) /\ restNew \in Seq(DOMAIN new)
    <3>1. CASE stage = "done"
      <4>1. Done
        BY <1>1, <3>1 DEF Done
      <4> QED
        BY <4>1, MoveType, RestsAre
    <3>2. CASE stage # "done"
      <4>1. moves = <<>> /\ restOld = <<>> /\ restNew = <<>>
        BY <1>1, <3>2 DEF BInv, BeforeFinish
      <4> QED
        BY <4>1, EmptySeq
    <3> QED
      BY <3>1, <3>2
  <2> QED
    BY <2>1, <2>2, <2>3, <2>4, <2>5 DEF BlocksTypeOK
<1>2. ASSUME BInv, stage # "split" PROVE Basic(old, oldBlocks) /\ Basic(new, newBlocks)
  <2>1. SidesAre /\ AfterSplit
    BY <1>2 DEF BInv
  <2> QED
    BY <2>1, LaidBasic DEF SidesAre, AfterSplit
<1>3. BInv => BlocksAreBasic
  BY <1>1, <1>2 DEF BlocksAreBasic
<1> QED
  BY BlocksInvariance, <1>3, PTL

-----------------------------------------------------------------------------
LEMMA LeftoversDiffer ==
  ASSUME Done, NEW m \in DOMAIN oldBlocks, NEW n \in DOMAIN newBlocks,
         oldBlocks[m][1] \in Range(restOld), newBlocks[n][1] \in Range(restNew)
  PROVE  Content(old, oldBlocks[m]) # Content(new, newBlocks[n])
<1>1. m \notin Range(matched) /\ n \notin Paired
  BY RestsAre
<1>2. n \in DOMAIN matched /\ Paired = HavePartner(matched)
  BY DoneHas, PairedIs
<1>3. matched[n] = 0
  BY <1>1, <1>2 DEF HavePartner
<1> QED
  BY <1>1, <1>2, <1>3, DoneHas DEF MatchingOf

(* The pairs, as a map from new blocks to old ones.                        *)
LEMMA PairsMap ==
  ASSUME Done
  PROVE  /\ \A y \in Paired : Content(old, oldBlocks[matched[y]]) = Content(new, newBlocks[y])
         /\ \A y, z \in Paired : matched[y] = matched[z] => y = z
         /\ \A y \in Paired : matched[y] \in Range(matched)
         /\ \A l \in DOMAIN oldBlocks : l \in Range(matched) => \E y \in Paired : matched[y] = l
<1>1. Paired = HavePartner(matched) /\ MatchingOf(matched, old, oldBlocks, new, newBlocks)
  BY DoneHas, PairedIs
<1>2. \A y : y \in Paired <=> y \in DOMAIN matched /\ matched[y] # 0
  BY <1>1 DEF HavePartner
<1>3. DOMAIN oldBlocks = 1..Len(oldBlocks)
  BY DoneHas
<1>4. \A y \in Paired : Content(old, oldBlocks[matched[y]]) = Content(new, newBlocks[y])
  BY <1>1, <1>2 DEF MatchingOf
<1>5. \A y, z \in Paired : matched[y] = matched[z] => y = z
  BY <1>1, <1>2 DEF MatchingOf
<1>6. \A y \in Paired : matched[y] \in Range(matched)
  BY <1>2 DEF Range
<1>7. ASSUME NEW l \in DOMAIN oldBlocks, l \in Range(matched) PROVE \E y \in Paired : matched[y] = l
  <2>1. PICK y \in DOMAIN matched : matched[y] = l
    BY <1>7 DEF Range
  <2>2. l # 0
    BY <1>3
  <2> QED
    BY <1>2, <2>1, <2>2
<1> QED
  BY <1>4, <1>5, <1>6, <1>7

LEMMA MovedSizes ==
  ASSUME Done
  PROVE  Cardinality(MovedOld) = Len(moves) /\ Cardinality(MovedNew) = Len(moves)
<1>1. Away \subseteq 1..Len(PairedNew) /\ Len(moves) = Cardinality(Away)
  BY MovedAre, MovesFacts DEF MovesAre
<1>2. /\ Len(PairedNew) \in Nat
      /\ \A j, k \in 1..Len(PairedNew) : PairedNew[j] = PairedNew[k] => j = k
  BY DoneHas, PairFacts DEF PairsInOrder
<1>3. IsFiniteSet(Away)
  BY <1>1, <1>2, IntervalSize, FS_Subset
<1>4. \A p \in Away : PairedNew[p] \in Paired
  BY <1>1, PairedIs
<1> DEFINE f == [p \in Away |-> PairedNew[p]]
           g == [p \in Away |-> matched[PairedNew[p]]]
<1>5. Cardinality(MovedNew) = Cardinality(Away)
  <2>1. f \in [Away -> MovedNew]
    BY DEF MovedNew
  <2>2. \A x, y \in Away : f[x] = f[y] => x = y
    BY <1>1, <1>2
  <2>3. \A t \in MovedNew : \E x \in Away : f[x] = t
    BY DEF MovedNew
  <2> HIDE DEF f
  <2> QED
    BY <1>3, <2>1, <2>2, <2>3, SameSize
<1>6. Cardinality(MovedOld) = Cardinality(Away)
  <2>1. g \in [Away -> MovedOld]
    BY DEF MovedOld
  <2>2. \A x, y \in Away : g[x] = g[y] => x = y
    <3> SUFFICES ASSUME NEW x \in Away, NEW y \in Away, matched[PairedNew[x]] = matched[PairedNew[y]] PROVE x = y
      OBVIOUS
    <3>1. PairedNew[x] = PairedNew[y]
      BY <1>4, PairsMap
    <3> QED
      BY <1>1, <1>2, <3>1
  <2>3. \A t \in MovedOld : \E x \in Away : g[x] = t
    BY DEF MovedOld
  <2> HIDE DEF g
  <2> QED
    BY <1>3, <2>1, <2>2, <2>3, SameSize
<1> QED
  BY <1>1, <1>5, <1>6

LEMMA MovesAreEqual ==
  ASSUME Done, NEW k \in DOMAIN moves
  PROVE  LET ob == oldBlocks[BlockAt(oldBlocks, moves[k].oldAddr)]
             nb == newBlocks[BlockAt(newBlocks, moves[k].newAddr)]
         IN  Content(old, ob) = Content(new, nb) /\ Len(nb) = moves[k].insts
<1>1. PICK p \in Away : moves[k] = Move(PairedNew[p])
  BY MovesFacts DEF MovesAre
<1> DEFINE y == PairedNew[p]
<1>2. y \in Paired
  BY <1>1, MovedAre, PairedIs
<1>3. moves[k] = Move(y)
  BY <1>1
<1> HIDE DEF y
<1>4. y \in DOMAIN newBlocks /\ matched[y] \in DOMAIN oldBlocks
  BY <1>2, PairedIs
<1>5. /\ moves[k].oldAddr = oldBlocks[matched[y]][1]
      /\ moves[k].newAddr = newBlocks[y][1]
      /\ moves[k].insts = Len(newBlocks[y])
  BY <1>3 DEF Move
<1>6. BlockAt(oldBlocks, oldBlocks[matched[y]][1]) = matched[y] /\ BlockAt(newBlocks, newBlocks[y][1]) = y
  BY <1>4, DoneHas, FirstLineTells
<1>7. Content(old, oldBlocks[matched[y]]) = Content(new, newBlocks[y])
  BY <1>2, PairsMap
<1> QED
  BY <1>5, <1>6, <1>7

StayedOld == {n \in DOMAIN oldBlocks : n \notin MovedOld /\ oldBlocks[n][1] \notin Range(restOld)}
StayedNew == {n \in DOMAIN newBlocks : n \notin MovedNew /\ newBlocks[n][1] \notin Range(restNew)}

LEMMA StayedAre ==
  ASSUME Done
  PROVE  StayedNew = Staying /\ \A t : t \in StayedOld <=> \E y \in Staying : matched[y] = t
<1>1. Staying = Paired \ MovedNew /\ Staying \subseteq Paired
  BY StayingAre
<1>2. \A y \in Paired : y \in DOMAIN newBlocks /\ matched[y] \in DOMAIN oldBlocks
  BY PairedIs
<1>3. /\ \A b \in DOMAIN oldBlocks : oldBlocks[b][1] \in Range(restOld) <=> b \notin Range(matched)
      /\ \A b \in DOMAIN newBlocks : newBlocks[b][1] \in Range(restNew) <=> b \notin Paired
  BY RestsAre
<1>4. \A y : y \in StayedNew <=> y \in Staying
  BY <1>1, <1>2, <1>3 DEF StayedNew
<1>5. StayedNew = Staying
  BY <1>4
<1>6. /\ \A y, z \in Paired : matched[y] = matched[z] => y = z
      /\ \A y \in Paired : matched[y] \in Range(matched)
      /\ \A l \in DOMAIN oldBlocks : l \in Range(matched) => \E y \in Paired : matched[y] = l
  BY PairsMap
<1>7. \A p \in Away : PairedNew[p] \in Paired
  BY MovedAre, PairedIs
<1>8. \A y \in Paired : matched[y] \in MovedOld <=> y \in MovedNew
  BY <1>6, <1>7 DEF MovedOld, MovedNew
<1>9. ASSUME NEW t PROVE t \in StayedOld <=> \E y \in Staying : matched[y] = t
  <2>1. ASSUME t \in StayedOld PROVE \E y \in Staying : matched[y] = t
    <3>1. t \in DOMAIN oldBlocks /\ t \notin MovedOld /\ t \in Range(matched)
      BY <1>3, <2>1 DEF StayedOld
    <3>2. PICK y \in Paired : matched[y] = t
      BY <1>6, <3>1
    <3> QED
      BY <1>1, <1>8, <3>1, <3>2
  <2>2. ASSUME NEW y \in Staying, matched[y] = t PROVE t \in StayedOld
    BY <1>1, <1>2, <1>3, <1>6, <1>8, <2>2 DEF StayedOld
  <2> QED
    BY <2>1, <2>2
<1> QED
  BY <1>5, <1>9

LEMMA StayedMatch ==
  ASSUME Done
  PROVE  /\ Len(Ascending(StayedOld)) = Len(Ascending(StayedNew))
         /\ \A k \in DOMAIN Ascending(StayedOld) :
              Content(old, oldBlocks[Ascending(StayedOld)[k]]) = Content(new, newBlocks[Ascending(StayedNew)[k]])
<1> DEFINE S == Staying
           T == StayedOld
           f == [y \in S |-> matched[y]]
<1>1. StayedNew = S /\ \A t : t \in T <=> \E y \in S : matched[y] = t
  BY StayedAre
<1>2. S \subseteq Paired /\ Uncrossed(S)
  BY StayingAre
<1>3. Paired \in SUBSET Nat /\ IsFiniteSet(Paired) /\ \A y \in Paired : matched[y] \in Nat
  BY PairedIs
<1>4. S \in SUBSET Nat /\ IsFiniteSet(S)
  BY <1>2, <1>3, FS_Subset
<1>5. \A y \in Paired : Content(old, oldBlocks[matched[y]]) = Content(new, newBlocks[y])
  BY PairsMap
<1> HIDE DEF S, T
<1>6. T \in SUBSET Nat
  BY <1>1, <1>2, <1>3
<1>7. f \in [S -> T]
  BY <1>1
<1>8. ASSUME NEW x \in S, NEW y \in S PROVE x < y <=> f[x] < f[y]
  <2>1. x \in Nat /\ y \in Nat /\ matched[x] \in Nat /\ matched[y] \in Nat
    BY <1>2, <1>3
  <2>2. (x < y => matched[x] < matched[y]) /\ (y < x => matched[y] < matched[x])
    BY <1>2 DEF Uncrossed
  <2> QED
    BY <2>1, <2>2
<1>9. \A t \in T : \E x \in S : f[x] = t
  BY <1>1
<1>10. \A x \in S : f[x] = matched[x]
  OBVIOUS
<1> HIDE DEF f
<1>11. /\ IsFiniteSet(T) /\ Cardinality(T) = Cardinality(S)
       /\ \A k \in 1..Cardinality(S) : Ascending(T)[k] = f[Ascending(S)[k]]
  BY <1>4, <1>6, <1>7, <1>8, <1>9, SamePlaces
<1>12. AscendingIs(S, Ascending(S)) /\ AscendingIs(T, Ascending(T))
  BY <1>4, <1>6, <1>11, AscendingFacts
<1>13. /\ Len(Ascending(T)) = Len(Ascending(S)) /\ DOMAIN Ascending(T) = 1..Cardinality(S)
       /\ \A k \in 1..Cardinality(S) : Ascending(S)[k] \in S
  BY <1>11, <1>12 DEF AscendingIs
<1>14. ASSUME NEW k \in 1..Cardinality(S)
       PROVE  Content(old, oldBlocks[Ascending(T)[k]]) = Content(new, newBlocks[Ascending(S)[k]])
  BY <1>2, <1>5, <1>10, <1>11, <1>13
<1> QED
  BY <1>1, <1>13, <1>14 DEF T

(* Every instruction of either side is shown once, and the leftovers share *)
(* no block, for all pairs of functions.                                   *)
THEOREM EachInstructionOnce == BlocksSpec => []EveryInstructionOnce
<1>1. ASSUME Done PROVE
        LET movedOld == MovedBlocks(oldBlocks, LAMBDA m : m.oldAddr)
            movedNew == MovedBlocks(newBlocks, LAMBDA m : m.newAddr)
            Stayed(blocks, moved, rest) ==
              Ascending({n \in DOMAIN blocks : n \notin moved /\ blocks[n][1] \notin Range(rest)})
            stayedOld == Stayed(oldBlocks, movedOld, restOld)
            stayedNew == Stayed(newBlocks, movedNew, restNew)
        IN  /\ Rises(restOld) /\ Rises(restNew)
            /\ \A n \in DOMAIN oldBlocks : Range(oldBlocks[n]) \cap Range(restOld) \in {{}, Range(oldBlocks[n])}
            /\ \A n \in DOMAIN newBlocks : Range(newBlocks[n]) \cap Range(restNew) \in {{}, Range(newBlocks[n])}
            /\ Cardinality(movedOld) = Len(moves) /\ Cardinality(movedNew) = Len(moves)
            /\ \A n \in movedOld : oldBlocks[n][1] \notin Range(restOld)
            /\ \A k \in DOMAIN moves :
                 LET ob == oldBlocks[BlockAt(oldBlocks, moves[k].oldAddr)]
                     nb == newBlocks[BlockAt(newBlocks, moves[k].newAddr)]
                 IN  Content(old, ob) = Content(new, nb) /\ Len(nb) = moves[k].insts
            /\ Len(stayedOld) = Len(stayedNew)
            /\ \A k \in DOMAIN stayedOld :
                 Content(old, oldBlocks[stayedOld[k]]) = Content(new, newBlocks[stayedNew[k]])
  <2>1. /\ MovedBlocks(newBlocks, LAMBDA m : m.newAddr) = MovedNew
        /\ MovedBlocks(oldBlocks, LAMBDA m : m.oldAddr) = MovedOld
        /\ MovedOld \subseteq DOMAIN oldBlocks
    BY <1>1, MovedAre
  <2>2. ASSUME NEW n \in MovedOld PROVE oldBlocks[n][1] \notin Range(restOld)
    <3>1. PICK p \in Away : n = matched[PairedNew[p]]
      BY DEF MovedOld
    <3>2. PairedNew[p] \in Paired
      BY <1>1, <3>1, MovedAre, PairedIs
    <3>3. n \in Range(matched) /\ n \in DOMAIN oldBlocks
      BY <1>1, <2>1, <3>1, <3>2, PairsMap
    <3> QED
      BY <1>1, <3>3, RestsAre
  <2>3. /\ Rises(restOld) /\ Rises(restNew)
        /\ \A n \in DOMAIN oldBlocks : Range(oldBlocks[n]) \cap Range(restOld) \in {{}, Range(oldBlocks[n])}
        /\ \A n \in DOMAIN newBlocks : Range(newBlocks[n]) \cap Range(restNew) \in {{}, Range(newBlocks[n])}
    BY <1>1, RestsAre
  <2>4. Cardinality(MovedOld) = Len(moves) /\ Cardinality(MovedNew) = Len(moves)
    BY <1>1, MovedSizes
  <2>5. /\ Len(Ascending(StayedOld)) = Len(Ascending(StayedNew))
        /\ \A k \in DOMAIN Ascending(StayedOld) :
             Content(old, oldBlocks[Ascending(StayedOld)[k]]) = Content(new, newBlocks[Ascending(StayedNew)[k]])
    BY <1>1, StayedMatch
  <2>6. \A k \in DOMAIN moves :
          LET ob == oldBlocks[BlockAt(oldBlocks, moves[k].oldAddr)]
              nb == newBlocks[BlockAt(newBlocks, moves[k].newAddr)]
          IN  Content(old, ob) = Content(new, nb) /\ Len(nb) = moves[k].insts
    BY <1>1, MovesAreEqual
  <2> QED
    BY <2>1, <2>2, <2>3, <2>4, <2>5, <2>6 DEF StayedOld, StayedNew
<1>2. ASSUME Done
      PROVE  \A m \in DOMAIN oldBlocks, n \in DOMAIN newBlocks :
               oldBlocks[m][1] \in Range(restOld) /\ newBlocks[n][1] \in Range(restNew)
                 => Content(old, oldBlocks[m]) # Content(new, newBlocks[n])
  BY <1>2, LeftoversDiffer
<1>3. BInv => EveryInstructionOnce
  BY <1>1, <1>2 DEF EveryInstructionOnce, LeftoversShareNoBlock, Done
<1> QED
  BY BlocksInvariance, <1>3, PTL
=============================================================================
