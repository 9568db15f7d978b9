---------------------------- MODULE CommandProofs ----------------------------
(***************************************************************************)
(* Proofs about Command and what it is built from: that levenshtein is the *)
(* edit distance, that closestNames suggests the nearest names, that a run *)
(* takes, prints and releases what Command says, and that the statistics on*)
(* one binary account for its text.                                        *)
(***************************************************************************)
EXTENDS Command, ListProofs

-----------------------------------------------------------------------------
(* The edit distance: matchings of the first i letters of a with the first *)
(* j of b, and what the dynamic program has in its cell for i and j.       *)
Chain(m) == \A p, q \in m : p # q => (p[1] < q[1] /\ p[2] < q[2]) \/ (q[1] < p[1] /\ q[2] < p[2])
Chains(i, j) == {m \in SUBSET ((1..i) \X (1..j)) : Chain(m)}
Wrong(a, b, m) == {p \in m : a[p[1]] # b[p[2]]}
Price(a, b, i, j, m) == i + j - 2 * Cardinality(m) + Cardinality(Wrong(a, b, m))
Cheapest(a, b, i, j, v) == /\ \E m \in Chains(i, j) : Price(a, b, i, j, m) = v
                           /\ \A m \in Chains(i, j) : v <= Price(a, b, i, j, m)

LEMMA ChainType ==
  ASSUME NEW a, NEW b, NEW i \in Nat, NEW j \in Nat, NEW m \in Chains(i, j)
  PROVE  /\ IsFiniteSet(m) /\ Cardinality(m) \in Nat
         /\ IsFiniteSet(Wrong(a, b, m)) /\ Cardinality(Wrong(a, b, m)) \in Nat
         /\ Price(a, b, i, j, m) \in Int
<1>1. IsFiniteSet((1..i) \X (1..j))
  <2>1. IsFiniteSet(1..i) /\ IsFiniteSet(1..j)
    BY FS_Interval
  <2> QED
    BY <2>1, FS_Product
<1>2. m \in SUBSET ((1..i) \X (1..j)) /\ Wrong(a, b, m) \in SUBSET m
  BY DEF Chains, Wrong
<1>3. IsFiniteSet(m)
  BY <1>1, <1>2, FS_Subset
<1>4. IsFiniteSet(Wrong(a, b, m))
  BY <1>2, <1>3, FS_Subset
<1>5. Cardinality(m) \in Nat /\ Cardinality(Wrong(a, b, m)) \in Nat
  BY <1>3, <1>4, FS_CardinalityType
<1>6. Price(a, b, i, j, m) \in Int
  BY <1>5 DEF Price
<1> QED
  BY <1>3, <1>4, <1>5, <1>6

(* With one letter more on either side, a matching costs one more.         *)
LEMMA TallerChain ==
  ASSUME NEW a, NEW b, NEW i \in Nat \ {0}, NEW j \in Nat, NEW m \in Chains(i - 1, j)
  PROVE  m \in Chains(i, j) /\ Price(a, b, i, j, m) = Price(a, b, i - 1, j, m) + 1
<1>1. i - 1 \in Nat /\ (1..(i - 1)) \subseteq (1..i)
  OBVIOUS
<1>2. m \in Chains(i, j)
  BY <1>1 DEF Chains
<1>3. Cardinality(m) \in Nat /\ Cardinality(Wrong(a, b, m)) \in Nat
  BY <1>1, ChainType
<1> QED
  BY <1>2, <1>3 DEF Price

LEMMA WiderChain ==
  ASSUME NEW a, NEW b, NEW i \in Nat, NEW j \in Nat \ {0}, NEW m \in Chains(i, j - 1)
  PROVE  m \in Chains(i, j) /\ Price(a, b, i, j, m) = Price(a, b, i, j - 1, m) + 1
<1>1. j - 1 \in Nat /\ (1..(j - 1)) \subseteq (1..j)
  OBVIOUS
<1>2. m \in Chains(i, j)
  BY <1>1 DEF Chains
<1>3. Cardinality(m) \in Nat /\ Cardinality(Wrong(a, b, m)) \in Nat
  BY <1>1, ChainType
<1> QED
  BY <1>2, <1>3 DEF Price

Off(a, b, i, j) == IF a[i] = b[j] THEN 0 ELSE 1

(* Matching the last letters.                                              *)
LEMMA LongerChain ==
  ASSUME NEW a, NEW b, NEW i \in Nat \ {0}, NEW j \in Nat \ {0}, NEW m \in Chains(i - 1, j - 1)
  PROVE  /\ m \cup {<<i, j>>} \in Chains(i, j)
         /\ Price(a, b, i, j, m \cup {<<i, j>>}) = Price(a, b, i - 1, j - 1, m) + Off(a, b, i, j)
<1> DEFINE p == <<i, j>>
           m1 == m \cup {p}
<1>1. i - 1 \in Nat /\ j - 1 \in Nat /\ p[1] = i /\ p[2] = j
  OBVIOUS
<1>2. \A q \in m : /\ q \in (1..i) \X (1..j)
                   /\ q[1] < i /\ q[2] < j
  <2>1. ASSUME NEW q \in m PROVE q \in (1..i) \X (1..j) /\ q[1] < i /\ q[2] < j
    <3>1. q \in (1..(i - 1)) \X (1..(j - 1))
      BY DEF Chains
    <3> QED
      BY <3>1
  <2> QED
    BY <2>1
<1>3. p \notin m /\ p \in (1..i) \X (1..j)
  BY <1>1, <1>2
<1>4. IsFiniteSet(m) /\ IsFiniteSet(Wrong(a, b, m))
      /\ Cardinality(m) \in Nat /\ Cardinality(Wrong(a, b, m)) \in Nat
  BY <1>1, ChainType
<1> HIDE DEF p
<1>5. Chain(m1)
  <2>1. Chain(m)
    BY DEF Chains
  <2> QED
    BY <1>1, <1>2, <2>1 DEF Chain
<1>6. m1 \in Chains(i, j)
  BY <1>2, <1>3, <1>5 DEF Chains
<1>7. Cardinality(m1) = Cardinality(m) + 1
  BY <1>3, <1>4, FS_AddElement
<1>8. Cardinality(Wrong(a, b, m1)) = Cardinality(Wrong(a, b, m)) + Off(a, b, i, j)
  <2>1. CASE a[i] = b[j]
    <3>1. Wrong(a, b, m1) = Wrong(a, b, m)
      BY <1>1, <2>1 DEF Wrong
    <3> QED
      BY <1>4, <2>1, <3>1 DEF Off
  <2>2. CASE a[i] # b[j]
    <3>1. Wrong(a, b, m1) = Wrong(a, b, m) \cup {p}
      BY <1>1, <2>2 DEF Wrong
    <3>2. p \notin Wrong(a, b, m)
      BY <1>3 DEF Wrong
    <3>3. Cardinality(Wrong(a, b, m1)) = Cardinality(Wrong(a, b, m)) + 1
      BY <1>4, <3>1, <3>2, FS_AddElement
    <3> QED
      BY <2>2, <3>3 DEF Off
  <2> QED
    BY <2>1, <2>2
<1>9. Off(a, b, i, j) \in Int
  BY DEF Off
<1>10. Price(a, b, i, j, m1) = Price(a, b, i - 1, j - 1, m) + Off(a, b, i, j)
  BY <1>4, <1>7, <1>8, <1>9 DEF Price
<1> QED
  BY <1>6, <1>10 DEF p

(* A matching leaves one of the last letters out or matches the two.       *)
LEMMA LastLetters ==
  ASSUME NEW i \in Nat \ {0}, NEW j \in Nat \ {0}, NEW m \in Chains(i, j)
  PROVE  \/ m \in Chains(i - 1, j)
         \/ m \in Chains(i, j - 1)
         \/ \E m0 \in Chains(i - 1, j - 1) : m = m0 \cup {<<i, j>>}
<1> DEFINE p == <<i, j>>
<1>0. Chain(m) /\ p[1] = i /\ p[2] = j
  BY DEF Chains
<1>1. \A q \in m : q[1] \in 1..i /\ q[2] \in 1..j /\ q = <<q[1], q[2]>>
  <2>1. ASSUME NEW q \in m PROVE q[1] \in 1..i /\ q[2] \in 1..j /\ q = <<q[1], q[2]>>
    <3>1. q \in (1..i) \X (1..j)
      BY DEF Chains
    <3> QED
      BY <3>1
  <2> QED
    BY <2>1
<1>2. \A k, l \in Nat : (\A q \in m : q[1] <= k /\ q[2] <= l) => m \in Chains(k, l)
  <2>1. ASSUME NEW k \in Nat, NEW l \in Nat, \A q \in m : q[1] <= k /\ q[2] <= l PROVE m \in Chains(k, l)
    <3>1. ASSUME NEW q \in m PROVE q \in (1..k) \X (1..l)
      <4>1. q[1] \in 1..k /\ q[2] \in 1..l
        BY <1>1, <2>1
      <4> QED
        BY <1>1, <4>1
    <3> QED
      BY <1>0, <3>1 DEF Chains
  <2> QED
    BY <2>1
<1>3. CASE p \in m
  <2> DEFINE m0 == m \ {p}
  <2>1. ASSUME NEW q \in m0 PROVE q \in (1..(i - 1)) \X (1..(j - 1))
    <3>1. q \in m /\ q # p
      OBVIOUS
    <3>2. (q[1] < p[1] /\ q[2] < p[2]) \/ (p[1] < q[1] /\ p[2] < q[2])
      BY <1>0, <1>3, <3>1 DEF Chain
    <3>3. q[1] \in 1..(i - 1) /\ q[2] \in 1..(j - 1)
      BY <1>0, <1>1, <3>1, <3>2
    <3> QED
      BY <1>1, <3>1, <3>3
  <2>2. Chain(m0)
    BY <1>0 DEF Chain
  <2>3. m0 \in Chains(i - 1, j - 1)
    BY <2>1, <2>2 DEF Chains
  <2>4. m = m0 \cup {p}
    BY <1>3
  <2> QED
    BY <2>3, <2>4
<1>4. CASE p \notin m /\ \E q \in m : q[1] = i
  <2>1. PICK q \in m : q[1] = i
    BY <1>4
  <2>2. q[2] \in 1..j /\ q[2] # j
    BY <1>1, <1>4, <2>1
  <2>3. ASSUME NEW r \in m PROVE r[1] <= i /\ r[2] <= j - 1
    <3>1. r # q => (r[1] < q[1] /\ r[2] < q[2]) \/ (q[1] < r[1] /\ q[2] < r[2])
      BY <1>0 DEF Chain
    <3>2. r[1] \in 1..i /\ r[2] \in 1..j /\ q[2] \in 1..j
      BY <1>1
    <3> QED
      BY <2>1, <2>2, <3>1, <3>2
  <2>4. j - 1 \in Nat
    OBVIOUS
  <2> QED
    BY <1>2, <2>3, <2>4
<1>5. CASE ~ \E q \in m : q[1] = i
  <2>1. ASSUME NEW r \in m PROVE r[1] <= i - 1 /\ r[2] <= j
    BY <1>1, <1>5
  <2>2. i - 1 \in Nat
    OBVIOUS
  <2> QED
    BY <1>2, <2>1, <2>2
<1> QED
  BY <1>3, <1>4, <1>5

LEMMA CellIsCheapest ==
  ASSUME NEW a, NEW b, NEW i \in Nat \ {0}, NEW j \in Nat \ {0}, NEW x \in Nat, NEW y \in Nat, NEW z \in Nat,
         Cheapest(a, b, i - 1, j, x), Cheapest(a, b, i, j - 1, y), Cheapest(a, b, i - 1, j - 1, z)
  PROVE  Cheapest(a, b, i, j, Least(Least(x, y) + 1, z + Off(a, b, i, j)))
<1> DEFINE d == Off(a, b, i, j)
           v == Least(Least(x, y) + 1, z + d)
<1>1. i - 1 \in Nat /\ j - 1 \in Nat /\ i \in Nat /\ j \in Nat /\ d \in Nat
  BY DEF Off
<1>2. /\ v \in Nat /\ v <= x + 1 /\ v <= y + 1 /\ v <= z + d
      /\ v = x + 1 \/ v = y + 1 \/ v = z + d
  BY <1>1 DEF Least
<1>3. ASSUME NEW m \in Chains(i - 1, j)
      PROVE  m \in Chains(i, j) /\ Price(a, b, i, j, m) = Price(a, b, i - 1, j, m) + 1
             /\ Price(a, b, i - 1, j, m) \in Int
  <2>1. Price(a, b, i - 1, j, m) \in Int
    BY <1>1, ChainType
  <2> QED
    BY <1>1, <2>1, TallerChain
<1>4. ASSUME NEW m \in Chains(i, j - 1)
      PROVE  m \in Chains(i, j) /\ Price(a, b, i, j, m) = Price(a, b, i, j - 1, m) + 1
             /\ Price(a, b, i, j - 1, m) \in Int
  <2>1. Price(a, b, i, j - 1, m) \in Int
    BY <1>1, ChainType
  <2> QED
    BY <1>1, <2>1, WiderChain
<1>5. ASSUME NEW m \in Chains(i - 1, j - 1)
      PROVE  /\ m \cup {<<i, j>>} \in Chains(i, j)
             /\ Price(a, b, i, j, m \cup {<<i, j>>}) = Price(a, b, i - 1, j - 1, m) + d
             /\ Price(a, b, i - 1, j - 1, m) \in Int
  <2>1. Price(a, b, i - 1, j - 1, m) \in Int
    BY <1>1, ChainType
  <2> QED
    BY <2>1, LongerChain
<1> HIDE DEF v, d
<1>6. \E m \in Chains(i, j) : Price(a, b, i, j, m) = v
  <2>1. CASE v = x + 1
    <3>1. PICK m \in Chains(i - 1, j) : Price(a, b, i - 1, j, m) = x
      BY DEF Cheapest
    <3> QED
      BY <1>3, <2>1, <3>1
  <2>2. CASE v = y + 1
    <3>1. PICK m \in Chains(i, j - 1) : Price(a, b, i, j - 1, m) = y
      BY DEF Cheapest
    <3> QED
      BY <1>4, <2>2, <3>1
  <2>3. CASE v = z + d
    <3>1. PICK m \in Chains(i - 1, j - 1) : Price(a, b, i - 1, j - 1, m) = z
      BY DEF Cheapest
    <3>2. Price(a, b, i, j, m \cup {<<i, j>>}) = v
      BY <1>5, <2>3, <3>1
    <3> QED
      BY <1>5, <3>2
  <2> QED
    BY <1>2, <2>1, <2>2, <2>3
<1>7. ASSUME NEW m \in Chains(i, j) PROVE v <= Price(a, b, i, j, m)
  <2>1. CASE m \in Chains(i - 1, j)
    <3>1. x <= Price(a, b, i - 1, j, m)
      BY <2>1 DEF Cheapest
    <3> QED
      BY <1>2, <1>3, <2>1, <3>1
  <2>2. CASE m \in Chains(i, j - 1)
    <3>1. y <= Price(a, b, i, j - 1, m)
      BY <2>2 DEF Cheapest
    <3> QED
      BY <1>2, <1>4, <2>2, <3>1
  <2>3. CASE \E m0 \in Chains(i - 1, j - 1) : m = m0 \cup {<<i, j>>}
    <3>1. PICK m0 \in Chains(i - 1, j - 1) : m = m0 \cup {<<i, j>>}
      BY <2>3
    <3>2. z <= Price(a, b, i - 1, j - 1, m0)
      BY DEF Cheapest
    <3>3. Price(a, b, i, j, m) = Price(a, b, i - 1, j - 1, m0) + d /\ Price(a, b, i - 1, j - 1, m0) \in Int
      BY <1>5, <3>1
    <3> QED
      BY <1>1, <1>2, <3>2, <3>3
  <2> QED
    BY <2>1, <2>2, <2>3, LastLetters
<1>8. Cheapest(a, b, i, j, v)
  BY <1>6, <1>7 DEF Cheapest
<1> QED
  BY <1>8 DEF v, d

(* Where one side has no letters there is nothing to match.                *)
LEMMA EdgeIsCheapest ==
  ASSUME NEW a, NEW b, NEW i \in Nat, NEW j \in Nat, i = 0 \/ j = 0
  PROVE  Cheapest(a, b, i, j, i + j)
<1>1. (1..i) \X (1..j) = {}
  <2>1. 1..0 = {}
    OBVIOUS
  <2> QED
    BY <2>1
<1>2. Chains(i, j) = {{}}
  BY <1>1 DEF Chains, Chain
<1>3. Wrong(a, b, {}) = {}
  BY DEF Wrong
<1>4. Price(a, b, i, j, {}) = i + j
  BY <1>3, FS_EmptySet DEF Price
<1> QED
  BY <1>2, <1>4 DEF Cheapest

-----------------------------------------------------------------------------
(* The first w cells of the row for i.                                     *)
RowIs(a, b, i, row, w) == /\ row \in Seq(Nat) /\ Len(row) = w
                          /\ \A k \in 1..w : Cheapest(a, b, i, k - 1, row[k])

LEMMA LeastType == \A x, y \in Nat : Least(x, y) \in Nat
BY DEF Least

LEMMA CellFollows ==
  ASSUME NEW a, NEW b, NEW n \in Nat, NEW i \in Nat \ {0}, NEW j \in Nat \ {0}, j <= n, NEW prev, NEW row,
         RowIs(a, b, i - 1, prev, n + 1), RowIs(a, b, i, row, j)
  PROVE  RowIs(a, b, i, Append(row, NextCell(a, b, prev, row, i)), j + 1)
<1>1. j + 1 \in 1..(n + 1) /\ j \in 1..(n + 1) /\ j + 1 - 1 = j /\ j \in 1..j
  OBVIOUS
<1>2. prev \in Seq(Nat) /\ Len(prev) = n + 1 /\ \A k \in 1..(n + 1) : Cheapest(a, b, i - 1, k - 1, prev[k])
  BY DEF RowIs
<1>3. row \in Seq(Nat) /\ Len(row) = j /\ \A k \in 1..j : Cheapest(a, b, i, k - 1, row[k])
  BY DEF RowIs
<1> DEFINE x == prev[j + 1]
           y == row[j]
           z == prev[j]
           d == Off(a, b, i, j)
           v == Least(Least(x, y) + 1, z + d)
<1>4. x \in Nat /\ y \in Nat /\ z \in Nat /\ d \in Nat
  <2>1. x \in Nat
    BY <1>1, <1>2, ElementOfSeq
  <2>2. y \in Nat
    BY <1>1, <1>3, ElementOfSeq
  <2>3. z \in Nat
    BY <1>1, <1>2, ElementOfSeq
  <2> QED
    BY <2>1, <2>2, <2>3 DEF Off
<1>5. Cheapest(a, b, i - 1, j, x) /\ Cheapest(a, b, i, j - 1, y) /\ Cheapest(a, b, i - 1, j - 1, z)
  <2>1. Cheapest(a, b, i - 1, (j + 1) - 1, x)
    BY <1>1, <1>2, Zenon
  <2> QED
    BY <1>1, <1>2, <1>3, <2>1
<1>6. NextCell(a, b, prev, row, i) = v
  BY <1>3 DEF NextCell, Off
<1> HIDE DEF x, y, z, d
<1>7. v \in Nat
  <2> DEFINE l == Least(x, y)
  <2>1. l \in Nat
    BY <1>4, LeastType
  <2> HIDE DEF l
  <2>2. l + 1 \in Nat /\ z + d \in Nat
    BY <1>4, <2>1
  <2>3. Least(l + 1, z + d) \in Nat
    BY <2>2, LeastType
  <2> QED
    BY <2>3, Zenon DEF l
<1>8. Cheapest(a, b, i, j, v)
  BY <1>4, <1>5, CellIsCheapest DEF d
<1> HIDE DEF v
<1> DEFINE r == Append(row, v)
<1>9. r \in Seq(Nat) /\ Len(r) = j + 1 /\ r[j + 1] = v /\ \A k \in 1..j : r[k] = row[k]
  BY <1>3, <1>7, AppendProperties
<1>10. ASSUME NEW k \in 1..(j + 1) PROVE Cheapest(a, b, i, k - 1, r[k])
  <2>1. CASE k = j + 1
    BY <1>1, <1>8, <1>9, <2>1
  <2>2. CASE k # j + 1
    <3>1. k \in 1..j
      BY <2>2
    <3>2. Cheapest(a, b, i, k - 1, row[k])
      BY <1>3, <3>1
    <3> QED
      BY <1>9, <3>1, <3>2
  <2> QED
    BY <2>1, <2>2
<1> HIDE DEF r
<1>11. RowIs(a, b, i, r, j + 1)
  BY <1>9, <1>10 DEF RowIs
<1> QED
  BY <1>6, <1>11 DEF r

-----------------------------------------------------------------------------
LEMMA WrittenIs ==
  ASSUME NEW a, NEW b \in Seq(Nat), NEW i \in Nat \ {0}, NEW prev, RowIs(a, b, i - 1, prev, Len(b) + 1)
  PROVE  RowIs(a, b, i, Written(a, b, prev, i, i), Len(b) + 1)
<1> DEFINE n == Len(b)
           longer == [row \in Seq(Nat) |-> Append(row, NextCell(a, b, prev, row, i))]
           up == CHOOSE up : up = [j \in 0..n |-> IF j = 0 THEN <<i>> ELSE longer[up[j - 1]]]
           F == [j \in 1..n |-> longer]
           Good == [j \in 0..n |-> {row \in Seq(Nat) : RowIs(a, b, i, row, j + 1)}]
<1>1. n \in Nat /\ Written(a, b, prev, i, i) = up[n]
  BY LenProperties DEF Written
<1>2. RowIs(a, b, i, <<i>>, 1)
  <2>1. Cheapest(a, b, i, 0, i + 0)
    BY EdgeIsCheapest
  <2>2. <<i>> \in Seq(Nat) /\ Len(<<i>>) = 1 /\ <<i>>[1] = i /\ i + 0 = i /\ 1 - 1 = 0
    OBVIOUS
  <2>3. ASSUME NEW k \in 1..1 PROVE Cheapest(a, b, i, k - 1, <<i>>[k])
    <3>1. k = 1
      OBVIOUS
    <3> QED
      BY <2>1, <2>2, <3>1
  <2> QED
    BY <2>2, <2>3 DEF RowIs
<1>3. ASSUME NEW j \in 1..n, NEW row \in Seq(Nat), RowIs(a, b, i, row, j)
      PROVE  longer[row] \in Seq(Nat) /\ RowIs(a, b, i, longer[row], j + 1)
  <2>1. j \in Nat \ {0} /\ j <= n
    BY <1>1
  <2>2. longer[row] = Append(row, NextCell(a, b, prev, row, i))
    OBVIOUS
  <2> HIDE DEF longer
  <2>3. RowIs(a, b, i, longer[row], j + 1)
    BY <1>1, <1>3, <2>1, <2>2, CellFollows
  <2>4. longer[row] \in Seq(Nat)
    BY <2>3, Zenon DEF RowIs
  <2> QED
    BY <2>3, <2>4
<1> HIDE DEF longer, n
<1>4. StaysIn(Good, <<i>>, n, F)
  <2>1. <<i>> \in Good[0]
    <3>1. 0 \in 0..n /\ 0 + 1 = 1 /\ <<i>> \in Seq(Nat)
      BY <1>1
    <3> QED
      BY <1>2, <3>1
  <2>2. ASSUME NEW j \in 1..n, NEW row \in Good[j - 1] PROVE F[j][row] \in Good[j]
    <3>1. j \in 0..n /\ j - 1 \in 0..n /\ j - 1 + 1 = j
      BY <1>1
    <3>2. row \in Seq(Nat) /\ RowIs(a, b, i, row, j)
      BY <3>1
    <3>3. longer[row] \in Seq(Nat) /\ RowIs(a, b, i, longer[row], j + 1)
      BY <1>3, <3>2
    <3> QED
      BY <3>1, <3>3
  <2> HIDE DEF Good, F
  <2> QED
    BY <2>1, <2>2 DEF StaysIn
<1>5. PICK g : /\ DOMAIN g = 0..n /\ g = [k \in 0..n |-> g[k]]
               /\ Follows(g, <<i>>, n, F)
               /\ \A k \in 0..n : g[k] \in Good[k]
  <2> HIDE DEF Good, F
  <2> QED
    BY <1>1, <1>4, Loop
<1>6. g = [j \in 0..n |-> IF j = 0 THEN <<i>> ELSE longer[g[j - 1]]]
  <2>1. ASSUME NEW j \in 0..n PROVE g[j] = IF j = 0 THEN <<i>> ELSE longer[g[j - 1]]
    <3>1. CASE j = 0
      BY <1>5, <3>1 DEF Follows
    <3>2. CASE j # 0
      <4>1. j \in 1..n
        BY <1>1, <3>2
      <4> QED
        BY <1>5, <3>2, <4>1 DEF Follows
    <3> QED
      BY <3>1, <3>2
  <2> QED
    BY <1>5, <2>1
<1>7. up = [j \in 0..n |-> IF j = 0 THEN <<i>> ELSE longer[up[j - 1]]]
  BY <1>6
<1> HIDE DEF up
<1> DEFINE D == {j \in 0..n : up[j] \in Seq(Nat) /\ RowIs(a, b, i, up[j], j + 1)}
<1>8. 0 \in D
  <2>1. 0 \in 0..n /\ 0 + 1 = 1 /\ <<i>> \in Seq(Nat)
    BY <1>1
  <2>2. up[0] = <<i>>
    BY <1>7, <2>1
  <2> QED
    BY <1>2, <2>1, <2>2
<1>9. ASSUME NEW j \in 1..n, j - 1 \in D PROVE j \in D
  <2>1. j \in 0..n /\ j # 0 /\ j - 1 + 1 = j
    BY <1>1
  <2>2. up[j] = longer[up[j - 1]]
    BY <1>7, <2>1
  <2>3. up[j - 1] \in Seq(Nat) /\ RowIs(a, b, i, up[j - 1], j)
    BY <1>9, <2>1
  <2> QED
    BY <1>3, <2>1, <2>2, <2>3
<1>10. \A j \in 0..n : j \in D
  <2> HIDE DEF D
  <2> QED
    BY <1>1, <1>8, <1>9, Induction
<1>11. n \in 0..n
  BY <1>1
<1>12. RowIs(a, b, i, up[n], n + 1)
  BY <1>10, <1>11
<1> QED
  BY <1>1, <1>12 DEF n

(* The two rows of a round; what the older one has does not matter.        *)
RowsAre(a, b, i, rows) == /\ rows \in [prev : Seq(Nat), cur : Seq(Nat)]
                          /\ RowIs(a, b, i, rows.prev, Len(b) + 1)

LEMMA FirstRowsAre ==
  ASSUME NEW a, NEW b \in Seq(Nat)
  PROVE  RowsAre(a, b, 0, FirstRows(b))
<1> DEFINE n == Len(b)
           p == [j \in 1..(n + 1) |-> j - 1]
           q == [j \in 1..(n + 1) |-> 0]
<1>1. n \in Nat /\ n + 1 \in Nat
  BY LenProperties
<1> HIDE DEF n
<1>2. p \in Seq(Nat) /\ Len(p) = n + 1
  <2>1. DOMAIN p = 1..(n + 1) /\ (\A k \in 1..(n + 1) : p[k] \in Nat) /\ p = [k \in 1..(n + 1) |-> p[k]]
    BY <1>1
  <2> HIDE DEF p
  <2> QED
    BY <1>1, <2>1, LenOf
<1>3. q \in Seq(Nat)
  <2>1. DOMAIN q = 1..(n + 1) /\ (\A k \in 1..(n + 1) : q[k] \in Nat) /\ q = [k \in 1..(n + 1) |-> q[k]]
    BY <1>1
  <2> HIDE DEF q
  <2> QED
    BY <1>1, <2>1, LenOf
<1>4. ASSUME NEW k \in 1..(n + 1) PROVE Cheapest(a, b, 0, k - 1, p[k])
  <2>1. k - 1 \in Nat /\ 0 \in Nat /\ p[k] = 0 + (k - 1)
    BY <1>1
  <2> HIDE DEF p
  <2>2. Cheapest(a, b, 0, k - 1, 0 + (k - 1))
    BY <2>1, EdgeIsCheapest
  <2> QED
    BY <2>1, <2>2
<1>5. FirstRows(b) = [prev |-> p, cur |-> q]
  BY Zenon DEF FirstRows, n
<1> HIDE DEF p, q
<1>6. RowIs(a, b, 0, p, n + 1)
  BY <1>2, <1>4 DEF RowIs
<1>7. [prev |-> p, cur |-> q] \in [prev : Seq(Nat), cur : Seq(Nat)]
  BY <1>2, <1>3
<1> QED
  BY <1>5, <1>6, <1>7 DEF RowsAre, n

LEMMA NextRowsAre ==
  ASSUME NEW a, NEW b \in Seq(Nat), NEW i \in Nat \ {0}, NEW rows, RowsAre(a, b, i - 1, rows)
  PROVE  RowsAre(a, b, i, NextRows(a, b, rows, i))
<1> DEFINE w == Written(a, b, rows.prev, i, i)
<1>1. RowIs(a, b, i, w, Len(b) + 1)
  BY WrittenIs DEF RowsAre
<1>2. w \in Seq(Nat) /\ rows.prev \in Seq(Nat)
  BY <1>1 DEF RowIs, RowsAre
<1>3. NextRows(a, b, rows, i) = [prev |-> w, cur |-> rows.prev]
  BY DEF NextRows
<1> HIDE DEF w
<1> QED
  BY <1>1, <1>2, <1>3 DEF RowsAre

LEMMA LevenshteinIsCheapest ==
  ASSUME NEW a \in Seq(Nat), NEW b \in Seq(Nat)
  PROVE  Levenshtein(a, b) \in Nat /\ Cheapest(a, b, Len(a), Len(b), Levenshtein(a, b))
<1> DEFINE n == Len(a)
           Both == [prev : Seq(Nat), cur : Seq(Nat)]
           F == [i \in 1..n |-> [rows \in Both |-> NextRows(a, b, rows, i)]]
           after == CHOOSE after : after = [i \in 0..n |-> IF i = 0 THEN FirstRows(b) ELSE F[i][after[i - 1]]]
           Good == [i \in 0..n |-> {rows \in Both : RowsAre(a, b, i, rows)}]
<1>1. n \in Nat /\ Len(b) \in Nat /\ Levenshtein(a, b) = after[n].prev[Len(b) + 1]
  BY LenProperties DEF Levenshtein
<1>2. FirstRows(b) \in Both /\ RowsAre(a, b, 0, FirstRows(b))
  BY FirstRowsAre DEF RowsAre
<1>3. ASSUME NEW i \in 1..n, NEW rows \in Both, RowsAre(a, b, i - 1, rows)
      PROVE  /\ F[i][rows] = NextRows(a, b, rows, i)
             /\ NextRows(a, b, rows, i) \in Both /\ RowsAre(a, b, i, NextRows(a, b, rows, i))
  <2>1. i \in Nat \ {0}
    BY <1>1
  <2>2. RowsAre(a, b, i, NextRows(a, b, rows, i))
    BY <1>3, <2>1, NextRowsAre
  <2>3. NextRows(a, b, rows, i) \in Both
    BY <2>2, Zenon DEF RowsAre
  <2>4. F[i][rows] = NextRows(a, b, rows, i)
    OBVIOUS
  <2> QED
    BY <2>2, <2>3, <2>4
<1> HIDE DEF F, n, Both
<1>4. StaysIn(Good, FirstRows(b), n, F)
  <2>1. FirstRows(b) \in Good[0]
    BY <1>1, <1>2
  <2>2. ASSUME NEW i \in 1..n, NEW rows \in Good[i - 1] PROVE F[i][rows] \in Good[i]
    <3>1. i \in 0..n /\ i - 1 \in 0..n
      BY <1>1
    <3>2. rows \in Both /\ RowsAre(a, b, i - 1, rows)
      BY <3>1
    <3>3. F[i][rows] \in Both /\ RowsAre(a, b, i, F[i][rows])
      BY <1>3, <3>2
    <3> QED
      BY <3>1, <3>3
  <2> HIDE DEF Good
  <2> QED
    BY <2>1, <2>2 DEF StaysIn
<1>5. PICK g : /\ DOMAIN g = 0..n /\ g = [k \in 0..n |-> g[k]]
               /\ Follows(g, FirstRows(b), n, F)
               /\ \A k \in 0..n : g[k] \in Good[k]
  <2> HIDE DEF Good
  <2> QED
    BY <1>1, <1>4, Loop
<1>6. g = [i \in 0..n |-> IF i = 0 THEN FirstRows(b) ELSE F[i][g[i - 1]]]
  <2>1. ASSUME NEW i \in 0..n PROVE g[i] = IF i = 0 THEN FirstRows(b) ELSE F[i][g[i - 1]]
    <3>1. CASE i = 0
      BY <1>5, <3>1 DEF Follows
    <3>2. CASE i # 0
      <4>1. i \in 1..n /\ i - 1 \in 0..n
        BY <1>1, <3>2
      <4> QED
        BY <1>5, <3>2, <4>1 DEF Follows
    <3> QED
      BY <3>1, <3>2
  <2> QED
    BY <1>5, <2>1
<1>7. after = [i \in 0..n |-> IF i = 0 THEN FirstRows(b) ELSE F[i][after[i - 1]]]
  BY <1>6
<1> HIDE DEF after
<1> DEFINE D == {i \in 0..n : after[i] \in Both /\ RowsAre(a, b, i, after[i])}
<1>8. 0 \in D
  <2>1. 0 \in 0..n
    BY <1>1
  <2>2. after[0] = FirstRows(b)
    BY <1>7, <2>1
  <2> QED
    BY <1>2, <2>1, <2>2
<1>9. ASSUME NEW i \in 1..n, i - 1 \in D PROVE i \in D
  <2>1. i \in 0..n /\ i # 0
    BY <1>1
  <2>2. after[i] = F[i][after[i - 1]]
    BY <1>7, <2>1
  <2>3. after[i - 1] \in Both /\ RowsAre(a, b, i - 1, after[i - 1])
    BY <1>9
  <2> QED
    BY <1>3, <2>1, <2>2, <2>3
<1>10. \A i \in 0..n : i \in D
  <2> HIDE DEF D
  <2> QED
    BY <1>1, <1>8, <1>9, Induction
<1>11. n \in 0..n
  BY <1>1
<1>12. RowIs(a, b, n, after[n].prev, Len(b) + 1)
  BY <1>10, <1>11 DEF RowsAre
<1>13. Len(b) + 1 \in 1..(Len(b) + 1) /\ Len(b) + 1 - 1 = Len(b)
  BY <1>1
<1>14. Cheapest(a, b, n, Len(b), after[n].prev[Len(b) + 1])
  <2> DEFINE w == Len(b) + 1
             row == after[n].prev
  <2>1. w \in 1..w /\ w - 1 = Len(b)
    BY <1>13
  <2> HIDE DEF w, row
  <2>2. RowIs(a, b, n, row, w)
    BY <1>12 DEF w, row
  <2>3. Cheapest(a, b, n, w - 1, row[w])
    BY <2>1, <2>2 DEF RowIs
  <2> QED
    BY <2>1, <2>3, Zenon DEF w, row
<1>15. after[n].prev[Len(b) + 1] \in Nat
  BY <1>12, <1>13, ElementOfSeq DEF RowIs
<1> QED
  BY <1>1, <1>14, <1>15 DEF n

(* What levenshtein computes is the edit distance.                         *)
THEOREM LevenshteinIsEditDistance ==
  ASSUME NEW a \in Seq(Nat), NEW b \in Seq(Nat)
  PROVE  Levenshtein(a, b) \in Nat /\ Levenshtein(a, b) = EditDistance(a, b)
<1> DEFINE d == Levenshtein(a, b)
           S == {Cost(a, b, m) : m \in Matchings(a, b)}
<1>1. d \in Nat /\ Cheapest(a, b, Len(a), Len(b), d)
  BY LevenshteinIsCheapest
<1>2. Len(a) \in Nat /\ Len(b) \in Nat /\ DOMAIN a = 1..Len(a) /\ DOMAIN b = 1..Len(b)
  BY LenProperties
<1>3. Matchings(a, b) = Chains(Len(a), Len(b))
  BY <1>2 DEF Matchings, Chains, Chain
<1>4. \A m : Cost(a, b, m) = Price(a, b, Len(a), Len(b), m)
  BY DEF Cost, Price, Wrong
<1> HIDE DEF d
<1>5. d \in S /\ \A x \in S : d <= x
  BY <1>1, <1>3, <1>4 DEF Cheapest
<1>6. \A x \in S : x \in Int
  <2>1. \A m \in Chains(Len(a), Len(b)) : Price(a, b, Len(a), Len(b), m) \in Int
    BY <1>2, ChainType
  <2> QED
    BY <1>3, <1>4, <2>1
<1> HIDE DEF S
<1>7. \A x \in S : (\A y \in S : x <= y) => x = d
  BY <1>1, <1>5, <1>6
<1>8. (CHOOSE x \in S : \A y \in S : x <= y) = d
  BY <1>5, <1>7
<1>9. EditDistance(a, b) = d
  BY <1>8 DEF EditDistance, S, Min
<1> QED
  BY <1>1, <1>9 DEF d

-----------------------------------------------------------------------------
(* cmp.Compare orders any two names.                                       *)
LEMMA BeforeIsStrict ==
  ASSUME NEW a \in Seq(Nat) PROVE ~Before(a, a)
<1>1. DOMAIN a = 1..Len(a) /\ Len(a) \in Nat
  BY LenProperties
<1>2. ASSUME NEW k \in 0..Len(a), k < Len(a) PROVE ~(a[k + 1] < a[k + 1])
  <2>1. k + 1 \in 1..Len(a)
    BY <1>1, <1>2
  <2>2. a[k + 1] \in Nat
    BY <2>1, ElementOfSeq
  <2> QED
    BY <2>2
<1> QED
  BY <1>2 DEF Before

(* Where two names first differ.                                           *)
PartAt(a, b, k) == /\ k \in 0..Len(a) /\ k < Len(b)
                   /\ \A j \in 1..k : a[j] = b[j]
                   /\ k < Len(a) => a[k + 1] < b[k + 1]

LEMMA BeforeIsTransitive ==
  ASSUME NEW a \in Seq(Nat), NEW b \in Seq(Nat), NEW d \in Seq(Nat), Before(a, b), Before(b, d)
  PROVE  Before(a, d)
<1>1. Len(a) \in Nat /\ Len(b) \in Nat /\ Len(d) \in Nat
  BY LenProperties
<1>2. PICK k : PartAt(a, b, k)
  BY DEF Before, PartAt
<1>3. PICK l : PartAt(b, d, l)
  BY DEF Before, PartAt
<1>4. /\ k \in 0..Len(a) /\ k < Len(b) /\ l \in 0..Len(b) /\ l < Len(d)
      /\ (\A j \in 1..k : a[j] = b[j]) /\ (\A j \in 1..l : b[j] = d[j])
  BY <1>2, <1>3 DEF PartAt
<1>5. k < Len(a) => a[k + 1] < b[k + 1] /\ a[k + 1] \in Nat /\ b[k + 1] \in Nat
  <2>1. k < Len(a) => k + 1 \in 1..Len(a) /\ k + 1 \in 1..Len(b)
    BY <1>1, <1>4
  <2> QED
    BY <1>2, <2>1, ElementOfSeq DEF PartAt
<1>6. l < Len(b) => b[l + 1] < d[l + 1] /\ b[l + 1] \in Nat /\ d[l + 1] \in Nat
  <2>1. l < Len(b) => l + 1 \in 1..Len(b) /\ l + 1 \in 1..Len(d)
    BY <1>1, <1>4
  <2> QED
    BY <1>3, <2>1, ElementOfSeq DEF PartAt
<1>7. CASE k < l
  <2>1. k + 1 \in 1..l /\ k < Len(d) /\ \A j \in 1..k : j \in 1..l
    BY <1>1, <1>4, <1>7
  <2>2. b[k + 1] = d[k + 1] /\ \A j \in 1..k : a[j] = d[j]
    BY <1>4, <2>1
  <2>3. PartAt(a, d, k)
    BY <1>4, <1>5, <2>1, <2>2 DEF PartAt
  <2> QED
    BY <2>3 DEF PartAt, Before
<1>8. CASE k = l
  <2>1. \A j \in 1..k : a[j] = d[j]
    BY <1>4, <1>8
  <2>2. k < Len(a) => a[k + 1] < d[k + 1]
    <3>1. b[k + 1] < d[k + 1] /\ b[k + 1] \in Nat /\ d[k + 1] \in Nat
      BY <1>4, <1>6, <1>8
    <3> DEFINE x == a[k + 1]
               y == b[k + 1]
               z == d[k + 1]
    <3>2. k < Len(a) => x < y /\ x \in Nat
      BY <1>5
    <3>3. y < z /\ y \in Nat /\ z \in Nat
      BY <3>1
    <3> HIDE DEF x, y, z
    <3>4. k < Len(a) => x < z
      BY <3>2, <3>3
    <3> QED
      BY <3>4 DEF x, z
  <2>3. PartAt(a, d, k)
    BY <1>4, <1>8, <2>1, <2>2 DEF PartAt
  <2> QED
    BY <2>3 DEF PartAt, Before
<1>9. CASE k > l
  <2>1. l \in 0..Len(a) /\ l + 1 \in 1..k /\ l < Len(b) /\ \A j \in 1..l : j \in 1..k
    BY <1>1, <1>4, <1>9
  <2>2. a[l + 1] = b[l + 1] /\ \A j \in 1..l : a[j] = d[j]
    BY <1>4, <2>1
  <2>3. PartAt(a, d, l)
    BY <1>4, <1>6, <2>1, <2>2 DEF PartAt
  <2> QED
    BY <2>3 DEF PartAt, Before
<1> QED
  BY <1>4, <1>7, <1>8, <1>9

LEMMA BeforeIsTotal ==
  ASSUME NEW a \in Seq(Nat), NEW b \in Seq(Nat), a # b
  PROVE  Before(a, b) \/ Before(b, a)
<1>1. Len(a) \in Nat /\ Len(b) \in Nat
  BY LenProperties
<1> DEFINE m == Least(Len(a), Len(b))
           Differ == {j \in 1..m : a[j] # b[j]}
<1>2. m \in Nat /\ m <= Len(a) /\ m <= Len(b) /\ (m = Len(a) \/ m = Len(b))
  BY <1>1 DEF Least
<1> HIDE DEF m
<1>3. CASE Differ = {}
  <2>1. \A j \in 1..m : a[j] = b[j]
    BY <1>3
  <2>2. Len(a) # Len(b)
    <3>1. Len(a) = Len(b) => m = Len(a)
      BY <1>2
    <3>2. Len(a) = Len(b) => \A j \in 1..Len(a) : a[j] = b[j]
      BY <2>1, <3>1
    <3> QED
      BY <3>2, SeqEqual
  <2>3. CASE m = Len(a)
    <3>1. PartAt(a, b, m)
      BY <1>1, <1>2, <2>1, <2>2, <2>3 DEF PartAt
    <3> QED
      BY <3>1 DEF PartAt, Before
  <2>4. CASE m = Len(b)
    <3>1. PartAt(b, a, m)
      BY <1>1, <1>2, <2>1, <2>2, <2>4 DEF PartAt
    <3> QED
      BY <3>1 DEF PartAt, Before
  <2> QED
    BY <1>2, <2>3, <2>4
<1>4. CASE Differ # {}
  <2>1. PICK j \in Differ : \A q \in Differ : j <= q
    <3>1. Differ \in SUBSET Nat
      OBVIOUS
    <3> HIDE DEF Differ
    <3> QED
      BY <1>4, <3>1, LeastElement
  <2>2. j \in 1..m /\ a[j] # b[j]
    BY <2>1
  <2>3. ASSUME NEW q \in 1..(j - 1) PROVE a[q] = b[q]
    <3>1. q \in 1..m /\ ~(j <= q)
      BY <1>2, <2>2
    <3> QED
      BY <2>1, <3>1
  <2> DEFINE k == j - 1
  <2>4. /\ k \in 0..Len(a) /\ k \in 0..Len(b) /\ k < Len(a) /\ k < Len(b) /\ k + 1 = j
        /\ j \in 1..Len(a) /\ j \in 1..Len(b)
    BY <1>1, <1>2, <2>2
  <2>5. a[j] \in Nat /\ b[j] \in Nat
    BY <2>4, ElementOfSeq
  <2>6. \A q \in 1..k : a[q] = b[q]
    BY <2>3
  <2> HIDE DEF k
  <2>7. CASE a[j] < b[j]
    <3>1. PartAt(a, b, k)
      BY <2>4, <2>6, <2>7 DEF PartAt
    <3> QED
      BY <3>1 DEF PartAt, Before
  <2>8. CASE b[j] < a[j]
    <3>1. PartAt(b, a, k)
      BY <2>4, <2>6, <2>8 DEF PartAt
    <3> QED
      BY <3>1 DEF PartAt, Before
  <2> QED
    BY <2>2, <2>5, <2>7, <2>8
<1> QED
  BY <1>3, <1>4

-----------------------------------------------------------------------------
(* What closestNames sorts: each known name that is near, with its distance*)
Candidate(name, m) == [name |-> m, dist |-> Levenshtein(name, m)]
NearTo(name, known) == {p \in {Candidate(name, m) : m \in known} : p.dist <= Larger(Len(name), Len(p.name)) \div 2}
Nearer(p, q) == p.dist < q.dist \/ (p.dist = q.dist /\ Before(p.name, q.name))
Pairs(S) == {e \in S \X S : Nearer(e[1], e[2])}

LEMMA NearerOrders ==
  ASSUME NEW name \in Seq(Nat), NEW known \in SUBSET Seq(Nat), IsFiniteSet(known)
  PROVE  /\ IsFiniteSet(NearTo(name, known))
         /\ StrictOrder(NearTo(name, known), Pairs(NearTo(name, known)))
         /\ \A p \in NearTo(name, known) : /\ p.name \in known /\ p.dist \in Nat
                                           /\ p = Candidate(name, p.name)
<1> DEFINE S == NearTo(name, known)
           C == {Candidate(name, m) : m \in known}
<1>1. IsFiniteSet(S)
  <2>1. IsFiniteSet(C)
    <3> DEFINE f == [m \in known |-> Candidate(name, m)]
    <3>1. f \in [known -> C] /\ \A y \in C : \E m \in known : f[m] = y
      OBVIOUS
    <3> HIDE DEF f, C
    <3> QED
      BY <3>1, FiniteImage
  <2>2. S \in SUBSET C
    BY DEF NearTo
  <2> QED
    BY <2>1, <2>2, FS_Subset
<1>2. ASSUME NEW p \in S PROVE p.name \in known /\ p.dist \in Nat /\ p = Candidate(name, p.name)
  <2>1. PICK m \in known : p = Candidate(name, m)
    BY DEF NearTo
  <2>2. p.name = m /\ p.dist = Levenshtein(name, m)
    BY <2>1 DEF Candidate
  <2>3. Levenshtein(name, m) \in Nat
    BY LevenshteinIsEditDistance
  <2> QED
    BY <2>1, <2>2, <2>3
<1>3. ASSUME NEW p \in S PROVE ~Nearer(p, p)
  <2>1. p.name \in Seq(Nat) /\ p.dist \in Nat
    BY <1>2
  <2> QED
    BY <2>1, BeforeIsStrict DEF Nearer
<1>4. ASSUME NEW p \in S, NEW q \in S, NEW r \in S, Nearer(p, q), Nearer(q, r) PROVE Nearer(p, r)
  <2>1. /\ p.name \in Seq(Nat) /\ q.name \in Seq(Nat) /\ r.name \in Seq(Nat)
        /\ p.dist \in Nat /\ q.dist \in Nat /\ r.dist \in Nat
    BY <1>2
  <2>2. Before(p.name, q.name) /\ Before(q.name, r.name) => Before(p.name, r.name)
    BY <2>1, BeforeIsTransitive
  <2> QED
    BY <1>4, <2>1, <2>2 DEF Nearer
<1>5. ASSUME NEW p \in S, NEW q \in S, p # q PROVE Nearer(p, q) \/ Nearer(q, p)
  <2>1. /\ p.name \in Seq(Nat) /\ q.name \in Seq(Nat) /\ p.dist \in Nat /\ q.dist \in Nat
        /\ p.name # q.name
    BY <1>2, <1>5
  <2>2. Before(p.name, q.name) \/ Before(q.name, p.name)
    BY <2>1, BeforeIsTotal
  <2> QED
    BY <2>1, <2>2 DEF Nearer
<1> HIDE DEF S
<1>6. \A p, q \in S : <<p, q>> \in Pairs(S) <=> Nearer(p, q)
  BY DEF Pairs
<1>7. StrictOrder(S, Pairs(S))
  BY <1>3, <1>4, <1>5, <1>6 DEF StrictOrder
<1> QED
  BY <1>1, <1>2, <1>7 DEF S

NamesOf(ps) == {ps[k].name : k \in DOMAIN ps}
Ranked(ps, name) == Sorted(NearTo(name, NamesOf(ps)), Pairs(NearTo(name, NamesOf(ps))))

LEMMA ClosestAre ==
  ASSUME NEW ps, NEW name, NEW n
  PROVE  ClosestNames(ps, name, n) = [k \in 1..Least(n, Len(Ranked(ps, name))) |-> Ranked(ps, name)[k].name]
<1>1. {Candidate(name, m) : m \in NamesOf(ps)}
        = {[name |-> ps[k].name, dist |-> Levenshtein(name, ps[k].name)] : k \in DOMAIN ps}
  BY DEF NamesOf, Candidate
<1>2. NearTo(name, NamesOf(ps))
        = {p \in {[name |-> ps[k].name, dist |-> Levenshtein(name, ps[k].name)] : k \in DOMAIN ps} :
             p.dist <= Larger(Len(name), Len(p.name)) \div 2}
  BY <1>1, Zenon DEF NearTo
<1> QED
  BY <1>2, Zenon DEF ClosestNames, Ranked, Pairs, Nearer

(* closestNames suggests the nearest names.                                *)
LEMMA ClosestAreNearest ==
  ASSUME NEW ps, IsFiniteSet(DOMAIN ps), \A k \in DOMAIN ps : ps[k].name \in Seq(Nat),
         NEW name \in Seq(Nat), NEW n \in Nat
  PROVE  AreNearest(ClosestNames(ps, name, n), name, NamesOf(ps), n)
<1> DEFINE known == NamesOf(ps)
           S == NearTo(name, known)
           N == Cardinality(S)
           r == Ranked(ps, name)
           L == Least(n, Len(r))
           s == [k \in 1..L |-> r[k].name]
           far == [m \in known |-> EditDistance(name, m)]
           near == {m \in known : 2 * far[m] <= Larger(Len(name), Len(m))}
<1>1. known \in SUBSET Seq(Nat) /\ IsFiniteSet(known)
  <2>1. IsFiniteSet(known)
    <3> DEFINE f == [k \in DOMAIN ps |-> ps[k].name]
    <3>1. f \in [DOMAIN ps -> known] /\ \A y \in known : \E k \in DOMAIN ps : f[k] = y
      BY DEF NamesOf
    <3> HIDE DEF f, known
    <3> QED
      BY <3>1, FiniteImage
  <2> QED
    BY <2>1 DEF NamesOf
<1>2. /\ IsFiniteSet(S) /\ StrictOrder(S, Pairs(S))
      /\ \A p \in S : p.name \in known /\ p.dist \in Nat /\ p = Candidate(name, p.name)
  <2> HIDE DEF known
  <2> QED
    BY <1>1, NearerOrders
<1>3. N \in Nat /\ InOrder(S, Pairs(S), r)
  <2> HIDE DEF S
  <2>1. Cardinality(S) \in Nat /\ InOrder(S, Pairs(S), Sorted(S, Pairs(S)))
    BY <1>2, SortedFacts
  <2> QED
    BY <2>1, Zenon DEF Ranked, S
<1>4. /\ r \in [1..N -> S] /\ (\A j, k \in 1..N : r[j] = r[k] => j = k)
      /\ (\A x \in S : \E k \in 1..N : r[k] = x)
      /\ \A j, k \in 1..N : j < k => <<r[j], r[k]>> \in Pairs(S)
  <2> HIDE DEF S, r
  <2> QED
    BY <1>3, Zenon DEF InOrder
<1>5. Len(r) = N /\ L \in Nat /\ L <= N /\ (L = n \/ L = N) /\ L = Least(n, N)
  <2>1. DOMAIN r = 1..N /\ (\A k \in 1..N : r[k] \in S) /\ r = [k \in 1..N |-> r[k]]
    BY <1>4
  <2> HIDE DEF S, r, N
  <2>2. Len(r) = N
    BY <1>3, <2>1, LenOf
  <2> QED
    BY <1>3, <2>2 DEF Least
<1>6. \A m \in known : far[m] \in Nat /\ far[m] = Levenshtein(name, m)
  BY <1>1, LevenshteinIsEditDistance
<1>7. \A m \in known : m \in near <=> Candidate(name, m) \in S
  <2> SUFFICES ASSUME NEW m \in known PROVE m \in near <=> Candidate(name, m) \in S
    OBVIOUS
  <2>1. far[m] \in Nat /\ far[m] = Levenshtein(name, m)
    BY <1>6
  <2>2. Larger(Len(name), Len(m)) \in Nat
    BY <1>1, LenProperties DEF Larger
  <2>3. m \in near <=> 2 * far[m] <= Larger(Len(name), Len(m))
    OBVIOUS
  <2>4. Candidate(name, m) \in S <=> Levenshtein(name, m) <= Larger(Len(name), Len(m)) \div 2
    <3>1. Candidate(name, m).name = m /\ Candidate(name, m).dist = Levenshtein(name, m)
      BY DEF Candidate
    <3> HIDE DEF known
    <3> QED
      BY <3>1 DEF NearTo
  <2> DEFINE x == far[m]
             y == Larger(Len(name), Len(m))
  <2>5. x \in Nat /\ y \in Nat
    BY <2>1, <2>2
  <2> HIDE DEF x, y
  <2>6. 2 * x <= y <=> x <= y \div 2
    BY <2>5
  <2> QED
    BY <2>1, <2>3, <2>4, <2>6 DEF x, y
<1>8. ASSUME NEW k \in 1..N
      PROVE  r[k] \in S /\ r[k].name \in near /\ far[r[k].name] = r[k].dist /\ r[k].dist \in Nat
             /\ r[k] = Candidate(name, r[k].name)
  <2>1. r[k] \in S
    BY <1>4
  <2> HIDE DEF S, r, far, near
  <2>2. r[k].name \in known /\ r[k].dist \in Nat /\ r[k] = Candidate(name, r[k].name)
    BY <1>2, <2>1
  <2>3. r[k].dist = Levenshtein(name, r[k].name)
    BY <2>2 DEF Candidate
  <2> QED
    BY <1>6, <1>7, <2>1, <2>2, <2>3
<1>9. ASSUME NEW j \in 1..N, NEW k \in 1..N, j < k PROVE far[r[j].name] <= far[r[k].name]
  <2>1. Nearer(r[j], r[k])
    BY <1>4, <1>9 DEF Pairs
  <2> HIDE DEF r, far
  <2> QED
    BY <1>8, <2>1 DEF Nearer
<1>10. ASSUME NEW m \in near PROVE \E k \in 1..N : r[k].name = m
  <2>1. Candidate(name, m) \in S /\ Candidate(name, m).name = m
    BY <1>7 DEF Candidate
  <2> QED
    BY <1>4, <2>1
<1>11. Cardinality(near) = N
  <2> DEFINE f == [p \in S |-> p.name]
  <2>1. f \in [S -> near]
    <3>1. ASSUME NEW p \in S PROVE p.name \in near
      BY <1>2, <1>7
    <3> QED
      BY <3>1
  <2>2. \A p, q \in S : f[p] = f[q] => p = q
    BY <1>2
  <2>3. \A m \in near : \E p \in S : f[p] = m
    <3>1. ASSUME NEW m \in near PROVE Candidate(name, m) \in S /\ f[Candidate(name, m)] = m
      BY <1>7 DEF Candidate
    <3> QED
      BY <3>1
  <2> HIDE DEF f, S, near
  <2>4. OneToOne(S, near, f)
    BY <2>1, <2>2, <2>3 DEF OneToOne
  <2> QED
    BY <1>2, <2>4, SameCount
<1>12. ASSUME NEW k \in 1..L PROVE k \in 1..N /\ s[k] = r[k].name
  BY <1>3, <1>5
<1>13. DOMAIN s = 1..L /\ Len(s) = L
  <2>1. DOMAIN s = 1..L /\ s = [k \in 1..L |-> s[k]] /\ \A k \in 1..L : s[k] \in {s[q] : q \in 1..L}
    OBVIOUS
  <2> HIDE DEF s
  <2> QED
    BY <1>5, <2>1, LenOf
<1> HIDE DEF s, r, S, far, near, N, L
<1>14. Range(s) \subseteq near
  BY <1>8, <1>12, <1>13 DEF Range
<1>15. IsInjective(s)
  <2>1. ASSUME NEW j \in 1..L, NEW k \in 1..L, s[j] = s[k] PROVE j = k
    <3>1. r[j] = r[k]
      BY <1>8, <1>12, <2>1
    <3> QED
      BY <1>4, <1>12, <3>1
  <2> QED
    BY <1>13, <2>1 DEF IsInjective
<1>16. \A j, k \in DOMAIN s : j < k => far[s[j]] <= far[s[k]]
  BY <1>9, <1>12, <1>13
<1>17. ASSUME NEW m \in near \ Range(s), NEW k \in DOMAIN s PROVE far[s[k]] <= far[m]
  <2>1. PICK q \in 1..N : r[q].name = m
    BY <1>10
  <2>2. q \notin 1..L
    BY <1>12, <1>13, <1>17, <2>1 DEF Range
  <2>3. k < q /\ k \in 1..N
    BY <1>3, <1>5, <1>12, <1>13, <2>2
  <2> QED
    BY <1>9, <1>12, <1>13, <2>1, <2>3
<1>18. Len(s) = Least(n, Cardinality(near))
  BY <1>5, <1>11, <1>13
<1>19. ClosestNames(ps, name, n) = s
  BY ClosestAre, Zenon DEF s, L, r
<1> QED
  BY <1>14, <1>15, <1>16, <1>17, <1>18, <1>19, Zenon DEF AreNearest, near, far
(* The resources, by their place in the order of Execute.                  *)
Resources == {"cpuFile", "cpuProfile", "heapProfile", "old", "new", "objOld", "objNew"}

LEMMA PlacesAre ==
  /\ Range(Order) = Resources
  /\ Place("cpuFile") = 1 /\ Place("cpuProfile") = 2 /\ Place("heapProfile") = 3
  /\ Place("old") = 4 /\ Place("new") = 5 /\ Place("objOld") = 6 /\ Place("objNew") = 7
<1>1. DOMAIN Order = 1..7
  BY DEF Order
<1>2. /\ Order[1] = "cpuFile" /\ Order[2] = "cpuProfile" /\ Order[3] = "heapProfile"
      /\ Order[4] = "old" /\ Order[5] = "new" /\ Order[6] = "objOld" /\ Order[7] = "objNew"
  BY DEF Order
<1>3. ASSUME NEW k \in 1..7
      PROVE  k = 1 \/ k = 2 \/ k = 3 \/ k = 4 \/ k = 5 \/ k = 6 \/ k = 7
  OBVIOUS
<1>4. Range(Order) = Resources
  <2>1. 1..7 = {1, 2, 3, 4, 5, 6, 7}
    OBVIOUS
  <2>2. Range(Order) = {Order[k] : k \in {1, 2, 3, 4, 5, 6, 7}}
    BY <1>1, <2>1, Zenon DEF Range
  <2>3. Range(Order) = {Order[1], Order[2], Order[3], Order[4], Order[5], Order[6], Order[7]}
    BY <2>2
  <2> QED
    BY <1>2, <2>3, Zenon DEF Resources
<1>5. ASSUME NEW j \in 1..7, NEW k \in 1..7, Order[j] = Order[k] PROVE j = k
  BY <1>2, <1>3, <1>5
<1>6. ASSUME NEW k \in 1..7 PROVE Place(Order[k]) = k
  <2>1. \A j \in 1..7 : Order[j] = Order[k] => j = k
    BY <1>5
  <2>2. Place(Order[k]) = CHOOSE j \in 1..7 : Order[j] = Order[k]
    BY <1>1 DEF Place
  <2> HIDE DEF Order
  <2> QED
    BY <2>1, <2>2
<1>7. /\ Place(Order[1]) = 1 /\ Place(Order[2]) = 2 /\ Place(Order[3]) = 3 /\ Place(Order[4]) = 4
      /\ Place(Order[5]) = 5 /\ Place(Order[6]) = 6 /\ Place(Order[7]) = 7
  <2> HIDE DEF Order
  <2> QED
    BY <1>6
<1> QED
  BY <1>2, <1>4, <1>7, Zenon
-----------------------------------------------------------------------------
(* Where Execute is when it has two binaries, or one, and when it has not  *)
(* reported anything.                                                      *)
Reporting == {"all", "names", "jsonAll", "jsonNames"}
OfTwo == {"new", "compare", "raw", "objOld", "objNew", "select", "summary"} \cup Reporting
OfOne == {"single", "listings", "stats"}
Opening == {"start", "cpuprofile", "memprofile", "old"}
Ended == {"return", "exited"}
Silent == (Opening \cup OfOne \cup OfTwo) \ (Reporting \cup {"listings"})

ForBlocks == c.blocks /\ (c.all \/ c.fns # <<>>)
BinOK == bin \in [noLayout : BOOLEAN, table : {t \in Seq(Symbol) : ByAddress(t)}]

(* The flags and the arguments.                                            *)
FlagsInv ==
  /\ c \in Flags /\ BinOK
  /\ pairs \in Seq(Pair) /\ NamedOnce(pairs)
  /\ pc \in Opening \cup OfOne \cup OfTwo \cup Ended
  /\ pc \notin Ended => error = NoError
  /\ pc \notin {"start"} \cup Ended => ~c.version /\ ~Rejected
  /\ pc \in OfOne => c.single
  /\ pc \in OfTwo => ~c.single
  /\ pc \in {"names", "jsonNames", "listings"} => c.fns # <<>> /\ work = c.fns
  /\ pc \in {"summary", "all", "jsonAll", "stats"} => c.fns = <<>>
  /\ pc \in {"names", "all"} => ~c.json
  /\ pc \in {"jsonAll", "jsonNames"} => c.json
  /\ pc = "all" => c.all
  /\ pc \in {"objOld", "objNew"} => ForBlocks

(* What is held by then, at most and at least.                             *)
Ordered(s, n) == /\ s \in Seq(Resources)
                 /\ \A j, k \in DOMAIN s : j < k => Place(s[j]) < Place(s[k])
                 /\ \A k \in DOMAIN s : Place(s[k]) <= n
Taken(l) == IF l \in {"start", "cpuprofile"} THEN 0
            ELSE IF l = "memprofile" THEN 2
            ELSE IF l = "old" THEN 3
            ELSE IF l \in {"new", "single", "listings", "stats"} THEN 4
            ELSE IF l \in {"compare", "raw", "objOld"} THEN 5
            ELSE IF l = "objNew" THEN 6 ELSE 7
Required(l) == (IF l \in OfOne \cup OfTwo THEN {"old"} ELSE {})
               \cup (IF l \in OfTwo \ {"new"} THEN {"new"} ELSE {})
               \cup (IF l = "objNew" THEN {"objOld"} ELSE {})
               \cup (IF l \in {"select", "summary"} \cup Reporting /\ ForBlocks THEN {"objOld", "objNew"} ELSE {})

HeldInv == Ordered(held, Taken(pc)) /\ Required(pc) \subseteq Range(held)

(* What is done of the work: the items that a report may consist of.       *)
Kinds == {"version", "summary", "identical", "one-sided", "blocks", "sideBySide", "diff", "matches",
          "json", "listing", "statsHead", "statsTables"}
Entries(ps) == {e \in [pair : Range(ps), stats : BOOLEAN, diff : BOOLEAN] : e.diff => e.stats}
Told(ps) == {p \in Range(ps) : p.state # "identical"}
Abouts == Seq(Pair) \cup Seq(Symbol) \cup {<<StatsHead(bin)>>, <<StatsTables(bin)>>} \cup UNION {Seq(Entries(ps)) : ps \in Seq(Pair)}
Items == [kind : Kinds, about : Abouts]

WorkInv ==
  /\ at \in 0..Len(work)
  /\ pc \in Silent => at = 0 /\ work = <<>> /\ doc = <<>> /\ out = <<>>
  /\ pc \in {"all", "jsonAll"} => work \in Seq(Told(pairs))
  /\ work \in Seq(Pair) \cup Seq(Name)
  /\ doc \in Seq(Entries(pairs))
  /\ out \in Seq(Items)


-----------------------------------------------------------------------------
(* What is chosen from pairs, or from symbols, named once each.            *)
LEMMA ChosenOnce ==
  ASSUME NEW X, NEW s \in Seq(X), NEW kept \in SUBSET DOMAIN s
  PROVE  /\ Chosen(s, kept) \in Seq(X) /\ Range(Chosen(s, kept)) = {s[k] : k \in kept}
         /\ NamedOnce(s) => NamedOnce(Chosen(s, kept))
<1> DEFINE t == Chosen(s, kept)
<1>1. ChosenWell(X, s, kept, t)
  BY ChosenFacts
<1>2. /\ t \in Seq(X) /\ DOMAIN t = 1..Len(t) /\ Len(t) \in Nat
      /\ (\A k \in 1..Len(t) : t[k] = s[Nth(kept, k)] /\ Nth(kept, k) \in kept)
      /\ (\A j, k \in 1..Len(t) : j < k => Nth(kept, j) < Nth(kept, k))
      /\ \A x \in kept : \E k \in 1..Len(t) : Nth(kept, k) = x
  BY <1>1, Zenon DEF ChosenWell
<1>3. DOMAIN s = 1..Len(s) /\ Len(s) \in Nat
  BY LenProperties
<1> HIDE DEF t
<1>4. ASSUME NEW x \in Range(t) PROVE \E k \in kept : x = s[k]
  <2>1. PICK j \in 1..Len(t) : x = t[j]
    BY <1>2 DEF Range
  <2> QED
    BY <1>2, <2>1
<1>5. ASSUME NEW k \in kept PROVE s[k] \in Range(t)
  <2>1. PICK j \in 1..Len(t) : Nth(kept, j) = k
    BY <1>2
  <2> QED
    BY <1>2, <2>1, Zenon DEF Range
<1>6. Range(t) = {s[k] : k \in kept}
  BY <1>4, <1>5
<1>7. ASSUME NamedOnce(s) PROVE NamedOnce(t)
  <2> SUFFICES ASSUME NEW j \in DOMAIN t, NEW k \in DOMAIN t, j # k PROVE t[j].name # t[k].name
    BY DEF NamedOnce
  <2>1. j < k \/ k < j
    BY <1>2
  <2>2. Nth(kept, j) # Nth(kept, k)
    <3>1. Nth(kept, j) \in Nat /\ Nth(kept, k) \in Nat /\ j \in Nat /\ k \in Nat
      BY <1>2, <1>3
    <3> QED
      BY <1>2, <2>1, <3>1
  <2>3. t[j] = s[Nth(kept, j)] /\ t[k] = s[Nth(kept, k)] /\ Nth(kept, j) \in DOMAIN s /\ Nth(kept, k) \in DOMAIN s
    BY <1>2
  <2> QED
    BY <1>7, <2>2, <2>3 DEF NamedOnce
<1> QED
  BY <1>2, <1>6, <1>7 DEF t

LEMMA FilteredAre ==
  ASSUME NEW X, NEW ps \in Seq(X), NEW filters
  PROVE  FilterPairs(ps, filters) \in Seq(X) /\ (NamedOnce(ps) => NamedOnce(FilterPairs(ps, filters)))
BY ChosenOnce DEF FilterPairs
-----------------------------------------------------------------------------
(* Taking what comes later keeps the order, and so does releasing the last.*)
LEMMA PlaceType ==
  ASSUME NEW r \in Resources PROVE Place(r) \in 1..7
<1>1. Place(r) \in {1, 2, 3, 4, 5, 6, 7}
  <2>1. \/ r = "cpuFile" \/ r = "cpuProfile" \/ r = "heapProfile"
        \/ r = "old" \/ r = "new" \/ r = "objOld" \/ r = "objNew"
    BY DEF Resources
  <2> QED
    BY <2>1, PlacesAre, Zenon
<1> QED
  BY <1>1

LEMMA OrderedWeaker ==
  ASSUME NEW s, NEW m \in Nat, NEW n \in Nat, m <= n, Ordered(s, m)
  PROVE  Ordered(s, n)
<1>1. ASSUME NEW k \in DOMAIN s PROVE Place(s[k]) <= n
  <2>1. s[k] \in Resources /\ Place(s[k]) <= m
    BY ElementOfSeq, LenProperties DEF Ordered
  <2>2. Place(s[k]) \in Nat
    BY <2>1, PlaceType
  <2> QED
    BY <2>1, <2>2
<1> QED
  BY <1>1 DEF Ordered

LEMMA OrderedMore ==
  ASSUME NEW s, NEW n \in Nat, Ordered(s, n), NEW r \in Resources, n < Place(r)
  PROVE  Ordered(Append(s, r), Place(r)) /\ Range(Append(s, r)) = Range(s) \cup {r}
<1> DEFINE t == Append(s, r)
<1>1. s \in Seq(Resources) /\ Len(s) \in Nat /\ DOMAIN s = 1..Len(s)
  BY LenProperties DEF Ordered
<1>2. /\ t \in Seq(Resources) /\ DOMAIN t = 1..(Len(s) + 1)
      /\ t[Len(s) + 1] = r /\ \A k \in 1..Len(s) : t[k] = s[k]
  BY <1>1, AppendProperties
<1> HIDE DEF t
<1>3. ASSUME NEW k \in 1..Len(s) PROVE t[k] = s[k] /\ Place(t[k]) \in Nat /\ Place(t[k]) <= n
  <2>1. t[k] = s[k] /\ s[k] \in Resources
    BY <1>1, <1>2, ElementOfSeq
  <2>2. Place(s[k]) <= n
    BY <1>1 DEF Ordered
  <2> QED
    BY <2>1, <2>2, PlaceType
<1>4. Place(r) \in Nat
  BY PlaceType
<1>5. ASSUME NEW k \in DOMAIN t PROVE Place(t[k]) <= Place(r)
  <2>1. k \in 1..Len(s) \/ k = Len(s) + 1
    BY <1>1, <1>2
  <2> QED
    BY <1>2, <1>3, <1>4, <2>1
<1>6. ASSUME NEW j \in DOMAIN t, NEW k \in DOMAIN t, j < k PROVE Place(t[j]) < Place(t[k])
  <2>1. j \in 1..Len(s) /\ (k \in 1..Len(s) \/ k = Len(s) + 1)
    BY <1>1, <1>2, <1>6
  <2>2. CASE k \in 1..Len(s)
    <3>1. Place(s[j]) < Place(s[k])
      BY <1>1, <1>6, <2>1, <2>2 DEF Ordered
    <3> QED
      BY <1>3, <2>1, <2>2, <3>1
  <2>3. CASE k = Len(s) + 1
    BY <1>2, <1>3, <1>4, <2>1, <2>3
  <2> QED
    BY <2>1, <2>2, <2>3
<1>7. Range(t) = Range(s) \cup {r}
  <2>1. ASSUME NEW x \in Range(t) PROVE x \in Range(s) \cup {r}
    <3>1. PICK k \in DOMAIN t : x = t[k]
      BY DEF Range
    <3>2. k \in 1..Len(s) \/ k = Len(s) + 1
      BY <1>1, <1>2
    <3> QED
      BY <1>1, <1>2, <3>1, <3>2 DEF Range
  <2>2. ASSUME NEW x \in Range(s) PROVE x \in Range(t)
    <3>1. PICK k \in 1..Len(s) : x = s[k]
      BY <1>1 DEF Range
    <3>2. k \in DOMAIN t /\ t[k] = x
      BY <1>1, <1>2, <3>1
    <3> QED
      BY <3>2 DEF Range
  <2>3. Len(s) + 1 \in DOMAIN t
    BY <1>1, <1>2
  <2>4. r \in Range(t)
    BY <1>2, <2>3 DEF Range
  <2> QED
    BY <2>1, <2>2, <2>4
<1> QED
  BY <1>2, <1>5, <1>6, <1>7 DEF Ordered, t

LEMMA OrderedFewer ==
  ASSUME NEW s, NEW n \in Nat, Ordered(s, n), s # <<>>
  PROVE  Ordered(Front(s), n)
<1> DEFINE t == Front(s)
<1>1. s \in Seq(Resources) /\ Len(s) \in Nat /\ DOMAIN s = 1..Len(s) /\ Len(s) # 0
  BY LenProperties, EmptySeq DEF Ordered
<1>2. t \in Seq(Resources) /\ DOMAIN t = 1..(Len(s) - 1) /\ \A k \in 1..(Len(s) - 1) : t[k] = s[k]
  <2>1. t = SubSeq(s, 1, Len(s) - 1) /\ 1 <= Len(s)
    BY <1>1 DEF Front
  <2> DEFINE n0 == Len(s) - 1
  <2>2. n0 \in Nat /\ n0 <= Len(s)
    BY <1>1
  <2>3. /\ SubSeq(s, 1, n0) \in Seq(Resources) /\ DOMAIN SubSeq(s, 1, n0) = 1..n0
        /\ \A k \in 1..n0 : SubSeq(s, 1, n0)[k] = s[k]
    <3> HIDE DEF n0
    <3>1. 1 \in 1..(Len(s) + 1) /\ n0 \in 0..Len(s) /\ 1 - 1 <= n0 /\ n0 - 1 + 1 = n0
      BY <1>1, <2>2
    <3> QED
      BY <1>1, <2>2, <3>1
  <2> QED
    BY <2>1, <2>3
<1> HIDE DEF t
<1>3. \A k \in DOMAIN t : k \in DOMAIN s /\ t[k] = s[k]
  BY <1>1, <1>2
<1> QED
  BY <1>2, <1>3 DEF Ordered, t
-----------------------------------------------------------------------------
LEMMA FrameHolds ==
  ASSUME CommandNext PROVE UNCHANGED <<c, bin>>
BY DEF CommandNext, Frame, Version, Validate, CPUProfile, MemProfile, OpenOld, OpenNew, Compare, Raw, OpenObjOld, OpenObjNew, Select, Summary, WriteAll, WriteName, JSONAll, JSONName, Encode, Single, WriteListing, WriteStats, EndText, Release, Exit, Open, WriteFunc, Collect

LEMMA FlagsInvHolds ==
  ASSUME FlagsInv, CommandNext PROVE FlagsInv'
<1>1. c' = c /\ bin' = bin
  BY FrameHolds
<1>2. Rejected' = Rejected /\ ForBlocks' = ForBlocks /\ BinOK' = BinOK
  BY <1>1 DEF Rejected, ComparisonFlags, ForBlocks, BinOK
<1> USE DEF Opening, OfOne, OfTwo, Ended, Reporting, Idle, Go, Fail, Goto
<1>3. CASE Version
  BY <1>1, <1>2, <1>3 DEF FlagsInv, Version
<1>4. CASE Validate
  BY <1>1, <1>2, <1>4 DEF FlagsInv, Validate
<1>5. CASE CPUProfile
  BY <1>1, <1>2, <1>5 DEF FlagsInv, CPUProfile
<1>6. CASE MemProfile
  BY <1>1, <1>2, <1>6 DEF FlagsInv, MemProfile
<1>7. CASE OpenOld
  BY <1>1, <1>2, <1>7 DEF FlagsInv, OpenOld, Open
<1>8. CASE OpenNew
  BY <1>1, <1>2, <1>8 DEF FlagsInv, OpenNew, Open
<1>9. CASE Compare
  <2>1. pairs' \in Results => pairs' \in Seq(Pair) /\ NamedOnce(pairs')
    BY CommandAssumption
  <2> QED
    BY <1>1, <1>2, <1>9, <2>1 DEF FlagsInv, Compare
<1>10. CASE Raw
  BY <1>1, <1>2, <1>10 DEF FlagsInv, Raw, ForBlocks
<1>11. CASE OpenObjOld
  BY <1>1, <1>2, <1>11 DEF FlagsInv, OpenObjOld, Open
<1>12. CASE OpenObjNew
  BY <1>1, <1>2, <1>12 DEF FlagsInv, OpenObjNew, Open
<1>13. CASE Select
  <2>1. pairs \in Seq(Pair) /\ NamedOnce(pairs)
    BY DEF FlagsInv
  <2>2. FilterPairs(pairs, c.filters) \in Seq(Pair) /\ NamedOnce(FilterPairs(pairs, c.filters))
    BY <2>1, FilteredAre
  <2> QED
    BY <1>1, <1>2, <1>13, <2>2 DEF FlagsInv, Select
<1>14. CASE Summary
  BY <1>1, <1>2, <1>14 DEF FlagsInv, Summary
<1>15. CASE WriteAll
  BY <1>1, <1>2, <1>15 DEF FlagsInv, WriteAll, WriteFunc
<1>16. CASE WriteName
  BY <1>1, <1>2, <1>16 DEF FlagsInv, WriteName, WriteFunc
<1>17. CASE JSONAll
  BY <1>1, <1>2, <1>17 DEF FlagsInv, JSONAll, Collect
<1>18. CASE JSONName
  BY <1>1, <1>2, <1>18 DEF FlagsInv, JSONName, Collect
<1>19. CASE Encode
  BY <1>1, <1>2, <1>19 DEF FlagsInv, Encode
<1>20. CASE Single
  BY <1>1, <1>2, <1>20 DEF FlagsInv, Single
<1>21. CASE WriteListing
  BY <1>1, <1>2, <1>21 DEF FlagsInv, WriteListing
<1>22. CASE WriteStats
  BY <1>1, <1>2, <1>22 DEF FlagsInv, WriteStats
<1>23. CASE EndText
  BY <1>1, <1>2, <1>23 DEF FlagsInv, EndText
<1>24. CASE Release
  BY <1>1, <1>2, <1>24 DEF FlagsInv, Release
<1>25. CASE Exit
  BY <1>1, <1>2, <1>25 DEF FlagsInv, Exit
<1> QED
  BY <1>3, <1>4, <1>5, <1>6, <1>7, <1>8, <1>9, <1>10, <1>11, <1>12, <1>13, <1>14, <1>15, <1>16, <1>17, <1>18, <1>19, <1>20, <1>21, <1>22, <1>23, <1>24, <1>25 DEF CommandNext

LEMMA HeldInvHolds ==
  ASSUME FlagsInv, HeldInv, CommandNext PROVE HeldInv'
<1>1. c' = c /\ ForBlocks' = ForBlocks
  BY FrameHolds DEF ForBlocks
<1>2. Ordered(held, Taken(pc)) /\ Required(pc) \subseteq Range(held) /\ Taken(pc) \in Nat
  BY DEF HeldInv, Taken
<1>3. ASSUME NEW r \in Resources, held' = Append(held, r), Taken(pc) < Place(r), Place(r) <= Taken(pc'),
             Required(pc)' \subseteq Required(pc) \cup {r}
      PROVE  HeldInv'
  <2>1. Ordered(held', Place(r)) /\ Range(held') = Range(held) \cup {r}
    BY <1>2, <1>3, OrderedMore
  <2>2. Taken(pc') \in Nat /\ Taken(pc)' = Taken(pc') /\ Place(r) \in Nat
    BY PlaceType DEF Taken
  <2>3. Ordered(held', Taken(pc'))
    BY <1>3, <2>1, <2>2, OrderedWeaker
  <2> QED
    BY <1>2, <1>3, <2>1, <2>2, <2>3 DEF HeldInv
<1>4. ASSUME held' = held, Taken(pc) <= Taken(pc'), Required(pc)' \subseteq Required(pc) PROVE HeldInv'
  <2>1. Taken(pc') \in Nat /\ Taken(pc)' = Taken(pc')
    BY DEF Taken
  <2>2. Ordered(held, Taken(pc'))
    BY <1>2, <1>4, <2>1, OrderedWeaker
  <2> QED
    BY <1>2, <1>4, <2>1, <2>2 DEF HeldInv
<1> USE DEF Opening, OfOne, OfTwo, Ended, Reporting, Idle, Go, Fail, Goto
<1>5. CASE Version
  <2>1. held' = held /\ pc \in {"start"} /\ pc' \in {"return"}
    BY <1>5 DEF Version
  <2>2. Taken(pc) <= Taken(pc')
    BY <2>1 DEF Taken
  <2>3. Required(pc)' \subseteq Required(pc)
    BY <1>1, <2>1 DEF Required
  <2> QED
    BY <1>4, <2>1, <2>2, <2>3
<1>6. CASE Validate
  <2>1. held' = held /\ pc \in {"start"} /\ pc' \in {"cpuprofile", "return"}
    BY <1>6 DEF Validate
  <2>2. Taken(pc) <= Taken(pc')
    BY <2>1 DEF Taken
  <2>3. Required(pc)' \subseteq Required(pc)
    BY <1>1, <2>1 DEF Required
  <2> QED
    BY <1>4, <2>1, <2>2, <2>3
<1>7. CASE Compare
  <2>1. held' = held /\ pc \in {"compare"} /\ pc' \in {"raw", "return"}
    BY <1>7 DEF Compare
  <2>2. Taken(pc) <= Taken(pc')
    BY <2>1 DEF Taken
  <2>3. Required(pc)' \subseteq Required(pc)
    BY <1>1, <2>1 DEF Required
  <2> QED
    BY <1>4, <2>1, <2>2, <2>3
<1>8. CASE Raw
  <2>1. held' = held /\ pc = "raw" /\ (pc' = "objOld" \/ (pc' = "select" /\ ~ForBlocks))
    BY <1>8 DEF Raw, ForBlocks
  <2>2. Taken(pc) <= Taken(pc')
    BY <2>1 DEF Taken
  <2>3. Required(pc)' \subseteq Required(pc)
    BY <1>1, <2>1 DEF Required
  <2> QED
    BY <1>4, <2>1, <2>2, <2>3
<1>9. CASE Select
  <2>1. held' = held /\ pc \in {"select"} /\ pc' \in {"jsonNames", "names", "summary", "return"}
    BY <1>9 DEF Select
  <2>2. Taken(pc) <= Taken(pc')
    BY <2>1 DEF Taken
  <2>3. Required(pc)' \subseteq Required(pc)
    BY <1>1, <2>1 DEF Required
  <2> QED
    BY <1>4, <2>1, <2>2, <2>3
<1>10. CASE Summary
  <2>1. held' = held /\ pc \in {"summary"} /\ pc' \in {"jsonAll", "all", "return"}
    BY <1>10 DEF Summary
  <2>2. Taken(pc) <= Taken(pc')
    BY <2>1 DEF Taken
  <2>3. Required(pc)' \subseteq Required(pc)
    BY <1>1, <2>1 DEF Required
  <2> QED
    BY <1>4, <2>1, <2>2, <2>3
<1>11. CASE WriteAll
  <2>1. held' = held /\ pc \in {"all"} /\ pc' \in {"all", "return"}
    BY <1>11 DEF WriteAll, WriteFunc
  <2>2. Taken(pc) <= Taken(pc')
    BY <2>1 DEF Taken
  <2>3. Required(pc)' \subseteq Required(pc)
    BY <1>1, <2>1 DEF Required
  <2> QED
    BY <1>4, <2>1, <2>2, <2>3
<1>12. CASE WriteName
  <2>1. held' = held /\ pc \in {"names"} /\ pc' \in {"names", "return"}
    BY <1>12 DEF WriteName, WriteFunc
  <2>2. Taken(pc) <= Taken(pc')
    BY <2>1 DEF Taken
  <2>3. Required(pc)' \subseteq Required(pc)
    BY <1>1, <2>1 DEF Required
  <2> QED
    BY <1>4, <2>1, <2>2, <2>3
<1>13. CASE JSONAll
  <2>1. held' = held /\ pc \in {"jsonAll"} /\ pc' \in {"jsonAll", "return"}
    BY <1>13 DEF JSONAll, Collect
  <2>2. Taken(pc) <= Taken(pc')
    BY <2>1 DEF Taken
  <2>3. Required(pc)' \subseteq Required(pc)
    BY <1>1, <2>1 DEF Required
  <2> QED
    BY <1>4, <2>1, <2>2, <2>3
<1>14. CASE JSONName
  <2>1. held' = held /\ pc \in {"jsonNames"} /\ pc' \in {"jsonNames", "return"}
    BY <1>14 DEF JSONName, Collect
  <2>2. Taken(pc) <= Taken(pc')
    BY <2>1 DEF Taken
  <2>3. Required(pc)' \subseteq Required(pc)
    BY <1>1, <2>1 DEF Required
  <2> QED
    BY <1>4, <2>1, <2>2, <2>3
<1>15. CASE Encode
  <2>1. held' = held /\ pc \in {"jsonAll", "jsonNames"} /\ pc' \in {"return"}
    BY <1>15 DEF Encode
  <2>2. Taken(pc) <= Taken(pc')
    BY <2>1 DEF Taken
  <2>3. Required(pc)' \subseteq Required(pc)
    BY <1>1, <2>1 DEF Required
  <2> QED
    BY <1>4, <2>1, <2>2, <2>3
<1>16. CASE Single
  <2>1. held' = held /\ pc \in {"single"} /\ pc' \in {"listings", "stats"}
    BY <1>16 DEF Single
  <2>2. Taken(pc) <= Taken(pc')
    BY <2>1 DEF Taken
  <2>3. Required(pc)' \subseteq Required(pc)
    BY <1>1, <2>1 DEF Required
  <2> QED
    BY <1>4, <2>1, <2>2, <2>3
<1>17. CASE WriteListing
  <2>1. held' = held /\ pc \in {"listings"} /\ pc' \in {"listings", "return"}
    BY <1>17 DEF WriteListing
  <2>2. Taken(pc) <= Taken(pc')
    BY <2>1 DEF Taken
  <2>3. Required(pc)' \subseteq Required(pc)
    BY <1>1, <2>1 DEF Required
  <2> QED
    BY <1>4, <2>1, <2>2, <2>3
<1>18. CASE WriteStats
  <2>1. held' = held /\ pc \in {"stats"} /\ pc' \in {"return"}
    BY <1>18 DEF WriteStats
  <2>2. Taken(pc) <= Taken(pc')
    BY <2>1 DEF Taken
  <2>3. Required(pc)' \subseteq Required(pc)
    BY <1>1, <2>1 DEF Required
  <2> QED
    BY <1>4, <2>1, <2>2, <2>3
<1>19. CASE EndText
  <2>1. held' = held /\ pc \in {"all", "names", "listings"} /\ pc' \in {"return"}
    BY <1>19 DEF EndText
  <2>2. Taken(pc) <= Taken(pc')
    BY <2>1 DEF Taken
  <2>3. Required(pc)' \subseteq Required(pc)
    BY <1>1, <2>1 DEF Required
  <2> QED
    BY <1>4, <2>1, <2>2, <2>3
<1>20. CASE Exit
  <2>1. held' = held /\ pc \in {"return"} /\ pc' \in {"exited"}
    BY <1>20 DEF Exit
  <2>2. Taken(pc) <= Taken(pc')
    BY <2>1 DEF Taken
  <2>3. Required(pc)' \subseteq Required(pc)
    BY <1>1, <2>1 DEF Required
  <2> QED
    BY <1>4, <2>1, <2>2, <2>3
<1>21. CASE CPUProfile
  <2>1. pc = "cpuprofile"
    BY <1>21 DEF CPUProfile
  <2>2. CASE held' = held /\ pc' \in {"memprofile", "return"}
    <3>1. Taken(pc) <= Taken(pc')
      BY <2>1, <2>2 DEF Taken
    <3>2. Required(pc)' \subseteq Required(pc)
      BY <1>1, <2>1, <2>2 DEF Required
    <3> QED
      BY <1>4, <2>2, <3>1, <3>2
  <2>3. CASE held' = Append(held, "cpuFile") /\ pc' = "return"
    <3>1. "cpuFile" \in Resources /\ Place("cpuFile") = 1
      BY PlacesAre DEF Resources
    <3>2. Taken(pc) < Place("cpuFile") /\ Place("cpuFile") <= Taken(pc')
      BY <2>1, <2>3, <3>1 DEF Taken
    <3>3. Required(pc)' \subseteq Required(pc) \cup {"cpuFile"}
      BY <1>1, <2>1, <2>3 DEF Required
    <3> QED
      BY <1>3, <2>3, <3>1, <3>2, <3>3
  <2>4. CASE held' = held \o <<"cpuFile", "cpuProfile">> /\ pc' = "memprofile"
    <3> DEFINE one == Append(held, "cpuFile")
    <3>1. /\ "cpuFile" \in Resources /\ Place("cpuFile") = 1
          /\ "cpuProfile" \in Resources /\ Place("cpuProfile") = 2
      BY PlacesAre DEF Resources
    <3>2. Taken(pc) = 0 /\ Taken(pc') = 2
      BY <2>1, <2>4 DEF Taken
    <3>3. Ordered(one, 1)
      BY <1>2, <3>1, <3>2, OrderedMore
    <3>4. held \in Seq(Resources)
      BY <1>2 DEF Ordered
    <3>5. held' = Append(one, "cpuProfile")
      BY <2>4, <3>1, <3>4
    <3> HIDE DEF one
    <3>6. Ordered(held', 2)
      BY <3>1, <3>3, <3>5, OrderedMore
    <3>7. Required(pc)' = {}
      BY <2>4 DEF Required
    <3>8. Taken(pc)' = Taken(pc')
      BY DEF Taken
    <3> QED
      BY <3>2, <3>6, <3>7, <3>8 DEF HeldInv
  <2> QED
    BY <1>21, <2>2, <2>3, <2>4 DEF CPUProfile, Take
<1>22. CASE MemProfile
  <2>1. pc = "memprofile" /\ pc' = "old" /\ (held' = held \/ held' = Append(held, "heapProfile"))
    BY <1>22 DEF MemProfile, Take
  <2>2. Taken(pc) = 2 /\ Taken(pc') = 3
    BY <2>1 DEF Taken
  <2>3. Required(pc)' \subseteq Required(pc)
    BY <1>1, <2>1 DEF Required
  <2>4. "heapProfile" \in Resources /\ Place("heapProfile") = 3
    BY PlacesAre DEF Resources
  <2> QED
    BY <1>3, <1>4, <2>1, <2>2, <2>3, <2>4
<1>23. CASE OpenOld
  <2>1. /\ pc = "old"
        /\ \/ held' = Append(held, "old") /\ pc' \in {"single", "new"}
           \/ held' = held /\ pc' = "return"
    BY <1>23 DEF OpenOld, Open, Take
  <2>2. "old" \in Resources /\ Place("old") = 4
    BY PlacesAre DEF Resources
  <2>3. CASE held' = Append(held, "old") /\ pc' \in {"single", "new"}
    <3>1. Taken(pc) = 3 /\ Taken(pc') = 4
      BY <2>1, <2>3 DEF Taken
    <3>2. Required(pc)' \subseteq Required(pc) \cup {"old"}
      BY <1>1, <2>1, <2>3 DEF Required
    <3> QED
      BY <1>3, <2>2, <2>3, <3>1, <3>2
  <2>4. CASE held' = held /\ pc' = "return"
    <3>1. Taken(pc) <= Taken(pc')
      BY <2>1, <2>4 DEF Taken
    <3>2. Required(pc)' \subseteq Required(pc)
      BY <1>1, <2>1, <2>4 DEF Required
    <3> QED
      BY <1>4, <2>4, <3>1, <3>2
  <2> QED
    BY <2>1, <2>3, <2>4
<1>24. CASE OpenNew
  <2>1. /\ pc = "new"
        /\ \/ held' = Append(held, "new") /\ pc' \in {"compare"}
           \/ held' = held /\ pc' = "return"
    BY <1>24 DEF OpenNew, Open, Take
  <2>2. "new" \in Resources /\ Place("new") = 5
    BY PlacesAre DEF Resources
  <2>3. CASE held' = Append(held, "new") /\ pc' \in {"compare"}
    <3>1. Taken(pc) = 4 /\ Taken(pc') = 5
      BY <2>1, <2>3 DEF Taken
    <3>2. Required(pc)' \subseteq Required(pc) \cup {"new"}
      BY <1>1, <2>1, <2>3 DEF Required
    <3> QED
      BY <1>3, <2>2, <2>3, <3>1, <3>2
  <2>4. CASE held' = held /\ pc' = "return"
    <3>1. Taken(pc) <= Taken(pc')
      BY <2>1, <2>4 DEF Taken
    <3>2. Required(pc)' \subseteq Required(pc)
      BY <1>1, <2>1, <2>4 DEF Required
    <3> QED
      BY <1>4, <2>4, <3>1, <3>2
  <2> QED
    BY <2>1, <2>3, <2>4
<1>25. CASE OpenObjOld
  <2>1. /\ pc = "objOld"
        /\ \/ held' = Append(held, "objOld") /\ pc' \in {"objNew"}
           \/ held' = held /\ pc' = "return"
    BY <1>25 DEF OpenObjOld, Open, Take
  <2>2. "objOld" \in Resources /\ Place("objOld") = 6
    BY PlacesAre DEF Resources
  <2>3. CASE held' = Append(held, "objOld") /\ pc' \in {"objNew"}
    <3>1. Taken(pc) = 5 /\ Taken(pc') = 6
      BY <2>1, <2>3 DEF Taken
    <3>2. Required(pc)' \subseteq Required(pc) \cup {"objOld"}
      BY <1>1, <2>1, <2>3 DEF Required
    <3> QED
      BY <1>3, <2>2, <2>3, <3>1, <3>2
  <2>4. CASE held' = held /\ pc' = "return"
    <3>1. Taken(pc) <= Taken(pc')
      BY <2>1, <2>4 DEF Taken
    <3>2. Required(pc)' \subseteq Required(pc)
      BY <1>1, <2>1, <2>4 DEF Required
    <3> QED
      BY <1>4, <2>4, <3>1, <3>2
  <2> QED
    BY <2>1, <2>3, <2>4
<1>26. CASE OpenObjNew
  <2>1. /\ pc = "objNew"
        /\ \/ held' = Append(held, "objNew") /\ pc' \in {"select"}
           \/ held' = held /\ pc' = "return"
    BY <1>26 DEF OpenObjNew, Open, Take
  <2>2. "objNew" \in Resources /\ Place("objNew") = 7
    BY PlacesAre DEF Resources
  <2>3. CASE held' = Append(held, "objNew") /\ pc' \in {"select"}
    <3>1. Taken(pc) = 6 /\ Taken(pc') = 7
      BY <2>1, <2>3 DEF Taken
    <3>2. Required(pc)' \subseteq Required(pc) \cup {"objNew"}
      BY <1>1, <2>1, <2>3 DEF Required
    <3> QED
      BY <1>3, <2>2, <2>3, <3>1, <3>2
  <2>4. CASE held' = held /\ pc' = "return"
    <3>1. Taken(pc) <= Taken(pc')
      BY <2>1, <2>4 DEF Taken
    <3>2. Required(pc)' \subseteq Required(pc)
      BY <1>1, <2>1, <2>4 DEF Required
    <3> QED
      BY <1>4, <2>4, <3>1, <3>2
  <2> QED
    BY <2>1, <2>3, <2>4
<1>27. CASE Release
  <2>1. pc = "return" /\ pc' = pc /\ held # <<>> /\ held' = Front(held)
    BY <1>27 DEF Release
  <2>2. Ordered(held', Taken(pc))
    BY <1>2, <2>1, OrderedFewer
  <2>3. Required(pc)' = {} /\ Taken(pc)' = Taken(pc)
    BY <2>1 DEF Required, Taken
  <2> QED
    BY <2>2, <2>3 DEF HeldInv
<1> QED
  BY <1>5, <1>6, <1>7, <1>8, <1>9, <1>10, <1>11, <1>12, <1>13, <1>14, <1>15, <1>16, <1>17, <1>18, <1>19, <1>20, <1>21, <1>22, <1>23, <1>24, <1>25, <1>26, <1>27 DEF CommandNext

-----------------------------------------------------------------------------
(* Names are matched by at most one pair, or else by all that contain them.*)
LEMMA MatchIs ==
  ASSUME NEW X, NEW ps \in Seq(X), NEW name
  PROVE  /\ MatchFuncs(ps, name) \in Seq(X)
         /\ \A k \in DOMAIN MatchFuncs(ps, name) : MatchFuncs(ps, name)[k] \in Range(ps)
         /\ ~(\E k \in DOMAIN ps : ps[k].name = name) => MatchFuncs(ps, name) = Containing(ps, name)
         /\ NamedOnce(ps) /\ (\E k \in DOMAIN ps : ps[k].name = name)
              => MatchFuncs(ps, name) = <<CHOOSE p \in Range(ps) : p.name = name>>
<1> DEFINE exact == {k \in DOMAIN ps : ps[k].name = name}
           found == MatchFuncs(ps, name)
<1>1. DOMAIN ps = 1..Len(ps) /\ Len(ps) \in Nat
  BY LenProperties
<1>2. CASE exact = {}
  <2>1. found = Containing(ps, name)
    BY <1>2 DEF MatchFuncs
  <2> DEFINE kept == {k \in DOMAIN ps : HasSub(ps[k].name, name)}
  <2>2. kept \in SUBSET DOMAIN ps /\ Containing(ps, name) = Chosen(ps, kept)
    BY DEF Containing
  <2> HIDE DEF kept
  <2>3. Containing(ps, name) \in Seq(X) /\ Range(Containing(ps, name)) = {ps[k] : k \in kept}
    BY <2>2, ChosenOnce
  <2>4. \A k \in DOMAIN Containing(ps, name) : Containing(ps, name)[k] \in Range(ps)
    BY <2>2, <2>3 DEF Range
  <2> QED
    BY <1>2, <2>1, <2>3, <2>4
<1>3. CASE exact # {}
  <2> DEFINE m == Min(exact)
  <2>1. m \in exact
    <3>1. exact \in SUBSET Nat
      BY <1>1
    <3> HIDE DEF exact
    <3>2. \E k \in exact : \A j \in exact : k <= j
      BY <1>3, <3>1, LeastElement
    <3> QED
      BY <3>2 DEF Min
  <2>2. found = <<ps[m]>>
    BY <1>3 DEF MatchFuncs
  <2> HIDE DEF m
  <2>3. m \in DOMAIN ps /\ ps[m].name = name /\ ps[m] \in X /\ ps[m] \in Range(ps)
    BY <1>1, <2>1, ElementOfSeq DEF Range
  <2>4. ASSUME NamedOnce(ps) PROVE ps[m] = CHOOSE p \in Range(ps) : p.name = name
    <3>1. ASSUME NEW p \in Range(ps), p.name = name PROVE p = ps[m]
      <4>1. PICK k \in DOMAIN ps : p = ps[k]
        BY DEF Range
      <4> QED
        BY <2>3, <2>4, <3>1, <4>1 DEF NamedOnce
    <3> QED
      BY <2>3, <3>1
  <2>5. found \in Seq(X) /\ DOMAIN found = {1} /\ found[1] \in Range(ps)
    BY <2>2, <2>3
  <2>6. \E k \in DOMAIN ps : ps[k].name = name
    BY <2>3
  <2> HIDE DEF exact
  <2>7. NamedOnce(ps) => found = <<CHOOSE p \in Range(ps) : p.name = name>>
    BY <2>2, <2>4, Zenon
  <2> QED
    BY <2>5, <2>6, <2>7
<1> QED
  BY <1>2, <1>3

(* What is appended to a list is found after it.                           *)
Added(s, t, u) == \A k \in (Len(s) + 1)..Len(u) : \E j \in DOMAIN t : u[k] = t[j]

LEMMA Appended ==
  ASSUME NEW X, NEW s \in Seq(X), NEW t \in Seq(X)
  PROVE  /\ s \o t \in Seq(X) /\ Len(s \o t) = Len(s) + Len(t) /\ Len(s) \in Nat /\ Len(t) \in Nat
         /\ Added(s, t, s \o t)
<1>1. /\ s \o t \in Seq(X) /\ Len(s \o t) = Len(s) + Len(t)
      /\ \A k \in 1..Len(t) : (s \o t)[Len(s) + k] = t[k]
  BY ConcatProperties
<1>2. Len(s) \in Nat /\ Len(t) \in Nat /\ DOMAIN t = 1..Len(t)
  BY LenProperties
<1> DEFINE u == s \o t
<1>3. /\ u \in Seq(X) /\ Len(u) = Len(s) + Len(t)
      /\ \A k \in 1..Len(t) : u[Len(s) + k] = t[k]
  BY <1>1
<1> HIDE DEF u
<1>4. ASSUME NEW k \in (Len(s) + 1)..Len(u) PROVE \E j \in DOMAIN t : u[k] = t[j]
  <2> DEFINE j == k - Len(s)
  <2>1. j \in 1..Len(t) /\ k = Len(s) + j
    BY <1>2, <1>3
  <2> HIDE DEF j
  <2>2. u[k] = t[j]
    BY <1>3, <2>1
  <2> QED
    BY <1>2, <2>1, <2>2
<1> QED
  BY <1>2, <1>3, <1>4 DEF u, Added

LEMMA SameItems ==
  ASSUME c' = c, bin' = bin PROVE Items' = Items
BY DEF Items, Abouts, StatsTables, StatsHead

LEMMA ItemType ==
  /\ \A kind \in Kinds, about \in Abouts : Item(kind, about) \in Items /\ <<Item(kind, about)>> \in Seq(Items)
  /\ <<>> \in Seq(Items) /\ <<>> \in Abouts
  /\ \A p \in Pair : <<p>> \in Abouts
  /\ \A f \in Symbol : <<f>> \in Abouts
  /\ Seq(Pair) \subseteq Abouts /\ Seq(Symbol) \subseteq Abouts
<1>1. ASSUME NEW kind \in Kinds, NEW about \in Abouts PROVE Item(kind, about) \in Items
  BY DEF Item, Items
<1>2. \A x \in Items : <<x>> \in Seq(Items)
  OBVIOUS
<1>3. <<>> \in Seq(Items) /\ <<>> \in Seq(Pair)
  OBVIOUS
<1>4. (\A p \in Pair : <<p>> \in Seq(Pair)) /\ (\A f \in Symbol : <<f>> \in Seq(Symbol))
  OBVIOUS
<1>5. Seq(Pair) \subseteq Abouts /\ Seq(Symbol) \subseteq Abouts
  BY Zenon DEF Abouts
<1> QED
  BY <1>1, <1>2, <1>3, <1>4, <1>5

LEMMA PairItems ==
  ASSUME NEW p \in Pair PROVE Noted(p) \in Seq(Items) /\ Diffed(p) \in Seq(Items)
<1>1. <<p>> \in Abouts /\ <<>> \in Seq(Items)
  BY ItemType
<1>2. \A kind \in Kinds : <<Item(kind, <<p>>)>> \in Seq(Items)
  BY <1>1, ItemType
<1>3. {"identical", "one-sided", "blocks", "sideBySide", "diff"} \subseteq Kinds
  BY DEF Kinds
<1>4. Noted(p) \in {<<>>, <<Item("identical", <<p>>)>>, <<Item("one-sided", <<p>>)>>}
  BY DEF Noted
<1>5. Diffed(p) \in {<<>>, <<Item("blocks", <<p>>)>>, <<Item("sideBySide", <<p>>)>>, <<Item("diff", <<p>>)>>}
  BY DEF Diffed
<1> QED
  BY <1>1, <1>2, <1>3, <1>4, <1>5, Zenon

LEMMA TablesAre ==
  ASSUME NEW ps \in Seq(Pair), c \in Flags, ~Rejected, NEW t \in Tables(ps)
  PROVE  t \in Seq(Told(ps))
<1> DEFINE eligible == {k \in DOMAIN ps : ps[k].state \in StateSet}
           n == Least(c.top, Cardinality(eligible))
<1>1. c.top \in Nat /\ Range(c.states) \subseteq KnownStates
  BY DEF Rejected, Flags
<1>2. DOMAIN ps = 1..Len(ps) /\ Len(ps) \in Nat
  BY LenProperties
<1>3. eligible \in SUBSET (1..Len(ps))
  BY <1>2
<1>4. n \in Nat
  <2> HIDE DEF eligible
  <2>1. Cardinality(eligible) \in Nat
    BY <1>2, <1>3, Positions
  <2> QED
    BY <1>1, <2>1 DEF Least
<1>5. "identical" \notin StateSet
  <2>1. CASE c.states = <<>>
    BY <2>1 DEF StateSet, KnownStates
  <2>2. CASE c.states # <<>>
    <3>1. ASSUME NEW k \in DOMAIN c.states PROVE "identical" \notin StatesOf(c.states[k])
      <4>1. c.states[k] \in KnownStates
        BY <1>1 DEF Range
      <4> QED
        BY <4>1 DEF KnownStates, StatesOf
    <3> QED
      BY <2>2, <3>1 DEF StateSet
  <2> QED
    BY <2>1, <2>2
<1>6. PICK s \in BoundedSeq(eligible, n) : t = [k \in DOMAIN s |-> ps[s[k]]]
  BY Zenon DEF Tables
<1> HIDE DEF eligible, n
<1>7. PICK m \in Nat : s \in [1..m -> eligible]
  BY <1>4, <1>6 DEF BoundedSeq, SeqOf
<1>8. ASSUME NEW k \in 1..m PROVE t[k] \in Told(ps)
  <2>1. s[k] \in DOMAIN ps /\ ps[s[k]].state \in StateSet /\ t[k] = ps[s[k]]
    BY <1>6, <1>7 DEF eligible
  <2> QED
    BY <1>5, <2>1 DEF Told, Range
<1>9. DOMAIN t = 1..m /\ t = [k \in 1..m |-> t[k]]
  BY <1>6, <1>7
<1> QED
  BY <1>8, <1>9, LenOf

(* A symbol table's functions: named once, still in the order of addresses.*)
LEMMA FuncsAre ==
  ASSUME NEW table \in Seq(Symbol), ByAddress(table)
  PROVE  Funcs(table) \in Seq(Symbol) /\ NamedOnce(Funcs(table)) /\ ByAddress(Funcs(table))
         /\ Len(Funcs(table)) <= Len(table) /\ (table # <<>> => Funcs(table) # <<>>)
<1> DEFINE kept == {k \in DOMAIN table : \A j \in 1..(k - 1) : table[j].name # table[k].name}
           t == Chosen(table, kept)
<1>1. DOMAIN table = 1..Len(table) /\ Len(table) \in Nat /\ Funcs(table) = t
  BY LenProperties DEF Funcs
<1>2. kept \in SUBSET DOMAIN table
  OBVIOUS
<1>3. ASSUME NEW x \in kept, NEW y \in kept, x # y PROVE table[x].name # table[y].name
  <2>1. x \in Nat /\ y \in Nat /\ (x < y => x \in 1..(y - 1)) /\ (y < x => y \in 1..(x - 1)) /\ x >= 1 /\ y >= 1
    BY <1>1
  <2>2. x < y \/ y < x
    BY <1>3, <2>1
  <2> QED
    BY <2>1, <2>2
<1>4. table # <<>> => 1 \in kept
  <2>1. table # <<>> => 1 \in 1..Len(table)
    BY <1>1, EmptySeq
  <2> QED
    BY <1>1, <2>1
<1> HIDE DEF kept
<1>5. ChosenWell(Symbol, table, kept, t) /\ Len(t) <= Len(table)
  BY <1>2, ChosenFacts
<1>6. /\ t \in Seq(Symbol) /\ DOMAIN t = 1..Len(t) /\ Len(t) \in Nat
      /\ (\A k \in 1..Len(t) : t[k] = table[Nth(kept, k)] /\ Nth(kept, k) \in kept)
      /\ (\A j, k \in 1..Len(t) : j < k => Nth(kept, j) < Nth(kept, k))
      /\ \A x \in kept : \E k \in 1..Len(t) : Nth(kept, k) = x
  BY <1>5, Zenon DEF ChosenWell
<1> HIDE DEF t
<1>7. ASSUME NEW j \in DOMAIN t, NEW k \in DOMAIN t, j < k
      PROVE  t[j].name # t[k].name /\ t[j].addr <= t[k].addr
  <2>1. j \in 1..Len(t) /\ k \in 1..Len(t)
    BY <1>6
  <2> DEFINE x == Nth(kept, j)
             y == Nth(kept, k)
  <2>2. x \in kept /\ y \in kept /\ x < y /\ t[j] = table[x] /\ t[k] = table[y]
    BY <1>6, <1>7, <2>1
  <2> HIDE DEF x, y
  <2>3. x \in Nat /\ y \in Nat /\ x # y /\ x \in DOMAIN table /\ y \in DOMAIN table
    BY <1>1, <1>2, <2>2
  <2> QED
    BY <1>3, <2>2, <2>3 DEF ByAddress
<1>8. ASSUME NEW j \in DOMAIN t, NEW k \in DOMAIN t, j # k PROVE t[j].name # t[k].name
  <2>1. j < k \/ k < j
    BY <1>6, <1>8
  <2> QED
    BY <1>7, <2>1
<1>9. table # <<>> => t # <<>>
  <2> SUFFICES ASSUME table # <<>> PROVE t # <<>>
    OBVIOUS
  <2>1. PICK k \in 1..Len(t) : Nth(kept, k) = 1
    BY <1>4, <1>6
  <2> QED
    BY <1>6, <2>1, EmptySeq
<1> QED
  BY <1>1, <1>5, <1>6, <1>7, <1>8, <1>9 DEF NamedOnce, ByAddress

LEMMA AppendedItems ==
  ASSUME NEW s \in Seq(Items), NEW t \in Seq(Items) PROVE s \o t \in Seq(Items)
BY Appended

(* The reports collected are entries of the pairs.                         *)
CollectsFrom(ps, found, stats, diff) ==
  /\ found \in Seq(Pair) /\ diff \in BOOLEAN
  /\ \A k \in DOMAIN found : found[k] \in Range(ps) /\ (diff => found[k] \in stats)

LEMMA ReportTypes ==
  ASSUME NEW ps \in Seq(Pair), NEW found, NEW stats, NEW diff, CollectsFrom(ps, found, stats, diff)
  PROVE  [k \in DOMAIN found |-> FuncReport(found[k], found[k] \in stats, diff)] \in Seq(Entries(ps))
<1> DEFINE t == [k \in DOMAIN found |-> FuncReport(found[k], found[k] \in stats, diff)]
<1>1. DOMAIN found = 1..Len(found) /\ Len(found) \in Nat
  BY LenProperties DEF CollectsFrom
<1>2. ASSUME NEW p \in Range(ps), NEW some \in BOOLEAN, diff \in BOOLEAN, diff => some
      PROVE  FuncReport(p, some, diff) \in Entries(ps)
  <2> DEFINE code == p.state \notin {"identical", "relocation-only"}
             e == [pair |-> p, stats |-> some /\ code, diff |-> diff /\ code]
  <2>1. code \in BOOLEAN /\ (some /\ code) \in BOOLEAN /\ (diff /\ code) \in BOOLEAN
    OBVIOUS
  <2> HIDE DEF code
  <2>2. e \in [pair : Range(ps), stats : BOOLEAN, diff : BOOLEAN] /\ (e.diff => e.stats)
    BY <1>2, <2>1
  <2>3. FuncReport(p, some, diff) = e
    BY DEF FuncReport, code
  <2> QED
    BY <2>2, <2>3 DEF Entries
<1>3. ASSUME NEW k \in DOMAIN found PROVE t[k] \in Entries(ps)
  <2>1. t[k] = FuncReport(found[k], found[k] \in stats, diff)
    OBVIOUS
  <2>2. (found[k] \in stats) \in BOOLEAN /\ found[k] \in Range(ps) /\ (diff => found[k] \in stats)
    BY DEF CollectsFrom
  <2>3. diff \in BOOLEAN
    BY DEF CollectsFrom
  <2> QED
    BY <1>2, <2>1, <2>2, <2>3
<1>4. DOMAIN t = 1..Len(found) /\ t = [k \in 1..Len(found) |-> t[k]]
  BY <1>1
<1> HIDE DEF t
<1>5. t \in Seq(Entries(ps))
  BY <1>1, <1>3, <1>4, LenOf
<1> QED
  BY <1>5 DEF t

LEMMA SeqOfLess ==
  ASSUME NEW S, NEW T, S \subseteq T, NEW s \in Seq(S) PROVE s \in Seq(T)
OBVIOUS

LEMMA RangeIn ==
  ASSUME NEW X, NEW s \in Seq(X) PROVE Range(s) \subseteq X
<1>1. DOMAIN s = 1..Len(s)
  BY LenProperties
<1> QED
  BY <1>1, ElementOfSeq DEF Range

(* A step that writes a pair, and one that collects pairs.                 *)
LEMMA Written1 ==
  ASSUME NEW p \in Pair, WriteFunc(p), out \in Seq(Items), at \in Nat, Len(work) \in Nat, at < Len(work)
  PROVE  /\ out' \in Seq(Items) /\ at' \in 0..Len(work) /\ pc' \in {pc, "return"}
         /\ UNCHANGED <<pairs, held, work, doc>>
<1>1. Noted(p) \in Seq(Items) /\ Diffed(p) \in Seq(Items)
  BY PairItems
<1>2. Noted(p) \o Diffed(p) \in Seq(Items)
  BY <1>1, AppendedItems
<1>3. out \o (Noted(p) \o Diffed(p)) \in Seq(Items) /\ out \o Noted(p) \in Seq(Items)
  BY <1>1, <1>2, AppendedItems
<1>4. \/ out' = out \o (Noted(p) \o Diffed(p)) /\ at' = at + 1 /\ pc' = pc
      \/ out' = out \o Noted(p) /\ at' = at /\ pc' = "return"
  BY DEF WriteFunc, Emit, Step, Go, Goto, Fail
<1>5. at' \in 0..Len(work)
  BY <1>4
<1>6. UNCHANGED <<pairs, held, work, doc>>
  BY DEF WriteFunc
<1>7. out' \in Seq(Items) /\ pc' \in {pc, "return"}
  BY <1>3, <1>4, Zenon
<1> QED
  BY <1>5, <1>6, <1>7

LEMMA Collected ==
  ASSUME pairs \in Seq(Pair), NEW found, NEW stats, NEW diff, CollectsFrom(pairs, found, stats, diff),
         Collect(found, stats, diff), doc \in Seq(Entries(pairs)), at \in Nat, Len(work) \in Nat, at < Len(work)
  PROVE  /\ doc' \in Seq(Entries(pairs)) /\ at' \in 0..Len(work) /\ pc' \in {pc, "return"}
         /\ UNCHANGED <<pairs, held, work, out>>
<1> DEFINE t == [k \in DOMAIN found |-> FuncReport(found[k], found[k] \in stats, diff)]
<1>1. t \in Seq(Entries(pairs))
  BY ReportTypes
<1> HIDE DEF t
<1>2. doc \o t \in Seq(Entries(pairs))
  BY <1>1, Appended
<1>3. \/ doc' = doc \o t /\ at' = at + 1 /\ pc' = pc /\ UNCHANGED out
      \/ pc' = "return" /\ UNCHANGED <<at, doc, out>>
  BY DEF Collect, Step, Go, Goto, Fail, t
<1>4. UNCHANGED <<pairs, held, work>>
  BY DEF Collect
<1>5. at' \in 0..Len(work)
  BY <1>3
<1>6. doc' \in Seq(Entries(pairs)) /\ pc' \in {pc, "return"} /\ UNCHANGED out
  BY <1>2, <1>3, Zenon
<1> QED
  BY <1>4, <1>5, <1>6

LEMMA WorkInvHolds ==
  ASSUME FlagsInv, WorkInv, CommandNext PROVE WorkInv'
<1>1. c' = c /\ bin' = bin /\ Items' = Items /\ c \in Flags
  BY FrameHolds, SameItems DEF FlagsInv
<1>2. /\ at \in 0..Len(work) /\ (pc \in Silent => at = 0 /\ work = <<>> /\ doc = <<>> /\ out = <<>>)
      /\ (pc \in {"all", "jsonAll"} => work \in Seq(Told(pairs)))
      /\ work \in Seq(Pair) \cup Seq(Name) /\ doc \in Seq(Entries(pairs)) /\ out \in Seq(Items)
  BY DEF WorkInv
<1>3. /\ Len(work) \in Nat /\ pairs \in Seq(Pair) /\ NamedOnce(pairs)
      /\ (pc \notin {"start"} \cup Ended => ~Rejected)
      /\ c.fns \in Seq(Name) /\ Len(c.fns) \in Nat /\ c.all \in BOOLEAN
  BY <1>2, LenProperties DEF FlagsInv, Flags
<1>4. /\ <<>> \in Seq(Pair) /\ Len(<<>>) = 0 /\ \A ps : <<>> \in Seq(Entries(ps))
  OBVIOUS
<1> USE DEF Silent, Opening, OfOne, OfTwo, Ended, Reporting, Idle, Go, Fail, Goto
<1>5. CASE Validate
  BY <1>1, <1>2, <1>3, <1>4, <1>5 DEF WorkInv, Validate
<1>6. CASE CPUProfile
  BY <1>1, <1>2, <1>3, <1>4, <1>6 DEF WorkInv, CPUProfile
<1>7. CASE MemProfile
  BY <1>1, <1>2, <1>3, <1>4, <1>7 DEF WorkInv, MemProfile
<1>8. CASE OpenOld
  BY <1>1, <1>2, <1>3, <1>4, <1>8 DEF WorkInv, OpenOld, Open
<1>9. CASE OpenNew
  BY <1>1, <1>2, <1>3, <1>4, <1>9 DEF WorkInv, OpenNew, Open
<1>10. CASE Raw
  BY <1>1, <1>2, <1>3, <1>4, <1>10 DEF WorkInv, Raw
<1>11. CASE OpenObjOld
  BY <1>1, <1>2, <1>3, <1>4, <1>11 DEF WorkInv, OpenObjOld, Open
<1>12. CASE OpenObjNew
  BY <1>1, <1>2, <1>3, <1>4, <1>12 DEF WorkInv, OpenObjNew, Open
<1>13. CASE Single
  BY <1>1, <1>2, <1>3, <1>4, <1>13 DEF WorkInv, Single
<1>14. CASE EndText
  BY <1>1, <1>2, <1>3, <1>4, <1>14 DEF WorkInv, EndText
<1>15. CASE Release
  BY <1>1, <1>2, <1>3, <1>4, <1>15 DEF WorkInv, Release
<1>16. CASE Exit
  BY <1>1, <1>2, <1>3, <1>4, <1>16 DEF WorkInv, Exit
<1>17. CASE Version
  <2>1. <<Item("version", <<>>)>> \in Seq(Items)
    BY ItemType DEF Kinds
  <2>2. out' \in Seq(Items)
    BY <1>2, <1>17, <2>1, AppendedItems DEF Version, Emit
  <2> QED
    BY <1>1, <1>2, <1>17, <2>2 DEF WorkInv, Version
<1>18. CASE Compare
  BY <1>1, <1>2, <1>3, <1>4, <1>18 DEF WorkInv, Compare
<1>19. CASE Select
  BY <1>1, <1>2, <1>3, <1>4, <1>19 DEF WorkInv, Select
<1>20. CASE Summary
  <2>1. work' \in Tables(pairs) /\ pc = "summary" /\ UNCHANGED <<pairs, at, doc>>
    BY <1>20 DEF Summary
  <2>2. work' \in Seq(Told(pairs))
    BY <1>1, <1>3, <2>1, TablesAre
  <2>3. work' \in Seq(Pair) /\ Len(work') \in Nat
    <3>1. Told(pairs) \subseteq Pair
      BY <1>3, RangeIn DEF Told
    <3> QED
      BY <2>2, <3>1, LenProperties, SeqOfLess
  <2>4. <<Item("summary", pairs)>> \in Seq(Items)
    BY <1>3, ItemType DEF Kinds
  <2>5. out' \in Seq(Items)
    BY <1>2, <1>20, <2>4, AppendedItems DEF Summary, Emit
  <2>6. pc' \notin Silent
    BY <1>20 DEF Summary
  <2>7. at = 0 /\ at' \in 0..Len(work')
    BY <1>2, <2>1, <2>3
  <2> QED
    BY <1>1, <1>2, <2>1, <2>2, <2>3, <2>5, <2>6, <2>7 DEF WorkInv
<1>21. CASE WriteAll
  <2>1. pc = "all" /\ at < Len(work) /\ WriteFunc(Current)
    BY <1>21 DEF WriteAll, Left
  <2>2. Current \in Pair
    <3>1. Told(pairs) \subseteq Pair
      BY <1>3, RangeIn DEF Told
    <3>2. at + 1 \in 1..Len(work)
      BY <1>2, <1>3, <2>1
    <3>3. Current \in Told(pairs)
      BY <1>2, <2>1, <3>2, ElementOfSeq DEF Current
    <3> QED
      BY <3>1, <3>3
  <2>3. out' \in Seq(Items) /\ at' \in 0..Len(work) /\ pc' \in {"all", "return"} /\ UNCHANGED <<pairs, work, doc>>
    BY <1>2, <1>3, <2>1, <2>2, Written1
  <2> QED
    BY <1>1, <1>2, <2>1, <2>3 DEF WorkInv
<1>22. CASE WriteName
  <2> DEFINE found == MatchFuncs(pairs, Current)
  <2>1. pc = "names" /\ at < Len(work)
    BY <1>22 DEF WriteName, Left
  <2>2. found \in Seq(Pair)
    BY <1>3, MatchIs
  <2> HIDE DEF found
  <2>3. CASE found = <<>>
    BY <1>1, <1>2, <1>22, <2>1, <2>3 DEF WorkInv, WriteName, found
  <2>4. CASE found # <<>> /\ Len(found) = 1
    <3>1. WriteFunc(found[1])
      BY <1>22, <2>4 DEF WriteName, found
    <3>2. found[1] \in Pair
      BY <2>2, <2>4, ElementOfSeq
    <3>3. out' \in Seq(Items) /\ at' \in 0..Len(work) /\ pc' \in {"names", "return"} /\ UNCHANGED <<pairs, work, doc>>
      BY <1>2, <1>3, <2>1, <3>1, <3>2, Written1
    <3> QED
      BY <1>1, <1>2, <2>1, <3>3 DEF WorkInv
  <2>5. CASE found # <<>> /\ Len(found) # 1
    <3>1. Emit(<<Item("matches", found)>>) /\ Step /\ Go(pc) /\ UNCHANGED <<pairs, held, work, doc>>
      BY <1>22, <2>5 DEF WriteName, found
    <3>2. <<Item("matches", found)>> \in Seq(Items)
      BY <2>2, ItemType DEF Kinds
    <3>3. out' \in Seq(Items)
      BY <1>2, <3>1, <3>2, AppendedItems DEF Emit
    <3>4. at' \in 0..Len(work)
      BY <1>2, <1>3, <2>1, <3>1 DEF Step
    <3> QED
      BY <1>1, <1>2, <2>1, <3>1, <3>3, <3>4 DEF WorkInv
  <2> QED
    BY <2>3, <2>4, <2>5
<1>23. CASE JSONAll
  <2>1. pc = "jsonAll" /\ at < Len(work) /\ Collect(<<Current>>, {Current}, c.all)
    BY <1>23 DEF JSONAll, Left
  <2>2. Current \in Range(pairs) /\ Current \in Pair
    <3>1. Told(pairs) \subseteq Pair /\ Told(pairs) \subseteq Range(pairs)
      BY <1>3, RangeIn DEF Told
    <3>2. at + 1 \in 1..Len(work)
      BY <1>2, <1>3, <2>1
    <3>3. Current \in Told(pairs)
      BY <1>2, <2>1, <3>2, ElementOfSeq DEF Current
    <3> QED
      BY <3>1, <3>3
  <2>3. <<Current>> \in Seq(Pair) /\ \A k \in DOMAIN <<Current>> : <<Current>>[k] = Current
    BY <2>2
  <2>4. doc' \in Seq(Entries(pairs)) /\ at' \in 0..Len(work) /\ pc' \in {"jsonAll", "return"} /\ UNCHANGED <<pairs, work, out>>
    <3> DEFINE one == <<Current>>
    <3>1. CollectsFrom(pairs, one, {Current}, c.all)
      BY <1>3, <2>2, <2>3 DEF CollectsFrom
    <3>2. Collect(one, {Current}, c.all)
      BY <2>1
    <3> HIDE DEF one
    <3> QED
      BY <1>2, <1>3, <2>1, <3>1, <3>2, Collected
  <2> QED
    BY <1>1, <1>2, <2>1, <2>4 DEF WorkInv
<1>24. CASE JSONName
  <2> DEFINE found == MatchFuncs(pairs, Current)
             sole == Len(found) = 1
             stats == {p \in Range(found) : sole \/ p.state = "changed"}
  <2>1. pc = "jsonNames" /\ at < Len(work)
    BY <1>24 DEF JSONName, Left
  <2>2. found \in Seq(Pair) /\ \A k \in DOMAIN found : found[k] \in Range(pairs)
    BY <1>3, MatchIs
  <2>3. CASE found = <<>>
    <3> HIDE DEF found
    <3> QED
      BY <1>1, <1>2, <1>24, <2>1, <2>3 DEF WorkInv, JSONName, found
  <2>4. CASE found # <<>>
    <3>1. Collect(found, stats, sole)
      BY <1>24, <2>4 DEF JSONName
    <3>2. CollectsFrom(pairs, found, stats, sole)
      BY <2>2 DEF CollectsFrom, Range
    <3> HIDE DEF found, stats, sole
    <3>3. doc' \in Seq(Entries(pairs)) /\ at' \in 0..Len(work) /\ pc' \in {"jsonNames", "return"} /\ UNCHANGED <<pairs, work, out>>
      BY <1>2, <1>3, <2>1, <3>1, <3>2, Collected
    <3> QED
      BY <1>1, <1>2, <2>1, <3>3 DEF WorkInv
  <2> QED
    BY <2>3, <2>4
<1>25. CASE Encode
  <2>1. doc \in Abouts
    BY <1>2, <1>3, Zenon DEF Abouts
  <2>2. <<Item("json", doc)>> \in Seq(Items)
    BY <2>1, ItemType DEF Kinds
  <2>3. out' \in Seq(Items)
    BY <1>2, <1>25, <2>2, AppendedItems DEF Encode, Emit
  <2> QED
    BY <1>1, <1>2, <1>25, <2>3 DEF WorkInv, Encode
<1>26. CASE WriteListing
  <2> DEFINE found == MatchFuncs(Funcs(bin.table), Current)
  <2>1. pc = "listings" /\ at < Len(work) /\ pc' \in {"listings", "return"} /\ UNCHANGED <<pairs, work, doc>>
    BY <1>26 DEF WriteListing, Left
  <2>2. found \in Seq(Symbol)
    <3>1. bin.table \in Seq(Symbol) /\ ByAddress(bin.table)
      BY DEF FlagsInv, BinOK
    <3>2. Funcs(bin.table) \in Seq(Symbol)
      BY <3>1, FuncsAre
    <3> QED
      BY <3>2, MatchIs
  <2>3. <<Item("listing", found)>> \in Seq(Items) /\ <<Item("matches", found)>> \in Seq(Items)
    BY <2>2, ItemType DEF Kinds
  <2>4. \/ UNCHANGED <<at, out>>
        \/ at' = at + 1 /\ out' = out \o <<Item("listing", found)>>
        \/ at' = at + 1 /\ out' = out \o <<Item("matches", found)>>
    BY <1>26 DEF WriteListing, Emit, Step
  <2> HIDE DEF found
  <2>5. out' \in Seq(Items)
    BY <1>2, <2>3, <2>4, AppendedItems
  <2>6. at' \in 0..Len(work)
    BY <1>2, <1>3, <2>1, <2>4
  <2> QED
    BY <1>1, <1>2, <2>1, <2>5, <2>6 DEF WorkInv
<1>27. CASE WriteStats
  <2> DEFINE head == Item("statsHead", <<StatsHead(bin)>>)
             tables == Item("statsTables", <<StatsTables(bin)>>)
  <2>1. <<StatsHead(bin)>> \in Abouts /\ <<StatsTables(bin)>> \in Abouts
    BY Zenon DEF Abouts
  <2>2. head \in Items /\ tables \in Items
    BY <2>1, ItemType DEF Kinds
  <2> HIDE DEF head, tables
  <2>3. <<head, tables>> \in Seq(Items) /\ <<head>> \in Seq(Items)
    BY <2>2
  <2>4. out' \in Seq(Items)
    BY <1>2, <1>27, <2>3, AppendedItems DEF WriteStats, Emit, head, tables
  <2> QED
    BY <1>1, <1>2, <1>27, <2>4 DEF WorkInv, WriteStats
<1> QED
  BY <1>5, <1>6, <1>7, <1>8, <1>9, <1>10, <1>11, <1>12, <1>13, <1>14, <1>15, <1>16, <1>17, <1>18, <1>19, <1>20, <1>21, <1>22, <1>23, <1>24, <1>25, <1>26, <1>27 DEF CommandNext

-----------------------------------------------------------------------------
(* Only a name that is not found is answered with suggestions.             *)
ErrorInv ==
  error.why = "name" =>
    error = NotFound(KnownTo(bin, pairs), c.fns[at + 1]) /\ work = c.fns /\ at < Len(c.fns)

LEMMA ErrorInvHolds ==
  ASSUME FlagsInv, WorkInv, ErrorInv, CommandNext PROVE ErrorInv'
<1>1. c' = c /\ bin' = bin
  BY FrameHolds
<1>2. /\ Because("flags").why # "name" /\ Because("profile").why # "name" /\ Because("open").why # "name"
      /\ Because("compare").why # "name" /\ Because("filter").why # "name" /\ Because("decode").why # "name"
  BY DEF Because, NoError
<1>3. NoError.why # "name"
  BY DEF NoError
<1>4. pc \notin Ended => error = NoError
  BY DEF FlagsInv
<1>5. ASSUME error'.why # "name" \/ (error' = error /\ pc \notin Ended) PROVE ErrorInv'
  BY <1>3, <1>4, <1>5 DEF ErrorInv
<1> USE DEF Ended, Go, Fail, Goto
<1>6. CASE Version
  BY <1>2, <1>5, <1>6 DEF Version
<1>7. CASE Validate
  BY <1>2, <1>5, <1>7 DEF Validate
<1>8. CASE CPUProfile
  BY <1>2, <1>5, <1>8 DEF CPUProfile
<1>9. CASE MemProfile
  BY <1>2, <1>5, <1>9 DEF MemProfile
<1>10. CASE OpenOld
  BY <1>2, <1>5, <1>10 DEF OpenOld, Open
<1>11. CASE OpenNew
  BY <1>2, <1>5, <1>11 DEF OpenNew, Open
<1>12. CASE Compare
  BY <1>2, <1>5, <1>12 DEF Compare
<1>13. CASE Raw
  BY <1>2, <1>5, <1>13 DEF Raw
<1>14. CASE OpenObjOld
  BY <1>2, <1>5, <1>14 DEF OpenObjOld, Open
<1>15. CASE OpenObjNew
  BY <1>2, <1>5, <1>15 DEF OpenObjNew, Open
<1>16. CASE Select
  BY <1>2, <1>5, <1>16 DEF Select
<1>17. CASE Summary
  BY <1>2, <1>5, <1>17 DEF Summary
<1>18. CASE WriteAll
  BY <1>2, <1>5, <1>18 DEF WriteAll, WriteFunc
<1>19. CASE JSONAll
  BY <1>2, <1>5, <1>19 DEF JSONAll, Collect
<1>20. CASE Encode
  BY <1>2, <1>5, <1>20 DEF Encode
<1>21. CASE Single
  BY <1>2, <1>5, <1>21 DEF Single
<1>22. CASE WriteStats
  BY <1>2, <1>5, <1>22 DEF WriteStats
<1>23. CASE EndText
  BY <1>2, <1>5, <1>23 DEF EndText
<1>24. CASE Release
  <2>1. UNCHANGED <<error, pairs, work, at>>
    BY <1>24 DEF Release, Idle
  <2> QED
    BY <1>1, <2>1 DEF ErrorInv, KnownTo
<1>25. CASE Exit
  <2>1. UNCHANGED <<error, pairs, work, at>>
    BY <1>25 DEF Exit, Idle
  <2> QED
    BY <1>1, <2>1 DEF ErrorInv, KnownTo
<1>26. CASE WriteName
  <2>1. /\ pc = "names" /\ at < Len(work) /\ UNCHANGED <<pairs, work>>
        /\ \/ error' = error \/ error' = Because("decode")
           \/ error' = NotFound(pairs, Current) /\ at' = at
    BY <1>26 DEF WriteName, Left, WriteFunc
  <2>2. work = c.fns /\ error = NoError /\ pairs = KnownTo(bin, pairs)
    BY <1>4, <2>1 DEF FlagsInv, KnownTo, OfOne, OfTwo, Reporting
  <2>3. CASE error' = error \/ error' = Because("decode")
    BY <1>2, <1>3, <1>5, <2>2, <2>3
  <2>4. CASE error' = NotFound(pairs, Current) /\ at' = at
    <3>1. KnownTo(bin', pairs') = KnownTo(bin, pairs) /\ KnownTo(bin, pairs)' = KnownTo(bin', pairs')
      BY <1>1, <2>1 DEF KnownTo
    <3> QED
      BY <1>1, <2>1, <2>2, <2>4, <3>1 DEF ErrorInv, Current
  <2> QED
    BY <2>1, <2>3, <2>4
<1>27. CASE JSONName
  <2>1. /\ pc = "jsonNames" /\ at < Len(work) /\ UNCHANGED <<pairs, work>>
        /\ \/ error' = error \/ error' = Because("decode")
           \/ error' = NotFound(pairs, Current) /\ at' = at
    BY <1>27 DEF JSONName, Left, Collect
  <2>2. work = c.fns /\ error = NoError /\ pairs = KnownTo(bin, pairs)
    BY <1>4, <2>1 DEF FlagsInv, KnownTo, OfOne, OfTwo, Reporting
  <2>3. CASE error' = error \/ error' = Because("decode")
    BY <1>2, <1>3, <1>5, <2>2, <2>3
  <2>4. CASE error' = NotFound(pairs, Current) /\ at' = at
    <3>1. KnownTo(bin', pairs') = KnownTo(bin, pairs) /\ KnownTo(bin, pairs)' = KnownTo(bin', pairs')
      BY <1>1, <2>1 DEF KnownTo
    <3> QED
      BY <1>1, <2>1, <2>2, <2>4, <3>1 DEF ErrorInv, Current
  <2> QED
    BY <2>1, <2>3, <2>4
<1>28. CASE WriteListing
  <2>1. /\ pc = "listings" /\ at < Len(work) /\ UNCHANGED <<pairs, work>>
        /\ \/ error' = error \/ error' = Because("decode")
           \/ error' = NotFound(Funcs(bin.table), Current) /\ at' = at
    BY <1>28 DEF WriteListing, Left
  <2>2. work = c.fns /\ error = NoError /\ Funcs(bin.table) = KnownTo(bin, pairs)
    BY <1>4, <2>1 DEF FlagsInv, KnownTo, OfOne, OfTwo, Reporting
  <2>3. CASE error' = error \/ error' = Because("decode")
    BY <1>2, <1>3, <1>5, <2>2, <2>3
  <2>4. CASE error' = NotFound(Funcs(bin.table), Current) /\ at' = at
    <3>1. KnownTo(bin', pairs') = KnownTo(bin, pairs) /\ KnownTo(bin, pairs)' = KnownTo(bin', pairs')
      BY <1>1, <2>1 DEF KnownTo
    <3> QED
      BY <1>1, <2>1, <2>2, <2>4, <3>1 DEF ErrorInv, Current
  <2> QED
    BY <2>1, <2>3, <2>4
<1> QED
  BY <1>6, <1>7, <1>8, <1>9, <1>10, <1>11, <1>12, <1>13, <1>14, <1>15, <1>16, <1>17, <1>18, <1>19, <1>20, <1>21, <1>22, <1>23, <1>24, <1>25, <1>26, <1>27, <1>28 DEF CommandNext

-----------------------------------------------------------------------------
(* What is printed needs no more than what is held.                        *)
Fit(R) == {i \in Items : Needs(i) \subseteq R}

LEMMA SidesAre ==
  ASSUME NEW p PROVE SideOf(p) \subseteq {"old", "new"}
BY DEF SideOf

LEMMA NeedsAre ==
  ASSUME NEW about
  PROVE  /\ \A kind \in {"version", "summary", "identical", "one-sided", "matches", "json", "statsHead"} :
              Needs(Item(kind, about)) = {}
         /\ \A kind \in {"diff", "sideBySide"} : Needs(Item(kind, about)) \subseteq {"old", "new"}
         /\ \A kind \in {"listing", "statsTables"} : Needs(Item(kind, about)) = {"old"}
         /\ Needs(Item("blocks", about)) = {"objOld", "objNew"}
<1>1. \A kind : Item(kind, about).kind = kind /\ Item(kind, about).about = about
  BY DEF Item
<1>2. \A kind \in {"diff", "sideBySide"} : Needs(Item(kind, about)) = SideOf(about[1])
  BY <1>1 DEF Needs
<1>3. \A kind \in {"version", "summary", "identical", "one-sided", "matches", "json", "statsHead"} :
        Needs(Item(kind, about)) = {}
  BY <1>1 DEF Needs
<1>4. \A kind \in {"listing", "statsTables"} : Needs(Item(kind, about)) = {"old"}
  BY <1>1 DEF Needs
<1>5. Needs(Item("blocks", about)) = {"objOld", "objNew"}
  BY <1>1 DEF Needs
<1> QED
  BY <1>2, <1>3, <1>4, <1>5, SidesAre

LEMMA FitItems ==
  ASSUME NEW R, NEW kind \in Kinds, NEW about \in Abouts, Needs(Item(kind, about)) \subseteq R
  PROVE  <<Item(kind, about)>> \in Seq(Fit(R))
<1>1. Item(kind, about) \in Fit(R)
  BY ItemType DEF Fit
<1> QED
  BY <1>1

LEMMA FitPair ==
  ASSUME NEW R, {"old", "new"} \subseteq R, NEW p \in Pair, Blocked(p) => {"objOld", "objNew"} \subseteq R
  PROVE  Noted(p) \in Seq(Fit(R)) /\ Diffed(p) \in Seq(Fit(R))
<1>1. <<p>> \in Abouts /\ <<>> \in Seq(Fit(R))
  BY ItemType
<1>2. \A kind \in {"identical", "one-sided", "diff", "sideBySide"} : <<Item(kind, <<p>>)>> \in Seq(Fit(R))
  <2> SUFFICES ASSUME NEW kind \in {"identical", "one-sided", "diff", "sideBySide"}
               PROVE  <<Item(kind, <<p>>)>> \in Seq(Fit(R))
    OBVIOUS
  <2>1. kind \in Kinds
    BY DEF Kinds
  <2>2. Needs(Item(kind, <<p>>)) \subseteq R
    BY NeedsAre
  <2> QED
    BY <1>1, <2>1, <2>2, FitItems
<1>3. Blocked(p) => <<Item("blocks", <<p>>)>> \in Seq(Fit(R))
  <2>1. "blocks" \in Kinds
    BY DEF Kinds
  <2>2. Needs(Item("blocks", <<p>>)) = {"objOld", "objNew"}
    BY NeedsAre
  <2> QED
    BY <1>1, <2>1, <2>2, FitItems
<1>4. Noted(p) \in {<<>>, <<Item("identical", <<p>>)>>, <<Item("one-sided", <<p>>)>>}
  BY DEF Noted
<1>5. \/ Diffed(p) \in {<<>>, <<Item("sideBySide", <<p>>)>>, <<Item("diff", <<p>>)>>}
      \/ Blocked(p) /\ Diffed(p) = <<Item("blocks", <<p>>)>>
  BY DEF Diffed
<1> QED
  BY <1>1, <1>2, <1>3, <1>4, <1>5, Zenon

(* The step that ReadsAreMapped is about.                                  *)
Read(R) == \A k \in (Len(out) + 1)..Len(out') : Needs(out'[k]) \subseteq R
ReadStep ==
  /\ pc = "compare" => {"old", "new"} \subseteq Range(held)
  /\ Read(Range(held))
  /\ \A k \in (Len(doc) + 1)..Len(doc') : doc'[k].diff => SideOf(doc'[k].pair) \subseteq Range(held)

LEMMA ReadFit ==
  ASSUME out \in Seq(Items), NEW R, NEW t \in Seq(Fit(R)), out' = out \o t PROVE Read(R)
<1>1. t \in Seq(Items) /\ DOMAIN t = 1..Len(t) /\ \A j \in DOMAIN t : t[j] \in Fit(R)
  <2>1. Fit(R) \subseteq Items
    BY DEF Fit
  <2> QED
    BY <2>1, SeqOfLess, LenProperties, ElementOfSeq
<1>2. Added(out, t, out \o t)
  BY <1>1, Appended
<1>3. Added(out, t, out')
  BY <1>2
<1> QED
  BY <1>1, <1>3 DEF Read, Fit, Added

LEMMA ReadNone ==
  ASSUME NEW s, NEW X, s \in Seq(X) PROVE (Len(s) + 1)..Len(s) = {}
<1>1. Len(s) \in Nat
  BY LenProperties
<1> QED
  BY <1>1

LEMMA FoundSymbols ==
  ASSUME FlagsInv PROVE MatchFuncs(Funcs(bin.table), Current) \in Seq(Symbol)
<1>1. bin.table \in Seq(Symbol) /\ ByAddress(bin.table)
  BY DEF FlagsInv, BinOK
<1>2. Funcs(bin.table) \in Seq(Symbol)
  BY <1>1, FuncsAre
<1> QED
  BY <1>2, MatchIs

LEMMA CurrentIs ==
  ASSUME FlagsInv, WorkInv, pc \in {"all", "jsonAll"}, at < Len(work)
  PROVE  at + 1 \in 1..Len(work) /\ Current \in Told(pairs) /\ Current \in Pair /\ Current \in Range(pairs)
<1>1. work \in Seq(Told(pairs)) /\ at \in 0..Len(work) /\ pairs \in Seq(Pair)
  BY DEF WorkInv, FlagsInv
<1>2. at + 1 \in 1..Len(work)
  BY <1>1, LenProperties
<1>3. Current \in Told(pairs)
  BY <1>1, <1>2, ElementOfSeq DEF Current
<1> QED
  BY <1>1, <1>2, <1>3, RangeIn DEF Told

LEMMA ReadsAre ==
  ASSUME FlagsInv, HeldInv, WorkInv, CommandNext PROVE ReadStep
<1> DEFINE R == Range(held)
<1>1. /\ pc \in OfTwo \ {"new"} => {"old", "new"} \subseteq R
      /\ pc \in OfOne => "old" \in R
      /\ pc \in {"all", "names"} => ({"old", "new"} \subseteq R /\ (c.blocks => {"objOld", "objNew"} \subseteq R))
  <2>1. Required(pc) \subseteq R
    BY DEF HeldInv
  <2>2. pc \in {"all", "names"} => (c.blocks => ForBlocks)
    BY DEF FlagsInv, ForBlocks
  <2> HIDE DEF R
  <2>3. pc \in OfTwo \ {"new"} => {"old", "new"} \subseteq R
    BY <2>1 DEF Required
  <2>4. pc \in OfOne => "old" \in R
    BY <2>1 DEF Required
  <2>5. pc \in {"all", "names"} => pc \in OfTwo \ {"new"}
    BY DEF OfTwo, Reporting
  <2>6. pc \in {"all", "names"} /\ ForBlocks => {"objOld", "objNew"} \subseteq R
    BY <2>1 DEF Required, Reporting
  <2> QED
    BY <2>2, <2>3, <2>4, <2>5, <2>6
<1>2. out \in Seq(Items) /\ doc \in Seq(Entries(pairs)) /\ pairs \in Seq(Pair) /\ at \in Nat /\ Len(work) \in Nat
  BY LenProperties DEF WorkInv, FlagsInv
<1>3. (Len(out) + 1)..Len(out) = {} /\ (Len(doc) + 1)..Len(doc) = {}
  BY <1>2, ReadNone
<1>4. pc = "compare" => {"old", "new"} \subseteq R
  BY <1>1 DEF OfTwo
<1>5. ASSUME out' = out \/ Read(R), doc' = doc \/ pc \in {"jsonAll", "jsonNames"} PROVE ReadStep
  <2>1. Read(R)
    BY <1>3, <1>5 DEF Read
  <2>2. pc \in {"jsonAll", "jsonNames"} => {"old", "new"} \subseteq R
    BY <1>1 DEF OfTwo, Reporting
  <2>3. \A k \in (Len(doc) + 1)..Len(doc') : doc'[k].diff => SideOf(doc'[k].pair) \subseteq R
    <3> HIDE DEF R
    <3> QED
      BY <1>3, <1>5, <2>2, SidesAre
  <2> QED
    BY <1>4, <2>1, <2>3 DEF ReadStep
<1>6. ASSUME NEW kind \in Kinds, NEW about \in Abouts, out' = out \o <<Item(kind, about)>>,
             Needs(Item(kind, about)) \subseteq R PROVE Read(R)
  <2> HIDE DEF R
  <2>1. <<Item(kind, about)>> \in Seq(Fit(R))
    BY <1>6, FitItems
  <2> QED
    BY <1>2, <1>6, <2>1, ReadFit
<1>7. ASSUME NEW p \in Pair, WriteFunc(p), pc \in {"all", "names"} PROVE Read(R)
  <2>1. Blocked(p) => c.blocks
    BY DEF Blocked
  <2> HIDE DEF R
  <2>2. Noted(p) \in Seq(Fit(R)) /\ Diffed(p) \in Seq(Fit(R))
    BY <1>1, <1>7, <2>1, FitPair
  <2>3. Noted(p) \o Diffed(p) \in Seq(Fit(R))
    BY <2>2, Appended
  <2>4. out' = out \o (Noted(p) \o Diffed(p)) \/ out' = out \o Noted(p)
    BY <1>7 DEF WriteFunc, Emit
  <2> QED
    BY <1>2, <2>2, <2>3, <2>4, ReadFit
<1> HIDE DEF R
<1>8. CASE Validate
  BY <1>5, <1>8 DEF Validate, Idle
<1>9. CASE CPUProfile
  BY <1>5, <1>9 DEF CPUProfile, Idle
<1>10. CASE MemProfile
  BY <1>5, <1>10 DEF MemProfile, Idle
<1>11. CASE OpenOld
  BY <1>5, <1>11 DEF OpenOld, Open, Idle
<1>12. CASE OpenNew
  BY <1>5, <1>12 DEF OpenNew, Open, Idle
<1>13. CASE Compare
  BY <1>5, <1>13 DEF Compare, Idle
<1>14. CASE Raw
  BY <1>5, <1>14 DEF Raw, Idle
<1>15. CASE OpenObjOld
  BY <1>5, <1>15 DEF OpenObjOld, Open, Idle
<1>16. CASE OpenObjNew
  BY <1>5, <1>16 DEF OpenObjNew, Open, Idle
<1>17. CASE Select
  BY <1>5, <1>17 DEF Select, Idle
<1>18. CASE Single
  BY <1>5, <1>18 DEF Single, Idle
<1>19. CASE EndText
  BY <1>5, <1>19 DEF EndText, Idle
<1>20. CASE Release
  BY <1>5, <1>20 DEF Release, Idle
<1>21. CASE Exit
  BY <1>5, <1>21 DEF Exit, Idle
<1>22. CASE Version
  <2>1. out' = out \o <<Item("version", <<>>)>> /\ doc' = doc
    BY <1>22 DEF Version, Emit, Idle
  <2>2. "version" \in Kinds /\ <<>> \in Abouts /\ Needs(Item("version", <<>>)) = {}
    BY ItemType, NeedsAre DEF Kinds
  <2> QED
    BY <1>5, <1>6, <2>1, <2>2
<1>23. CASE Summary
  <2>1. (out' = out \/ out' = out \o <<Item("summary", pairs)>>) /\ doc' = doc
    BY <1>23 DEF Summary, Emit
  <2>2. "summary" \in Kinds /\ pairs \in Abouts /\ Needs(Item("summary", pairs)) = {}
    BY <1>2, ItemType, NeedsAre DEF Kinds
  <2> QED
    BY <1>5, <1>6, <2>1, <2>2
<1>24. CASE WriteAll
  <2>1. pc = "all" /\ at < Len(work) /\ WriteFunc(Current) /\ doc' = doc
    BY <1>24 DEF WriteAll, WriteFunc, Left
  <2>2. Current \in Pair
    BY <1>2, <2>1, CurrentIs
  <2> QED
    BY <1>5, <1>7, <2>1, <2>2
<1>25. CASE WriteName
  <2> DEFINE found == MatchFuncs(pairs, Current)
  <2>1. pc = "names" /\ found \in Seq(Pair) /\ doc' = doc
    BY <1>2, <1>25, MatchIs DEF WriteName, WriteFunc
  <2> HIDE DEF found
  <2>2. \/ out' = out
        \/ Len(found) = 1 /\ WriteFunc(found[1])
        \/ out' = out \o <<Item("matches", found)>>
    <3>1. CASE found = <<>>
      <4>1. Len(found) # 1
        BY <3>1
      <4>2. out' = out
        BY <1>25, <3>1, <4>1 DEF WriteName, Fail, Goto, found
      <4> QED
        BY <4>2
    <3>2. CASE found # <<>> /\ Len(found) = 1
      BY <1>25, <3>2 DEF WriteName, found
    <3>3. CASE found # <<>> /\ Len(found) # 1
      BY <1>25, <3>3 DEF WriteName, Emit, found
    <3> QED
      BY <3>1, <3>2, <3>3
  <2>3. Len(found) = 1 => found[1] \in Pair
    BY <2>1, ElementOfSeq
  <2>4. "matches" \in Kinds /\ found \in Abouts /\ Needs(Item("matches", found)) = {}
    BY <2>1, ItemType, NeedsAre DEF Kinds
  <2> QED
    BY <1>5, <1>6, <1>7, <2>1, <2>2, <2>3, <2>4
<1>26. CASE JSONAll
  BY <1>5, <1>26 DEF JSONAll, Collect
<1>27. CASE JSONName
  BY <1>5, <1>27 DEF JSONName, Collect
<1>28. CASE Encode
  <2>1. out' = out \o <<Item("json", doc)>> /\ doc' = doc
    BY <1>28 DEF Encode, Emit, Idle
  <2>2. "json" \in Kinds /\ Needs(Item("json", doc)) = {}
    BY NeedsAre DEF Kinds
  <2>3. doc \in Abouts
    BY <1>2, Zenon DEF Abouts
  <2> QED
    BY <1>5, <1>6, <2>1, <2>2, <2>3
<1>29. CASE WriteListing
  <2> DEFINE found == MatchFuncs(Funcs(bin.table), Current)
  <2>1. pc = "listings" /\ doc' = doc
        /\ \/ out' = out
           \/ out' = out \o <<Item("listing", found)>>
           \/ out' = out \o <<Item("matches", found)>>
    BY <1>29 DEF WriteListing, Emit
  <2>2. found \in Seq(Symbol)
    BY FoundSymbols
  <2> HIDE DEF found
  <2>3. {"listing", "matches"} \subseteq Kinds /\ found \in Abouts /\ "old" \in R
    BY <1>1, <2>1, <2>2, ItemType DEF Kinds, OfOne
  <2>4. Needs(Item("listing", found)) = {"old"} /\ Needs(Item("matches", found)) = {}
    BY NeedsAre
  <2> QED
    BY <1>5, <1>6, <2>1, <2>3, <2>4
<1>30. CASE WriteStats
  <2> DEFINE head == Item("statsHead", <<StatsHead(bin)>>)
             tables == Item("statsTables", <<StatsTables(bin)>>)
  <2>1. pc = "stats" /\ doc' = doc /\ (out' = out \o <<head, tables>> \/ out' = out \o <<head>>)
    BY <1>30 DEF WriteStats, Emit, Idle
  <2>2. <<StatsHead(bin)>> \in Abouts /\ <<StatsTables(bin)>> \in Abouts /\ {"statsHead", "statsTables"} \subseteq Kinds
    BY Zenon DEF Abouts, Kinds
  <2>3. Needs(head) = {} /\ Needs(tables) = {"old"} /\ "old" \in R
    BY <1>1, <2>1, NeedsAre DEF OfOne
  <2>4. head \in Fit(R) /\ tables \in Fit(R)
    BY <2>2, <2>3, ItemType DEF Fit
  <2> HIDE DEF head, tables
  <2>5. <<head, tables>> \in Seq(Fit(R)) /\ <<head>> \in Seq(Fit(R))
    BY <2>4
  <2>6. Read(R)
    BY <1>2, <2>1, <2>5, ReadFit
  <2> QED
    BY <1>5, <2>1, <2>6
<1> QED
  BY <1>8, <1>9, <1>10, <1>11, <1>12, <1>13, <1>14, <1>15, <1>16, <1>17, <1>18, <1>19, <1>20, <1>21, <1>22, <1>23, <1>24, <1>25, <1>26, <1>27, <1>28, <1>29, <1>30 DEF CommandNext
-----------------------------------------------------------------------------
(* What a report consists of: the answer to each name, the section of each *)
(* pair, the entries that JSON has of either.                              *)
NameAnswers == [k \in DOMAIN c.fns |-> Answer(pairs, c.fns[k], Section)]
ListAnswers == [k \in DOMAIN c.fns |-> Answer(Funcs(bin.table), c.fns[k], LAMBDA f : <<Item("listing", <<f>>)>>)]
PairSections == [k \in DOMAIN work |-> Section(work[k])]
NameEntries == [k \in DOMAIN c.fns |-> InJSONAll(Answer(pairs, c.fns[k], Section))]
PairEntry(p) == LET code == p.state # "relocation-only" IN [pair |-> p, stats |-> code, diff |-> code /\ c.all]
PairEntries == [k \in DOMAIN work |-> PairEntry(work[k])]

Heading == IF ~c.single /\ c.fns = <<>> THEN <<Item("summary", pairs)>> ELSE <<>>
Texts == IF c.single THEN ListAnswers ELSE IF c.fns # <<>> THEN NameAnswers ELSE PairSections

(* By the state of a pair and the flags, what Section consists of.         *)
LEMMA SectionIs ==
  ASSUME NEW p \in Pair
  PROVE  /\ Section(p) = Noted(p) \o Diffed(p)
         /\ OneSided(p) \/ Blocked(p) => Diffed(p) # <<>>
         /\ Section(p) # <<>>
<1>1. p.state \in {"identical", "relocation-only", "changed", "added", "removed"}
  BY DEF Pair
<1>2. <<>> \o <<>> = <<>> /\ \A x : <<>> \o <<x>> = <<x>> /\ <<x>> \o <<>> = <<x>> /\ <<x>> # <<>>
  OBVIOUS
<1>3. CASE p.state = "identical"
  <2>2. ~OneSided(p) /\ ~Blocked(p)
    BY <1>3 DEF OneSided, Blocked
  <2>3. Section(p) = <<Item("identical", <<p>>)>>
    BY <1>3, <2>2, Zenon DEF Section
  <2>4. Noted(p) = <<Item("identical", <<p>>)>>
    BY <1>3, <2>2, Zenon DEF Noted
  <2>1. Section(p) = <<Item("identical", <<p>>)>> /\ Noted(p) = <<Item("identical", <<p>>)>> /\ Diffed(p) = <<>>
    BY <1>3, <2>3, <2>4, Zenon DEF Diffed
  <2> QED
    BY <1>2, <2>1, <2>2
<1>4. CASE p.state \in {"added", "removed"}
  <2>1. OneSided(p) /\ ~Blocked(p)
    BY <1>4 DEF OneSided, Blocked
  <2> DEFINE kind == IF c.sideBy THEN "sideBySide" ELSE "diff"
  <2>2. /\ Section(p) = <<Item("one-sided", <<p>>)>> \o <<Item(kind, <<p>>)>>
        /\ Noted(p) = <<Item("one-sided", <<p>>)>> /\ Diffed(p) = <<Item(kind, <<p>>)>>
    BY <1>4, <2>1, Zenon DEF Section, Noted, Diffed
  <2> DEFINE x == Item("one-sided", <<p>>)
             y == Item(kind, <<p>>)
  <2>3. <<x>> \o <<y>> # <<>> /\ <<y>> # <<>>
    OBVIOUS
  <2> QED
    BY <2>2, <2>3, Zenon
<1>5. CASE p.state \in {"changed", "relocation-only"}
  <2>1. ~OneSided(p) /\ (Blocked(p) <=> c.blocks)
    BY <1>5 DEF OneSided, Blocked
  <2> DEFINE kind == IF c.blocks THEN "blocks" ELSE IF c.sideBy THEN "sideBySide" ELSE "diff"
             y == Item(kind, <<p>>)
  <2>2. /\ (Section(p) = <<y>> \/ Section(p) = <<>> \o <<y>>)
        /\ Noted(p) = <<>> /\ Diffed(p) = <<y>>
    BY <1>5, <2>1, Zenon DEF Section, Noted, Diffed
  <2> HIDE DEF y
  <2> QED
    BY <1>2, <2>2, Zenon
<1> QED
  BY <1>1, <1>3, <1>4, <1>5

(* The answer to a name is of what is found for it.                        *)
LEMMA AnswerIs ==
  ASSUME NEW ps \in Seq(Pair), NamedOnce(ps), NEW name
  PROVE  LET found == MatchFuncs(ps, name)
         IN  Answer(ps, name, Section) = IF Len(found) = 1 THEN Section(found[1]) ELSE <<Item("matches", found)>>
<1> DEFINE found == MatchFuncs(ps, name)
<1>1. /\ ~(\E k \in DOMAIN ps : ps[k].name = name) => found = Containing(ps, name)
      /\ (\E k \in DOMAIN ps : ps[k].name = name) => found = <<CHOOSE p \in Range(ps) : p.name = name>>
  BY MatchIs
<1> HIDE DEF found
<1>2. CASE \E k \in DOMAIN ps : ps[k].name = name
  <2> DEFINE p == CHOOSE p \in Range(ps) : p.name = name
  <2>1. Answer(ps, name, Section) = Section(p)
    BY <1>2, Zenon DEF Answer
  <2>2. found = <<p>>
    BY <1>1, <1>2
  <2> HIDE DEF p
  <2>3. Len(found) = 1 /\ found[1] = p
    BY <2>2
  <2> QED
    BY <2>1, <2>3, Zenon DEF found
<1>3. CASE ~(\E k \in DOMAIN ps : ps[k].name = name)
  <2>1. found = Containing(ps, name)
    BY <1>1, <1>3
  <2>2. Answer(ps, name, Section) = IF Len(Containing(ps, name)) = 1 THEN Section(Containing(ps, name)[1])
                                    ELSE <<Item("matches", Containing(ps, name))>>
    BY <1>3, Zenon DEF Answer
  <2> QED
    BY <2>1, <2>2, Zenon DEF found
<1> QED
  BY <1>2, <1>3

LEMMA ListingIs ==
  ASSUME NEW fs \in Seq(Symbol), NamedOnce(fs), NEW name
  PROVE  LET found == MatchFuncs(fs, name)
         IN  Answer(fs, name, LAMBDA f : <<Item("listing", <<f>>)>>)
               = IF Len(found) = 1 THEN <<Item("listing", <<found[1]>>)>> ELSE <<Item("matches", found)>>
<1> DEFINE found == MatchFuncs(fs, name)
<1>1. /\ ~(\E k \in DOMAIN fs : fs[k].name = name) => found = Containing(fs, name)
      /\ (\E k \in DOMAIN fs : fs[k].name = name) => found = <<CHOOSE p \in Range(fs) : p.name = name>>
  BY MatchIs
<1> HIDE DEF found
<1>2. CASE \E k \in DOMAIN fs : fs[k].name = name
  <2> DEFINE p == CHOOSE p \in Range(fs) : p.name = name
  <2>1. Answer(fs, name, LAMBDA f : <<Item("listing", <<f>>)>>) = <<Item("listing", <<p>>)>>
    BY <1>2, Zenon DEF Answer
  <2>2. found = <<p>>
    BY <1>1, <1>2
  <2> HIDE DEF p
  <2>3. Len(found) = 1 /\ found[1] = p
    BY <2>2
  <2> QED
    BY <2>1, <2>3, Zenon DEF found
<1>3. CASE ~(\E k \in DOMAIN fs : fs[k].name = name)
  <2>1. found = Containing(fs, name)
    BY <1>1, <1>3
  <2>2. Answer(fs, name, LAMBDA f : <<Item("listing", <<f>>)>>)
          = IF Len(Containing(fs, name)) = 1 THEN <<Item("listing", <<Containing(fs, name)[1]>>)>>
            ELSE <<Item("matches", Containing(fs, name))>>
    BY <1>3, Zenon DEF Answer
  <2> QED
    BY <2>1, <2>2, Zenon DEF found
<1> QED
  BY <1>2, <1>3

(* The entries that JSON has of an answer are those JSONName collects.     *)
Entered == [pair : Pair, stats : BOOLEAN, diff : BOOLEAN]

LEMMA EntryOfPair ==
  ASSUME NEW p \in Pair, NEW kind, kind # "one-sided"
  PROVE  LET script == kind \in {"diff", "sideBySide", "blocks"}
         IN  InJSON(Item(kind, <<p>>)) = <<[pair  |-> p,
                                            stats |-> (script \/ p.state = "changed") /\ p.state # "relocation-only",
                                            diff  |-> script /\ p.state # "relocation-only"]>>
<1> DEFINE script == kind \in {"diff", "sideBySide", "blocks"}
           Entry(q) == [pair  |-> q,
                        stats |-> (script \/ q.state = "changed") /\ q.state # "relocation-only",
                        diff  |-> script /\ q.state # "relocation-only"]
<1>1. Item(kind, <<p>>).kind = kind /\ Item(kind, <<p>>).about = <<p>>
  BY DEF Item
<1>2. InJSON(Item(kind, <<p>>)) = [k \in DOMAIN <<p>> |-> Entry(<<p>>[k])]
  BY <1>1, Zenon DEF InJSON
<1>3. DOMAIN <<p>> = {1} /\ <<p>>[1] = p
  OBVIOUS
<1> DEFINE e == Entry(p)
<1>4. InJSON(Item(kind, <<p>>)) = [k \in {1} |-> e]
  BY <1>2, <1>3
<1> HIDE DEF e
<1>5. [k \in {1} |-> e] = <<e>>
  <2>1. 1..1 = {1}
    OBVIOUS
  <2> QED
    BY <2>1
<1>6. InJSON(Item(kind, <<p>>)) = <<e>>
  BY <1>4, <1>5, Zenon
<1> QED
  BY <1>6, Zenon DEF e

LEMMA EntryType ==
  ASSUME NEW p \in Pair, NEW a \in BOOLEAN, NEW b \in BOOLEAN
  PROVE  [pair |-> p, stats |-> a, diff |-> b] \in Entered /\ <<[pair |-> p, stats |-> a, diff |-> b]>> \in Seq(Entered)
<1>1. [pair |-> p, stats |-> a, diff |-> b] \in Entered
  BY DEF Entered
<1>2. \A e \in Entered : <<e>> \in Seq(Entered)
  OBVIOUS
<1> QED
  BY <1>1, <1>2, Zenon

LEMMA EntriesOfFew ==
  /\ \A x : InJSON(x) \in Seq(Entered) => InJSONAll(<<x>>) = InJSON(x)
  /\ \A x, y : InJSON(x) = <<>> /\ InJSON(y) \in Seq(Entered) => InJSONAll(<<x>> \o <<y>>) = InJSON(y)
<1>1. ASSUME NEW x, InJSON(x) \in Seq(Entered) PROVE InJSONAll(<<x>>) = InJSON(x)
  <2>1. DOMAIN <<x>> = 1..1 /\ <<x>>[1] = x
    OBVIOUS
  <2>2. [k \in DOMAIN <<x>> |-> InJSON(<<x>>[k])] = <<InJSON(x)>>
    <3> DEFINE e == InJSON(x)
               f == [k \in DOMAIN <<x>> |-> InJSON(<<x>>[k])]
    <3>1. f = [k \in 1..1 |-> f[k]] /\ DOMAIN f = 1..1 /\ f[1] = e
      BY <2>1
    <3>2. <<e>> = [k \in 1..1 |-> <<e>>[k]] /\ <<e>>[1] = e
      OBVIOUS
    <3>3. \A k \in 1..1 : k = 1
      OBVIOUS
    <3> HIDE DEF e, f
    <3>4. f = <<e>>
      BY <3>1, <3>2, <3>3
    <3> QED
      BY <3>4 DEF e, f
  <2>3. InJSONAll(<<x>>) = Flat(<<InJSON(x)>>)
    BY <2>2, Zenon DEF InJSONAll
  <2>4. Flat(<<InJSON(x)>>) = InJSON(x)
    <3> DEFINE e == InJSON(x)
    <3>1. e \in Seq(Entered)
      BY <1>1
    <3> HIDE DEF e
    <3>2. Flat(<<e>>) = e
      BY <3>1, FlatFew
    <3> QED
      BY <3>2, Zenon DEF e
  <2> QED
    BY <2>3, <2>4, Zenon
<1>2. ASSUME NEW x, NEW y, InJSON(x) = <<>>, InJSON(y) \in Seq(Entered)
      PROVE  InJSONAll(<<x>> \o <<y>>) = InJSON(y)
  <2> DEFINE a == InJSON(x)
             b == InJSON(y)
             t == <<x>> \o <<y>>
             f == [k \in DOMAIN t |-> InJSON(t[k])]
  <2>1. DOMAIN t = 1..2 /\ t[1] = x /\ t[2] = y
    OBVIOUS
  <2>2. f = [k \in 1..2 |-> f[k]] /\ f[1] = a /\ f[2] = b
    <3> HIDE DEF t
    <3> QED
      BY <2>1
  <2>3. InJSONAll(t) = Flat(f)
    BY Zenon DEF InJSONAll
  <2>4. a = <<>> /\ b \in Seq(Entered) /\ a \in Seq(Entered)
    BY <1>2
  <2> HIDE DEF a, b, t, f
  <2>5. f = <<a, b>>
    <3>1. <<a, b>> = [k \in 1..2 |-> <<a, b>>[k]] /\ <<a, b>>[1] = a /\ <<a, b>>[2] = b
      OBVIOUS
    <3>2. \A k \in 1..2 : k = 1 \/ k = 2
      OBVIOUS
    <3> QED
      BY <2>2, <3>1, <3>2
  <2>6. Flat(<<a, b>>) = a \o b
    BY <2>4, FlatFew
  <2>7. <<>> \o b = b
    BY <2>4, ConcatEmptySeq
  <2>8. InJSONAll(t) = b
    BY <2>3, <2>4, <2>5, <2>6, <2>7, Zenon
  <2> QED
    BY <2>8 DEF t, b
<1> QED
  BY <1>1, <1>2

LEMMA EntriesOfSection ==
  ASSUME NEW p \in Pair
  PROVE  InJSONAll(Section(p)) = <<FuncReport(p, TRUE, TRUE)>>
<1>1. p.state \in {"identical", "relocation-only", "changed", "added", "removed"}
  BY DEF Pair
<1> DEFINE kind == IF p.state = "identical" THEN "identical"
                   ELSE IF Blocked(p) THEN "blocks" ELSE IF c.sideBy THEN "sideBySide" ELSE "diff"
           x == Item("one-sided", <<p>>)
           y == Item(kind, <<p>>)
           code == p.state \notin {"identical", "relocation-only"}
           S == (kind \in {"diff", "sideBySide", "blocks"} \/ p.state = "changed") /\ p.state # "relocation-only"
           D == kind \in {"diff", "sideBySide", "blocks"} /\ p.state # "relocation-only"
<1>2. Section(p) = <<y>> \/ Section(p) = <<x>> \o <<y>>
  <2>1. CASE p.state = "identical"
    <3>1. Section(p) = <<Item("identical", <<p>>)>> /\ kind = "identical"
      BY <2>1, Zenon DEF Section
    <3> QED
      BY <3>1, Zenon
  <2>2. CASE p.state \in {"added", "removed"}
    <3>1. Noted(p) = <<x>> /\ Diffed(p) = <<y>>
      <4>1. OneSided(p) /\ ~Blocked(p) /\ p.state # "identical"
        BY <2>2 DEF OneSided, Blocked
      <4> QED
        BY <4>1, Zenon DEF Noted, Diffed
    <3> QED
      BY <3>1, SectionIs, Zenon
  <2>3. CASE p.state \in {"changed", "relocation-only"}
    <3>1. Noted(p) = <<>> /\ Diffed(p) = <<y>>
      <4>1. ~OneSided(p) /\ p.state # "identical"
        BY <2>3 DEF OneSided
      <4> QED
        BY <4>1, Zenon DEF Noted, Diffed
    <3>2. Section(p) = <<>> \o <<y>>
      BY <3>1, SectionIs, Zenon
    <3>3. <<>> \o <<y>> = <<y>>
      <4> HIDE DEF y
      <4> QED
        OBVIOUS
    <3> QED
      BY <3>2, <3>3, Zenon
  <2> QED
    BY <1>1, <2>1, <2>2, <2>3
<1>3. InJSON(x) = <<>>
  BY DEF InJSON, Item
<1>4. kind # "one-sided"
  OBVIOUS
<1>5. InJSON(y) = <<[pair |-> p, stats |-> S, diff |-> D]>>
  <2> HIDE DEF kind
  <2> QED
    BY <1>4, EntryOfPair, Zenon
<1>6. (S <=> TRUE /\ code) /\ (D <=> TRUE /\ code) /\ S \in BOOLEAN /\ D \in BOOLEAN /\ code \in BOOLEAN
  <2>1. kind \in {"diff", "sideBySide", "blocks"} <=> p.state # "identical"
    OBVIOUS
  <2>2. p.state = "changed" => p.state # "identical" /\ p.state # "relocation-only"
    OBVIOUS
  <2> HIDE DEF kind
  <2> QED
    BY <2>1, <2>2
<1> HIDE DEF x, y, S, D, code, kind
<1>7. [pair |-> p, stats |-> S, diff |-> D] = [pair |-> p, stats |-> TRUE /\ code, diff |-> TRUE /\ code]
  <2>1. S = (TRUE /\ code) /\ D = (TRUE /\ code)
    BY <1>6, Zenon
  <2> QED
    BY <2>1, Zenon
<1>8. FuncReport(p, TRUE, TRUE) = [pair |-> p, stats |-> TRUE /\ code, diff |-> TRUE /\ code]
  BY Zenon DEF FuncReport, code
<1>9. InJSON(y) = <<FuncReport(p, TRUE, TRUE)>> /\ InJSON(y) \in Seq(Entered)
  <2>1. InJSON(y) = <<FuncReport(p, TRUE, TRUE)>>
    BY <1>5, <1>7, <1>8, Zenon
  <2>2. InJSON(y) \in Seq(Entered)
    BY <1>5, <1>6, EntryType
  <2> QED
    BY <2>1, <2>2
<1>10. InJSONAll(Section(p)) = InJSON(y)
  <2>1. InJSONAll(<<y>>) = InJSON(y) /\ InJSONAll(<<x>> \o <<y>>) = InJSON(y)
    BY <1>3, <1>9, EntriesOfFew
  <2> QED
    BY <1>2, <2>1, Zenon
<1> QED
  BY <1>9, <1>10, Zenon

LEMMA EntriesOfMatches ==
  ASSUME NEW found \in Seq(Pair)
  PROVE  InJSONAll(<<Item("matches", found)>>)
           = [k \in DOMAIN found |-> FuncReport(found[k], found[k].state = "changed", FALSE)]
<1> DEFINE x == Item("matches", found)
           Entry(q) == [pair  |-> q,
                        stats |-> (FALSE \/ q.state = "changed") /\ q.state # "relocation-only",
                        diff  |-> FALSE /\ q.state # "relocation-only"]
           f == [k \in DOMAIN found |-> FuncReport(found[k], found[k].state = "changed", FALSE)]
<1>1. x.kind = "matches" /\ x.about = found
  BY DEF Item
<1>2. InJSON(x) = [k \in DOMAIN found |-> Entry(found[k])]
  <2>1. (x.kind \in {"diff", "sideBySide", "blocks"}) = FALSE /\ x.kind # "one-sided"
    BY <1>1
  <2> QED
    BY <1>1, <2>1, Zenon DEF InJSON
<1>3. DOMAIN found = 1..Len(found) /\ Len(found) \in Nat
  BY LenProperties
<1>4. ASSUME NEW p \in Pair
      PROVE  Entry(p) = FuncReport(p, p.state = "changed", FALSE) /\ Entry(p) \in Entered
  <2> DEFINE code == p.state \notin {"identical", "relocation-only"}
             S == (FALSE \/ p.state = "changed") /\ p.state # "relocation-only"
             D == FALSE /\ p.state # "relocation-only"
             T == p.state = "changed" /\ code
             U == FALSE /\ code
  <2>1. S = T /\ D = U /\ S \in BOOLEAN /\ D \in BOOLEAN
    <3>1. p.state = "changed" => p.state # "identical" /\ p.state # "relocation-only"
      OBVIOUS
    <3>2. (S <=> T) /\ (D <=> U) /\ S \in BOOLEAN /\ T \in BOOLEAN /\ D \in BOOLEAN /\ U \in BOOLEAN
      BY <3>1
    <3> HIDE DEF S, T, D, U
    <3> QED
      BY <3>2, Zenon
  <2>2. FuncReport(p, p.state = "changed", FALSE) = [pair |-> p, stats |-> T, diff |-> U]
    BY Zenon DEF FuncReport
  <2>3. Entry(p) = [pair |-> p, stats |-> S, diff |-> D]
    BY Zenon
  <2> HIDE DEF S, T, D, U, Entry
  <2>4. [pair |-> p, stats |-> S, diff |-> D] \in Entered
    BY <2>1, EntryType
  <2> QED
    BY <2>1, <2>2, <2>3, <2>4, Zenon
<1> HIDE DEF Entry
<1>5. InJSON(x) = f
  <2>1. \A k \in DOMAIN found : Entry(found[k]) = FuncReport(found[k], found[k].state = "changed", FALSE)
    BY <1>3, <1>4, ElementOfSeq
  <2> QED
    BY <1>2, <2>1, Zenon
<1>6. f \in Seq(Entered)
  <2>1. \A k \in 1..Len(found) : f[k] \in Entered
    <3> SUFFICES ASSUME NEW k \in 1..Len(found) PROVE f[k] \in Entered
      OBVIOUS
    <3>1. found[k] \in Pair /\ f[k] = FuncReport(found[k], found[k].state = "changed", FALSE)
      BY <1>3, ElementOfSeq
    <3> HIDE DEF f
    <3> QED
      BY <1>4, <3>1, Zenon
  <2>2. DOMAIN f = 1..Len(found) /\ f = [k \in 1..Len(found) |-> f[k]]
    BY <1>3
  <2> HIDE DEF f
  <2> QED
    BY <1>3, <2>1, <2>2, LenOf
<1> HIDE DEF f, x
<1>7. InJSONAll(<<x>>) = f
  BY <1>5, <1>6, EntriesOfFew
<1> QED
  BY <1>7 DEF f, x

(* What JSONName collects of the pairs found.                              *)
Collection(found) ==
  LET sole == Len(found) = 1
  IN  [k \in DOMAIN found |-> FuncReport(found[k], found[k] \in {p \in Range(found) : sole \/ p.state = "changed"}, sole)]

LEMMA EntriesAre ==
  ASSUME NEW ps \in Seq(Pair), NamedOnce(ps), NEW name
  PROVE  InJSONAll(Answer(ps, name, Section)) = Collection(MatchFuncs(ps, name))
<1> DEFINE found == MatchFuncs(ps, name)
           sole == Len(found) = 1
           stats == {p \in Range(found) : sole \/ p.state = "changed"}
<1>1. found \in Seq(Pair)
  BY MatchIs
<1>2. Answer(ps, name, Section) = IF sole THEN Section(found[1]) ELSE <<Item("matches", found)>>
  BY AnswerIs, Zenon
<1> HIDE DEF found
<1>3. DOMAIN found = 1..Len(found) /\ Len(found) \in Nat
  BY <1>1, LenProperties
<1>4. \A k \in DOMAIN found : found[k] \in Range(found)
  BY DEF Range
<1>5. CASE sole
  <2> DEFINE p == found[1]
  <2>1. p \in Pair /\ p \in stats
    <3>1. 1 \in DOMAIN found
      BY <1>3, <1>5
    <3> QED
      BY <1>1, <1>3, <1>4, <1>5, <3>1, ElementOfSeq
  <2>2. InJSONAll(Answer(ps, name, Section)) = <<FuncReport(p, TRUE, TRUE)>>
    <3>1. Answer(ps, name, Section) = Section(p)
      BY <1>2, <1>5, Zenon
    <3> HIDE DEF p
    <3>2. InJSONAll(Section(p)) = <<FuncReport(p, TRUE, TRUE)>>
      BY <2>1, EntriesOfSection
    <3> QED
      BY <3>1, <3>2, Zenon
  <2>3. Collection(found) = <<FuncReport(p, TRUE, TRUE)>>
    <3> DEFINE f == [k \in DOMAIN found |-> FuncReport(found[k], found[k] \in stats, sole)]
               e == FuncReport(p, TRUE, TRUE)
    <3>1. DOMAIN found = 1..1
      BY <1>3, <1>5
    <3>2. \A k \in 1..1 : k = 1
      OBVIOUS
    <3>3. f[1] = e
      <4>1. 1 \in DOMAIN found
        BY <3>1
      <4>2. f[1] = FuncReport(found[1], found[1] \in stats, sole)
        BY <4>1
      <4>3. (found[1] \in stats) = TRUE /\ sole = TRUE
        BY <1>5, <2>1
      <4> HIDE DEF f, stats, sole
      <4> QED
        BY <4>2, <4>3, Zenon
    <3>4. f = [k \in 1..1 |-> f[k]]
      BY <3>1
    <3>5. <<e>> = [k \in 1..1 |-> <<e>>[k]] /\ <<e>>[1] = e
      <4> HIDE DEF e
      <4> QED
        OBVIOUS
    <3>6. Collection(found) = f
      BY Zenon DEF Collection
    <3> HIDE DEF f, e
    <3>7. f = <<e>>
      BY <3>2, <3>3, <3>4, <3>5
    <3> QED
      BY <3>6, <3>7 DEF e
  <2> QED
    BY <2>2, <2>3, Zenon DEF found
<1>6. CASE ~sole
  <2> DEFINE f == [k \in DOMAIN found |-> FuncReport(found[k], found[k] \in stats, sole)]
             g == [k \in DOMAIN found |-> FuncReport(found[k], found[k].state = "changed", FALSE)]
  <2>1. InJSONAll(Answer(ps, name, Section)) = g
    <3>1. Answer(ps, name, Section) = <<Item("matches", found)>>
      BY <1>2, <1>6, Zenon
    <3>2. InJSONAll(<<Item("matches", found)>>) = g
      BY <1>1, EntriesOfMatches
    <3> HIDE DEF g
    <3> QED
      BY <3>1, <3>2, Zenon
  <2>2. ASSUME NEW k \in DOMAIN found
        PROVE  FuncReport(found[k], found[k] \in stats, sole) = FuncReport(found[k], found[k].state = "changed", FALSE)
    <3>1. sole = FALSE
      BY <1>6
    <3>2. (found[k] \in stats) = (found[k].state = "changed")
      <4>1. found[k] \in stats <=> found[k].state = "changed"
        BY <1>4, <1>6
      <4> DEFINE S == found[k] \in stats
                 T == found[k].state = "changed"
      <4>2. (S <=> T) /\ S \in BOOLEAN /\ T \in BOOLEAN
        <5> HIDE DEF stats
        <5> QED
          BY <4>1
      <4> HIDE DEF S, T
      <4>3. S = T
        BY <4>2
      <4> QED
        BY <4>3 DEF S, T
    <3> HIDE DEF stats, sole
    <3> QED
      BY <3>1, <3>2, Zenon
  <2>3. f = g
    <3> HIDE DEF stats, sole
    <3> QED
      BY <2>2
  <2>4. Collection(found) = f
    BY Zenon DEF Collection
  <2> HIDE DEF f, g
  <2> QED
    BY <2>1, <2>3, <2>4, Zenon DEF found
<1> QED
  BY <1>5, <1>6

-----------------------------------------------------------------------------
(* What is shown so far: of a text report the parts that are done, of JSON *)
(* nothing, but the entries collected are those of the parts done.  A run  *)
(* that ends without error has shown all, one that fails not.              *)
Text == {"names", "listings", "all"}
Cut == \E rest \in Seq(Items) : rest # <<>> /\ Report = out \o rest
EndedWell == /\ out # <<>> => c.version \/ ~Rejected
             /\ error = NoError => out # <<>> /\ out = Report
             /\ error # NoError => out = <<>> \/ Cut

ShownInv ==
  /\ pc \in Text => out = Heading \o Flat(First(Texts, at))
  /\ pc = "jsonNames" => out = <<>> /\ doc = Flat(First(NameEntries, at))
  /\ pc = "jsonAll" => out = <<>> /\ doc = First(PairEntries, at)
  /\ pc \in Ended => EndedWell

LEMMA OneAnswer ==
  ASSUME NEW ps \in Seq(Pair), NamedOnce(ps), NEW name
  PROVE  Answer(ps, name, Section) \in Seq(Items) /\ Answer(ps, name, Section) # <<>>
<1> DEFINE found == MatchFuncs(ps, name)
<1>1. found \in Seq(Pair)
  BY MatchIs
<1>2. Answer(ps, name, Section) = IF Len(found) = 1 THEN Section(found[1]) ELSE <<Item("matches", found)>>
  BY AnswerIs, Zenon
<1> HIDE DEF found
<1>3. Len(found) = 1 => found[1] \in Pair
  <2>1. Len(found) = 1 => 1 \in 1..Len(found)
    OBVIOUS
  <2> QED
    BY <1>1, <2>1, ElementOfSeq
<1>4. ASSUME NEW p \in Pair PROVE Section(p) \in Seq(Items) /\ Section(p) # <<>>
  BY PairItems, SectionIs, AppendedItems
<1>5. <<Item("matches", found)>> \in Seq(Items) /\ <<Item("matches", found)>> # <<>>
  <2>1. "matches" \in Kinds /\ found \in Abouts
    BY <1>1, ItemType DEF Kinds
  <2>2. \A x : <<x>> # <<>>
    OBVIOUS
  <2> QED
    BY <2>1, <2>2, ItemType
<1> QED
  BY <1>2, <1>3, <1>4, <1>5, Zenon

LEMMA OneListing ==
  ASSUME NEW fs \in Seq(Symbol), NamedOnce(fs), NEW name
  PROVE  LET some == Answer(fs, name, LAMBDA f : <<Item("listing", <<f>>)>>)
         IN  some \in Seq(Items) /\ some # <<>>
<1> DEFINE found == MatchFuncs(fs, name)
           some == Answer(fs, name, LAMBDA f : <<Item("listing", <<f>>)>>)
<1>1. found \in Seq(Symbol)
  BY MatchIs
<1>2. some = IF Len(found) = 1 THEN <<Item("listing", <<found[1]>>)>> ELSE <<Item("matches", found)>>
  BY ListingIs, Zenon
<1> HIDE DEF found
<1>3. Len(found) = 1 => found[1] \in Symbol
  <2>1. Len(found) = 1 => 1 \in 1..Len(found)
    OBVIOUS
  <2> QED
    BY <1>1, <2>1, ElementOfSeq
<1>4. {"listing", "matches"} \subseteq Kinds /\ found \in Abouts /\ (Len(found) = 1 => <<found[1]>> \in Abouts)
  BY <1>1, <1>3, ItemType DEF Kinds
<1>5. \A x : <<x>> # <<>>
  OBVIOUS
<1>6. some \in Seq(Items)
  BY <1>2, <1>4, ItemType, Zenon
<1>7. some # <<>>
  BY <1>2, <1>5, Zenon
<1> QED
  BY <1>6, <1>7

TextsWell ==
  /\ Texts \in [1..Len(work) -> Seq(Items)] /\ Len(work) \in Nat /\ Heading \in Seq(Items)
  /\ \A k \in 1..Len(work) : Texts[k] # <<>>
  /\ Report = Heading \o Flat(Texts)
  /\ Heading # <<>> \/ Len(work) > 0

LEMMA TextsAre ==
  ASSUME FlagsInv, WorkInv, pc \in Text PROVE TextsWell
<1>1. /\ pairs \in Seq(Pair) /\ NamedOnce(pairs) /\ bin.table \in Seq(Symbol) /\ ByAddress(bin.table)
      /\ ~c.version /\ c.fns \in Seq(Name) /\ work \in Seq(Pair) \cup Seq(Name)
  BY DEF FlagsInv, WorkInv, Flags, BinOK, Text, Ended
<1>2. /\ DOMAIN c.fns = 1..Len(c.fns) /\ Len(c.fns) \in Nat /\ DOMAIN work = 1..Len(work) /\ Len(work) \in Nat
  BY <1>1, LenProperties
<1>3. Funcs(bin.table) \in Seq(Symbol) /\ NamedOnce(Funcs(bin.table))
  BY <1>1, FuncsAre
<1>4. ASSUME NEW t, t \in [1..Len(work) -> Seq(Items)] PROVE Flat(t) \in Seq(Items) /\ <<>> \o Flat(t) = Flat(t)
  <2>1. Flat(t) \in Seq(Items)
    BY <1>2, <1>4, FlatType
  <2> DEFINE s == Flat(t)
  <2> HIDE DEF s
  <2>2. s \in Seq(Items)
    BY <2>1 DEF s
  <2>3. <<>> \o s = s
    BY <2>2, ConcatEmptySeq
  <2> QED
    BY <2>1, <2>3 DEF s
<1>5. <<>> \in Seq(Items)
  OBVIOUS
<1>6. CASE pc = "names"
  <2>1. ~c.single /\ ~c.json /\ c.fns # <<>> /\ work = c.fns
    BY <1>6 DEF FlagsInv, OfTwo, Reporting
  <2>2. Texts = NameAnswers /\ Heading = <<>>
    BY <2>1, Zenon DEF Texts, Heading
  <2>3. Report = Flat(NameAnswers)
    BY <1>1, <2>1, Zenon DEF Report, Answers, NameAnswers
  <2>4. ASSUME NEW k \in DOMAIN c.fns PROVE NameAnswers[k] \in Seq(Items) /\ NameAnswers[k] # <<>>
    <3>1. NameAnswers[k] = Answer(pairs, c.fns[k], Section)
      BY Zenon DEF NameAnswers
    <3> QED
      BY <1>1, <3>1, OneAnswer
  <2>5. DOMAIN NameAnswers = DOMAIN c.fns /\ NameAnswers = [k \in DOMAIN c.fns |-> NameAnswers[k]]
    BY DEF NameAnswers
  <2>6. NameAnswers \in [1..Len(work) -> Seq(Items)]
    BY <1>2, <2>1, <2>4, <2>5
  <2>7. Len(work) > 0
    BY <1>1, <1>2, <2>1, EmptySeq
  <2>8. Report = Heading \o Flat(Texts)
    BY <1>4, <2>2, <2>3, <2>6, Zenon
  <2> QED
    BY <1>2, <1>5, <2>1, <2>2, <2>4, <2>6, <2>7, <2>8 DEF TextsWell
<1>7. CASE pc = "listings"
  <2>1. c.single /\ c.fns # <<>> /\ work = c.fns
    BY <1>7 DEF FlagsInv, OfOne
  <2>2. Texts = ListAnswers /\ Heading = <<>>
    BY <2>1, Zenon DEF Texts, Heading
  <2>3. Report = Flat(ListAnswers)
    BY <1>1, <2>1, Zenon DEF Report, Answers, ListAnswers
  <2>4. ASSUME NEW k \in DOMAIN c.fns PROVE ListAnswers[k] \in Seq(Items) /\ ListAnswers[k] # <<>>
    <3>1. ListAnswers[k] = Answer(Funcs(bin.table), c.fns[k], LAMBDA f : <<Item("listing", <<f>>)>>)
      BY Zenon DEF ListAnswers
    <3> QED
      BY <1>3, <3>1, OneListing, Zenon
  <2>5. DOMAIN ListAnswers = DOMAIN c.fns /\ ListAnswers = [k \in DOMAIN c.fns |-> ListAnswers[k]]
    BY DEF ListAnswers
  <2>6. ListAnswers \in [1..Len(work) -> Seq(Items)]
    BY <1>2, <2>1, <2>4, <2>5
  <2>7. Len(work) > 0
    BY <1>1, <1>2, <2>1, EmptySeq
  <2>8. Report = Heading \o Flat(Texts)
    BY <1>4, <2>2, <2>3, <2>6, Zenon
  <2> QED
    BY <1>2, <1>5, <2>1, <2>2, <2>4, <2>6, <2>7, <2>8 DEF TextsWell
<1>8. CASE pc = "all"
  <2>1. ~c.single /\ ~c.json /\ c.fns = <<>> /\ c.all /\ work \in Seq(Told(pairs))
    BY <1>8 DEF FlagsInv, WorkInv, OfTwo, Reporting
  <2>2. Texts = PairSections /\ Heading = <<Item("summary", pairs)>>
    BY <2>1, Zenon DEF Texts, Heading
  <2>3. Report = <<Item("summary", pairs)>> \o Flat(PairSections)
    BY <1>1, <2>1, Zenon DEF Report, PairSections
  <2>4. ASSUME NEW k \in DOMAIN work PROVE PairSections[k] \in Seq(Items) /\ PairSections[k] # <<>>
    <3>1. PairSections[k] = Section(work[k])
      BY Zenon DEF PairSections
    <3>2. work[k] \in Pair
      <4>1. work[k] \in Told(pairs)
        BY <1>2, <2>1, ElementOfSeq
      <4> QED
        BY <1>1, <4>1, RangeIn DEF Told
    <3>3. Section(work[k]) = Noted(work[k]) \o Diffed(work[k]) /\ Section(work[k]) # <<>>
      BY <3>2, SectionIs
    <3> QED
      BY <3>1, <3>2, <3>3, PairItems, AppendedItems
  <2>5. DOMAIN PairSections = DOMAIN work /\ PairSections = [k \in DOMAIN work |-> PairSections[k]]
    BY DEF PairSections
  <2>6. PairSections \in [1..Len(work) -> Seq(Items)]
    BY <1>2, <2>4, <2>5
  <2>7. Heading \in Seq(Items) /\ Heading # <<>>
    <3>1. "summary" \in Kinds /\ pairs \in Abouts
      BY <1>1, ItemType DEF Kinds
    <3>2. \A x : <<x>> # <<>>
      OBVIOUS
    <3> QED
      BY <2>2, <3>1, <3>2, ItemType
  <2> QED
    BY <1>2, <2>2, <2>3, <2>4, <2>6, <2>7 DEF TextsWell
<1> QED
  BY <1>6, <1>7, <1>8 DEF Text

LEMMA ReportStays ==
  ASSUME UNCHANGED <<c, bin, pairs, work>>
  PROVE  /\ Report' = Report /\ Texts' = Texts /\ Heading' = Heading
         /\ NameEntries' = NameEntries /\ PairEntries' = PairEntries
         /\ Rejected' = Rejected /\ Items' = Items
<1>1. c' = c /\ bin' = bin /\ pairs' = pairs /\ work' = work
  OBVIOUS
<1>2. Heading' = Heading /\ Rejected' = Rejected /\ Items' = Items
  BY <1>1, SameItems DEF Heading, Rejected, ComparisonFlags
<1>3. NameAnswers' = NameAnswers
  BY <1>1 DEF NameAnswers, Answer, Section, OneSided
<1>4. ListAnswers' = ListAnswers
  BY <1>1 DEF ListAnswers, Answer
<1>5. PairSections' = PairSections
  BY <1>1 DEF PairSections, Section, OneSided
<1>6. NameEntries' = NameEntries
  BY <1>1 DEF NameEntries, Answer, Section, OneSided, InJSONAll, InJSON
<1>7. PairEntries' = PairEntries
  BY <1>1 DEF PairEntries, PairEntry
<1>8. Texts' = Texts
  BY <1>1, <1>3, <1>4, <1>5, Zenon DEF Texts
<1> DEFINE R == IF c.version THEN <<Item("version", <<>>)>>
                ELSE IF c.single /\ c.fns = <<>>
                THEN <<Item("statsHead", <<StatsHead(bin)>>), Item("statsTables", <<StatsTables(bin)>>)>>
                ELSE IF c.single THEN Flat(ListAnswers)
                ELSE IF c.json THEN <<Item("json", Document)>>
                ELSE IF c.fns # <<>> THEN Flat(NameAnswers)
                ELSE <<Item("summary", pairs)>> \o IF c.all THEN Flat(PairSections) ELSE <<>>
           D == IF c.fns # <<>> THEN Flat(NameEntries) ELSE PairEntries
<1>9. Report = R /\ Report' = R'
  BY Zenon DEF Report, Answers, NameAnswers, ListAnswers, PairSections
<1>10. Document = D /\ Document' = D'
  BY Zenon DEF Document, NameEntries, PairEntries, PairEntry
<1>11. Document' = Document
  <2>1. D' = D
    BY <1>1, <1>6, <1>7, Zenon
  <2> QED
    BY <1>10, <2>1, Zenon
<1>12. StatsTables(bin)' = StatsTables(bin) /\ StatsHead(bin)' = StatsHead(bin)
  BY <1>1 DEF StatsTables, StatsHead
<1>13. R' = R
  BY <1>1, <1>3, <1>4, <1>5, <1>11, <1>12, Zenon
<1>14. Report' = Report
  BY <1>9, <1>13, Zenon
<1> QED
  BY <1>2, <1>6, <1>7, <1>8, <1>14

(* A part of a text report is shown whole, a \o b, or what comes before a  *)
(* failure of it, a.                                                       *)
Parts(a, b) == a \in Seq(Items) /\ b \in Seq(Items) /\ Texts[at + 1] = a \o b

LEMMA ShownNothing ==
  /\ \A v : First(v, 0) = <<>>
  /\ Flat(<<>>) = <<>> /\ <<>> \o <<>> = <<>>
<1>1. ASSUME NEW v PROVE First(v, 0) = <<>>
  BY DEF First
<1>2. <<>> \in [1..0 -> Seq({})]
  OBVIOUS
<1>3. Flat(<<>>) = <<>>
  BY <1>2, FlatType
<1> QED
  BY <1>1, <1>3

LEMMA ShownMore ==
  ASSUME FlagsInv, WorkInv, ShownInv, pc \in Text, at < Len(work), UNCHANGED <<c, bin, pairs, work>>,
         NEW a, NEW b, Parts(a, b), out' = out \o (a \o b), at' = at + 1, pc' = pc
  PROVE  ShownInv'
<1>1. Texts \in [1..Len(work) -> Seq(Items)] /\ Len(work) \in Nat /\ Heading \in Seq(Items)
  BY TextsAre DEF TextsWell
<1>2. at \in 0..(Len(work) - 1)
  BY <1>1 DEF WorkInv
<1>3. Heading \o Flat(First(Texts, at + 1)) = (Heading \o Flat(First(Texts, at))) \o (a \o b)
  <2> DEFINE X == Items
             v == Texts
             n == Len(work)
             h == Heading
  <2>1. n \in Nat /\ v \in [1..n -> Seq(X)] /\ h \in Seq(X) /\ at \in 0..(n - 1) /\ a \in Seq(X) /\ b \in Seq(X)
        /\ Halves(v, at, a, b)
    BY <1>1, <1>2 DEF Parts, Halves
  <2> HIDE DEF X, v, n, h
  <2>2. NextIs(h, v, at, a, b)
    BY <2>1, NextJoined
  <2> QED
    BY <2>2, Zenon DEF v, h, NextIs, JoinedSoFar
<1>4. Texts' = Texts /\ Heading' = Heading
  BY ReportStays
<1>5. out = Heading \o Flat(First(Texts, at))
  BY DEF ShownInv
<1>6. out' = Heading' \o Flat(First(Texts', at'))
  BY <1>3, <1>4, <1>5, Zenon
<1>7. pc' \in Text /\ pc' # "jsonNames" /\ pc' # "jsonAll" /\ pc' \notin Ended
  BY DEF Text, Ended
<1> QED
  BY <1>6, <1>7, Zenon DEF ShownInv

LEMMA ShownCut ==
  ASSUME FlagsInv, WorkInv, ShownInv, pc \in Text, at < Len(work), UNCHANGED <<c, bin, pairs, work>>,
         NEW a, NEW b, Parts(a, b), b # <<>>, out' = out \o a, pc' = "return", error' # NoError
  PROVE  ShownInv'
<1>1. Texts \in [1..Len(work) -> Seq(Items)] /\ Len(work) \in Nat /\ Heading \in Seq(Items) /\ Report = Heading \o Flat(Texts)
  BY TextsAre DEF TextsWell
<1>2. at \in 0..(Len(work) - 1)
  BY <1>1 DEF WorkInv
<1>3. \E rest \in Seq(Items) : Heading \o Flat(Texts) = ((Heading \o Flat(First(Texts, at))) \o a) \o (b \o rest)
  <2> DEFINE X == Items
             v == Texts
             n == Len(work)
             h == Heading
  <2>1. n \in Nat /\ v \in [1..n -> Seq(X)] /\ h \in Seq(X) /\ at \in 0..(n - 1) /\ a \in Seq(X) /\ b \in Seq(X)
        /\ Halves(v, at, a, b)
    BY <1>1, <1>2 DEF Parts, Halves
  <2> HIDE DEF X, v, n, h
  <2>2. RestIs(X, h, v, at, a, b)
    BY <2>1, NextJoined
  <2> QED
    BY <2>2, Zenon DEF X, v, h, RestIs, JoinedSoFar
<1>4. PICK rest \in Seq(Items) : Heading \o Flat(Texts) = ((Heading \o Flat(First(Texts, at))) \o a) \o (b \o rest)
  BY <1>3
<1>5. out = Heading \o Flat(First(Texts, at))
  BY DEF ShownInv
<1>6. Report = out' \o (b \o rest)
  BY <1>1, <1>4, <1>5, Zenon
<1>7. b \o rest \in Seq(Items) /\ b \o rest # <<>>
  BY SomeMore DEF Parts
<1>8. Report' = Report /\ Items' = Items /\ Rejected' = Rejected
  BY ReportStays
<1>9. Cut'
  BY <1>6, <1>7, <1>8, Zenon DEF Cut
<1>10. ~Rejected'
  BY <1>8 DEF FlagsInv, Text, Ended
<1>11. EndedWell'
  BY <1>9, <1>10 DEF EndedWell
<1> QED
  BY <1>11 DEF ShownInv, Text

LEMMA AllJoined ==
  ASSUME NEW X, NEW n \in Nat, NEW v \in [1..n -> Seq(X)], n > 0, v[1] # <<>>
  PROVE  Flat(v) # <<>>
<1>1. 0 \in 0..(n - 1) /\ 0 + 1 = 1 /\ v[1] \in Seq(X) /\ <<>> \in Seq(X)
  OBVIOUS
<1>2. Flat(First(v, 0)) = <<>>
  BY ShownNothing
<1> DEFINE m == 0
           e == v[m + 1]
           s == Flat(First(v, m))
           t == Flat(First(v, m + 1))
<1>3. s \in Seq(X) /\ t = s \o e /\ Begins(X, t, Flat(v))
  <2>1. m \in 0..(n - 1)
    BY <1>1
  <2> HIDE DEF m
  <2> QED
    BY <2>1, FlatSplit
<1>4. e \in Seq(X) /\ e # <<>>
  BY <1>1
<1> HIDE DEF m, e, s, t
<1>5. t \in Seq(X) /\ t # <<>>
  BY <1>3, <1>4, SomeMore
<1>6. PICK rest \in Seq(X) : Flat(v) = t \o rest
  BY <1>3 DEF Begins
<1>7. t \o rest # <<>>
  BY <1>5, SomeMore
<1> QED
  BY <1>6, <1>7, Zenon

LEMMA WholeFirst ==
  ASSUME NEW n \in Nat, NEW v, DOMAIN v = 1..n, v = [k \in DOMAIN v |-> v[k]] PROVE First(v, n) = v
BY DEF First

LEMMA TextEnds ==
  ASSUME FlagsInv, WorkInv, ShownInv, pc \in Text, ~(at < Len(work)), UNCHANGED <<c, bin, pairs, work, out, error>>, pc' = "return"
  PROVE  ShownInv'
<1>1. /\ Texts \in [1..Len(work) -> Seq(Items)] /\ Len(work) \in Nat /\ Heading \in Seq(Items)
      /\ Report = Heading \o Flat(Texts) /\ (\A k \in 1..Len(work) : Texts[k] # <<>>)
      /\ (Heading # <<>> \/ Len(work) > 0)
  BY TextsAre DEF TextsWell
<1>2. at = Len(work)
  BY <1>1 DEF WorkInv
<1>3. First(Texts, at) = Texts
  <2> DEFINE n == Len(work)
             v == Texts
  <2>1. n \in Nat /\ DOMAIN v = 1..n /\ v = [k \in DOMAIN v |-> v[k]]
    BY <1>1
  <2> HIDE DEF n, v
  <2>2. First(v, n) = v
    BY <2>1, WholeFirst
  <2> QED
    BY <1>2, <2>2 DEF n, v
<1>4. out = Report
  BY <1>1, <1>3, Zenon DEF ShownInv
<1>5. Report # <<>>
  <2> DEFINE h == Heading
             t == Flat(Texts)
  <2>1. t \in Seq(Items)
    BY <1>1, FlatType
  <2>2. h # <<>> \/ t # <<>>
    <3>1. CASE Len(work) > 0
      <4>1. Texts[1] # <<>>
        BY <1>1, <3>1
      <4> DEFINE n == Len(work)
                 v == Texts
                 X == Items
      <4>2. n \in Nat /\ n > 0 /\ v \in [1..n -> Seq(X)] /\ v[1] # <<>>
        BY <1>1, <3>1, <4>1
      <4> HIDE DEF n, v, X
      <4>3. Flat(v) # <<>>
        BY <4>2, AllJoined
      <4> QED
        BY <4>3 DEF v
    <3> QED
      BY <1>1, <3>1
  <2>3. h \in Seq(Items)
    BY <1>1
  <2> HIDE DEF h, t
  <2>4. h \o t # <<>>
    BY <2>1, <2>2, <2>3, SomeMore
  <2> QED
    BY <1>1, <2>4, Zenon DEF h, t
<1>6. Report' = Report /\ Rejected' = Rejected
  BY ReportStays
<1>7. error' = NoError /\ ~Rejected'
  BY <1>6 DEF FlagsInv, Text, Ended
<1>8. EndedWell'
  BY <1>4, <1>5, <1>6, <1>7, Zenon DEF EndedWell
<1> QED
  BY <1>8 DEF ShownInv, Text

(* The entries of the names done, and of the pairs done.                   *)
LEMMA NamesCollected ==
  ASSUME FlagsInv, WorkInv, pc = "jsonNames", at < Len(work), doc = Flat(First(NameEntries, at))
  PROVE  doc \o Collection(MatchFuncs(pairs, Current)) = Flat(First(NameEntries, at + 1))
<1> DEFINE n == Len(work)
           v == NameEntries
           X == Entries(pairs)
<1>1. /\ pairs \in Seq(Pair) /\ NamedOnce(pairs) /\ work = c.fns /\ c.fns \in Seq(Name)
  BY DEF FlagsInv, Flags
<1>2. DOMAIN c.fns = 1..n /\ n \in Nat /\ at \in 0..(n - 1) /\ at + 1 \in 1..n
  BY <1>1, LenProperties DEF WorkInv
<1>3. ASSUME NEW name PROVE Collection(MatchFuncs(pairs, name)) \in Seq(Entries(pairs))
  <2> DEFINE found == MatchFuncs(pairs, name)
             sole == Len(found) = 1
             stats == {p \in Range(found) : sole \/ p.state = "changed"}
  <2>1. found \in Seq(Pair) /\ \A k \in DOMAIN found : found[k] \in Range(pairs)
    BY <1>1, MatchIs
  <2>2. CollectsFrom(pairs, found, stats, sole)
    <3>1. \A k \in DOMAIN found : sole => found[k] \in stats
      BY DEF Range
    <3>2. sole \in BOOLEAN
      OBVIOUS
    <3> HIDE DEF stats, sole
    <3> QED
      BY <2>1, <3>1, <3>2 DEF CollectsFrom
  <2>3. Collection(found) = [k \in DOMAIN found |-> FuncReport(found[k], found[k] \in stats, sole)]
    BY Zenon DEF Collection
  <2> HIDE DEF found, stats, sole
  <2>4. [k \in DOMAIN found |-> FuncReport(found[k], found[k] \in stats, sole)] \in Seq(Entries(pairs))
    BY <1>1, <2>2, ReportTypes
  <2> QED
    BY <2>3, <2>4, Zenon DEF found
<1>4. ASSUME NEW k \in 1..n PROVE v[k] = Collection(MatchFuncs(pairs, c.fns[k])) /\ v[k] \in Seq(X)
  <2>1. v[k] = InJSONAll(Answer(pairs, c.fns[k], Section))
    BY <1>2, Zenon DEF NameEntries
  <2>2. v[k] = Collection(MatchFuncs(pairs, c.fns[k]))
    BY <1>1, <2>1, EntriesAre, Zenon
  <2> QED
    BY <1>3, <2>2, Zenon
<1>5. v \in [1..n -> Seq(X)]
  <2>1. DOMAIN v = 1..n /\ v = [k \in 1..n |-> v[k]]
    BY <1>2 DEF NameEntries
  <2> HIDE DEF v, X, n
  <2> QED
    BY <1>4, <2>1
<1>6. v[at + 1] = Collection(MatchFuncs(pairs, Current))
  BY <1>1, <1>2, <1>4 DEF Current
<1> HIDE DEF v, X, n
<1>7. Flat(First(v, at + 1)) = Flat(First(v, at)) \o v[at + 1]
  BY <1>2, <1>5, FlatSplit
<1> QED
  BY <1>6, <1>7, Zenon DEF v

LEMMA PairsCollected ==
  ASSUME FlagsInv, WorkInv, pc = "jsonAll", at < Len(work), doc = First(PairEntries, at),
         NEW t, t = [k \in DOMAIN <<Current>> |-> FuncReport(<<Current>>[k], <<Current>>[k] \in {Current}, c.all)]
  PROVE  doc \o t = First(PairEntries, at + 1)
<1>1. Current \in Told(pairs) /\ at + 1 \in 1..Len(work) /\ at \in Nat /\ Len(work) \in Nat /\ DOMAIN work = 1..Len(work)
      /\ c.all \in BOOLEAN
  BY CurrentIs, LenProperties DEF WorkInv, FlagsInv, Flags
<1> DEFINE p == Current
           e == PairEntry(p)
<1>2. FuncReport(p, TRUE, c.all) = e
  <2> DEFINE code == p.state # "relocation-only"
             some == p.state \notin {"identical", "relocation-only"}
  <2>1. p.state # "identical"
    BY <1>1 DEF Told
  <2>2. (TRUE /\ some) = code /\ (c.all /\ some) = (code /\ c.all)
    <3>1. (some <=> code) /\ some \in BOOLEAN /\ code \in BOOLEAN
      BY <2>1
    <3> HIDE DEF some, code
    <3>2. some = code
      BY <3>1
    <3>3. (TRUE /\ code) = code
      BY <3>1
    <3>4. (c.all /\ code) = (code /\ c.all)
      BY <1>1, <3>1
    <3> QED
      BY <3>2, <3>3, <3>4, Zenon
  <2>3. FuncReport(p, TRUE, c.all) = [pair |-> p, stats |-> TRUE /\ some, diff |-> c.all /\ some]
    BY Zenon DEF FuncReport
  <2>4. e = [pair |-> p, stats |-> code, diff |-> code /\ c.all]
    BY Zenon DEF PairEntry
  <2> HIDE DEF e, some, code
  <2> QED
    BY <2>2, <2>3, <2>4, Zenon
<1>3. t = <<e>>
  <2>1. DOMAIN <<p>> = 1..1 /\ <<p>>[1] = p
    OBVIOUS
  <2>2. t[1] = FuncReport(p, p \in {p}, c.all)
    BY <2>1
  <2>3. (p \in {p}) = TRUE
    OBVIOUS
  <2>4. t[1] = e /\ t = [k \in 1..1 |-> t[k]]
    <3>1. t[1] = e
      <4> HIDE DEF e, p
      <4> QED
        BY <1>2, <2>2, <2>3, Zenon
    <3>2. t = [k \in 1..1 |-> t[k]]
      BY <2>1
    <3> QED
      BY <3>1, <3>2
  <2> HIDE DEF e
  <2>5. <<e>> = [k \in 1..1 |-> <<e>>[k]] /\ <<e>>[1] = e
    OBVIOUS
  <2>6. \A k \in 1..1 : k = 1
    OBVIOUS
  <2> HIDE DEF p
  <2> QED
    BY <2>4, <2>5, <2>6
<1>4. PairEntries[at + 1] = e /\ DOMAIN PairEntries = 1..Len(work)
  <2>1. PairEntries[at + 1] = PairEntry(work[at + 1])
    BY <1>1, Zenon DEF PairEntries
  <2> QED
    BY <1>1, <2>1, Zenon DEF Current, PairEntries
<1> HIDE DEF e, p
<1>5. First(PairEntries, at) \o <<e>> = First(PairEntries, at + 1)
  <2> DEFINE v == PairEntries
             m == at + 1
  <2>1. v[m] = e /\ at \in Nat /\ m = at + 1
    BY <1>1, <1>4
  <2> HIDE DEF v, m
  <2>2. [k \in 1..at |-> v[k]] \o <<e>> = [k \in 1..m |-> v[k]]
    <3>1. Len([k \in 1..at |-> v[k]]) = at
      BY <2>1
    <3> QED
      BY <2>1, <3>1
  <2> QED
    BY <2>2 DEF v, m, First
<1> QED
  BY <1>3, <1>5, Zenon

-----------------------------------------------------------------------------
LEMMA Errors ==
  /\ Because("flags") # NoError /\ Because("profile") # NoError /\ Because("open") # NoError
  /\ Because("compare") # NoError /\ Because("filter") # NoError /\ Because("decode") # NoError
  /\ \A ps, name : NotFound(ps, name) # NoError
BY DEF Because, NoError, NotFound

(* A step to where nothing is shown, and one that ends a run with an error *)
(* before anything is.                                                     *)
LEMMA ShownNowhere ==
  ASSUME pc' \notin Text \cup {"jsonNames", "jsonAll"} \cup Ended PROVE ShownInv'
BY DEF ShownInv, Text, Ended

LEMMA EndsSilent ==
  ASSUME out' = <<>>, error' # NoError, pc' = "return" PROVE ShownInv'
<1>1. EndedWell'
  BY DEF EndedWell
<1> QED
  BY <1>1 DEF ShownInv, Text

(* The report begins with its heading, and with no entry.                  *)
LEMMA ShownFirst ==
  ASSUME at' = 0
  PROVE  /\ pc' \in Text /\ out' = Heading' /\ Heading' \in Seq(Items) => ShownInv'
         /\ pc' = "jsonNames" /\ out' = <<>> /\ doc' = <<>> => ShownInv'
         /\ pc' = "jsonAll" /\ out' = <<>> /\ doc' = <<>> => ShownInv'
<1> DEFINE v == Texts'
           w == NameEntries'
           u == PairEntries'
           h == Heading'
<1>1. ShownInv' <=> /\ pc' \in Text => out' = h \o Flat(First(v, at'))
                    /\ pc' = "jsonNames" => out' = <<>> /\ doc' = Flat(First(w, at'))
                    /\ pc' = "jsonAll" => out' = <<>> /\ doc' = First(u, at')
                    /\ pc' \in Ended => EndedWell'
  BY Zenon DEF ShownInv
<1> HIDE DEF v, w, u, h
<1>2. First(v, 0) = <<>> /\ First(w, 0) = <<>> /\ First(u, 0) = <<>> /\ Flat(<<>>) = <<>>
  BY ShownNothing
<1>3. h \in Seq(Items) => h \o <<>> = h
  BY ConcatEmptySeq
<1>4. pc' \in Text => pc' \notin {"jsonNames", "jsonAll"} \cup Ended
  BY DEF Text, Ended
<1>5. pc' \in {"jsonNames", "jsonAll"} => pc' \notin Text \cup Ended
  BY DEF Text, Ended
<1> QED
  <2>1. pc' \in Text /\ out' = h /\ h \in Seq(Items) => ShownInv'
    BY <1>1, <1>2, <1>3, <1>4
  <2>2. pc' = "jsonNames" /\ out' = <<>> /\ doc' = <<>> => ShownInv'
    BY <1>1, <1>2, <1>5
  <2>3. pc' = "jsonAll" /\ out' = <<>> /\ doc' = <<>> => ShownInv'
    BY <1>1, <1>2, <1>5
  <2> QED
    BY <2>1, <2>2, <2>3 DEF h

(* A step that ends a run with its report.                                 *)
LEMMA EndsWhole ==
  ASSUME UNCHANGED <<c, bin, pairs, work>>, pc' = "return", error' = NoError, c.version \/ ~Rejected,
         out' = Report, Report # <<>>
  PROVE  ShownInv'
<1>1. Report' = Report /\ Rejected' = Rejected
  BY ReportStays
<1>2. EndedWell'
  BY <1>1, Zenon DEF EndedWell
<1> QED
  BY <1>2 DEF ShownInv, Text

LEMMA StartShown ==
  ASSUME FlagsInv, WorkInv,
         Version \/ Validate \/ CPUProfile \/ MemProfile \/ OpenOld \/ OpenNew \/ Compare \/ Raw \/ OpenObjOld \/ OpenObjNew
  PROVE  ShownInv'
<1>1. pc \in Silent => out = <<>>
  BY DEF WorkInv
<1>2. {"start", "cpuprofile", "memprofile", "old", "new", "compare", "raw", "objOld", "objNew"} \subseteq Silent
  BY DEF Silent, Opening, OfOne, OfTwo, Reporting
<1>3. ASSUME pc \in Silent, out' = out, \/ pc' \notin Text \cup {"jsonNames", "jsonAll"} \cup Ended
                                        \/ pc' = "return" /\ error' # NoError
      PROVE  ShownInv'
  BY <1>1, <1>3, ShownNowhere, EndsSilent
<1> USE DEF Fail, Go, Goto
<1>4. CASE Version
  <2> DEFINE s == <<Item("version", <<>>)>>
  <2>1. out' = out \o s /\ pc = "start" /\ c.version /\ UNCHANGED <<c, bin, pairs, work, error>> /\ pc' = "return"
    BY <1>4 DEF Version, Emit, Frame, Idle
  <2>2. s # <<>> /\ out = <<>>
    BY <1>1, <1>2, <2>1
  <2>3. Report = s
    BY <2>1, Zenon DEF Report
  <2>4. out' = s
    <3>1. <<>> \o s = s
      OBVIOUS
    <3> QED
      BY <2>1, <2>2, <3>1, Zenon
  <2>5. error' = NoError
    BY <2>1 DEF FlagsInv, Ended
  <2> HIDE DEF s
  <2> QED
    BY <2>1, <2>2, <2>3, <2>4, <2>5, EndsWhole
<1> USE DEF Text, Ended
<1>5. CASE Validate
  BY <1>2, <1>3, <1>5, Errors DEF Validate
<1>6. CASE CPUProfile
  BY <1>2, <1>3, <1>6, Errors DEF CPUProfile
<1>7. CASE MemProfile
  BY <1>2, <1>3, <1>7, Errors DEF MemProfile
<1>8. CASE OpenOld
  BY <1>2, <1>3, <1>8, Errors DEF OpenOld, Open
<1>9. CASE OpenNew
  BY <1>2, <1>3, <1>9, Errors DEF OpenNew, Open
<1>10. CASE Compare
  BY <1>2, <1>3, <1>10, Errors DEF Compare
<1>11. CASE Raw
  BY <1>2, <1>3, <1>11, Errors DEF Raw
<1>12. CASE OpenObjOld
  BY <1>2, <1>3, <1>12, Errors DEF OpenObjOld, Open
<1>13. CASE OpenObjNew
  <2>1. pc = "objNew" /\ out' = out /\ (pc' = "select" \/ (pc' = "return" /\ error' # NoError))
    BY <1>13, Errors DEF OpenObjNew, Open
  <2> QED
    BY <1>2, <1>3, <2>1
<1> QED
  BY <1>4, <1>5, <1>6, <1>7, <1>8, <1>9, <1>10, <1>11, <1>12, <1>13

LEMMA SelectShown ==
  ASSUME FlagsInv, WorkInv, Select \/ Summary \/ Single PROVE ShownInv'
<1>1. /\ pc \in {"select", "summary", "single"} => at = 0 /\ doc = <<>> /\ out = <<>>
      /\ pc \in {"select", "summary"} => ~c.single /\ ~c.version /\ ~Rejected /\ error = NoError
      /\ pc = "single" => c.single
      /\ pc = "summary" => c.fns = <<>>
      /\ c' = c /\ bin' = bin
  <2>1. c' = c /\ bin' = bin
    BY DEF Select, Summary, Single, Frame
  <2>2. {"select", "summary", "single"} \subseteq Silent
    BY DEF Silent, Opening, OfOne, OfTwo, Reporting
  <2>3. {"select", "summary"} \subseteq OfTwo /\ "single" \in OfOne
    BY DEF OfTwo, OfOne
  <2>4. pc \in {"select", "summary", "single"} => at = 0 /\ doc = <<>> /\ out = <<>>
    BY <2>2 DEF WorkInv
  <2>5. pc \in {"select", "summary"} => ~c.version /\ ~Rejected /\ error = NoError
    BY DEF FlagsInv, Ended
  <2> QED
    BY <2>1, <2>3, <2>4, <2>5 DEF FlagsInv
<1> DEFINE head == <<Item("summary", pairs)>>
           h == Heading'
<1>2. h = IF ~c.single /\ c.fns = <<>> THEN <<Item("summary", pairs')>> ELSE <<>>
  BY <1>1, Zenon DEF Heading
<1>3. <<>> \in Seq(Items) /\ head \in Seq(Items) /\ head # <<>> /\ <<>> \o head = head /\ head \o <<>> = head
  <2>1. "summary" \in Kinds /\ pairs \in Abouts
    BY ItemType DEF Kinds, FlagsInv
  <2>2. head \in Seq(Items) /\ <<>> \in Seq(Items)
    BY <2>1, ItemType
  <2>3. \A x : <<x>> # <<>> /\ <<>> \o <<x>> = <<x>> /\ <<x>> \o <<>> = <<x>>
    OBVIOUS
  <2> QED
    BY <2>2, <2>3, Zenon
<1> USE DEF Fail, Go, Goto
<1>4. CASE Select
  <2>1. /\ pc = "select" /\ UNCHANGED <<at, doc, out>>
        /\ \/ c.fns # <<>> /\ pc' \in {"jsonNames", "names"}
           \/ pc' = "summary"
           \/ pc' = "return" /\ error' # NoError
    BY <1>4, Errors DEF Select
  <2>2. CASE c.fns # <<>> /\ pc' = "jsonNames"
    BY <1>1, <2>1, <2>2, ShownFirst
  <2>3. CASE c.fns # <<>> /\ pc' = "names"
    <3>1. h = <<>>
      BY <1>2, <2>3, Zenon
    <3> QED
      BY <1>1, <1>3, <2>1, <2>3, <3>1, ShownFirst DEF Text
  <2>4. CASE pc' = "summary"
    BY <2>4, ShownNowhere DEF Text, Ended
  <2>5. CASE pc' = "return" /\ error' # NoError
    BY <1>1, <2>1, <2>5, EndsSilent
  <2> QED
    BY <2>1, <2>2, <2>3, <2>4, <2>5
<1>5. CASE Single
  <2>1. pc = "single" /\ UNCHANGED <<at, doc, out>> /\ pc' \in {"listings", "stats"}
    BY <1>5 DEF Single
  <2>2. CASE pc' = "listings"
    <3>1. h = <<>>
      BY <1>1, <1>2, <2>1, Zenon
    <3> QED
      BY <1>1, <1>3, <2>1, <2>2, <3>1, ShownFirst DEF Text
  <2>3. CASE pc' = "stats"
    BY <2>3, ShownNowhere DEF Text, Ended
  <2> QED
    BY <2>1, <2>2, <2>3
<1>6. CASE Summary
  <2>1. /\ pc = "summary" /\ UNCHANGED <<pairs, at, doc, error>>
        /\ \/ c.json /\ pc' = "jsonAll" /\ out' = out
           \/ ~c.json /\ out' = out \o head /\ pc' = IF c.all THEN "all" ELSE "return"
    BY <1>6 DEF Summary, Emit
  <2>2. h = head
    BY <1>1, <1>2, <2>1, Zenon
  <2>3. CASE pc' = "jsonAll" /\ out' = out
    BY <1>1, <2>1, <2>3, ShownFirst
  <2>4. CASE ~c.json /\ out' = out \o head /\ c.all /\ pc' = "all"
    <3>1. out' = h /\ h \in Seq(Items)
      BY <1>1, <1>3, <2>1, <2>2, <2>4, Zenon
    <3> QED
      BY <1>1, <2>1, <2>4, <3>1, ShownFirst DEF Text
  <2>5. CASE ~c.json /\ out' = out \o head /\ ~c.all /\ pc' = "return"
    <3> DEFINE R == IF c.all THEN Flat(PairSections) ELSE <<>>
    <3>1. Report' = head \o R'
      BY <1>1, <2>1, <2>5, Zenon DEF Report, PairSections
    <3>2. R' = <<>>
      BY <1>1, <2>5, Zenon
    <3> HIDE DEF R
    <3>3. Report' = head /\ out' = head
      BY <1>1, <1>3, <2>1, <2>5, <3>1, <3>2, Zenon
    <3>4. Rejected' = Rejected
      BY <1>1 DEF Rejected, ComparisonFlags
    <3>5. EndedWell'
      BY <1>1, <1>3, <2>1, <3>3, <3>4, Zenon DEF EndedWell
    <3> QED
      BY <2>5, <3>5 DEF ShownInv, Text
  <2> QED
    BY <2>1, <2>3, <2>4, <2>5
<1> QED
  BY <1>4, <1>5, <1>6

(* One pair is written whole, or cut before what it lacks.                 *)
LEMMA WrittenShown ==
  ASSUME FlagsInv, WorkInv, ShownInv, pc \in Text, at < Len(work), NEW p \in Pair,
         Texts[at + 1] = Section(p), WriteFunc(p)
  PROVE  ShownInv'
<1> DEFINE a == Noted(p)
           b == Diffed(p)
<1>1. UNCHANGED <<c, bin, pairs, work>>
  BY DEF WriteFunc, Frame
<1>2. Parts(a, b)
  BY PairItems, SectionIs, Zenon DEF Parts
<1>3. \/ out' = out \o (a \o b) /\ at' = at + 1 /\ pc' = pc
      \/ (OneSided(p) \/ Blocked(p)) /\ out' = out \o a /\ pc' = "return" /\ error' # NoError
  BY Errors DEF WriteFunc, Emit, Step, Go, Goto, Fail
<1>4. OneSided(p) \/ Blocked(p) => b # <<>>
  BY SectionIs
<1> HIDE DEF a, b
<1> QED
  BY <1>1, <1>2, <1>3, <1>4, ShownMore, ShownCut

(* A name is answered whole, or a run fails before its answer.             *)
LEMMA AnswerShown ==
  ASSUME FlagsInv, WorkInv, ShownInv, pc \in Text, at < Len(work), UNCHANGED <<c, bin, pairs, work>>,
         NEW s \in Seq(Items), s # <<>>, Texts[at + 1] = s,
         \/ out' = out \o s /\ at' = at + 1 /\ pc' = pc
         \/ out' = out /\ pc' = "return" /\ error' # NoError
  PROVE  ShownInv'
<1>1. <<>> \in Seq(Items) /\ s \o <<>> = s /\ <<>> \o s = s /\ out \o <<>> = out
  BY ConcatEmptySeq DEF WorkInv
<1>2. Parts(s, <<>>) /\ Parts(<<>>, s)
  BY <1>1, Zenon DEF Parts
<1>3. CASE out' = out \o s /\ at' = at + 1 /\ pc' = pc
  <2> DEFINE e == <<>>
  <2>1. out' = out \o (s \o e) /\ Parts(s, e)
    BY <1>1, <1>2, <1>3, Zenon
  <2> HIDE DEF e
  <2> QED
    BY <1>3, <2>1, ShownMore
<1>4. CASE out' = out /\ pc' = "return" /\ error' # NoError
  <2> DEFINE e == <<>>
  <2>1. out' = out \o e /\ Parts(e, s)
    BY <1>1, <1>2, <1>4, Zenon
  <2> HIDE DEF e
  <2> QED
    BY <1>4, <2>1, ShownCut
<1> QED
  BY <1>3, <1>4

LEMMA TextShown ==
  ASSUME FlagsInv, WorkInv, ShownInv, WriteAll \/ WriteName \/ WriteListing \/ EndText PROVE ShownInv'
<1>1. pairs \in Seq(Pair) /\ NamedOnce(pairs) /\ bin.table \in Seq(Symbol) /\ ByAddress(bin.table)
  BY DEF FlagsInv, BinOK
<1>2. CASE WriteAll
  <2>1. pc = "all" /\ pc \in Text /\ at < Len(work) /\ WriteFunc(Current)
    BY <1>2 DEF WriteAll, Left, Text
  <2>2. Current \in Pair /\ at + 1 \in 1..Len(work)
    BY <2>1, CurrentIs
  <2>3. ~c.single /\ c.fns = <<>>
    BY <2>1 DEF FlagsInv, OfTwo, Reporting
  <2>4. Texts[at + 1] = Section(Current)
    <3>1. at + 1 \in DOMAIN work
      BY <2>2, LenProperties DEF WorkInv
    <3>2. Texts = PairSections
      BY <2>3, Zenon DEF Texts
    <3> QED
      BY <3>1, <3>2, Zenon DEF PairSections, Current
  <2> QED
    BY <2>1, <2>2, <2>4, WrittenShown
<1>3. CASE WriteName
  <2> DEFINE found == MatchFuncs(pairs, Current)
  <2>1. pc = "names" /\ pc \in Text /\ at < Len(work) /\ UNCHANGED <<c, bin, pairs, work>>
    BY <1>3 DEF WriteName, WriteFunc, Frame, Left, Text
  <2>2. found \in Seq(Pair)
    BY <1>1, MatchIs
  <2>3. ~c.single /\ c.fns # <<>> /\ work = c.fns /\ c.fns \in Seq(Name)
    BY <2>1 DEF FlagsInv, OfTwo, Reporting, Flags
  <2>4. at + 1 \in DOMAIN c.fns /\ Current = c.fns[at + 1]
    <3>1. at \in 0..Len(work) /\ DOMAIN work = 1..Len(work) /\ Len(work) \in Nat
      BY <2>3, LenProperties DEF WorkInv
    <3> QED
      BY <2>1, <2>3, <3>1 DEF Current
  <2> DEFINE s == Answer(pairs, Current, Section)
  <2>5. Texts[at + 1] = s
    <3>1. Texts = NameAnswers
      BY <2>3, Zenon DEF Texts
    <3> QED
      BY <2>4, <3>1, Zenon DEF NameAnswers
  <2>6. s \in Seq(Items) /\ s # <<>>
    BY <1>1, OneAnswer
  <2>7. s = IF Len(found) = 1 THEN Section(found[1]) ELSE <<Item("matches", found)>>
    BY <1>1, AnswerIs, Zenon
  <2> HIDE DEF found, s
  <2>8. CASE found # <<>> /\ Len(found) = 1
    <3>1. WriteFunc(found[1])
      BY <1>3, <2>8 DEF WriteName, found
    <3>2. found[1] \in Pair
      BY <2>2, <2>8, ElementOfSeq
    <3>3. Texts[at + 1] = Section(found[1])
      BY <2>5, <2>7, <2>8, Zenon
    <3> QED
      BY <2>1, <3>1, <3>2, <3>3, WrittenShown
  <2>9. CASE found # <<>> /\ Len(found) # 1
    <3>1. out' = out \o <<Item("matches", found)>> /\ at' = at + 1 /\ pc' = pc
      BY <1>3, <2>9 DEF WriteName, Emit, Step, Go, Goto, found
    <3>2. out' = out \o s
      BY <2>7, <2>9, <3>1, Zenon
    <3> QED
      BY <2>1, <2>5, <2>6, <3>1, <3>2, AnswerShown
  <2>10. CASE found = <<>>
    <3>1. Len(found) # 1
      BY <2>10
    <3>2. out' = out /\ pc' = "return" /\ error' # NoError
      BY <1>3, <2>10, <3>1, Errors DEF WriteName, Fail, Goto, found
    <3> QED
      BY <2>1, <2>5, <2>6, <3>2, AnswerShown
  <2> QED
    BY <2>8, <2>9, <2>10
<1>4. CASE WriteListing
  <2> DEFINE fs == Funcs(bin.table)
             found == MatchFuncs(fs, Current)
  <2>1. pc = "listings" /\ pc \in Text /\ at < Len(work) /\ UNCHANGED <<c, bin, pairs, work>>
    BY <1>4 DEF WriteListing, Frame, Left, Text
  <2>2. fs \in Seq(Symbol) /\ NamedOnce(fs)
    BY <1>1, FuncsAre
  <2>3. c.single /\ c.fns # <<>> /\ work = c.fns /\ c.fns \in Seq(Name)
    BY <2>1 DEF FlagsInv, OfOne, Flags
  <2>4. at + 1 \in DOMAIN c.fns /\ Current = c.fns[at + 1]
    <3>1. at \in 0..Len(work) /\ DOMAIN work = 1..Len(work) /\ Len(work) \in Nat
      BY <2>3, LenProperties DEF WorkInv
    <3> QED
      BY <2>1, <2>3, <3>1 DEF Current
  <2> DEFINE s == Answer(fs, Current, LAMBDA f : <<Item("listing", <<f>>)>>)
  <2>5. Texts[at + 1] = s
    <3>1. Texts = ListAnswers
      BY <2>3, Zenon DEF Texts
    <3> QED
      BY <2>4, <3>1, Zenon DEF ListAnswers
  <2>6. s \in Seq(Items) /\ s # <<>>
    BY <2>2, OneListing, Zenon
  <2>7. s = IF Len(found) = 1 THEN <<Item("listing", <<found[1]>>)>> ELSE <<Item("matches", found)>>
    BY <2>2, ListingIs, Zenon
  <2>8. found \in Seq(Symbol)
    BY <2>2, MatchIs
  <2>9. \/ out' = out /\ pc' = "return" /\ error' # NoError
        \/ out' = out \o <<Item(IF Len(found) = 1 THEN "listing" ELSE "matches", found)>> /\ at' = at + 1 /\ pc' = pc
    BY <1>4, Errors DEF WriteListing, Emit, Step, Go, Goto, Fail
  <2> HIDE DEF found, s, fs
  <2>10. s = <<Item(IF Len(found) = 1 THEN "listing" ELSE "matches", found)>>
    <3>1. Len(found) = 1 => <<found[1]>> = found
      BY <2>8
    <3> QED
      BY <2>7, <3>1, Zenon
  <2>11. \/ out' = out \o s /\ at' = at + 1 /\ pc' = pc
         \/ out' = out /\ pc' = "return" /\ error' # NoError
    BY <2>9, <2>10, Zenon
  <2> QED
    BY <2>1, <2>5, <2>6, <2>11, AnswerShown
<1>5. CASE EndText
  <2>1. pc \in Text /\ ~(at < Len(work)) /\ UNCHANGED <<c, bin, pairs, work, out, error>> /\ pc' = "return"
    BY <1>5 DEF EndText, Left, Frame, Idle, Go, Goto, Text
  <2> QED
    BY <2>1, TextEnds
<1> QED
  BY <1>2, <1>3, <1>4, <1>5

LEMMA JSONShown ==
  ASSUME FlagsInv, WorkInv, ShownInv, JSONAll \/ JSONName \/ Encode PROVE ShownInv'
<1>1. UNCHANGED <<c, bin, pairs, work>> /\ pc \in {"jsonAll", "jsonNames"} /\ out = <<>>
  BY DEF JSONAll, JSONName, Encode, Collect, Frame, Idle, ShownInv
<1>2. /\ NameEntries' = NameEntries /\ PairEntries' = PairEntries
  BY <1>1, ReportStays
<1>3. CASE JSONAll
  <2>1. /\ pc = "jsonAll" /\ at < Len(work) /\ doc = First(PairEntries, at)
        /\ \/ /\ doc' = doc \o [k \in DOMAIN <<Current>> |-> FuncReport(<<Current>>[k], <<Current>>[k] \in {Current}, c.all)]
              /\ at' = at + 1 /\ pc' = pc /\ out' = out
           \/ out' = out /\ pc' = "return" /\ error' # NoError
    BY <1>3, Errors DEF JSONAll, Collect, Left, Step, Go, Goto, Fail, ShownInv
  <2>2. CASE out' = out /\ pc' = "return" /\ error' # NoError
    BY <1>1, <2>2, EndsSilent
  <2> DEFINE t == [k \in DOMAIN <<Current>> |-> FuncReport(<<Current>>[k], <<Current>>[k] \in {Current}, c.all)]
  <2>3. CASE doc' = doc \o t /\ at' = at + 1 /\ pc' = pc /\ out' = out
    <3>1. doc \o t = First(PairEntries, at + 1)
      BY <2>1, PairsCollected
    <3>2. doc' = First(PairEntries', at')
      BY <1>2, <2>3, <3>1, Zenon
    <3>3. pc' = "jsonAll" /\ out' = <<>>
      BY <1>1, <2>1, <2>3
    <3> QED
      BY <3>2, <3>3, Zenon DEF ShownInv, Text, Ended
  <2> QED
    BY <2>1, <2>2, <2>3
<1>4. CASE JSONName
  <2> DEFINE found == MatchFuncs(pairs, Current)
             sole == Len(found) = 1
             stats == {p \in Range(found) : sole \/ p.state = "changed"}
             t == [k \in DOMAIN found |-> FuncReport(found[k], found[k] \in stats, sole)]
  <2>1. pc = "jsonNames" /\ at < Len(work) /\ doc = Flat(First(NameEntries, at))
    BY <1>4 DEF JSONName, Left, ShownInv
  <2>2. \/ doc' = doc \o t /\ at' = at + 1 /\ pc' = pc /\ out' = out
        \/ out' = out /\ pc' = "return" /\ error' # NoError
    <3>1. CASE found = <<>>
      BY <1>4, <3>1, Errors DEF JSONName, Fail, Goto
    <3>2. CASE found # <<>>
      <4>1. Collect(found, stats, sole)
        BY <1>4, <3>2, Zenon DEF JSONName
      <4> HIDE DEF found, sole, stats
      <4> QED
        BY <4>1, Errors DEF Collect, Step, Go, Goto, Fail
    <3> QED
      BY <3>1, <3>2
  <2>3. CASE out' = out /\ pc' = "return" /\ error' # NoError
    BY <1>1, <2>3, EndsSilent
  <2>4. CASE doc' = doc \o t /\ at' = at + 1 /\ pc' = pc /\ out' = out
    <3>1. t = Collection(found)
      BY Zenon DEF Collection
    <3>2. doc \o Collection(found) = Flat(First(NameEntries, at + 1))
      BY <2>1, NamesCollected
    <3> HIDE DEF t, found
    <3>3. doc' = Flat(First(NameEntries', at'))
      BY <1>2, <2>4, <3>1, <3>2, Zenon
    <3>4. pc' = "jsonNames" /\ out' = <<>>
      BY <1>1, <2>1, <2>4
    <3> QED
      BY <3>3, <3>4, Zenon DEF ShownInv, Text, Ended
  <2> QED
    BY <2>2, <2>3, <2>4
<1>5. CASE Encode
  <2> DEFINE s == <<Item("json", doc)>>
             n == Len(work)
  <2>1. pc' = "return" /\ ~(at < n) /\ error' = error /\ out' = out \o s
    BY <1>5 DEF Encode, Left, Go, Goto, Emit
  <2>2. ~c.version /\ ~Rejected /\ error = NoError /\ c.json /\ ~c.single
    BY <1>1 DEF FlagsInv, OfTwo, Reporting, Ended
  <2>3. at = n /\ n \in Nat /\ DOMAIN work = 1..n
    BY <2>1, LenProperties DEF WorkInv
  <2>4. doc = Document
    <3>1. CASE pc = "jsonAll"
      <4> DEFINE v == PairEntries
      <4>1. c.fns = <<>> /\ doc = First(v, n)
        BY <2>3, <3>1 DEF FlagsInv, ShownInv
      <4>2. DOMAIN v = 1..n /\ v = [k \in DOMAIN v |-> v[k]]
        BY <2>3 DEF PairEntries
      <4>3. Document = v
        BY <4>1, Zenon DEF Document, PairEntries, PairEntry
      <4> HIDE DEF v, n
      <4> QED
        BY <2>3, <4>1, <4>2, <4>3, WholeFirst
    <3>2. CASE pc = "jsonNames"
      <4> DEFINE v == NameEntries
      <4>1. c.fns # <<>> /\ work = c.fns /\ doc = Flat(First(v, n))
        BY <2>3, <3>2 DEF FlagsInv, ShownInv
      <4>2. DOMAIN v = 1..n /\ v = [k \in DOMAIN v |-> v[k]]
        BY <2>3, <4>1 DEF NameEntries
      <4>3. Document = Flat(v)
        BY <4>1, Zenon DEF Document, NameEntries
      <4> HIDE DEF v, n
      <4>4. First(v, n) = v
        BY <2>3, <4>2, WholeFirst
      <4> QED
        BY <4>1, <4>3, <4>4, Zenon
    <3> QED
      BY <1>1, <3>1, <3>2
  <2>5. \A x : <<>> \o <<x>> = <<x>> /\ <<x>> # <<>>
    OBVIOUS
  <2>6. Report = s
    <3>1. Report = <<Item("json", Document)>>
      BY <2>2, Zenon DEF Report
    <3> QED
      BY <2>4, <3>1, Zenon
  <2>7. out' = s /\ s # <<>>
    BY <1>1, <2>1, <2>5, Zenon
  <2> HIDE DEF s
  <2> QED
    BY <1>1, <2>1, <2>2, <2>6, <2>7, EndsWhole
<1> QED
  BY <1>3, <1>4, <1>5

LEMMA TwoJoined ==
  ASSUME NEW x, NEW y PROVE <<x>> \o <<y>> = <<x, y>>
<1> DEFINE t == <<x>> \o <<y>>
<1>1. t = [k \in 1..2 |-> t[k]] /\ t[1] = x /\ t[2] = y
  OBVIOUS
<1>2. <<x, y>> = [k \in 1..2 |-> <<x, y>>[k]] /\ <<x, y>>[1] = x /\ <<x, y>>[2] = y
  OBVIOUS
<1>3. \A k \in 1..2 : k = 1 \/ k = 2
  OBVIOUS
<1> HIDE DEF t
<1>4. t = <<x, y>>
  BY <1>1, <1>2, <1>3
<1> QED
  BY <1>4 DEF t

LEMMA EndShown ==
  ASSUME FlagsInv, WorkInv, ShownInv, WriteStats \/ Release \/ Exit PROVE ShownInv'
<1>1. UNCHANGED <<c, bin, pairs, work>>
  BY DEF WriteStats, Release, Exit, Frame, Idle
<1>2. Report' = Report /\ Items' = Items /\ Rejected' = Rejected
  BY <1>1, ReportStays
<1>3. CASE Release \/ Exit
  <2>1. out' = out /\ error' = error /\ pc \in Ended /\ pc' \in Ended
    BY <1>3 DEF Release, Exit, Goto, Ended
  <2>2. EndedWell
    BY <2>1 DEF ShownInv
  <2>3. c' = c
    BY <1>1
  <2>4. Cut' = Cut
    BY <1>2, <2>1, Zenon DEF Cut
  <2>5. EndedWell'
    BY <1>2, <2>1, <2>2, <2>3, <2>4, Zenon DEF EndedWell
  <2> QED
    BY <2>1, <2>5 DEF ShownInv, Text, Ended
<1>4. CASE WriteStats
  <2> DEFINE head == Item("statsHead", <<StatsHead(bin)>>)
             tables == Item("statsTables", <<StatsTables(bin)>>)
  <2>1. /\ pc = "stats" /\ pc' = "return"
        /\ \/ out' = out \o <<head, tables>> /\ error' = error
           \/ out' = out \o <<head>> /\ error' # NoError
    BY <1>4, Errors DEF WriteStats, Emit, Go, Goto, Fail
  <2>2. c.single /\ c.fns = <<>> /\ ~c.version /\ ~Rejected /\ error = NoError /\ out = <<>>
    <3>1. pc \in Silent
      BY <2>1 DEF Silent, OfOne, Reporting
    <3> QED
      BY <2>1, <3>1 DEF FlagsInv, WorkInv, OfOne, Ended
  <2>3. Report = <<head, tables>>
    BY <2>2, Zenon DEF Report
  <2>4. head \in Items /\ tables \in Items
    <3>1. <<StatsHead(bin)>> \in Abouts /\ <<StatsTables(bin)>> \in Abouts /\ {"statsHead", "statsTables"} \subseteq Kinds
      BY Zenon DEF Abouts, Kinds
    <3> QED
      BY <3>1, ItemType
  <2> HIDE DEF head, tables
  <2>5. /\ <<>> \o <<head, tables>> = <<head, tables>> /\ <<>> \o <<head>> = <<head>>
        /\ <<head>> \o <<tables>> = <<head, tables>> /\ <<head, tables>> # <<>> /\ <<tables>> # <<>>
        /\ <<tables>> \in Seq(Items)
    <3>1. <<head, tables>> \in Seq(Items) /\ <<head>> \in Seq(Items) /\ <<tables>> \in Seq(Items)
      BY <2>4
    <3>2. <<>> \o <<head, tables>> = <<head, tables>> /\ <<>> \o <<head>> = <<head>>
      BY <3>1, ConcatEmptySeq
    <3>3. <<head>> \o <<tables>> = <<head, tables>>
      BY TwoJoined
    <3>4. <<head, tables>> # <<>> /\ <<tables>> # <<>>
      OBVIOUS
    <3> QED
      BY <3>1, <3>2, <3>3, <3>4, Zenon
  <2>6. CASE out' = out \o <<head, tables>> /\ error' = error
    <3>1. out' = Report /\ Report # <<>> /\ error' = NoError
      BY <2>2, <2>3, <2>5, <2>6, Zenon
    <3> QED
      BY <1>1, <2>1, <2>2, <3>1, EndsWhole
  <2>7. CASE out' = out \o <<head>> /\ error' # NoError
    <3>1. Report' = out' \o <<tables>>
      BY <1>2, <2>2, <2>3, <2>5, <2>7, Zenon
    <3>2. Cut'
      BY <1>2, <2>4, <2>5, <3>1, Zenon DEF Cut
    <3>3. EndedWell'
      BY <1>2, <2>2, <2>7, <3>2 DEF EndedWell
    <3> QED
      BY <2>1, <3>3 DEF ShownInv, Text
  <2> QED
    BY <2>1, <2>6, <2>7
<1> QED
  BY <1>3, <1>4

LEMMA ShownInvHolds ==
  ASSUME FlagsInv, WorkInv, ShownInv, CommandNext PROVE ShownInv'
BY StartShown, SelectShown, TextShown, JSONShown, EndShown DEF CommandNext

LEMMA ShownInvStays ==
  ASSUME ShownInv, UNCHANGED commandVars PROVE ShownInv'
<1>1. UNCHANGED <<c, bin, pairs, work>> /\ out' = out /\ error' = error /\ pc' = pc /\ doc' = doc /\ at' = at
  BY DEF commandVars
<1>2. /\ Report' = Report /\ Texts' = Texts /\ Heading' = Heading
      /\ NameEntries' = NameEntries /\ PairEntries' = PairEntries
      /\ Rejected' = Rejected /\ Items' = Items
  BY <1>1, ReportStays
<1>3. c' = c
  BY <1>1
<1>4. Cut' = Cut
  BY <1>1, <1>2, Zenon DEF Cut
<1>5. EndedWell' = EndedWell
  BY <1>1, <1>2, <1>3, <1>4, Zenon DEF EndedWell
<1> QED
  BY <1>1, <1>2, <1>5, Zenon DEF ShownInv

(* A record of flags with only the given ones set.                         *)
FlagNames == {"version", "top", "sortBy", "states", "single", "fns", "filters", "maskSP", "json", "sideBy", "blocks",
              "all", "color", "cpuProf", "memProf"}
PlainBut(r, no, none) ==
  r = [version |-> no, top |-> r.top, sortBy |-> "size", states |-> none, single |-> r.single, fns |-> r.fns,
       filters |-> none, maskSP |-> no, json |-> no, sideBy |-> no, blocks |-> no,
       all |-> no, color |-> r.color, cpuProf |-> r.cpuProf, memProf |-> r.memProf]
Without(r, no, none) ==
  [r EXCEPT !.single = no, !.fns = none, !.top = 0, !.color = "auto", !.cpuProf = no, !.memProf = no]
Plain(no, none) ==
  [version |-> no, top |-> 0, sortBy |-> "size", states |-> none, single |-> no, fns |-> none,
   filters |-> none, maskSP |-> no, json |-> no, sideBy |-> no, blocks |-> no,
   all |-> no, color |-> "auto", cpuProf |-> no, memProf |-> no]

LEMMA OnlyThese ==
  ASSUME NEW r, NEW no, NEW none, PlainBut(r, no, none) PROVE Without(r, no, none) = Plain(no, none)
<1> DEFINE p == Without(r, no, none)
           q == Plain(no, none)
<1> USE DEF PlainBut, Without, Plain
<1>1. /\ r.version = no /\ r.sortBy = "size" /\ r.states = none /\ r.filters = none /\ r.maskSP = no /\ r.json = no
      /\ r.sideBy = no /\ r.blocks = no /\ r.all = no
  OBVIOUS
<1>2. r = [x \in FlagNames |-> r[x]]
  BY DEF FlagNames
<1>3. q = [x \in FlagNames |-> q[x]]
  BY DEF FlagNames
<1>4. /\ q.version = no /\ q.top = 0 /\ q.sortBy = "size" /\ q.states = none /\ q.single = no /\ q.fns = none
      /\ q.filters = none /\ q.maskSP = no /\ q.json = no /\ q.sideBy = no /\ q.blocks = no
      /\ q.all = no /\ q.color = "auto" /\ q.cpuProf = no /\ q.memProf = no
  OBVIOUS
<1> HIDE DEF q
<1>5. /\ p.version = r.version /\ p.top = 0 /\ p.sortBy = r.sortBy /\ p.states = r.states /\ p.single = no /\ p.fns = none
      /\ p.filters = r.filters /\ p.maskSP = r.maskSP /\ p.json = r.json /\ p.sideBy = r.sideBy /\ p.blocks = r.blocks
      /\ p.all = r.all /\ p.color = "auto" /\ p.cpuProf = no /\ p.memProf = no
  BY <1>2 DEF FlagNames
<1>6. p = [x \in FlagNames |-> p[x]]
  BY <1>2
<1> HIDE DEF p
<1>7. \A x \in FlagNames : p[x] = q[x]
  BY <1>1, <1>4, <1>5 DEF FlagNames
<1>8. p = q
  BY <1>3, <1>6, <1>7
<1> QED
  BY <1>8 DEF p, q

(* What is shown is the beginning of the report.                           *)
LEMMA ShownIsWhole ==
  ASSUME FlagsInv, WorkInv, ShownInv PROVE ReportsAreWhole
<1>1. out \in Seq(Items)
  BY DEF WorkInv
<1>2. ASSUME NEW rest \in Seq(Items), Report = out \o rest PROVE IsPrefix(out, Report)
  BY <1>1, <1>2, StaysInFront DEF IsPrefix
<1>3. IsPrefix(out, out)
  <2>1. Len(out) <= Len(out) /\ SubSeq(out, 1, Len(out)) = SubSeq(out, 1, Len(out))
    BY <1>1, LenProperties
  <2> QED
    BY <2>1 DEF IsPrefix
<1>4. pc \in Text => IsPrefix(out, Report)
  <2> SUFFICES ASSUME pc \in Text PROVE IsPrefix(out, Report)
    OBVIOUS
  <2> DEFINE X == Items
             v == Texts
             n == Len(work)
             h == Heading
  <2>1. n \in Nat /\ v \in [1..n -> Seq(X)] /\ h \in Seq(X) /\ Report = h \o Flat(v) /\ out = h \o Flat(First(v, at))
    BY TextsAre DEF TextsWell, ShownInv
  <2>2. at \in 0..n
    BY DEF WorkInv
  <2> HIDE DEF X, v, n, h
  <2>3. CASE at = n
    <3>1. First(v, n) = v
      BY <2>1, WholeFirst
    <3> QED
      BY <1>3, <2>1, <2>3, <3>1, Zenon
  <2>4. CASE at # n
    <3>1. at \in 0..(n - 1) /\ at + 1 \in 1..n
      BY <2>1, <2>2, <2>4
    <3> DEFINE a == v[at + 1]
               b == <<>>
    <3>2. a \in Seq(X) /\ b \in Seq(X)
      BY <2>1, <3>1
    <3>3. a = a \o b
      BY <3>2, ConcatEmptySeq
    <3>4. Halves(v, at, b, a)
      <4>1. a = b \o a
        BY <3>2, ConcatEmptySeq
      <4> QED
        BY <4>1, Zenon DEF Halves
    <3> HIDE DEF a, b
    <3>5. JoinedSoFar(h, v, at) \in Seq(X) /\ RestIs(X, h, v, at, b, a)
      BY <2>1, <3>1, <3>2, <3>4, NextJoined
    <3>6. PICK rest \in Seq(X) : h \o Flat(v) = (JoinedSoFar(h, v, at) \o b) \o (a \o rest)
      BY <3>5, Zenon DEF RestIs
    <3>7. JoinedSoFar(h, v, at) \o b = JoinedSoFar(h, v, at)
      BY <3>5, ConcatEmptySeq DEF b
    <3>8. a \o rest \in Seq(X)
      BY <3>2, ConcatProperties
    <3>9. Report = out \o (a \o rest)
      BY <2>1, <3>6, <3>7, Zenon DEF JoinedSoFar
    <3> QED
      BY <1>2, <3>8, <3>9 DEF X
  <2> QED
    BY <2>3, <2>4
<1>5. out # <<>> => pc \in Text \cup Ended
  BY DEF WorkInv, ShownInv, FlagsInv, Silent, Text, Ended, Reporting
<1>6. pc \in Ended => EndedWell
  BY DEF ShownInv
<1>7. out # <<>> => IsPrefix(out, Report)
  <2>1. pc \in Ended /\ out # <<>> => IsPrefix(out, Report)
    <3> SUFFICES ASSUME pc \in Ended, out # <<>> PROVE IsPrefix(out, Report)
      OBVIOUS
    <3>1. CASE error = NoError
      BY <1>3, <1>6, <3>1, Zenon DEF EndedWell
    <3>2. CASE error # NoError
      BY <1>2, <1>6, <3>2 DEF EndedWell, Cut
    <3> QED
      BY <3>1, <3>2
  <2> QED
    BY <1>4, <1>5, <2>1
<1>8. ASSUME Cut PROVE out # Report
  <2>1. PICK rest \in Seq(Items) : rest # <<>> /\ Report = out \o rest
    BY <1>8 DEF Cut
  <2> DEFINE r == Report
  <2> HIDE DEF r
  <2>2. Len(out \o rest) = Len(out) + Len(rest) /\ Len(rest) \in Nat /\ Len(out) \in Nat /\ Len(rest) # 0
    BY <1>1, <2>1, ConcatProperties, LenProperties, EmptySeq
  <2>3. out # out \o rest
    BY <2>2
  <2> QED
    BY <2>1, <2>3, Zenon
<1>9. pc = "exited" => (error = NoError) = (out # <<>> /\ out = Report)
  <2> SUFFICES ASSUME pc = "exited" PROVE (error = NoError) = (out # <<>> /\ out = Report)
    OBVIOUS
  <2>1. EndedWell
    BY <1>6 DEF Ended
  <2>2. error = NoError <=> out # <<>> /\ out = Report
    BY <1>8, <2>1, Zenon DEF EndedWell
  <2> DEFINE S == error = NoError
             T == out # <<>> /\ out = Report
  <2>3. (S <=> T) /\ S \in BOOLEAN /\ T \in BOOLEAN
    BY <2>2
  <2> HIDE DEF S, T
  <2>4. S = T
    BY <2>3
  <2> QED
    BY <2>4 DEF S, T
<1> DEFINE plain == [c EXCEPT !.single = FALSE, !.fns = <<>>, !.top = 0, !.color = "auto", !.cpuProf = FALSE, !.memProf = FALSE]
           bare == [version |-> FALSE, top |-> 0, sortBy |-> "size", states |-> <<>>, single |-> FALSE, fns |-> <<>>,
            filters |-> <<>>, maskSP |-> FALSE, json |-> FALSE, sideBy |-> FALSE, blocks |-> FALSE,
            all |-> FALSE, color |-> "auto", cpuProf |-> FALSE, memProf |-> FALSE]
<1>10. out # <<>> /\ c.single /\ ~c.version => plain = bare
  <2> SUFFICES ASSUME out # <<>>, c.single, ~c.version PROVE plain = bare
    OBVIOUS
  <2>1. ~Rejected
    <3>1. pc \in Text => ~Rejected
      BY DEF FlagsInv, Text, Ended
    <3>2. pc \in Ended => ~Rejected
      BY <1>6 DEF EndedWell
    <3> QED
      BY <1>5, <3>1, <3>2
  <2>2. ~ComparisonFlags
    BY <2>1 DEF Rejected
  <2>3. c \in Flags
    BY DEF FlagsInv
  <2>4. /\ c.filters = <<>> /\ c.sortBy = "size" /\ c.states = <<>> /\ c.maskSP = FALSE
        /\ c.json = FALSE /\ c.sideBy = FALSE /\ c.blocks = FALSE /\ c.all = FALSE /\ c.version = FALSE
    BY <2>2, <2>3 DEF ComparisonFlags, Flags
  <2> DEFINE same == [version |-> c.version, top |-> c.top, sortBy |-> c.sortBy, states |-> c.states, single |-> c.single,
                      fns |-> c.fns, filters |-> c.filters, maskSP |-> c.maskSP, json |-> c.json, sideBy |-> c.sideBy,
                      blocks |-> c.blocks, all |-> c.all, color |-> c.color, cpuProf |-> c.cpuProf, memProf |-> c.memProf]
  <2>5. c = same
    BY <2>3 DEF Flags
  <2> DEFINE no == FALSE
             none == <<>>
  <2>6. same = [version |-> FALSE, top |-> c.top, sortBy |-> "size", states |-> <<>>, single |-> c.single, fns |-> c.fns,
                filters |-> <<>>, maskSP |-> FALSE, json |-> FALSE, sideBy |-> FALSE, blocks |-> FALSE,
                all |-> FALSE, color |-> c.color, cpuProf |-> c.cpuProf, memProf |-> c.memProf]
    BY <2>4, Zenon
  <2> HIDE DEF same
  <2>7. PlainBut(c, FALSE, <<>>)
    BY <2>5, <2>6, Zenon DEF PlainBut
  <2>8. Without(c, FALSE, <<>>) = Plain(FALSE, <<>>)
    BY <2>7, OnlyThese
  <2> QED
    BY <2>8, Zenon DEF Without, Plain
<1> QED
  BY <1>7, <1>9, <1>10, Zenon DEF ReportsAreWhole
-----------------------------------------------------------------------------
(* The first of a sorted set: those left out come after every one of them. *)
TopOf(S, R, cap, t) ==
  /\ t \in Seq(S) /\ Len(t) = Least(cap, Cardinality(S)) /\ Len(t) \in Nat
  /\ \A j, k \in 1..Len(t) : t[j] = t[k] => j = k
  /\ \A x \in S : (\E k \in 1..Len(t) : t[k] = x) \/ (Len(t) = cap /\ \A k \in 1..Len(t) : <<t[k], x>> \in R)

LEMMA CappedIs ==
  ASSUME NEW S, IsFiniteSet(S), NEW R, StrictOrder(S, R), NEW cap \in Nat
  PROVE  TopOf(S, R, cap, Capped(Sorted(S, R), cap))
<1> DEFINE n == Cardinality(S)
           s == Sorted(S, R)
           t == Capped(s, cap)
<1>1. n \in Nat /\ InOrder(S, R, s)
  BY SortedFacts
<1> HIDE DEF n, s
<1>2. /\ s \in [1..n -> S]
      /\ \A j, k \in 1..n : s[j] = s[k] => j = k
      /\ \A x \in S : \E k \in 1..n : s[k] = x
      /\ \A j, k \in 1..n : j < k => <<s[j], s[k]>> \in R
  BY <1>1 DEF InOrder, n
<1>3. s \in Seq(S) /\ Len(s) = n
  <2>1. DOMAIN s = 1..n /\ (\A k \in 1..n : s[k] \in S) /\ s = [k \in 1..n |-> s[k]]
    BY <1>2
  <2> QED
    BY <1>1, <2>1, LenOf
<1>4. CASE n <= cap
  <2>1. t = s /\ Least(cap, n) = n
    BY <1>1, <1>3, <1>4 DEF Capped, Least
  <2> HIDE DEF t
  <2>2. TopOf(S, R, cap, t)
    BY <1>1, <1>2, <1>3, <2>1 DEF TopOf, n
  <2> QED
    BY <2>2 DEF t, s
<1>5. CASE ~(n <= cap)
  <2>1. t = SubSeq(s, 1, cap) /\ Least(cap, n) = cap /\ cap \in 0..n /\ cap < n
    BY <1>1, <1>3, <1>5 DEF Capped, Least
  <2>2. \A k \in 1..cap : k \in 1..n
    BY <1>1, <2>1
  <2> HIDE DEF t
  <2>3. t = [k \in 1..cap |-> s[k]]
    BY <1>3, <2>1
  <2>4. t \in Seq(S) /\ Len(t) = cap
    <3>1. DOMAIN t = 1..cap /\ (\A k \in 1..cap : t[k] \in S) /\ t = [k \in 1..cap |-> t[k]]
      BY <1>2, <2>2, <2>3
    <3> QED
      BY <3>1, LenOf
  <2>5. \A j, k \in 1..cap : t[j] = t[k] => j = k
    BY <1>2, <2>2, <2>3
  <2>6. ASSUME NEW x \in S PROVE (\E k \in 1..cap : t[k] = x) \/ \A k \in 1..cap : <<t[k], x>> \in R
    <3>1. PICK l \in 1..n : s[l] = x
      BY <1>2
    <3>2. CASE l <= cap
      BY <2>3, <3>1, <3>2
    <3>3. CASE ~(l <= cap)
      <4>1. \A k \in 1..cap : k < l /\ k \in 1..n
        BY <2>2, <3>3
      <4> QED
        BY <1>2, <2>3, <3>1, <4>1
    <3> QED
      BY <3>2, <3>3
  <2>7. TopOf(S, R, cap, t)
    BY <2>1, <2>4, <2>5, <2>6 DEF TopOf, n
  <2> QED
    BY <2>7 DEF t, s
<1> QED
  BY <1>1, <1>4, <1>5

(* The packages, by falling size.                                          *)
PkgsOf(fs) == {fs[k].pkg : k \in DOMAIN fs}
Heavier(fs) == {e \in RollUp(fs) \X RollUp(fs) :
                  e[1].size > e[2].size \/ (e[1].size = e[2].size /\ e[1].pkg < e[2].pkg)}
RowOf(fs, p) == [pkg |-> p, funcs |-> Cardinality({k \in DOMAIN fs : fs[k].pkg = p}),
                 size |-> Share(fs, p, "size"), insts |-> Share(fs, p, "insts")]

LEMMA SymbolsAre ==
  ASSUME NEW fs \in Seq(Symbol)
  PROVE  /\ Len(fs) \in Nat /\ DOMAIN fs = 1..Len(fs)
         /\ \A k \in 1..Len(fs) : /\ fs[k].pkg \in Nat /\ fs[k].name \in Name
                                  /\ fs[k]["size"] \in Nat /\ fs[k]["insts"] \in Nat
<1>1. Len(fs) \in Nat /\ DOMAIN fs = 1..Len(fs) /\ \A k \in 1..Len(fs) : fs[k] \in Symbol
  BY LenProperties, ElementOfSeq
<1> QED
  BY <1>1 DEF Symbol

(* A field of the functions, as a list.                                    *)
Field(fs, field) == [k \in 1..Len(fs) |-> fs[k][field]]
PkgList(fs) == [k \in 1..Len(fs) |-> fs[k].pkg]

LEMMA SharesAre ==
  ASSUME NEW fs \in Seq(Symbol), NEW field \in {"size", "insts"}
  PROVE  /\ Field(fs, field) \in [1..Len(fs) -> Int]
         /\ Total(fs, field) = SumOf(Field(fs, field))
         /\ \A p : /\ Share(fs, p, field) = Shared(PkgList(fs), Field(fs, field), Len(fs), p)
                   /\ Share(fs, p, field) \in Int
<1> DEFINE n == Len(fs)
           v == Field(fs, field)
           g == PkgList(fs)
<1>1. n \in Nat /\ DOMAIN fs = 1..n /\ \A k \in 1..n : fs[k][field] \in Int
  BY SymbolsAre
<1>2. v \in [1..n -> Int] /\ (\A k \in 1..n : v[k] = fs[k][field] /\ g[k] = fs[k].pkg) /\ v = [k \in 1..n |-> fs[k][field]]
  BY <1>1 DEF Field, PkgList
<1>3. Total(fs, field) = SumOf(v)
  BY <1>1, <1>2 DEF Total
<1> HIDE DEF n, v, g
<1>4. ASSUME NEW p PROVE Share(fs, p, field) = Shared(g, v, n, p) /\ Share(fs, p, field) \in Int
  <2> DEFINE s == [k \in DOMAIN fs |-> IF fs[k].pkg = p THEN fs[k][field] ELSE 0]
             t == [k \in 1..n |-> IF g[k] = p THEN v[k] ELSE 0]
  <2>1. s = t
    BY <1>1, <1>2
  <2>2. t \in [1..n -> Int]
    BY <1>2
  <2>3. Share(fs, p, field) = SumOf(s) /\ Shared(g, v, n, p) = SumOf(t)
    BY Zenon DEF Share, Shared
  <2> HIDE DEF s, t
  <2>4. SumOf(t) \in Int
    BY <1>1, <2>2, SumType
  <2> QED
    BY <2>1, <2>3, <2>4
<1> QED
  BY <1>2, <1>3, <1>4 DEF n, v, g

LEMMA RollUpIs ==
  ASSUME NEW fs \in Seq(Symbol)
  PROVE  /\ IsFiniteSet(RollUp(fs)) /\ StrictOrder(RollUp(fs), Heavier(fs))
         /\ \A p \in PkgsOf(fs) : RowOf(fs, p) \in RollUp(fs)
         /\ \A x \in RollUp(fs) : x.pkg \in PkgsOf(fs) /\ x = RowOf(fs, x.pkg) /\ x.size = Share(fs, x.pkg, "size")
<1> DEFINE n == Len(fs)
           S == RollUp(fs)
           P == PkgsOf(fs)
<1>1. n \in Nat /\ DOMAIN fs = 1..n /\ \A k \in 1..n : fs[k].pkg \in Nat
  BY SymbolsAre
<1>2. S = {RowOf(fs, p) : p \in P}
  BY DEF RollUp, RowOf, PkgsOf
<1> HIDE DEF n, S
<1>3. \A p : RowOf(fs, p).pkg = p /\ RowOf(fs, p).size = Share(fs, p, "size")
  BY DEF RowOf
<1>4. \A x \in S : x.pkg \in P /\ x = RowOf(fs, x.pkg) /\ x.size = Share(fs, x.pkg, "size") /\ x.size \in Int
  <2> SUFFICES ASSUME NEW p \in P
               PROVE  LET x == RowOf(fs, p)
                      IN  x.pkg \in P /\ x = RowOf(fs, x.pkg) /\ x.size = Share(fs, x.pkg, "size") /\ x.size \in Int
    BY <1>2
  <2>1. Share(fs, p, "size") \in Int
    BY SharesAre
  <2> QED
    BY <1>3, <2>1
<1>5. P \in SUBSET Nat
  BY <1>1 DEF PkgsOf
<1>6. IsFiniteSet(S)
  <2> DEFINE f == [k \in 1..n |-> RowOf(fs, fs[k].pkg)]
  <2>1. f \in [1..n -> S] /\ \A y \in S : \E k \in 1..n : f[k] = y
    BY <1>1, <1>2 DEF PkgsOf
  <2>2. IsFiniteSet(1..n)
    BY <1>1, FS_Interval
  <2> HIDE DEF f
  <2> QED
    BY <2>1, <2>2, FiniteImage
<1>7. \A x, y \in S : <<x, y>> \in Heavier(fs) <=> x.size > y.size \/ (x.size = y.size /\ x.pkg < y.pkg)
  <2> SUFFICES ASSUME NEW x \in S, NEW y \in S
               PROVE  <<x, y>> \in Heavier(fs) <=> x.size > y.size \/ (x.size = y.size /\ x.pkg < y.pkg)
    OBVIOUS
  <2> DEFINE e == <<x, y>>
  <2>1. e \in S \X S /\ e[1] = x /\ e[2] = y
    OBVIOUS
  <2> HIDE DEF e
  <2>2. e \in Heavier(fs) <=> e[1].size > e[2].size \/ (e[1].size = e[2].size /\ e[1].pkg < e[2].pkg)
    BY <2>1 DEF Heavier, S
  <2>3. e \in Heavier(fs) <=> x.size > y.size \/ (x.size = y.size /\ x.pkg < y.pkg)
    BY <2>1, <2>2
  <2> QED
    BY <2>3 DEF e
<1>8. StrictOrder(S, Heavier(fs))
  <2>1. \A x \in S : x.size \in Int /\ x.pkg \in Nat
    BY <1>4, <1>5
  <2>2. \A x \in S : <<x, x>> \notin Heavier(fs)
    BY <1>7, <2>1
  <2>3. ASSUME NEW x \in S, NEW y \in S, NEW z \in S, <<x, y>> \in Heavier(fs), <<y, z>> \in Heavier(fs)
        PROVE  <<x, z>> \in Heavier(fs)
    BY <1>7, <2>1, <2>3
  <2>4. ASSUME NEW x \in S, NEW y \in S, x # y PROVE <<x, y>> \in Heavier(fs) \/ <<y, x>> \in Heavier(fs)
    <3>1. x.pkg # y.pkg
      BY <1>4, <2>4
    <3> QED
      BY <1>7, <2>1, <3>1
  <2> QED
    BY <2>2, <2>3, <2>4, Zenon DEF StrictOrder
<1> QED
  BY <1>2, <1>4, <1>6, <1>8 DEF S

(* The packages listed: the heaviest, each once.                           *)
Listed(fs, t) ==
  /\ Len(t) \in Nat /\ DOMAIN t = 1..Len(t)
  /\ \A k \in 1..Len(t) : t[k].pkg \in PkgsOf(fs) /\ t[k] = RowOf(fs, t[k].pkg)
  /\ \A j, k \in 1..Len(t) : t[j].pkg = t[k].pkg => j = k
  /\ \A p \in PkgsOf(fs) : \/ \E k \in 1..Len(t) : t[k].pkg = p
                           \/ Len(t) = pkgRollupCap /\ \A k \in 1..Len(t) : Share(fs, p, "size") <= t[k].size

LEMMA PackagesAre ==
  ASSUME NEW fs \in Seq(Symbol)
  PROVE  Listed(fs, Packages(fs))
<1> DEFINE S == RollUp(fs)
           R == Heavier(fs)
           t == Packages(fs)
           cap == pkgRollupCap
<1>1. cap \in Nat
  BY CommandAssumption
<1>2. t = Capped(Sorted(S, R), cap)
  BY DEF Packages, Heavier
<1>3. /\ IsFiniteSet(S) /\ StrictOrder(S, R)
      /\ \A p \in PkgsOf(fs) : RowOf(fs, p) \in S
      /\ \A x \in S : x.pkg \in PkgsOf(fs) /\ x = RowOf(fs, x.pkg) /\ x.size = Share(fs, x.pkg, "size")
  BY RollUpIs
<1>4. \A x, y \in S : <<x, y>> \in R => x.size > y.size \/ x.size = y.size
  BY DEF Heavier
<1>5. \A p : RowOf(fs, p).pkg = p /\ RowOf(fs, p).size = Share(fs, p, "size") /\ Share(fs, p, "size") \in Int
  BY SharesAre DEF RowOf
<1> HIDE DEF S, R, t, cap
<1>6. TopOf(S, R, cap, t)
  BY <1>1, <1>2, <1>3, CappedIs
<1>7. /\ t \in Seq(S) /\ Len(t) \in Nat
      /\ (\A j, k \in 1..Len(t) : t[j] = t[k] => j = k)
      /\ \A x \in S : (\E k \in 1..Len(t) : t[k] = x) \/ (Len(t) = cap /\ \A k \in 1..Len(t) : <<t[k], x>> \in R)
  BY <1>6 DEF TopOf
<1>8. DOMAIN t = 1..Len(t) /\ \A k \in 1..Len(t) : t[k] \in S
  BY <1>7, LenProperties, ElementOfSeq
<1>9. \A k \in 1..Len(t) : t[k].pkg \in PkgsOf(fs) /\ t[k] = RowOf(fs, t[k].pkg)
  BY <1>3, <1>8
<1>10. \A j, k \in 1..Len(t) : t[j].pkg = t[k].pkg => j = k
  BY <1>7, <1>9
<1>11. ASSUME NEW p \in PkgsOf(fs)
       PROVE  \/ \E k \in 1..Len(t) : t[k].pkg = p
              \/ Len(t) = cap /\ \A k \in 1..Len(t) : Share(fs, p, "size") <= t[k].size
  <2> DEFINE x == RowOf(fs, p)
  <2>1. x \in S /\ x.pkg = p /\ x.size = Share(fs, p, "size")
    BY <1>3, <1>5
  <2> HIDE DEF x
  <2>2. CASE \E k \in 1..Len(t) : t[k] = x
    BY <2>1, <2>2
  <2>3. CASE Len(t) = cap /\ \A k \in 1..Len(t) : <<t[k], x>> \in R
    <3>1. ASSUME NEW k \in 1..Len(t) PROVE x.size <= t[k].size
      <4>1. t[k].size \in Int /\ x.size \in Int
        BY <1>5, <1>9, <2>1
      <4>2. t[k].size > x.size \/ t[k].size = x.size
        BY <1>4, <1>8, <2>1, <2>3
      <4> QED
        BY <4>1, <4>2
    <3> QED
      BY <2>1, <2>3, <3>1
  <2> QED
    BY <1>7, <2>1, <2>2, <2>3
<1> QED
  BY <1>7, <1>8, <1>9, <1>10, <1>11 DEF Listed, t, cap
(* What the packages listed have, and the rest, is what the functions have.*)
Columns(P) == [k \in 1..Len(P) |-> P[k].pkg]
OthersOf(fs, P) == {k \in DOMAIN fs : fs[k].pkg \notin {P[j].pkg : j \in DOMAIN P}}

LEMMA OthersAre ==
  ASSUME NEW fs \in Seq(Symbol), NEW P, Listed(fs, P)
  PROVE  /\ \A i, j \in 1..Len(P) : Columns(P)[i] = Columns(P)[j] => i = j
         /\ OthersOf(fs, P) \in SUBSET (1..Len(fs))
         /\ \A k \in 1..Len(fs) : k \in OthersOf(fs, P) <=> ~\E j \in 1..Len(P) : Columns(P)[j] = PkgList(fs)[k]
<1>1. DOMAIN P = 1..Len(P) /\ \A j, k \in 1..Len(P) : P[j].pkg = P[k].pkg => j = k
  BY DEF Listed
<1>2. DOMAIN fs = 1..Len(fs)
  BY SymbolsAre
<1>3. (\A j \in 1..Len(P) : Columns(P)[j] = P[j].pkg) /\ \A k \in 1..Len(fs) : PkgList(fs)[k] = fs[k].pkg
  BY DEF Columns, PkgList
<1> QED
  BY <1>1, <1>2, <1>3 DEF OthersOf

LEMMA ListedAddUp ==
  ASSUME NEW fs \in Seq(Symbol), NEW P, Listed(fs, P), NEW v \in [1..Len(fs) -> Int], NEW field,
         \A j \in 1..Len(P) : P[j][field] = Shared(PkgList(fs), v, Len(fs), P[j].pkg)
  PROVE  Total(P, field) + SumOf([k \in 1..Len(fs) |-> IF k \in OthersOf(fs, P) THEN v[k] ELSE 0]) = SumOf(v)
<1> DEFINE n == Len(fs)
           m == Len(P)
           g == PkgList(fs)
           q == Columns(P)
           x == [j \in 1..m |-> Shared(g, v, n, q[j])]
           u == [k \in 1..n |-> IF k \in OthersOf(fs, P) THEN v[k] ELSE 0]
           w == [k \in 1..n |-> IF \E j \in 1..m : q[j] = g[k] THEN 0 ELSE v[k]]
<1>1. n \in Nat /\ m \in Nat /\ DOMAIN P = 1..m
  BY SymbolsAre DEF Listed
<1>2. \A i, j \in 1..m : q[i] = q[j] => i = j
  BY OthersAre, Zenon
<1>3. \A k \in 1..n : k \in OthersOf(fs, P) <=> ~\E j \in 1..m : q[j] = g[k]
  BY OthersAre, Zenon
<1>4. \A j \in 1..m : q[j] = P[j].pkg
  BY DEF Columns
<1>5. Total(P, field) = SumOf(x)
  <2>1. [j \in DOMAIN P |-> P[j][field]] = x
    <3>1. \A j \in 1..m : P[j][field] = x[j]
      BY <1>4
    <3> HIDE DEF x
    <3>2. x = [j \in 1..m |-> x[j]]
      BY DEF x
    <3> QED
      BY <1>1, <3>1, <3>2
  <2> HIDE DEF x
  <2> QED
    BY <2>1, Zenon DEF Total
<1>6. u = w
  BY <1>3, Zenon
<1>7. SumOf(x) + Unlisted(g, v, n, q, m) = SumOf(v)
  <2> HIDE DEF n, m, g, q
  <2>1. v \in [1..n -> Int]
    BY DEF n
  <2>2. SumOf([j \in 1..m |-> Shared(g, v, n, q[j])]) + Unlisted(g, v, n, q, m) = SumOf(v)
    <3>1. EachOnce(q, m)
      BY <1>2 DEF EachOnce
    <3>2. SharesMake(g, v, n, q, m)
      BY <1>1, <2>1, <3>1, SharesAddUp
    <3> QED
      BY <3>2, Zenon DEF SharesMake
  <2> QED
    BY <2>2
<1>8. Unlisted(g, v, n, q, m) = SumOf(w)
  BY Zenon DEF Unlisted
<1> HIDE DEF n, m, g, q, x, u, w
<1>9. Total(P, field) + SumOf(u) = SumOf(v)
  BY <1>5, <1>6, <1>7, <1>8
<1> QED
  BY <1>9 DEF u, n

LEMMA FieldsAddUp ==
  ASSUME NEW fs \in Seq(Symbol), NEW P, Listed(fs, P), NEW field \in {"size", "insts"}
  PROVE  Total(P, field) + SumOf([k \in DOMAIN fs |-> IF k \in OthersOf(fs, P) THEN fs[k][field] ELSE 0]) = Total(fs, field)
<1> DEFINE n == Len(fs)
           v == Field(fs, field)
<1>1. /\ v \in [1..n -> Int] /\ Total(fs, field) = SumOf(v)
      /\ \A p : Share(fs, p, field) = Shared(PkgList(fs), v, n, p)
  BY SharesAre
<1>2. ASSUME NEW j \in 1..Len(P) PROVE P[j][field] = Shared(PkgList(fs), v, n, P[j].pkg)
  <2> DEFINE p == P[j].pkg
  <2>1. P[j] = RowOf(fs, p)
    BY DEF Listed
  <2> HIDE DEF p, v, n
  <2>2. RowOf(fs, p)[field] = Share(fs, p, field)
    BY DEF RowOf
  <2> QED
    BY <1>1, <2>1, <2>2 DEF p
<1>3. DOMAIN fs = 1..n /\ \A k \in 1..n : v[k] = fs[k][field]
  BY SymbolsAre DEF Field
<1>4. [k \in DOMAIN fs |-> IF k \in OthersOf(fs, P) THEN fs[k][field] ELSE 0]
        = [k \in 1..n |-> IF k \in OthersOf(fs, P) THEN v[k] ELSE 0]
  <2> HIDE DEF v, n
  <2> QED
    BY <1>3
<1>5. Total(P, field) + SumOf([k \in 1..n |-> IF k \in OthersOf(fs, P) THEN v[k] ELSE 0]) = SumOf(v)
  <2> HIDE DEF v
  <2> QED
    BY <1>1, <1>2, ListedAddUp
<1> QED
  BY <1>1, <1>4, <1>5

LEMMA CountsAddUp ==
  ASSUME NEW fs \in Seq(Symbol), NEW P, Listed(fs, P)
  PROVE  Total(P, "funcs") + Cardinality(OthersOf(fs, P)) = Len(fs)
<1> DEFINE n == Len(fs)
           g == PkgList(fs)
           O == OthersOf(fs, P)
           v == [k \in 1..n |-> 1]
<1>1. n \in Nat /\ DOMAIN fs = 1..n /\ (\A k \in 1..n : g[k] = fs[k].pkg) /\ O \in SUBSET (1..n)
  BY SymbolsAre, OthersAre DEF PkgList
<1> HIDE DEF n, g, O
<1>2. v \in [1..n -> Int] /\ \A k \in 1..n : v[k] = 1
  OBVIOUS
<1>3. ASSUME NEW p PROVE Shared(g, v, n, p) = Cardinality({k \in DOMAIN fs : fs[k].pkg = p})
  <2> DEFINE S == {k \in DOMAIN fs : fs[k].pkg = p}
  <2>1. S \in SUBSET (1..n) /\ \A k \in 1..n : k \in S <=> g[k] = p
    BY <1>1
  <2>2. [k \in 1..n |-> IF g[k] = p THEN v[k] ELSE 0] = [k \in 1..n |-> IF k \in S THEN 1 ELSE 0]
    <3> HIDE DEF S, v
    <3> QED
      BY <1>2, <2>1
  <2> HIDE DEF S, v
  <2>3. SumOf([k \in 1..n |-> IF k \in S THEN 1 ELSE 0]) = Cardinality(S)
    BY <1>1, <2>1, SumCount
  <2> QED
    BY <2>2, <2>3 DEF Shared, S
<1>4. ASSUME NEW j \in 1..Len(P) PROVE P[j]["funcs"] = Shared(g, v, n, P[j].pkg)
  <2> DEFINE p == P[j].pkg
  <2>1. P[j] = RowOf(fs, p)
    BY DEF Listed
  <2> HIDE DEF p, v
  <2>2. RowOf(fs, p)["funcs"] = Cardinality({k \in DOMAIN fs : fs[k].pkg = p})
    BY DEF RowOf
  <2> QED
    BY <1>3, <2>1, <2>2 DEF p
<1>5. Total(P, "funcs") + SumOf([k \in 1..n |-> IF k \in O THEN v[k] ELSE 0]) = SumOf(v)
  <2> HIDE DEF v
  <2> QED
    BY <1>2, <1>4, ListedAddUp DEF n, g, O
<1>6. SumOf([k \in 1..n |-> IF k \in O THEN v[k] ELSE 0]) = Cardinality(O)
  <2>1. [k \in 1..n |-> IF k \in O THEN v[k] ELSE 0] = [k \in 1..n |-> IF k \in O THEN 1 ELSE 0]
    BY <1>2
  <2>2. SumOf([k \in 1..n |-> IF k \in O THEN 1 ELSE 0]) = Cardinality(O)
    BY <1>1, SumCount
  <2> QED
    BY <2>1, <2>2
<1>7. SumOf(v) = n
  <2> DEFINE S == 1..n
  <2>1. v = [k \in 1..n |-> IF k \in S THEN 1 ELSE 0] /\ S \in SUBSET (1..n)
    OBVIOUS
  <2>2. Cardinality(S) = n
    BY <1>1, FS_Interval
  <2> HIDE DEF S, v
  <2>3. SumOf([k \in 1..n |-> IF k \in S THEN 1 ELSE 0]) = Cardinality(S)
    BY <1>1, <2>1, SumCount
  <2> QED
    BY <2>1, <2>2, <2>3
<1> HIDE DEF v
<1> QED
  BY <1>5, <1>6, <1>7 DEF n, O
(* The largest functions.                                                  *)
Outweighs(f, g) == f.size > g.size \/ (f.size = g.size /\ Before(f.name, g.name))
Outweighing(fs) == {e \in (DOMAIN fs) \X DOMAIN fs : Outweighs(fs[e[1]], fs[e[2]])}

LEMMA LargerOrders ==
  ASSUME NEW fs \in Seq(Symbol), NamedOnce(fs)
  PROVE  IsFiniteSet(DOMAIN fs) /\ Cardinality(DOMAIN fs) = Len(fs) /\ StrictOrder(DOMAIN fs, Outweighing(fs))
<1> DEFINE n == Len(fs)
           S == DOMAIN fs
           R == Outweighing(fs)
<1>1. n \in Nat /\ S = 1..n /\ \A k \in S : fs[k].name \in Seq(Nat) /\ fs[k].size \in Nat
  <2>1. n \in Nat /\ S = 1..n /\ \A k \in 1..n : fs[k].name \in Name /\ fs[k]["size"] \in Nat
    BY SymbolsAre
  <2> QED
    BY <2>1 DEF Name
<1>2. \A x, y \in S : <<x, y>> \in R <=> Outweighs(fs[x], fs[y])
  <2> SUFFICES ASSUME NEW x \in S, NEW y \in S PROVE <<x, y>> \in R <=> Outweighs(fs[x], fs[y])
    OBVIOUS
  <2> DEFINE e == <<x, y>>
  <2>1. e \in S \X S /\ e[1] = x /\ e[2] = y
    OBVIOUS
  <2> HIDE DEF e
  <2>2. e \in R <=> Outweighs(fs[e[1]], fs[e[2]])
    BY <2>1 DEF Outweighing
  <2>3. e \in R <=> Outweighs(fs[x], fs[y])
    BY <2>1, <2>2
  <2> QED
    BY <2>3 DEF e
<1>3. \A x, y \in S : x # y => fs[x].name # fs[y].name
  BY DEF NamedOnce
<1>4. IsFiniteSet(S) /\ Cardinality(S) = n
  BY <1>1, FS_Interval
<1> HIDE DEF n, S, R
<1>5. \A x \in S : <<x, x>> \notin R
  <2> SUFFICES ASSUME NEW x \in S, Outweighs(fs[x], fs[x]) PROVE FALSE
    BY <1>2
  <2>1. ~Before(fs[x].name, fs[x].name)
    BY <1>1, BeforeIsStrict
  <2> QED
    BY <1>1, <2>1 DEF Outweighs
<1>6. ASSUME NEW x \in S, NEW y \in S, NEW z \in S, <<x, y>> \in R, <<y, z>> \in R PROVE <<x, z>> \in R
  <2>1. Outweighs(fs[x], fs[y]) /\ Outweighs(fs[y], fs[z])
    BY <1>2, <1>6
  <2>2. Before(fs[x].name, fs[y].name) /\ Before(fs[y].name, fs[z].name) => Before(fs[x].name, fs[z].name)
    BY <1>1, BeforeIsTransitive
  <2>3. fs[x].size \in Nat /\ fs[y].size \in Nat /\ fs[z].size \in Nat
    BY <1>1
  <2>4. Outweighs(fs[x], fs[z])
    BY <2>1, <2>2, <2>3 DEF Outweighs
  <2> QED
    BY <1>2, <2>4
<1>7. ASSUME NEW x \in S, NEW y \in S, x # y PROVE <<x, y>> \in R \/ <<y, x>> \in R
  <2>1. Before(fs[x].name, fs[y].name) \/ Before(fs[y].name, fs[x].name)
    BY <1>1, <1>3, <1>7, BeforeIsTotal
  <2>2. fs[x].size \in Nat /\ fs[y].size \in Nat
    BY <1>1
  <2>3. Outweighs(fs[x], fs[y]) \/ Outweighs(fs[y], fs[x])
    BY <2>1, <2>2 DEF Outweighs
  <2> QED
    BY <1>2, <2>3
<1> QED
  BY <1>4, <1>5, <1>6, <1>7, Zenon DEF StrictOrder, n, S, R

LargestOf(fs, top, t) ==
  /\ Len(t) = Least(top, Len(fs))
  /\ \A f \in Range(fs) \ Range(t), g \in Range(t) : f.size <= g.size

LEMMA LargestAre ==
  ASSUME NEW fs \in Seq(Symbol), NamedOnce(fs), NEW top \in Nat
  PROVE  LargestOf(fs, top, Largest(fs, top))
<1> DEFINE n == Len(fs)
           S == DOMAIN fs
           R == Outweighing(fs)
           s == Sorted(S, R)
           t == Capped(s, top)
           r == [k \in DOMAIN s |-> fs[s[k]]]
           L == Capped(r, top)
<1>1. n \in Nat /\ S = 1..n /\ \A k \in S : fs[k].size \in Nat
  <2>1. n \in Nat /\ S = 1..n /\ \A k \in 1..n : fs[k]["size"] \in Nat
    BY SymbolsAre
  <2> QED
    BY <2>1
<1>2. IsFiniteSet(S) /\ Cardinality(S) = n /\ StrictOrder(S, R)
  BY LargerOrders
<1>3. Largest(fs, top) = L
  BY DEF Largest, Outweighing, Outweighs
<1>4. \A e \in R : e \in S \X S /\ Outweighs(fs[e[1]], fs[e[2]])
  BY DEF Outweighing
<1>5. \A x \in Range(fs) : \E k \in S : fs[k] = x
  BY DEF Range
<1> HIDE DEF S, R, s, r, n
<1>6. TopOf(S, R, top, t)
  BY <1>2, CappedIs DEF s
<1> HIDE DEF t
<1>7. /\ t \in Seq(S) /\ Len(t) = Least(top, n) /\ Len(t) \in Nat
      /\ \A x \in S : (\E k \in 1..Len(t) : t[k] = x) \/ (Len(t) = top /\ \A k \in 1..Len(t) : <<t[k], x>> \in R)
  BY <1>2, <1>6 DEF TopOf
<1>8. s \in Seq(S) /\ Len(s) \in Nat /\ DOMAIN s = 1..Len(s) /\ s = [k \in 1..Len(s) |-> s[k]]
  <2>1. s \in [1..n -> S]
    BY <1>2, SortedFacts DEF InOrder, s
  <2>2. DOMAIN s = 1..n /\ (\A k \in 1..n : s[k] \in S) /\ s = [k \in 1..n |-> s[k]]
    BY <2>1
  <2>3. s \in Seq(S) /\ Len(s) = n
    BY <1>1, <2>2, LenOf
  <2> QED
    BY <1>1, <2>2, <2>3
<1>9. r \in Seq(Range(fs)) /\ Len(r) = Len(s) /\ DOMAIN r = 1..Len(s) /\ \A k \in 1..Len(s) : r[k] = fs[s[k]]
  <2>1. \A k \in 1..Len(s) : s[k] \in S
    BY <1>8, ElementOfSeq
  <2>2. \A k \in 1..Len(s) : r[k] = fs[s[k]] /\ r[k] \in Range(fs)
    BY <1>8, <2>1 DEF r, Range, S
  <2>3. DOMAIN r = 1..Len(s) /\ r = [k \in 1..Len(s) |-> r[k]]
    BY <1>8 DEF r
  <2>4. r \in Seq(Range(fs)) /\ Len(r) = Len(s)
    BY <1>8, <2>2, <2>3, LenOf
  <2> QED
    BY <2>2, <2>3, <2>4
<1>10. Len(L) = Len(t) /\ DOMAIN L = 1..Len(t) /\ \A k \in 1..Len(t) : L[k] = fs[t[k]]
  <2>1. CASE Len(s) > top
    <3>1. L = SubSeq(r, 1, top) /\ t = SubSeq(s, 1, top)
      BY <1>9, <2>1 DEF Capped, t
    <3>2. top \in 0..Len(s) /\ \A k \in 1..top : k \in 1..Len(s)
      BY <1>8, <2>1
    <3> HIDE DEF L
    <3>3. Len(L) = top /\ DOMAIN L = 1..top /\ (\A k \in 1..top : L[k] = r[k])
      BY <1>8, <1>9, <3>1, <3>2
    <3>4. Len(t) = top /\ (\A k \in 1..top : t[k] = s[k])
      BY <1>8, <3>1, <3>2
    <3> QED
      BY <1>9, <3>2, <3>3, <3>4
  <2>2. CASE ~(Len(s) > top)
    <3>1. L = r /\ t = s
      BY <1>9, <2>2 DEF Capped, t
    <3> HIDE DEF L
    <3> QED
      BY <1>8, <1>9, <3>1
  <2> QED
    BY <2>1, <2>2
<1> HIDE DEF L
<1>11. \A k \in 1..Len(t) : t[k] \in S
  BY <1>7, ElementOfSeq
<1>12. ASSUME NEW f \in Range(fs) \ Range(L), NEW g \in Range(L) PROVE f.size <= g.size
  <2>1. PICK x \in S : fs[x] = f
    BY <1>5
  <2>2. PICK k \in 1..Len(t) : g = fs[t[k]]
    BY <1>10 DEF Range
  <2>3. \A j \in 1..Len(t) : t[j] # x
    <3> SUFFICES ASSUME NEW j \in 1..Len(t), t[j] = x PROVE FALSE
      OBVIOUS
    <3>1. L[j] = f /\ j \in DOMAIN L
      BY <1>10, <2>1
    <3> QED
      BY <3>1 DEF Range
  <2>4. <<t[k], x>> \in R
    BY <1>7, <2>3
  <2>5. Outweighs(fs[t[k]], fs[x])
    <3> DEFINE e == <<t[k], x>>
    <3>1. e[1] = t[k] /\ e[2] = x /\ e \in R
      BY <2>4
    <3> HIDE DEF e
    <3>2. Outweighs(fs[e[1]], fs[e[2]])
      BY <1>4, <3>1
    <3> QED
      BY <3>1, <3>2
  <2>6. f.size \in Nat /\ g.size \in Nat
    BY <1>1, <1>11, <2>1, <2>2
  <2>7. g.size > f.size \/ g.size = f.size
    BY <2>1, <2>2, <2>5 DEF Outweighs
  <2> QED
    BY <2>6, <2>7
<1> QED
  BY <1>3, <1>7, <1>10, <1>12 DEF LargestOf, n

(* The tables account for the functions.                                   *)
Binary == [noLayout : BOOLEAN, table : {t \in Seq(Symbol) : ByAddress(t)}]
Accounts(b, tables, text, top) ==
  LET fs == Funcs(b.table)
      listed == {tables.packages[k].pkg : k \in DOMAIN tables.packages}
      rest == {k \in DOMAIN fs : fs[k].pkg \notin listed}
      Rest(field) == SumOf([k \in DOMAIN fs |-> IF k \in rest THEN fs[k][field] ELSE 0])
  IN  /\ Total(tables.packages, "size") + Rest("size") = text
      /\ Total(tables.packages, "insts") + Rest("insts") = tables.insts
      /\ Total(tables.packages, "funcs") + Cardinality(rest) = Len(fs)
      /\ rest # {} => Len(tables.packages) = pkgRollupCap
      /\ \A k \in rest, l \in DOMAIN tables.packages : Share(fs, fs[k].pkg, "size") <= tables.packages[l].size
      /\ Len(tables.largest) = Least(top, Len(fs))
      /\ \A f \in Range(fs) \ Range(tables.largest), g \in Range(tables.largest) : f.size <= g.size

LEMMA TablesAccount ==
  ASSUME NEW b \in Binary, NEW top \in Nat, NEW tables,
         tables = [insts |-> Total(Funcs(b.table), "insts"), packages |-> Packages(Funcs(b.table)),
                   largest |-> Largest(Funcs(b.table), top)]
  PROVE  Accounts(b, tables, TextBytes(b), top)
<1> DEFINE fs == Funcs(b.table)
           P == tables.packages
           L == tables.largest
           rest == OthersOf(fs, P)
<1>1. fs \in Seq(Symbol) /\ NamedOnce(fs)
  BY FuncsAre DEF Binary
<1>2. P = Packages(fs) /\ L = Largest(fs, top) /\ tables.insts = Total(fs, "insts") /\ TextBytes(b) = Total(fs, "size")
  BY DEF TextBytes
<1>3. rest = {k \in DOMAIN fs : fs[k].pkg \notin {P[l].pkg : l \in DOMAIN P}}
  BY DEF OthersOf
<1> SUFFICES
      /\ Total(P, "size") + SumOf([k \in DOMAIN fs |-> IF k \in rest THEN fs[k]["size"] ELSE 0]) = TextBytes(b)
      /\ Total(P, "insts") + SumOf([k \in DOMAIN fs |-> IF k \in rest THEN fs[k]["insts"] ELSE 0]) = tables.insts
      /\ Total(P, "funcs") + Cardinality(rest) = Len(fs)
      /\ rest # {} => Len(P) = pkgRollupCap
      /\ \A k \in rest, l \in DOMAIN P : Share(fs, fs[k].pkg, "size") <= P[l].size
      /\ Len(L) = Least(top, Len(fs))
      /\ \A f \in Range(fs) \ Range(L), g \in Range(L) : f.size <= g.size
  BY <1>3, Zenon DEF Accounts, OthersOf
<1> HIDE DEF fs, P, L, rest
<1>4. Listed(fs, P)
  BY <1>1, <1>2, PackagesAre
<1>5. Total(P, "size") + SumOf([k \in DOMAIN fs |-> IF k \in rest THEN fs[k]["size"] ELSE 0]) = TextBytes(b)
  BY <1>1, <1>2, <1>4, FieldsAddUp DEF rest
<1>6. Total(P, "insts") + SumOf([k \in DOMAIN fs |-> IF k \in rest THEN fs[k]["insts"] ELSE 0]) = tables.insts
  BY <1>1, <1>2, <1>4, FieldsAddUp DEF rest
<1>7. Total(P, "funcs") + Cardinality(rest) = Len(fs)
  BY <1>1, <1>4, CountsAddUp DEF rest
<1>8. ASSUME NEW k \in rest
      PROVE  Len(P) = pkgRollupCap /\ \A l \in DOMAIN P : Share(fs, fs[k].pkg, "size") <= P[l].size
  <2>1. k \in DOMAIN fs /\ fs[k].pkg \in PkgsOf(fs) /\ \A j \in DOMAIN P : P[j].pkg # fs[k].pkg
    BY <1>8 DEF rest, OthersOf, PkgsOf
  <2> QED
    BY <1>4, <2>1 DEF Listed
<1>9. Len(L) = Least(top, Len(fs)) /\ \A f \in Range(fs) \ Range(L), g \in Range(L) : f.size <= g.size
  BY <1>1, <1>2, LargestAre DEF LargestOf
<1> QED
  BY <1>5, <1>6, <1>7, <1>8, <1>9
-----------------------------------------------------------------------------
(* The padding sweep.  Functions begin at A, in rising order, and end at E.*)
(* Bare is what no function covers, Wide what lies in a run of more than   *)
(* smallGap bytes that no function divides.                                *)
Ranged(A, E, n) ==
  /\ n \in Nat \ {0} /\ A \in [1..n -> Nat] /\ E \in [1..n -> Nat]
  /\ \A k \in 1..n : A[k] <= E[k]
  /\ \A j, k \in 1..n : j <= k => A[j] <= A[k]
Bare(A, E, n) == {a \in Nat : A[1] <= a /\ a < A[n] /\ \A k \in 1..n : a < A[k] \/ E[k] <= a}
Window(A, E, n, p, g) == /\ \A b \in Nat : p <= b /\ b <= p + g => b \in Bare(A, E, n)
                         /\ \A k \in 1..n : A[k] <= p \/ p + g < A[k]
Wide(A, E, n, g) == {a \in Bare(A, E, n) : \E p \in Nat : p <= a /\ a <= p + g /\ Window(A, E, n, p, g)}
ReachIs(E, k, e) == (\E j \in 1..k : e = E[j]) /\ \A j \in 1..k : E[j] <= e
Between(S, x, y) == {a \in S : x <= a /\ a < y}

(* What lies bare before the next function is what is past the reach.      *)
LEMMA GapIs ==
  ASSUME NEW n, NEW A, NEW E, Ranged(A, E, n), NEW k \in 1..(n - 1), NEW e \in Nat, ReachIs(E, k, e)
  PROVE  /\ Between(Bare(A, E, n), A[k], A[k + 1]) = Between(Nat, e, A[k + 1])
         /\ \A j \in 1..k : A[j] <= e
         /\ \A j \in (k + 1)..n : A[k + 1] <= A[j]
<1>1. /\ n \in Nat \ {0} /\ (\A j \in 1..n : A[j] \in Nat /\ E[j] \in Nat /\ A[j] <= E[j])
      /\ \A i, j \in 1..n : i <= j => A[i] <= A[j]
  BY DEF Ranged
<1>2. k \in 1..n /\ k + 1 \in 1..n /\ 1 \in 1..n /\ n \in 1..n /\ 1 \in 1..k /\ k \in 1..k
  BY <1>1
<1>3. \A j \in 1..k : j \in 1..n /\ j <= k
  BY <1>1
<1>4. \A j \in 1..k : A[j] <= e /\ E[j] <= e
  BY <1>1, <1>3 DEF ReachIs
<1>5. \A j \in (k + 1)..n : j \in 1..n /\ A[k + 1] <= A[j]
  <2>1. \A j \in (k + 1)..n : j \in 1..n /\ k + 1 <= j
    BY <1>1
  <2> QED
    BY <1>1, <1>2, <2>1
<1>6. ASSUME NEW a \in Bare(A, E, n), A[k] <= a PROVE e <= a
  <2>1. PICK j \in 1..k : e = E[j]
    BY DEF ReachIs
  <2>2. a \in Nat /\ (a < A[j] \/ E[j] <= a)
    BY <1>3, <2>1 DEF Bare
  <2>3. A[j] <= A[k]
    BY <1>1, <1>2, <1>3
  <2> QED
    BY <1>1, <1>2, <1>3, <1>6, <2>1, <2>2, <2>3
<1>7. ASSUME NEW a \in Nat, e <= a, a < A[k + 1] PROVE a \in Bare(A, E, n) /\ A[k] <= a
  <2>1. A[1] <= a /\ A[k] <= a
    BY <1>1, <1>2, <1>4, <1>7
  <2>2. a < A[n]
    <3>1. A[k + 1] <= A[n]
      BY <1>1, <1>2
    <3> QED
      BY <1>1, <1>2, <1>7, <3>1
  <2>3. ASSUME NEW j \in 1..n PROVE a < A[j] \/ E[j] <= a
    <3>1. CASE j \in 1..k
      BY <1>1, <1>4, <1>7, <3>1
    <3>2. CASE j \in (k + 1)..n
      BY <1>1, <1>2, <1>5, <1>7, <3>2
    <3>3. j \in 1..k \/ j \in (k + 1)..n
      BY <1>1
    <3> QED
      BY <3>1, <3>2, <3>3
  <2> QED
    BY <2>1, <2>2, <2>3 DEF Bare
<1>8. Bare(A, E, n) \subseteq Nat
  BY DEF Bare
<1> QED
  BY <1>4, <1>5, <1>6, <1>7, <1>8 DEF Between

(* Of a gap, all or nothing is wide.                                       *)
LEMMA WideGap ==
  ASSUME NEW n, NEW A, NEW E, Ranged(A, E, n), NEW k \in 1..(n - 1), NEW e \in Nat, ReachIs(E, k, e),
         NEW g \in Nat, A[k + 1] - e > g
  PROVE  Between(Wide(A, E, n, g), A[k], A[k + 1]) = Between(Nat, e, A[k + 1])
<1> DEFINE next == A[k + 1]
<1>1. /\ Between(Bare(A, E, n), A[k], next) = Between(Nat, e, next)
      /\ \A j \in 1..k : A[j] <= e
      /\ \A j \in (k + 1)..n : next <= A[j]
  BY GapIs
<1>2. n \in Nat /\ \A j \in 1..n : A[j] \in Nat
  BY DEF Ranged
<1>3. next \in Nat /\ next - e > g
  BY <1>2
<1> HIDE DEF next
<1>4. ASSUME NEW a \in Nat, e <= a, a < next PROVE a \in Wide(A, E, n, g) /\ A[k] <= a
  <2> DEFINE p == IF a + g < next THEN a ELSE next - 1 - g
  <2>1. p \in Nat /\ e <= p /\ p + g < next /\ p <= a /\ a <= p + g
    BY <1>3, <1>4
  <2> HIDE DEF p
  <2>2. ASSUME NEW b \in Nat, p <= b, b <= p + g PROVE b \in Bare(A, E, n)
    <3>1. b \in Between(Nat, e, next)
      BY <1>3, <2>1, <2>2 DEF Between
    <3> QED
      BY <1>1, <3>1 DEF Between
  <2>3. ASSUME NEW j \in 1..n PROVE A[j] <= p \/ p + g < A[j]
    <3>1. CASE j \in 1..k
      BY <1>1, <1>2, <2>1, <3>1
    <3>2. CASE j \in (k + 1)..n
      BY <1>1, <1>2, <1>3, <2>1, <3>2
    <3>3. j \in 1..k \/ j \in (k + 1)..n
      BY <1>2
    <3> QED
      BY <3>1, <3>2, <3>3
  <2>4. Window(A, E, n, p, g)
    BY <2>2, <2>3 DEF Window
  <2>5. a \in Between(Nat, e, next)
    BY <1>4 DEF Between
  <2>6. a \in Bare(A, E, n) /\ A[k] <= a
    BY <1>1, <2>5 DEF Between
  <2> QED
    BY <2>1, <2>4, <2>6 DEF Wide
<1>5. Wide(A, E, n, g) \subseteq Bare(A, E, n)
  BY DEF Wide
<1>6. Between(Wide(A, E, n, g), A[k], next) = Between(Nat, e, next)
  <2>1. \A a : a \in Between(Wide(A, E, n, g), A[k], next) => a \in Between(Bare(A, E, n), A[k], next)
    BY <1>5 DEF Between
  <2>2. \A a : a \in Between(Nat, e, next) => a \in Between(Wide(A, E, n, g), A[k], next)
    BY <1>4 DEF Between
  <2> QED
    BY <1>1, <2>1, <2>2
<1> QED
  BY <1>6 DEF next

LEMMA NarrowGap ==
  ASSUME NEW n, NEW A, NEW E, Ranged(A, E, n), NEW k \in 1..(n - 1), NEW e \in Nat, ReachIs(E, k, e),
         NEW g \in Nat, A[k + 1] - e <= g
  PROVE  Between(Wide(A, E, n, g), A[k], A[k + 1]) = {}
<1>1. /\ Between(Bare(A, E, n), A[k], A[k + 1]) = Between(Nat, e, A[k + 1])
      /\ \A j \in 1..k : A[j] <= e
      /\ \A j \in (k + 1)..n : A[k + 1] <= A[j]
  BY GapIs
<1>2. n \in Nat /\ \A j \in 1..n : A[j] \in Nat /\ E[j] \in Nat /\ A[j] <= E[j]
  BY DEF Ranged
<1>3. k + 1 \in 1..n /\ \A j \in 1..k : j \in 1..n
  BY <1>2
<1>4. SUFFICES ASSUME NEW a \in Wide(A, E, n, g), A[k] <= a, a < A[k + 1] PROVE FALSE
  BY DEF Between
<1>5. PICK p \in Nat : p <= a /\ a <= p + g /\ Window(A, E, n, p, g)
  BY DEF Wide
<1>6. a \in Between(Bare(A, E, n), A[k], A[k + 1])
  BY <1>4 DEF Wide, Between
<1>7. a \in Nat /\ e <= a
  BY <1>1, <1>6 DEF Between
<1>8. /\ \A b \in Nat : p <= b /\ b <= p + g => b \in Bare(A, E, n)
      /\ \A j \in 1..n : A[j] <= p \/ p + g < A[j]
  BY <1>5 DEF Window
<1>9. CASE p < e
  <2>1. PICK j \in 1..k : e = E[j]
    BY DEF ReachIs
  <2>2. j \in 1..n /\ A[j] \in Nat /\ A[j] <= e
    BY <1>1, <1>3, <1>2
  <2>3. CASE A[j] = e
    BY <1>5, <1>7, <1>8, <1>9, <2>2, <2>3
  <2>4. CASE A[j] < e
    <3>1. e - 1 \in Nat /\ p <= e - 1 /\ e - 1 <= p + g
      BY <1>5, <1>7, <1>9
    <3>2. e - 1 \in Bare(A, E, n)
      BY <1>8, <3>1
    <3>3. e - 1 < A[j] \/ E[j] <= e - 1
      BY <2>2, <3>2 DEF Bare
    <3> QED
      BY <2>1, <2>2, <2>4, <3>3
  <2> QED
    BY <2>2, <2>3, <2>4
<1>10. CASE ~(p < e)
  <2>1. A[k + 1] \in Nat /\ A[k + 1] <= p + g /\ p < A[k + 1]
    BY <1>2, <1>3, <1>4, <1>5, <1>7, <1>10
  <2> QED
    BY <1>3, <1>8, <2>1
<1> QED
  BY <1>9, <1>10
(* The state of the sweep after k functions.                               *)
PadStates == [first : BOOLEAN, end : Nat, align : Nat, large : Nat]
Narrow(A, E, n, g) == Bare(A, E, n) \ Wide(A, E, n, g)
Swept(A, E, n, g, k, s) ==
  /\ s \in PadStates /\ ~s.first /\ ReachIs(E, k, s.end)
  /\ s.align = Cardinality(Between(Narrow(A, E, n, g), 0, A[k]))
  /\ s.large = Cardinality(Between(Wide(A, E, n, g), 0, A[k]))

LEMMA CountOn ==
  ASSUME NEW S \in SUBSET Nat, NEW x \in Nat, NEW y \in Nat, x <= y
  PROVE  /\ Cardinality(Between(S, 0, y)) = Cardinality(Between(S, 0, x)) + Cardinality(Between(S, x, y))
         /\ Cardinality(Between(S, 0, x)) \in Nat /\ Cardinality(Between(S, x, y)) \in Nat
         /\ IsFiniteSet(Between(S, 0, x))
<1>1. IsFiniteSet(0..y)
  BY FS_Interval
<1>2. \A a : a \in S => a \in Nat /\ 0 <= a
  OBVIOUS
<1> DEFINE P == Between(S, 0, x)
           Q == Between(S, x, y)
<1>a. /\ \A a : a \in P <=> a \in S /\ a < x
      /\ \A a : a \in Q <=> a \in S /\ x <= a /\ a < y
      /\ \A a : a \in Between(S, 0, y) <=> a \in S /\ a < y
  BY <1>2 DEF Between
<1> HIDE DEF P, Q
<1>b. P \subseteq 0..y /\ Q \subseteq 0..y
  BY <1>2, <1>a
<1>3. IsFiniteSet(P) /\ IsFiniteSet(Q)
  BY <1>1, <1>b, FS_Subset
<1>4. Between(S, 0, y) = P \cup Q
  <2>1. \A a : a \in Between(S, 0, y) <=> a \in P \/ a \in Q
    BY <1>2, <1>a
  <2> QED
    BY <2>1
<1>5. P \cap Q = {}
  BY <1>2, <1>a
<1>6. /\ Cardinality(P \cup Q) = Cardinality(P) + Cardinality(Q)
      /\ Cardinality(P) \in Nat /\ Cardinality(Q) \in Nat
  BY <1>3, <1>5, DisjointCount
<1> QED
  BY <1>3, <1>4, <1>6 DEF P, Q

LEMMA CountGap ==
  ASSUME NEW x \in Nat, NEW y \in Nat
  PROVE  Cardinality(Between(Nat, x, y)) = IF y <= x THEN 0 ELSE y - x
<1>1. Between(Nat, x, y) = x..(y - 1)
  BY DEF Between
<1>2. Cardinality(x..(y - 1)) = IF x > y - 1 THEN 0 ELSE y - 1 - x + 1
  BY FS_Interval
<1> QED
  BY <1>1, <1>2

LEMMA NextReach ==
  ASSUME NEW n, NEW A, NEW E, Ranged(A, E, n), NEW k \in 1..(n - 1), NEW e \in Nat, ReachIs(E, k, e)
  PROVE  ReachIs(E, k + 1, IF E[k + 1] > e THEN E[k + 1] ELSE e)
<1>1. n \in Nat /\ \A j \in 1..n : E[j] \in Nat
  BY DEF Ranged
<1>2. k + 1 \in 1..n /\ k + 1 \in 1..(k + 1) /\ k \in Nat
  BY <1>1
<1>3. PICK i \in 1..k : e = E[i]
  BY DEF ReachIs
<1>4. \A j \in 1..k : E[j] <= e
  BY DEF ReachIs
<1>5. \A j \in 1..(k + 1) : j \in 1..k \/ j = k + 1
  BY <1>2
<1>6. \A j \in 1..k : j \in 1..(k + 1) /\ E[j] \in Nat
  BY <1>1, <1>2
<1> DEFINE r == IF E[k + 1] > e THEN E[k + 1] ELSE e
<1>7. r >= e /\ r >= E[k + 1] /\ (r = e \/ r = E[k + 1]) /\ r \in Nat
  BY <1>1, <1>2
<1> HIDE DEF r
<1>8. \E j \in 1..(k + 1) : r = E[j]
  BY <1>2, <1>3, <1>6, <1>7
<1>9. \A j \in 1..(k + 1) : E[j] <= r
  BY <1>1, <1>2, <1>4, <1>5, <1>6, <1>7
<1>10. ReachIs(E, k + 1, r)
  BY <1>8, <1>9 DEF ReachIs
<1> QED
  BY <1>10 DEF r

LEMMA GapCounts ==
  ASSUME NEW n, NEW A, NEW E, Ranged(A, E, n), NEW k \in 1..(n - 1), NEW e \in Nat, ReachIs(E, k, e),
         NEW g \in Nat, NEW gap, gap = IF A[k + 1] <= e THEN 0 ELSE A[k + 1] - e
  PROVE  /\ gap \in Nat
         /\ Cardinality(Between(Wide(A, E, n, g), A[k], A[k + 1])) = IF gap <= g THEN 0 ELSE gap
         /\ Cardinality(Between(Narrow(A, E, n, g), A[k], A[k + 1])) = IF gap <= g THEN gap ELSE 0
<1>1. A[k + 1] \in Nat /\ k + 1 \in 1..n
  BY DEF Ranged
<1>2. gap \in Nat
  BY <1>1
<1>3. Between(Bare(A, E, n), A[k], A[k + 1]) = Between(Nat, e, A[k + 1])
  BY GapIs
<1>4. Cardinality(Between(Nat, e, A[k + 1])) = gap
  BY <1>1, CountGap
<1>5. Between(Narrow(A, E, n, g), A[k], A[k + 1]) = Between(Bare(A, E, n), A[k], A[k + 1]) \ Between(Wide(A, E, n, g), A[k], A[k + 1])
  BY DEF Narrow, Between
<1>6. Cardinality({}) = 0
  BY FS_EmptySet
<1>7. CASE gap <= g
  <2>1. A[k + 1] - e <= g
    BY <1>1, <1>7
  <2>2. Between(Wide(A, E, n, g), A[k], A[k + 1]) = {}
    BY <2>1, NarrowGap
  <2>3. Between(Narrow(A, E, n, g), A[k], A[k + 1]) = Between(Nat, e, A[k + 1])
    BY <1>3, <1>5, <2>2
  <2> QED
    BY <1>2, <1>4, <1>6, <1>7, <2>2, <2>3
<1>8. CASE ~(gap <= g)
  <2>1. A[k + 1] - e > g
    BY <1>1, <1>2, <1>8
  <2>2. Between(Wide(A, E, n, g), A[k], A[k + 1]) = Between(Nat, e, A[k + 1])
    BY <2>1, WideGap
  <2>3. Between(Narrow(A, E, n, g), A[k], A[k + 1]) = {}
    BY <1>3, <1>5, <2>2
  <2> QED
    BY <1>2, <1>4, <1>6, <1>8, <2>2, <2>3
<1> QED
  BY <1>7, <1>8

(* The first function leaves nothing before it, each later one its gap.    *)
LEMMA FirstSwept ==
  ASSUME NEW n, NEW A, NEW E, Ranged(A, E, n), NEW g \in Nat, NEW s \in PadStates,
         s = [first |-> FALSE, end |-> E[1], align |-> 0, large |-> 0]
  PROVE  Swept(A, E, n, g, 1, s)
<1>1. 1 \in 1..n /\ 1 \in 1..1 /\ E[1] \in Nat /\ A[1] \in Nat
  BY DEF Ranged
<1>2. ReachIs(E, 1, E[1])
  BY <1>1 DEF ReachIs
<1>3. Between(Wide(A, E, n, g), 0, A[1]) = {} /\ Between(Narrow(A, E, n, g), 0, A[1]) = {}
  BY <1>1 DEF Between, Narrow, Wide, Bare
<1>4. ~s.first /\ s.end = E[1] /\ s.align = 0 /\ s.large = 0
  OBVIOUS
<1>5. Cardinality({}) = 0
  BY FS_EmptySet
<1> QED
  BY <1>2, <1>3, <1>4, <1>5 DEF Swept

Stepped(A, E, n, g, k, s, t, gap) ==
  /\ gap = (IF A[k + 1] <= s.end THEN 0 ELSE A[k + 1] - s.end)
  /\ t = [first |-> FALSE, end |-> IF E[k + 1] > s.end THEN E[k + 1] ELSE s.end,
          align |-> s.align + (IF gap <= g THEN gap ELSE 0), large |-> s.large + (IF gap <= g THEN 0 ELSE gap)]

LEMMA NextSwept ==
  ASSUME NEW n, NEW A, NEW E, Ranged(A, E, n), NEW g \in Nat, NEW k \in 1..(n - 1), NEW s, Swept(A, E, n, g, k, s),
         NEW t, NEW gap, Stepped(A, E, n, g, k, s, t, gap)
  PROVE  Swept(A, E, n, g, k + 1, t)
<1>1. s \in PadStates /\ ~s.first /\ ReachIs(E, k, s.end)
  BY DEF Swept
<1>2. s.end \in Nat /\ s.align \in Nat /\ s.large \in Nat
  BY <1>1 DEF PadStates
<1> DEFINE e == s.end
           W == Wide(A, E, n, g)
           N == Narrow(A, E, n, g)
<1>3. e \in Nat /\ ReachIs(E, k, e) /\ gap = (IF A[k + 1] <= e THEN 0 ELSE A[k + 1] - e)
  BY <1>1, <1>2 DEF Stepped
<1> HIDE DEF e
<1>4. /\ gap \in Nat
      /\ Cardinality(Between(W, A[k], A[k + 1])) = (IF gap <= g THEN 0 ELSE gap)
      /\ Cardinality(Between(N, A[k], A[k + 1])) = (IF gap <= g THEN gap ELSE 0)
  BY <1>3, GapCounts
<1>5. A[k] \in Nat /\ A[k + 1] \in Nat /\ A[k] <= A[k + 1] /\ E[k + 1] \in Nat
  <2>1. k \in 1..n /\ k + 1 \in 1..n /\ k <= k + 1
    BY DEF Ranged
  <2> QED
    BY <2>1 DEF Ranged
<1>6. W \in SUBSET Nat /\ N \in SUBSET Nat
  BY DEF Wide, Narrow, Bare
<1> HIDE DEF W, N
<1>7. /\ Cardinality(Between(W, 0, A[k + 1])) = Cardinality(Between(W, 0, A[k])) + Cardinality(Between(W, A[k], A[k + 1]))
      /\ Cardinality(Between(N, 0, A[k + 1])) = Cardinality(Between(N, 0, A[k])) + Cardinality(Between(N, A[k], A[k + 1]))
  BY <1>5, <1>6, CountOn
<1>8. s.align = Cardinality(Between(N, 0, A[k])) /\ s.large = Cardinality(Between(W, 0, A[k]))
  BY DEF Swept, N, W
<1>9. /\ t.first = FALSE /\ t.end = (IF E[k + 1] > e THEN E[k + 1] ELSE e)
      /\ t.align = s.align + (IF gap <= g THEN gap ELSE 0) /\ t.large = s.large + (IF gap <= g THEN 0 ELSE gap)
      /\ t = [first |-> t.first, end |-> t.end, align |-> t.align, large |-> t.large]
  BY DEF Stepped, e
<1>10. ReachIs(E, k + 1, t.end)
  BY <1>3, <1>9, NextReach
<1>11. t.end \in Nat /\ t.align \in Nat /\ t.large \in Nat
  BY <1>2, <1>3, <1>4, <1>5, <1>9
<1>12. t \in PadStates
  BY <1>9, <1>11 DEF PadStates
<1>13. t.align = Cardinality(Between(N, 0, A[k + 1])) /\ t.large = Cardinality(Between(W, 0, A[k + 1]))
  BY <1>4, <1>7, <1>8, <1>9
<1> QED
  BY <1>9, <1>10, <1>12, <1>13 DEF Swept, N, W
NoPad == [first |-> TRUE, end |-> 0, align |-> 0, large |-> 0]
Begin(fs) == [k \in 1..Len(fs) |-> fs[k].addr]
End(fs) == [k \in 1..Len(fs) |-> EndOf(fs[k])]
SweptTo(fs, k, s) == IF k = 0 THEN s = NoPad ELSE Swept(Begin(fs), End(fs), Len(fs), smallGap, k, s)

LEMMA FuncsRanged ==
  ASSUME NEW fs \in Seq(Symbol), ByAddress(fs), fs # <<>>
  PROVE  /\ Ranged(Begin(fs), End(fs), Len(fs))
         /\ \A k \in 1..Len(fs) : /\ Begin(fs)[k] = fs[k].addr /\ End(fs)[k] = EndOf(fs[k])
                                  /\ fs[k].addr \in Nat /\ EndOf(fs[k]) \in Nat
<1>1. Len(fs) \in Nat \ {0} /\ DOMAIN fs = 1..Len(fs)
  BY LenProperties, EmptySeq
<1>2. \A k \in 1..Len(fs) : fs[k] \in Symbol
  BY <1>1, ElementOfSeq
<1>3. \A k \in 1..Len(fs) : fs[k].addr \in Nat /\ EndOf(fs[k]) \in Nat /\ fs[k].addr <= EndOf(fs[k])
  BY <1>2 DEF Symbol, EndOf
<1>4. \A j, k \in 1..Len(fs) : j <= k => fs[j].addr <= fs[k].addr
  <2> SUFFICES ASSUME NEW j \in 1..Len(fs), NEW k \in 1..Len(fs), j <= k PROVE fs[j].addr <= fs[k].addr
    OBVIOUS
  <2>1. CASE j = k
    BY <1>3, <2>1
  <2>2. CASE j < k
    BY <1>1, <2>2 DEF ByAddress
  <2> QED
    BY <1>1, <2>1, <2>2
<1>5. Begin(fs) \in [1..Len(fs) -> Nat] /\ End(fs) \in [1..Len(fs) -> Nat]
  BY <1>3 DEF Begin, End
<1>6. \A k \in 1..Len(fs) : Begin(fs)[k] = fs[k].addr /\ End(fs)[k] = EndOf(fs[k])
  BY DEF Begin, End
<1> QED
  BY <1>1, <1>3, <1>4, <1>5, <1>6 DEF Ranged

LEMMA PadStepIs ==
  ASSUME NEW fs \in Seq(Symbol), ByAddress(fs), fs # <<>>, NEW k \in 1..Len(fs), NEW s, SweptTo(fs, k - 1, s)
  PROVE  PadStep(s, fs[k]) \in PadStates /\ SweptTo(fs, k, PadStep(s, fs[k]))
<1> DEFINE n == Len(fs)
           A == Begin(fs)
           E == End(fs)
           t == PadStep(s, fs[k])
<1>1. smallGap \in Nat
  BY CommandAssumption
<1>2. Ranged(A, E, n) /\ A[k] = fs[k].addr /\ E[k] = EndOf(fs[k]) /\ A[k] \in Nat /\ E[k] \in Nat /\ n \in Nat
  BY FuncsRanged, LenProperties
<1>3. CASE k = 1
  <2>1. s = NoPad
    BY <1>3 DEF SweptTo
  <2>2. t = [first |-> FALSE, end |-> E[1], align |-> 0, large |-> 0]
    <3>1. Gap(s, fs[k]) = 0
      BY <2>1 DEF Gap, NoPad
    <3>2. Reach(s, fs[k]) = E[k]
      BY <1>2, <2>1 DEF Reach, NoPad
    <3>3. s.align = 0 /\ s.large = 0 /\ 0 <= smallGap
      BY <1>1, <2>1 DEF NoPad
    <3> QED
      BY <1>3, <3>1, <3>2, <3>3 DEF PadStep
  <2>3. t \in PadStates
    BY <1>2, <1>3, <2>2 DEF PadStates
  <2> HIDE DEF t, A, E, n
  <2>4. Swept(A, E, n, smallGap, 1, t)
    BY <1>1, <1>2, <2>2, <2>3, FirstSwept
  <2> QED
    BY <1>3, <2>3, <2>4 DEF SweptTo, t, A, E, n
<1>4. CASE k # 1
  <2> DEFINE j == k - 1
             gap == Gap(s, fs[k])
  <2>1. j \in 1..(n - 1) /\ j + 1 = k /\ j # 0 /\ k # 0
    BY <1>2, <1>4
  <2>2. Swept(A, E, n, smallGap, j, s)
    BY <2>1 DEF SweptTo
  <2>3. ~s.first
    BY <2>2 DEF Swept
  <2>4. gap = IF A[k] <= s.end THEN 0 ELSE A[k] - s.end
    BY <1>2, <2>3 DEF Gap
  <2>5. t = [first |-> FALSE, end |-> IF E[k] > s.end THEN E[k] ELSE s.end,
             align |-> s.align + (IF gap <= smallGap THEN gap ELSE 0),
             large |-> s.large + (IF gap <= smallGap THEN 0 ELSE gap)]
    BY <1>2 DEF PadStep, Reach
  <2> HIDE DEF t, A, E, n, gap, j
  <2>6. Stepped(A, E, n, smallGap, j, s, t, gap)
    BY <2>1, <2>4, <2>5 DEF Stepped
  <2>7. Swept(A, E, n, smallGap, j + 1, t)
    BY <1>1, <1>2, <2>1, <2>2, <2>6, NextSwept
  <2>8. t \in PadStates
    BY <2>7 DEF Swept
  <2> QED
    BY <2>1, <2>7, <2>8 DEF SweptTo, t, A, E, n
<1> QED
  BY <1>3, <1>4

LEMMA SweepEnds ==
  ASSUME NEW b, b.noLayout = FALSE, NEW fs \in Seq(Symbol), fs = Funcs(b.table), ByAddress(fs), fs # <<>>
  PROVE  \E s : SweptTo(fs, Len(fs), s) /\ Padding(b) = [align |-> s.align, large |-> s.large]
<1> DEFINE n == Len(fs)
           F == [k \in 1..n |-> [s \in PadStates |-> PadStep(s, fs[k])]]
           after == CHOOSE after : after = [k \in 0..n |-> IF k = 0 THEN NoPad ELSE PadStep(after[k - 1], fs[k])]
           Good == [k \in 0..n |-> {s \in PadStates : SweptTo(fs, k, s)}]
<1>1. n \in Nat \ {0}
  BY LenProperties, EmptySeq
<1>2. Padding(b) = [align |-> after[n].align, large |-> after[n].large]
  BY DEF Padding, NoPad
<1>3. NoPad \in PadStates /\ SweptTo(fs, 0, NoPad)
  BY DEF NoPad, PadStates, SweptTo
<1>4. ASSUME NEW k \in 1..n, NEW s \in PadStates, SweptTo(fs, k - 1, s)
      PROVE  /\ F[k][s] = PadStep(s, fs[k])
             /\ PadStep(s, fs[k]) \in PadStates /\ SweptTo(fs, k, PadStep(s, fs[k]))
  <2>1. F[k][s] = PadStep(s, fs[k])
    OBVIOUS
  <2> HIDE DEF F
  <2>2. PadStep(s, fs[k]) \in PadStates /\ SweptTo(fs, k, PadStep(s, fs[k]))
    BY <1>4, PadStepIs
  <2> QED
    BY <2>1, <2>2
<1> HIDE DEF F, n
<1>5. StaysIn(Good, NoPad, n, F)
  <2>1. NoPad \in Good[0]
    BY <1>1, <1>3
  <2>2. ASSUME NEW k \in 1..n, NEW s \in Good[k - 1] PROVE F[k][s] \in Good[k]
    <3>1. k \in 0..n /\ k - 1 \in 0..n
      BY <1>1
    <3>2. s \in PadStates /\ SweptTo(fs, k - 1, s)
      BY <3>1
    <3>3. F[k][s] \in PadStates /\ SweptTo(fs, k, F[k][s])
      BY <1>4, <3>2
    <3> QED
      BY <3>1, <3>3
  <2> HIDE DEF Good
  <2> QED
    BY <2>1, <2>2 DEF StaysIn
<1>6. PICK h : /\ DOMAIN h = 0..n /\ h = [k \in 0..n |-> h[k]]
               /\ Follows(h, NoPad, n, F)
               /\ \A k \in 0..n : h[k] \in Good[k]
  <2> HIDE DEF Good
  <2> QED
    BY <1>1, <1>5, Loop
<1>7. \A k \in 0..n : h[k] \in PadStates /\ SweptTo(fs, k, h[k])
  BY <1>6
<1>8. h = [k \in 0..n |-> IF k = 0 THEN NoPad ELSE PadStep(h[k - 1], fs[k])]
  <2>1. ASSUME NEW k \in 0..n PROVE h[k] = IF k = 0 THEN NoPad ELSE PadStep(h[k - 1], fs[k])
    <3>1. CASE k = 0
      BY <1>6, <3>1 DEF Follows
    <3>2. CASE k # 0
      <4>1. k \in 1..n /\ k - 1 \in 0..n
        BY <1>1, <3>2
      <4>2. h[k] = F[k][h[k - 1]]
        BY <1>6, <4>1 DEF Follows
      <4>3. h[k - 1] \in PadStates /\ SweptTo(fs, k - 1, h[k - 1])
        BY <1>7, <4>1
      <4>4. F[k][h[k - 1]] = PadStep(h[k - 1], fs[k])
        BY <1>4, <4>1, <4>3
      <4> QED
        BY <3>2, <4>2, <4>4
    <3> QED
      BY <3>1, <3>2
  <2> QED
    BY <1>6, <2>1
<1>9. after = [k \in 0..n |-> IF k = 0 THEN NoPad ELSE PadStep(after[k - 1], fs[k])]
  BY <1>8
<1> HIDE DEF after
<1> DEFINE D == {k \in 0..n : after[k] \in PadStates /\ SweptTo(fs, k, after[k])}
<1>10. 0 \in D
  <2>1. 0 \in 0..n
    BY <1>1
  <2>2. after[0] = NoPad
    BY <1>9, <2>1
  <2> QED
    BY <1>3, <2>1, <2>2
<1>11. ASSUME NEW k \in 1..n, k - 1 \in D PROVE k \in D
  <2>1. k \in 0..n /\ k # 0
    BY <1>1
  <2>2. after[k] = PadStep(after[k - 1], fs[k])
    BY <1>9, <2>1
  <2>3. after[k - 1] \in PadStates /\ SweptTo(fs, k - 1, after[k - 1])
    BY <1>11
  <2> QED
    BY <1>4, <2>1, <2>2, <2>3
<1>12. \A k \in 0..n : k \in D
  <2> HIDE DEF D
  <2> QED
    BY <1>1, <1>10, <1>11, Induction
<1>13. n \in 0..n
  BY <1>1
<1> QED
  BY <1>2, <1>12, <1>13 DEF n
LEMMA SweepCounts ==
  ASSUME NEW n, NEW A, NEW E, Ranged(A, E, n), NEW g, NEW s, Swept(A, E, n, g, n, s)
  PROVE  s.align = Cardinality(Bare(A, E, n) \ Wide(A, E, n, g)) /\ s.large = Cardinality(Wide(A, E, n, g))
<1>1. \A a \in Bare(A, E, n) : 0 <= a /\ a < A[n]
  BY DEF Bare
<1>2. Wide(A, E, n, g) \subseteq Bare(A, E, n)
  BY DEF Wide
<1>3. Between(Wide(A, E, n, g), 0, A[n]) = Wide(A, E, n, g)
  BY <1>1, <1>2 DEF Between
<1>4. Between(Narrow(A, E, n, g), 0, A[n]) = Bare(A, E, n) \ Wide(A, E, n, g)
  BY <1>1 DEF Between, Narrow
<1> QED
  BY <1>3, <1>4 DEF Swept

LEMMA LeastAndMost ==
  ASSUME NEW S \in SUBSET Nat, NEW x \in S
  PROVE  ((\A y \in S : x <= y) => Min(S) = x) /\ ((\A y \in S : x >= y) => Max(S) = x)
<1>1. ASSUME \A y \in S : x <= y PROVE Min(S) = x
  <2>1. \A z \in S : (\A y \in S : z <= y) => z = x
    BY <1>1
  <2> QED
    BY <1>1, <2>1 DEF Min
<1>2. ASSUME \A y \in S : x >= y PROVE Max(S) = x
  <2>1. \A z \in S : (\A y \in S : z >= y) => z = x
    BY <1>2
  <2> QED
    BY <1>2, <2>1 DEF Max
<1> QED
  BY <1>1, <1>2

Uncovered(fs) == {a \in Min({f.addr : f \in fs})..Max({EndOf(f) : f \in fs}) :
                   /\ \A f \in fs : a \notin f.addr..(EndOf(f) - 1)
                   /\ \E f \in fs : a < f.addr}
InLarge(fs, free) == {a \in free : \E first \in free :
                       /\ a \in first..(first + smallGap)
                       /\ first..(first + smallGap) \subseteq free
                       /\ \A f \in fs : f.addr \notin (first + 1)..(first + smallGap)}

LEMMA UncoveredIs ==
  ASSUME NEW fs \in Seq(Symbol), ByAddress(fs), fs # <<>>, NEW e \in Nat, ReachIs(End(fs), Len(fs), e)
  PROVE  /\ Uncovered(Range(fs)) = Bare(Begin(fs), End(fs), Len(fs))
         /\ InLarge(Range(fs), Bare(Begin(fs), End(fs), Len(fs))) = Wide(Begin(fs), End(fs), Len(fs), smallGap)
<1> DEFINE n == Len(fs)
           A == Begin(fs)
           E == End(fs)
           B == Bare(A, E, n)
           R == Range(fs)
<1>1. Ranged(A, E, n) /\ \A k \in 1..n : A[k] = fs[k].addr /\ E[k] = EndOf(fs[k]) /\ A[k] \in Nat /\ E[k] \in Nat
  BY FuncsRanged
<1>2. n \in Nat \ {0} /\ (\A k \in 1..n : A[k] <= E[k]) /\ \A j, k \in 1..n : j <= k => A[j] <= A[k]
  BY <1>1 DEF Ranged
<1>3. R = {fs[k] : k \in 1..n}
  BY LenProperties DEF Range
<1>4. smallGap \in Nat
  BY CommandAssumption
<1>5. (\E j \in 1..n : e = E[j]) /\ \A j \in 1..n : E[j] <= e
  BY DEF ReachIs
<1> HIDE DEF n, A, E, R
<1>6. {f.addr : f \in R} = {A[k] : k \in 1..n} /\ {EndOf(f) : f \in R} = {E[k] : k \in 1..n}
  BY <1>1, <1>3
<1>7. 1 \in 1..n /\ n \in 1..n
  BY <1>2
<1>8. Min({f.addr : f \in R}) = A[1]
  <2> DEFINE S == {A[k] : k \in 1..n}
  <2>1. S \in SUBSET Nat /\ A[1] \in S /\ \A y \in S : A[1] <= y
    BY <1>1, <1>2, <1>7
  <2> HIDE DEF S
  <2>2. Min(S) = A[1]
    BY <2>1, LeastAndMost
  <2> QED
    BY <1>6, <2>2 DEF S
<1>9. Max({EndOf(f) : f \in R}) = e
  <2> DEFINE S == {E[k] : k \in 1..n}
  <2>1. S \in SUBSET Nat /\ e \in S /\ \A y \in S : e >= y
    BY <1>1, <1>5
  <2> HIDE DEF S
  <2>2. Max(S) = e
    BY <2>1, LeastAndMost
  <2> QED
    BY <1>6, <2>2 DEF S
<1>10. \A a \in Nat : (\A f \in R : a \notin f.addr..(EndOf(f) - 1)) <=> \A k \in 1..n : a < A[k] \/ E[k] <= a
  <2> TAKE a \in Nat
  <2>1. \A k \in 1..n : a \notin (fs[k].addr)..(EndOf(fs[k]) - 1) <=> a < A[k] \/ E[k] <= a
    BY <1>1
  <2> QED
    BY <1>3, <2>1
<1>11. \A a \in Nat : (\E f \in R : a < f.addr) <=> a < A[n]
  <2> TAKE a \in Nat
  <2>1. (\E f \in R : a < f.addr) <=> \E k \in 1..n : a < A[k]
    BY <1>1, <1>3
  <2>2. \A k \in 1..n : A[k] <= A[n] /\ A[k] \in Nat /\ A[n] \in Nat
    BY <1>1, <1>2, <1>7
  <2> QED
    BY <1>7, <2>1, <2>2
<1>12. A[n] <= e /\ A[n] \in Nat /\ A[1] \in Nat
  BY <1>1, <1>2, <1>5, <1>7
<1>13. Uncovered(R) = B
  <2>1. \A a : a \in Uncovered(R) <=> a \in (A[1])..e /\ (\A k \in 1..n : a < A[k] \/ E[k] <= a) /\ a < A[n]
    <3> TAKE a
    <3>1. a \in Uncovered(R) <=> a \in (A[1])..e /\ (\A f \in R : a \notin f.addr..(EndOf(f) - 1)) /\ \E f \in R : a < f.addr
      BY <1>8, <1>9 DEF Uncovered
    <3>2. a \in (A[1])..e => a \in Nat
      BY <1>12
    <3> QED
      BY <1>10, <1>11, <3>1, <3>2
  <2>2. \A a : a \in B <=> a \in Nat /\ A[1] <= a /\ a < A[n] /\ \A k \in 1..n : a < A[k] \/ E[k] <= a
    BY DEF Bare
  <2>3. \A a : (a \in (A[1])..e /\ a < A[n]) <=> (a \in Nat /\ A[1] <= a /\ a < A[n])
    BY <1>12
  <2> HIDE DEF B
  <2> QED
    BY <2>1, <2>2, <2>3
<1>14. ASSUME NEW p \in Nat
       PROVE  Window(A, E, n, p, smallGap) <=> /\ p \in B /\ p..(p + smallGap) \subseteq B
                                               /\ \A f \in R : f.addr \notin (p + 1)..(p + smallGap)
  <2>1. (\A f \in R : f.addr \notin (p + 1)..(p + smallGap)) <=> \A k \in 1..n : A[k] <= p \/ p + smallGap < A[k]
    <3>1. \A k \in 1..n : (fs[k].addr) \notin (p + 1)..(p + smallGap) <=> A[k] <= p \/ p + smallGap < A[k]
      BY <1>1, <1>4
    <3> QED
      BY <1>3, <3>1
  <2>2. (\A b \in Nat : p <= b /\ b <= p + smallGap => b \in B) <=> p \in B /\ p..(p + smallGap) \subseteq B
    <3> HIDE DEF B
    <3>1. p \in p..(p + smallGap) /\ \A b : b \in p..(p + smallGap) <=> b \in Nat /\ p <= b /\ b <= p + smallGap
      BY <1>4
    <3> QED
      BY <3>1
  <2> QED
    BY <2>1, <2>2 DEF Window
<1>15. InLarge(R, B) = Wide(A, E, n, smallGap)
  <2>1. B \subseteq Nat
    BY DEF Bare
  <2>2. \A a \in B, p \in B : a \in p..(p + smallGap) <=> p <= a /\ a <= p + smallGap
    <3> HIDE DEF B
    <3> QED
      BY <1>4, <2>1
  <2>3. \A a : a \in InLarge(R, B) <=> a \in B /\ \E p \in B : /\ p <= a /\ a <= p + smallGap
                                       /\ p..(p + smallGap) \subseteq B
                                       /\ \A f \in R : f.addr \notin (p + 1)..(p + smallGap)
    <3> HIDE DEF B
    <3> QED
      BY <2>2 DEF InLarge
  <2>4. \A a : a \in Wide(A, E, n, smallGap) <=> a \in B /\ \E p \in Nat : p <= a /\ a <= p + smallGap /\ Window(A, E, n, p, smallGap)
    BY DEF Wide
  <2> HIDE DEF B
  <2> QED
    BY <1>14, <2>1, <2>3, <2>4
<1> QED
  BY <1>13, <1>15 DEF n, A, E, R

PaddingIs(b, fs) ==
  Padding(b) = IF b.noLayout THEN [align |-> 0, large |-> 0]
               ELSE [align |-> Cardinality(Uncovered(fs) \ InLarge(fs, Uncovered(fs))),
                     large |-> Cardinality(InLarge(fs, Uncovered(fs)))]

LEMMA PaddingCounted ==
  ASSUME NEW b \in Binary, b.table # <<>>
  PROVE  PaddingIs(b, Range(Funcs(b.table)))
<1> DEFINE fs == Funcs(b.table)
<1>2. b.noLayout \in BOOLEAN /\ b.table \in Seq(Symbol) /\ ByAddress(b.table)
  BY DEF Binary
<1>3. fs \in Seq(Symbol) /\ ByAddress(fs) /\ fs # <<>>
  BY <1>2, FuncsAre
<1>4. CASE b.noLayout = FALSE
  <2> DEFINE n == Len(fs)
             A == Begin(fs)
             E == End(fs)
  <2>1. PICK s : SweptTo(fs, n, s) /\ Padding(b) = [align |-> s.align, large |-> s.large]
    BY <1>3, <1>4, SweepEnds
  <2>2. n # 0
    BY <1>3, LenProperties, EmptySeq
  <2>3. Swept(A, E, n, smallGap, n, s)
    BY <2>1, <2>2 DEF SweptTo
  <2>4. Ranged(A, E, n)
    BY <1>3, FuncsRanged
  <2>5. s.end \in Nat /\ ReachIs(E, n, s.end)
    BY <2>3 DEF Swept, PadStates
  <2>6. /\ Uncovered(Range(fs)) = Bare(A, E, n)
        /\ InLarge(Range(fs), Bare(A, E, n)) = Wide(A, E, n, smallGap)
    BY <1>3, <2>5, UncoveredIs
  <2> HIDE DEF fs, n, A, E
  <2>7. s.align = Cardinality(Bare(A, E, n) \ Wide(A, E, n, smallGap)) /\ s.large = Cardinality(Wide(A, E, n, smallGap))
    BY <2>3, <2>4, SweepCounts
  <2> QED
    BY <1>4, <2>1, <2>6, <2>7 DEF PaddingIs, fs
<1>5. CASE b.noLayout = TRUE
  <2> DEFINE L == IF b.noLayout THEN <<>> ELSE Funcs(b.table)
             after == CHOOSE after : after = [k \in 0..Len(L) |-> IF k = 0 THEN NoPad ELSE PadStep(after[k - 1], L[k])]
  <2>1. Padding(b) = [align |-> after[Len(L)].align, large |-> after[Len(L)].large]
    BY DEF Padding, NoPad
  <2>2. L = <<>> /\ Len(L) = 0
    BY <1>5, EmptySeq
  <2> HIDE DEF L
  <2>3. after = [k \in 0..Len(L) |-> IF k = 0 THEN NoPad ELSE PadStep(after[k - 1], L[k])]
    <3> DEFINE h == [k \in 0..Len(L) |-> NoPad]
    <3>1. h = [k \in 0..Len(L) |-> IF k = 0 THEN NoPad ELSE PadStep(h[k - 1], L[k])]
      BY <2>2
    <3> HIDE DEF h
    <3> QED
      BY <3>1
  <2> HIDE DEF after
  <2>4. after[0] = NoPad /\ after[Len(L)] = after[0]
    BY <2>2, <2>3
  <2> QED
    BY <1>5, <2>1, <2>4 DEF NoPad, PaddingIs
<1> QED
  BY <1>2, <1>4, <1>5

LEMMA PaddingHolds ==
  ASSUME bin \in Binary
  PROVE  PaddingIsUncovered
<1>1. SUFFICES ASSUME bin.table # <<>> PROVE PaddingIs(bin, Range(Funcs(bin.table)))
  BY Zenon DEF PaddingIsUncovered, PaddingIs, Uncovered, InLarge
<1> QED
  BY <1>1, PaddingCounted
(* The tables are printed only of flags that were accepted.                *)
LEMMA TopIsKnown ==
  ASSUME FlagsInv, WorkInv, ShownInv, Printed("statsTables") PROVE c.top \in Nat
<1>1. out # <<>> /\ out[Len(out)].kind = "statsTables" /\ out \in Seq(Items)
  BY DEF Printed, WorkInv
<1>2. pc \in Text \cup Ended
  BY <1>1 DEF WorkInv, ShownInv, FlagsInv, Silent, Text, Ended, Reporting
<1>3. pc \in Text => ~Rejected
  BY DEF FlagsInv, Text, Ended
<1>4. pc \in Ended => EndedWell
  BY DEF ShownInv
<1>5. Len(out) \in Nat \ {0}
  BY <1>1, LenProperties, EmptySeq
<1>6. ASSUME c.version, EndedWell PROVE FALSE
  <2> DEFINE v == <<Item("version", <<>>)>>
  <2>1. Report = v
    BY <1>6, Zenon DEF Report
  <2>2. Len(v) = 1 /\ v[1].kind = "version"
    BY DEF Item
  <2> HIDE DEF v
  <2>3. CASE error = NoError
    <3>1. out = v
      BY <1>6, <2>1, <2>3, Zenon DEF EndedWell
    <3> QED
      BY <1>1, <2>2, <3>1
  <2>4. CASE error # NoError
    <3>1. Cut
      BY <1>1, <1>6, <2>4, Zenon DEF EndedWell
    <3>2. PICK rest \in Seq(Items) : rest # <<>> /\ v = out \o rest
      BY <2>1, <3>1, Zenon DEF Cut
    <3>3. Len(out \o rest) = Len(out) + Len(rest) /\ Len(rest) \in Nat \ {0}
      BY <1>1, <3>2, ConcatProperties, LenProperties, EmptySeq
    <3> QED
      BY <1>5, <2>2, <3>2, <3>3
  <2> QED
    BY <2>3, <2>4
<1>7. ~Rejected
  BY <1>1, <1>2, <1>3, <1>4, <1>6 DEF EndedWell
<1>8. c.top \in Int /\ ~(c.top < 0)
  BY <1>7 DEF Rejected, FlagsInv, Flags
<1> QED
  BY <1>8

(* What is printed of one binary accounts for its text.                    *)
LEMMA StatsHold ==
  ASSUME FlagsInv, WorkInv, ShownInv PROVE StatsAccountForText
<1>1. bin \in Binary
  BY DEF FlagsInv, BinOK, Binary
<1>2. PaddingIsUncovered
  BY <1>1, PaddingHolds
<1>3. ASSUME Printed("statsTables") PROVE Accounts(bin, StatsTables(bin), StatsHead(bin).text, c.top)
  <2>1. c.top \in Nat
    BY <1>3, TopIsKnown
  <2>2. StatsTables(bin) = [insts |-> Total(Funcs(bin.table), "insts"), packages |-> Packages(Funcs(bin.table)),
                            largest |-> Largest(Funcs(bin.table), c.top)]
    BY Zenon DEF StatsTables
  <2>3. StatsHead(bin).text = TextBytes(bin)
    BY DEF StatsHead
  <2>4. Accounts(bin, StatsTables(bin), TextBytes(bin), c.top)
    BY <1>1, <2>1, <2>2, TablesAccount
  <2> QED
    BY <2>3, <2>4
<1> QED
  BY <1>2, <1>3, Zenon DEF StatsAccountForText, Accounts


-----------------------------------------------------------------------------
CommandInv == FlagsInv /\ HeldInv /\ WorkInv /\ ErrorInv

LEMMA CommandInvStarts ==
  ASSUME CommandInit PROVE CommandInv
<1>1. PICK r \in Runs : c = r.flags /\ bin = r.bin
  BY DEF CommandInit
<1>2. /\ pairs = <<>> /\ pc = "start" /\ held = <<>> /\ work = <<>> /\ at = 0
      /\ doc = <<>> /\ out = <<>> /\ error = NoError
  BY DEF CommandInit
<1>3. c \in Flags /\ BinOK
  BY <1>1, CommandAssumption DEF BinOK
<1>4. <<>> \in Seq(Pair) /\ <<>> \in Seq(Resources) /\ <<>> \in Seq(Items) /\ <<>> \in Seq(Entries(pairs))
      /\ DOMAIN <<>> = {} /\ Len(<<>>) = 0
  OBVIOUS
<1>5. FlagsInv
  BY <1>2, <1>3, <1>4 DEF FlagsInv, Opening, OfOne, OfTwo, Reporting, Ended, NamedOnce
<1>6. HeldInv
  <2>1. Ordered(held, Taken(pc))
    BY <1>2, <1>4 DEF Ordered
  <2>2. Required(pc) = {}
    BY <1>2 DEF Required, OfOne, OfTwo, Reporting
  <2> QED
    BY <2>1, <2>2 DEF HeldInv
<1>7. WorkInv
  BY <1>2, <1>4 DEF WorkInv
<1>8. ErrorInv
  BY <1>2 DEF ErrorInv, NoError
<1> QED
  BY <1>5, <1>6, <1>7, <1>8 DEF CommandInv

LEMMA CommandInvStays ==
  ASSUME CommandInv, UNCHANGED commandVars PROVE CommandInv'
<1>1. UNCHANGED <<c, bin, pairs, pc, held, work, at, doc, out, error>>
  BY DEF commandVars
<1>2. FlagsInv'
  BY <1>1 DEF CommandInv, FlagsInv, BinOK, Rejected, ComparisonFlags, ForBlocks
<1>3. HeldInv'
  <2>1. Required(pc)' = Required(pc) /\ Taken(pc)' = Taken(pc)
    BY <1>1 DEF Required, ForBlocks, Taken
  <2> QED
    BY <1>1, <2>1 DEF CommandInv, HeldInv
<1>4. WorkInv'
  BY <1>1, SameItems DEF CommandInv, WorkInv
<1>5. ErrorInv'
  <2>1. KnownTo(bin, pairs)' = KnownTo(bin, pairs)
    BY <1>1 DEF KnownTo
  <2> QED
    BY <1>1, <2>1 DEF CommandInv, ErrorInv
<1> QED
  BY <1>2, <1>3, <1>4, <1>5 DEF CommandInv

(* The invariant that the properties below follow from: which flags were   *)
(* accepted where, what is held by then, what is done of the work.         *)
THEOREM CommandInvariant == CommandSpec => []CommandInv
<1>1. CommandInv /\ [CommandNext]_commandVars => CommandInv'
  <2> SUFFICES ASSUME CommandInv, CommandNext PROVE CommandInv'
    BY CommandInvStays
  <2> QED
    BY FlagsInvHolds, HeldInvHolds, WorkInvHolds, ErrorInvHolds DEF CommandInv
<1> QED
  BY <1>1, CommandInvStarts, PTL DEF CommandSpec

(* What is held was taken in the order of Execute, reports are of pairs at *)
(* hand, and only a run that has ended has an error.                       *)
THEOREM CommandTypes == CommandSpec => []CommandTypeOK
<1>1. CommandInv => CommandTypeOK
  <2> SUFFICES ASSUME CommandInv PROVE CommandTypeOK
    OBVIOUS
  <2>1. held \in Seq(Range(Order)) /\ \A j, k \in DOMAIN held : j < k => Place(held[j]) < Place(held[k])
    BY PlacesAre DEF CommandInv, HeldInv, Ordered
  <2>2. at \in 0..Len(work) /\ doc \in Seq(Entries(pairs))
    BY DEF CommandInv, WorkInv
  <2>3. ASSUME NEW k \in DOMAIN doc PROVE doc[k].pair \in Range(pairs) /\ (doc[k].diff => doc[k].stats)
    <3>1. doc[k] \in Entries(pairs)
      BY <2>2, LenProperties, ElementOfSeq
    <3> QED
      BY <3>1 DEF Entries
  <2>4. (error # NoError) => pc \in {"return", "exited"}
    BY DEF CommandInv, FlagsInv, Ended
  <2> QED
    BY <2>1, <2>2, <2>3, <2>4 DEF CommandTypeOK
<1> QED
  BY <1>1, CommandInvariant, PTL

(* Nothing is decoded from a binary that is not mapped.                    *)
THEOREM ReadsMapped == CommandSpec => ReadsAreMapped
<1>1. CommandInv /\ CommandNext => ReadStep
  BY ReadsAre DEF CommandInv
<1>2. ReadStep <=> /\ pc = "compare" => {"old", "new"} \subseteq Range(held)
                   /\ \A k \in (Len(out) + 1)..Len(out') : Needs(out'[k]) \subseteq Range(held)
                   /\ \A k \in (Len(doc) + 1)..Len(doc') : doc'[k].diff => SideOf(doc'[k].pair) \subseteq Range(held)
  BY Zenon DEF ReadStep, Read
<1> QED
  BY <1>1, <1>2, CommandInvariant, PTL DEF CommandSpec, ReadsAreMapped

(* An unknown name is answered with the known names nearest to it.         *)
THEOREM NearestSuggested == CommandSpec => []SuggestionsAreNearest
<1>1. CommandInv => SuggestionsAreNearest
  <2> SUFFICES ASSUME CommandInv, error.why = "name"
               PROVE  AreNearest(error.closest, work[at + 1], NamesOf(KnownTo(bin, pairs)), 3)
    BY DEF SuggestionsAreNearest, NamesOf
  <2> DEFINE ps == KnownTo(bin, pairs)
             name == c.fns[at + 1]
  <2>1. error = NotFound(ps, name) /\ work = c.fns /\ at < Len(c.fns) /\ at \in Nat
    BY DEF CommandInv, ErrorInv, WorkInv
  <2>2. c.fns \in Seq(Name) /\ Len(c.fns) \in Nat
    BY LenProperties DEF CommandInv, FlagsInv, Flags
  <2>3. name \in Seq(Nat)
    <3>1. at + 1 \in 1..Len(c.fns)
      BY <2>1, <2>2
    <3> QED
      BY <2>2, <3>1, ElementOfSeq DEF Name
  <2>4. ps \in Seq(Pair) \/ ps \in Seq(Symbol)
    <3>1. bin.table \in Seq(Symbol) /\ ByAddress(bin.table) /\ pairs \in Seq(Pair)
      BY DEF CommandInv, FlagsInv, BinOK
    <3>2. Funcs(bin.table) \in Seq(Symbol)
      BY <3>1, FuncsAre
    <3> QED
      BY <3>1, <3>2 DEF KnownTo
  <2> HIDE DEF ps, name
  <2>5. IsFiniteSet(DOMAIN ps) /\ \A k \in DOMAIN ps : ps[k].name \in Seq(Nat)
    <3>1. DOMAIN ps = 1..Len(ps) /\ Len(ps) \in Nat
      BY <2>4, LenProperties
    <3>2. IsFiniteSet(1..Len(ps))
      BY <3>1, Positions
    <3>3. ASSUME NEW k \in DOMAIN ps PROVE ps[k].name \in Seq(Nat)
      <4>1. ps[k] \in Pair \/ ps[k] \in Symbol
        BY <2>4, <3>1, ElementOfSeq
      <4> QED
        BY <4>1 DEF Pair, Symbol, Name
    <3> QED
      BY <3>1, <3>2, <3>3
  <2>6. AreNearest(ClosestNames(ps, name, 3), name, NamesOf(ps), 3)
    BY <2>3, <2>5, ClosestAreNearest
  <2>7. error.closest = ClosestNames(ps, name, 3) /\ work[at + 1] = name
    BY <2>1 DEF NotFound, name
  <2> QED
    BY <2>6, <2>7 DEF ps
<1> QED
  BY <1>1, CommandInvariant, PTL

(* What is shown by each stage.                                            *)
LEMMA ShownInvariant == CommandSpec => [](CommandInv /\ ShownInv)
<1> DEFINE I == CommandInv /\ ShownInv
<1>1. CommandInit => I
  <2> SUFFICES ASSUME CommandInit PROVE ShownInv
    BY CommandInvStarts
  <2> QED
    BY DEF CommandInit, ShownInv, Text, Ended
<1>2. I /\ [CommandNext]_commandVars => I'
  <2> SUFFICES ASSUME I, [CommandNext]_commandVars PROVE I'
    OBVIOUS
  <2>1. CASE CommandNext
    <3>1. CommandInv'
      BY <2>1, FlagsInvHolds, HeldInvHolds, WorkInvHolds, ErrorInvHolds DEF CommandInv
    <3>2. ShownInv'
      BY <2>1, ShownInvHolds DEF CommandInv
    <3> QED
      BY <3>1, <3>2
  <2>2. CASE UNCHANGED commandVars
    <3>1. CommandInv' /\ ShownInv'
      BY <2>2, CommandInvStays, ShownInvStays
    <3> QED
      BY <3>1
  <2> QED
    BY <2>1, <2>2
<1> QED
  BY <1>1, <1>2, PTL DEF CommandSpec

(* At any time what is printed is the beginning of the report on what the  *)
(* names, the pairs or the binary are, whole if and only if the run ends   *)
(* without error; nothing is printed with a flag that one binary has no    *)
(* use for.  ShownInv says which part is printed, or collected, by then.   *)
THEOREM ReportsWhole == CommandSpec => []ReportsAreWhole
<1>1. CommandInv /\ ShownInv => ReportsAreWhole
  BY ShownIsWhole DEF CommandInv
<1> QED
  BY <1>1, ShownInvariant, PTL

(* The lines and tables on one binary account for its text: each uncovered *)
(* address is padding once, what the packages listed have and what those   *)
(* beyond the cap have is all, and nothing left out is larger.             *)
THEOREM StatsAccounted == CommandSpec => []StatsAccountForText
<1>1. CommandInv /\ ShownInv => StatsAccountForText
  BY StatsHold DEF CommandInv
<1> QED
  BY <1>1, ShownInvariant, PTL
=============================================================================
